---------------------------- MODULE MCServices ----------------------------
(* Eight parts that do not touch each other, one at a time: `focus` is the   *)
(* one whose steps a behaviour takes.                                       *)
EXTENDS TxChart, Lockout, AuditViewer, IdleGate, IncidentReports, UpstreamHealth, ProviderLinks,
        TryMe, TLC

CONSTANTS any, odd, panelA, panelB, panelC, keyA, keyB,
          f1, f2, rest, grpc, r1, r2, call, sub, foreign

VARIABLE focus

WholeStep == 100..115
Rows == (any :> {1, 2, 3, 4}) @@ (odd :> {1, 3})
SharedKey == (panelA :> keyA) @@ (panelB :> keyA) @@ (panelC :> keyB)

Init ==
  /\ focus \in {"chart", "lockout", "viewer", "idle", "reports", "health", "links", "drawer"}
  /\ ChartInit /\ LockoutInit /\ ViewerInit
  /\ IdleInit /\ ReportInit /\ HealthInit /\ LinksInit /\ DrawerInit
  /\ focus # "health" => given = {} /\ expected = Iface
  /\ focus # "drawer" =>
       /\ drawerRow = [ws |-> FALSE, direct |-> {}, backup |-> FALSE]
       /\ controls.command = call

Next ==
  /\ UNCHANGED focus
  /\ \/ focus = "chart" /\ ChartNext
        /\ UNCHANGED <<lockoutVars, viewerVars, idleVars, reportVars,
                        healthVars, linksVars, drawerVars>>
     \/ focus = "lockout" /\ LockoutNext
        /\ UNCHANGED <<chart, viewerVars, idleVars, reportVars,
                        healthVars, linksVars, drawerVars>>
     \/ focus = "viewer" /\ ViewerNext
        /\ UNCHANGED <<chart, lockoutVars, idleVars, reportVars,
                        healthVars, linksVars, drawerVars>>
     \/ focus = "idle" /\ IdleNext
        /\ UNCHANGED <<chart, lockoutVars, viewerVars, reportVars,
                        healthVars, linksVars, drawerVars>>
     \/ focus = "reports" /\ ReportNext
        /\ UNCHANGED <<chart, lockoutVars, viewerVars, idleVars,
                        healthVars, linksVars, drawerVars>>
     \/ focus = "health" /\ HealthNext
        /\ UNCHANGED <<chart, lockoutVars, viewerVars, idleVars,
                        reportVars, linksVars, drawerVars>>
     \/ focus = "links" /\ LinksNext
        /\ UNCHANGED <<chart, lockoutVars, viewerVars, idleVars,
                        reportVars, healthVars, drawerVars>>
     \/ focus = "drawer" /\ DrawerNext
        /\ UNCHANGED <<chart, lockoutVars, viewerVars, idleVars,
                        reportVars, healthVars, linksVars>>

Spec == Init /\ [][Next]_<<focus, chart, lockoutVars, viewerVars, idleVars, reportVars,
                           healthVars, linksVars, drawerVars>>

\* Every part keeps its types.
TypesOK ==
  /\ LockoutTypeOK /\ ViewerTypeOK /\ IdleTypeOK /\ ReportTypeOK /\ HealthTypeOK
  /\ LinksTypeOK /\ DrawerTypeOK
=============================================================================
