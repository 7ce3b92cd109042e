------------------------------ MODULE MCPaging ------------------------------
(* The audit feed, and the lists read from the router's logs: readers that   *)
(* go on from where they were over something that is still being written.    *)
(* They share nothing: `focus` is the part that runs.                        *)
EXTENDS AuditFeed, LogList, TLC

CONSTANTS end, err

VARIABLE focus

Limits == (end :> 2) @@ (err :> 2)

BothInit == focus \in {"feed", "logs"} /\ Init /\ LogInit

BothNext ==
  /\ UNCHANGED focus
  /\ \/ focus = "feed" /\ Next /\ UNCHANGED logVars
     \/ focus = "logs" /\ LogNext /\ UNCHANGED vars
     \* Someone who pages back may stop.
     \/ focus = "logs" /\ pager.on /\ UNCHANGED <<vars, logVars>>

BothSpec == BothInit /\ [][BothNext]_<<focus, vars, logVars>>
=============================================================================
