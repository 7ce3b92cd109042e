--------------------------- MODULE IncidentReports ---------------------------
(***************************************************************************)
(* Reports of incidents: the form (ReportIncident.tsx), the api's handler  *)
(* (routes/incidents.ts, services/incidents.ts) and the on-call system     *)
(* that groups what reaches it by key.  A report may land though its       *)
(* sender is told that it failed, and is then sent again.                  *)
(*                                                                         *)
(* Severities other than critical are grouped alike, so one stands for     *)
(* them; the reporter may change it with every try.  Checks of the fields  *)
(* refuse before anything is spent.                                        *)
(***************************************************************************)
EXTENDS Integers, Sequences, FiniteSets

CONSTANTS
  Form,           \* open dashboards
  PodMax, PodWindow,
  Hour,           \* ticks of the clock per clock hour
  MaxPosts, MaxReportTime    \* bounds

ASSUME ReportAssumption ==
  /\ PodMax \in Nat \ {0} /\ PodWindow \in Nat \ {0} /\ Hour \in Nat \ {0}
  /\ MaxPosts \in Nat /\ MaxReportTime \in Nat

VARIABLES
  reportTime,
  forms,          \* forms[f]: the draft, and the post that the form awaits
  budget,         \* ReportBudget.sent: the posts whose times it keeps
  posts           \* every post of a report, and how far it and its alert are

reportVars == <<reportTime, forms, budget, posts>>

Severity == {"critical", "other"}

\* The key of an alert: an hour's, or a draft's.
Uid == [of: Form \cup {"hour", "nothing"}, n: Nat]
NoUid == [of |-> "nothing", n |-> 0]

\* reported is history: the incidents this form has been told of reporting.
FreshForm == [draft |-> 1, awaits |-> 0, sent |-> FALSE, reported |-> 0]

ReportInit ==
  /\ reportTime = 0
  /\ forms = [f \in Form |-> FreshForm]
  /\ budget = {}
  /\ posts = <<>>

-----------------------------------------------------------------------------
(* The form. *)

Submit(f, severity) ==
  /\ forms[f].awaits = 0 /\ ~forms[f].sent
  /\ Len(posts) < MaxPosts
  /\ posts' = Append(posts,
       [form |-> f, draft |-> forms[f].draft, incident |-> forms[f].reported,
        severity |-> severity, is |-> "asked", uid |-> NoUid, at |-> 0, alert |-> "none"])
  /\ forms' = [forms EXCEPT ![f].awaits = Len(posts) + 1]
  /\ UNCHANGED <<reportTime, budget>>

\* The connection to the api breaks; the handler goes on.
Disconnect(f) ==
  /\ forms[f].awaits # 0
  /\ forms' = [forms EXCEPT ![f].awaits = 0]
  /\ UNCHANGED <<reportTime, budget, posts>>

Afresh(form) == [form EXCEPT !.draft = @ + 1, !.sent = FALSE]

\* Mutant: every close starts a new draft.
CloseAfresh(f) ==
  /\ forms[f].awaits = 0
  /\ forms' = [forms EXCEPT ![f] = Afresh(forms[f])]
  /\ UNCHANGED <<reportTime, budget, posts>>

\* close(): the draft outlives it, unless its report was accepted.
Close(f) ==
  /\ forms[f].awaits = 0
  /\ forms' = [forms EXCEPT ![f] = IF @.sent THEN Afresh(@) ELSE @]
  /\ UNCHANGED <<reportTime, budget, posts>>

\* The form is told, if it is still there to hear it.
Told(i, sent) ==
  forms' = [f \in Form |->
    IF forms[f].awaits # i THEN forms[f]
    ELSE [forms[f] EXCEPT !.awaits = 0, !.sent = sent, !.reported = IF sent THEN @ + 1 ELSE @]]

-----------------------------------------------------------------------------
(* The handler. *)

\* incidentAlertUid(), at the time of this post.
AlertUid(p) ==
  IF p.severity = "critical" THEN [of |-> "hour", n |-> reportTime \div Hour]
  ELSE [of |-> p.form, n |-> p.draft]

\* A field, the rate of one caller, or the deployment is at fault.
Refuse(i) ==
  /\ posts[i].is = "asked"
  /\ posts' = [posts EXCEPT ![i].is = "over"]
  /\ Told(i, FALSE)
  /\ UNCHANGED <<reportTime, budget>>

\* take(): slots whose time has left the window are free again.
Live == {i \in budget : posts[i].at > reportTime - PodWindow}

Take(i) ==
  /\ posts[i].is = "asked"
  /\ Cardinality(Live) < PodMax
  /\ budget' = Live \cup {i}
  /\ posts' = [posts EXCEPT ![i].is = "sending", ![i].uid = AlertUid(posts[i]),
                            ![i].at = reportTime, ![i].alert = "out"]
  /\ UNCHANGED <<reportTime, forms>>

OverBudget(i) ==
  /\ posts[i].is = "asked"
  /\ Cardinality(Live) >= PodMax
  /\ budget' = Live
  /\ posts' = [posts EXCEPT ![i].is = "over"]
  /\ Told(i, FALSE)
  /\ UNCHANGED reportTime

Accepted(i) ==
  /\ posts[i].is = "sending" /\ posts[i].alert = "landed"
  /\ posts' = [posts EXCEPT ![i].is = "over"]
  /\ Told(i, TRUE)
  /\ UNCHANGED <<reportTime, budget>>

\* No answer in time, or one that is not 2xx: the alert may be on its way, may
\* have landed, or is lost.
NotAccepted(i) ==
  /\ posts[i].is = "sending"
  /\ \E alert \in {posts[i].alert} \cup (IF posts[i].alert = "out" THEN {"lost"} ELSE {}) :
       posts' = [posts EXCEPT ![i].is = "over", ![i].alert = alert]
  /\ Told(i, FALSE)
  /\ UNCHANGED <<reportTime, budget>>

-----------------------------------------------------------------------------
(* The on-call system, and time. *)

Lands(i) ==
  /\ posts[i].alert = "out"
  /\ posts' = [posts EXCEPT ![i].alert = "landed"]
  /\ UNCHANGED <<reportTime, forms, budget>>

ReportTick ==
  /\ reportTime < MaxReportTime
  /\ reportTime' = reportTime + 1
  /\ UNCHANGED <<forms, budget, posts>>

ReportNext ==
  \/ \E f \in Form :
       Disconnect(f) \/ Close(f) \/ \E s \in Severity : Submit(f, s)
  \/ \E i \in DOMAIN posts :
       Refuse(i) \/ Take(i) \/ OverBudget(i) \/ Accepted(i) \/ NotAccepted(i) \/ Lands(i)
  \/ ReportTick

ReportSpec == ReportInit /\ [][ReportNext]_reportVars

Post == [form: Form, draft: Nat, incident: Nat, severity: Severity,
         is: {"asked", "sending", "over"}, uid: Uid, at: Nat,
         alert: {"none", "out", "landed", "lost"}]
ReportTypeOK ==
  /\ reportTime \in 0..MaxReportTime
  /\ forms \in [Form -> [draft: Nat, awaits: 0..MaxPosts, sent: BOOLEAN, reported: Nat]]
  /\ posts \in Seq(Post)
  /\ budget \subseteq DOMAIN posts

\* However often a report is sent again after a failure that it may have
\* survived, what lands of it joins one group - and of the critical ones of all
\* forms one group for each hour, and so one call (incidents.ts:25-37).
Landed(s) == {i \in DOMAIN posts : posts[i].alert = "landed" /\ posts[i].severity = s}
RetriesJoin ==
  /\ \A i, j \in Landed("other") :
       posts[i].form = posts[j].form /\ posts[i].incident = posts[j].incident
         => posts[i].uid = posts[j].uid
  /\ \A i, j \in Landed("critical") :
       posts[i].at \div Hour = posts[j].at \div Hour => posts[i].uid = posts[j].uid

\* A form that says its report was sent is right about the draft it has.
SentIsTrue ==
  \A f \in Form : forms[f].sent =>
    \E i \in DOMAIN posts :
      posts[i].alert = "landed" /\ posts[i].form = f /\ posts[i].draft = forms[f].draft

\* In no stretch as long as the window does this process send more than its
\* budget, wherever the stretch begins (incidents.ts ReportBudget).
BudgetSlides ==
  \A t \in 0..reportTime :
    Cardinality({i \in DOMAIN posts :
      /\ posts[i].alert # "none"
      /\ t - PodWindow < posts[i].at /\ posts[i].at <= t}) <= PodMax

ReportsHold == RetriesJoin /\ SentIsTrue /\ BudgetSlides
=============================================================================
