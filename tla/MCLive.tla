------------------------------- MODULE MCLive -------------------------------
(* What must happen: the callers of the metrics routes are answered, member *)
(* requests end, audit rows arrive.  One part at a time, under its own      *)
(* fairness: `focus` is the one that runs.                                  *)
EXTENDS Snapshots

CONSTANTS
  total,
  Account, Email, Invite, Request, None, Recovery, e1, e2,
  Kind, Filter, Order, Limit, Puller, Exporter, KeepsCursor, MaxXact, MaxSeq

VARIABLES
  focus,
  users, invitations, pc, job, sweep, taken, cleared,
  xact, nextXact, rows, nextSeq,
  phase, query, horizon, page, more, cursor, received, due

\* Every route reads the one query.
OneQuery == [k \in Key |-> {total}]
OneTtl == [k \in Key |-> 1]

Team == INSTANCE Members
Feed == INSTANCE AuditFeed

teamVars == <<users, invitations, pc, job, sweep, taken, cleared>>
feedVars ==
  <<xact, nextXact, rows, nextSeq, phase, query, horizon, page, more, cursor, received, due>>

\* Two admins; the address of the second still has the spare one of two
\* invitations that were sent to it at once.
TwoAdmins ==
  /\ users = [a \in Account |->
                CASE a = 1 -> [Team!NoUser EXCEPT !.status = "active", !.role = "admin",
                                                  !.email = e1, !.bySetup = TRUE]
                  [] a = 2 -> [Team!NoUser EXCEPT !.status = "active", !.role = "admin",
                                                  !.email = e2]
                  [] OTHER -> Team!NoUser]
  /\ invitations = [i \in Invite |-> [Team!NoInvite EXCEPT !.status = "pending", !.email = e2]]
  /\ pc = [r \in Request |-> "idle"]
  /\ job = [r \in Request |-> Team!NoJob]
  /\ sweep = [r \in Request |-> {}]
  /\ taken = [r \in Request |-> {}]
  /\ cleared = [a \in Account |-> {}]

Begin ==
  /\ SnapshotInit /\ Feed!Init
  /\ \/ focus = "members" /\ (Team!Init \/ TwoAdmins)
     \/ focus \in {"feed", "snapshots"} /\ Team!Init

Move ==
  /\ UNCHANGED focus
  /\ \/ focus = "members" /\ Team!Next /\ UNCHANGED <<snapshotVars, feedVars>>
     \/ focus = "feed" /\ Feed!Next /\ UNCHANGED <<snapshotVars, teamVars>>
     \/ focus = "snapshots" /\ SnapshotNext /\ UNCHANGED <<teamVars, feedVars>>

LiveSpec ==
  /\ Begin /\ [][Move]_<<focus, snapshotVars, teamVars, feedVars>>
  /\ \/ focus = "members" /\ Team!Fairness
     \/ focus = "feed" /\ Feed!Fairness
     \/ focus = "snapshots" /\ SnapshotFairness

\* A request that has begun ends (members.ts, setup.ts).
RequestsEnd == Team!RequestsEnd

\* Late, never lost: every committed row reaches a puller that keeps pulling,
\* once the transactions before it have ended (audit-read.ts, docs/AUDIT.md).
EveryRowArrives == Feed!EveryRowArrives
=============================================================================
