--------------------------- MODULE ResumableFeed ---------------------------
(***************************************************************************)
(* What the audit feed promises a puller: events only ever get appended to *)
(* one order, and every reply hands over the next of them, none skipped    *)
(* and none twice.  AuditFeed shows how the API gets there.                *)
(***************************************************************************)
EXTENDS Naturals

CONSTANTS
  Event,    \* everything that could be recorded
  Kind,     \* what the filters tell apart
  Filter,   \* a filter is the set of kinds it lets through
  Puller,
  None

VARIABLES
  log,      \* the events that are final
  pull      \* pull[p]: what p asked for and what it has, or None

vars == <<log, pull>>

Before(x, y) == x.xact < y.xact \/ (x.xact = y.xact /\ x.seq < y.seq)

Init ==
  /\ log = {}
  /\ pull = [p \in Puller |-> None]

\* Whatever settles comes after everything that has settled before.
Append ==
  /\ log' \in SUBSET Event
  /\ log \subseteq log'
  /\ \A x \in log' \ log, y \in log : Before(y, x)
  /\ UNCHANGED pull

Has(p) == IF pull[p] = None THEN {} ELSE pull[p].has

\* The next events the filter lets through, from where p left off.
Deliver(p, f, next) ==
  /\ pull[p] # None => pull[p].filter = f
  /\ next # {}
  /\ \A x \in next : x.kind \in f
  /\ \A x \in next, y \in log \ (Has(p) \cup next) : y.kind \in f => Before(x, y)
  /\ pull' = [pull EXCEPT ![p] = [filter |-> f, has |-> Has(p) \cup next]]
  /\ UNCHANGED log

\* p starts over.
Restart(p) ==
  /\ pull' = [pull EXCEPT ![p] = None]
  /\ UNCHANGED log

Next ==
  \/ Append
  \/ \E p \in Puller, f \in Filter : \E next \in SUBSET (log \ Has(p)) : Deliver(p, f, next)
  \/ \E p \in Puller : Restart(p)

Spec == Init /\ [][Next]_vars
=============================================================================
