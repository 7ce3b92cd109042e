----------------------------- MODULE StoreReads -----------------------------
(***************************************************************************)
(* The reads of the metrics store (prometheus-client.ts): identical reads  *)
(* in flight share one request, an answer is reused while it is young, and *)
(* an older one stands in for a refresh that the store refuses.            *)
(*                                                                         *)
(* A work is a block of code that reads (read-health.ts counts the         *)
(* refusals of the reads it issued); what an answer holds is not modelled, *)
(* only when it was read.  The clock counts ticks, and the client's abort  *)
(* timer keeps a request from outliving Timeout of them.                   *)
(***************************************************************************)
EXTENDS Integers, Sequences, Functions

CONSTANTS
  Work,           \* blocks of code that read the store
  Absent,         \* in place of a work or a key: undefined
  PromQuery,
  RangeQuery,     \* the queries with a step and an end
  End, GridStep,  \* the end and the step of those
  CacheTtl, StaleMax, RangeSettle, RangeReuseMax,
  Timeout,
  MaxRemembered,
  MaxNow          \* bound: ticks of the clock

ASSUME TimesAssumption ==
  /\ {CacheTtl, StaleMax, RangeSettle, RangeReuseMax, End, GridStep, MaxNow} \subseteq Nat
  /\ {Timeout, MaxRemembered} \subseteq Nat \ {0}
ASSUME QueryAssumption == RangeQuery \subseteq PromQuery
ASSUME WorkAssumption == Absent \notin Work

VARIABLES
  now,
  remembered,     \* the answers kept, in the order of the Map: oldest first
  inflight,       \* inflight[q], the one request for q on its way
  reads,          \* reads[w][q], how far work w is with reading q
  refused         \* refused[w], whether a read that w issued was refused

readVars == <<now, remembered, inflight, reads, refused>>

Time == 0..MaxNow

\* A read's outcome. A blank answer is an empty result in place of an error.
Read == [is: {"todo", "waits", "data", "blank"}, at: Time, joined: BOOLEAN]
Todo == [is |-> "todo", at |-> 0, joined |-> FALSE]
Waits == [is |-> "waits", at |-> 0, joined |-> FALSE]
Data(t) == [is |-> "data", at |-> t, joined |-> FALSE]
Blank(j) == [is |-> "blank", at |-> 0, joined |-> j]

Remembered == [query: PromQuery, at: Time]
NoRequest == [on |-> FALSE, issuer |-> Absent, joiners |-> {}, kept |-> {}, since |-> 0]

BiggerOf(a, b) == IF a > b THEN a ELSE b
SmallerOf(a, b) == IF a < b THEN a ELSE b

\* How long an answer to q read at t is reused: a range that had not settled
\* when it was read may still gain a point.
ReuseFor(q, t) ==
  IF q \in RangeQuery /\ CacheTtl > 0 /\ t - End >= RangeSettle
  THEN BiggerOf(CacheTtl, SmallerOf(GridStep, RangeReuseMax))
  ELSE CacheTtl

StandInFor(q, t) == StaleMax + IF q \in RangeQuery THEN ReuseFor(q, t) ELSE 0

\* The elements of s that are in S, in the order of s.
Only(s, S) ==
  LET only[i \in 0..Len(s)] ==
        IF i = 0 THEN <<>>
        ELSE IF s[i] \in S THEN Append(only[i - 1], s[i]) ELSE only[i - 1]
  IN  only[Len(s)]

\* When the remembered answer to q was read: one time, or none.
KeptOf(q) == {m.at : m \in {m \in Range(remembered) : m.query = q}}

\* An answer is kept for as long as it may be reused or stand in.
Expired(m, t) == m.at + BiggerOf(ReuseFor(m.query, m.at), StandInFor(m.query, m.at)) <= t

Remember(q) ==
  LET live == Only(remembered, {m \in Range(remembered) : m.query # q})
      room == IF Len(live) >= MaxRemembered THEN Tail(live) ELSE live
  IN  IF ReuseFor(q, now) > 0 THEN Append(room, [query |-> q, at |-> now]) ELSE remembered

\* The time of the answer to q, if it is young enough to be reused.
Young(q) == {t \in KeptOf(q) : now - t < ReuseFor(q, t)}

InitReads ==
  /\ now = 0
  /\ remembered = <<>>
  /\ inflight = [q \in PromQuery |-> NoRequest]
  /\ reads = [w \in Work |-> [q \in PromQuery |-> Todo]]
  /\ refused = [w \in Work |-> FALSE]

\* get(), by work w, of a query it has still to read.
Reuse(w, q) ==
  /\ reads[w][q] = Todo
  /\ \E t \in Young(q) : reads' = [reads EXCEPT ![w][q] = Data(t)]
  /\ UNCHANGED <<now, remembered, inflight, refused>>

Join(w, q) ==
  /\ reads[w][q] = Todo
  /\ Young(q) = {}
  /\ inflight[q].on
  /\ reads' = [reads EXCEPT ![w][q] = Waits]
  /\ inflight' = [inflight EXCEPT ![q].joiners = @ \cup {w}]
  /\ UNCHANGED <<now, remembered, refused>>

Issue(w, q) ==
  /\ reads[w][q] = Todo
  /\ Young(q) = {}
  /\ ~inflight[q].on
  /\ reads' = [reads EXCEPT ![w][q] = Waits]
  /\ inflight' = [inflight EXCEPT ![q] =
       [on |-> TRUE, issuer |-> w, joiners |-> {}, kept |-> KeptOf(q), since |-> now]]
  /\ UNCHANGED <<now, remembered, refused>>

\* What the issuer of q and the works that joined it are handed.
Handed(q, own, shared) ==
  [w \in Work |-> [reads[w] EXCEPT ![q] =
     IF w = inflight[q].issuer THEN own
     ELSE IF w \in inflight[q].joiners THEN shared ELSE @]]

Answer(q) ==
  /\ inflight[q].on
  /\ reads' = Handed(q, Data(now), Data(now))
  /\ remembered' = Remember(q)
  /\ inflight' = [inflight EXCEPT ![q] = NoRequest]
  /\ UNCHANGED <<now, refused>>

\* What may stand in is settled by how old it was when the read was asked for.
StandIn(q) == {t \in inflight[q].kept : inflight[q].since - t < StandInFor(q, t)}

\* An error status, an error envelope, no connection, or the abort timer.
Refuse(q) ==
  /\ inflight[q].on
  /\ \E own \in (IF StandIn(q) = {} THEN {Blank(FALSE)} ELSE {Data(t) : t \in StandIn(q)}) :
       reads' = Handed(q, own, Blank(TRUE))
  /\ refused' = [w \in Work |-> refused[w] \/ w = inflight[q].issuer]
  /\ inflight' = [inflight EXCEPT ![q] = NoRequest]
  /\ UNCHANGED <<now, remembered>>

\* Time passes.  An answer past its use is forgotten at once: no read can tell,
\* and remember() frees it before it looks at the cap.
Tick ==
  /\ now < MaxNow
  /\ \A q \in PromQuery : inflight[q].on => now - inflight[q].since < Timeout
  /\ now' = now + 1
  /\ remembered' = Only(remembered, {m \in Range(remembered) : ~Expired(m, now + 1)})
  /\ UNCHANGED <<inflight, reads, refused>>
=============================================================================
