----------------------------- MODULE Snapshots -----------------------------
(***************************************************************************)
(* The answers of the metrics routes (snapshot.ts), one per key, shared by *)
(* every caller: one run in flight per key, the kept answer served while   *)
(* it is refreshed, a run with no good answer held off.  A run is a work   *)
(* that reads the store (StoreReads): it is degraded when a read that it   *)
(* issued was refused, and it may throw.                                   *)
(***************************************************************************)
EXTENDS StoreReads, FiniteSets

CONSTANTS
  Key,
  QueriesOf,      \* QueriesOf[k], what a run of key k reads
  Ttl,            \* Ttl[k]
  RetryAfter,
  MaxEntries

ASSUME KeyAssumption ==
  /\ QueriesOf \in [Key -> SUBSET PromQuery]
  /\ Ttl \in [Key -> Nat \ {0}]
  /\ RetryAfter \in Nat
  /\ MaxEntries \in Nat \ {0}

VARIABLES
  entries,        \* the Map's entries, in its order: the first is evicted first
  runs,           \* runs[w], the run that is work w
  waiting,        \* <<k, w>>: callers of key k wait for the run w
  handed          \* history: what the last step handed to callers

snapshotVars == <<readVars, entries, runs, waiting, handed>>

NoValue == [q \in PromQuery |-> Todo]
NoAnswer == [is |-> "none", at |-> 0, value |-> NoValue]
NoSetback == [is |-> "none", at |-> 0]
Outcome == {"none", "good", "degraded", "failed"}

EntryType ==
  [key: Key, kept: [is: {"none", "good"}, at: Time, value: [PromQuery -> Read]],
   running: Work \cup {Absent}, setback: [is: Outcome \ {"good"}, at: Time]]
NoRun == [on |-> FALSE, key |-> Absent, at |-> 0]
Nothing == [key |-> Absent, is |-> "none", waited |-> FALSE]

SnapshotInit ==
  /\ InitReads
  /\ entries = <<>>
  /\ runs = [w \in Work |-> NoRun]
  /\ waiting = {}
  /\ handed = Nothing

Keys == {e.key : e \in Range(entries)}
EntryOf(k) == CHOOSE e \in Range(entries) : e.key = k
With(e) == [i \in DOMAIN entries |-> IF entries[i].key = e.key THEN e ELSE entries[i]]
Without(ks) == Only(entries, {e \in Range(entries) : e.key \notin ks})

\* A kept answer is served for twice its TTL, refreshed from the first on.
Younger(e, ttl, t) == e.kept.is = "good" /\ t - e.kept.at < ttl
Fresh(e) == Younger(e, Ttl[e.key], now)
ServableAt(e, t) == Younger(e, 2 * Ttl[e.key], t)
Servable(e) == ServableAt(e, now)
CoolingAt(e, t) ==
  /\ e.setback.is # "none"
  /\ t - e.setback.at < SmallerOf(RetryAfter, Ttl[e.key])
Cooling(e) == CoolingAt(e, now)

\* Mutant: a key is evicted whether or not its run is in flight.
EvictedAnyway ==
  {entries[i].key : i \in {i \in DOMAIN entries : i <= Len(entries) - MaxEntries + 1}}

\* Mutant: one too few.
EvictedShort ==
  {entries[i].key : i \in
     {i \in DOMAIN entries :
        /\ entries[i].running = Absent
        /\ Cardinality({j \in 1..(i - 1) : entries[j].running = Absent})
             < Len(entries) - MaxEntries}}

\* add(): the first entries that no run is in flight for, as many as the cap asks.
Evicted ==
  {entries[i].key : i \in
     {i \in DOMAIN entries :
        /\ entries[i].running = Absent
        /\ Cardinality({j \in 1..(i - 1) : entries[j].running = Absent})
             <= Len(entries) - MaxEntries}}

Add(k, w) ==
  Append(Without(Evicted),
         [key |-> k, kept |-> NoAnswer, running |-> w, setback |-> NoSetback])

Free == {w \in Work : ~runs[w].on}
SomeFree == CHOOSE w \in Free : TRUE

\* start(): the run's own reads begin in a later microtask.
Start(k, w) ==
  /\ runs' = [runs EXCEPT ![w] = [on |-> TRUE, key |-> k, at |-> now]]
  /\ reads' = [reads EXCEPT ![w] = NoValue]
  /\ refused' = [refused EXCEPT ![w] = FALSE]
  /\ UNCHANGED <<now, remembered, inflight>>

Serve(k, a) ==
  /\ handed' = [key |-> k, is |-> a.is, waited |-> FALSE]
  /\ UNCHANGED waiting

Await(k, w) ==
  /\ waiting' = waiting \cup {<<k, w>>}
  /\ handed' = Nothing

\* get(k), one action per branch.  Runs have no names: any work that is free.
\* The number of works bounds the runs at once.
GetNew(k) ==
  /\ k \notin Keys
  /\ Free # {}
  /\ LET w == SomeFree IN
       entries' = Add(k, w) /\ Start(k, w) /\ Await(k, w)

GetKept(k) ==
  /\ k \in Keys
  /\ LET e == EntryOf(k) IN
       /\ Servable(e)
       /\ Fresh(e) \/ e.running # Absent \/ Cooling(e)
       /\ Serve(k, e.kept)
  /\ UNCHANGED <<readVars, entries, runs>>

GetStale(k) ==
  /\ k \in Keys
  /\ Free # {}
  /\ LET e == EntryOf(k)
         w == SomeFree IN
       /\ Servable(e) /\ ~Fresh(e)
       /\ e.running = Absent /\ ~Cooling(e)
       /\ entries' = With([e EXCEPT !.running = w])
       /\ Start(k, w)
       /\ Serve(k, e.kept)

\* Mutant: who comes during a refresh waits for it.
GetSharedAlways(k) ==
  /\ k \in Keys
  /\ LET e == EntryOf(k) IN
       /\ e.running # Absent
       /\ Await(k, e.running)
  /\ UNCHANGED <<readVars, entries, runs>>

GetShared(k) ==
  /\ k \in Keys
  /\ LET e == EntryOf(k) IN
       /\ ~Servable(e)
       /\ e.running # Absent
       /\ Await(k, e.running)
  /\ UNCHANGED <<readVars, entries, runs>>

GetSetback(k) ==
  /\ k \in Keys
  /\ LET e == EntryOf(k) IN
       /\ ~Servable(e)
       /\ e.running = Absent /\ Cooling(e)
       /\ Serve(k, e.setback)
  /\ UNCHANGED <<readVars, entries, runs>>

GetAgain(k) ==
  /\ k \in Keys
  /\ Free # {}
  /\ LET e == EntryOf(k)
         w == SomeFree IN
       /\ ~Servable(e)
       /\ e.running = Absent /\ ~Cooling(e)
       /\ entries' = With([e EXCEPT !.running = w])
       /\ Start(k, w)
       /\ Await(k, w)

\* A run reads its queries in any order, or all at once.
Reading(w, q) == runs[w].on /\ q \in QueriesOf[runs[w].key]

Apart == handed' = Nothing /\ UNCHANGED <<entries, runs, waiting>>

RunReuse(w, q) == Reading(w, q) /\ Reuse(w, q) /\ Apart
RunJoin(w, q) == Reading(w, q) /\ Join(w, q) /\ Apart
RunIssue(w, q) == Reading(w, q) /\ Issue(w, q) /\ Apart
StoreAnswers(q) == Answer(q) /\ Apart
StoreRefuses(q) == Refuse(q) /\ Apart

\* What is past its use in an entry is forgotten at once too: get() only ever
\* asks whether it is servable, and whether it still holds the next run off.
Clock ==
  /\ Tick
  /\ entries' = [i \in DOMAIN entries |->
       LET e == entries[i] IN
       [e EXCEPT !.kept = IF ServableAt(e, now + 1) THEN @ ELSE NoAnswer,
                 !.setback = IF CoolingAt(e, now + 1) THEN @ ELSE NoSetback]]
  /\ handed' = Nothing
  /\ UNCHANGED <<runs, waiting>>

AllRead(w) ==
  /\ runs[w].on
  /\ \A q \in QueriesOf[runs[w].key] : reads[w][q].is \in {"data", "blank"}

\* The run's entry is as its setback or its answer leaves it, and every caller
\* that shares the run is handed the same.
Settle(w, outcome) ==
  /\ runs' = [runs EXCEPT ![w] = NoRun]
  /\ reads' = [reads EXCEPT ![w] = NoValue]
  /\ refused' = [refused EXCEPT ![w] = FALSE]
  /\ waiting' = {kw \in waiting : kw[2] # w}
  /\ handed' = IF waiting' = waiting THEN Nothing
               ELSE [key |-> runs[w].key, is |-> outcome, waited |-> TRUE]
  /\ UNCHANGED <<now, remembered, inflight>>

SetBack(w, outcome) ==
  /\ entries' = With([EntryOf(runs[w].key) EXCEPT !.running = Absent,
                                                 !.setback = [is |-> outcome, at |-> now]])
  /\ Settle(w, outcome)

\* Mutant: what was refused is not asked.
RunGoodAnyway(w) ==
  /\ AllRead(w)
  /\ LET e == [EntryOf(runs[w].key) EXCEPT
                  !.kept = [is |-> "good", at |-> runs[w].at, value |-> reads[w]],
                  !.running = Absent, !.setback = NoSetback]
     IN  entries' = Append(Without({e.key}), e)
  /\ Settle(w, "good")

\* Refreshed last, evicted last.
RunGood(w) ==
  /\ AllRead(w)
  /\ ~refused[w]
  /\ LET e == [EntryOf(runs[w].key) EXCEPT
                  !.kept = [is |-> "good", at |-> runs[w].at, value |-> reads[w]],
                  !.running = Absent, !.setback = NoSetback]
     IN  entries' = Append(Without({e.key}), e)
  /\ Settle(w, "good")

RunDegraded(w) == AllRead(w) /\ refused[w] /\ SetBack(w, "degraded")

\* The run's own code is running, not waiting for the store.
InOwnCode(w) == runs[w].on /\ \A q \in PromQuery : reads[w][q].is # "waits"

\* Mutant: a run that throws frees its entry and tells nobody.
RunThrowsSilently(w) ==
  /\ InOwnCode(w)
  /\ entries' = With([EntryOf(runs[w].key) EXCEPT !.running = Absent,
                                                 !.setback = [is |-> "failed", at |-> now]])
  /\ runs' = [runs EXCEPT ![w] = NoRun]
  /\ reads' = [reads EXCEPT ![w] = NoValue]
  /\ refused' = [refused EXCEPT ![w] = FALSE]
  /\ handed' = Nothing
  /\ UNCHANGED <<now, remembered, inflight, waiting>>

\* Reads never throw; the code between them, or that puts their answers together, may.
RunThrows(w) == InOwnCode(w) /\ SetBack(w, "failed")

Get(k) ==
  GetNew(k) \/ GetKept(k) \/ GetStale(k) \/ GetShared(k) \/ GetSetback(k) \/ GetAgain(k)
ReadStep(w, q) == RunReuse(w, q) \/ RunJoin(w, q) \/ RunIssue(w, q)
StoreStep(q) == StoreAnswers(q) \/ StoreRefuses(q)
RunEnd(w) == RunGood(w) \/ RunDegraded(w) \/ RunThrows(w)

SnapshotNext ==
  \/ \E k \in Key : Get(k)
  \/ \E w \in Work, q \in PromQuery : ReadStep(w, q)
  \/ \E q \in PromQuery : StoreStep(q)
  \/ \E w \in Work : RunEnd(w)
  \/ Clock

SnapshotSpec == SnapshotInit /\ [][SnapshotNext]_snapshotVars

\* A run's own code goes on, and the abort timer ends every request.
SnapshotFairness ==
  /\ \A w \in Work, q \in PromQuery : WF_snapshotVars(ReadStep(w, q))
  /\ \A q \in PromQuery : WF_snapshotVars(StoreStep(q))
  /\ \A w \in Work : WF_snapshotVars(RunEnd(w))

SnapshotTypeOK ==
  /\ now \in Time
  /\ remembered \in Seq(Remembered)
  /\ inflight \in [PromQuery -> [on: BOOLEAN, issuer: Work \cup {Absent}, joiners: SUBSET Work,
                            kept: SUBSET Time, since: Time]]
  /\ reads \in [Work -> [PromQuery -> Read]]
  /\ refused \in [Work -> BOOLEAN]
  /\ entries \in Seq(EntryType)
  /\ runs \in [Work -> [on: BOOLEAN, key: Key \cup {Absent}, at: Time]]
  /\ waiting \subseteq Key \X Work
  /\ handed \in [key: Key \cup {Absent}, is: Outcome, waited: BOOLEAN]

\* Every run that is on is the one its key's entry says is in flight, though
\* keys come, are evicted and come back: no key is ever read by two runs at
\* once, and no run answers into an entry that is gone (snapshot.ts get, add,
\* start).
RunOwnsItsEntry ==
  \A w \in Work : runs[w].on =>
    runs[w].key \in Keys /\ EntryOf(runs[w].key).running = w

\* A kept answer holds nothing older than a remembered read may be: what was
\* read of the store before the run began was still in reuse when it was taken,
\* and no stand-in of up to StaleMax is ever kept as good.  A blank is kept only
\* where another work issued the read that was refused: read-health.ts counts
\* a run's own (start() with trackReads, prometheus-client.ts get).
KeptIsSound ==
  \A e \in Range(entries) : \A q \in QueriesOf[e.key] :
    LET r == e.kept.value[q] IN
    e.kept.is = "good" =>
      /\ r.is = "data" => r.at >= e.kept.at \/ e.kept.at - r.at < ReuseFor(q, r.at)
      /\ r.is = "blank" => r.joined

\* Nobody is handed an error or a degraded answer while a good answer of the
\* key could still be served, however its runs end (snapshot.ts:10-15).
GoodBeforeBad ==
  handed.key # Absent /\ handed.is # "good" =>
    \A e \in Range(entries) : e.key = handed.key => ~Servable(e)

\* After a new key the store is past its cap only by keys with a run in flight
\* (add()), and a key in flight has not been dropped.
CapHolds ==
  [][\A k \in {e.key : e \in Range(entries')} \ Keys :
       /\ Len(entries') > MaxEntries =>
            \A e \in Range(entries') : e.running # Absent
       /\ \A e \in Range(entries) : e.running # Absent => e \in Range(entries')]_snapshotVars

\* Whoever waits for a run is answered: it ends, and hands its answer to every
\* caller that shares it (get(), start()).
CallersAnswered ==
  \A k \in Key : (\E w \in Work : <<k, w>> \in waiting) ~> handed.key = k /\ handed.waited
=============================================================================
