----------------------------- MODULE AuditFeed -----------------------------
(***************************************************************************)
(* The audit log as it is written and read back.  Transactions take an id  *)
(* and insert rows; a row gets its sequence number at the insert, not at   *)
(* the commit.  Readers page through GET /api/audit/events with a cursor,  *)
(* or download the export, which is a loop over the same pages.  One page  *)
(* is two statements: the horizon, then the rows.                          *)
(***************************************************************************)
EXTENDS Naturals, FiniteSets

CONSTANTS
  Kind,          \* what filters tell apart (time, person, verb, object)
  Filter,        \* the filters readers use, each the set of kinds it lets through
  Order,         \* the directions they read in
  Limit,         \* the page sizes they ask for
  Puller,        \* clients of the feed that keep their position
  Exporter,      \* downloads
  None,
  KeepsCursor,   \* whether a puller keeps its position when a page is empty
  MaxXact,       \* bound: transactions that write
  MaxSeq         \* bound: rows

ASSUME FilterAssumption == Filter \subseteq SUBSET Kind
ASSUME OrderAssumption == Order \subseteq {"asc", "desc"}
ASSUME LimitAssumption == Limit \subseteq Nat \ {0}
ASSUME ReaderAssumption == Puller \cap Exporter = {}
ASSUME KeepsAssumption == KeepsCursor \in BOOLEAN
ASSUME BoundAssumption == MaxXact \in Nat /\ MaxSeq \in Nat

VARIABLES
  xact,       \* xact[t], what has become of transaction t
  nextXact,   \* the next transaction id
  rows,       \* rows inserted, by whatever transaction
  nextSeq,    \* the sequence behind audit_events.seq
  phase,      \* phase[p], the statement reader p runs next
  query,      \* query[p], what it asked for
  horizon,    \* horizon[p], the horizon it has read
  page,       \* page[p], the rows it has read
  more,       \* more[p], whether there were more than fit
  cursor,     \* cursor[p], the position the reader holds
  received,   \* received[p], the rows it has got since it started
  due         \* due[p], history: what was there when the export p began

database == <<xact, nextXact, rows, nextSeq>>
reader == <<phase, query, horizon, page, more, cursor, received, due>>
vars == <<database, reader>>

Xact == 1..MaxXact
Seq == 1..MaxSeq
Reader == Puller \cup Exporter
Row == [xact: Xact, seq: Seq, kind: Kind]
Query == [filter: Filter, order: Order]
Cursor == [row: Row, query: Query]

ASSUME NoneAssumption ==
  /\ None \notin Cursor
  /\ None \notin Query
  /\ None \notin [filter: Filter, has: SUBSET Row]

TypeOK ==
  /\ xact \in [Xact -> {"unused", "open", "committed", "aborted"}]
  /\ nextXact \in 1..(MaxXact + 1)
  /\ rows \subseteq Row
  /\ nextSeq \in 1..(MaxSeq + 1)
  /\ phase \in [Reader -> {"idle", "horizon", "rows", "reply", "done"}]
  /\ query \in [Reader -> Query \cup {None}]
  /\ horizon \in [Reader -> 0..(MaxXact + 1)]
  /\ page \in [Reader -> SUBSET Row]
  /\ more \in [Reader -> BOOLEAN]
  /\ cursor \in [Reader -> Cursor \cup {None}]
  /\ received \in [Reader -> SUBSET Row]
  /\ due \in [Exporter -> SUBSET Row]

Init ==
  /\ xact = [t \in Xact |-> "unused"]
  /\ nextXact = 1
  /\ rows = {}
  /\ nextSeq = 1
  /\ phase = [p \in Reader |-> "idle"]
  /\ query = [p \in Reader |-> None]
  /\ horizon = [p \in Reader |-> 0]
  /\ page = [p \in Reader |-> {}]
  /\ more = [p \in Reader |-> FALSE]
  /\ cursor = [p \in Reader |-> None]
  /\ received = [p \in Reader |-> {}]
  /\ due = [e \in Exporter |-> {}]

-----------------------------------------------------------------------------
(* Writers: a transaction gets its id at its first write, inserts rows as   *)
(* it goes and then commits, or rolls back and leaves holes in the sequence. *)

BeginXact ==
  /\ nextXact <= MaxXact
  /\ xact' = [xact EXCEPT ![nextXact] = "open"]
  /\ nextXact' = nextXact + 1
  /\ UNCHANGED <<rows, nextSeq, reader>>

InsertRow(t, k) ==
  /\ xact[t] = "open"
  /\ nextSeq <= MaxSeq
  /\ rows' = rows \cup {[xact |-> t, seq |-> nextSeq, kind |-> k]}
  /\ nextSeq' = nextSeq + 1
  /\ UNCHANGED <<xact, nextXact, reader>>

EndXact(t, outcome) ==
  /\ xact[t] = "open"
  /\ xact' = [xact EXCEPT ![t] = outcome]
  /\ UNCHANGED <<nextXact, rows, nextSeq, reader>>

-----------------------------------------------------------------------------
(* Readers.                                                                *)

Committed(x) == x \in rows /\ xact[x.xact] = "committed"

\* The oldest transaction still open: the xmin of a snapshot taken now.
IsHorizon(h) ==
  /\ \A t \in Xact : xact[t] = "open" => h <= t
  /\ IF \E t \in Xact : xact[t] = "open" THEN h \in Xact /\ xact[h] = "open" ELSE h = nextXact

\* Mutant: the feed in sequence order.
ByPositionSeq(o, x, y) == IF o = "asc" THEN x.seq < y.seq ELSE y.seq < x.seq

\* The order a query is served in.
ByPosition(o, x, y) ==
  IF o = "asc" THEN x.xact < y.xact \/ (x.xact = y.xact /\ x.seq < y.seq)
  ELSE y.seq < x.seq

\* Mutant: a resume that serves the last row again.
AheadOrAt(p, x) ==
  cursor[p] # None => x = cursor[p].row \/ ByPosition(query[p].order, cursor[p].row, x)

\* The keyset resume.
Ahead(p, x) == cursor[p] # None => ByPosition(query[p].order, cursor[p].row, x)

\* Mutant: rows of transactions that nobody waited for.
SettledLoose(p, x) == TRUE

Settled(p, x) == query[p].order = "asc" => x.xact < horizon[p]

\* What the rows statement selects, were there no limit.
Selected(p) ==
  {x \in rows : Committed(x) /\ x.kind \in query[p].filter /\ Settled(p, x) /\ Ahead(p, x)}

\* The first `limit` of them.
IsPage(p, s, limit) ==
  /\ \A x \in s, y \in Selected(p) \ s : ByPosition(query[p].order, x, y)
  /\ IF s = Selected(p) THEN Cardinality(s) <= limit ELSE Cardinality(s) = limit

\* The statement a query starts with; desc needs no horizon.
FirstRead(q) == IF q.order = "asc" THEN "horizon" ELSE "rows"

\* Mutant: the oldest open transaction counted as settled.
ReadHorizonNext(p, h) ==
  /\ phase[p] = "horizon"
  /\ IsHorizon(h)
  /\ horizon' = [horizon EXCEPT ![p] = h + 1]
  /\ phase' = [phase EXCEPT ![p] = "rows"]
  /\ UNCHANGED <<database, query, page, more, cursor, received, due>>

ReadHorizon(p, h) ==
  /\ phase[p] = "horizon"
  /\ IsHorizon(h)
  /\ horizon' = [horizon EXCEPT ![p] = h]
  /\ phase' = [phase EXCEPT ![p] = "rows"]
  /\ UNCHANGED <<database, query, page, more, cursor, received, due>>

\* Mutant: hasMore from the rows of the page alone.
ReadRowsFull(p, s, limit) ==
  /\ phase[p] = "rows"
  /\ s \subseteq Selected(p)
  /\ IsPage(p, s, limit)
  /\ page' = [page EXCEPT ![p] = s]
  /\ more' = [more EXCEPT ![p] = Cardinality(s) > limit]
  /\ phase' = [phase EXCEPT ![p] = "reply"]
  /\ UNCHANGED <<database, query, horizon, cursor, received, due>>

ReadRows(p, s, limit) ==
  /\ phase[p] = "rows"
  /\ s \subseteq Selected(p)
  /\ IsPage(p, s, limit)
  /\ page' = [page EXCEPT ![p] = s]
  /\ more' = [more EXCEPT ![p] = (s # Selected(p))]
  /\ phase' = [phase EXCEPT ![p] = "reply"]
  /\ UNCHANGED <<database, query, horizon, cursor, received, due>>

\* Where a page leaves its reader: the last row of it.
IsLast(p, x) ==
  /\ x \in page[p]
  /\ \A y \in page[p] \ {x} : ByPosition(query[p].order, y, x)

-----------------------------------------------------------------------------
(* A puller keeps the cursor of each reply and sends it with the next call. *)

\* Mutant: a cursor is good for any filter set and direction.
CursorFitsAny(p, q) == TRUE

\* A position means something only for the filter set and direction it was
\* issued for.
CursorFits(p, q) == cursor[p] # None => cursor[p].query = q

Pull(p, q) ==
  /\ phase[p] = "idle"
  /\ CursorFits(p, q)
  /\ query' = [query EXCEPT ![p] = q]
  /\ phase' = [phase EXCEPT ![p] = FirstRead(q)]
  /\ UNCHANGED <<database, horizon, page, more, cursor, received, due>>

\* 400, restart the pull: and so the puller does.
PullRefused(p, q) ==
  /\ phase[p] = "idle"
  /\ ~CursorFits(p, q)
  /\ cursor' = [cursor EXCEPT ![p] = None]
  /\ received' = [received EXCEPT ![p] = {}]
  /\ UNCHANGED <<database, phase, query, horizon, page, more, due>>

\* What a reader lets go of at the end of a call.
Over(p, to) ==
  /\ phase' = [phase EXCEPT ![p] = to]
  /\ query' = [query EXCEPT ![p] = None]
  /\ horizon' = [horizon EXCEPT ![p] = 0]
  /\ page' = [page EXCEPT ![p] = {}]
  /\ more' = [more EXCEPT ![p] = FALSE]

Reply(p) ==
  /\ phase[p] = "reply"
  /\ Over(p, "idle")
  /\ received' = [received EXCEPT ![p] = @ \cup page[p]]
  /\ \/ \E x \in page[p] :
          /\ IsLast(p, x)
          /\ cursor' = [cursor EXCEPT ![p] = [row |-> x, query |-> query[p]]]
     \/ /\ page[p] = {}
        /\ cursor' = IF KeepsCursor THEN cursor ELSE [cursor EXCEPT ![p] = None]
  /\ UNCHANGED <<database, due>>

\* The call fails or its reply is lost: the puller still has its old position.
Lose(p) ==
  /\ phase[p] # "idle"
  /\ Over(p, "idle")
  /\ UNCHANGED <<database, cursor, received, due>>

-----------------------------------------------------------------------------
(* An export goes on from page to page until nothing is left.              *)

ExportBegin(e, q) ==
  /\ phase[e] \in {"idle", "done"}
  /\ phase' = [phase EXCEPT ![e] = FirstRead(q)]
  /\ query' = [query EXCEPT ![e] = q]
  /\ cursor' = [cursor EXCEPT ![e] = None]
  /\ received' = [received EXCEPT ![e] = {}]
  /\ due' = [due EXCEPT ![e] =
       {x \in rows : /\ Committed(x) /\ x.kind \in q.filter
                     /\ q.order = "asc" => \A t \in Xact : xact[t] = "open" => x.xact < t}]
  /\ UNCHANGED <<database, horizon, page, more>>

ExportMore(e) ==
  /\ phase[e] = "reply"
  /\ more[e]
  /\ received' = [received EXCEPT ![e] = @ \cup page[e]]
  /\ \E x \in page[e] :
       /\ IsLast(e, x)
       /\ cursor' = [cursor EXCEPT ![e] = [row |-> x, query |-> query[e]]]
  /\ phase' = [phase EXCEPT ![e] = FirstRead(query[e])]
  /\ page' = [page EXCEPT ![e] = {}]
  /\ more' = [more EXCEPT ![e] = FALSE]
  /\ UNCHANGED <<database, query, horizon, due>>

ExportEnd(e) ==
  /\ phase[e] = "reply"
  /\ ~more[e]
  /\ Over(e, "done")
  /\ received' = [received EXCEPT ![e] = @ \cup page[e]]
  /\ UNCHANGED <<database, cursor, due>>

\* The download breaks off: an error, the page guard, the client going away.
ExportFail(e) ==
  /\ phase[e] \in {"horizon", "rows", "reply"}
  /\ Over(e, "idle")
  /\ UNCHANGED <<database, cursor, received, due>>

-----------------------------------------------------------------------------

Read(p) ==
  \/ \E h \in 1..(MaxXact + 1) : ReadHorizon(p, h)
  \/ \E s \in SUBSET rows, limit \in Limit : ReadRows(p, s, limit)

Next ==
  \/ BeginXact
  \/ \E t \in Xact, k \in Kind : InsertRow(t, k)
  \/ \E t \in Xact, outcome \in {"committed", "aborted"} : EndXact(t, outcome)
  \/ \E p \in Reader : Read(p)
  \/ \E p \in Puller, q \in Query : Pull(p, q) \/ PullRefused(p, q)
  \/ \E p \in Puller : Reply(p) \/ Lose(p)
  \/ \E e \in Exporter, q \in Query : ExportBegin(e, q)
  \/ \E e \in Exporter : ExportMore(e) \/ ExportEnd(e) \/ ExportFail(e)

Spec == Init /\ [][Next]_vars

\* A transaction ends, and a puller keeps pulling; its calls may fail at any
\* statement any number of times, but not for ever.
Fairness ==
  /\ \A t \in Xact : WF_vars(\E outcome \in {"committed", "aborted"} : EndXact(t, outcome))
  /\ \A p \in Puller :
       /\ WF_vars(\E q \in Query : Pull(p, q))
       /\ SF_vars(\E h \in 1..(MaxXact + 1) : ReadHorizon(p, h))
       /\ SF_vars(\E s \in SUBSET rows, limit \in Limit : ReadRows(p, s, limit))
       /\ SF_vars(Reply(p))

FairSpec == Spec /\ Fairness

-----------------------------------------------------------------------------
(* No reader is handed a row twice: a row already served compares behind    *)
(* the position (the resume predicate of listAuditEvents; docs/AUDIT.md,    *)
(* "duplicate-free").                                                       *)
ServedOnce == \A p \in Reader : page[p] \cap received[p] = {}

(* No gap, now or later: whatever lies behind the position of a resumable   *)
(* pull and is or may yet be committed, the puller has (the settled         *)
(* horizon of listAuditEvents; docs/AUDIT.md, "gap-free").                  *)
NothingBehind ==
  \A p \in Puller : cursor[p] # None /\ cursor[p].query.order = "asc" =>
    \A x \in rows :
      /\ x.kind \in cursor[p].query.filter
      /\ xact[x.xact] \in {"open", "committed"}
      /\ ~ByPosition("asc", cursor[p].row, x)
      => x \in received[p]

(* A finished download has every row that was settled when it began, in     *)
(* either direction, though the log grew meanwhile (the page loop of        *)
(* GET /api/audit/export.csv).                                              *)
ExportComplete == \A e \in Exporter : phase[e] = "done" => due[e] \subseteq received[e]

(* Late, never lost: a committed row reaches every puller that keeps        *)
(* pulling, once the transactions before it have ended.                     *)
EveryRowArrives ==
  \A x \in Row : \A p \in Puller : Committed(x) ~> x \in received[p]

\* The rows whose place in the feed is final.
SettledLog ==
  {x \in rows : Committed(x) /\ \A t \in Xact : xact[t] = "open" => x.xact < t}

\* A resumable pull under way.
PullOf(p) ==
  IF cursor[p] = None \/ cursor[p].query.order = "desc" THEN None
  ELSE [filter |-> cursor[p].query.filter, has |-> received[p]]

Feed == INSTANCE ResumableFeed WITH
  Event <- Row, log <- SettledLog, pull <- [p \in Puller |-> PullOf(p)]

(* The pages of the API are the feed ResumableFeed promises.                *)
FeedPromise == Feed!Spec

-----------------------------------------------------------------------------
(* What makes the properties inductive (proved in AuditProofs).             *)

RowsKnown ==
  /\ \A t \in Xact : xact[t] = "unused" <=> t >= nextXact
  /\ \A x \in rows : xact[x.xact] # "unused" /\ x.seq < nextSeq
  /\ \A x, y \in rows : x.seq = y.seq => x = y

Reading(p) == phase[p] \in {"horizon", "rows", "reply"}

\* A call under way has a query, and a position that fits it.
CallFits ==
  \A p \in Reader : Reading(p) => query[p] \in Query /\ CursorFits(p, query[p])

\* Nothing below a horizon that has been read will ever change.
HorizonFinal ==
  \A p \in Reader :
    phase[p] \in {"rows", "reply"} /\ query[p].order = "asc" =>
      /\ horizon[p] <= nextXact
      /\ \A t \in Xact : xact[t] = "open" => horizon[p] <= t

\* Nor does anything up to the position of a resumable pull.
CursorFinal ==
  \A p \in Reader : cursor[p] # None =>
    /\ Committed(cursor[p].row)
    /\ cursor[p].query.order = "asc" =>
         \A t \in Xact : xact[t] = "open" => cursor[p].row.xact < t

\* What a reader has is not ahead of its position.
ReceivedBehind ==
  \A p \in Reader : p \in Puller \/ Reading(p) =>
    \A x \in received[p] :
      cursor[p] # None /\ ~ByPosition(cursor[p].query.order, cursor[p].row, x)

\* A page holds the rows that come next.
PageFits ==
  \A p \in Reader :
    /\ phase[p] # "reply" => page[p] = {}
    /\ phase[p] = "reply" =>
         /\ page[p] \subseteq Selected(p)
         /\ more[p] => page[p] # {}
         /\ query[p].order = "asc" =>
              \A x \in page[p], y \in Selected(p) \ page[p] : ByPosition("asc", x, y)

\* What an export owes is final, and is in the file or still ahead.
DueAhead ==
  \A e \in Exporter : Reading(e) =>
    \A x \in due[e] :
      /\ Committed(x) /\ x.kind \in query[e].filter
      /\ query[e].order = "asc" => \A t \in Xact : xact[t] = "open" => x.xact < t
      /\ phase[e] = "rows" => Settled(e, x)
      /\ \/ x \in received[e] \cup page[e]
         \/ /\ phase[e] = "reply" => more[e]
            /\ Ahead(e, x)
            /\ \A y \in page[e] : ByPosition(query[e].order, y, x)

IInv ==
  /\ TypeOK /\ RowsKnown /\ CallFits /\ HorizonFinal /\ CursorFinal
  /\ PageFits /\ NothingBehind /\ DueAhead /\ ExportComplete
=============================================================================
