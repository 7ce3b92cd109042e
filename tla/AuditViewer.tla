---------------------------- MODULE AuditViewer ----------------------------
(***************************************************************************)
(* The audit page's feed (useAuditFeed.ts, AuditView.tsx): plain state and *)
(* requests that carry the generation they were started in, read newest    *)
(* first with a cursor for what is older.                                  *)
(*                                                                         *)
(* An answer is read by the api when it is served, and handed to the page  *)
(* later, in any order.  The page runs an event handler, its render and    *)
(* its effects before the next event: those are one step.  Rows become     *)
(* readable in the order of their numbers here; what a straggler does is   *)
(* AuditFeed's subject.                                                    *)
(***************************************************************************)
EXTENDS Integers, Sequences, FiniteSets, Functions

CONSTANTS
  Filters,        \* filter sets a reader can choose
  AnyFilter,      \* EMPTY_FILTERS
  Matches,        \* Matches[f], the numbers of the rows that f lets through
  PageSize,
  MaxRows, MaxLoads    \* bounds: rows recorded, feeds begun

ASSUME ViewerAssumption ==
  /\ AnyFilter \in Filters
  /\ Matches \in [Filters -> SUBSET (Nat \ {0})]
  /\ PageSize \in Nat \ {0}
  /\ MaxRows \in Nat /\ MaxLoads \in Nat \ {0}

VARIABLES
  recorded,       \* rows 1..recorded are in the log
  filters,        \* what the page's fields say
  generation,
  feed,           \* the hook's state
  loads,          \* requests on their way
  asked           \* history: the filters a request with a cursor was sent under

viewerVars == <<recorded, filters, generation, feed, loads, asked>>

NoCursor == [of |-> AnyFilter, row |-> 0]
NoPage == [items |-> <<>>, cursor |-> NoCursor, hasMore |-> FALSE, upTo |-> 0]

\* The rows of S, newest first: the one sequence in a set.
Descends(s) == \A i, j \in DOMAIN s : i < j => s[i] > s[j]
NewestFirst(S) == {s \in [1..Cardinality(S) -> S] : Range(s) = S /\ Descends(s)}

\* A page of the api: the newest rows older than the cursor, and one row more
\* to tell whether there is more (listAuditEvents, order desc).
Older(f, after) == {e \in Matches[f] : e <= recorded /\ (after = NoCursor \/ e < after.row)}
NewestRows(S) == {e \in S : Cardinality({x \in S : x > e}) < PageSize}

LastOf(s) == s[Len(s)]

PagesOf(f, after) ==
  LET all == Older(f, after)
  IN  {[items |-> items,
        cursor |-> IF items = <<>> THEN NoCursor ELSE [of |-> f, row |-> LastOf(items)],
        hasMore |-> Cardinality(all) > PageSize,
        upTo |-> recorded] : items \in NewestFirst(NewestRows(all))}

Asked(f, after, gen) ==
  [gen |-> gen, of |-> f, after |-> after, is |-> "sent", page |-> NoPage]

\* load(): the flags it sets before its first await.
Begin(f, after, gen) ==
  /\ loads' = loads \cup {Asked(f, after, gen)}
  /\ feed' = IF after = NoCursor THEN [feed EXCEPT !.loading = TRUE]
             ELSE [feed EXCEPT !.loadingMore = TRUE]
  /\ asked' = [with |-> after, under |-> f]

\* The page opens: its first effect loads.  upTo is history.
EmptyFeed ==
  [items |-> <<>>, cursor |-> NoCursor, hasMore |-> FALSE, loading |-> TRUE,
   loadingMore |-> FALSE, error |-> FALSE, unavailable |-> FALSE, upTo |-> 0]
ViewerInit ==
  /\ recorded = 0
  /\ filters = AnyFilter
  /\ generation = 1
  /\ feed = EmptyFeed
  /\ loads = {Asked(AnyFilter, NoCursor, 1)}
  /\ asked = [with |-> NoCursor, under |-> AnyFilter]

RowLands ==
  /\ recorded < MaxRows
  /\ recorded' = recorded + 1
  /\ UNCHANGED <<filters, generation, feed, loads, asked>>

\* A new feed: any change of the filters, or Refresh.
NewFeed(f) ==
  /\ generation < MaxLoads
  /\ filters' = f
  /\ generation' = generation + 1
  /\ Begin(f, NoCursor, generation + 1)
  /\ UNCHANGED recorded

SetFilters(f) == f # filters /\ NewFeed(f)
Refresh == ~feed.loading /\ NewFeed(filters)

\* What AuditView draws: the rows, and under them the button or the end.
Listed == ~feed.unavailable /\ ~feed.error /\ ~feed.loading
RowsShown == Listed /\ feed.items # <<>>

LoadMore ==
  /\ RowsShown /\ feed.hasMore /\ ~feed.loadingMore
  /\ feed.cursor # NoCursor
  /\ Begin(filters, feed.cursor, generation)
  /\ UNCHANGED <<recorded, filters, generation>>

\* The api refuses a cursor of other filters, and a request may fail.
Serve(c) ==
  /\ c.is = "sent"
  /\ \/ /\ c.after = NoCursor \/ c.after.of = c.of
        /\ \E page \in PagesOf(c.of, c.after) :
             loads' = (loads \ {c}) \cup {[c EXCEPT !.is = "page", !.page = page]}
     \/ loads' = (loads \ {c}) \cup {[c EXCEPT !.is = "error"]}
     \/ loads' = (loads \ {c}) \cup {[c EXCEPT !.is = "404"]}
  /\ UNCHANGED <<recorded, filters, generation, feed, asked>>

\* What load() does after its await.  NoFeed is a 404, or a deployment whose
\* mode turns out to be disabled.
Shown(c) ==
  [feed EXCEPT !.unavailable = FALSE, !.error = FALSE,
     !.items = IF c.after = NoCursor THEN c.page.items ELSE @ \o c.page.items,
     !.cursor = c.page.cursor, !.hasMore = c.page.hasMore,
     !.upTo = IF c.after = NoCursor THEN c.page.upTo ELSE @]
Failed == [feed EXCEPT !.error = TRUE, !.hasMore = FALSE]
NoFeed == [feed EXCEPT !.unavailable = TRUE, !.items = <<>>, !.hasMore = FALSE]

Settled(c) ==
  LET after == IF c.is = "page" THEN Shown(c) ELSE IF c.is = "error" THEN Failed ELSE NoFeed
  IN  [after EXCEPT !.loading = FALSE, !.loadingMore = FALSE]

\* Mutant: an answer to a list that has moved on is shown.
DeliverAny(c) ==
  /\ c.is # "sent"
  /\ loads' = loads \ {c}
  /\ feed' = Settled(c)
  /\ UNCHANGED <<recorded, filters, generation, asked>>

Deliver(c) ==
  /\ c.is # "sent"
  /\ loads' = loads \ {c}
  /\ feed' = IF c.gen = generation THEN Settled(c) ELSE feed
  /\ UNCHANGED <<recorded, filters, generation, asked>>

ViewerNext ==
  \/ RowLands
  \/ \E f \in Filters : SetFilters(f)
  \/ Refresh
  \/ LoadMore
  \/ \E c \in loads : Serve(c) \/ Deliver(c)

ViewerSpec == ViewerInit /\ [][ViewerNext]_viewerVars

Cursors == [of: Filters, row: Nat]
Pages == [items: Seq(Nat), cursor: Cursors, hasMore: BOOLEAN, upTo: Nat]
Load == [gen: Nat, of: Filters, after: Cursors, is: {"sent", "page", "error", "404"}, page: Pages]
ViewerTypeOK ==
  /\ recorded \in 0..MaxRows
  /\ filters \in Filters
  /\ generation \in 1..MaxLoads
  /\ feed \in [items: Seq(Nat), cursor: Cursors, hasMore: BOOLEAN, loading: BOOLEAN,
               loadingMore: BOOLEAN, error: BOOLEAN, unavailable: BOOLEAN, upTo: Nat]
  /\ loads \subseteq Load
  /\ asked \in [with: Cursors, under: Filters]

\* The rows on screen are all the rows that the current filters let through,
\* newest first, of the log as the top of the list was read: down to the last
\* one shown while there is more, and to the beginning when the page says it is
\* the end, or that nothing was recorded.  No answer to other filters, and none
\* of a list that has moved on, is mixed in, and none is missing in between
\* (useAuditFeed.ts:106-109, 127-131).
RowsOfFilters ==
  Listed =>
    /\ Descends(feed.items)
    /\ Range(feed.items) =
         {e \in Matches[filters] : /\ e <= feed.upTo
                                   /\ feed.hasMore => e >= LastOf(feed.items)}

\* A cursor is only ever sent under the filters it was issued for, though a
\* stale one is left in place (useAuditFeed.ts:155-161).
CursorOfFilters == asked.with # NoCursor => asked.with.of = asked.under

ViewerTrue == RowsOfFilters /\ CursorOfFilters
=============================================================================
