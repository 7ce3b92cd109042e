------------------------------ MODULE LogList ------------------------------
(***************************************************************************)
(* The two lists read from the router's logs (log-list.ts): a live list    *)
(* whose polls read only what is new and build on the last read, and the   *)
(* older reads that page on from one (read-range.ts).                      *)
(*                                                                         *)
(* A line has a time, a request, and the finder whose filter it matches,   *)
(* or Rest: it belongs to a request that other lines found.  It becomes    *)
(* readable up to Late after its own time.  Times are even; an odd time is *)
(* a seam between lines (SEAM_MS), where one read ends and the next ends   *)
(* just after the same line.                                               *)
(***************************************************************************)
EXTENDS Integers, FiniteSets

CONSTANTS
  Guid,          \* numbers: ties in time are broken by them
  Finder,
  EndFinder,     \* the finder of relay_end lines: one tells its request whole
  Rest,
  LimitOf,       \* LimitOf[f], the lines a read of finder f returns at most
  Cap,           \* requests one read keeps
  Window, Late, HeadFresh, FollowBefore, FollowAfter,
  MinSpan,       \* the shortest stretch that a read is cut down to
  MaxLines, MaxLogTime    \* bounds

ASSUME FinderAssumption ==
  /\ Guid \subseteq Nat /\ IsFiniteSet(Guid)
  /\ EndFinder \in Finder /\ Rest \notin Finder
  /\ LimitOf \in [Finder -> Nat \ {0}]
  /\ Cap \in Nat \ {0}
  /\ {Window, Late, FollowBefore, MaxLogTime} \subseteq Nat /\ FollowAfter \in Nat \ {0}
\* A cut-down read still covers what the next poll reads again.
ASSUME SpanAssumption == MinSpan \in Nat \ {0} /\ MinSpan >= Late

VARIABLES
  logNow,
  lines,         \* every line written
  readable,      \* those Loki returns
  head,          \* the live list's last read: what its next poll builds on
  poll,          \* a poll whose finders have answered
  answer,        \* history: the rows of a poll the last step answered, and of a whole read
  pager          \* someone paging back: before, and what the pages listed

logVars == <<logNow, lines, readable, head, poll, answer, pager>>

LogTime == {2 * n : n \in 0..(MaxLogTime \div 2)}
Seam == 1
Line == [at: LogTime, guid: Guid, by: Finder \cup {Rest}]
NoHead == [on |-> FALSE, wholeAt |-> 0, floor |-> 0, end |-> 0,
           seen |-> [f \in Finder |-> {}], followed |-> {}]
NoPoll == [on |-> FALSE, start |-> 0, end |-> 0, wholeAt |-> 0, floor |-> 0,
           seen |-> [f \in Finder |-> {}], whole |-> [f \in Finder |-> {}], held |-> {}]
NoRows == [rows |-> {}, whole |-> {}]
NoPager == [on |-> FALSE, before |-> 0, due |-> {}, listed |-> {}, done |-> FALSE]

LogInit ==
  /\ logNow = 0
  /\ lines = {} /\ readable = {}
  /\ head = NoHead
  /\ poll = NoPoll
  /\ answer = NoRows
  /\ pager = NoPager

Highest(S) == CHOOSE x \in S : \A y \in S : y <= x
Lowest(S) == CHOOSE x \in S : \A y \in S : x <= y

-----------------------------------------------------------------------------
(* The log. *)

\* A request's lines start at most FollowBefore before any line that found it
\* and end less than FollowAfter after one (FollowUp): a read's end is not in it.
Belongs(l) ==
  \A m \in lines : m.guid = l.guid =>
    /\ m.by # Rest => l.at < m.at + FollowAfter
    /\ l.by # Rest => l.at - FollowBefore <= m.at

Write(l) ==
  /\ l.at = logNow
  /\ l \notin lines
  /\ Cardinality(lines) < MaxLines
  /\ Belongs(l)
  /\ lines' = lines \cup {l}
  /\ answer' = NoRows
  /\ UNCHANGED <<logNow, readable, head, poll, pager>>

Arrive(l) ==
  /\ l \in lines \ readable
  /\ readable' = readable \cup {l}
  /\ answer' = NoRows
  /\ UNCHANGED <<logNow, lines, head, poll, pager>>

LogTick ==
  /\ logNow + 2 \in LogTime
  /\ \A l \in lines \ readable : logNow + 2 <= l.at + Late
  /\ logNow' = logNow + 2
  /\ answer' = NoRows
  /\ UNCHANGED <<lines, readable, head, poll, pager>>

-----------------------------------------------------------------------------
(* Reads. *)

Newer(a, b) == a.at > b.at \/ (a.at = b.at /\ a.guid < b.guid)
Newest(S, n) == {l \in S : Cardinality({m \in S : Newer(m, l)}) < n}

\* A finder's read of [from, to), newest first up to its limit.
Found(f, from, to) ==
  Newest({l \in readable : l.by = f /\ from <= l.at /\ l.at < to}, LimitOf[f])
Full(f, S) == Cardinality(S) >= LimitOf[f]

AllOf(seen) == UNION {seen[f] : f \in Finder}
GuidsOf(S) == {l.guid : l \in S}
LastAt(seen, g) == Highest({l.at : l \in {m \in AllOf(seen) : m.guid = g}})

\* ranked(): the requests by their newest finder line; a read keeps the first Cap.
Kept(seen) ==
  LET found == GuidsOf(AllOf(seen))
      first == {[at |-> LastAt(seen, g), guid |-> g] : g \in found}
  IN  GuidsOf(Newest(first, Cap))

\* Mutant: the requests past the cap do not bound where the next page ends.
NextBeforeCap(seen, floor, start, end) ==
  LET cuts == {Lowest({l.at : l \in seen[f]}) : f \in {x \in Finder : Full(x, seen[x])}}
      bounds == cuts \cup (IF floor > start THEN {floor} ELSE {})
  IN  IF bounds = {} THEN {}
      ELSE IF Highest(bounds) + Seam < end THEN {Highest(bounds) + Seam} ELSE {end - Seam}

\* readOnFrom(): the newest of what the read left out, and just past it.
NextBefore(seen, floor, start, end) ==
  LET cuts == {Lowest({l.at : l \in seen[f]}) : f \in {x \in Finder : Full(x, seen[x])}}
      left == {LastAt(seen, g) : g \in GuidsOf(AllOf(seen)) \ Kept(seen)}
      bounds == cuts \cup left \cup (IF floor > start THEN {floor} ELSE {})
  IN  IF bounds = {} THEN {}
      ELSE IF Highest(bounds) + Seam < end THEN {Highest(bounds) + Seam} ELSE {end - Seam}

\* Where a read that is not built on another starts: readStart() cuts a heavy
\* stretch down, never below MinSpan.
Floors(start, end) == {start} \cup {t \in LogTime : start < t /\ t <= end - MinSpan}

\* merged(): a finder's new lines, then the head's older ones in the window.
Merged(f, fresh, start, from) ==
  IF Full(f, fresh) THEN fresh
  ELSE Newest(fresh \cup {l \in head.seen[f] : start <= l.at /\ l.at < from}, LimitOf[f])

\* The rows made from one set of finder lines: a request with its relay_end in
\* hand from that alone, the others from the lines a follow-up read returns.
InHand(seen) == GuidsOf(seen[EndFinder])
EndRows(seen) ==
  {[guid |-> g, lines |-> {l \in seen[EndFinder] : l.guid = g}] : g \in Kept(seen) \cap InHand(seen)}
FollowRows(seen, need) ==
  LET times == {l.at : l \in {m \in AllOf(seen) : m.guid \in need}}
      from == Lowest(times) - FollowBefore
      to == Highest(times) + FollowAfter
  IN  {[guid |-> g, lines |-> {l \in readable : l.guid = g /\ from <= l.at /\ l.at < to /\ l.at < logNow}]
         : g \in need}

\* The head's read stopped at its limit inside the window, and fewer lines than
\* that are left: what lies below can't be told.
CannotTell(f, fresh, start, from) ==
  /\ ~Full(f, fresh) /\ ~Full(f, Merged(f, fresh, start, from))
  /\ from > start
  /\ Full(f, head.seen[f])
  /\ Lowest({l.at : l \in head.seen[f]}) >= start

-----------------------------------------------------------------------------
(* A live list's poll (readList): its finders, and then the follow-up. *)

Start == logNow - Window

From == IF head.end - Late > Start THEN head.end - Late ELSE Start

BuildsOn ==
  /\ head.on
  /\ logNow - head.wholeAt <= HeadFresh
  /\ \A f \in Finder : ~CannotTell(f, Found(f, From, logNow), Start, From)

PollBegins(floor, wholeAt, seen, held) ==
  /\ ~poll.on /\ ~pager.on
  /\ poll' = [on |-> TRUE, start |-> Start, end |-> logNow, wholeAt |-> wholeAt,
              floor |-> floor, seen |-> seen, held |-> held,
              whole |-> [f \in Finder |->
                           Found(f, IF floor > Start THEN floor ELSE Start, logNow)]]
  /\ answer' = NoRows
  /\ UNCHANGED <<logNow, lines, readable, head, pager>>

PollWhole ==
  /\ ~BuildsOn
  /\ \E floor \in Floors(Start, logNow) :
       PollBegins(floor, logNow, [f \in Finder |-> Found(f, floor, logNow)], {})

PollOn ==
  /\ BuildsOn
  /\ PollBegins(head.floor, head.wholeAt,
       [f \in Finder |-> Merged(f, Found(f, From, logNow), Start, From)], head.followed)

\* Requests whose lines the head holds whole; the others are read again.
Held == {h \in poll.held : h.guid \in Kept(poll.seen) \ InHand(poll.seen)
                           /\ h.done /\ LastAt(poll.seen, h.guid) <= h.newest}
Need == (Kept(poll.seen) \ InHand(poll.seen)) \ GuidsOf(Held)

\* Mutant: the lines that come late are not waited for.
NoneToComeYet(newest, end) == newest + FollowAfter <= end

\* Nothing of a request can come any more.
NoneToCome(newest, end) == newest + FollowAfter <= end - Late

\* lost: requests whose batch Loki did not answer.
PollEnds(lost) ==
  /\ poll.on
  /\ lost \subseteq Need /\ (lost = Need => Need = {})
  /\ LET got == FollowRows(poll.seen, Need \ lost)
         rows == {[guid |-> h.guid, lines |-> h.lines] : h \in Held}
                   \cup (IF Need \ lost = {} THEN {} ELSE got) \cup EndRows(poll.seen)
         follow == (Kept(poll.whole) \ InHand(poll.whole)) \ lost
         whole == EndRows(poll.whole)
                    \cup (IF follow = {} THEN {} ELSE FollowRows(poll.whole, follow))
         fresh == IF Need \ lost = {} THEN {} ELSE
                  {[guid |-> r.guid, lines |-> r.lines, newest |-> LastAt(poll.seen, r.guid),
                    done |-> NoneToCome(LastAt(poll.seen, r.guid), poll.end)] : r \in got}
     IN  /\ answer' = [rows |-> rows, whole |-> whole]
         /\ head' = [on |-> TRUE, wholeAt |-> poll.wholeAt, floor |-> poll.floor,
                     end |-> poll.end, seen |-> poll.seen, followed |-> Held \cup fresh]
  /\ poll' = NoPoll
  /\ UNCHANGED <<logNow, lines, readable, pager>>

\* Loki does not answer: the head stays as it was.
PollFails ==
  /\ poll.on
  /\ poll' = NoPoll
  /\ answer' = NoRows
  /\ UNCHANGED <<logNow, lines, readable, head, pager>>
-----------------------------------------------------------------------------
(* Paging back from a read ("Load older"): each page ends at the last one's *)
(* nextBefore.  Its reads are whole, and someone pages while no list polls. *)

Page(end, due, listed) ==
  \E floor \in Floors(Start, end) :
    LET seen == [f \in Finder |-> Found(f, floor, end)]
        next == NextBefore(seen, floor, Start, end)
    IN  /\ pager' = [on |-> TRUE, before |-> IF next = {} THEN 0 ELSE Highest(next),
                     due |-> due, listed |-> listed \cup Kept(seen), done |-> next = {}]
        /\ answer' = NoRows
        /\ UNCHANGED <<logNow, lines, readable, head, poll>>

PageFirst ==
  /\ ~pager.on /\ ~head.on /\ ~poll.on
  /\ Page(logNow, {l \in readable : l.by # Rest /\ Start <= l.at /\ l.at < logNow}, {})

PageOlder ==
  /\ pager.on /\ ~pager.done
  /\ pager.before > Start
  /\ Page(pager.before, pager.due, pager.listed)

-----------------------------------------------------------------------------
LogNext ==
  \/ \E l \in Line : Write(l)
  \/ \E l \in lines : Arrive(l)
  \/ LogTick
  \/ PollWhole \/ PollOn \/ PollFails
  \/ \E lost \in SUBSET Guid : PollEnds(lost)
  \/ PageFirst \/ PageOlder

LogSpec == LogInit /\ [][LogNext]_logVars

LogTypeOK ==
  /\ logNow \in LogTime
  /\ lines \subseteq Line /\ readable \subseteq lines
  /\ head.seen \in [Finder -> SUBSET Line] /\ poll.seen \in [Finder -> SUBSET Line]
  /\ head.end <= logNow /\ head.wholeAt <= head.end
  /\ pager.listed \subseteq Guid

\* A poll built on the last read knows the same finder lines as a read of the
\* whole window would at that moment, so the same requests, order and
\* nextBefore: no line is missed at the seam between the two reads, kept past
\* the window, or counted past a finder's limit (log-list.ts merged, readList).
PollSeesWhole == poll.on => poll.seen = poll.whole

\* The rows a poll answers are those of a read of the whole window, whatever
\* rows it takes from the head unread: none is told from a part of its lines
\* that has grown since (log-list.ts Followed, readList).
RowsAsWhole == answer.rows = answer.whole

\* A poll that reads on keeps what a read of the whole window keeps, and answers
\* its rows.
ListAsWhole == PollSeesWhole /\ RowsAsWhole

\* Paging back to the end lists every request a finder's line of which the
\* first page could read, while its line is in the window - unless more of
\* them share one time than a read keeps (read-range.ts readOnFrom).
Uncrowded ==
  \A t \in LogTime :
    LET at == {l \in lines : l.at = t /\ l.by # Rest} IN
    /\ Cardinality(GuidsOf(at)) <= Cap
    /\ \A f \in Finder : Cardinality({l \in at : l.by = f}) <= LimitOf[f]
PagesSkipNothing ==
  pager.done /\ Uncrowded =>
    \A g \in GuidsOf(pager.due) :
      Highest({l.at : l \in {m \in pager.due : m.guid = g}}) >= Start => g \in pager.listed
=============================================================================
