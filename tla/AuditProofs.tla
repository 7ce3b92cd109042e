---------------------------- MODULE AuditProofs ----------------------------
(* Proofs about AuditFeed, for any set of readers, filters and page sizes  *)
(* and any number of transactions and rows: the resume of the feed has no  *)
(* gaps and no duplicates, downloads are complete, and the feed implements *)
(* ResumableFeed.                                                          *)
EXTENDS AuditFeed, FiniteSetTheorems, TLAPS

\* Every step is one of these.
LEMMA Steps ==
  ASSUME Next
  PROVE  \/ BeginXact
         \/ \E t \in Xact, k \in Kind : InsertRow(t, k)
         \/ \E t \in Xact, outcome \in {"committed", "aborted"} : EndXact(t, outcome)
         \/ \E p \in Reader, h \in 1..(MaxXact + 1) : ReadHorizon(p, h)
         \/ \E p \in Reader, limit \in Limit : \E s \in SUBSET rows : ReadRows(p, s, limit)
         \/ \E p \in Puller, q \in Query : Pull(p, q)
         \/ \E p \in Puller, q \in Query : PullRefused(p, q)
         \/ \E p \in Puller : Reply(p)
         \/ \E p \in Puller : Lose(p)
         \/ \E e \in Exporter, q \in Query : ExportBegin(e, q)
         \/ \E e \in Exporter : ExportMore(e)
         \/ \E e \in Exporter : ExportEnd(e)
         \/ \E e \in Exporter : ExportFail(e)
  BY DEF Next, Read

LEMMA TypedStep == TypeOK /\ CallFits /\ [Next]_vars => TypeOK'
<1>1. SUFFICES ASSUME TypeOK, CallFits, [Next]_vars PROVE TypeOK'
  OBVIOUS
<1> USE BoundAssumption
<1>2. CASE UNCHANGED vars
  BY <1>1, <1>2 DEF TypeOK, vars, database, reader
<1>3. CASE BeginXact
  BY <1>1, <1>3 DEF TypeOK, BeginXact, reader, Xact
<1>4. ASSUME NEW t \in Xact, NEW k \in Kind, InsertRow(t, k) PROVE TypeOK'
  <2>1. [xact |-> t, seq |-> nextSeq, kind |-> k] \in Row
    BY <1>1, <1>4 DEF TypeOK, InsertRow, Row, Seq
  <2> QED BY <2>1, <1>1, <1>4 DEF TypeOK, InsertRow, reader
<1>5. ASSUME NEW t \in Xact, NEW outcome \in {"committed", "aborted"}, EndXact(t, outcome)
      PROVE  TypeOK'
  BY <1>1, <1>5 DEF TypeOK, EndXact, reader
<1>6. ASSUME NEW p \in Reader, NEW h \in 1..(MaxXact + 1), ReadHorizon(p, h) PROVE TypeOK'
  BY <1>1, <1>6 DEF TypeOK, ReadHorizon, database
<1>7. ASSUME NEW p \in Reader, NEW limit \in Limit, NEW s \in SUBSET rows, ReadRows(p, s, limit)
      PROVE  TypeOK'
  <2>1. s \subseteq Row /\ (s # Selected(p)) \in BOOLEAN
    BY <1>1 DEF TypeOK
  <2> QED BY <2>1, <1>1, <1>7 DEF TypeOK, ReadRows, database
<1>8. ASSUME NEW p \in Puller, NEW q \in Query, Pull(p, q) PROVE TypeOK'
  <2>1. p \in Reader /\ FirstRead(q) \in {"horizon", "rows"}
    BY DEF Reader, FirstRead
  <2> QED BY <2>1, <1>1, <1>8 DEF TypeOK, Pull, database
<1>9. ASSUME NEW p \in Puller, NEW q \in Query, PullRefused(p, q) PROVE TypeOK'
  BY <1>1, <1>9 DEF TypeOK, PullRefused, database, Reader
<1>10. ASSUME NEW p \in Puller, Reply(p) PROVE TypeOK'
  <2>1. p \in Reader
    BY DEF Reader
  <2>2. received' \in [Reader -> SUBSET Row]
    BY <2>1, <1>1, <1>10 DEF TypeOK, Reply
  <2>3. cursor' \in [Reader -> Cursor \cup {None}]
    <3>1. query[p] \in Query /\ page[p] \subseteq Row
      BY <2>1, <1>1, <1>10 DEF TypeOK, Reply, CallFits, Reading
    <3>2. \A x \in page[p] : [row |-> x, query |-> query[p]] \in Cursor
      BY <3>1 DEF Cursor
    <3> QED BY <3>2, <2>1, <1>1, <1>10 DEF TypeOK, Reply, IsLast
  <2> QED BY <2>1, <2>2, <2>3, <1>1, <1>10 DEF TypeOK, Reply, Over, database
<1>11. ASSUME NEW p \in Puller, Lose(p) PROVE TypeOK'
  BY <1>1, <1>11 DEF TypeOK, Lose, Over, database, Reader
<1>12. ASSUME NEW e \in Exporter, NEW q \in Query, ExportBegin(e, q) PROVE TypeOK'
  <2>1. e \in Reader /\ FirstRead(q) \in {"horizon", "rows"}
    BY DEF Reader, FirstRead
  <2>2. due' \in [Exporter -> SUBSET Row]
    BY <1>1, <1>12 DEF TypeOK, ExportBegin
  <2> QED BY <2>1, <2>2, <1>1, <1>12 DEF TypeOK, ExportBegin, database
<1>13. ASSUME NEW e \in Exporter, ExportMore(e) PROVE TypeOK'
  <2>1. e \in Reader /\ FirstRead(query[e]) \in {"horizon", "rows"}
    BY DEF Reader, FirstRead
  <2>2. received' \in [Reader -> SUBSET Row]
    BY <2>1, <1>1, <1>13 DEF TypeOK, ExportMore
  <2>3. query[e] \in Query /\ page[e] \subseteq Row
    BY <2>1, <1>1, <1>13 DEF TypeOK, ExportMore, CallFits, Reading
  <2>4. \A x \in page[e] : [row |-> x, query |-> query[e]] \in Cursor
    BY <2>3 DEF Cursor
  <2>5. cursor' \in [Reader -> Cursor \cup {None}]
    BY <2>1, <2>4, <1>1, <1>13 DEF TypeOK, ExportMore, IsLast
  <2> QED BY <2>1, <2>2, <2>5, <1>1, <1>13 DEF TypeOK, ExportMore, database
<1>14. ASSUME NEW e \in Exporter, ExportEnd(e) PROVE TypeOK'
  <2>1. e \in Reader
    BY DEF Reader
  <2>2. received' \in [Reader -> SUBSET Row]
    BY <2>1, <1>1, <1>14 DEF TypeOK, ExportEnd
  <2> QED BY <2>1, <2>2, <1>1, <1>14 DEF TypeOK, ExportEnd, Over, database
<1>15. ASSUME NEW e \in Exporter, ExportFail(e) PROVE TypeOK'
  BY <1>1, <1>15 DEF TypeOK, ExportFail, Over, database, Reader
<1> QED
  BY <1>1, <1>2, <1>3, <1>4, <1>5, <1>6, <1>7, <1>8, <1>9, <1>10, <1>11, <1>12, <1>13,
     <1>14, <1>15, Steps

\* Transaction ids and sequence numbers are given out once, in order.
LEMMA RowsKnownStep == TypeOK /\ CallFits /\ RowsKnown /\ [Next]_vars => RowsKnown'
<1>1. SUFFICES ASSUME TypeOK, CallFits, RowsKnown, [Next]_vars PROVE RowsKnown'
  OBVIOUS
<1>2. CASE UNCHANGED vars
  BY <1>1, <1>2 DEF TypeOK, RowsKnown, Row, Xact, Seq, vars, database, reader
<1>3. CASE BeginXact
  BY <1>1, <1>3 DEF TypeOK, RowsKnown, Row, Xact, Seq, BeginXact, reader
<1>4. ASSUME NEW t \in Xact, NEW k \in Kind, InsertRow(t, k) PROVE RowsKnown'
  BY <1>1, <1>4 DEF TypeOK, RowsKnown, Row, Xact, Seq, InsertRow, reader
<1>5. ASSUME NEW t \in Xact, NEW outcome \in {"committed", "aborted"}, EndXact(t, outcome) PROVE RowsKnown'
  BY <1>1, <1>5 DEF TypeOK, RowsKnown, Row, Xact, Seq, EndXact, reader
<1>6. ASSUME NEW p \in Reader, NEW h \in 1..(MaxXact + 1), ReadHorizon(p, h) PROVE RowsKnown'
  BY <1>1, <1>6 DEF TypeOK, RowsKnown, Row, Xact, Seq, ReadHorizon, database
<1>7. ASSUME NEW p \in Reader, NEW limit \in Limit, NEW s \in SUBSET rows,
             ReadRows(p, s, limit) PROVE RowsKnown'
  BY <1>1, <1>7 DEF TypeOK, RowsKnown, Row, Xact, Seq, ReadRows, database
<1>8. ASSUME NEW p \in Puller, NEW q \in Query, Pull(p, q) PROVE RowsKnown'
  BY <1>1, <1>8 DEF TypeOK, RowsKnown, Row, Xact, Seq, Pull, database, Reader
<1>9. ASSUME NEW p \in Puller, NEW q \in Query, PullRefused(p, q) PROVE RowsKnown'
  BY <1>1, <1>9 DEF TypeOK, RowsKnown, Row, Xact, Seq, PullRefused, database, Reader
<1>10. ASSUME NEW p \in Puller, Reply(p) PROVE RowsKnown'
  BY <1>1, <1>10 DEF TypeOK, RowsKnown, Row, Xact, Seq, Reply, database, Over, Reader
<1>11. ASSUME NEW p \in Puller, Lose(p) PROVE RowsKnown'
  BY <1>1, <1>11 DEF TypeOK, RowsKnown, Row, Xact, Seq, Lose, database, Over, Reader
<1>12. ASSUME NEW e \in Exporter, NEW q \in Query, ExportBegin(e, q) PROVE RowsKnown'
  BY <1>1, <1>12 DEF TypeOK, RowsKnown, Row, Xact, Seq, ExportBegin, database, Reader
<1>13. ASSUME NEW e \in Exporter, ExportMore(e) PROVE RowsKnown'
  BY <1>1, <1>13 DEF TypeOK, RowsKnown, Row, Xact, Seq, ExportMore, database, Reader
<1>14. ASSUME NEW e \in Exporter, ExportEnd(e) PROVE RowsKnown'
  BY <1>1, <1>14 DEF TypeOK, RowsKnown, Row, Xact, Seq, ExportEnd, database, Over, Reader
<1>15. ASSUME NEW e \in Exporter, ExportFail(e) PROVE RowsKnown'
  BY <1>1, <1>15 DEF TypeOK, RowsKnown, Row, Xact, Seq, ExportFail, database, Over, Reader
<1> QED BY <1>1, <1>2, <1>3, <1>4, <1>5, <1>6, <1>7, <1>8, <1>9, <1>10, <1>11, <1>12, <1>13,
     <1>14, <1>15, Steps

\* A call under way has a query its position fits.
LEMMA CallFitsStep == TypeOK /\ CallFits /\ [Next]_vars => CallFits'
<1>1. SUFFICES ASSUME TypeOK, CallFits, [Next]_vars PROVE CallFits'
  OBVIOUS
<1>2. CASE UNCHANGED vars
  BY <1>1, <1>2 DEF TypeOK, CallFits, Reading, CursorFits, FirstRead, vars, database, reader
<1>3. CASE BeginXact
  BY <1>1, <1>3 DEF TypeOK, CallFits, Reading, CursorFits, FirstRead, BeginXact, reader
<1>4. ASSUME NEW t \in Xact, NEW k \in Kind, InsertRow(t, k) PROVE CallFits'
  BY <1>1, <1>4 DEF TypeOK, CallFits, Reading, CursorFits, FirstRead, InsertRow, reader
<1>5. ASSUME NEW t \in Xact, NEW outcome \in {"committed", "aborted"}, EndXact(t, outcome) PROVE CallFits'
  BY <1>1, <1>5 DEF TypeOK, CallFits, Reading, CursorFits, FirstRead, EndXact, reader
<1>6. ASSUME NEW p \in Reader, NEW h \in 1..(MaxXact + 1), ReadHorizon(p, h) PROVE CallFits'
  BY <1>1, <1>6 DEF TypeOK, CallFits, Reading, CursorFits, FirstRead, ReadHorizon, database
<1>7. ASSUME NEW p \in Reader, NEW limit \in Limit, NEW s \in SUBSET rows,
             ReadRows(p, s, limit) PROVE CallFits'
  BY <1>1, <1>7 DEF TypeOK, CallFits, Reading, CursorFits, FirstRead, ReadRows, database
<1>8. ASSUME NEW p \in Puller, NEW q \in Query, Pull(p, q) PROVE CallFits'
  BY <1>1, <1>8 DEF TypeOK, CallFits, Reading, CursorFits, FirstRead, Pull, database, Reader
<1>9. ASSUME NEW p \in Puller, NEW q \in Query, PullRefused(p, q) PROVE CallFits'
  BY <1>1, <1>9 DEF TypeOK, CallFits, Reading, CursorFits, FirstRead, PullRefused, database,
       Reader
<1>10. ASSUME NEW p \in Puller, Reply(p) PROVE CallFits'
  BY <1>1, <1>10 DEF TypeOK, CallFits, Reading, CursorFits, FirstRead, Reply, database,
       Over, Reader
<1>11. ASSUME NEW p \in Puller, Lose(p) PROVE CallFits'
  BY <1>1, <1>11 DEF TypeOK, CallFits, Reading, CursorFits, FirstRead, Lose, database, Over,
       Reader
<1>12. ASSUME NEW e \in Exporter, NEW q \in Query, ExportBegin(e, q) PROVE CallFits'
  BY <1>1, <1>12 DEF TypeOK, CallFits, Reading, CursorFits, FirstRead, ExportBegin,
       database, Reader
<1>13. ASSUME NEW e \in Exporter, ExportMore(e) PROVE CallFits'
  BY <1>1, <1>13 DEF TypeOK, CallFits, Reading, CursorFits, FirstRead, ExportMore, database,
       Reader
<1>14. ASSUME NEW e \in Exporter, ExportEnd(e) PROVE CallFits'
  BY <1>1, <1>14 DEF TypeOK, CallFits, Reading, CursorFits, FirstRead, ExportEnd, database,
       Over, Reader
<1>15. ASSUME NEW e \in Exporter, ExportFail(e) PROVE CallFits'
  BY <1>1, <1>15 DEF TypeOK, CallFits, Reading, CursorFits, FirstRead, ExportFail, database,
       Over, Reader
<1> QED BY <1>1, <1>2, <1>3, <1>4, <1>5, <1>6, <1>7, <1>8, <1>9, <1>10, <1>11, <1>12, <1>13,
     <1>14, <1>15, Steps

\* A horizon that has been read stays below whatever is open.
LEMMA HorizonFinalStep ==
  /\ TypeOK /\ CallFits /\ RowsKnown /\ HorizonFinal /\ [Next]_vars
  => HorizonFinal'
<1>1. SUFFICES ASSUME TypeOK, CallFits, RowsKnown, HorizonFinal, [Next]_vars PROVE
     HorizonFinal'
  OBVIOUS
<1>2. CASE UNCHANGED vars
  BY <1>1, <1>2 DEF TypeOK, RowsKnown, HorizonFinal, Xact, CallFits, Reading, vars,
       database, reader
<1>3. CASE BeginXact
  BY <1>1, <1>3 DEF TypeOK, RowsKnown, HorizonFinal, Xact, CallFits, Reading, BeginXact, reader
<1>4. ASSUME NEW t \in Xact, NEW k \in Kind, InsertRow(t, k) PROVE HorizonFinal'
  BY <1>1, <1>4 DEF TypeOK, RowsKnown, HorizonFinal, Xact, CallFits, Reading, InsertRow, reader
<1>5. ASSUME NEW t \in Xact, NEW outcome \in {"committed", "aborted"}, EndXact(t, outcome) PROVE HorizonFinal'
  BY <1>1, <1>5 DEF TypeOK, RowsKnown, HorizonFinal, Xact, CallFits, Reading, EndXact, reader
<1>6. ASSUME NEW p \in Reader, NEW h \in 1..(MaxXact + 1), ReadHorizon(p, h) PROVE HorizonFinal'
  BY <1>1, <1>6 DEF TypeOK, RowsKnown, HorizonFinal, Xact, CallFits, Reading, ReadHorizon,
       database, IsHorizon
<1>7. ASSUME NEW p \in Reader, NEW limit \in Limit, NEW s \in SUBSET rows,
             ReadRows(p, s, limit) PROVE HorizonFinal'
  BY <1>1, <1>7 DEF TypeOK, RowsKnown, HorizonFinal, Xact, CallFits, Reading, ReadRows, database
<1>8. ASSUME NEW p \in Puller, NEW q \in Query, Pull(p, q) PROVE HorizonFinal'
  BY <1>1, <1>8 DEF TypeOK, RowsKnown, HorizonFinal, Xact, CallFits, Reading, Pull,
       database, Reader, FirstRead
<1>9. ASSUME NEW p \in Puller, NEW q \in Query, PullRefused(p, q) PROVE HorizonFinal'
  BY <1>1, <1>9 DEF TypeOK, RowsKnown, HorizonFinal, Xact, CallFits, Reading, PullRefused,
       database, Reader
<1>10. ASSUME NEW p \in Puller, Reply(p) PROVE HorizonFinal'
  BY <1>1, <1>10 DEF TypeOK, RowsKnown, HorizonFinal, Xact, CallFits, Reading, Reply,
       database, Over, Reader
<1>11. ASSUME NEW p \in Puller, Lose(p) PROVE HorizonFinal'
  BY <1>1, <1>11 DEF TypeOK, RowsKnown, HorizonFinal, Xact, CallFits, Reading, Lose,
       database, Over, Reader
<1>12. ASSUME NEW e \in Exporter, NEW q \in Query, ExportBegin(e, q) PROVE HorizonFinal'
  BY <1>1, <1>12 DEF TypeOK, RowsKnown, HorizonFinal, Xact, CallFits, Reading, ExportBegin,
       database, Reader, FirstRead
<1>13. ASSUME NEW e \in Exporter, ExportMore(e) PROVE HorizonFinal'
  BY <1>1, <1>13 DEF TypeOK, RowsKnown, HorizonFinal, Xact, CallFits, Reading, ExportMore,
       database, Reader, FirstRead
<1>14. ASSUME NEW e \in Exporter, ExportEnd(e) PROVE HorizonFinal'
  BY <1>1, <1>14 DEF TypeOK, RowsKnown, HorizonFinal, Xact, CallFits, Reading, ExportEnd,
       database, Over, Reader
<1>15. ASSUME NEW e \in Exporter, ExportFail(e) PROVE HorizonFinal'
  BY <1>1, <1>15 DEF TypeOK, RowsKnown, HorizonFinal, Xact, CallFits, Reading, ExportFail,
       database, Over, Reader
<1> QED BY <1>1, <1>2, <1>3, <1>4, <1>5, <1>6, <1>7, <1>8, <1>9, <1>10, <1>11, <1>12, <1>13,
     <1>14, <1>15, Steps

\* The row a position names is committed, and what is before it final.
LEMMA CursorFinalStep ==
  /\ TypeOK /\ RowsKnown /\ CallFits /\ HorizonFinal /\ PageFits /\ CursorFinal
  /\ [Next]_vars
  => CursorFinal'
<1>1. SUFFICES ASSUME TypeOK, RowsKnown, CallFits, HorizonFinal, PageFits, CursorFinal,
     [Next]_vars PROVE CursorFinal'
  OBVIOUS
<1>2. CASE UNCHANGED vars
  BY <1>1, <1>2 DEF TypeOK, RowsKnown, CursorFinal, Committed, Xact, Row, Cursor, vars,
       database, reader
<1>3. CASE BeginXact
  BY <1>1, <1>3 DEF TypeOK, RowsKnown, CursorFinal, Committed, Xact, Row, Cursor, BeginXact,
       reader
<1>4. ASSUME NEW t \in Xact, NEW k \in Kind, InsertRow(t, k) PROVE CursorFinal'
  BY <1>1, <1>4 DEF TypeOK, RowsKnown, CursorFinal, Committed, Xact, Row, Cursor, InsertRow,
       reader
<1>5. ASSUME NEW t \in Xact, NEW outcome \in {"committed", "aborted"}, EndXact(t, outcome) PROVE CursorFinal'
  BY <1>1, <1>5 DEF TypeOK, RowsKnown, CursorFinal, Committed, Xact, Row, Cursor, EndXact,
       reader
<1>6. ASSUME NEW p \in Reader, NEW h \in 1..(MaxXact + 1), ReadHorizon(p, h) PROVE CursorFinal'
  BY <1>1, <1>6 DEF TypeOK, RowsKnown, CursorFinal, Committed, Xact, Row, Cursor,
       ReadHorizon, database
<1>7. ASSUME NEW p \in Reader, NEW limit \in Limit, NEW s \in SUBSET rows,
             ReadRows(p, s, limit) PROVE CursorFinal'
  BY <1>1, <1>7 DEF TypeOK, RowsKnown, CursorFinal, Committed, Xact, Row, Cursor, ReadRows,
       database
<1>8. ASSUME NEW p \in Puller, NEW q \in Query, Pull(p, q) PROVE CursorFinal'
  BY <1>1, <1>8 DEF TypeOK, RowsKnown, CursorFinal, Committed, Xact, Row, Cursor, Pull,
       database, Reader
<1>9. ASSUME NEW p \in Puller, NEW q \in Query, PullRefused(p, q) PROVE CursorFinal'
  BY <1>1, <1>9 DEF TypeOK, RowsKnown, CursorFinal, Committed, Xact, Row, Cursor,
       PullRefused, database, Reader
<1>10. ASSUME NEW p \in Puller, Reply(p) PROVE CursorFinal'
  BY <1>1, <1>10 DEF TypeOK, RowsKnown, CursorFinal, Committed, Xact, Row, Cursor, Reply,
       database, Over, Reader, PageFits, HorizonFinal, CallFits, Reading, Selected, Settled,
       IsLast
<1>11. ASSUME NEW p \in Puller, Lose(p) PROVE CursorFinal'
  BY <1>1, <1>11 DEF TypeOK, RowsKnown, CursorFinal, Committed, Xact, Row, Cursor, Lose,
       database, Over, Reader
<1>12. ASSUME NEW e \in Exporter, NEW q \in Query, ExportBegin(e, q) PROVE CursorFinal'
  BY <1>1, <1>12 DEF TypeOK, RowsKnown, CursorFinal, Committed, Xact, Row, Cursor,
       ExportBegin, database, Reader
<1>13. ASSUME NEW e \in Exporter, ExportMore(e) PROVE CursorFinal'
  <2>1. e \in Reader /\ query[e] \in Query /\ page[e] \subseteq Selected(e)
    BY <1>1, <1>13 DEF ExportMore, Reader, CallFits, Reading, PageFits
  <2>2. PICK x \in page[e] : cursor' = [cursor EXCEPT ![e] = [row |-> x, query |-> query[e]]]
    BY <1>13 DEF ExportMore, IsLast
  <2>3. /\ Committed(x)
        /\ query[e].order = "asc" =>
             /\ x.xact < horizon[e]
             /\ \A t \in Xact : xact[t] = "open" => horizon[e] <= t
    BY <1>1, <1>13, <2>1, <2>2 DEF ExportMore, Selected, Settled, HorizonFinal
  <2>4. x \in Row /\ Xact \subseteq Nat /\ horizon[e] \in Nat
    BY <1>1, <2>1, <2>2 DEF TypeOK, Xact, Selected
  <2> QED BY <1>1, <1>13, <2>1, <2>2, <2>3, <2>4 DEF TypeOK, CursorFinal, Committed, Row, ExportMore, database
<1>14. ASSUME NEW e \in Exporter, ExportEnd(e) PROVE CursorFinal'
  BY <1>1, <1>14 DEF TypeOK, RowsKnown, CursorFinal, Committed, Xact, Row, Cursor,
       ExportEnd, database, Over, Reader
<1>15. ASSUME NEW e \in Exporter, ExportFail(e) PROVE CursorFinal'
  BY <1>1, <1>15 DEF TypeOK, RowsKnown, CursorFinal, Committed, Xact, Row, Cursor,
       ExportFail, database, Over, Reader
<1> QED BY <1>1, <1>2, <1>3, <1>4, <1>5, <1>6, <1>7, <1>8, <1>9, <1>10, <1>11, <1>12, <1>13,
     <1>14, <1>15, Steps

\* A page stays the next rows: what is below the horizon does not change.
LEMMA PageFitsStep ==
  /\ TypeOK /\ RowsKnown /\ CallFits /\ HorizonFinal /\ PageFits /\ [Next]_vars
  => PageFits'
<1>1. SUFFICES ASSUME TypeOK, RowsKnown, CallFits, HorizonFinal, PageFits, [Next]_vars
     PROVE PageFits'
  OBVIOUS
<1>2. CASE UNCHANGED vars
  BY <1>1, <1>2 DEF TypeOK, PageFits, Selected, Settled, Ahead, ByPosition, Committed, vars,
       database, reader
<1>3. CASE BeginXact
  BY <1>1, <1>3 DEF TypeOK, PageFits, Selected, Settled, Ahead, ByPosition, Committed,
       BeginXact, reader, RowsKnown, Row
<1>4. ASSUME NEW t \in Xact, NEW k \in Kind, InsertRow(t, k) PROVE PageFits'
  BY <1>1, <1>4 DEF TypeOK, PageFits, Selected, Settled, Ahead, ByPosition, Committed,
       InsertRow, reader, RowsKnown, HorizonFinal, Row
<1>5. ASSUME NEW t \in Xact, NEW outcome \in {"committed", "aborted"}, EndXact(t, outcome) PROVE PageFits'
  <2> SUFFICES ASSUME NEW p \in Reader, phase[p] = "reply"
               PROVE  /\ page[p] \subseteq Selected(p)'
                      /\ query[p].order = "asc" => Selected(p)' \subseteq Selected(p)
    BY <1>1, <1>5 DEF TypeOK, PageFits, EndXact, reader
  <2>1. \A x : Committed(x) => Committed(x)'
    BY <1>1, <1>5 DEF TypeOK, Committed, EndXact, Row
  <2>2. Selected(p) \subseteq Selected(p)'
    BY <1>5, <2>1 DEF Selected, Settled, Ahead, ByPosition, EndXact, reader
  <2>3. ASSUME query[p].order = "asc" PROVE Selected(p)' \subseteq Selected(p)
    <3>1. horizon[p] <= t /\ horizon[p] \in Nat /\ t \in Nat
      BY <1>1, <1>5, <2>3 DEF TypeOK, HorizonFinal, EndXact, Xact
    <3>2. \A x \in rows : x.xact \in Nat /\ x.xact \in Xact
      BY <1>1 DEF TypeOK, Row, Xact
    <3>3. \A x \in rows : Committed(x)' /\ x.xact < horizon[p] => Committed(x)
      BY <1>1, <1>5, <3>1, <3>2 DEF TypeOK, Committed, EndXact
    <3> QED BY <1>5, <2>3, <3>3 DEF Selected, Settled, Ahead, ByPosition, EndXact, reader
  <2> QED BY <1>1, <2>2, <2>3 DEF PageFits
<1>6. ASSUME NEW p \in Reader, NEW h \in 1..(MaxXact + 1), ReadHorizon(p, h) PROVE PageFits'
  BY <1>1, <1>6 DEF TypeOK, PageFits, Selected, Settled, Ahead, ByPosition, Committed,
       ReadHorizon, database
<1>7. ASSUME NEW p \in Reader, NEW limit \in Limit, NEW s \in SUBSET rows,
             ReadRows(p, s, limit) PROVE PageFits'
  <2>1. limit # Cardinality({})
    BY LimitAssumption, FS_EmptySet
  <2>2. s # Selected(p) => s # {}
    BY <1>7, <2>1 DEF ReadRows, IsPage
  <2>3. \A o \in Reader : Selected(o)' = Selected(o)
    BY <1>7 DEF ReadRows, Selected, Committed, Settled, Ahead, ByPosition, database
  <2>4. \A x \in s, y \in Selected(p) \ s : ByPosition(query[p].order, x, y)
    BY <1>7 DEF ReadRows, IsPage
  <2>5. /\ phase' = [phase EXCEPT ![p] = "reply"] /\ page' = [page EXCEPT ![p] = s]
        /\ more' = [more EXCEPT ![p] = (s # Selected(p))] /\ query' = query
        /\ s \subseteq Selected(p)
    BY <1>7 DEF ReadRows
  <2>6. ASSUME NEW o \in Reader, o # p
        PROVE  phase'[o] = phase[o] /\ page'[o] = page[o] /\ more'[o] = more[o]
    BY <1>1, <2>5, <2>6 DEF TypeOK
  <2>7. phase'[p] = "reply" /\ page'[p] = s /\ (more'[p] <=> s # Selected(p))
    BY <1>1, <2>5 DEF TypeOK
  <2> HIDE DEF Selected, ByPosition
  <2> QED BY <1>1, <2>2, <2>3, <2>4, <2>5, <2>6, <2>7 DEF PageFits
<1>8. ASSUME NEW p \in Puller, NEW q \in Query, Pull(p, q) PROVE PageFits'
  BY <1>1, <1>8 DEF TypeOK, PageFits, Selected, Settled, Ahead, ByPosition, Committed, Pull,
       database, Reader, FirstRead
<1>9. ASSUME NEW p \in Puller, NEW q \in Query, PullRefused(p, q) PROVE PageFits'
  BY <1>1, <1>9 DEF TypeOK, PageFits, Selected, Settled, Ahead, ByPosition, Committed,
       PullRefused, database, Reader
<1>10. ASSUME NEW p \in Puller, Reply(p) PROVE PageFits'
  BY <1>1, <1>10 DEF TypeOK, PageFits, Selected, Settled, Ahead, ByPosition, Committed,
       Reply, database, Over, Reader
<1>11. ASSUME NEW p \in Puller, Lose(p) PROVE PageFits'
  BY <1>1, <1>11 DEF TypeOK, PageFits, Selected, Settled, Ahead, ByPosition, Committed,
       Lose, database, Over, Reader
<1>12. ASSUME NEW e \in Exporter, NEW q \in Query, ExportBegin(e, q) PROVE PageFits'
  BY <1>1, <1>12 DEF TypeOK, PageFits, Selected, Settled, Ahead, ByPosition, Committed,
       ExportBegin, database, Reader, FirstRead
<1>13. ASSUME NEW e \in Exporter, ExportMore(e) PROVE PageFits'
  BY <1>1, <1>13 DEF TypeOK, PageFits, Selected, Settled, Ahead, ByPosition, Committed,
       ExportMore, database, Reader, FirstRead
<1>14. ASSUME NEW e \in Exporter, ExportEnd(e) PROVE PageFits'
  BY <1>1, <1>14 DEF TypeOK, PageFits, Selected, Settled, Ahead, ByPosition, Committed,
       ExportEnd, database, Over, Reader
<1>15. ASSUME NEW e \in Exporter, ExportFail(e) PROVE PageFits'
  BY <1>1, <1>15 DEF TypeOK, PageFits, Selected, Settled, Ahead, ByPosition, Committed,
       ExportFail, database, Over, Reader
<1> QED BY <1>1, <1>2, <1>3, <1>4, <1>5, <1>6, <1>7, <1>8, <1>9, <1>10, <1>11, <1>12, <1>13,
     <1>14, <1>15, Steps

\* A reply moves the position past nothing the puller has not got.
LEMMA NothingBehindStep ==
  /\ TypeOK /\ RowsKnown /\ CallFits /\ HorizonFinal /\ CursorFinal /\ PageFits
  /\ NothingBehind /\ [Next]_vars
  => NothingBehind'
<1>1. SUFFICES ASSUME TypeOK, RowsKnown, CallFits, HorizonFinal, CursorFinal, PageFits,
     NothingBehind, [Next]_vars PROVE NothingBehind'
  OBVIOUS
<1>2. CASE UNCHANGED vars
  BY <1>1, <1>2 DEF TypeOK, NothingBehind, ByPosition, vars, database, reader
<1>3. CASE BeginXact
  BY <1>1, <1>3 DEF TypeOK, NothingBehind, ByPosition, BeginXact, reader, RowsKnown, Row
<1>4. ASSUME NEW t \in Xact, NEW k \in Kind, InsertRow(t, k) PROVE NothingBehind'
  BY <1>1, <1>4 DEF TypeOK, NothingBehind, ByPosition, InsertRow, reader, RowsKnown,
       CursorFinal, Reader, Committed, Row, Xact, Cursor
<1>5. ASSUME NEW t \in Xact, NEW outcome \in {"committed", "aborted"}, EndXact(t, outcome) PROVE NothingBehind'
  BY <1>1, <1>5 DEF TypeOK, NothingBehind, ByPosition, EndXact, reader, Row
<1>6. ASSUME NEW p \in Reader, NEW h \in 1..(MaxXact + 1), ReadHorizon(p, h) PROVE NothingBehind'
  BY <1>1, <1>6 DEF TypeOK, NothingBehind, ByPosition, ReadHorizon, database, Reader
<1>7. ASSUME NEW p \in Reader, NEW limit \in Limit, NEW s \in SUBSET rows,
             ReadRows(p, s, limit) PROVE NothingBehind'
  BY <1>1, <1>7 DEF TypeOK, NothingBehind, ByPosition, ReadRows, database, Reader
<1>8. ASSUME NEW p \in Puller, NEW q \in Query, Pull(p, q) PROVE NothingBehind'
  BY <1>1, <1>8 DEF TypeOK, NothingBehind, ByPosition, Pull, database, Reader
<1>9. ASSUME NEW p \in Puller, NEW q \in Query, PullRefused(p, q) PROVE NothingBehind'
  BY <1>1, <1>9 DEF TypeOK, NothingBehind, ByPosition, PullRefused, database, Reader
<1>10. ASSUME NEW p \in Puller, Reply(p) PROVE NothingBehind'
  <2> SUFFICES ASSUME NEW o \in Puller, cursor'[o] # None, cursor'[o].query.order = "asc",
                      NEW x \in rows, x.kind \in cursor'[o].query.filter,
                      xact[x.xact] \in {"open", "committed"},
                      ~ByPosition("asc", cursor'[o].row, x)
               PROVE  x \in received'[o]
    BY <1>10 DEF NothingBehind, Reply, database, ByPosition
  <2>1. p \in Reader /\ o \in Reader
    BY DEF Reader
  <2>2. received[o] \subseteq received'[o]
    BY <1>1, <1>10, <2>1 DEF TypeOK, Reply
  <2>3. CASE cursor'[o] = cursor[o]
    BY <1>1, <2>2, <2>3 DEF NothingBehind
  <2>4. CASE cursor'[o] # cursor[o]
    <3>1. o = p /\ page[p] # {}
      BY <1>1, <1>10, <2>1, <2>4 DEF TypeOK, Reply
    <3>2. PICK z \in page[p] : /\ \A y \in page[p] \ {z} : ByPosition(query[p].order, y, z)
                              /\ cursor'[p] = [row |-> z, query |-> query[p]]
      BY <1>1, <1>10, <2>1, <3>1 DEF TypeOK, Reply, IsLast
    <3>3. query[p].order = "asc" /\ x.kind \in query[p].filter /\ ~ByPosition("asc", z, x)
      BY <3>1, <3>2
    <3>4. page[p] \subseteq Selected(p) /\ z.xact < horizon[p] /\ z \in rows
      BY <1>1, <1>10, <2>1, <3>2, <3>3 DEF Reply, PageFits, Selected, Settled
    <3>5. /\ x.xact \in Nat /\ z.xact \in Nat /\ horizon[p] \in Nat /\ x.seq \in Nat /\ z.seq \in Nat
          /\ x.xact \in Xact
      BY <1>1, <2>1, <3>4 DEF TypeOK, Row, Xact, Seq
    <3>6. x.xact < horizon[p]
      BY <3>3, <3>4, <3>5 DEF ByPosition
    <3>7. Committed(x)
      BY <1>1, <1>10, <2>1, <3>3, <3>5, <3>6 DEF Reply, HorizonFinal, Committed, Xact
    <3>8. CASE Ahead(p, x)
      <4>1. x \in Selected(p)
        BY <3>3, <3>6, <3>7, <3>8 DEF Selected, Settled, Committed
      <4>2. x \in page[p]
        <5>1. x \notin page[p] => ByPosition("asc", z, x)
          BY <1>1, <1>10, <2>1, <3>2, <3>3, <4>1 DEF PageFits, Reply
        <5> QED BY <3>3, <5>1
      <4> QED BY <1>1, <1>10, <2>1, <3>1, <4>2 DEF TypeOK, Reply
    <3>9. CASE ~Ahead(p, x)
      <4>1. cursor[p] # None /\ cursor[p].query = query[p] /\ ~ByPosition("asc", cursor[p].row, x)
        BY <1>1, <1>10, <2>1, <3>3, <3>9 DEF Ahead, CallFits, Reading, CursorFits, Reply
      <4>2. x \in received[p]
        BY <1>1, <3>1, <3>3, <4>1 DEF NothingBehind
      <4> QED BY <2>2, <3>1, <4>2
    <3> QED BY <3>8, <3>9
  <2> QED BY <2>3, <2>4
<1>11. ASSUME NEW p \in Puller, Lose(p) PROVE NothingBehind'
  BY <1>1, <1>11 DEF TypeOK, NothingBehind, ByPosition, Lose, database, Over, Reader
<1>12. ASSUME NEW e \in Exporter, NEW q \in Query, ExportBegin(e, q) PROVE NothingBehind'
  BY <1>1, <1>12 DEF TypeOK, NothingBehind, ByPosition, ExportBegin, database, Reader
<1>13. ASSUME NEW e \in Exporter, ExportMore(e) PROVE NothingBehind'
  BY <1>1, <1>13, ReaderAssumption DEF TypeOK, NothingBehind, ByPosition, ExportMore,
       database, Reader
<1>14. ASSUME NEW e \in Exporter, ExportEnd(e) PROVE NothingBehind'
  BY <1>1, <1>14 DEF TypeOK, NothingBehind, ByPosition, ExportEnd, database, Over, Reader
<1>15. ASSUME NEW e \in Exporter, ExportFail(e) PROVE NothingBehind'
  BY <1>1, <1>15 DEF TypeOK, NothingBehind, ByPosition, ExportFail, database, Over, Reader
<1> QED BY <1>1, <1>2, <1>3, <1>4, <1>5, <1>6, <1>7, <1>8, <1>9, <1>10, <1>11, <1>12, <1>13,
     <1>14, <1>15, Steps

\* What an export owes it has, or has ahead of it.
LEMMA DueAheadStep ==
  /\ TypeOK /\ RowsKnown /\ CallFits /\ HorizonFinal /\ PageFits /\ DueAhead
  /\ [Next]_vars
  => DueAhead'
<1>1. SUFFICES ASSUME TypeOK, RowsKnown, CallFits, HorizonFinal, PageFits, DueAhead,
     [Next]_vars PROVE DueAhead'
  OBVIOUS
<1>2. CASE UNCHANGED vars
  BY <1>1, <1>2 DEF TypeOK, DueAhead, Reading, Committed, Settled, Ahead, ByPosition,
       Reader, vars, database, reader
<1>3. CASE BeginXact
  BY <1>1, <1>3 DEF TypeOK, DueAhead, Reading, Committed, Settled, Ahead, ByPosition,
       Reader, BeginXact, reader, RowsKnown, Row, Xact
<1>4. ASSUME NEW t \in Xact, NEW k \in Kind, InsertRow(t, k) PROVE DueAhead'
  BY <1>1, <1>4 DEF TypeOK, DueAhead, Reading, Committed, Settled, Ahead, ByPosition,
       Reader, InsertRow, reader, RowsKnown, Row
<1>5. ASSUME NEW t \in Xact, NEW outcome \in {"committed", "aborted"}, EndXact(t, outcome) PROVE DueAhead'
  BY <1>1, <1>5 DEF TypeOK, DueAhead, Reading, Committed, Settled, Ahead, ByPosition,
       Reader, EndXact, reader, Row
<1>6. ASSUME NEW p \in Reader, NEW h \in 1..(MaxXact + 1), ReadHorizon(p, h) PROVE DueAhead'
  BY <1>1, <1>6 DEF TypeOK, DueAhead, Reading, Committed, Settled, Ahead, ByPosition,
       Reader, ReadHorizon, database, IsHorizon, RowsKnown, Row, Xact
<1>7. ASSUME NEW p \in Reader, NEW limit \in Limit, NEW s \in SUBSET rows,
             ReadRows(p, s, limit) PROVE DueAhead'
  <2> SUFFICES ASSUME NEW o \in Exporter, Reading(o)', NEW x \in due[o]
               PROVE  /\ Committed(x) /\ x.kind \in query[o].filter
                      /\ query[o].order = "asc" =>
                           \A t \in Xact : xact[t] = "open" => x.xact < t
                      /\ phase'[o] = "rows" => Settled(o, x)
                      /\ \/ x \in received[o] \cup page'[o]
                         \/ /\ phase'[o] = "reply" => more'[o]
                            /\ Ahead(o, x)
                            /\ \A y \in page'[o] : ByPosition(query[o].order, y, x)
    BY <1>7 DEF DueAhead, ReadRows, database, Committed, Settled, Ahead, ByPosition
  <2>1. o \in Reader /\ Reading(o)
    BY <1>1, <1>7 DEF Reader, Reading, ReadRows, TypeOK
  <2>2. /\ Committed(x) /\ x.kind \in query[o].filter
        /\ query[o].order = "asc" => \A t \in Xact : xact[t] = "open" => x.xact < t
        /\ phase[o] = "rows" => Settled(o, x)
        /\ \/ x \in received[o] \cup page[o]
           \/ /\ phase[o] = "reply" => more[o]
              /\ Ahead(o, x)
              /\ \A y \in page[o] : ByPosition(query[o].order, y, x)
    BY <1>1, <2>1 DEF DueAhead
  <2>3. CASE o # p
    BY <1>1, <1>7, <2>1, <2>2, <2>3 DEF TypeOK, ReadRows
  <2>4. CASE o = p /\ x \in received[o] \cup page[o]
    BY <1>1, <1>7, <2>1, <2>2, <2>4 DEF TypeOK, ReadRows, PageFits
  <2>5. CASE o = p /\ Ahead(p, x)
    <3>1. page'[p] = s /\ (more'[p] <=> s # Selected(p)) /\ phase'[p] = "reply"
      BY <1>1, <1>7 DEF TypeOK, ReadRows
    <3>2. x \in Selected(p)
      <4>1. Settled(p, x)
        BY <2>2, <2>5, <1>7 DEF ReadRows
      <4> QED BY <2>2, <2>5, <4>1 DEF Selected, Committed
    <3>3. x \in s \/ (s # Selected(p) /\ \A y \in s : ByPosition(query[p].order, y, x))
      BY <1>7, <3>2 DEF ReadRows, IsPage
    <3> QED BY <2>2, <2>5, <3>1, <3>3
  <2> QED BY <2>2, <2>3, <2>4, <2>5
<1>8. ASSUME NEW p \in Puller, NEW q \in Query, Pull(p, q) PROVE DueAhead'
  BY <1>1, <1>8, ReaderAssumption DEF TypeOK, DueAhead, Reading, Committed, Settled, Ahead,
       ByPosition, Reader, Pull, database, Reader, FirstRead
<1>9. ASSUME NEW p \in Puller, NEW q \in Query, PullRefused(p, q) PROVE DueAhead'
  BY <1>1, <1>9 DEF TypeOK, DueAhead, Reading, Committed, Settled, Ahead, ByPosition,
       Reader, PullRefused, database, Reader
<1>10. ASSUME NEW p \in Puller, Reply(p) PROVE DueAhead'
  BY <1>1, <1>10 DEF TypeOK, DueAhead, Reading, Committed, Settled, Ahead, ByPosition,
       Reader, Reply, database, Over, Reader
<1>11. ASSUME NEW p \in Puller, Lose(p) PROVE DueAhead'
  BY <1>1, <1>11 DEF TypeOK, DueAhead, Reading, Committed, Settled, Ahead, ByPosition,
       Reader, Lose, database, Over, Reader
<1>12. ASSUME NEW e \in Exporter, NEW q \in Query, ExportBegin(e, q) PROVE DueAhead'
  BY <1>1, <1>12 DEF TypeOK, DueAhead, Reading, Committed, Settled, Ahead, ByPosition,
       Reader, ExportBegin, database, Reader, FirstRead, PageFits
<1>13. ASSUME NEW e \in Exporter, ExportMore(e) PROVE DueAhead'
  <2>1. e \in Reader /\ Reading(e) /\ query[e] \in Query
    BY <1>1, <1>13 DEF Reader, Reading, ExportMore, CallFits
  <2>2. PICK z \in page[e] : cursor' = [cursor EXCEPT ![e] = [row |-> z, query |-> query[e]]]
    BY <1>13 DEF ExportMore, IsLast
  <2>3. /\ received'[e] = received[e] \cup page[e] /\ page'[e] = {}
        /\ cursor'[e] = [row |-> z, query |-> query[e]]
        /\ phase'[e] = FirstRead(query[e]) /\ phase[e] = "reply"
        /\ query' = query /\ due' = due /\ horizon' = horizon /\ rows' = rows /\ xact' = xact
    BY <1>1, <1>13, <2>1, <2>2 DEF TypeOK, ExportMore, database
  <2>4. ASSUME NEW x \in due[e]
        PROVE  /\ Committed(x)' /\ x.kind \in query[e].filter
               /\ query[e].order = "asc" => \A t \in Xact : xact[t] = "open" => x.xact < t
               /\ phase'[e] = "rows" => Settled(e, x)'
               /\ x \in received'[e] \/ Ahead(e, x)'
    <3>1. /\ Committed(x) /\ x.kind \in query[e].filter
          /\ query[e].order = "asc" => \A t \in Xact : xact[t] = "open" => x.xact < t
          /\ x \in received[e] \cup page[e] \/ \A y \in page[e] : ByPosition(query[e].order, y, x)
      BY <1>1, <2>1 DEF DueAhead
    <3>2. x \in received'[e] \/ ByPosition(query[e].order, z, x)
      BY <2>2, <2>3, <3>1
    <3>3. x \in received'[e] \/ Ahead(e, x)'
      BY <2>3, <3>2 DEF Ahead, ByPosition
    <3>4. phase'[e] = "rows" => Settled(e, x)'
      BY <2>3 DEF FirstRead, Settled
    <3> QED BY <2>3, <3>1, <3>3, <3>4 DEF Committed
  <2>5. ASSUME NEW o \in Exporter, o # e
        PROVE  /\ phase'[o] = phase[o] /\ page'[o] = page[o] /\ more'[o] = more[o]
               /\ cursor'[o] = cursor[o] /\ received'[o] = received[o]
    BY <1>1, <1>13, <2>5 DEF TypeOK, ExportMore, Reader
  <2> SUFFICES ASSUME NEW o \in Exporter, Reading(o)', NEW x \in due[o]
               PROVE  /\ Committed(x)' /\ x.kind \in query[o].filter
                      /\ query[o].order = "asc" =>
                           \A t \in Xact : xact[t] = "open" => x.xact < t
                      /\ phase'[o] = "rows" => Settled(o, x)'
                      /\ \/ x \in received'[o] \cup page'[o]
                         \/ /\ phase'[o] = "reply" => more'[o]
                            /\ Ahead(o, x)'
                            /\ \A y \in page'[o] : ByPosition(query[o].order, y, x)
    BY <2>3 DEF DueAhead, ByPosition
  <2>6. CASE o = e
    BY <2>3, <2>4, <2>6 DEF FirstRead
  <2>7. CASE o # e
    BY <1>1, <2>3, <2>5, <2>7 DEF DueAhead, Reading, Committed, Settled, Ahead, ByPosition
  <2> QED BY <2>6, <2>7
<1>14. ASSUME NEW e \in Exporter, ExportEnd(e) PROVE DueAhead'
  BY <1>1, <1>14 DEF TypeOK, DueAhead, Reading, Committed, Settled, Ahead, ByPosition,
       Reader, ExportEnd, database, Over, Reader
<1>15. ASSUME NEW e \in Exporter, ExportFail(e) PROVE DueAhead'
  BY <1>1, <1>15 DEF TypeOK, DueAhead, Reading, Committed, Settled, Ahead, ByPosition,
       Reader, ExportFail, database, Over, Reader
<1> QED BY <1>1, <1>2, <1>3, <1>4, <1>5, <1>6, <1>7, <1>8, <1>9, <1>10, <1>11, <1>12, <1>13,
     <1>14, <1>15, Steps

\* An export ends only when nothing is ahead.
LEMMA ExportCompleteStep ==
  /\ TypeOK /\ DueAhead /\ ExportComplete /\ [Next]_vars
  => ExportComplete'
<1>1. SUFFICES ASSUME TypeOK, DueAhead, ExportComplete, [Next]_vars PROVE ExportComplete'
  OBVIOUS
<1>2. CASE UNCHANGED vars
  BY <1>1, <1>2 DEF TypeOK, ExportComplete, Reader, vars, database, reader
<1>3. CASE BeginXact
  BY <1>1, <1>3 DEF TypeOK, ExportComplete, Reader, BeginXact, reader
<1>4. ASSUME NEW t \in Xact, NEW k \in Kind, InsertRow(t, k) PROVE ExportComplete'
  BY <1>1, <1>4 DEF TypeOK, ExportComplete, Reader, InsertRow, reader
<1>5. ASSUME NEW t \in Xact, NEW outcome \in {"committed", "aborted"}, EndXact(t, outcome) PROVE ExportComplete'
  BY <1>1, <1>5 DEF TypeOK, ExportComplete, Reader, EndXact, reader
<1>6. ASSUME NEW p \in Reader, NEW h \in 1..(MaxXact + 1), ReadHorizon(p, h) PROVE ExportComplete'
  BY <1>1, <1>6 DEF TypeOK, ExportComplete, Reader, ReadHorizon, database
<1>7. ASSUME NEW p \in Reader, NEW limit \in Limit, NEW s \in SUBSET rows,
             ReadRows(p, s, limit) PROVE ExportComplete'
  BY <1>1, <1>7 DEF TypeOK, ExportComplete, Reader, ReadRows, database
<1>8. ASSUME NEW p \in Puller, NEW q \in Query, Pull(p, q) PROVE ExportComplete'
  BY <1>1, <1>8, ReaderAssumption DEF TypeOK, ExportComplete, Reader, Pull, database,
       Reader, FirstRead
<1>9. ASSUME NEW p \in Puller, NEW q \in Query, PullRefused(p, q) PROVE ExportComplete'
  BY <1>1, <1>9 DEF TypeOK, ExportComplete, Reader, PullRefused, database, Reader
<1>10. ASSUME NEW p \in Puller, Reply(p) PROVE ExportComplete'
  BY <1>1, <1>10 DEF TypeOK, ExportComplete, Reader, Reply, database, Over, Reader
<1>11. ASSUME NEW p \in Puller, Lose(p) PROVE ExportComplete'
  BY <1>1, <1>11 DEF TypeOK, ExportComplete, Reader, Lose, database, Over, Reader
<1>12. ASSUME NEW e \in Exporter, NEW q \in Query, ExportBegin(e, q) PROVE ExportComplete'
  BY <1>1, <1>12 DEF TypeOK, ExportComplete, Reader, ExportBegin, database, Reader, FirstRead
<1>13. ASSUME NEW e \in Exporter, ExportMore(e) PROVE ExportComplete'
  BY <1>1, <1>13 DEF TypeOK, ExportComplete, Reader, ExportMore, database, Reader, FirstRead
<1>14. ASSUME NEW e \in Exporter, ExportEnd(e) PROVE ExportComplete'
  BY <1>1, <1>14 DEF TypeOK, ExportComplete, Reader, ExportEnd, database, Over, Reader,
       DueAhead, Reading
<1>15. ASSUME NEW e \in Exporter, ExportFail(e) PROVE ExportComplete'
  BY <1>1, <1>15 DEF TypeOK, ExportComplete, Reader, ExportFail, database, Over, Reader
<1> QED BY <1>1, <1>2, <1>3, <1>4, <1>5, <1>6, <1>7, <1>8, <1>9, <1>10, <1>11, <1>12, <1>13,
     <1>14, <1>15, Steps

\* A position is never behind what the reader has.
LEMMA ReceivedBehindStep ==
  /\ KeepsCursor /\ TypeOK /\ CallFits /\ PageFits /\ ReceivedBehind /\ [Next]_vars
  => ReceivedBehind'
<1>1. SUFFICES ASSUME KeepsCursor, TypeOK, CallFits, PageFits, ReceivedBehind, [Next]_vars
     PROVE ReceivedBehind'
  OBVIOUS
<1>2. CASE UNCHANGED vars
  BY <1>1, <1>2 DEF TypeOK, ReceivedBehind, Reading, ByPosition, vars, database, reader
<1>3. CASE BeginXact
  BY <1>1, <1>3 DEF TypeOK, ReceivedBehind, Reading, ByPosition, BeginXact, reader
<1>4. ASSUME NEW t \in Xact, NEW k \in Kind, InsertRow(t, k) PROVE ReceivedBehind'
  BY <1>1, <1>4 DEF TypeOK, ReceivedBehind, Reading, ByPosition, InsertRow, reader
<1>5. ASSUME NEW t \in Xact, NEW outcome \in {"committed", "aborted"}, EndXact(t, outcome) PROVE ReceivedBehind'
  BY <1>1, <1>5 DEF TypeOK, ReceivedBehind, Reading, ByPosition, EndXact, reader
<1>6. ASSUME NEW p \in Reader, NEW h \in 1..(MaxXact + 1), ReadHorizon(p, h) PROVE ReceivedBehind'
  BY <1>1, <1>6 DEF TypeOK, ReceivedBehind, Reading, ByPosition, ReadHorizon, database
<1>7. ASSUME NEW p \in Reader, NEW limit \in Limit, NEW s \in SUBSET rows,
             ReadRows(p, s, limit) PROVE ReceivedBehind'
  BY <1>1, <1>7 DEF TypeOK, ReceivedBehind, Reading, ByPosition, ReadRows, database
<1>8. ASSUME NEW p \in Puller, NEW q \in Query, Pull(p, q) PROVE ReceivedBehind'
  BY <1>1, <1>8 DEF TypeOK, ReceivedBehind, Reading, ByPosition, Pull, database, Reader,
       FirstRead
<1>9. ASSUME NEW p \in Puller, NEW q \in Query, PullRefused(p, q) PROVE ReceivedBehind'
  BY <1>1, <1>9 DEF TypeOK, ReceivedBehind, Reading, ByPosition, PullRefused, database, Reader
<1>10. ASSUME NEW p \in Puller, Reply(p) PROVE ReceivedBehind'
  <2>1. /\ p \in Reader /\ Reading(p) /\ query[p] \in Query
        /\ p \in Puller \/ Reading(p)
    BY <1>1, <1>10 DEF Reader, Reading, Reply, CallFits
  <2>2. \A x \in received[p] :
          cursor[p] # None /\ ~ByPosition(cursor[p].query.order, cursor[p].row, x)
    BY <1>1, <2>1 DEF ReceivedBehind
  <2>3. CASE page[p] = {}
    BY <1>1, <1>10, <2>1, <2>2, <2>3 DEF TypeOK, ReceivedBehind, Reply, Over, Reading,
         ByPosition
  <2>4. ASSUME NEW z \in page[p], IsLast(p, z),
               cursor' = [cursor EXCEPT ![p] = [row |-> z, query |-> query[p]]]
        PROVE  ReceivedBehind'
    <3>1. page[p] \subseteq Selected(p) /\ page[p] \subseteq Row /\ received[p] \subseteq Row
      BY <1>1, <1>10, <2>1 DEF TypeOK, PageFits, Reply
    <3>2. cursor[p] # None => cursor[p].row \in Row /\ cursor[p].query = query[p]
      BY <1>1, <2>1 DEF TypeOK, Cursor, CallFits, CursorFits
    <3>3. Ahead(p, z)
      BY <3>1 DEF Selected
    <3>4. \A u \in Row : u.xact \in Nat /\ u.seq \in Nat
      BY DEF Row, Xact, Seq
    <3>5. \A x \in received[p] : ~ByPosition(query[p].order, z, x)
      BY <2>2, <3>1, <3>2, <3>3, <3>4 DEF Ahead, ByPosition
    <3>6. \A x \in page[p] : ~ByPosition(query[p].order, z, x)
      BY <2>4, <3>1, <3>4 DEF IsLast, ByPosition
    <3>7. /\ cursor'[p] # None
          /\ cursor'[p].query.order = query[p].order /\ cursor'[p].row = z
          /\ received'[p] = received[p] \cup page[p]
      BY <1>1, <1>10, <2>1, <2>4, NoneAssumption, <3>1 DEF TypeOK, Reply, Cursor
    <3>8. ASSUME NEW o \in Reader, o # p
          PROVE  /\ cursor'[o] = cursor[o] /\ received'[o] = received[o]
                 /\ Reading(o)' <=> Reading(o)
      BY <1>1, <1>10, <2>4, <3>8 DEF TypeOK, Reply, Over, Reading
    <3>9. ASSUME NEW o \in Reader, o # p, o \in Puller \/ Reading(o)', NEW x \in received'[o]
          PROVE  cursor'[o] # None /\ ~ByPosition(cursor'[o].query.order, cursor'[o].row, x)
      BY <1>1, <3>8, <3>9 DEF ReceivedBehind
    <3>10. ASSUME NEW x \in received'[p]
           PROVE  ~ByPosition(cursor'[p].query.order, cursor'[p].row, x)
      BY <3>5, <3>6, <3>7, <3>10
    <3>11. ASSUME NEW o \in Reader, o \in Puller \/ Reading(o)', NEW x \in received'[o]
           PROVE  cursor'[o] # None /\ ~ByPosition(cursor'[o].query.order, cursor'[o].row, x)
      BY <3>7, <3>9, <3>10, <3>11
    <3> QED BY <3>11 DEF ReceivedBehind, ByPosition
  <2> QED BY <1>1, <1>10, <2>3, <2>4 DEF Reply
<1>11. ASSUME NEW p \in Puller, Lose(p) PROVE ReceivedBehind'
  BY <1>1, <1>11 DEF TypeOK, ReceivedBehind, Reading, ByPosition, Lose, database, Over, Reader
<1>12. ASSUME NEW e \in Exporter, NEW q \in Query, ExportBegin(e, q) PROVE ReceivedBehind'
  BY <1>1, <1>12, ReaderAssumption DEF TypeOK, ReceivedBehind, Reading, ByPosition,
       ExportBegin, database, Reader
<1>13. ASSUME NEW e \in Exporter, ExportMore(e) PROVE ReceivedBehind'
  <2>1. /\ e \in Reader /\ Reading(e) /\ query[e] \in Query
        /\ e \in Puller \/ Reading(e)
    BY <1>1, <1>13 DEF Reader, Reading, ExportMore, CallFits
  <2>2. \A x \in received[e] :
          cursor[e] # None /\ ~ByPosition(cursor[e].query.order, cursor[e].row, x)
    BY <1>1, <2>1 DEF ReceivedBehind
  <2>3. CASE page[e] = {}
    BY <1>1, <1>13, <2>1, <2>2, <2>3 DEF TypeOK, ReceivedBehind, ExportMore, Over, Reading,
         ByPosition
  <2>4. ASSUME NEW z \in page[e], IsLast(e, z),
               cursor' = [cursor EXCEPT ![e] = [row |-> z, query |-> query[e]]]
        PROVE  ReceivedBehind'
    <3>1. page[e] \subseteq Selected(e) /\ page[e] \subseteq Row /\ received[e] \subseteq Row
      BY <1>1, <1>13, <2>1 DEF TypeOK, PageFits, ExportMore
    <3>2. cursor[e] # None => cursor[e].row \in Row /\ cursor[e].query = query[e]
      BY <1>1, <2>1 DEF TypeOK, Cursor, CallFits, CursorFits
    <3>3. Ahead(e, z)
      BY <3>1 DEF Selected
    <3>4. \A u \in Row : u.xact \in Nat /\ u.seq \in Nat
      BY DEF Row, Xact, Seq
    <3>5. \A x \in received[e] : ~ByPosition(query[e].order, z, x)
      BY <2>2, <3>1, <3>2, <3>3, <3>4 DEF Ahead, ByPosition
    <3>6. \A x \in page[e] : ~ByPosition(query[e].order, z, x)
      BY <2>4, <3>1, <3>4 DEF IsLast, ByPosition
    <3>7. /\ cursor'[e] # None
          /\ cursor'[e].query.order = query[e].order /\ cursor'[e].row = z
          /\ received'[e] = received[e] \cup page[e]
      BY <1>1, <1>13, <2>1, <2>4, NoneAssumption, <3>1 DEF TypeOK, ExportMore, Cursor
    <3>8. ASSUME NEW o \in Reader, o # e
          PROVE  /\ cursor'[o] = cursor[o] /\ received'[o] = received[o]
                 /\ Reading(o)' <=> Reading(o)
      BY <1>1, <1>13, <2>4, <3>8 DEF TypeOK, ExportMore, Over, Reading
    <3>9. ASSUME NEW o \in Reader, o # e, o \in Puller \/ Reading(o)', NEW x \in received'[o]
          PROVE  cursor'[o] # None /\ ~ByPosition(cursor'[o].query.order, cursor'[o].row, x)
      BY <1>1, <3>8, <3>9 DEF ReceivedBehind
    <3>10. ASSUME NEW x \in received'[e]
           PROVE  ~ByPosition(cursor'[e].query.order, cursor'[e].row, x)
      BY <3>5, <3>6, <3>7, <3>10
    <3>11. ASSUME NEW o \in Reader, o \in Puller \/ Reading(o)', NEW x \in received'[o]
           PROVE  cursor'[o] # None /\ ~ByPosition(cursor'[o].query.order, cursor'[o].row, x)
      BY <3>7, <3>9, <3>10, <3>11
    <3> QED BY <3>11 DEF ReceivedBehind, ByPosition
  <2> QED BY <1>1, <1>13, <2>3, <2>4 DEF ExportMore
<1>14. ASSUME NEW e \in Exporter, ExportEnd(e) PROVE ReceivedBehind'
  BY <1>1, <1>14, ReaderAssumption DEF TypeOK, ReceivedBehind, Reading, ByPosition,
       ExportEnd, database, Over, Reader
<1>15. ASSUME NEW e \in Exporter, ExportFail(e) PROVE ReceivedBehind'
  BY <1>1, <1>15 DEF TypeOK, ReceivedBehind, Reading, ByPosition, ExportFail, database,
       Over, Reader
<1> QED BY <1>1, <1>2, <1>3, <1>4, <1>5, <1>6, <1>7, <1>8, <1>9, <1>10, <1>11, <1>12, <1>13,
     <1>14, <1>15, Steps

LEMMA IInvInit == Init => IInv /\ ReceivedBehind
<1> SUFFICES ASSUME Init PROVE IInv /\ ReceivedBehind
  OBVIOUS
<1>1. TypeOK
  BY BoundAssumption DEF Init, TypeOK, Reader
<1>2. RowsKnown /\ CallFits /\ HorizonFinal
  BY DEF Init, RowsKnown, CallFits, HorizonFinal, Reading, Xact
<1>3. CursorFinal /\ PageFits /\ NothingBehind
  BY DEF Init, CursorFinal, PageFits, NothingBehind, Reader
<1>4. DueAhead /\ ExportComplete /\ ReceivedBehind
  BY DEF Init, DueAhead, ExportComplete, ReceivedBehind, Reading, Reader
<1> QED BY <1>1, <1>2, <1>3, <1>4 DEF IInv

LEMMA IInvStep == IInv /\ [Next]_vars => IInv'
BY TypedStep, RowsKnownStep, CallFitsStep, HorizonFinalStep, CursorFinalStep, PageFitsStep,
   NothingBehindStep, DueAheadStep, ExportCompleteStep DEF IInv

LEMMA IInvHolds == Spec => []IInv
BY IInvInit, IInvStep, PTL DEF Spec

(* The feed's state has its shape (AuditFeed).                              *)
THEOREM FeedTyping == Spec => []TypeOK
<1>1. IInv => TypeOK
  BY DEF IInv
<1> QED BY <1>1, IInvHolds, PTL

(* The resume has no gaps, now or later: nothing that is or may yet be      *)
(* committed lies behind a puller's position unless the puller has it       *)
(* (listAuditEvents), whatever the page sizes and the clients do.           *)
THEOREM ResumeHasNoGaps == Spec => []NothingBehind
<1>1. IInv => NothingBehind
  BY DEF IInv
<1> QED BY <1>1, IInvHolds, PTL

(* A finished export has every row that was settled when it began           *)
(* (GET /api/audit/export.csv), in either direction.                        *)
THEOREM ExportsAreComplete == Spec => []ExportComplete
<1>1. IInv => ExportComplete
  BY DEF IInv
<1> QED BY <1>1, IInvHolds, PTL

LEMMA PositionsHold ==
  ASSUME KeepsCursor
  PROVE  Spec => [](IInv /\ ReceivedBehind)
<1>1. IInv /\ ReceivedBehind /\ [Next]_vars => ReceivedBehind'
  BY KeepsAssumption, ReceivedBehindStep DEF IInv
<1> QED BY <1>1, IInvInit, IInvStep, PTL DEF Spec

LEMMA PagesAreNew == IInv /\ ReceivedBehind => ServedOnce
<1> SUFFICES ASSUME IInv, ReceivedBehind, NEW p \in Reader, NEW x \in page[p], x \in received[p]
             PROVE  FALSE
  BY DEF ServedOnce
<1>1. phase[p] = "reply" /\ x \in Selected(p)
  BY DEF IInv, PageFits
<1>2. cursor[p] # None /\ ~ByPosition(cursor[p].query.order, cursor[p].row, x)
  BY <1>1 DEF ReceivedBehind, Reading
<1>3. cursor[p].query = query[p]
  BY <1>1, <1>2 DEF IInv, CallFits, Reading, CursorFits
<1>4. Ahead(p, x)
  BY <1>1 DEF Selected
<1> QED BY <1>2, <1>3, <1>4 DEF Ahead

(* No row is served twice to a reader that keeps its position through an    *)
(* empty page (listAuditEvents), nor twice in one export.                   *)
THEOREM ResumeHasNoDuplicates ==
  ASSUME KeepsCursor
  PROVE  Spec => []ServedOnce
BY PositionsHold, PagesAreNew, PTL
-----------------------------------------------------------------------------
(* AuditFeed implements ResumableFeed.                                      *)

\* Writers only ever append to what is settled.
LEMMA LogAppends ==
  ASSUME IInv, UNCHANGED reader,
         BeginXact \/ (\E t \in Xact, k \in Kind : InsertRow(t, k))
           \/ (\E t \in Xact, outcome \in {"committed", "aborted"} : EndXact(t, outcome))
  PROVE  Feed!Append
<1>1. TypeOK /\ RowsKnown /\ CallFits /\ HorizonFinal
  BY DEF IInv
<1>2. \A p \in Puller : PullOf(p)' = PullOf(p)
  BY DEF PullOf, reader
<1>3. \A x \in rows : x \in Row /\ x.xact \in Xact /\ x.xact \in Nat /\ x.xact < nextXact
  BY <1>1 DEF TypeOK, RowsKnown, Row, Xact
<1>4. SettledLog' \subseteq Row
  <2>1. TypeOK'
    BY <1>1, TypedStep DEF Next
  <2> QED BY <2>1 DEF TypeOK, SettledLog
<1>5. CASE BeginXact
  <2>1. SettledLog' = SettledLog
    BY <1>1, <1>3, <1>5 DEF BeginXact, SettledLog, Committed, TypeOK, RowsKnown, Xact
  <2> QED BY <1>2, <1>4, <2>1 DEF Feed!Append
<1>6. ASSUME NEW t \in Xact, NEW k \in Kind, InsertRow(t, k) PROVE Feed!Append
  <2>1. SettledLog' = SettledLog
    BY <1>1, <1>3, <1>6 DEF InsertRow, SettledLog, Committed
  <2> QED BY <1>2, <1>4, <2>1 DEF Feed!Append
<1>7. ASSUME NEW t \in Xact, NEW outcome \in {"committed", "aborted"}, EndXact(t, outcome)
      PROVE  Feed!Append
  <2>1. rows' = rows /\ xact[t] = "open" /\ xact' = [xact EXCEPT ![t] = outcome]
    BY <1>7 DEF EndXact
  <2>2. SettledLog \subseteq SettledLog'
    BY <1>1, <1>3, <2>1 DEF SettledLog, Committed, TypeOK
  <2>3. ASSUME NEW x \in SettledLog' \ SettledLog PROVE t <= x.xact
    BY <1>1, <1>3, <2>1 DEF SettledLog, Committed, TypeOK, Xact
  <2>4. \A y \in SettledLog : y.xact < t
    BY <2>1 DEF SettledLog
  <2>5. \A x \in SettledLog' \ SettledLog, y \in SettledLog : Feed!Before(y, x)
    <3>1. \A x \in SettledLog' \cup SettledLog : x \in rows
      BY <2>1 DEF SettledLog
    <3> QED BY <1>3, <2>3, <2>4, <3>1 DEF Feed!Before, Xact
  <2> QED BY <1>2, <1>4, <2>2, <2>5 DEF Feed!Append
<1> QED BY <1>5, <1>6, <1>7

\* A reply of a resumable pull hands over the next events.
LEMMA ReplyDelivers ==
  ASSUME IInv, ReceivedBehind, KeepsCursor, NEW p \in Puller, Reply(p)
  PROVE  [Feed!Next]_(Feed!vars)
<1>1. /\ TypeOK /\ RowsKnown /\ CallFits /\ HorizonFinal /\ PageFits /\ NothingBehind
      /\ p \in Reader /\ phase[p] = "reply"
  BY DEF IInv, Reader, Reply
<1>2. query[p] \in Query /\ CursorFits(p, query[p]) /\ page[p] \subseteq Selected(p)
  BY <1>1 DEF CallFits, PageFits, Reading
<1>3. SettledLog' = SettledLog
  BY DEF Reply, database, SettledLog, Committed
<1>4. ASSUME NEW o \in Puller, o # p PROVE PullOf(o)' = PullOf(o)
  BY <1>1, <1>4 DEF Reply, TypeOK, PullOf, Reader
<1>5. CASE page[p] = {}
  <2>1. cursor' = cursor /\ received'[p] = received[p]
    BY <1>1, <1>5 DEF Reply, TypeOK, IsLast
  <2> QED BY <1>3, <1>4, <2>1 DEF Feed!vars, PullOf
<1>6. ASSUME page[p] # {} PROVE [Feed!Next]_(Feed!vars)
  <2>1. PICK z \in page[p] : cursor' = [cursor EXCEPT ![p] = [row |-> z, query |-> query[p]]]
    BY <1>6 DEF Reply, IsLast
  <2>2. cursor'[p] = [row |-> z, query |-> query[p]] /\ cursor'[p] # None
    <3>1. [row |-> z, query |-> query[p]] \in Cursor
      BY <1>1, <1>2 DEF TypeOK, Cursor
    <3> QED BY <1>1, <2>1, <3>1, NoneAssumption DEF TypeOK
  <2>3. received'[p] = received[p] \cup page[p]
    BY <1>1 DEF Reply, TypeOK
  <2>4. CASE query[p].order = "desc"
    <3>1. PullOf(p) = None /\ PullOf(p)' = None
      BY <1>2, <2>2, <2>4 DEF PullOf, CursorFits
    <3> QED BY <1>3, <1>4, <3>1 DEF Feed!vars
  <2>5. CASE query[p].order # "desc"
    <3>1. query[p].order = "asc" /\ query[p].filter \in Filter
      BY <1>2, <2>5, OrderAssumption DEF Query
    <3>2. PullOf(p)' = [filter |-> query[p].filter, has |-> received[p] \cup page[p]]
      BY <2>2, <2>3, <3>1 DEF PullOf
    <3>3. Feed!Has(p) = received[p]
      <4>1. CASE cursor[p] = None
        BY <1>1, <4>1 DEF Feed!Has, PullOf, ReceivedBehind
      <4>2. CASE cursor[p] # None
        <5>1. PullOf(p) = [filter |-> query[p].filter, has |-> received[p]]
          BY <1>2, <3>1, <4>2 DEF CursorFits, PullOf
        <5>2. PullOf(p) \in [filter: Filter, has: SUBSET Row]
          BY <1>1, <3>1, <5>1 DEF TypeOK
        <5> QED BY <5>1, <5>2, NoneAssumption DEF Feed!Has
      <4> QED BY <4>1, <4>2
    <3>4. PullOf(p) # None => PullOf(p).filter = query[p].filter
      BY <1>2 DEF PullOf, CursorFits
    <3>5. page[p] \subseteq SettledLog \ received[p]
      <4>1. page[p] \cap received[p] = {}
        BY <1>1, PagesAreNew DEF ServedOnce
      <4>2. \A x \in page[p] : /\ Committed(x) /\ x.xact < horizon[p] /\ x \in rows
                               /\ x.xact \in Nat
        BY <1>1, <1>2, <3>1 DEF Selected, Settled, TypeOK, Row, Xact
      <4>3. \A t \in Xact : xact[t] = "open" => horizon[p] <= t
        BY <1>1, <3>1 DEF HorizonFinal
      <4>4. Xact \subseteq Nat /\ horizon[p] \in Nat
        BY <1>1 DEF TypeOK, Xact
      <4>5. page[p] \subseteq SettledLog
        BY <4>2, <4>3, <4>4 DEF SettledLog
      <4> QED BY <4>1, <4>5
    <3>6. \A x \in page[p] : x.kind \in query[p].filter
      BY <1>2 DEF Selected
    <3>7. ASSUME NEW x \in page[p], NEW y \in SettledLog \ (received[p] \cup page[p]),
                 y.kind \in query[p].filter
          PROVE  Feed!Before(x, y)
      <4>1. Committed(y) /\ y \in rows
        BY DEF SettledLog, Committed
      <4>2. /\ x.xact \in Nat /\ y.xact \in Nat /\ horizon[p] \in Nat
            /\ x.xact < horizon[p]
        BY <1>1, <1>2, <3>1, <4>1 DEF TypeOK, Row, Xact, Selected, Settled
      <4>3. CASE y.xact < horizon[p] /\ Ahead(p, y)
        <5>1. y \in Selected(p) \ page[p]
          BY <3>7, <4>1, <4>3 DEF Selected, Settled
        <5>2. ByPosition("asc", x, y)
          BY <1>1, <3>1, <5>1 DEF PageFits
        <5> QED BY <5>2 DEF ByPosition, Feed!Before
      <4>4. CASE ~Ahead(p, y)
        <5>1. cursor[p] # None /\ cursor[p].query = query[p] /\ ~ByPosition("asc", cursor[p].row, y)
          BY <1>2, <3>1, <4>4 DEF Ahead, CursorFits
        <5> QED BY <1>1, <3>1, <3>7, <4>1, <5>1 DEF NothingBehind, Committed
      <4>5. CASE ~(y.xact < horizon[p])
        BY <4>2, <4>5 DEF Feed!Before
      <4> QED BY <4>3, <4>4, <4>5
    <3>8. Feed!Deliver(p, query[p].filter, page[p])
      BY <1>3, <1>4, <1>6, <3>2, <3>3, <3>4, <3>5, <3>6, <3>7 DEF Feed!Deliver
    <3> QED BY <3>1, <3>3, <3>5, <3>8 DEF Feed!Next
  <2> QED BY <2>4, <2>5
<1> QED BY <1>5, <1>6

\* Whatever else a reader does, it starts over or the feed does not see it.
LEMMA OthersStutter ==
  ASSUME IInv, NEW p \in Reader,
         \/ \E h \in 1..(MaxXact + 1) : ReadHorizon(p, h)
         \/ \E limit \in Limit : \E s \in SUBSET rows : ReadRows(p, s, limit)
         \/ \E q \in Query : Pull(p, q)
         \/ Lose(p)
         \/ p \in Exporter /\ \E q \in Query : ExportBegin(p, q)
         \/ p \in Exporter /\ (ExportMore(p) \/ ExportEnd(p) \/ ExportFail(p))
  PROVE  UNCHANGED Feed!vars
<1>1. TypeOK /\ UNCHANGED database
  BY DEF IInv, ReadHorizon, ReadRows, Pull, Lose, ExportBegin, ExportMore, ExportEnd, ExportFail
<1>2. \A o \in Puller : cursor'[o] = cursor[o] /\ received'[o] = received[o]
  <2>1. CASE \/ \E h \in 1..(MaxXact + 1) : ReadHorizon(p, h)
             \/ \E limit \in Limit : \E s \in SUBSET rows : ReadRows(p, s, limit)
             \/ \E q \in Query : Pull(p, q)
             \/ Lose(p)
    BY <2>1 DEF ReadHorizon, ReadRows, Pull, Lose
  <2>2. ASSUME p \in Exporter, NEW q \in Query, ExportBegin(p, q)
        PROVE  \A o \in Puller : cursor'[o] = cursor[o] /\ received'[o] = received[o]
    BY <1>1, <2>2, ReaderAssumption DEF TypeOK, ExportBegin, Reader
  <2>3. ASSUME p \in Exporter, ExportMore(p)
        PROVE  \A o \in Puller : cursor'[o] = cursor[o] /\ received'[o] = received[o]
    BY <1>1, <2>3, ReaderAssumption DEF TypeOK, ExportMore, Reader
  <2>4. ASSUME p \in Exporter, ExportEnd(p)
        PROVE  \A o \in Puller : cursor'[o] = cursor[o] /\ received'[o] = received[o]
    BY <1>1, <2>4, ReaderAssumption DEF TypeOK, ExportEnd, Reader
  <2>5. CASE ExportFail(p)
    BY <2>5 DEF ExportFail
  <2> QED BY <2>1, <2>2, <2>3, <2>4, <2>5
<1>3. SettledLog' = SettledLog
  BY <1>1 DEF SettledLog, Committed, database
<1>4. \A o \in Puller : PullOf(o)' = PullOf(o)
  BY <1>2 DEF PullOf
<1> QED BY <1>3, <1>4 DEF Feed!vars

LEMMA FeedStep ==
  ASSUME IInv, ReceivedBehind, KeepsCursor, [Next]_vars
  PROVE  [Feed!Next]_(Feed!vars)
<1>1. CASE UNCHANGED vars
  BY <1>1 DEF vars, database, reader, Feed!vars, SettledLog, Committed, PullOf
<1>2. CASE \/ BeginXact \/ (\E t \in Xact, k \in Kind : InsertRow(t, k))
           \/ \E t \in Xact, outcome \in {"committed", "aborted"} : EndXact(t, outcome)
  <2>1. UNCHANGED reader
    BY <1>2 DEF BeginXact, InsertRow, EndXact
  <2> QED BY <1>2, <2>1, LogAppends DEF Feed!Next
<1>3. ASSUME NEW p \in Puller, NEW q \in Query, PullRefused(p, q)
      PROVE  [Feed!Next]_(Feed!vars)
  <2>1. p \in Reader /\ TypeOK
    BY DEF Reader, IInv
  <2>2. PullOf(p)' = None
    BY <1>3, <2>1 DEF PullRefused, PullOf, TypeOK
  <2>3. \A o \in Puller \ {p} : PullOf(o)' = PullOf(o)
    BY <1>3, <2>1 DEF PullRefused, PullOf, TypeOK, Reader
  <2>4. SettledLog' = SettledLog
    BY <1>3 DEF PullRefused, database, SettledLog, Committed
  <2>5. Feed!Restart(p)
    BY <2>2, <2>3, <2>4 DEF Feed!Restart
  <2> QED BY <2>5 DEF Feed!Next
<1>4. ASSUME NEW p \in Puller, Reply(p) PROVE [Feed!Next]_(Feed!vars)
  BY <1>4, ReplyDelivers
<1> QED BY <1>1, <1>2, <1>3, <1>4, Steps, OthersStutter DEF Reader

(* What the API serves is the feed ResumableFeed promises: one order that   *)
(* is only appended to, and replies that are the next of it, provided the   *)
(* puller keeps its position through an empty page.                         *)
THEOREM FeedKeepsItsPromise ==
  ASSUME KeepsCursor
  PROVE  Spec => FeedPromise
<1>1. Init => Feed!Init
  BY DEF Init, Feed!Init, SettledLog, Committed, PullOf, Reader
<1> QED BY <1>1, FeedStep, PositionsHold, PTL DEF Spec, FeedPromise, Feed!Spec
=============================================================================
