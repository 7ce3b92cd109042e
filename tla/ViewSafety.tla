----------------------------- MODULE ViewSafety ------------------------------
(*****************************************************************************)
(* What a page is shown: the health of an upstream (UpstreamHealth), the     *)
(* rows of the audit viewer (AuditViewer), the chart of transactions         *)
(* (TxChart) and the lists read from the router's logs (LogList), for any    *)
(* number of routers, samples, rows, lines and requests on their way, and    *)
(* any clock.                                                                *)
(*****************************************************************************)
EXTENDS UpstreamHealth, AuditViewer, TxChart, LogList, FiniteSetTheorems, WellFoundedInduction, TLAPS

-----------------------------------------------------------------------------
(* The health of an upstream. *)

SignalKey == Iface \X Instance
IsRead(kind, k, value) ==
  \E s \in given \ unread : s.kind = kind /\ s.of = k /\ s.value = value
Heard(k) == \E s \in given \ unread : s.of = k

\* A signal is what the samples that have been added say, in any order: its
\* gauge the worst of them.
SignalTells(k) ==
  /\ signals[k].on <=> Heard(k)
  /\ signals[k].gauge = "unhealthy" <=> IsRead("gauge", k, "blocked")
  /\ signals[k].gauge = "unknown" =>
       IsRead("gauge", k, "nan") /\ ~IsRead("gauge", k, "blocked")
  /\ signals[k].ok <=> IsRead("ok", k, "some")
  /\ signals[k].failed <=> IsRead("failed", k, "some")

SeenKeys == {s.of : s \in given}
MergedKeys == SeenKeys \ unmerged.keys
Uncovered(i) == \A n \in Instance : ~signals[<<i, n>>].on
MergedGap == \E i \in expected \ unmerged.ifaces : Uncovered(i)

\* The row is the worst of what has been merged into it.
RowTells ==
  /\ upstream.resolved <=> MergedKeys # {} \/ MergedGap
  /\ ~upstream.resolved => upstream.health = "unknown"
  /\ upstream.health = "unhealthy" <=> \E k \in MergedKeys : Says(signals[k]) = "unhealthy"
  /\ upstream.health = "operational" <=>
       /\ upstream.resolved /\ ~MergedGap
       /\ \A k \in MergedKeys : Says(signals[k]) = "operational"

HealthInv ==
  /\ HealthTypeOK
  /\ given \subseteq Sample /\ expected \subseteq Iface
  /\ given # {} \/ expected # {}
  /\ DOMAIN unmerged = {"keys", "ifaces"}
  /\ unmerged.keys \subseteq SeenKeys /\ unmerged.ifaces \subseteq expected
  /\ unread # {} => unmerged.keys = SeenKeys
  /\ unmerged.keys # {} => unmerged.ifaces = expected
  /\ \A k \in SignalKey : SignalTells(k)
  /\ RowTells

LEMMA SampleParts ==
  ASSUME NEW s \in Sample
  PROVE  /\ s.of \in SignalKey
         /\ \/ s.kind = "gauge" /\ s.value \in {"blocked", "open", "nan"}
            \/ s.kind \in {"ok", "failed"} /\ s.value \in {"some", "none"}
  BY DEF Sample, SignalKey

LEMMA HealthStart == HealthInit => HealthInv
<1> SUFFICES ASSUME HealthInit PROVE HealthInv
  OBVIOUS
<1>1. given \subseteq Sample /\ expected \subseteq Iface /\ (given # {} \/ expected # {})
  <2>1. given = {} \/ \E f \in [1..MaxSamples -> Sample] : given = {f[n] : n \in 1..MaxSamples}
    BY DEF HealthInit
  <2> QED
    BY <2>1 DEF HealthInit
<1>2. /\ unread = given
      /\ signals = [k \in Iface \X Instance |-> NoSignal]
      /\ unmerged = [keys |-> SeenKeys, ifaces |-> expected]
      /\ upstream = NoVerdict
  BY DEF HealthInit, SeenKeys
<1>3. HealthTypeOK
  BY <1>2 DEF HealthTypeOK, NoSignal, NoVerdict, Rank
<1>4. \A k \in SignalKey : SignalTells(k)
  BY <1>2 DEF SignalTells, SignalKey, NoSignal, IsRead, Heard
<1>5. RowTells
  BY <1>2 DEF RowTells, MergedKeys, MergedGap, NoVerdict
<1> QED
  BY <1>1, <1>2, <1>3, <1>4, <1>5 DEF HealthInv

SignalType == [on: BOOLEAN, gauge: {"none"} \cup DOMAIN Rank, ok: BOOLEAN, failed: BOOLEAN]

\* What one more sample does to what a signal says.
LEMMA NotedSays ==
  ASSUME NEW old \in SignalType, NEW s \in Sample
  PROVE  LET new == Noted(old, s) IN
         /\ new \in SignalType /\ new.on
         /\ new.gauge = "unhealthy" <=>
              old.gauge = "unhealthy" \/ (s.kind = "gauge" /\ s.value = "blocked")
         /\ new.gauge = "unknown" =>
              old.gauge = "unknown" \/ (s.kind = "gauge" /\ s.value = "nan")
         /\ new.ok <=> old.ok \/ (s.kind = "ok" /\ s.value = "some")
         /\ new.failed <=> old.failed \/ (s.kind = "failed" /\ s.value = "some")
<1>1. CASE s.kind = "gauge"
  <2> DEFINE measured == Measured[s.value]
  <2>1. /\ measured \in {"unhealthy", "operational", "unknown"}
        /\ measured = "unhealthy" <=> s.value = "blocked"
        /\ measured = "unknown" <=> s.value = "nan"
    BY <1>1, SampleParts DEF Measured
  <2>2. Noted(old, s) = IF Worse(old.gauge, measured)
                        THEN [old EXCEPT !.on = TRUE, !.gauge = measured]
                        ELSE [old EXCEPT !.on = TRUE]
    BY <1>1 DEF Noted
  <2>3. old.gauge = "unhealthy" => ~Worse(old.gauge, measured)
    BY <2>1 DEF Worse, Rank
  <2>4. measured = "unhealthy" /\ ~Worse(old.gauge, measured) => old.gauge = "unhealthy"
    BY <2>1 DEF Worse, Rank, SignalType
  <2>5. DOMAIN Rank = {"operational", "unknown", "unhealthy"}
    BY DEF Rank
  <2> HIDE DEF measured
  <2> QED
    BY <1>1, <2>1, <2>2, <2>3, <2>4, <2>5 DEF SignalType
<1>2. CASE s.kind = "ok"
  BY <1>2 DEF Noted, SignalType
<1>3. CASE s.kind = "failed"
  BY <1>3 DEF Noted, SignalType
<1> QED
  BY <1>1, <1>2, <1>3, SampleParts

\* Adding a sample changes its own signal, and that as the sample says.
LEMMA AddKeeps ==
  ASSUME HealthInv, NEW s \in unread, AddSample(s)
  PROVE  HealthInv'
<1>1. /\ unread' = unread \ {s} /\ UNCHANGED <<given, expected, unmerged, upstream>>
      /\ signals' = [signals EXCEPT ![s.of] = Noted(@, s)]
  BY DEF AddSample
<1>2. s \in Sample /\ s \in given /\ s.of \in SignalKey
  BY SampleParts DEF HealthInv, HealthTypeOK
<1>3. signals \in [SignalKey -> SignalType]
  BY DEF HealthInv, HealthTypeOK, SignalKey, SignalType
<1>4. given' \ unread' = (given \ unread) \cup {s}
  BY <1>1, <1>2
<1>5. /\ \A k \in SignalKey : Heard(k)' <=> Heard(k) \/ k = s.of
      /\ \A k \in SignalKey : \A kind, value :
           IsRead(kind, k, value)' <=>
             IsRead(kind, k, value) \/ (s.kind = kind /\ s.of = k /\ s.value = value)
  BY <1>4 DEF Heard, IsRead
<1>6. signals'[s.of] = Noted(signals[s.of], s) /\ signals' \in [SignalKey -> SignalType]
  BY <1>1, <1>2, <1>3, NotedSays
<1>7. SignalTells(s.of)'
  <2>1. SignalTells(s.of)
    BY <1>2 DEF HealthInv
  <2>2. /\ Heard(s.of)'
        /\ IsRead("gauge", s.of, "blocked")' <=>
             IsRead("gauge", s.of, "blocked") \/ (s.kind = "gauge" /\ s.value = "blocked")
        /\ IsRead("gauge", s.of, "nan")' <=>
             IsRead("gauge", s.of, "nan") \/ (s.kind = "gauge" /\ s.value = "nan")
        /\ IsRead("ok", s.of, "some")' <=>
             IsRead("ok", s.of, "some") \/ (s.kind = "ok" /\ s.value = "some")
        /\ IsRead("failed", s.of, "some")' <=>
             IsRead("failed", s.of, "some") \/ (s.kind = "failed" /\ s.value = "some")
    BY <1>2, <1>5
  <2>3. LET old == signals[s.of]
            new == signals'[s.of] IN
         /\ new.on
         /\ new.gauge = "unhealthy" <=>
              old.gauge = "unhealthy" \/ (s.kind = "gauge" /\ s.value = "blocked")
         /\ new.gauge = "unknown" =>
              old.gauge = "unknown" \/ (s.kind = "gauge" /\ s.value = "nan")
         /\ new.ok <=> old.ok \/ (s.kind = "ok" /\ s.value = "some")
         /\ new.failed <=> old.failed \/ (s.kind = "failed" /\ s.value = "some")
    BY <1>2, <1>3, <1>6, NotedSays
  <2>4. signals'[s.of].gauge = "unknown" => ~(signals'[s.of].gauge = "unhealthy")
    OBVIOUS
  <2> QED
    BY <2>1, <2>2, <2>3, <2>4 DEF SignalTells
<1>8. \A k \in SignalKey : SignalTells(k)'
  <2> SUFFICES ASSUME NEW k \in SignalKey, k # s.of PROVE SignalTells(k)'
    BY <1>7
  <2>1. SignalTells(k) /\ signals'[k] = signals[k]
    BY <1>1, <1>3 DEF HealthInv
  <2>2. /\ Heard(k)' <=> Heard(k)
        /\ \A kind, value : IsRead(kind, k, value)' <=> IsRead(kind, k, value)
    BY <1>5
  <2> QED
    BY <2>1, <2>2 DEF SignalTells
<1>9. HealthTypeOK'
  BY <1>1, <1>2, <1>6 DEF HealthInv, HealthTypeOK, SignalKey, SignalType
<1>10. RowTells'
  <2>1. unmerged.keys = SeenKeys /\ UNCHANGED <<SeenKeys, MergedKeys>> /\ upstream' = upstream
    BY <1>1 DEF HealthInv, SeenKeys, MergedKeys
  <2>2. MergedKeys = {} /\ MergedKeys' = {}
    BY <2>1 DEF MergedKeys
  <2>3. SeenKeys # {}
    BY <1>2 DEF SeenKeys
  <2>4. unmerged.ifaces = expected /\ unmerged'.ifaces = expected'
    BY <2>1, <2>3, <1>1 DEF HealthInv
  <2>5. ~MergedGap /\ ~MergedGap'
    BY <2>4 DEF MergedGap
  <2> QED
    BY <2>1, <2>2, <2>5 DEF HealthInv, RowTells
<1> QED
  BY <1>1, <1>8, <1>9, <1>10 DEF HealthInv, SeenKeys

SaysTypes == {"operational", "unknown", "unhealthy"}

LEMMA SaysOne == \A k \in SignalKey : Says(signals[k]) \in SaysTypes
  BY DEF Says, SaysTypes

\* Merging one more verdict.
LEMMA WorstOf ==
  ASSUME upstream \in [health: DOMAIN Rank, resolved: BOOLEAN],
         ~upstream.resolved => upstream.health = "unknown",
         NEW v \in SaysTypes
  PROVE  LET new == Worst(v) IN
         /\ new \in [health: DOMAIN Rank, resolved: BOOLEAN] /\ new.resolved
         /\ new.health = "unhealthy" <=> upstream.health = "unhealthy" \/ v = "unhealthy"
         /\ new.health = "operational" <=>
              v = "operational" /\ (~upstream.resolved \/ upstream.health = "operational")
<1>1. DOMAIN Rank = SaysTypes
  BY DEF Rank, SaysTypes
<1>2. /\ Rank["operational"] = 0 /\ Rank["unknown"] = 1 /\ Rank["unhealthy"] = 2
  BY DEF Rank
<1> QED
  BY <1>1, <1>2 DEF Worst, SaysTypes

LEMMA MergeSignalKeeps ==
  ASSUME HealthInv, NEW k \in unmerged.keys, MergeSignal(k)
  PROVE  HealthInv'
<1>1. /\ unread = {} /\ upstream' = Worst(Says(signals[k]))
      /\ unmerged' = [unmerged EXCEPT !.keys = @ \ {k}]
      /\ UNCHANGED <<given, expected, unread, signals>>
  BY DEF MergeSignal
<1>2. /\ unmerged'.keys = unmerged.keys \ {k} /\ unmerged'.ifaces = unmerged.ifaces
      /\ DOMAIN unmerged' = {"keys", "ifaces"}
  BY <1>1 DEF HealthInv
<1>3. k \in SeenKeys /\ k \in SignalKey /\ SeenKeys' = SeenKeys
  BY <1>1, SampleParts DEF HealthInv, SeenKeys
<1>4. MergedKeys' = MergedKeys \cup {k} /\ MergedGap' = MergedGap /\ ~MergedGap
  BY <1>1, <1>2, <1>3 DEF HealthInv, MergedKeys, MergedGap, Uncovered
<1>5. \A j \in MergedKeys' : Says(signals[j])' = Says(signals[j])
  BY <1>1 DEF Says
<1>6. upstream \in [health: DOMAIN Rank, resolved: BOOLEAN] /\ RowTells
  BY DEF HealthInv, HealthTypeOK
<1> DEFINE v == Says(signals[k])
<1>7. v \in SaysTypes
  BY <1>3, SaysOne
<1>8. /\ upstream' \in [health: DOMAIN Rank, resolved: BOOLEAN] /\ upstream'.resolved
      /\ upstream'.health = "unhealthy" <=> upstream.health = "unhealthy" \/ v = "unhealthy"
      /\ upstream'.health = "operational" <=>
           v = "operational" /\ (~upstream.resolved \/ upstream.health = "operational")
  BY <1>1, <1>6, <1>7, WorstOf DEF RowTells
<1>9. RowTells'
  BY <1>4, <1>5, <1>6, <1>8 DEF RowTells
<1>10. HealthTypeOK'
  BY <1>1, <1>8 DEF HealthInv, HealthTypeOK
<1>11. \A j \in SignalKey : SignalTells(j)'
  BY <1>1 DEF HealthInv, SignalTells, Heard, IsRead
<1> QED
  BY <1>1, <1>2, <1>3, <1>9, <1>10, <1>11 DEF HealthInv

LEMMA MergeConfiguredKeeps ==
  ASSUME HealthInv, NEW i \in unmerged.ifaces, MergeConfigured(i)
  PROVE  HealthInv'
<1>1. /\ unread = {} /\ unmerged.keys = {}
      /\ upstream' = IF Uncovered(i) THEN Worst("unknown") ELSE upstream
      /\ unmerged' = [unmerged EXCEPT !.ifaces = @ \ {i}]
      /\ UNCHANGED <<given, expected, unread, signals>>
  BY DEF MergeConfigured, Uncovered
<1>2. /\ unmerged'.keys = unmerged.keys /\ unmerged'.ifaces = unmerged.ifaces \ {i}
      /\ DOMAIN unmerged' = {"keys", "ifaces"}
  BY <1>1 DEF HealthInv
<1>3. MergedKeys' = MergedKeys /\ SeenKeys' = SeenKeys
  BY <1>1, <1>2 DEF MergedKeys, SeenKeys
<1>4. i \in expected /\ (MergedGap' <=> MergedGap \/ Uncovered(i))
  BY <1>1, <1>2 DEF HealthInv, MergedGap, Uncovered
<1>5. \A j \in MergedKeys' : Says(signals[j])' = Says(signals[j])
  BY <1>1 DEF Says
<1>6. upstream \in [health: DOMAIN Rank, resolved: BOOLEAN] /\ RowTells
  BY DEF HealthInv, HealthTypeOK
<1>7. HealthTypeOK' /\ RowTells'
  <2>1. CASE Uncovered(i)
    <3>1. /\ upstream' \in [health: DOMAIN Rank, resolved: BOOLEAN] /\ upstream'.resolved
          /\ upstream'.health = "unhealthy" <=> upstream.health = "unhealthy"
          /\ upstream'.health # "operational"
      BY <1>1, <1>6, <2>1, WorstOf DEF RowTells, SaysTypes
    <3> QED
      BY <1>1, <1>3, <1>4, <1>5, <1>6, <2>1, <3>1 DEF RowTells, HealthInv, HealthTypeOK
  <2>2. CASE ~Uncovered(i)
    BY <1>1, <1>3, <1>4, <1>5, <1>6, <2>2 DEF RowTells, HealthInv, HealthTypeOK
  <2> QED
    BY <2>1, <2>2
<1>8. \A j \in SignalKey : SignalTells(j)'
  BY <1>1 DEF HealthInv, SignalTells, Heard, IsRead
<1> QED
  BY <1>1, <1>2, <1>3, <1>7, <1>8 DEF HealthInv

LEMMA HealthStep == HealthInv /\ [HealthNext]_healthVars => HealthInv'
<1> SUFFICES ASSUME HealthInv, [HealthNext]_healthVars PROVE HealthInv'
  OBVIOUS
<1>1. CASE UNCHANGED healthVars
  BY <1>1 DEF healthVars, HealthInv, HealthTypeOK, SeenKeys, SignalTells, Heard, IsRead,
              RowTells, MergedKeys, MergedGap, Uncovered, Says
<1> QED
  BY <1>1, AddKeeps, MergeSignalKeeps, MergeConfiguredKeeps DEF HealthNext

\* At the end every sample has been added and every key merged.
LEMMA AllMerged == HealthInv => HealthIsWorst
<1> SUFFICES ASSUME HealthInv, Done PROVE HealthIsWorst
  BY DEF HealthIsWorst
<1> DEFINE has(kind, k, value) == [kind |-> kind, of |-> k, value |-> value] \in given
           down(k) == \/ has("gauge", k, "blocked")
                      \/ has("failed", k, "some") /\ ~has("ok", k, "some")
           covered == \A i \in expected : \E n \in Instance : <<i, n>> \in SeenKeys
<1>1. unread = {} /\ MergedKeys = SeenKeys /\ (MergedGap <=> \E i \in expected : Uncovered(i))
  BY DEF Done, MergedKeys, MergedGap
<1>2. SeenKeys \subseteq SignalKey
  BY SampleParts DEF HealthInv, SeenKeys
<1>3. \A kind, k, value : IsRead(kind, k, value) <=> has(kind, k, value)
  <2> SUFFICES ASSUME NEW kind, NEW k, NEW value
               PROVE  IsRead(kind, k, value) <=> has(kind, k, value)
    OBVIOUS
  <2>1. ASSUME NEW s \in given, s.kind = kind, s.of = k, s.value = value
        PROVE  s = [kind |-> kind, of |-> k, value |-> value]
    <3>1. s \in Sample
      BY DEF HealthInv
    <3> QED
      BY <2>1, <3>1 DEF Sample
  <2> QED
    BY <1>1, <2>1 DEF IsRead
<1>4. \A k \in SignalKey : signals[k].on <=> k \in SeenKeys
  BY <1>1 DEF HealthInv, SignalTells, Heard, SeenKeys
<1>5. MergedGap <=> ~covered
  BY <1>1, <1>4 DEF Uncovered, SignalKey, HealthInv
<1>6. \A k \in SeenKeys : (Says(signals[k]) = "unhealthy" <=> down(k))
                         /\ (Says(signals[k]) = "operational" <=> ~down(k) /\ has("ok", k, "some"))
  <2> SUFFICES ASSUME NEW k \in SeenKeys
               PROVE  /\ Says(signals[k]) = "unhealthy" <=> down(k)
                      /\ Says(signals[k]) = "operational" <=> ~down(k) /\ has("ok", k, "some")
    OBVIOUS
  <2>1. SignalTells(k)
    BY <1>2 DEF HealthInv
  <2>2. /\ signals[k].gauge = "unhealthy" <=> has("gauge", k, "blocked")
        /\ signals[k].ok <=> has("ok", k, "some")
        /\ signals[k].failed <=> has("failed", k, "some")
    BY <2>1, <1>3 DEF SignalTells
  <2>3. /\ Says(signals[k]) = "unhealthy" <=>
             signals[k].gauge = "unhealthy" \/ (signals[k].failed /\ ~signals[k].ok)
        /\ Says(signals[k]) = "operational" <=>
             signals[k].gauge # "unhealthy" /\ signals[k].ok
    BY DEF Says
  <2> QED
    BY <2>2, <2>3
<1>7. upstream.health = IF \E k \in SeenKeys : down(k) THEN "unhealthy"
                        ELSE IF SeenKeys # {} /\ covered /\ \A k \in SeenKeys : has("ok", k, "some")
                        THEN "operational" ELSE "unknown"
  <2>1. upstream.health \in {"operational", "unknown", "unhealthy"} /\ RowTells
    BY DEF HealthInv, HealthTypeOK, Rank
  <2>2. upstream.resolved
    <3>1. given # {} => SeenKeys # {}
      BY DEF SeenKeys
    <3>2. given = {} => SeenKeys = {}
      BY DEF SeenKeys
    <3>3. SeenKeys = {} => MergedGap
      BY <3>1, <1>5 DEF HealthInv
    <3> QED
      BY <3>3, <1>1, <2>1 DEF RowTells
  <2>3. upstream.health = "unhealthy" <=> \E k \in SeenKeys : down(k)
    BY <2>1, <1>1, <1>6 DEF RowTells
  <2>4. upstream.health = "operational" <=>
          covered /\ \A k \in SeenKeys : ~down(k) /\ has("ok", k, "some")
    BY <2>1, <2>2, <1>1, <1>5, <1>6 DEF RowTells
  <2>5. covered => SeenKeys # {}
    BY DEF HealthInv, SeenKeys
  <2> HIDE DEF down, has, covered
  <2> QED
    BY <2>1, <2>3, <2>4, <2>5
<1> QED
  BY <1>7 DEF HealthIsWorst, SeenKeys

LEMMA HealthAlways == HealthSpec => []HealthInv
  BY HealthStart, HealthStep, PTL DEF HealthSpec

\* The row is the worst that is known, for any chain's interfaces and routers,
\* and any samples in any order (upstream-health.ts).
THEOREM HealthAlwaysWorst == HealthSpec => []HealthIsWorst
  BY HealthAlways, AllMerged, PTL

-----------------------------------------------------------------------------
(* The audit viewer. *)

\* s is what S holds from its newest down to the last of s, or to its end.
TopOf(s, S, more) ==
  /\ Descends(s)
  /\ Range(s) = {e \in S : more => e >= LastOf(s)}
  /\ more => s # <<>>

UpTo(f, n) == {e \in Matches[f] : e <= n}

PageFits(c) ==
  /\ TopOf(c.page.items,
           {e \in UpTo(c.of, c.page.upTo) : c.after = NoCursor \/ e < c.after.row}, c.page.hasMore)
  /\ c.page.cursor # NoCursor =>
       /\ c.page.items # <<>>
       /\ c.page.cursor = [of |-> c.of, row |-> LastOf(c.page.items)]
  /\ c.page.upTo <= recorded
  /\ c.after # NoCursor => c.after.row <= c.page.upTo

ListFits ==
  /\ TopOf(feed.items, UpTo(filters, feed.upTo), feed.hasMore)
  /\ feed.cursor # NoCursor =>
       /\ feed.items # <<>>
       /\ feed.cursor = [of |-> filters, row |-> LastOf(feed.items)]
  /\ feed.upTo <= recorded

\* The one load that the page still waits for.
AwaitedFits(c) ==
  /\ c.of = filters
  /\ c.after = NoCursor => feed.loading
  /\ c.after # NoCursor =>
       /\ feed.loadingMore /\ Listed /\ feed.hasMore
       /\ feed.items # <<>> /\ c.after = feed.cursor

ViewerInv ==
  /\ ViewerTypeOK
  /\ \A c \in loads :
       /\ c.gen <= generation
       /\ c.after # NoCursor => c.after.row <= recorded
       /\ c.is = "page" => PageFits(c)
       /\ c.gen = generation => AwaitedFits(c)
  /\ \A c, d \in loads : c.gen = generation /\ d.gen = generation => c = d
  /\ Listed => ListFits
  /\ CursorOfFilters

LEMMA ViewerHolds == ViewerInv => ViewerTrue
  BY DEF ViewerInv, ViewerTrue, RowsOfFilters, ListFits, TopOf, UpTo

-----------------------------------------------------------------------------
(* Sequences that descend. *)

LEMMA LastLeast ==
  ASSUME NEW s \in Seq(Nat), Descends(s), s # <<>>
  PROVE  LastOf(s) \in Range(s) /\ \A e \in Range(s) : e >= LastOf(s)
<1>1. DOMAIN s = 1..Len(s) /\ Len(s) \in DOMAIN s /\ \A i \in DOMAIN s : s[i] \in Nat
  OBVIOUS
<1>2. \A i \in DOMAIN s : i = Len(s) \/ i < Len(s)
  BY <1>1
<1>3. \A i \in DOMAIN s : s[i] >= s[Len(s)]
  BY <1>1, <1>2 DEF Descends
<1> QED
  BY <1>1, <1>3 DEF LastOf, Range

\* A page joins a list where the list ends.
LEMMA JoinDescends ==
  ASSUME NEW s \in Seq(Nat), NEW t \in Seq(Nat), Descends(s), Descends(t), s # <<>>,
         \A e \in Range(t) : e < LastOf(s)
  PROVE  /\ s \o t \in Seq(Nat) /\ Descends(s \o t) /\ s \o t # <<>>
         /\ Range(s \o t) = Range(s) \cup Range(t)
         /\ LastOf(s \o t) = IF t = <<>> THEN LastOf(s) ELSE LastOf(t)
<1>1. /\ s \o t \in Seq(Nat) /\ Len(s) \in Nat \ {0} /\ Len(t) \in Nat
      /\ DOMAIN s = 1..Len(s) /\ DOMAIN t = 1..Len(t)
      /\ DOMAIN (s \o t) = 1..(Len(s) + Len(t)) /\ Len(s \o t) = Len(s) + Len(t)
      /\ \A i \in 1..Len(s) : (s \o t)[i] = s[i]
      /\ \A i \in 1..Len(t) : (s \o t)[Len(s) + i] = t[i]
  OBVIOUS
<1>2. ASSUME NEW i \in 1..(Len(s) + Len(t))
      PROVE  i \in 1..Len(s) \/ \E j \in 1..Len(t) : i = Len(s) + j
  <2>1. i \in 1..Len(s) \/ i - Len(s) \in 1..Len(t)
    BY <1>1
  <2>2. i = Len(s) + (i - Len(s))
    BY <1>1
  <2> QED
    BY <2>1, <2>2
<1>3. /\ \A i \in 1..Len(s) : i \in 1..(Len(s) + Len(t)) /\ s[i] \in Nat
      /\ \A i \in 1..Len(t) : Len(s) + i \in 1..(Len(s) + Len(t)) /\ t[i] \in Nat
  BY <1>1
<1>4. Range(s \o t) = Range(s) \cup Range(t)
  <2>1. \A i \in 1..(Len(s) + Len(t)) : (s \o t)[i] \in Range(s) \cup Range(t)
    <3> TAKE i \in 1..(Len(s) + Len(t))
    <3>1. CASE i \in 1..Len(s)
      BY <1>1, <3>1 DEF Range
    <3>2. CASE \E j \in 1..Len(t) : i = Len(s) + j
      BY <1>1, <3>2 DEF Range
    <3> QED
      BY <1>2, <3>1, <3>2
  <2>2. Range(s \o t) \subseteq Range(s) \cup Range(t)
    BY <1>1, <2>1 DEF Range
  <2>3. \A i \in 1..Len(s) : s[i] \in Range(s \o t)
    <3> TAKE i \in 1..Len(s)
    <3>1. (s \o t)[i] = s[i] /\ i \in DOMAIN (s \o t)
      BY <1>1, <1>3
    <3> QED
      BY <3>1 DEF Range
  <2>4. \A i \in 1..Len(t) : t[i] \in Range(s \o t)
    <3> TAKE i \in 1..Len(t)
    <3>1. (s \o t)[Len(s) + i] = t[i] /\ Len(s) + i \in DOMAIN (s \o t)
      BY <1>1, <1>3
    <3> QED
      BY <3>1 DEF Range
  <2>5. Range(s) \cup Range(t) \subseteq Range(s \o t)
    BY <1>1, <2>3, <2>4 DEF Range
  <2> QED
    BY <2>2, <2>5
<1>5. /\ \A i \in 1..Len(s) : s[i] >= LastOf(s)
      /\ \A i \in 1..Len(t) : t[i] < LastOf(s)
      /\ LastOf(s) \in Nat
  BY <1>1, <1>3, LastLeast DEF Range
<1>6. Descends(s \o t)
  <2> SUFFICES ASSUME NEW i \in 1..(Len(s) + Len(t)), NEW j \in 1..(Len(s) + Len(t)), i < j
               PROVE  (s \o t)[i] > (s \o t)[j]
    BY <1>1 DEF Descends
  <2>1. CASE i \in 1..Len(s) /\ j \in 1..Len(s)
    BY <1>1, <2>1 DEF Descends
  <2>2. CASE i \in 1..Len(s) /\ j \notin 1..Len(s)
    <3>1. PICK l \in 1..Len(t) : j = Len(s) + l
      BY <1>2, <2>2
    <3>2. (s \o t)[i] = s[i] /\ (s \o t)[j] = t[l]
      BY <1>1, <2>2, <3>1
    <3> QED
      BY <1>3, <1>5, <2>2, <3>2
  <2>3. CASE i \notin 1..Len(s)
    <3>1. PICK k \in 1..Len(t) : i = Len(s) + k
      BY <1>2, <2>3
    <3>2. j \notin 1..Len(s)
      BY <1>1, <3>1
    <3>3. PICK l \in 1..Len(t) : j = Len(s) + l
      BY <1>2, <3>2
    <3>4. k < l /\ (s \o t)[i] = t[k] /\ (s \o t)[j] = t[l]
      BY <1>1, <3>1, <3>3
    <3> QED
      BY <1>1, <3>4 DEF Descends
  <2> QED
    BY <2>1, <2>2, <2>3
<1>7. LastOf(s \o t) = IF t = <<>> THEN LastOf(s) ELSE LastOf(t)
  <2>1. CASE t = <<>>
    BY <2>1 DEF LastOf
  <2>2. CASE t # <<>>
    <3>1. Len(t) \in 1..Len(t)
      BY <1>1, <2>2
    <3> QED
      BY <1>1, <2>2, <3>1 DEF LastOf
  <2> QED
    BY <2>1, <2>2
<1> QED
  BY <1>1, <1>4, <1>6, <1>7

-----------------------------------------------------------------------------
(* Pages. *)

LEMMA ViewerNatWF == IsWellFoundedOn({p \in Nat \X Nat : p[1] < p[2]}, Nat)
  BY NatLessThanWellFounded DEF OpToRel

LEMMA Greatest ==
  ASSUME NEW n \in Nat, NEW S \in SUBSET (0..n), S # {}
  PROVE  \E m \in S : \A k \in S : k <= m
<1> DEFINE T == {n - k : k \in S}
<1>1. T \in SUBSET Nat /\ T # {}
  <2>1. \A k \in S : k \in Nat /\ k <= n /\ n - k \in Nat
    OBVIOUS
  <2> QED
    BY <2>1
<1>2. PICK l \in T : \A k \in T : ~ (<<k, l>> \in {p \in Nat \X Nat : p[1] < p[2]})
  <2> HIDE DEF T
  <2> QED
    BY <1>1, ViewerNatWF, WFMin
<1>3. ASSUME NEW k \in T PROVE l <= k
  <2>1. <<k, l>> \notin {p \in Nat \X Nat : p[1] < p[2]}
    BY <1>2
  <2>2. k \in Nat /\ l \in Nat
    BY <1>1
  <2>3. <<k, l>> \in Nat \X Nat /\ <<k, l>>[1] = k /\ <<k, l>>[2] = l
    BY <2>2
  <2>4. ~ (k < l)
    BY <2>1, <2>3
  <2> QED
    BY <2>2, <2>4
<1>4. PICK m \in S : l = n - m
  OBVIOUS
<1>5. ASSUME NEW k \in S PROVE k <= m
  <2>1. n - k \in T /\ n - m <= n - k
    BY <1>3, <1>4
  <2>2. k \in Nat /\ m \in Nat /\ n \in Nat
    OBVIOUS
  <2> HIDE DEF T
  <2> QED
    BY <2>1, <2>2
<1> QED
  BY <1>5

\* The newest of S are all of S, or the top of it.
LEMMA NewestTop ==
  ASSUME ViewerInv, NEW S \in SUBSET (0..recorded), NEW s \in NewestFirst(NewestRows(S))
  PROVE  s \in Seq(Nat) /\ TopOf(s, S, Cardinality(S) > PageSize)
<1>1. recorded \in Nat /\ PageSize \in Nat \ {0}
  BY ViewerAssumption DEF ViewerInv, ViewerTypeOK
<1>2. \A T \in SUBSET S : IsFiniteSet(T) /\ Cardinality(T) \in Nat
  <2>1. IsFiniteSet(0..recorded)
    BY <1>1, FS_Interval
  <2> QED
    BY <2>1, FS_Subset, FS_CardinalityType
<1>3. NewestRows(S) \in SUBSET S /\ \A e \in S : e \in Nat
  BY <1>1 DEF NewestRows
<1>4. s \in Seq(Nat) /\ Range(s) = NewestRows(S) /\ Descends(s)
  <2>1. Cardinality(NewestRows(S)) \in Nat
    BY <1>2, <1>3
  <2>2. s \in [1..Cardinality(NewestRows(S)) -> Nat]
    BY <1>3 DEF NewestFirst
  <2> QED
    BY <2>1, <2>2 DEF NewestFirst
<1>5. ASSUME Cardinality(S) > PageSize PROVE s # <<>>
  <2>1. S # {}
    BY <1>1, <1>5, FS_EmptySet
  <2>2. PICK m \in S : \A k \in S : k <= m
    BY <1>1, <2>1, Greatest
  <2>3. {x \in S : x > m} = {}
    <3>1. ASSUME NEW x \in S PROVE ~(x > m)
      <4>1. x \in Nat /\ m \in Nat /\ x <= m
        BY <1>3, <2>2
      <4> QED
        BY <4>1
    <3> QED
      BY <3>1
  <2>4. m \in NewestRows(S)
    BY <1>1, <2>3, FS_EmptySet DEF NewestRows
  <2> QED
    BY <1>4, <2>4 DEF Range
<1>6. ASSUME ~(Cardinality(S) > PageSize) PROVE NewestRows(S) = S
  <2> SUFFICES ASSUME NEW e \in S PROVE Cardinality({x \in S : x > e}) < PageSize
    BY DEF NewestRows
  <2>1. {x \in S : x > e} \in SUBSET (S \ {e})
    BY <1>3
  <2>2. Cardinality(S \ {e}) = Cardinality(S) - 1 /\ IsFiniteSet(S \ {e})
    BY <1>2, FS_RemoveElement
  <2>3. Cardinality({x \in S : x > e}) <= Cardinality(S \ {e})
    BY <2>1, <2>2, FS_Subset
  <2>4. Cardinality({x \in S : x > e}) \in Nat /\ Cardinality(S) \in Nat
    BY <1>2
  <2> QED
    BY <1>1, <1>6, <2>2, <2>3, <2>4
<1>7. ASSUME Cardinality(S) > PageSize
      PROVE  NewestRows(S) = {e \in S : e >= LastOf(s)}
  <2>1. LastOf(s) \in NewestRows(S) /\ \A e \in NewestRows(S) : e >= LastOf(s)
    BY <1>4, <1>5, <1>7, LastLeast
  <2> SUFFICES ASSUME NEW e \in S, e >= LastOf(s)
               PROVE  Cardinality({x \in S : x > e}) < PageSize
    BY <1>3, <2>1 DEF NewestRows
  <2>2. {x \in S : x > e} \in SUBSET {x \in S : x > LastOf(s)}
    <3>1. ASSUME NEW x \in S, x > e PROVE x > LastOf(s)
      <4>1. x \in Nat /\ e \in Nat /\ LastOf(s) \in Nat
        BY <1>3, <2>1
      <4> QED
        BY <3>1, <4>1
    <3> QED
      BY <3>1
  <2>3. IsFiniteSet({x \in S : x > LastOf(s)}) /\ Cardinality({x \in S : x > LastOf(s)}) \in Nat
    BY <1>2
  <2>4. Cardinality({x \in S : x > e}) <= Cardinality({x \in S : x > LastOf(s)})
    BY <2>2, <2>3, FS_Subset
  <2>5. Cardinality({x \in S : x > LastOf(s)}) < PageSize
    BY <2>1 DEF NewestRows
  <2>6. Cardinality({x \in S : x > e}) \in Nat
    BY <1>2
  <2> QED
    BY <1>1, <2>3, <2>4, <2>5, <2>6
<1> QED
  BY <1>4, <1>5, <1>6, <1>7 DEF TopOf

-----------------------------------------------------------------------------
(* Each step keeps the invariant. *)

LEMMA ViewerTypes ==
  ASSUME ViewerInv
  PROVE  /\ recorded \in Nat /\ generation \in Nat /\ filters \in Filters
         /\ feed.items \in Seq(Nat) /\ feed.cursor \in Cursors /\ feed.upTo \in Nat
         /\ feed.hasMore \in BOOLEAN
         /\ \A c \in loads :
              /\ c \in Load /\ c.gen \in Nat /\ c.of \in Filters /\ c.after \in Cursors
              /\ c.after.row \in Nat /\ c.page \in Pages
              /\ c.page.items \in Seq(Nat) /\ c.page.cursor \in Cursors
              /\ c.page.hasMore \in BOOLEAN /\ c.page.upTo \in Nat
<1> USE DEF ViewerInv, ViewerTypeOK
<1>1. /\ recorded \in Nat /\ generation \in Nat /\ filters \in Filters
      /\ feed.items \in Seq(Nat) /\ feed.cursor \in Cursors /\ feed.upTo \in Nat
      /\ feed.hasMore \in BOOLEAN
  BY ViewerAssumption
<1>2. ASSUME NEW c \in loads
      PROVE  /\ c \in Load /\ c.gen \in Nat /\ c.of \in Filters /\ c.after \in Cursors
             /\ c.page \in Pages
  BY DEF Load
<1>3. ASSUME NEW c \in loads
      PROVE  /\ c.after.row \in Nat
             /\ c.page.items \in Seq(Nat) /\ c.page.cursor \in Cursors
             /\ c.page.hasMore \in BOOLEAN /\ c.page.upTo \in Nat
  BY <1>2 DEF Pages, Cursors
<1> QED
  BY <1>1, <1>2, <1>3

LEMMA NoPageFits == NoCursor \in Cursors /\ NoPage \in Pages
<1>1. NoCursor \in Cursors
  BY ViewerAssumption DEF NoCursor, Cursors
<1>2. <<>> \in Seq(Nat)
  OBVIOUS
<1> QED
  BY <1>1, <1>2 DEF NoPage, Pages

LEMMA AskedFits ==
  ASSUME NEW f \in Filters, NEW a \in Cursors, NEW g \in Nat
  PROVE  /\ Asked(f, a, g) \in Load
         /\ Asked(f, a, g).gen = g /\ Asked(f, a, g).of = f
         /\ Asked(f, a, g).after = a /\ Asked(f, a, g).is = "sent"
<1>1. NoPage \in Pages
  BY NoPageFits
<1> QED
  BY <1>1 DEF Asked, Load

LEMMA ViewerStart == ViewerInit => ViewerInv
<1> SUFFICES ASSUME ViewerInit PROVE ViewerInv
  OBVIOUS
<1>1. /\ Asked(AnyFilter, NoCursor, 1) \in Load
      /\ Asked(AnyFilter, NoCursor, 1).gen = 1 /\ Asked(AnyFilter, NoCursor, 1).of = AnyFilter
      /\ Asked(AnyFilter, NoCursor, 1).after = NoCursor
      /\ Asked(AnyFilter, NoCursor, 1).is = "sent"
  BY AskedFits, NoPageFits, ViewerAssumption
<1>2. loads = {Asked(AnyFilter, NoCursor, 1)} /\ filters = AnyFilter /\ generation = 1
  BY DEF ViewerInit
<1>3. ViewerTypeOK
  <2>1. feed \in [items: Seq(Nat), cursor: Cursors, hasMore: BOOLEAN, loading: BOOLEAN,
                  loadingMore: BOOLEAN, error: BOOLEAN, unavailable: BOOLEAN, upTo: Nat]
    <3>1. <<>> \in Seq(Nat)
      OBVIOUS
    <3> QED
      BY <3>1, NoPageFits DEF ViewerInit, EmptyFeed
  <2>2. recorded \in 0..MaxRows /\ generation \in 1..MaxLoads
    BY ViewerAssumption DEF ViewerInit
  <2>3. asked \in [with: Cursors, under: Filters]
    BY NoPageFits, ViewerAssumption DEF ViewerInit
  <2> QED
    BY <1>1, <1>2, <2>1, <2>2, <2>3, ViewerAssumption DEF ViewerTypeOK
<1>4. feed.loading /\ ~Listed
  BY DEF ViewerInit, EmptyFeed, Listed
<1>5. CursorOfFilters
  BY DEF ViewerInit, CursorOfFilters
<1>6. \A c \in loads : AwaitedFits(c) /\ c.gen <= generation /\ c.is # "page" /\ c.after = NoCursor
  BY <1>1, <1>2, <1>4 DEF AwaitedFits
<1> QED
  BY <1>2, <1>3, <1>4, <1>5, <1>6 DEF ViewerInv

\* A row more in the log is beyond what every page and the list were read of.
LEMMA RowLandsKeeps == ASSUME ViewerInv, RowLands PROVE ViewerInv'
<1> USE DEF RowLands
<1>1. recorded \in Nat /\ recorded' = recorded + 1 /\ recorded' \in 0..MaxRows
  BY ViewerAssumption DEF ViewerInv, ViewerTypeOK
<1>2. ViewerTypeOK'
  BY <1>1 DEF ViewerInv, ViewerTypeOK
<1>3. ASSUME NEW c \in loads
      PROVE  /\ c.gen <= generation /\ (c.after # NoCursor => c.after.row <= recorded')
             /\ (c.is = "page" => PageFits(c)') /\ (c.gen = generation => AwaitedFits(c)')
  <2>1. c.after.row \in Nat /\ c.page.upTo \in Nat
    BY ViewerTypes
  <2>2. c.gen <= generation /\ (c.after # NoCursor => c.after.row <= recorded')
    BY <1>1, <2>1 DEF ViewerInv
  <2>3. c.is = "page" => PageFits(c)'
    <3>1. c.page.upTo <= recorded => c.page.upTo <= recorded'
      BY <1>1, <2>1
    <3> QED
      BY <3>1 DEF ViewerInv, PageFits, UpTo
  <2>4. c.gen = generation => AwaitedFits(c)'
    BY DEF ViewerInv, AwaitedFits, Listed
  <2> QED
    BY <2>2, <2>3, <2>4
<1>4. (Listed => ListFits)'
  <2>1. feed.upTo \in Nat
    BY ViewerTypes
  <2> QED
    BY <1>1, <2>1 DEF ViewerInv, Listed, ListFits, UpTo
<1>5. CursorOfFilters'
  BY DEF ViewerInv, CursorOfFilters
<1> QED
  BY <1>2, <1>3, <1>4, <1>5 DEF ViewerInv

\* A new feed waits for its own load, and shows nothing until it is answered.
LEMMA NewFeedKeeps == ASSUME ViewerInv, NEW f \in Filters, NewFeed(f) PROVE ViewerInv'
<1> SUFFICES ASSUME NEW b, b = Asked(f, NoCursor, generation + 1) PROVE ViewerInv'
  OBVIOUS
<1>1. /\ generation \in Nat /\ generation' = generation + 1 /\ generation' \in 1..MaxLoads
      /\ filters' = f /\ recorded' = recorded /\ loads' = loads \cup {b}
      /\ feed' = [feed EXCEPT !.loading = TRUE] /\ asked' = [with |-> NoCursor, under |-> f]
  BY ViewerAssumption DEF ViewerInv, ViewerTypeOK, NewFeed, Begin
<1>2. /\ b \in Load /\ b.gen = generation + 1 /\ b.of = f
      /\ b.after = NoCursor /\ b.is = "sent"
  BY <1>1, NoPageFits, AskedFits
<1>3. /\ feed' \in [items: Seq(Nat), cursor: Cursors, hasMore: BOOLEAN, loading: BOOLEAN,
                    loadingMore: BOOLEAN, error: BOOLEAN, unavailable: BOOLEAN, upTo: Nat]
      /\ feed'.loading
  BY <1>1 DEF ViewerInv, ViewerTypeOK
<1>4. ViewerTypeOK'
  BY <1>1, <1>2, <1>3, NoPageFits DEF ViewerInv, ViewerTypeOK
<1>5. ASSUME NEW c \in loads
      PROVE  c.gen < generation' /\ c.gen # generation' /\ c.gen <= generation'
  <2>1. c.gen \in Nat /\ c.gen <= generation
    BY ViewerTypes DEF ViewerInv
  <2> QED
    BY <1>1, <2>1
<1>6. ASSUME NEW c \in loads
      PROVE  /\ (c.after # NoCursor => c.after.row <= recorded')
             /\ (c.is = "page" => PageFits(c)')
  BY <1>1 DEF ViewerInv, PageFits, UpTo
<1>7. AwaitedFits(b)' /\ b.gen <= generation'
  BY <1>1, <1>2, <1>3 DEF AwaitedFits
<1>8. (Listed => ListFits)'
  BY <1>3 DEF Listed
<1>9. CursorOfFilters'
  BY <1>1 DEF CursorOfFilters
<1>10. \A c, d \in loads' : c.gen = generation' /\ d.gen = generation' => c = d
  BY <1>1, <1>5
<1>11. \A c \in loads' :
         /\ c.gen <= generation' /\ (c.after # NoCursor => c.after.row <= recorded')
         /\ (c.is = "page" => PageFits(c)') /\ (c.gen = generation' => AwaitedFits(c)')
  BY <1>1, <1>2, <1>5, <1>6, <1>7
<1> QED
  BY <1>4, <1>8, <1>9, <1>10, <1>11 DEF ViewerInv

\* The button is drawn only while nothing is awaited.
LEMMA LoadMoreKeeps == ASSUME ViewerInv, LoadMore PROVE ViewerInv'
<1> SUFFICES ASSUME NEW b, b = Asked(filters, feed.cursor, generation) PROVE ViewerInv'
  OBVIOUS
<1>1. /\ generation' = generation /\ filters' = filters /\ recorded' = recorded
      /\ loads' = loads \cup {b} /\ feed' = [feed EXCEPT !.loadingMore = TRUE]
      /\ asked' = [with |-> feed.cursor, under |-> filters]
      /\ feed.cursor # NoCursor /\ feed.hasMore /\ Listed /\ feed.items # <<>>
      /\ ~feed.loadingMore /\ ~feed.loading
  BY DEF LoadMore, Begin, RowsShown, Listed
<1>2. /\ b \in Load /\ b.gen = generation /\ b.of = filters
      /\ b.after = feed.cursor /\ b.is = "sent"
  BY ViewerTypes, AskedFits
<1>3. /\ feed' \in [items: Seq(Nat), cursor: Cursors, hasMore: BOOLEAN, loading: BOOLEAN,
                    loadingMore: BOOLEAN, error: BOOLEAN, unavailable: BOOLEAN, upTo: Nat]
      /\ feed'.loadingMore /\ feed'.items = feed.items /\ feed'.cursor = feed.cursor
      /\ feed'.hasMore = feed.hasMore /\ feed'.upTo = feed.upTo
      /\ feed'.loading = feed.loading /\ feed'.error = feed.error
      /\ feed'.unavailable = feed.unavailable
  BY <1>1 DEF ViewerInv, ViewerTypeOK
<1>4. ViewerTypeOK'
  BY <1>1, <1>2, <1>3, ViewerTypes DEF ViewerInv, ViewerTypeOK
<1>5. ListFits /\ Listed'
  BY <1>1, <1>3 DEF ViewerInv, Listed
<1>6. /\ feed.cursor = [of |-> filters, row |-> LastOf(feed.items)]
      /\ feed.cursor.of = filters /\ feed.cursor.row <= recorded
  <2>1. feed.cursor = [of |-> filters, row |-> LastOf(feed.items)]
    BY <1>1, <1>5 DEF ListFits
  <2>2. LastOf(feed.items) \in UpTo(filters, feed.upTo) /\ feed.upTo <= recorded
    BY <1>1, <1>5, LastLeast, ViewerTypes DEF ListFits, TopOf
  <2>3. LastOf(feed.items) \in Nat
    BY <2>1, ViewerTypes DEF Cursors
  <2> QED
    BY <2>1, <2>2, <2>3, ViewerTypes DEF UpTo
<1>7. ASSUME NEW c \in loads PROVE c.gen # generation
  BY <1>1 DEF ViewerInv, AwaitedFits
<1>8. ASSUME NEW c \in loads
      PROVE  /\ c.gen <= generation' /\ (c.after # NoCursor => c.after.row <= recorded')
             /\ (c.is = "page" => PageFits(c)')
  BY <1>1 DEF ViewerInv, PageFits, UpTo
<1>9. AwaitedFits(b)' /\ b.gen <= generation' /\ b.after.row <= recorded'
  BY <1>1, <1>2, <1>3, <1>5, <1>6, ViewerTypes DEF AwaitedFits
<1>10. (Listed => ListFits)'
  BY <1>1, <1>3, <1>5 DEF ListFits
<1>11. CursorOfFilters'
  BY <1>1, <1>6 DEF CursorOfFilters
<1>12. \A c, d \in loads' : c.gen = generation' /\ d.gen = generation' => c = d
  BY <1>1, <1>7
<1>13. \A c \in loads' :
         /\ c.gen <= generation' /\ (c.after # NoCursor => c.after.row <= recorded')
         /\ (c.is = "page" => PageFits(c)') /\ (c.gen = generation' => AwaitedFits(c)')
  BY <1>1, <1>2, <1>7, <1>8, <1>9
<1> QED
  BY <1>4, <1>10, <1>11, <1>12, <1>13 DEF ViewerInv

\* What the api answers is the top of what it holds.
LEMMA ServedFits ==
  ASSUME ViewerInv, NEW c \in loads, NEW page \in PagesOf(c.of, c.after)
  PROVE  /\ page \in Pages
         /\ TopOf(page.items,
                  {e \in UpTo(c.of, page.upTo) : c.after = NoCursor \/ e < c.after.row},
                  page.hasMore)
         /\ page.cursor # NoCursor =>
              page.items # <<>> /\ page.cursor = [of |-> c.of, row |-> LastOf(page.items)]
         /\ page.upTo = recorded
<1> DEFINE all == Older(c.of, c.after)
<1>1. PICK items \in NewestFirst(NewestRows(all)) :
        page = [items |-> items,
                cursor |-> IF items = <<>> THEN NoCursor
                           ELSE [of |-> c.of, row |-> LastOf(items)],
                hasMore |-> Cardinality(all) > PageSize, upTo |-> recorded]
  BY DEF PagesOf
<1>2. all \in SUBSET (0..recorded)
  <2>1. recorded \in Nat /\ Matches[c.of] \in SUBSET (Nat \ {0})
    BY ViewerTypes, ViewerAssumption
  <2> QED
    BY <2>1 DEF Older
<1>3. all = {e \in UpTo(c.of, recorded) : c.after = NoCursor \/ e < c.after.row}
  BY DEF Older, UpTo
<1> HIDE DEF all
<1>4. items \in Seq(Nat) /\ TopOf(items, all, Cardinality(all) > PageSize)
  BY <1>2, NewestTop
<1>5. /\ page.items = items /\ page.upTo = recorded /\ page.hasMore = (Cardinality(all) > PageSize)
      /\ page.cursor = IF items = <<>> THEN NoCursor ELSE [of |-> c.of, row |-> LastOf(items)]
  BY <1>1
<1>6. page.cursor \in Cursors
  <2>1. CASE items = <<>>
    BY <1>5, <2>1, NoPageFits
  <2>2. CASE items # <<>>
    <3>1. Len(items) \in DOMAIN items /\ items[Len(items)] \in Nat
      BY <1>4, <2>2
    <3> QED
      BY <1>5, <2>2, <3>1, ViewerTypes DEF Cursors, LastOf
  <2> QED
    BY <2>1, <2>2
<1>7. page \in Pages
  BY <1>1, <1>4, <1>5, <1>6, ViewerTypes DEF Pages
<1> QED
  BY <1>3, <1>4, <1>5, <1>7

LEMMA ServeKeeps == ASSUME ViewerInv, NEW c \in loads, Serve(c) PROVE ViewerInv'
<1>1. /\ generation' = generation /\ filters' = filters /\ recorded' = recorded
      /\ feed' = feed /\ asked' = asked
  BY DEF Serve
<1> DEFINE Answered ==
      \E d \in Load : /\ loads' = (loads \ {c}) \cup {d}
                      /\ d.gen = c.gen /\ d.of = c.of /\ d.after = c.after
                      /\ d.is = "page" => PageFits(d)
<1>2. Answered
  <2>1. c \in Load
    BY ViewerTypes
  <2>2. ASSUME NEW page \in PagesOf(c.of, c.after),
               loads' = (loads \ {c}) \cup {[c EXCEPT !.is = "page", !.page = page]}
        PROVE  Answered
    <3> DEFINE d == [c EXCEPT !.is = "page", !.page = page]
    <3>1. page \in Pages
      BY ServedFits
    <3>2. /\ d \in Load /\ d.gen = c.gen /\ d.of = c.of /\ d.after = c.after /\ d.page = page
      BY <2>1, <3>1 DEF Load
    <3> HIDE DEF d
    <3>3. PageFits(d)
      <4>1. c.after # NoCursor => c.after.row <= recorded
        BY DEF ViewerInv
      <4> QED
        <5>1. /\ TopOf(page.items, {e \in UpTo(c.of, page.upTo) : c.after = NoCursor \/ e < c.after.row},
                       page.hasMore)
              /\ page.cursor # NoCursor =>
                   page.items # <<>> /\ page.cursor = [of |-> c.of, row |-> LastOf(page.items)]
              /\ page.upTo = recorded
          BY ServedFits
        <5>2. page.upTo <= recorded
          BY <5>1, ViewerTypes
        <5> QED
          BY <3>2, <4>1, <5>1, <5>2 DEF PageFits
    <3>4. loads' = (loads \ {c}) \cup {d}
      BY <2>2 DEF d
    <3> QED
      BY <3>2, <3>3, <3>4
  <2>3. ASSUME NEW w \in {"error", "404"}, loads' = (loads \ {c}) \cup {[c EXCEPT !.is = w]}
        PROVE  Answered
    <3> DEFINE d == [c EXCEPT !.is = w]
    <3>1. /\ d \in Load /\ d.gen = c.gen /\ d.of = c.of /\ d.after = c.after /\ d.is # "page"
      BY <2>1 DEF Load
    <3>2. loads' = (loads \ {c}) \cup {d}
      BY <2>3
    <3> HIDE DEF d
    <3> QED
      BY <3>1, <3>2
  <2> QED
    BY <2>2, <2>3 DEF Serve
<1>3. PICK d \in Load : /\ loads' = (loads \ {c}) \cup {d}
                        /\ d.gen = c.gen /\ d.of = c.of /\ d.after = c.after
                        /\ d.is = "page" => PageFits(d)
  BY <1>2
<1>4. ViewerTypeOK'
  BY <1>1, <1>3 DEF ViewerInv, ViewerTypeOK
<1>5. ASSUME NEW x \in loads
      PROVE  /\ (x.gen <= generation)' /\ (x.after # NoCursor => x.after.row <= recorded')
             /\ (x.is = "page" => PageFits(x)') /\ (x.gen = generation' => AwaitedFits(x)')
  BY <1>1 DEF ViewerInv, PageFits, UpTo, AwaitedFits, Listed
<1>6. /\ d.gen <= generation' /\ (d.after # NoCursor => d.after.row <= recorded')
      /\ (d.is = "page" => PageFits(d)') /\ (d.gen = generation' => AwaitedFits(d)')
  <2>1. d.is = "page" => PageFits(d)'
    BY <1>1, <1>3 DEF PageFits, UpTo
  <2>2. d.gen = generation' => AwaitedFits(d)'
    BY <1>1, <1>3 DEF ViewerInv, AwaitedFits, Listed
  <2> QED
    BY <1>1, <1>3, <2>1, <2>2 DEF ViewerInv
<1>7. \A x, y \in loads' : x.gen = generation' /\ y.gen = generation' => x = y
  BY <1>1, <1>3 DEF ViewerInv
<1>8. (Listed => ListFits)' /\ CursorOfFilters'
  BY <1>1 DEF ViewerInv, Listed, ListFits, UpTo, CursorOfFilters
<1>9. \A x \in loads' :
        /\ x.gen <= generation' /\ (x.after # NoCursor => x.after.row <= recorded')
        /\ (x.is = "page" => PageFits(x)') /\ (x.gen = generation' => AwaitedFits(x)')
  BY <1>1, <1>3, <1>5, <1>6
<1> QED
  BY <1>4, <1>7, <1>8, <1>9 DEF ViewerInv

-----------------------------------------------------------------------------
(* An awaited answer reaches the page. *)

\* What comes after the list's last row, down to the page's, goes under it.
LEMMA JoinTop ==
  ASSUME NEW s \in Seq(Nat), NEW t \in Seq(Nat), NEW A \in SUBSET Nat, NEW B \in SUBSET Nat,
         NEW top \in BOOLEAN, NEW more \in BOOLEAN, s # <<>>, top,
         TopOf(s, A, top), TopOf(t, B, more),
         \A e \in B : e < LastOf(s),
         \A e \in A : e < LastOf(s) => e \in B,
         \A e \in B : e \in A
  PROVE  /\ s \o t \in Seq(Nat) /\ s \o t # <<>> /\ TopOf(s \o t, A, more)
         /\ t # <<>> => LastOf(s \o t) = LastOf(t)
<1>1. /\ Descends(s) /\ Range(s) = {e \in A : e >= LastOf(s)}
      /\ Descends(t) /\ (more => t # <<>>)
      /\ Range(t) = {e \in B : more => e >= LastOf(t)}
  BY DEF TopOf
<1>2. LastOf(s) \in Nat
  BY <1>1, LastLeast
<1>3. t # <<>> => LastOf(t) \in Nat /\ LastOf(t) < LastOf(s)
  BY <1>1, LastLeast
<1>4. /\ s \o t \in Seq(Nat) /\ Descends(s \o t) /\ s \o t # <<>>
      /\ Range(s \o t) = Range(s) \cup Range(t)
      /\ LastOf(s \o t) = IF t = <<>> THEN LastOf(s) ELSE LastOf(t)
  <2>1. \A e \in Range(t) : e < LastOf(s)
    BY <1>1
  <2> QED
    BY <1>1, <2>1, JoinDescends
<1>5. Range(s) \cup Range(t) = {e \in A : more => e >= LastOf(s \o t)}
  <2> SUFFICES ASSUME NEW e \in A, e \in Nat
               PROVE  (\/ e >= LastOf(s)
                       \/ e \in B /\ (more => e >= LastOf(t)))
                      <=> (more => e >= LastOf(s \o t))
    BY <1>1
  <2>1. CASE more
    BY <1>1, <1>2, <1>3, <1>4, <2>1
  <2>2. CASE ~more
    BY <1>2, <2>2
  <2> QED
    BY <2>1, <2>2
<1> QED
  BY <1>1, <1>4, <1>5 DEF TopOf

LEMMA DeliverKeeps == ASSUME ViewerInv, NEW c \in loads, Deliver(c) PROVE ViewerInv'
<1>1. /\ generation' = generation /\ filters' = filters /\ recorded' = recorded
      /\ asked' = asked /\ loads' = loads \ {c} /\ c.is # "sent"
      /\ feed' = IF c.gen = generation THEN Settled(c) ELSE feed
  BY DEF Deliver
<1>2. ASSUME NEW x \in loads
      PROVE  /\ x.gen <= generation' /\ (x.after # NoCursor => x.after.row <= recorded')
             /\ (x.is = "page" => PageFits(x)')
  BY <1>1 DEF ViewerInv, PageFits, UpTo
<1>3. \A x, y \in loads' : x.gen = generation' /\ y.gen = generation' => x = y
  BY <1>1 DEF ViewerInv
<1>4. CursorOfFilters'
  BY <1>1 DEF ViewerInv, CursorOfFilters
<1>5. CASE c.gen # generation
  <2>1. feed' = feed
    BY <1>1, <1>5
  <2>2. ViewerTypeOK'
    BY <1>1, <2>1 DEF ViewerInv, ViewerTypeOK
  <2>3. ASSUME NEW x \in loads PROVE x.gen = generation' => AwaitedFits(x)'
    BY <1>1, <2>1 DEF ViewerInv, AwaitedFits, Listed
  <2>4. (Listed => ListFits)'
    BY <1>1, <2>1 DEF ViewerInv, Listed, ListFits, UpTo
  <2> QED
    BY <1>1, <1>2, <1>3, <1>4, <2>2, <2>3, <2>4 DEF ViewerInv
<1>6. CASE c.gen = generation
  <2>1. \A x \in loads' : x.gen # generation'
    BY <1>1, <1>6 DEF ViewerInv
  <2>2. AwaitedFits(c) /\ feed' = Settled(c)
    BY <1>1, <1>6 DEF ViewerInv
  <2> DEFINE Feeds == [items: Seq(Nat), cursor: Cursors, hasMore: BOOLEAN, loading: BOOLEAN,
                       loadingMore: BOOLEAN, error: BOOLEAN, unavailable: BOOLEAN, upTo: Nat]
  <2>3. feed \in Feeds
    BY DEF ViewerInv, ViewerTypeOK
  <2>4. feed' \in Feeds /\ (Listed => ListFits)'
    <3>1. CASE c.is = "page" /\ c.after = NoCursor
      <4>1. /\ feed' \in Feeds /\ feed'.items = c.page.items /\ feed'.cursor = c.page.cursor
            /\ feed'.hasMore = c.page.hasMore /\ feed'.upTo = c.page.upTo
        BY <2>2, <2>3, <3>1, ViewerTypes DEF Settled, Shown
      <4>2. PageFits(c) /\ c.of = filters
        BY <2>2, <3>1 DEF ViewerInv, AwaitedFits
      <4>3. {e \in UpTo(c.of, c.page.upTo) : c.after = NoCursor \/ e < c.after.row}
              = UpTo(filters, c.page.upTo)
        BY <3>1, <4>2
      <4>4. TopOf(c.page.items, UpTo(filters, c.page.upTo), c.page.hasMore)
        BY <4>2, <4>3 DEF PageFits
      <4>5. TopOf(feed'.items, UpTo(filters', feed'.upTo), feed'.hasMore)
        BY <1>1, <4>1, <4>4
      <4> QED
        BY <1>1, <4>1, <4>2, <4>5 DEF PageFits, ListFits, UpTo, TopOf
    <3>2. CASE c.is = "page" /\ c.after # NoCursor
      <4>1. /\ feed'.items = feed.items \o c.page.items /\ feed'.cursor = c.page.cursor
            /\ feed'.hasMore = c.page.hasMore /\ feed'.upTo = feed.upTo
        BY <2>2, <2>3, <3>2 DEF Settled, Shown
      <4>2. /\ PageFits(c) /\ c.of = filters /\ ListFits /\ feed.hasMore
            /\ feed.items # <<>> /\ c.after = feed.cursor
        BY <2>2, <3>2 DEF ViewerInv, AwaitedFits
      <4>3. c.after = [of |-> filters, row |-> LastOf(feed.items)] /\ c.after.row = LastOf(feed.items)
        BY <3>2, <4>2 DEF ListFits
      <4> DEFINE A == UpTo(filters, feed.upTo)
                 B == {e \in UpTo(c.of, c.page.upTo) : c.after = NoCursor \/ e < c.after.row}
      <4>4. A \in SUBSET Nat /\ B \in SUBSET Nat
        BY <4>2, ViewerTypes, ViewerAssumption DEF UpTo
      <4>5. TopOf(feed.items, A, feed.hasMore) /\ TopOf(c.page.items, B, c.page.hasMore)
        BY <3>2, <4>2 DEF ListFits, PageFits
      <4>6. LastOf(feed.items) \in A /\ LastOf(feed.items) <= c.page.upTo
        <5>1. LastOf(feed.items) \in Range(feed.items)
          BY <4>2, <4>5, LastLeast, ViewerTypes DEF TopOf
        <5> QED
          BY <3>2, <4>2, <4>3, <4>5, <5>1 DEF TopOf, PageFits
      <4>7. /\ \A e \in B : e < LastOf(feed.items) /\ e \in A
            /\ \A e \in A : e < LastOf(feed.items) => e \in B
        <5>1. LastOf(feed.items) <= feed.upTo /\ LastOf(feed.items) \in Nat
          BY <4>4, <4>6 DEF UpTo
        <5>2. \A e \in Nat : e < LastOf(feed.items) => e <= feed.upTo /\ e <= c.page.upTo
          BY <4>6, <5>1, ViewerTypes
        <5> QED
          BY <3>2, <4>2, <4>3, <4>4, <5>2 DEF UpTo
      <4>8. /\ feed.items \o c.page.items \in Seq(Nat) /\ feed.items \o c.page.items # <<>>
            /\ TopOf(feed.items \o c.page.items, A, c.page.hasMore)
            /\ c.page.items # <<>> =>
                 LastOf(feed.items \o c.page.items) = LastOf(c.page.items)
        <5>1. /\ feed.items \in Seq(Nat) /\ c.page.items \in Seq(Nat)
              /\ feed.hasMore \in BOOLEAN /\ c.page.hasMore \in BOOLEAN
          BY ViewerTypes
        <5> HIDE DEF A, B
        <5> QED
          BY <4>2, <4>4, <4>5, <4>7, <5>1, JoinTop
      <4>9. feed' \in Feeds
        BY <2>2, <2>3, <3>2, <4>8, ViewerTypes DEF Settled, Shown
      <4>10. TopOf(feed'.items, UpTo(filters', feed'.upTo), feed'.hasMore)
        BY <1>1, <4>1, <4>8 DEF UpTo
      <4> QED
        BY <1>1, <4>1, <4>2, <4>8, <4>9, <4>10 DEF PageFits, ListFits, UpTo, TopOf
    <3>3. CASE c.is # "page"
      <4>1. feed' \in Feeds /\ (feed'.error \/ feed'.unavailable)
        <5>1. <<>> \in Seq(Nat)
          OBVIOUS
        <5>2. CASE c.is = "error"
          BY <2>2, <2>3, <5>2 DEF Settled, Failed
        <5>3. CASE c.is # "error"
          BY <2>2, <2>3, <3>3, <5>1, <5>3 DEF Settled, NoFeed
        <5> QED
          BY <5>2, <5>3
      <4> QED
        BY <4>1 DEF Listed
    <3> QED
      BY <3>1, <3>2, <3>3
  <2>5. ViewerTypeOK'
    BY <1>1, <2>4 DEF ViewerInv, ViewerTypeOK
  <2>6. \A x \in loads' : x \in loads
    BY <1>1
  <2> QED
    BY <1>2, <1>3, <1>4, <2>1, <2>4, <2>5, <2>6 DEF ViewerInv
<1> QED
  BY <1>5, <1>6

-----------------------------------------------------------------------------
LEMMA ViewerAlways == ViewerSpec => []ViewerInv
<1>1. ViewerInit => ViewerInv
  BY ViewerStart
<1>2. ViewerInv /\ [ViewerNext]_viewerVars => ViewerInv'
  <2> SUFFICES ASSUME ViewerInv, [ViewerNext]_viewerVars PROVE ViewerInv'
    OBVIOUS
  <2>1. CASE RowLands
    BY <2>1, RowLandsKeeps
  <2>2. CASE \E f \in Filters : SetFilters(f)
    BY <2>2, NewFeedKeeps DEF SetFilters
  <2>3. CASE Refresh
    BY <2>3, NewFeedKeeps, ViewerTypes DEF Refresh
  <2>4. CASE LoadMore
    BY <2>4, LoadMoreKeeps
  <2>5. ASSUME NEW c \in loads, Serve(c) \/ Deliver(c) PROVE ViewerInv'
    BY <2>5, ServeKeeps, DeliverKeeps
  <2>6. CASE UNCHANGED viewerVars
    <3> USE <2>6 DEF viewerVars
    <3>1. ViewerTypeOK' /\ CursorOfFilters' /\ (Listed => ListFits)'
      BY DEF ViewerInv, ViewerTypeOK, CursorOfFilters, Listed, ListFits, UpTo
    <3>2. \A c \in loads : (PageFits(c) <=> PageFits(c)') /\ (AwaitedFits(c) <=> AwaitedFits(c)')
      BY DEF PageFits, UpTo, AwaitedFits, Listed
    <3> QED
      BY <3>1, <3>2 DEF ViewerInv
  <2> QED
    BY <2>1, <2>2, <2>3, <2>4, <2>5, <2>6 DEF ViewerNext
<1> QED
  BY <1>1, <1>2, PTL DEF ViewerSpec

\* The page's rows are what the log held under its filters, as a whole, and a
\* cursor keeps to the filters it was issued for (useAuditFeed.ts:106-161).
THEOREM ViewerAlwaysTrue == ViewerSpec => []ViewerTrue
  BY ViewerAlways, ViewerHolds, PTL

-----------------------------------------------------------------------------
(* The chart of transactions. *)

\* The times that are a whole number of n.
Multiple(t, n) == \E k \in Int : t = k * n

LEMMA Division ==
  ASSUME NEW t \in Int, NEW n \in Nat \ {0}
  PROVE  t \div n \in Int /\ t = n * (t \div n) + (t % n) /\ t % n \in 0..(n - 1)
  OBVIOUS

LEMMA MultipleFrom ==
  ASSUME NEW t \in Int, NEW n \in Nat \ {0}, Multiple(t, n), t > 0
  PROVE  t >= n
  BY DEF Multiple

LEMMA MultipleSum ==
  ASSUME NEW s \in Int, NEW t \in Int, NEW n \in Nat \ {0}, Multiple(s, n), Multiple(t, n)
  PROVE  Multiple(s + t, n) /\ Multiple(s - t, n)
<1>1. PICK k \in Int, l \in Int : s = k * n /\ t = l * n
  BY DEF Multiple
<1>2. s + t = (k + l) * n /\ s - t = (k - l) * n /\ k + l \in Int /\ k - l \in Int
  BY <1>1
<1> QED
  BY <1>2 DEF Multiple

\* From one multiple to the next it is n.
LEMMA MultipleNext ==
  ASSUME NEW s \in Int, NEW t \in Int, NEW n \in Nat \ {0}, Multiple(s, n), Multiple(t, n), s < t
  PROVE  s + n <= t
<1>1. Multiple(t - s, n)
  BY MultipleSum
<1>2. t - s \in Int /\ t - s > 0
  OBVIOUS
<1>3. t - s >= n
  BY <1>1, <1>2, MultipleFrom
<1> QED
  BY <1>3

LEMMA MultipleOne == ASSUME NEW n \in Nat \ {0} PROVE Multiple(n, n) /\ Multiple(0, n)
<1>1. n = 1 * n /\ 0 = 0 * n
  OBVIOUS
<1> QED
  BY <1>1 DEF Multiple

LEMMA FloorFacts ==
  ASSUME NEW t \in Int, NEW n \in Nat \ {0}
  PROVE  /\ FloorTo(t, n) \in Int /\ Multiple(FloorTo(t, n), n)
         /\ FloorTo(t, n) <= t /\ t < FloorTo(t, n) + n
<1>1. t \div n \in Int /\ t = n * (t \div n) + (t % n) /\ t % n \in 0..(n - 1)
  BY Division
<1>2. n * (t \div n) = (t \div n) * n /\ (t \div n) * n \in Int
  BY <1>1
<1>3. FloorTo(t, n) \in Int /\ t = FloorTo(t, n) + (t % n)
  BY <1>1, <1>2 DEF FloorTo
<1>4. Multiple(FloorTo(t, n), n)
  BY <1>1 DEF FloorTo, Multiple
<1> QED
  BY <1>1, <1>3, <1>4

LEMMA CeilFacts ==
  ASSUME NEW t \in Int, NEW n \in Nat \ {0}
  PROVE  /\ CeilTo(t, n) \in Int /\ Multiple(CeilTo(t, n), n)
         /\ t <= CeilTo(t, n) /\ CeilTo(t, n) < t + n
<1>1. t + n - 1 \in Int
  OBVIOUS
<1>2. /\ FloorTo(t + n - 1, n) \in Int /\ Multiple(FloorTo(t + n - 1, n), n)
      /\ FloorTo(t + n - 1, n) <= t + n - 1 /\ t + n - 1 < FloorTo(t + n - 1, n) + n
  BY <1>1, FloorFacts
<1> QED
  BY <1>2 DEF CeilTo

\* The one multiple that is at t or less than n after it.
LEMMA CeilIs ==
  ASSUME NEW t \in Int, NEW n \in Nat \ {0}, NEW s \in Int, Multiple(s, n), t <= s, s < t + n
  PROVE  CeilTo(t, n) = s
<1>1. /\ CeilTo(t, n) \in Int /\ Multiple(CeilTo(t, n), n)
      /\ t <= CeilTo(t, n) /\ CeilTo(t, n) < t + n
  BY CeilFacts
<1>2. ~(CeilTo(t, n) < s)
  <2> SUFFICES ASSUME CeilTo(t, n) < s PROVE FALSE
    OBVIOUS
  <2>1. CeilTo(t, n) + n <= s
    BY <1>1, MultipleNext
  <2> QED
    BY <1>1, <2>1
<1>3. ~(s < CeilTo(t, n))
  <2> SUFFICES ASSUME s < CeilTo(t, n) PROVE FALSE
    OBVIOUS
  <2>1. s + n <= CeilTo(t, n)
    BY <1>1, MultipleNext
  <2> QED
    BY <1>1, <2>1
<1> QED
  BY <1>1, <1>2, <1>3

LEMMA RestOf ==
  ASSUME NEW t \in Int, NEW n \in Nat \ {0}, NEW p \in 0..(n - 1)
  PROVE  t % n = p <=> Multiple(t - p, n)
<1>1. t \div n \in Int /\ t = n * (t \div n) + (t % n) /\ t % n \in 0..(n - 1)
  BY Division
<1>2. ASSUME t % n = p PROVE Multiple(t - p, n)
  <2>1. t - p = (t \div n) * n
    BY <1>1, <1>2
  <2> QED
    BY <1>1, <2>1 DEF Multiple
<1>3. ASSUME Multiple(t - p, n) PROVE t % n = p
  <2> DEFINE r == t % n
  <2>1. r \in Int /\ r \in 0..(n - 1) /\ t - r = (t \div n) * n /\ t - r \in Int /\ t - p \in Int
    BY <1>1
  <2>2. Multiple(t - r, n)
    BY <1>1, <2>1 DEF Multiple
  <2> HIDE DEF r
  <2>3. ~(t - r < t - p)
    <3> SUFFICES ASSUME t - r < t - p PROVE FALSE
      OBVIOUS
    <3>1. (t - r) + n <= t - p
      BY <1>3, <2>1, <2>2, MultipleNext
    <3> QED
      BY <2>1, <3>1
  <2>4. ~(t - p < t - r)
    <3> SUFFICES ASSUME t - p < t - r PROVE FALSE
      OBVIOUS
    <3>1. (t - p) + n <= t - r
      BY <1>3, <2>1, <2>2, MultipleNext
    <3> QED
      BY <2>1, <3>1
  <2>5. r = p
    BY <2>1, <2>3, <2>4
  <2> QED
    BY <2>5 DEF r
<1> QED
  BY <1>2, <1>3

LEMMA MaxOfTwo ==
  ASSUME NEW a \in Int, NEW b \in Int
  PROVE  Max({a, b}) = IF a >= b THEN a ELSE b
  BY DEF Max

LEMMA ChartConstants ==
  /\ Minute \in Nat \ {0} /\ Shift \in Nat \ {0} /\ Lag \in Nat \ {0} /\ Lookback \in Nat \ {0}
  /\ BarStep \in Nat \ {0} /\ Shift < Minute /\ Lag = 2 * Minute /\ Lookback > Minute
  /\ BarStep > Lag /\ Multiple(BarStep, Minute)
<1>1. /\ Minute \in Nat \ {0} /\ Shift \in Nat \ {0} /\ Lag \in Nat \ {0} /\ Lookback \in Nat \ {0}
      /\ BarStep \in Nat \ {0} /\ Shift < Minute /\ Lag = 2 * Minute /\ Lookback > Minute
      /\ BarStep > Lag
  BY ChartAssumption
<1>2. Multiple(BarStep - 0, Minute)
  BY <1>1, ChartAssumption, RestOf
<1> QED
  BY <1>1, <1>2

-----------------------------------------------------------------------------
(* The bars, and a line counted in one of them. *)

LEMMA BarsAre ==
  ASSUME NEW now \in Nat, NEW range \in Nat
  PROVE  /\ FirstBar(now, range) \in Int /\ Multiple(FirstBar(now, range), BarStep)
         /\ \A t : t \in Bars(now, range) <=>
              /\ t \in Int /\ Multiple(t, BarStep)
              /\ FirstBar(now, range) <= t /\ t <= CeilTo(now, BarStep)
<1> USE ChartConstants
<1>1. now - range \in Int
  OBVIOUS
<1>2. FloorTo(now - range, BarStep) \in Int /\ Multiple(FloorTo(now - range, BarStep), BarStep)
  BY <1>1, FloorFacts
<1>3. FirstBar(now, range) \in Int /\ Multiple(FirstBar(now, range), BarStep)
  <2>1. Multiple(FloorTo(now - range, BarStep) + BarStep, BarStep)
    BY <1>2, MultipleOne, MultipleSum
  <2> QED
    BY <1>2, <2>1 DEF FirstBar
<1>4. CeilTo(now, BarStep) \in Int
  BY CeilFacts
<1>5. \A t \in Int : t % BarStep = 0 <=> Multiple(t, BarStep)
  <2> TAKE t \in Int
  <2>1. t - 0 = t /\ 0 \in 0..(BarStep - 1)
    OBVIOUS
  <2>2. t % BarStep = 0 <=> Multiple(t - 0, BarStep)
    BY <2>1, RestOf
  <2> QED
    BY <2>1, <2>2
<1> QED
  BY <1>3, <1>4, <1>5 DEF Bars

\* One count of the line, at most, and in its bar.
CountsLine(S, now, range, line, told) ==
  /\ \A c, d \in S : c = d
  /\ \A c \in S : /\ c.to \in Int
                  /\ line <= CeilTo(c.to, BarStep)
                  /\ line > CeilTo(c.to, BarStep) - BarStep - Minute
  /\ line > FirstBar(now, range) - BarStep =>
       ((\E c \in S : CeilTo(c.to, BarStep) \in Bars(now, range)) <=> told)

LEMMA ChartFrom ==
  ASSUME NEW now, NEW range, NEW line, NEW whole \in BOOLEAN, NEW from, NEW S,
         NEW told \in BOOLEAN, told <=> whole \/ line <= from,
         CountsLine(S, now, range, line, told),
         chart' = [now |-> now, range |-> range, line |-> line, first |-> FirstBar(now, range),
                   whole |-> whole, from |-> from, at |-> Added(S, now, range)]
  PROVE  CountedOnce'
<1> DEFINE In(c) == [read |-> c.read, bar |-> CeilTo(c.to, BarStep)]
<1>1. /\ chart'.line = line /\ chart'.first = FirstBar(now, range) /\ chart'.whole = whole
      /\ chart'.from = from /\ chart'.at = Added(S, now, range)
  OBVIOUS
<1>2. Added(S, now, range) = {x \in {In(c) : c \in S} : x.bar \in Bars(now, range)}
  BY DEF Added
<1>3. Cardinality(chart'.at) <= 1
  <2>1. CASE chart'.at = {}
    BY <2>1, FS_EmptySet
  <2>2. CASE chart'.at # {}
    <3>1. PICK x \in chart'.at : TRUE
      BY <2>2
    <3>2. chart'.at = {x}
      BY <1>1, <1>2, <3>1 DEF CountsLine
    <3>3. Cardinality({x}) = 1
      BY FS_Singleton
    <3> QED
      BY <3>2, <3>3
  <2> QED
    BY <2>1, <2>2
<1>4. line > FirstBar(now, range) - BarStep => (chart'.at # {} <=> whole \/ line <= from)
  <2>1. chart'.at # {} <=> \E c \in S : CeilTo(c.to, BarStep) \in Bars(now, range)
    <3>1. ASSUME NEW c \in S, CeilTo(c.to, BarStep) \in Bars(now, range) PROVE In(c) \in chart'.at
      BY <1>1, <1>2, <3>1
    <3>2. ASSUME NEW x \in chart'.at
          PROVE  \E c \in S : CeilTo(c.to, BarStep) \in Bars(now, range)
      BY <1>1, <1>2, <3>2
    <3> HIDE DEF In
    <3> QED
      BY <3>1, <3>2
  <2> QED
    BY <2>1 DEF CountsLine
<1>5. \A x \in chart'.at : line <= x.bar /\ line > x.bar - BarStep - Minute
  BY <1>1, <1>2 DEF CountsLine
<1> QED
  BY <1>1, <1>3, <1>4, <1>5 DEF CountedOnce

-----------------------------------------------------------------------------
(* A chart from the logs alone. *)

LEMMA LogsOnce ==
  ASSUME NEW now \in Nat, NEW range \in Nat, NEW line \in Int, line <= now,
         ReadFromLogs(now, range, line)
  PROVE  CountedOnce'
<1> DEFINE S == Seen(LogReads(now, range), line)
           F == LastFull(now)
           B == FirstBar(now, range)
           C == CeilTo(now, BarStep)
<1> USE ChartConstants
<1>1. /\ F \in Int /\ Multiple(F, BarStep) /\ F <= now /\ now < F + BarStep
      /\ C \in Int /\ Multiple(C, BarStep) /\ now <= C /\ C < now + BarStep
  BY FloorFacts, CeilFacts DEF LastFull
<1>2. /\ B \in Int /\ Multiple(B, BarStep)
      /\ \A t : t \in Bars(now, range) <=>
           t \in Int /\ Multiple(t, BarStep) /\ B <= t /\ t <= C
  BY BarsAre
<1>3. F + BarStep \in Int /\ Multiple(F + BarStep, BarStep) /\ B <= F + BarStep
  <2>1. Multiple(F + BarStep, BarStep)
    BY <1>1, MultipleOne, MultipleSum
  <2>2. /\ FloorTo(now - range, BarStep) \in Int /\ FloorTo(now - range, BarStep) <= now - range
        /\ Multiple(FloorTo(now - range, BarStep), BarStep) /\ now - range \in Int
    <3>1. now - range \in Int
      OBVIOUS
    <3> QED
      BY <3>1, FloorFacts
  <2>3. ~(F < FloorTo(now - range, BarStep))
    <3> SUFFICES ASSUME F < FloorTo(now - range, BarStep) PROVE FALSE
      OBVIOUS
    <3>1. F + BarStep <= FloorTo(now - range, BarStep)
      BY <1>1, <2>2, MultipleNext
    <3> QED
      BY <1>1, <2>2, <3>1
  <2> QED
    BY <1>1, <2>1, <2>2, <2>3 DEF FirstBar
<1>4. ASSUME NEW c \in S
      PROVE  \/ /\ c.to \in Bars(now, range) /\ c.to <= F /\ c.to - BarStep < line /\ line <= c.to
                /\ c = Counts("bar", c.to, BarStep)
             \/ /\ now > F /\ c = Counts("filling", now, now - F) /\ F < line /\ c.to = now
  <2>1. CASE \E t \in Bars(now, range) : t <= F /\ c = Counts("bar", t, BarStep)
    BY <2>1 DEF Seen, Counts
  <2>2. CASE now > F /\ c = Counts("filling", now, now - F)
    BY <1>1, <2>2 DEF Seen, Counts
  <2> QED
    BY <2>1, <2>2 DEF Seen, LogReads
<1>5. ASSUME NEW c \in S, c.to \in Bars(now, range)
      PROVE  CeilTo(c.to, BarStep) = c.to
  BY <1>2, <1>5, CeilIs
<1>6. now > F => CeilTo(now, BarStep) = F + BarStep
  BY <1>1, <1>3, CeilIs
<1> HIDE DEF F, B, C
<1>7. \A c, d \in S : c = d
  <2> TAKE c, d \in S
  <2>1. ASSUME NEW s \in Bars(now, range), NEW t \in Bars(now, range), s - BarStep < line, line <= s,
               t - BarStep < line, line <= t
        PROVE  s = t
    <3>1. s \in Int /\ t \in Int /\ CeilTo(line, BarStep) = s /\ CeilTo(line, BarStep) = t
      BY <1>2, <2>1, CeilIs
    <3> QED
      BY <3>1
  <2>2. /\ c.to \in Bars(now, range) => c.to \in Int
        /\ d.to \in Bars(now, range) => d.to \in Int
    BY <1>2
  <2>3. CASE c.to \in Bars(now, range) /\ c.to <= F /\ c.to - BarStep < line /\ line <= c.to
             /\ c = Counts("bar", c.to, BarStep)
    BY <1>1, <1>4, <2>1, <2>2, <2>3
  <2>4. CASE now > F /\ c = Counts("filling", now, now - F) /\ F < line /\ c.to = now
    BY <1>1, <1>4, <2>2, <2>4
  <2> QED
    BY <1>4, <2>3, <2>4
<1>8. ASSUME NEW c \in S
      PROVE  /\ c.to \in Int /\ line <= CeilTo(c.to, BarStep)
             /\ line > CeilTo(c.to, BarStep) - BarStep - Minute
  BY <1>1, <1>2, <1>4, <1>5, <1>6
<1>9. ASSUME line > B - BarStep
      PROVE  \E c \in S : CeilTo(c.to, BarStep) \in Bars(now, range)
  <2>1. CASE line > F
    <3> DEFINE c == Counts("filling", now, now - F)
    <3>1. now > F
      BY <1>1, <2>1
    <3>2. c \in S /\ c.to = now
      <4>1. c \in LogReads(now, range) /\ c.to = now /\ c.long = now - F
        BY <3>1 DEF LogReads, F, Counts
      <4>2. now - (now - F) < line
        BY <1>1, <2>1
      <4> HIDE DEF c
      <4> QED
        BY <4>1, <4>2 DEF Seen
    <3>3. F + BarStep \in Bars(now, range)
      BY <1>1, <1>2, <1>3, <1>6, <3>1 DEF C
    <3> HIDE DEF c
    <3> QED
      BY <1>6, <3>1, <3>2, <3>3
  <2>2. CASE ~(line > F)
    <3> DEFINE t == CeilTo(line, BarStep)
               c == Counts("bar", t, BarStep)
    <3>1. t \in Int /\ Multiple(t, BarStep) /\ line <= t /\ t < line + BarStep
      BY CeilFacts
    <3> HIDE DEF t
    <3>2. ~(F < t)
      <4> SUFFICES ASSUME F < t PROVE FALSE
        OBVIOUS
      <4>1. F + BarStep <= t
        BY <1>1, <3>1, MultipleNext
      <4> QED
        BY <1>1, <2>2, <3>1, <4>1
    <3>3. ~(t < B)
      <4> SUFFICES ASSUME t < B PROVE FALSE
        OBVIOUS
      <4>1. t + BarStep <= B
        BY <1>2, <3>1, MultipleNext
      <4> QED
        BY <1>2, <1>9, <3>1, <4>1
    <3>4. t \in Bars(now, range) /\ t <= F
      BY <1>1, <1>2, <3>1, <3>2, <3>3
    <3>5. c \in S /\ c.to = t
      <4>1. c \in LogReads(now, range) /\ c.to = t /\ c.long = BarStep
        BY <3>4 DEF LogReads, F, Counts
      <4>2. t - BarStep < line
        BY <3>1
      <4> HIDE DEF c
      <4> QED
        BY <3>1, <4>1, <4>2 DEF Seen
    <3> HIDE DEF c
    <3> QED
      BY <1>5, <3>4, <3>5
  <2> QED
    BY <2>1, <2>2
<1> DEFINE told == TRUE
<1>10. CountsLine(S, now, range, line, told)
  BY <1>7, <1>8, <1>9 DEF CountsLine, B
<1>11. chart' = [now |-> now, range |-> range, line |-> line, first |-> FirstBar(now, range),
                 whole |-> told, from |-> 0, at |-> Added(S, now, range)]
  BY DEF ReadFromLogs
<1>12. told \in BOOLEAN /\ told
  OBVIOUS
<1> HIDE DEF told, S
<1> QED
  BY <1>10, <1>11, <1>12, ChartFrom

-----------------------------------------------------------------------------
(* A chart from the store's samples, and from the logs after them. *)

\* The line's sample is the one evaluation in the minute that counts it.
LEMMA SampleIs ==
  ASSUME NEW line \in Int, NEW phase \in 0..(Minute - 1), NEW s, s = SampleOf(line, phase)
  PROVE  /\ s \in Int /\ line + Shift <= s /\ s <= line + Shift + Minute - 1
         /\ Multiple(s - phase, Minute)
<1> USE ChartConstants
<1> DEFINE a == line + Shift
           e == CeilTo(a - phase, Minute) + phase
<1>1. a \in Int /\ phase \in Int /\ a - phase \in Int
  OBVIOUS
<1>2. /\ CeilTo(a - phase, Minute) \in Int /\ Multiple(CeilTo(a - phase, Minute), Minute)
      /\ a - phase <= CeilTo(a - phase, Minute) /\ CeilTo(a - phase, Minute) < a - phase + Minute
  BY <1>1, CeilFacts
<1>3. e - phase = CeilTo(a - phase, Minute) /\ e \in Int /\ a <= e /\ e <= a + Minute - 1
  BY <1>1, <1>2
<1>4. e % Minute = phase
  <2>1. Multiple(e - phase, Minute)
    BY <1>2, <1>3
  <2> HIDE DEF e
  <2> QED
    BY <1>3, <2>1, RestOf
<1>5. e \in (line + Shift)..(line + Shift + Minute - 1)
  BY <1>1, <1>3
<1> HIDE DEF e
<1>6. s \in (line + Shift)..(line + Shift + Minute - 1) /\ s % Minute = phase
  BY <1>4, <1>5 DEF SampleOf
<1> QED
  BY <1>1, <1>6, RestOf

\* Where the recorded counts end: the lines up to it are those whose sample was
\* due by the time the store is read at.
LEMMA CoveredIs ==
  ASSUME NEW now \in Nat, NEW line \in Int, NEW phase \in 0..(Minute - 1), NEW s,
         s = SampleOf(line, phase), NEW written, NEW covered, covered = CoveredTo(now, written),
         \/ written = {}
         \/ \E e \in Evaluations(ReadAt(now) - Lookback, ReadAt(now), phase) : written = {e},
         s \in Evaluations(ReadAt(now) - Lookback, ReadAt(now), phase)
           => \E e \in written : e >= s
  PROVE  /\ covered \in Int /\ LagFrom(now) - Minute <= covered /\ covered <= LagFrom(now)
         /\ s <= ReadAt(now) <=> line <= covered
<1> USE ChartConstants
<1> SUFFICES ASSUME NEW l, l = LagFrom(now)
             PROVE  /\ covered \in Int /\ l - Minute <= covered /\ covered <= l
                    /\ s <= l + Shift <=> line <= covered
  BY DEF ReadAt
<1>1. l \in Int /\ ReadAt(now) = l + Shift /\ ReadAt(now) \in Int
  <2>1. now - Lag \in Int
    OBVIOUS
  <2> QED
    BY <2>1, FloorFacts DEF LagFrom, ReadAt
<1>2. /\ s \in Int /\ line + Shift <= s /\ s <= line + Shift + Minute - 1
      /\ Multiple(s - phase, Minute)
  BY SampleIs
<1>3. CASE written = {}
  <2>1. covered = l - Minute
    BY <1>3 DEF CoveredTo
  <2>2. s <= l + Shift => s <= l + Shift - Lookback
    <3> SUFFICES ASSUME s <= l + Shift, s > l + Shift - Lookback PROVE FALSE
      BY <1>1, <1>2
    <3>1. s % Minute = phase
      BY <1>2, RestOf
    <3>2. s \in (ReadAt(now) - Lookback + 1)..ReadAt(now)
      BY <1>1, <1>2
    <3> QED
      BY <1>3, <3>1, <3>2 DEF Evaluations
  <2> QED
    BY <1>1, <1>2, <2>1, <2>2
<1>4. CASE \E e \in Evaluations(ReadAt(now) - Lookback, ReadAt(now), phase) : written = {e}
  <2>1. PICK e \in Evaluations(ReadAt(now) - Lookback, ReadAt(now), phase) : written = {e}
    BY <1>4
  <2>2. e \in Int /\ e <= l + Shift /\ Multiple(e - phase, Minute)
    <3>1. e \in Int /\ e <= l + Shift /\ e % Minute = phase
      BY <1>1 DEF Evaluations
    <3> QED
      BY <3>1, RestOf
  <2>3. Max(written) = e
    BY <2>1, <2>2 DEF Max
  <2> DEFINE g == FloorTo(ReadAt(now) - e, Minute)
             f == e + g
  <2>4. covered = f - Shift
    <3>1. covered = Max(written) + FloorTo(ReadAt(now) - Max(written), Minute) - Shift
      BY <2>1 DEF CoveredTo
    <3>2. FloorTo(ReadAt(now) - Max(written), Minute) = g
      BY <2>3
    <3> HIDE DEF g
    <3>3. g \in Int /\ e \in Int /\ Shift \in Int
      <4>1. ReadAt(now) - e \in Int
        BY <1>1, <2>2
      <4> QED
        BY <2>2, <4>1, FloorFacts DEF g
    <3> QED
      BY <2>3, <3>1, <3>2, <3>3
  <2>5. /\ g \in Int /\ Multiple(g, Minute) /\ g <= l + Shift - e
        /\ l + Shift - e < g + Minute
    <3>1. ReadAt(now) - e \in Int /\ ReadAt(now) - e = l + Shift - e
      BY <1>1, <2>2
    <3>2. /\ g \in Int /\ Multiple(g, Minute) /\ g <= ReadAt(now) - e
          /\ ReadAt(now) - e < g + Minute
      BY <3>1, FloorFacts
    <3> QED
      BY <3>1, <3>2
  <2> HIDE DEF g
  <2>6. /\ f \in Int /\ f <= l + Shift /\ l + Shift < f + Minute /\ Multiple(f - phase, Minute)
    <3>1. Multiple((e - phase) + g, Minute) /\ (e - phase) + g = f - phase
      BY <2>2, <2>5, MultipleSum
    <3> QED
      BY <1>1, <2>2, <2>5, <3>1
  <2> HIDE DEF f
  <2>7. ~(f < s /\ s <= l + Shift)
    <3> SUFFICES ASSUME f < s, s <= l + Shift PROVE FALSE
      OBVIOUS
    <3>1. f - phase < s - phase /\ f - phase \in Int /\ s - phase \in Int
      BY <1>2, <2>6
    <3>2. (f - phase) + Minute <= s - phase
      BY <1>2, <2>6, <3>1, MultipleNext
    <3> QED
      BY <1>1, <1>2, <2>6, <3>2
  <2>8. s > l + Shift => f + Minute <= s
    <3> SUFFICES ASSUME s > l + Shift PROVE f + Minute <= s
      OBVIOUS
    <3>1. f - phase < s - phase /\ f - phase \in Int /\ s - phase \in Int
      BY <1>1, <1>2, <2>6
    <3>2. (f - phase) + Minute <= s - phase
      BY <1>2, <2>6, <3>1, MultipleNext
    <3> QED
      BY <1>2, <2>6, <3>2
  <2> QED
    BY <1>1, <1>2, <2>4, <2>6, <2>7, <2>8
<1> QED
  BY <1>3, <1>4

\* The bounds of the recorded part.
LEMMA RecordedTimes ==
  ASSUME NEW now \in Nat, NEW range \in Nat,
         NEW l, l = LagFrom(now), NEW w, w = LastWhole(now), NEW p, p = PartFrom(now, range),
         NEW b, b = FirstBar(now, range)
  PROVE  /\ l \in Int /\ w \in Int /\ p \in Int /\ b \in Int
         /\ Multiple(w, BarStep) /\ Multiple(p, BarStep) /\ Multiple(b, BarStep)
         /\ w <= l /\ l < w + BarStep /\ w <= p /\ b - BarStep <= p
         /\ p = w \/ p = b - BarStep
         /\ l < now /\ ReadAt(now) = l + Shift
         /\ CeilTo(now, BarStep) \in Int /\ Multiple(CeilTo(now, BarStep), BarStep)
         /\ now <= CeilTo(now, BarStep)
         /\ Multiple(p + BarStep, BarStep) /\ b <= p + BarStep
<1> USE ChartConstants
<1>1. l \in Int /\ l < now /\ ReadAt(now) = l + Shift
  <2>1. now - Lag \in Int
    OBVIOUS
  <2>2. l \in Int /\ l <= now - Lag
    BY <2>1, FloorFacts DEF LagFrom
  <2> QED
    BY <2>1, <2>2 DEF ReadAt
<1>2. w \in Int /\ Multiple(w, BarStep) /\ w <= l /\ l < w + BarStep
  BY <1>1, FloorFacts DEF LastWhole
<1>3. b \in Int /\ Multiple(b, BarStep)
  BY BarsAre
<1>4. Multiple(b - BarStep, BarStep) /\ b - BarStep \in Int
  <2>1. Multiple(BarStep, BarStep) /\ BarStep \in Int
    BY MultipleOne
  <2>2. Multiple(b - BarStep, BarStep)
    BY <1>3, <2>1, MultipleSum
  <2> QED
    BY <1>3, <2>2
<1>5. p = IF w >= b - BarStep THEN w ELSE b - BarStep
  BY <1>2, <1>4, MaxOfTwo DEF PartFrom
<1>6. /\ p \in Int /\ Multiple(p, BarStep) /\ w <= p /\ b - BarStep <= p
      /\ p = w \/ p = b - BarStep
  BY <1>2, <1>4, <1>5
<1>7. Multiple(p + BarStep, BarStep) /\ b <= p + BarStep
  <2>1. Multiple(BarStep, BarStep) /\ BarStep \in Int
    BY MultipleOne
  <2>2. Multiple(p + BarStep, BarStep)
    BY <1>6, <2>1, MultipleSum
  <2> QED
    BY <1>3, <1>6, <2>2
<1>8. /\ CeilTo(now, BarStep) \in Int /\ Multiple(CeilTo(now, BarStep), BarStep)
      /\ now <= CeilTo(now, BarStep)
  BY CeilFacts
<1> QED
  BY <1>1, <1>2, <1>3, <1>6, <1>7, <1>8

WholeCount(t) == [Counts("whole", t + Shift, BarStep) EXCEPT !.to = @ - Shift]
PartCount(now, range, covered) ==
  [Counts("part", ReadAt(now), LagFrom(now) - PartFrom(now, range)) EXCEPT
     !.to = Max({covered, PartFrom(now, range) + 1})]

LEMMA RecordedAre ==
  ASSUME NEW now \in Nat, NEW range \in Nat, NEW s \in Int, NEW covered \in Int, NEW c
  PROVE  c \in Recorded(now, range, s, covered) <=>
           \/ \E t \in Bars(now, range) : /\ t <= LastWhole(now) /\ c = WholeCount(t)
                                          /\ t + Shift - BarStep < s /\ s <= t + Shift
           \/ /\ LagFrom(now) > PartFrom(now, range) /\ c = PartCount(now, range, covered)
              /\ PartFrom(now, range) + Shift < s /\ s <= ReadAt(now)
<1> USE ChartConstants
<1>1. /\ LagFrom(now) \in Int /\ PartFrom(now, range) \in Int
      /\ ReadAt(now) = LagFrom(now) + Shift
  BY RecordedTimes
<1>2. ReadAt(now) - (LagFrom(now) - PartFrom(now, range)) = PartFrom(now, range) + Shift
  BY <1>1
<1>3. \A d : d \in Seen(WholeReads(now, range), s) <=>
        \E t \in Bars(now, range) : /\ t <= LastWhole(now) /\ d = Counts("whole", t + Shift, BarStep)
                                    /\ t + Shift - BarStep < s /\ s <= t + Shift
  <2>1. \A t : /\ Counts("whole", t + Shift, BarStep).to = t + Shift
               /\ Counts("whole", t + Shift, BarStep).long = BarStep
    BY DEF Counts
  <2>2. \A d : d \in WholeReads(now, range) <=>
          \E t \in Bars(now, range) : t <= LastWhole(now) /\ d = Counts("whole", t + Shift, BarStep)
    BY DEF WholeReads
  <2>3. \A d : d \in Seen(WholeReads(now, range), s) <=>
          d \in WholeReads(now, range) /\ d.to - d.long < s /\ s <= d.to
    BY DEF Seen
  <2>4. ASSUME NEW d, NEW t \in Bars(now, range), d = Counts("whole", t + Shift, BarStep)
        PROVE  d.to - d.long < s /\ s <= d.to <=> t + Shift - BarStep < s /\ s <= t + Shift
    <3>1. d.to = t + Shift /\ d.long = BarStep
      BY <2>1, <2>4
    <3>2. t \in Int
      BY BarsAre
    <3> QED
      BY <3>1, <3>2
  <2> QED
    BY <2>2, <2>3, <2>4
<1>4. \A d : d \in Seen(PartRead(now, range), s) <=>
        /\ LagFrom(now) > PartFrom(now, range)
        /\ d = Counts("part", ReadAt(now), LagFrom(now) - PartFrom(now, range))
        /\ PartFrom(now, range) + Shift < s /\ s <= ReadAt(now)
  BY <1>2 DEF Seen, PartRead, Counts
<1>5. c \in Recorded(now, range, s, covered) <=>
        \/ \E d \in Seen(WholeReads(now, range), s) : c = [d EXCEPT !.to = @ - Shift]
        \/ \E d \in Seen(PartRead(now, range), s) :
             c = [d EXCEPT !.to = Max({covered, PartFrom(now, range) + 1})]
  BY DEF Recorded
<1> QED
  BY <1>3, <1>4, <1>5 DEF WholeCount, PartCount

\* The recorded part counts each line up to there once, in a whole bar or in
\* the running one.
LEMMA RecordedOnce ==
  ASSUME NEW now \in Nat, NEW range \in Nat, NEW line \in Int, NEW s \in Int, NEW covered \in Int,
         line + Shift <= s, s <= line + Shift + Minute - 1,
         covered <= LagFrom(now), s <= ReadAt(now) <=> line <= covered,
         NEW told \in BOOLEAN, told <=> line <= covered
  PROVE  /\ CountsLine(Recorded(now, range, s, covered), now, range, line, told)
         /\ Recorded(now, range, s, covered) # {} => line <= covered
<1> USE ChartConstants
<1> SUFFICES ASSUME NEW l, l = LagFrom(now), NEW w, w = LastWhole(now),
                    NEW p, p = PartFrom(now, range), NEW b, b = FirstBar(now, range),
                    NEW S, S = Recorded(now, range, s, covered),
                    NEW part, part = PartCount(now, range, covered)
             PROVE  /\ CountsLine(S, now, range, line, told)
                    /\ S # {} => line <= covered
  OBVIOUS
<1>1. /\ l \in Int /\ w \in Int /\ p \in Int /\ b \in Int
      /\ Multiple(w, BarStep) /\ Multiple(p, BarStep) /\ Multiple(b, BarStep)
      /\ w <= l /\ l < w + BarStep /\ w <= p /\ b - BarStep <= p
      /\ p = w \/ p = b - BarStep
      /\ l < now /\ ReadAt(now) = l + Shift
      /\ CeilTo(now, BarStep) \in Int /\ Multiple(CeilTo(now, BarStep), BarStep)
      /\ now <= CeilTo(now, BarStep)
      /\ Multiple(p + BarStep, BarStep) /\ b <= p + BarStep
  BY RecordedTimes
<1>2. \A t : t \in Bars(now, range) <=>
        t \in Int /\ Multiple(t, BarStep) /\ b <= t /\ t <= CeilTo(now, BarStep)
  BY BarsAre
<1>3. \A c : c \in S <=>
        \/ \E t \in Bars(now, range) : /\ t <= w /\ c = WholeCount(t)
                                       /\ t + Shift - BarStep < s /\ s <= t + Shift
        \/ l > p /\ c = part /\ p + Shift < s /\ s <= l + Shift
  BY <1>1, RecordedAre
<1>4. \A t \in Bars(now, range) : WholeCount(t).to = t /\ CeilTo(WholeCount(t).to, BarStep) = t
  <2> TAKE t \in Bars(now, range)
  <2>1. t \in Int /\ WholeCount(t).to = t
    BY <1>2 DEF WholeCount, Counts
  <2> QED
    BY <1>2, <2>1, CeilIs
<1>5. l > p => part.to \in Int /\ CeilTo(part.to, BarStep) = p + BarStep
  <2> SUFFICES ASSUME l > p PROVE part.to \in Int /\ CeilTo(part.to, BarStep) = p + BarStep
    OBVIOUS
  <2>1. part.to = Max({covered, p + 1})
    BY DEF PartCount, Counts
  <2>2. part.to = IF covered >= p + 1 THEN covered ELSE p + 1
    BY <1>1, <2>1, MaxOfTwo
  <2>3. part.to \in Int /\ p < part.to /\ part.to <= p + BarStep
    BY <1>1, <2>2
  <2> QED
    BY <1>1, <2>3, CeilIs
<1>6. \A c, d \in S : c = d
  <2> TAKE c, d \in S
  <2>1. ASSUME NEW t \in Bars(now, range), NEW u \in Bars(now, range),
               t + Shift - BarStep < s, s <= t + Shift, u + Shift - BarStep < s, s <= u + Shift
        PROVE  t = u
    <3>1. t \in Int /\ u \in Int /\ s - Shift \in Int /\ Multiple(t, BarStep) /\ Multiple(u, BarStep)
      BY <1>2
    <3>2. /\ s - Shift <= t /\ t < s - Shift + BarStep /\ s - Shift <= u /\ u < s - Shift + BarStep
      BY <2>1, <3>1
    <3>3. CeilTo(s - Shift, BarStep) = t /\ CeilTo(s - Shift, BarStep) = u
      BY <3>1, <3>2, CeilIs
    <3> QED
      BY <3>3
  <2>2. ASSUME NEW t \in Bars(now, range), t <= w, s <= t + Shift PROVE ~(p + Shift < s)
    <3>1. t \in Int
      BY <1>2
    <3> QED
      BY <1>1, <2>2, <3>1
  <2>3. CASE \E t \in Bars(now, range) : /\ t <= w /\ c = WholeCount(t)
                                         /\ t + Shift - BarStep < s /\ s <= t + Shift
    BY <1>3, <2>1, <2>2, <2>3
  <2>4. CASE l > p /\ c = part /\ p + Shift < s /\ s <= l + Shift
    BY <1>3, <2>2, <2>4
  <2> QED
    BY <1>3, <2>3, <2>4
<1>7. ASSUME NEW c \in S
      PROVE  /\ c.to \in Int /\ line <= CeilTo(c.to, BarStep)
             /\ line > CeilTo(c.to, BarStep) - BarStep - Minute
             /\ line <= covered
  <2> DEFINE Fits == /\ c.to \in Int /\ line <= CeilTo(c.to, BarStep)
                     /\ line > CeilTo(c.to, BarStep) - BarStep - Minute
                     /\ line <= covered
  <2>1. ASSUME NEW t \in Bars(now, range), t <= w, c = WholeCount(t),
               t + Shift - BarStep < s, s <= t + Shift
        PROVE  Fits
    <3>1. t \in Int /\ c.to = t /\ CeilTo(c.to, BarStep) = t
      BY <1>2, <1>4, <2>1
    <3>2. line <= t /\ line > t - BarStep - Minute
      BY <2>1, <3>1
    <3>3. line <= covered
      <4>1. s <= ReadAt(now)
        BY <1>1, <2>1, <3>1
      <4> QED
        BY <4>1
    <3> QED
      BY <3>1, <3>2, <3>3
  <2>2. CASE l > p /\ c = part /\ p + Shift < s /\ s <= l + Shift
    <3>1. c.to \in Int /\ CeilTo(c.to, BarStep) = p + BarStep
      BY <1>5, <2>2
    <3>2. line <= covered
      BY <1>1, <2>2
    <3>3. \A u \in Int : u = p + BarStep => line <= u /\ line > u - BarStep - Minute
      BY <1>1, <2>2, <3>2
    <3>4. CeilTo(c.to, BarStep) \in Int
      BY <1>1, <3>1
    <3> QED
      BY <3>1, <3>2, <3>3, <3>4
  <2> QED
    BY <1>3, <2>1, <2>2
<1>8. ASSUME line > b - BarStep, line <= covered
      PROVE  \E c \in S : CeilTo(c.to, BarStep) \in Bars(now, range)
  <2>1. s <= l + Shift /\ s > b - BarStep + Shift
    BY <1>1, <1>8
  <2>2. CASE s <= w + Shift
    <3> DEFINE t == CeilTo(s - Shift, BarStep)
    <3>1. s - Shift \in Int
      OBVIOUS
    <3>2. t \in Int /\ Multiple(t, BarStep) /\ s - Shift <= t /\ t < s - Shift + BarStep
      BY <3>1, CeilFacts
    <3> HIDE DEF t
    <3>3. ~(w < t)
      <4> SUFFICES ASSUME w < t PROVE FALSE
        OBVIOUS
      <4>1. w + BarStep <= t
        BY <1>1, <3>2, MultipleNext
      <4> QED
        BY <1>1, <2>2, <3>2, <4>1
    <3>4. ~(t < b)
      <4> SUFFICES ASSUME t < b PROVE FALSE
        OBVIOUS
      <4>1. t + BarStep <= b
        BY <1>1, <3>2, MultipleNext
      <4> QED
        BY <1>1, <2>1, <3>2, <4>1
    <3>5. t \in Bars(now, range) /\ t <= w
      BY <1>1, <1>2, <3>2, <3>3, <3>4
    <3>6. WholeCount(t) \in S
      BY <1>3, <3>2, <3>5
    <3> QED
      BY <1>4, <3>5, <3>6
  <2>3. CASE ~(s <= w + Shift)
    <3>1. s > p + Shift /\ l > p
      BY <1>1, <2>1, <2>3
    <3>2. part \in S
      BY <1>3, <2>1, <3>1
    <3>3. p + BarStep \in Bars(now, range)
      <4>1. p < CeilTo(now, BarStep)
        BY <1>1, <3>1
      <4>2. p + BarStep <= CeilTo(now, BarStep)
        BY <1>1, <4>1, MultipleNext
      <4> QED
        BY <1>1, <1>2, <4>2
    <3> QED
      BY <1>5, <3>1, <3>2, <3>3
  <2> QED
    BY <2>2, <2>3
<1>9. CountsLine(S, now, range, line, told)
  BY <1>6, <1>7, <1>8 DEF CountsLine
<1> QED
  BY <1>7, <1>9

\* The logs count each line after it once, in one minute or in what is left.
LEMMA TailOnce ==
  ASSUME NEW now \in Nat, NEW range \in Nat, NEW line \in Int, NEW covered \in Int,
         covered <= now, line <= now,
         NEW told \in BOOLEAN, told <=> line > covered
  PROVE  /\ CountsLine(Seen(TailReads(covered, now), line), now, range, line, told)
         /\ Seen(TailReads(covered, now), line) # {} => line > covered
<1> USE ChartConstants
<1> SUFFICES ASSUME NEW m, m = LastMinute(covered, now), NEW b, b = FirstBar(now, range),
                    NEW S, S = Seen(TailReads(covered, now), line),
                    NEW rest, rest = Counts("running", now, now - m)
             PROVE  CountsLine(S, now, range, line, told) /\ (S # {} => line > covered)
  OBVIOUS
<1>1. /\ m \in Int /\ covered <= m /\ m <= now /\ now < m + Minute
      /\ Multiple(m - covered, Minute)
  <2>1. now - covered \in Int
    OBVIOUS
  <2>2. /\ FloorTo(now - covered, Minute) \in Int /\ Multiple(FloorTo(now - covered, Minute), Minute)
        /\ FloorTo(now - covered, Minute) <= now - covered
        /\ now - covered < FloorTo(now - covered, Minute) + Minute
    BY <2>1, FloorFacts
  <2>3. m - covered = FloorTo(now - covered, Minute) /\ m \in Int
    BY <2>2 DEF LastMinute
  <2>4. ~(m - covered < 0)
    <3> SUFFICES ASSUME m - covered < 0 PROVE FALSE
      OBVIOUS
    <3>1. (m - covered) + Minute <= 0
      BY <2>2, <2>3, MultipleOne, MultipleNext
    <3> QED
      BY <2>2, <2>3, <3>1
  <2> QED
    BY <2>2, <2>3, <2>4
<1>2. /\ b \in Int /\ Multiple(b, BarStep)
      /\ \A t : t \in Bars(now, range) <=>
           t \in Int /\ Multiple(t, BarStep) /\ b <= t /\ t <= CeilTo(now, BarStep)
  BY BarsAre
<1>3. \A c : c \in S <=>
        \/ \E t \in Int : /\ covered + Minute <= t /\ t <= m /\ Multiple(t - covered, Minute)
                          /\ c = Counts("minute", t, Minute) /\ t - Minute < line /\ line <= t
        \/ now > m /\ c = rest /\ m < line
  <2>1. \A t \in Int : (t - covered) % Minute = 0 <=> Multiple(t - covered, Minute)
    <3> TAKE t \in Int
    <3>1. t - covered \in Int /\ (t - covered) - 0 = t - covered /\ 0 \in 0..(Minute - 1)
      OBVIOUS
    <3>2. (t - covered) % Minute = 0 <=> Multiple((t - covered) - 0, Minute)
      BY <3>1, RestOf
    <3> QED
      BY <3>1, <3>2
  <2>2. \A c : c \in TailReads(covered, now) <=>
          \/ \E t \in Int : /\ covered + Minute <= t /\ t <= m /\ Multiple(t - covered, Minute)
                            /\ c = Counts("minute", t, Minute)
          \/ now > m /\ c = rest
    BY <1>1, <2>1 DEF TailReads
  <2>3. rest.to = now /\ now - rest.long = m
    BY <1>1 DEF Counts
  <2>4. \A t \in Int : Counts("minute", t, Minute).to = t /\ Counts("minute", t, Minute).long = Minute
    BY DEF Counts
  <2> QED
    BY <2>2, <2>3, <2>4 DEF Seen
<1>4. \A t \in Int : /\ Counts("minute", t, Minute).to = t /\ CeilTo(t, BarStep) \in Int
                     /\ Multiple(CeilTo(t, BarStep), BarStep)
                     /\ t <= CeilTo(t, BarStep) /\ CeilTo(t, BarStep) < t + BarStep
  BY CeilFacts DEF Counts
<1>5. rest.to = now
  BY DEF Counts
<1>6. \A c, d \in S : c = d
  <2> TAKE c, d \in S
  <2>1. ASSUME NEW t \in Int, NEW u \in Int, Multiple(t - covered, Minute), Multiple(u - covered, Minute),
               t - Minute < line, line <= t, u - Minute < line, line <= u
        PROVE  t = u
    <3>1. line - covered \in Int /\ t - covered \in Int /\ u - covered \in Int
      OBVIOUS
    <3>2. /\ line - covered <= t - covered /\ t - covered < (line - covered) + Minute
          /\ line - covered <= u - covered /\ u - covered < (line - covered) + Minute
      BY <2>1
    <3>3. CeilTo(line - covered, Minute) = t - covered /\ CeilTo(line - covered, Minute) = u - covered
      BY <2>1, <3>1, <3>2, CeilIs
    <3> QED
      BY <3>1, <3>3
  <2>2. CASE \E t \in Int : /\ covered + Minute <= t /\ t <= m /\ Multiple(t - covered, Minute)
                            /\ c = Counts("minute", t, Minute) /\ t - Minute < line /\ line <= t
    <3>1. PICK t \in Int : /\ covered + Minute <= t /\ t <= m /\ Multiple(t - covered, Minute)
                           /\ c = Counts("minute", t, Minute) /\ t - Minute < line /\ line <= t
      BY <2>2
    <3>2. ~(m < line)
      BY <1>1, <3>1
    <3> QED
      BY <1>3, <2>1, <3>1, <3>2
  <2>3. CASE now > m /\ c = rest /\ m < line
    <3>1. \A t \in Int : t <= m => ~(line <= t)
      BY <1>1, <2>3
    <3> QED
      BY <1>3, <2>3, <3>1
  <2> QED
    BY <1>3, <2>2, <2>3
<1>7. ASSUME NEW c \in S
      PROVE  /\ c.to \in Int /\ line <= c.to /\ c.to <= now /\ line > covered
             /\ line <= CeilTo(c.to, BarStep)
             /\ line > CeilTo(c.to, BarStep) - BarStep - Minute
  <2>1. c.to \in Int /\ line <= c.to /\ c.to <= now /\ line > covered /\ c.to - Minute < line
    <3>1. ASSUME NEW t \in Int, covered + Minute <= t, t <= m, c = Counts("minute", t, Minute),
                 t - Minute < line, line <= t
          PROVE  /\ c.to \in Int /\ line <= c.to /\ c.to <= now /\ line > covered
                 /\ c.to - Minute < line
      <4>1. c.to = t
        BY <1>4, <3>1
      <4> QED
        BY <1>1, <3>1, <4>1
    <3>2. CASE now > m /\ c = rest /\ m < line
      BY <1>1, <1>5, <3>2
    <3> QED
      BY <1>3, <3>1, <3>2
  <2>2. /\ CeilTo(c.to, BarStep) \in Int /\ c.to <= CeilTo(c.to, BarStep)
        /\ CeilTo(c.to, BarStep) < c.to + BarStep
    BY <1>4, <2>1
  <2> QED
    BY <2>1, <2>2
<1>8. ASSUME line > b - BarStep, line > covered
      PROVE  \E c \in S : CeilTo(c.to, BarStep) \in Bars(now, range)
  <2>1. \E c \in S : TRUE
    <3>1. CASE line > m
      BY <1>1, <1>3, <3>1
    <3>2. CASE ~(line > m)
      <4> DEFINE t == covered + CeilTo(line - covered, Minute)
                 k == CeilTo(line - covered, Minute)
      <4>1. line - covered \in Int
        OBVIOUS
      <4>2. /\ k \in Int /\ Multiple(k, Minute) /\ line - covered <= k /\ k < line - covered + Minute
        BY <4>1, CeilFacts
      <4> HIDE DEF k
      <4>3. Minute <= k
        <5>1. k > 0
          BY <1>8, <4>2
        <5> QED
          BY <4>2, <5>1, MultipleFrom
      <4>4. ~(m - covered < k)
        <5> SUFFICES ASSUME m - covered < k PROVE FALSE
          OBVIOUS
        <5>1. (m - covered) + Minute <= k
          BY <1>1, <4>2, MultipleNext
        <5> QED
          BY <1>1, <3>2, <4>2, <5>1
      <4>5. covered + k \in Int /\ (covered + k) - covered = k
        BY <4>2
      <4>6. Counts("minute", covered + k, Minute) \in S
        BY <1>1, <1>3, <4>2, <4>3, <4>4, <4>5
      <4> QED
        BY <4>6
    <3> QED
      BY <3>1, <3>2
  <2>2. PICK c \in S : TRUE
    BY <2>1
  <2>3. c.to \in Int /\ line <= c.to /\ c.to <= now
    BY <1>7
  <2> DEFINE u == CeilTo(c.to, BarStep)
             e == CeilTo(now, BarStep)
  <2>4. /\ u \in Int /\ Multiple(u, BarStep) /\ c.to <= u /\ u < c.to + BarStep
        /\ e \in Int /\ Multiple(e, BarStep) /\ now <= e
    <3>1. /\ u \in Int /\ Multiple(u, BarStep) /\ c.to <= u /\ u < c.to + BarStep
      BY <2>3, CeilFacts
    <3>2. now \in Int
      OBVIOUS
    <3>3. e \in Int /\ Multiple(e, BarStep) /\ now <= e
      BY <3>2, CeilFacts
    <3> QED
      BY <3>1, <3>3
  <2> HIDE DEF u, e
  <2>5. ~(u < b)
    <3> SUFFICES ASSUME u < b PROVE FALSE
      OBVIOUS
    <3>1. u + BarStep <= b
      BY <1>2, <2>4, MultipleNext
    <3> QED
      BY <1>2, <1>8, <2>3, <2>4, <3>1
  <2>6. ~(e < u)
    <3> SUFFICES ASSUME e < u PROVE FALSE
      OBVIOUS
    <3>1. e + BarStep <= u
      BY <2>4, MultipleNext
    <3> QED
      BY <2>3, <2>4, <3>1
  <2>7. u \in Bars(now, range)
    BY <1>2, <2>4, <2>5, <2>6 DEF e
  <2> QED
    BY <2>7 DEF u
<1>9. CountsLine(S, now, range, line, told)
  BY <1>6, <1>7, <1>8 DEF CountsLine
<1> QED
  BY <1>7, <1>9

\* A chart of the store's samples and the logs after them counts a line in one
\* of the two.
LEMMA StoreOnce ==
  ASSUME NEW now \in Nat, NEW range \in Nat, NEW line \in Int, line <= now,
         NEW phase \in 0..(Minute - 1), NEW tail \in BOOLEAN, NEW written,
         \/ written = {}
         \/ \E e \in Evaluations(ReadAt(now) - Lookback, ReadAt(now), phase) : written = {e},
         ReadFromStore(now, range, line, phase, written, tail)
  PROVE  CountedOnce'
<1> USE ChartConstants
<1> SUFFICES ASSUME NEW s, s = SampleOf(line, phase),
                    NEW covered, covered = CoveredTo(now, written),
                    NEW R, R = Recorded(now, range, s, covered),
                    NEW T, T = Seen(TailReads(covered, now), line)
             PROVE  CountedOnce'
  OBVIOUS
<1> DEFINE L == IF tail THEN T ELSE {}
<1>1. /\ s \in Evaluations(ReadAt(now) - Lookback, ReadAt(now), phase) => \E e \in written : e >= s
      /\ chart' = [now |-> now, range |-> range, line |-> line, first |-> FirstBar(now, range),
                   whole |-> tail, from |-> covered, at |-> Added(R \cup L, now, range)]
  BY DEF ReadFromStore
<1>2. s \in Int /\ line + Shift <= s /\ s <= line + Shift + Minute - 1
  BY SampleIs
<1>3. /\ covered \in Int /\ covered <= LagFrom(now)
      /\ s <= ReadAt(now) <=> line <= covered
  BY <1>1, CoveredIs
<1>4. covered <= now
  BY <1>3, RecordedTimes
<1> DEFINE early == line <= covered
           late  == line > covered
<1>5. early \in BOOLEAN /\ late \in BOOLEAN /\ (late <=> ~early)
  BY <1>3
<1>6. CountsLine(R, now, range, line, early) /\ (R # {} => early)
  <2>1. early <=> line <= covered
    OBVIOUS
  <2> HIDE DEF early
  <2> QED
    BY <1>2, <1>3, <1>5, <2>1, RecordedOnce
<1>7. CountsLine(T, now, range, line, late) /\ (T # {} => late)
  <2>1. late <=> line > covered
    OBVIOUS
  <2> HIDE DEF late
  <2> QED
    BY <1>3, <1>4, <1>5, <2>1, TailOnce
<1> DEFINE S == R \cup L
           told == tail \/ line <= covered
<1>8. CountsLine(S, now, range, line, told)
  <2>1. told <=> tail \/ early
    OBVIOUS
  <2> HIDE DEF early, late, told
  <2>2. CASE early
    <3>1. S = R
      BY <1>5, <1>7, <2>2
    <3> QED
      BY <1>6, <2>1, <2>2, <3>1 DEF CountsLine
  <2>3. CASE ~early /\ tail
    <3>1. S = T
      BY <1>6, <2>3
    <3> QED
      BY <1>5, <1>7, <2>1, <2>3, <3>1 DEF CountsLine
  <2>4. CASE ~early /\ ~tail
    <3>1. S = {}
      BY <1>6, <2>4
    <3> QED
      BY <2>1, <2>4, <3>1 DEF CountsLine
  <2> QED
    BY <2>2, <2>3, <2>4
<1>9. told \in BOOLEAN /\ (told <=> tail \/ line <= covered)
  OBVIOUS
<1>10. chart' = [now |-> now, range |-> range, line |-> line, first |-> FirstBar(now, range),
                 whole |-> tail, from |-> covered, at |-> Added(S, now, range)]
  BY <1>1
<1> HIDE DEF told, S
<1> QED
  BY <1>8, <1>9, <1>10, ChartFrom

\* A chart of transactions counts each line of its window once, whatever minute
\* and second it is read at, whatever second the ruler evaluates at and whether
\* or not it wrote lately, for any interval, shift, lookback and bar that fit
\* together (transactions-over-time.ts: readRecorded, readTail, readLogs).
THEOREM LinesCountedOnce == ChartSpec => []CountedOnce
<1>1. ChartInit => CountedOnce
  BY DEF ChartInit, CountedOnce
<1>2. CountedOnce /\ [ChartNext]_chart => CountedOnce'
  <2> SUFFICES ASSUME CountedOnce, [ChartNext]_chart PROVE CountedOnce'
    OBVIOUS
  <2>1. CASE UNCHANGED chart
    BY <2>1 DEF CountedOnce
  <2>2. CASE ChartNext
    <3>1. PICK now \in ChartTimes, range \in Ranges :
            \E line \in (now - range - BarStep)..now :
              \/ \E phase \in 0..(Minute - 1), tail \in BOOLEAN :
                 \E written \in {{}} \cup {{e} : e \in Evaluations(ReadAt(now) - Lookback, ReadAt(now), phase)} :
                   ReadFromStore(now, range, line, phase, written, tail)
              \/ ReadFromLogs(now, range, line)
      BY <2>2 DEF ChartNext
    <3>2. now \in Nat /\ range \in Nat
      BY ChartAssumption
    <3>3. PICK line \in (now - range - BarStep)..now :
            \/ \E phase \in 0..(Minute - 1), tail \in BOOLEAN :
               \E written \in {{}} \cup {{e} : e \in Evaluations(ReadAt(now) - Lookback, ReadAt(now), phase)} :
                 ReadFromStore(now, range, line, phase, written, tail)
            \/ ReadFromLogs(now, range, line)
      BY <3>1
    <3>4. line \in Int /\ line <= now
      BY <3>2, ChartConstants
    <3>5. CASE ReadFromLogs(now, range, line)
      BY <3>2, <3>4, <3>5, LogsOnce
    <3>6. CASE \E phase \in 0..(Minute - 1), tail \in BOOLEAN :
               \E written \in {{}} \cup {{e} : e \in Evaluations(ReadAt(now) - Lookback, ReadAt(now), phase)} :
                 ReadFromStore(now, range, line, phase, written, tail)
      <4>1. PICK phase \in 0..(Minute - 1), tail \in BOOLEAN :
               \E written \in {{}} \cup {{e} : e \in Evaluations(ReadAt(now) - Lookback, ReadAt(now), phase)} :
                 ReadFromStore(now, range, line, phase, written, tail)
        BY <3>6
      <4>2. PICK written \in {{}} \cup {{e} : e \in Evaluations(ReadAt(now) - Lookback, ReadAt(now), phase)} :
               ReadFromStore(now, range, line, phase, written, tail)
        BY <4>1
      <4>3. \/ written = {}
            \/ \E e \in Evaluations(ReadAt(now) - Lookback, ReadAt(now), phase) : written = {e}
        OBVIOUS
      <4> QED
        BY <3>2, <3>4, <4>2, <4>3, StoreOnce
    <3> QED
      BY <3>3, <3>5, <3>6
  <2> QED
    BY <2>1, <2>2
<1> QED
  BY <1>1, <1>2, PTL DEF ChartSpec

-----------------------------------------------------------------------------
(* The lists: the newest of a set. *)

LEMMA Uppermost ==
  ASSUME NEW S \in SUBSET Int, S # {}, NEW u \in Int, \A k \in S : k <= u
  PROVE  Highest(S) \in S /\ \A k \in S : k <= Highest(S)
<1> DEFINE T == {u - k : k \in S}
<1>1. T \in SUBSET Nat /\ T # {}
  <2>1. \A k \in S : k \in Int /\ u - k \in Nat
    OBVIOUS
  <2> QED
    BY <2>1
<1>2. PICK l \in T : \A k \in T : ~ (<<k, l>> \in {p \in Nat \X Nat : p[1] < p[2]})
  <2> HIDE DEF T
  <2> QED
    BY <1>1, ViewerNatWF, WFMin
<1>3. ASSUME NEW k \in T PROVE l <= k
  <2>1. <<k, l>> \notin {p \in Nat \X Nat : p[1] < p[2]}
    BY <1>2
  <2>2. k \in Nat /\ l \in Nat
    BY <1>1
  <2>3. <<k, l>> \in Nat \X Nat /\ <<k, l>>[1] = k /\ <<k, l>>[2] = l
    BY <2>2
  <2>4. ~ (k < l)
    BY <2>1, <2>3
  <2> QED
    BY <2>2, <2>4
<1>4. PICK m \in S : l = u - m
  OBVIOUS
<1>5. \A k \in S : k <= m
  <2> TAKE k \in S
  <2>1. u - k \in T /\ k \in Int /\ m \in Int
    OBVIOUS
  <2>2. l <= u - k
    BY <1>3, <2>1
  <2> QED
    BY <1>4, <2>1, <2>2
<1> QED
  BY <1>5 DEF Highest

LEMMA Lowermost ==
  ASSUME NEW S \in SUBSET Nat, S # {}
  PROVE  Lowest(S) \in S /\ \A k \in S : Lowest(S) <= k
<1>1. PICK l \in S : \A k \in S : ~ (<<k, l>> \in {p \in Nat \X Nat : p[1] < p[2]})
  BY ViewerNatWF, WFMin
<1>2. ASSUME NEW k \in S PROVE l <= k
  <2>1. <<k, l>> \notin {p \in Nat \X Nat : p[1] < p[2]}
    BY <1>1
  <2>2. k \in Nat /\ l \in Nat
    OBVIOUS
  <2>3. <<k, l>> \in Nat \X Nat /\ <<k, l>>[1] = k /\ <<k, l>>[2] = l
    BY <2>2
  <2>4. ~ (k < l)
    BY <2>1, <2>3
  <2> QED
    BY <2>2, <2>4
<1> QED
  BY <1>2 DEF Lowest

\* Times and, where they tie, numbers tell the elements apart.
Ranked(S) ==
  \A l, m \in S : /\ l.at \in Nat /\ l.guid \in Nat
                  /\ l.at = m.at /\ l.guid = m.guid => l = m

LEMMA Topmost ==
  ASSUME NEW S, S # {}, Ranked(S), NEW u \in Int, \A l \in S : l.at <= u
  PROVE  \E x \in S : \A m \in S : ~Newer(m, x)
<1> DEFINE times == {l.at : l \in S}
           a == Highest(times)
<1>1. times \in SUBSET Int /\ times # {} /\ \A k \in times : k <= u
  BY DEF Ranked
<1>2. a \in times /\ \A k \in times : k <= a
  <2> HIDE DEF times
  <2> QED
    BY <1>1, Uppermost
<1> DEFINE guids == {l.guid : l \in {m \in S : m.at = a}}
           g == Lowest(guids)
<1>3. guids \in SUBSET Nat /\ guids # {}
  <2>1. PICK l \in S : l.at = a
    BY <1>2
  <2>2. l.guid \in guids
    BY <2>1
  <2>3. \A m \in S : m.guid \in Nat
    BY DEF Ranked
  <2> QED
    BY <2>2, <2>3
<1>4. g \in guids /\ \A k \in guids : g <= k
  <2> HIDE DEF guids
  <2> QED
    BY <1>3, Lowermost
<1>5. PICK x \in S : x.at = a /\ x.guid = g
  BY <1>4
<1>6. ASSUME NEW m \in S PROVE ~Newer(m, x)
  <2>1. m.at \in Nat /\ m.at <= a /\ m.guid \in Nat /\ a \in Nat /\ g \in Nat
    BY <1>2, <1>5 DEF Ranked
  <2>2. m.at = a => g <= m.guid
    BY <1>4
  <2> QED
    BY <1>5, <2>1, <2>2 DEF Newer
<1> QED
  BY <1>6

LEMMA NewerOrder ==
  ASSUME NEW S, Ranked(S), NEW k \in S, NEW l \in S, NEW m \in S
  PROVE  /\ Newer(k, l) /\ Newer(l, m) => Newer(k, m)
         /\ Newer(l, m) \/ Newer(m, l) \/ l = m
         /\ ~Newer(l, l)
  BY DEF Ranked, Newer

\* What is newer than one of the newest is one of them.
LEMMA NewestUp ==
  ASSUME NEW S, IsFiniteSet(S), Ranked(S), NEW n \in Nat,
         NEW l \in Newest(S, n), NEW m \in S, Newer(m, l)
  PROVE  m \in Newest(S, n)
<1> DEFINE A == {k \in S : Newer(k, m)}
           B == {k \in S : Newer(k, l)}
<1>1. l \in S /\ Cardinality(B) < n
  BY DEF Newest
<1>2. IsFiniteSet(B) /\ A \in SUBSET B
  <2>1. B \in SUBSET S
    OBVIOUS
  <2>2. IsFiniteSet(B)
    <3> HIDE DEF B
    <3> QED
      BY <2>1, FS_Subset
  <2>3. \A k \in A : k \in B
    BY <1>1, NewerOrder
  <2> QED
    BY <2>2, <2>3
<1>3. Cardinality(A) <= Cardinality(B) /\ Cardinality(A) \in Nat /\ Cardinality(B) \in Nat
  <2> HIDE DEF A, B
  <2> QED
    BY <1>2, FS_Subset, FS_CardinalityType
<1>4. Cardinality(A) < n
  <2> HIDE DEF A, B
  <2> QED
    BY <1>1, <1>3
<1> QED
  BY <1>4 DEF Newest

\* When one is not of the newest, those are at the limit and all newer.
LEMMA NewestMiss ==
  ASSUME NEW S, IsFiniteSet(S), Ranked(S), NEW n \in Nat, NEW u \in Int, \A k \in S : k.at <= u,
         NEW l \in S, l \notin Newest(S, n)
  PROVE  Cardinality(Newest(S, n)) >= n /\ \A m \in Newest(S, n) : Newer(m, l)
<1> DEFINE N == Newest(S, n)
<1>1. N \in SUBSET S
  BY DEF Newest
<1>2. PICK x \in S \ N : \A m \in S \ N : ~Newer(m, x)
  <2>1. S \ N # {} /\ Ranked(S \ N) /\ \A k \in S \ N : k.at <= u
    BY DEF Ranked
  <2> HIDE DEF N
  <2> QED
    BY <2>1, Topmost
<1> DEFINE A == {k \in S : Newer(k, x)}
<1>3. A \in SUBSET N
  BY <1>2
<1>4. IsFiniteSet(N)
  <2> HIDE DEF N
  <2> QED
    BY <1>1, FS_Subset
<1>5. ~(Cardinality(A) < n)
  BY <1>2 DEF Newest
<1>6. Cardinality(A) <= Cardinality(N) /\ Cardinality(A) \in Nat /\ Cardinality(N) \in Nat
  <2> HIDE DEF A, N
  <2> QED
    BY <1>3, <1>4, FS_Subset, FS_CardinalityType
<1>7. Cardinality(N) >= n
  <2> HIDE DEF A, N
  <2> QED
    BY <1>5, <1>6
<1>8. ASSUME NEW m \in N PROVE Newer(m, l)
  <2>1. m \in S /\ m # l /\ ~Newer(l, m)
    BY <1>1, <1>8, NewestUp
  <2> QED
    BY <2>1, NewerOrder
<1> QED
  BY <1>7, <1>8

\* The newest of a set are those of a part of it, when nothing left out is newer
\* than a member of that and it is at the limit.
LEMMA NewestOfPart ==
  ASSUME NEW W, IsFiniteSet(W), Ranked(W), NEW n \in Nat, NEW M \in SUBSET W,
         \A l \in M, m \in W : Newer(m, l) => m \in M,
         M = W \/ Cardinality(M) >= n
  PROVE  Newest(W, n) = Newest(M, n)
<1>1. ASSUME NEW l \in M PROVE l \in Newest(W, n) <=> l \in Newest(M, n)
  <2>1. {m \in W : Newer(m, l)} = {m \in M : Newer(m, l)}
    OBVIOUS
  <2> QED
    BY <2>1 DEF Newest
<1>2. ASSUME NEW l \in W, l \notin M PROVE l \notin Newest(W, n)
  <2> DEFINE A == {m \in W : Newer(m, l)}
  <2>1. M \in SUBSET A
    <3> SUFFICES ASSUME NEW m \in M PROVE Newer(m, l)
      OBVIOUS
    <3>1. m # l /\ ~Newer(l, m)
      BY <1>2
    <3> QED
      BY <1>2, <3>1, NewerOrder
  <2>2. A \in SUBSET W
    OBVIOUS
  <2>3. IsFiniteSet(A)
    <3> HIDE DEF A
    <3> QED
      BY <2>2, FS_Subset
  <2>4. Cardinality(M) >= n
    BY <1>2
  <2>5. Cardinality(M) <= Cardinality(A) /\ Cardinality(A) \in Nat /\ Cardinality(M) \in Nat
    <3> HIDE DEF A
    <3> QED
      BY <2>1, <2>3, FS_Subset, FS_CardinalityType
  <2>6. ~(Cardinality(A) < n)
    <3> HIDE DEF A
    <3> QED
      BY <2>4, <2>5
  <2> QED
    BY <2>6 DEF Newest
<1>3. Newest(W, n) \in SUBSET W /\ Newest(M, n) \in SUBSET M
  BY DEF Newest
<1> QED
  BY <1>1, <1>2, <1>3

-----------------------------------------------------------------------------
(* The lists: what is read. *)

LEMMA LogConstants ==
  /\ Guid \subseteq Nat /\ EndFinder \in Finder /\ Rest \notin Finder
  /\ LimitOf \in [Finder -> Nat \ {0}] /\ Cap \in Nat \ {0}
  /\ Window \in Nat /\ Late \in Nat /\ FollowBefore \in Nat /\ FollowAfter \in Nat \ {0}
  /\ MinSpan \in Nat \ {0} /\ MinSpan >= Late /\ LogTime \subseteq Nat
<1>1. LogTime \subseteq Nat
  <2>1. MaxLogTime \div 2 \in Int
    BY FinderAssumption, Division
  <2> QED
    BY <2>1 DEF LogTime
<1> QED
  BY <1>1, FinderAssumption, SpanAssumption

\* The lines written, and those that can be read.
LinesFit ==
  /\ logNow \in LogTime
  /\ lines \subseteq Line /\ readable \subseteq lines /\ IsFiniteSet(lines)
  /\ \A l \in lines : l.at <= logNow
  /\ \A l \in lines \ readable : logNow <= l.at + Late

\* The lines of a request keep together.
Together ==
  \A l, m \in lines :
    l.guid = m.guid /\ m.by # Rest => l.at < m.at + FollowAfter /\ m.at <= l.at + FollowBefore

ReadFrom(floor, end) == IF floor > end - Window THEN floor ELSE end - Window

\* A read up to `end`, at any time after it.  What comes late is of the last
\* Late of it; of what is before, each finder has all, or all that is newer than
\* something it has.
SeenFits(seen, floor, end) ==
  /\ seen \in [Finder -> SUBSET readable]
  /\ floor \in Int /\ end \in LogTime /\ end <= logNow
  /\ floor <= end - Late \/ floor <= end - Window
  /\ \A l \in lines \ readable : l.at >= end - Late
  /\ \A f \in Finder : \A l \in seen[f] : l.by = f /\ ReadFrom(floor, end) <= l.at /\ l.at < end
  /\ \A f \in Finder, l \in readable :
       l.by = f /\ ReadFrom(floor, end) <= l.at /\ l.at < end - Late /\ l \notin seen[f] =>
         Full(f, seen[f]) /\ \A m \in seen[f] : ~Newer(l, m)

\* A request that is done has all its lines in its row, for good.
HeldFits(held) ==
  \A h \in held : h.done =>
    /\ h.lines = {l \in lines : l.guid = h.guid}
    /\ \A l \in h.lines : l \in readable /\ l.at < logNow
    /\ \E m \in lines : m.guid = h.guid /\ m.by # Rest /\ m.at + FollowAfter <= logNow

LogMoves == (\E l \in Line : Write(l)) \/ (\E l \in lines : Arrive(l)) \/ LogTick

LEMMA LineIs ==
  ASSUME NEW l \in Line
  PROVE  l.at \in Nat /\ l.guid \in Nat /\ l.guid \in Guid /\ l.by \in Finder \cup {Rest}
  BY LogConstants DEF Line

LEMMA LinesMove ==
  ASSUME LinesFit, Together, LogMoves
  PROVE  LinesFit' /\ Together'
<1> USE LogConstants
<1>1. CASE \E l \in Line : Write(l)
  <2>1. PICK l \in Line : Write(l)
    BY <1>1
  <2>2. /\ lines' = lines \cup {l} /\ l.at = logNow /\ Belongs(l)
        /\ readable' = readable /\ logNow' = logNow
    BY <2>1 DEF Write
  <2>3. IsFiniteSet(lines')
    BY <2>2, FS_AddElement DEF LinesFit
  <2>4. \A k \in lines \cup {l} : k.at \in Nat /\ k.at <= logNow /\ logNow \in Nat
    BY <2>2, LineIs DEF LinesFit
  <2>5. LinesFit'
    <3>1. \A k \in lines' \ readable' : logNow' <= k.at + Late
      BY <2>2, <2>4 DEF LinesFit
    <3> QED
      BY <2>2, <2>3, <2>4, <3>1 DEF LinesFit
  <2>6. ASSUME NEW k \in lines', NEW m \in lines', k.guid = m.guid, m.by # Rest
        PROVE  k.at < m.at + FollowAfter /\ m.at <= k.at + FollowBefore
    <3>1. k.at \in Nat /\ m.at \in Nat /\ k.at <= logNow /\ m.at <= logNow
      BY <2>2, <2>4
    <3>2. CASE k \in lines /\ m \in lines
      BY <2>6, <3>2 DEF Together
    <3>3. CASE k = l /\ m \in lines
      BY <2>2, <2>6, <3>1, <3>3 DEF Belongs
    <3>4. CASE k \in lines /\ m = l
      BY <2>2, <2>6, <3>1, <3>4 DEF Belongs
    <3>5. CASE k = l /\ m = l
      BY <3>1, <3>5
    <3> QED
      BY <2>2, <3>2, <3>3, <3>4, <3>5
  <2>7. Together'
    BY <2>6 DEF Together
  <2> QED
    BY <2>5, <2>7
<1>2. CASE \E l \in lines : Arrive(l)
  BY <1>2 DEF Arrive, LinesFit, Together
<1>3. CASE LogTick
  <2>1. /\ lines' = lines /\ readable' = readable /\ logNow' = logNow + 2 /\ logNow' \in LogTime
        /\ \A l \in lines \ readable : logNow + 2 <= l.at + Late
    BY <1>3 DEF LogTick
  <2>2. \A l \in lines : l.at \in Nat /\ l.at <= logNow /\ logNow \in Nat
    BY LineIs DEF LinesFit
  <2> QED
    BY <2>1, <2>2 DEF LinesFit, Together
<1> QED
  BY <1>1, <1>2, <1>3 DEF LogMoves

LEMMA SeenMoves ==
  ASSUME LinesFit, LogMoves, NEW seen, NEW floor, NEW end, SeenFits(seen, floor, end)
  PROVE  SeenFits(seen, floor, end)'
<1> USE LogConstants
<1>1. CASE \E l \in Line : Write(l)
  <2>1. PICK l \in Line : Write(l)
    BY <1>1
  <2>2. lines' = lines \cup {l} /\ l.at = logNow /\ readable' = readable /\ logNow' = logNow
    BY <2>1 DEF Write
  <2>3. l.at >= end - Late
    BY <2>2 DEF LinesFit, SeenFits
  <2> QED
    BY <2>2, <2>3 DEF SeenFits
<1>2. CASE \E l \in lines : Arrive(l)
  <2>1. PICK l \in lines \ readable : readable' = readable \cup {l} /\ lines' = lines /\ logNow' = logNow
    BY <1>2 DEF Arrive
  <2>2. l.at \in Nat /\ l.at >= end - Late
    BY <2>1, LineIs DEF LinesFit, SeenFits
  <2>3. end - Late \in Int
    BY DEF SeenFits
  <2>4. \A f \in Finder, k \in readable' :
          k.by = f /\ ReadFrom(floor, end) <= k.at /\ k.at < end - Late /\ k \notin seen[f] =>
            Full(f, seen[f]) /\ \A m \in seen[f] : ~Newer(k, m)
    BY <2>1, <2>2, <2>3 DEF SeenFits
  <2>5. seen \in [Finder -> SUBSET readable']
    BY <2>1 DEF SeenFits
  <2> QED
    BY <2>1, <2>4, <2>5 DEF SeenFits
<1>3. CASE LogTick
  <2>1. lines' = lines /\ readable' = readable /\ logNow' = logNow + 2
    BY <1>3 DEF LogTick
  <2>2. end <= logNow + 2
    BY DEF LinesFit, SeenFits
  <2> QED
    BY <2>1, <2>2 DEF SeenFits
<1> QED
  BY <1>1, <1>2, <1>3 DEF LogMoves

LEMMA HeldMoves ==
  ASSUME LinesFit, LogMoves, NEW held, HeldFits(held)
  PROVE  HeldFits(held)'
<1> USE LogConstants
<1> SUFFICES ASSUME NEW h \in held, h.done
             PROVE  /\ h.lines = {l \in lines' : l.guid = h.guid}
                    /\ \A l \in h.lines : l \in readable' /\ l.at < logNow'
                    /\ \E m \in lines' : m.guid = h.guid /\ m.by # Rest /\ m.at + FollowAfter <= logNow'
  BY DEF HeldFits
<1>1. /\ h.lines = {l \in lines : l.guid = h.guid}
      /\ \A l \in h.lines : l \in readable /\ l.at < logNow
  BY DEF HeldFits
<1>2. PICK m \in lines : m.guid = h.guid /\ m.by # Rest /\ m.at + FollowAfter <= logNow
  BY DEF HeldFits
<1>3. m.at \in Nat /\ logNow \in Nat /\ \A l \in lines : l.at \in Nat
  BY LineIs DEF LinesFit
<1>4. CASE \E l \in Line : Write(l)
  <2>1. PICK l \in Line : Write(l)
    BY <1>4
  <2>2. /\ lines' = lines \cup {l} /\ l.at = logNow /\ Belongs(l)
        /\ readable' = readable /\ logNow' = logNow
    BY <2>1 DEF Write
  <2>3. l.guid # h.guid
    BY <1>2, <1>3, <2>2 DEF Belongs
  <2> QED
    BY <1>1, <1>2, <2>2, <2>3
<1>5. CASE \E l \in lines : Arrive(l)
  BY <1>1, <1>2, <1>5 DEF Arrive
<1>6. CASE LogTick
  <2>1. lines' = lines /\ readable' = readable /\ logNow' = logNow + 2
    BY <1>6 DEF LogTick
  <2> QED
    BY <1>1, <1>2, <1>3, <2>1
<1> QED
  BY <1>4, <1>5, <1>6 DEF LogMoves

LinesOf(f, from, to) == {l \in readable : l.by = f /\ from <= l.at /\ l.at < to}

\* One finder's lines are told apart by time and number.
LEMMA FinderLines ==
  ASSUME LinesFit, NEW f, NEW S \in SUBSET readable, \A l \in S : l.by = f
  PROVE  IsFiniteSet(S) /\ Ranked(S) /\ \A l \in S : l.at \in Nat /\ l.at <= logNow
<1>1. S \in SUBSET lines /\ IsFiniteSet(lines)
  BY DEF LinesFit
<1>2. IsFiniteSet(S)
  BY <1>1, FS_Subset
<1>3. \A l \in S : l \in Line
  BY <1>1 DEF LinesFit
<1>4. \A l, m \in S : l.at = m.at /\ l.guid = m.guid => l = m
  BY <1>3 DEF Line
<1>5. \A l \in S : l.at \in Nat /\ l.guid \in Nat
  BY <1>3, LineIs, LogConstants
<1> QED
  BY <1>1, <1>2, <1>4, <1>5 DEF LinesFit, Ranked

LEMMA NewestIn == ASSUME NEW S, NEW n PROVE Newest(S, n) \in SUBSET S
  BY DEF Newest

LEMMA FullOrAll ==
  ASSUME LinesFit, NEW f \in Finder, NEW S \in SUBSET readable, \A l \in S : l.by = f
  PROVE  \/ Newest(S, LimitOf[f]) = S
         \/ /\ Full(f, Newest(S, LimitOf[f])) /\ Full(f, S)
            /\ \A l \in S : l \notin Newest(S, LimitOf[f]) =>
                 \A m \in Newest(S, LimitOf[f]) : Newer(m, l)
<1>1. IsFiniteSet(S) /\ Ranked(S) /\ \A l \in S : l.at <= logNow
  BY FinderLines
<1>2. LimitOf[f] \in Nat /\ logNow \in Int
  BY LogConstants DEF LinesFit
<1>3. Newest(S, LimitOf[f]) \in SUBSET S
  BY NewestIn
<1>4. Cardinality(Newest(S, LimitOf[f])) <= Cardinality(S) /\ Cardinality(S) \in Nat
      /\ Cardinality(Newest(S, LimitOf[f])) \in Nat
  BY <1>1, <1>3, FS_Subset, FS_CardinalityType
<1>5. ASSUME NEW l \in S, l \notin Newest(S, LimitOf[f])
      PROVE  /\ Cardinality(Newest(S, LimitOf[f])) >= LimitOf[f]
             /\ \A m \in Newest(S, LimitOf[f]) : Newer(m, l)
  BY <1>1, <1>2, <1>5, NewestMiss
<1> QED
  BY <1>2, <1>3, <1>4, <1>5 DEF Full

\* A whole read.
LEMMA FoundFits ==
  ASSUME LinesFit, NEW floor \in Int,
         floor <= logNow - Late \/ floor <= logNow - Window,
         NEW seen, seen = [f \in Finder |-> Found(f, ReadFrom(floor, logNow), logNow)]
  PROVE  SeenFits(seen, floor, logNow)
<1> USE LogConstants
<1>1. logNow \in LogTime /\ logNow \in Nat /\ \A l \in lines : l.at \in Nat
  BY LineIs DEF LinesFit
<1> DEFINE from == ReadFrom(floor, logNow)
<1>2. ASSUME NEW f \in Finder
      PROVE  /\ seen[f] = Newest(LinesOf(f, from, logNow), LimitOf[f])
             /\ LinesOf(f, from, logNow) \in SUBSET readable
             /\ \A l : l \in LinesOf(f, from, logNow) <=>
                  l \in readable /\ l.by = f /\ from <= l.at /\ l.at < logNow
  BY DEF Found, LinesOf
<1> HIDE DEF from
<1>3. ASSUME NEW f \in Finder
      PROVE  seen[f] \in SUBSET LinesOf(f, from, logNow)
  BY <1>2, NewestIn
<1>4. seen \in [Finder -> SUBSET readable]
  <2>1. \A f \in Finder : seen[f] \in SUBSET readable
    BY <1>2, <1>3
  <2> QED
    BY <2>1
<1>5. \A f \in Finder : \A l \in seen[f] : l.by = f /\ from <= l.at /\ l.at < logNow
  BY <1>2, <1>3
<1>6. ASSUME NEW f \in Finder, NEW l \in readable, l.by = f, from <= l.at, l.at < logNow, l \notin seen[f]
      PROVE  Full(f, seen[f]) /\ \A m \in seen[f] : ~Newer(l, m)
  <2> DEFINE S == LinesOf(f, from, logNow)
  <2>1. l \in S /\ S \in SUBSET readable /\ \A k \in S : k.by = f
    BY <1>2, <1>6
  <2>2. Full(f, seen[f]) /\ \A m \in seen[f] : Newer(m, l)
    <3> HIDE DEF S
    <3> QED
      BY <1>2, <1>6, <2>1, FullOrAll DEF S
  <2>3. Ranked(S)
    <3> HIDE DEF S
    <3> QED
      BY <2>1, FinderLines
  <2>4. \A m \in S : Newer(m, l) => ~Newer(l, m)
    <3> HIDE DEF S
    <3> QED
      BY <2>1, <2>3, NewerOrder
  <2> QED
    BY <1>3, <2>2, <2>4
<1>7. \A l \in lines \ readable : l.at >= logNow - Late
  BY <1>1 DEF LinesFit
<1>8. \A l \in readable : l.at < logNow - Late => l.at < logNow
  BY <1>1 DEF LinesFit
<1> QED
  BY <1>1, <1>4, <1>5, <1>6, <1>7, <1>8 DEF SeenFits, from

\* A poll that reads on from the last read has what a whole read has.
LEMMA MergedIsWhole ==
  ASSUME LinesFit, head.on, SeenFits(head.seen, head.floor, head.end), NEW f \in Finder,
         ~CannotTell(f, Found(f, From, logNow), Start, From)
  PROVE  Merged(f, Found(f, From, logNow), Start, From)
           = Found(f, ReadFrom(head.floor, logNow), logNow)
<1> USE LogConstants
<1> SUFFICES ASSUME NEW n, n = LimitOf[f], NEW fl, fl = head.floor, NEW e, e = head.end,
                    NEW A, A = head.seen[f],
                    NEW from, from = From, NEW start, start = Start,
                    NEW lo, lo = ReadFrom(fl, logNow),
                    NEW fresh, fresh = Found(f, from, logNow),
                    ~CannotTell(f, fresh, start, from)
             PROVE  Merged(f, fresh, start, from) = Found(f, lo, logNow)
  OBVIOUS
<1>1. /\ n \in Nat \ {0} /\ fl \in Int /\ e \in Nat /\ logNow \in Nat /\ e <= logNow
      /\ start = logNow - Window /\ start \in Int
      /\ from = IF e - Late > start THEN e - Late ELSE start
      /\ from \in Int /\ lo \in Int /\ start <= lo /\ fl <= lo
      /\ lo = start \/ lo = fl
      /\ fl <= e - Late \/ fl <= e - Window
  <2>1. n \in Nat \ {0} /\ logNow \in Nat
    BY DEF LinesFit
  <2>2. /\ fl \in Int /\ e \in Nat /\ e <= logNow
        /\ fl <= e - Late \/ fl <= e - Window
    BY DEF SeenFits
  <2>3. start = logNow - Window /\ from = IF e - Late > start THEN e - Late ELSE start
    BY DEF From, Start
  <2>4. lo = IF fl > logNow - Window THEN fl ELSE logNow - Window
    BY DEF ReadFrom
  <2> QED
    BY <2>1, <2>2, <2>3, <2>4
<1>2. lo <= from
  BY <1>1 DEF ReadFrom
<1>3. \A l \in readable : l \in lines /\ l.at \in Nat
  BY LineIs DEF LinesFit
<1> DEFINE New == LinesOf(f, from, logNow)
           W == LinesOf(f, lo, logNow)
           Old == {l \in A : start <= l.at /\ l.at < from}
           M == New \cup Old
<1>4. /\ New \in SUBSET readable /\ \A l \in New : l.by = f
      /\ W \in SUBSET readable /\ \A l \in W : l.by = f
  BY DEF LinesOf
<1>5. fresh = Newest(New, n) /\ Found(f, lo, logNow) = Newest(W, n)
  BY DEF Found, LinesOf
<1>6. /\ \A l \in A : l \in readable /\ l.by = f /\ ReadFrom(fl, e) <= l.at /\ l.at < e
      /\ \A l \in readable :
           l.by = f /\ ReadFrom(fl, e) <= l.at /\ l.at < e - Late /\ l \notin A =>
             Full(f, A) /\ \A m \in A : ~Newer(l, m)
  BY DEF SeenFits
<1>7. ReadFrom(fl, e) \in Int /\ ReadFrom(fl, e) <= lo
  BY <1>1 DEF ReadFrom
<1>8. /\ \A l : l \in New <=> l \in readable /\ l.by = f /\ from <= l.at /\ l.at < logNow
      /\ \A l : l \in W <=> l \in readable /\ l.by = f /\ lo <= l.at /\ l.at < logNow
  BY DEF LinesOf
<1> HIDE DEF New, W
<1>9. IsFiniteSet(W) /\ Ranked(W)
  BY <1>4, FinderLines
<1>10. New \in SUBSET W
  BY <1>1, <1>2, <1>3, <1>8
<1>11. Old \in SUBSET W
  <2> SUFFICES ASSUME NEW l \in A, start <= l.at, l.at < from PROVE l \in W
    OBVIOUS
  <2>1. l \in readable /\ l.by = f /\ l.at \in Nat /\ l.at < logNow
    BY <1>1, <1>3, <1>6
  <2>2. fl <= l.at
    BY <1>1, <1>6, <1>7, <2>1 DEF ReadFrom
  <2>3. lo <= l.at
    BY <1>1, <2>2
  <2> QED
    BY <1>8, <2>1, <2>3
\* What of W is older than where the poll read from, and newer than something
\* that was seen.
<1>12. ASSUME NEW l \in W, l.at < from
       PROVE  /\ l.at \in Nat /\ start <= l.at /\ l \in readable
              /\ l \in Old \/ (Full(f, A) /\ \A m \in A : ~Newer(l, m))
  <2>1. l \in readable /\ l.by = f /\ l.at \in Nat /\ lo <= l.at
    BY <1>3, <1>8
  <2>2. start <= l.at /\ ReadFrom(fl, e) <= l.at
    BY <1>1, <1>7, <2>1
  <2>3. l.at < e - Late
    BY <1>1, <1>12, <2>1, <2>2
  <2> QED
    BY <1>6, <1>12, <2>1, <2>2, <2>3
<1>13. ASSUME NEW l \in W, l \notin New PROVE l.at < from
  <2>1. l.at \in Nat
    BY <1>3, <1>8
  <2> QED
    BY <1>1, <1>8, <1>13, <2>1
\* Nothing left out is newer.
<1>14. \A l \in M, m \in W : Newer(m, l) => m \in M
  <2> SUFFICES ASSUME NEW l \in M, NEW m \in W, Newer(m, l), m \notin New PROVE m \in Old
    OBVIOUS
  <2>1. m.at < from /\ m.at \in Nat
    BY <1>12, <1>13
  <2>2. l \notin New
    <3> SUFFICES ASSUME l \in New PROVE FALSE
      OBVIOUS
    <3>1. from <= l.at /\ l.at \in Nat
      BY <1>3, <1>8
    <3> QED
      BY <1>1, <2>1, <3>1 DEF Newer
  <2>3. l \in A
    BY <2>2
  <2> QED
    BY <1>12, <2>1, <2>3
<1>15. ASSUME NEW l \in New, NEW m \in W, Newer(m, l) PROVE m \in New
  <2> SUFFICES ASSUME m \notin New PROVE FALSE
    OBVIOUS
  <2>1. m.at < from /\ m.at \in Nat /\ from <= l.at /\ l.at \in Nat
    BY <1>3, <1>8, <1>12, <1>13
  <2> QED
    BY <1>1, <1>15, <2>1 DEF Newer
<1>16. CASE Full(f, fresh)
  <2>1. Merged(f, fresh, start, from) = fresh
    BY <1>16 DEF Merged
  <2>2. Cardinality(New) >= n
    <3>1. IsFiniteSet(New) /\ fresh \in SUBSET New
      BY <1>4, <1>5, FinderLines, NewestIn
    <3>2. Cardinality(fresh) <= Cardinality(New) /\ Cardinality(New) \in Nat /\ Cardinality(fresh) \in Nat
      BY <3>1, FS_Subset, FS_CardinalityType
    <3> QED
      BY <1>1, <1>16, <3>2 DEF Full
  <2>3. Newest(W, n) = Newest(New, n)
    BY <1>1, <1>9, <1>10, <1>15, <2>2, NewestOfPart
  <2> QED
    BY <1>5, <2>1, <2>3
<1>17. CASE ~Full(f, fresh)
  <2>1. fresh = New
    BY <1>4, <1>5, <1>17, FullOrAll
  <2>2. Merged(f, fresh, start, from) = Newest(M, n)
    BY <1>17, <2>1 DEF Merged
  <2>3. M \in SUBSET W
    BY <1>10, <1>11
  <2>4. CASE Full(f, Newest(M, n))
    <3>1. IsFiniteSet(M) /\ Newest(M, n) \in SUBSET M
      <4> HIDE DEF M
      <4> QED
        BY <1>9, <2>3, FS_Subset, NewestIn
    <3>2. Cardinality(Newest(M, n)) <= Cardinality(M) /\ Cardinality(M) \in Nat
          /\ Cardinality(Newest(M, n)) \in Nat
      <4> HIDE DEF M
      <4> QED
        BY <3>1, FS_Subset, FS_CardinalityType
    <3>3. Cardinality(M) >= n
      <4> HIDE DEF M
      <4> QED
        BY <1>1, <2>4, <3>2 DEF Full
    <3>4. Newest(W, n) = Newest(M, n)
      <4> HIDE DEF M
      <4> QED
        BY <1>1, <1>9, <1>14, <2>3, <3>3, NewestOfPart
    <3> QED
      BY <1>5, <2>2, <3>4
  <2>5. CASE ~Full(f, Newest(M, n))
    <3>1. ~(/\ from > start /\ Full(f, A) /\ Lowest({l.at : l \in A}) >= start)
      BY <1>17, <2>2, <2>5 DEF CannotTell
    <3>2. ASSUME NEW l \in W, l \notin New PROVE l \in Old
      <4>1. l.at < from /\ l.at \in Nat /\ start <= l.at
        BY <1>12, <1>13, <3>2
      <4>2. SUFFICES ASSUME Full(f, A), \A m \in A : ~Newer(l, m) PROVE FALSE
        BY <1>12, <3>2, <4>1
      <4>3. from > start
        BY <1>1, <4>1
      <4>4. A # {} /\ \A m \in A : m.at \in Nat
        <5>1. A # {}
          <6>1. Cardinality(A) >= n /\ n > 0
            BY <1>1, <4>2 DEF Full
          <6> QED
            BY <6>1, FS_EmptySet
        <5> QED
          BY <1>3, <1>6, <5>1
      <4>5. PICK m \in A : m.at = Lowest({k.at : k \in A})
        <5> DEFINE T == {k.at : k \in A}
        <5>1. T \in SUBSET Nat /\ T # {}
          BY <4>4
        <5>2. Lowest(T) \in T
          <6> HIDE DEF T
          <6> QED
            BY <5>1, Lowermost
        <5> QED
          BY <5>2
      <4>6. m.at < start
        BY <1>1, <3>1, <4>2, <4>3, <4>4, <4>5
      <4> QED
        BY <1>1, <4>1, <4>2, <4>4, <4>6 DEF Newer
    <3>3. M = W
      BY <1>10, <1>11, <3>2
    <3> QED
      BY <1>5, <2>2, <3>3
  <2> QED
    BY <2>4, <2>5
<1> QED
  BY <1>16, <1>17

-----------------------------------------------------------------------------
(* The lists: rows. *)

\* Lines that each finder found before `end`.
Finds(seen, end) ==
  /\ end \in Int
  /\ \A f \in Finder : \A l \in seen[f] : l \in readable /\ l.by = f /\ l.at < end

LEMMA FitsFinds ==
  ASSUME LinesFit, NEW seen, NEW floor, NEW end, SeenFits(seen, floor, end)
  PROVE  Finds(seen, end)
  BY LogConstants DEF SeenFits, Finds

LEMMA SeenLines ==
  ASSUME LinesFit, NEW seen, NEW end, Finds(seen, end)
  PROVE  /\ \A l \in AllOf(seen) : /\ l \in lines /\ l \in readable /\ l.by # Rest
                                   /\ l.at \in Nat /\ l.at < end /\ l.guid \in Guid
         /\ \A f \in Finder : \A l \in seen[f] : l \in AllOf(seen)
<1> USE LogConstants
<1>1. \A f \in Finder : \A l \in seen[f] : l \in readable /\ l.by = f /\ l.at < end
  BY DEF Finds
<1>2. \A l \in readable : l \in lines /\ l.at \in Nat /\ l.guid \in Guid
  BY LineIs DEF LinesFit
<1> QED
  BY <1>1, <1>2 DEF AllOf

LEMMA LastIs ==
  ASSUME LinesFit, NEW seen, NEW end, Finds(seen, end), NEW g \in GuidsOf(AllOf(seen))
  PROVE  /\ LastAt(seen, g) \in Nat /\ LastAt(seen, g) < end
         /\ \E m \in AllOf(seen) : m.guid = g /\ m.at = LastAt(seen, g)
         /\ \A m \in AllOf(seen) : m.guid = g => m.at <= LastAt(seen, g)
<1> DEFINE T == {l.at : l \in {m \in AllOf(seen) : m.guid = g}}
<1>1. /\ \A l \in AllOf(seen) : l.at \in Nat /\ l.at < end
      /\ end \in Int
  BY SeenLines DEF Finds
<1>2. T \in SUBSET Int /\ \A k \in T : k <= end
  BY <1>1
<1>3. T # {}
  <2>1. PICK m \in AllOf(seen) : m.guid = g
    BY DEF GuidsOf
  <2>2. m.at \in T
    BY <2>1
  <2> QED
    BY <2>2
<1>4. Highest(T) \in T /\ \A k \in T : k <= Highest(T)
  <2> HIDE DEF T
  <2> QED
    BY <1>1, <1>2, <1>3, Uppermost
<1>5. LastAt(seen, g) = Highest(T)
  BY DEF LastAt
<1>6. PICK m \in AllOf(seen) : m.guid = g /\ m.at = Highest(T)
  BY <1>4
<1> QED
  BY <1>1, <1>4, <1>5, <1>6

LEMMA KeptFound ==
  ASSUME NEW seen
  PROVE  Kept(seen) \subseteq GuidsOf(AllOf(seen))
<1> DEFINE first == {[at |-> LastAt(seen, g), guid |-> g] : g \in GuidsOf(AllOf(seen))}
<1>1. Newest(first, Cap) \in SUBSET first
  <2> HIDE DEF first
  <2> QED
    BY NewestIn
<1>2. Kept(seen) = GuidsOf(Newest(first, Cap))
  BY DEF Kept
<1>3. \A x \in first : x.guid \in GuidsOf(AllOf(seen))
  OBVIOUS
<1> HIDE DEF first
<1>4. \A g \in GuidsOf(Newest(first, Cap)) : \E x \in Newest(first, Cap) : x.guid = g
  BY DEF GuidsOf
<1> QED
  BY <1>1, <1>2, <1>3, <1>4

LinesNow(g) == {l \in readable : l.guid = g /\ l.at < logNow}
RowNow(g) == [guid |-> g, lines |-> LinesNow(g)]

\* A follow-up read has every line of the requests it is for, whatever others it
\* is for.
LEMMA FollowedWhole ==
  ASSUME LinesFit, Together, NEW seen, NEW floor, NEW end, SeenFits(seen, floor, end),
         NEW need \in SUBSET GuidsOf(AllOf(seen))
  PROVE  FollowRows(seen, need) = {RowNow(g) : g \in need}
<1> USE LogConstants
<1> DEFINE T == {l.at : l \in {m \in AllOf(seen) : m.guid \in need}}
           from == Lowest(T) - FollowBefore
           to == Highest(T) + FollowAfter
           Row(g) == [guid |-> g,
                      lines |-> {l \in readable : l.guid = g /\ from <= l.at /\ l.at < to /\ l.at < logNow}]
<1>1. FollowRows(seen, need) = {Row(g) : g \in need}
  BY DEF FollowRows
<1>2. ASSUME NEW g \in need PROVE Row(g) = RowNow(g)
  <2>1. /\ \A l \in AllOf(seen) : l \in lines /\ l.by # Rest /\ l.at \in Nat /\ l.at < end
        /\ end \in Int
    BY FitsFinds, SeenLines DEF Finds
  <2>2. PICK m \in AllOf(seen) : m.guid = g
    BY DEF GuidsOf
  <2>3. T \in SUBSET Nat /\ T \in SUBSET Int /\ m.at \in T /\ T # {} /\ \A k \in T : k <= end
    BY <2>1, <2>2
  <2>4. /\ Lowest(T) \in Nat /\ Lowest(T) <= m.at
        /\ Highest(T) \in Nat /\ m.at <= Highest(T)
    <3> HIDE DEF T
    <3>1. Lowest(T) \in T /\ \A k \in T : Lowest(T) <= k
      BY <2>3, Lowermost
    <3>2. Highest(T) \in T /\ \A k \in T : k <= Highest(T)
      BY <2>1, <2>3, Uppermost
    <3> QED
      BY <2>3, <3>1, <3>2
  <2> HIDE DEF T
  <2>5. ASSUME NEW l \in readable, l.guid = g PROVE from <= l.at /\ l.at < to
    <3>1. l \in lines /\ l.at \in Nat
      BY LineIs DEF LinesFit
    <3>2. l.at < m.at + FollowAfter /\ m.at <= l.at + FollowBefore
      BY <2>1, <2>2, <2>5, <3>1 DEF Together
    <3>3. m.at \in Nat
      BY <2>1
    <3> QED
      BY <2>4, <3>1, <3>2, <3>3
  <2> HIDE DEF from, to
  <2>6. {l \in readable : l.guid = g /\ from <= l.at /\ l.at < to /\ l.at < logNow} = LinesNow(g)
    BY <2>5 DEF LinesNow
  <2> QED
    BY <2>6 DEF RowNow
<1> HIDE DEF Row
<1> QED
  BY <1>1, <1>2

\* A request none of whose lines can still come has them all in the row read now.
LEMMA DoneIsWhole ==
  ASSUME LinesFit, Together, NEW seen, NEW floor, NEW end, SeenFits(seen, floor, end),
         NEW g \in GuidsOf(AllOf(seen)), NoneToCome(LastAt(seen, g), end)
  PROVE  /\ LinesNow(g) = {l \in lines : l.guid = g}
         /\ \A l \in LinesNow(g) : l \in readable /\ l.at < logNow
         /\ \E m \in lines : m.guid = g /\ m.by # Rest /\ m.at + FollowAfter <= logNow
<1> USE LogConstants
<1>1. PICK m \in AllOf(seen) : m.guid = g /\ m.at = LastAt(seen, g)
  BY FitsFinds, LastIs
<1>2. m \in lines /\ m.by # Rest /\ m.at \in Nat
  BY FitsFinds, SeenLines
<1>3. /\ end \in Nat /\ end <= logNow /\ logNow \in Nat
      /\ \A l \in lines \ readable : l.at >= end - Late
  BY DEF SeenFits, LinesFit
<1>4. m.at + FollowAfter <= end - Late
  BY <1>1 DEF NoneToCome
<1>5. m.at + FollowAfter <= logNow
  BY <1>2, <1>3, <1>4
<1>6. ASSUME NEW l \in lines, l.guid = g PROVE l \in readable /\ l.at < logNow
  <2>1. l.at \in Nat /\ l.at < m.at + FollowAfter
    BY <1>1, <1>2, <1>6, LineIs DEF Together, LinesFit
  <2>2. l.at < end - Late
    BY <1>2, <1>3, <1>4, <2>1
  <2> QED
    BY <1>2, <1>3, <1>5, <2>1, <2>2
<1>7. readable \subseteq lines
  BY DEF LinesFit
<1>8. LinesNow(g) = {l \in lines : l.guid = g}
  BY <1>6, <1>7 DEF LinesNow
<1> QED
  BY <1>1, <1>2, <1>5, <1>8 DEF LinesNow

-----------------------------------------------------------------------------
(* The lists: a poll. *)

ListInv ==
  /\ LinesFit /\ Together
  /\ head.on => SeenFits(head.seen, head.floor, head.end) /\ HeldFits(head.followed)
  /\ poll.on => /\ SeenFits(poll.seen, poll.floor, poll.end) /\ HeldFits(poll.held)
                /\ poll.seen = poll.whole
  /\ RowsAsWhole

LEMMA ListStart == LogInit => ListInv
<1> SUFFICES ASSUME LogInit PROVE ListInv
  OBVIOUS
<1>1. LinesFit
  <2>1. 0 \in 0..(MaxLogTime \div 2) /\ 2 * 0 = 0
    <3>1. MaxLogTime \div 2 \in Nat
      <4>1. MaxLogTime \in Nat
        BY FinderAssumption
      <4> QED
        BY <4>1
    <3> QED
      BY <3>1
  <2>2. logNow \in LogTime
    BY <2>1 DEF LogInit, LogTime
  <2> QED
    BY <2>2, FS_EmptySet DEF LogInit, LinesFit
<1>2. Together
  BY DEF LogInit, Together
<1> QED
  BY <1>1, <1>2 DEF LogInit, ListInv, NoHead, NoPoll, NoRows, RowsAsWhole

LEMMA ListMoves ==
  ASSUME ListInv, LogMoves
  PROVE  ListInv'
<1>1. LinesFit' /\ Together'
  BY LinesMove DEF ListInv
<1>2. head' = head /\ poll' = poll /\ answer' = NoRows
  BY DEF LogMoves, Write, Arrive, LogTick
<1>3. head'.on => SeenFits(head.seen, head.floor, head.end)' /\ HeldFits(head.followed)'
  <2> SUFFICES ASSUME NEW h, h = head, h.on
               PROVE  SeenFits(h.seen, h.floor, h.end)' /\ HeldFits(h.followed)'
    BY <1>2
  <2> QED
    BY SeenMoves, HeldMoves DEF ListInv
<1>4. poll'.on => /\ SeenFits(poll.seen, poll.floor, poll.end)' /\ HeldFits(poll.held)'
                  /\ poll'.seen = poll'.whole
  <2> SUFFICES ASSUME NEW q, q = poll, q.on
               PROVE  /\ SeenFits(q.seen, q.floor, q.end)' /\ HeldFits(q.held)'
                      /\ q.seen = q.whole
    BY <1>2
  <2> QED
    BY SeenMoves, HeldMoves DEF ListInv
<1> QED
  BY <1>1, <1>2, <1>3, <1>4 DEF ListInv, RowsAsWhole, NoRows

\* A step that reads and writes nothing.
LEMMA SameLines ==
  ASSUME UNCHANGED <<logNow, lines, readable>>, LinesFit, Together
  PROVE  /\ LinesFit' /\ Together'
         /\ \A seen, floor, end : SeenFits(seen, floor, end) => SeenFits(seen, floor, end)'
         /\ \A held : HeldFits(held) => HeldFits(held)'
  BY DEF LinesFit, Together, SeenFits, HeldFits

LEMMA PollStarts ==
  ASSUME ListInv, NEW floor \in Int, NEW wholeAt, NEW seen, NEW held,
         floor <= logNow - Late \/ floor <= logNow - Window,
         seen = [f \in Finder |-> Found(f, ReadFrom(floor, logNow), logNow)], HeldFits(held),
         PollBegins(floor, wholeAt, seen, held)
  PROVE  ListInv'
<1>1. SeenFits(seen, floor, logNow)
  BY FoundFits DEF ListInv
<1>2. /\ UNCHANGED <<logNow, lines, readable, head>> /\ answer' = NoRows
      /\ poll'.floor = floor /\ poll'.end = logNow /\ poll'.seen = seen /\ poll'.held = held
      /\ poll'.whole = [f \in Finder |-> Found(f, IF floor > Start THEN floor ELSE Start, logNow)]
  BY DEF PollBegins
<1>3. poll'.whole = seen
  BY <1>2 DEF ReadFrom, Start
<1>4. LinesFit' /\ Together'
  BY <1>2, SameLines DEF ListInv
<1>5. head'.on => SeenFits(head.seen, head.floor, head.end)' /\ HeldFits(head.followed)'
  <2> SUFFICES ASSUME NEW h, h = head, h.on
               PROVE  SeenFits(h.seen, h.floor, h.end)' /\ HeldFits(h.followed)'
    BY <1>2
  <2> QED
    BY <1>2, SameLines DEF ListInv
<1>6. SeenFits(poll.seen, poll.floor, poll.end)' /\ HeldFits(poll.held)'
  <2> SUFFICES ASSUME NEW e, e = logNow
               PROVE  SeenFits(seen, floor, e)' /\ HeldFits(held)'
    BY <1>2
  <2> QED
    BY <1>1, <1>2, SameLines DEF ListInv
<1> QED
  BY <1>2, <1>3, <1>4, <1>5, <1>6 DEF ListInv, RowsAsWhole, NoRows

LEMMA PollStartsWhole ==
  ASSUME ListInv, PollWhole
  PROVE  ListInv'
<1> USE LogConstants
<1>1. PICK floor \in Floors(Start, logNow) :
        PollBegins(floor, logNow, [f \in Finder |-> Found(f, floor, logNow)], {})
  BY DEF PollWhole
<1>2. logNow \in Nat /\ Start = logNow - Window /\ Start \in Int
  BY DEF ListInv, LinesFit, Start
<1>3. /\ floor \in Int /\ ReadFrom(floor, logNow) = floor
      /\ floor <= logNow - Late \/ floor <= logNow - Window
  <2>1. CASE floor = Start
    BY <1>2, <2>1 DEF ReadFrom
  <2>2. CASE floor \in LogTime /\ Start < floor /\ floor <= logNow - MinSpan
    BY <1>2, <2>2 DEF ReadFrom
  <2> QED
    BY <2>1, <2>2 DEF Floors
<1>4. HeldFits({})
  BY DEF HeldFits
<1>5. PollBegins(floor, logNow, [f \in Finder |-> Found(f, ReadFrom(floor, logNow), logNow)], {})
  BY <1>1, <1>3
<1> QED
  BY <1>3, <1>4, <1>5, PollStarts

LEMMA PollStartsOn ==
  ASSUME ListInv, PollOn
  PROVE  ListInv'
<1> USE LogConstants
<1> DEFINE seen == [f \in Finder |-> Merged(f, Found(f, From, logNow), Start, From)]
<1>1. BuildsOn /\ PollBegins(head.floor, head.wholeAt, seen, head.followed)
  BY DEF PollOn
<1>2. /\ head.on /\ SeenFits(head.seen, head.floor, head.end) /\ HeldFits(head.followed)
      /\ LinesFit
  BY <1>1 DEF BuildsOn, ListInv
<1>3. seen = [f \in Finder |-> Found(f, ReadFrom(head.floor, logNow), logNow)]
  BY <1>1, <1>2, MergedIsWhole DEF BuildsOn
<1>4. /\ head.floor \in Int
      /\ head.floor <= logNow - Late \/ head.floor <= logNow - Window
  <2>1. /\ head.floor \in Int /\ head.end \in Nat /\ head.end <= logNow /\ logNow \in Nat
        /\ head.floor <= head.end - Late \/ head.floor <= head.end - Window
    BY <1>2 DEF SeenFits, LinesFit
  <2> QED
    BY <2>1
<1> HIDE DEF seen
<1> SUFFICES ASSUME NEW h, h = head PROVE ListInv'
  OBVIOUS
<1>5. /\ h.floor \in Int
      /\ h.floor <= logNow - Late \/ h.floor <= logNow - Window
      /\ HeldFits(h.followed) /\ PollBegins(h.floor, h.wholeAt, seen, h.followed)
      /\ seen = [f \in Finder |-> Found(f, ReadFrom(h.floor, logNow), logNow)]
  BY <1>1, <1>2, <1>3, <1>4
<1> QED
  BY <1>5, PollStarts

LEMMA PollAnswers ==
  ASSUME ListInv, NEW lost, PollEnds(lost)
  PROVE  ListInv'
<1> SUFFICES ASSUME NEW q, q = poll PROVE ListInv'
  OBVIOUS
<1>1. /\ q.on /\ lost \subseteq Need /\ UNCHANGED <<logNow, lines, readable>> /\ poll' = NoPoll
  BY DEF PollEnds
<1>2. /\ SeenFits(q.seen, q.floor, q.end) /\ HeldFits(q.held) /\ q.seen = q.whole
      /\ LinesFit /\ Together
  BY <1>1 DEF ListInv
<1> DEFINE kept == Kept(q.seen) \ InHand(q.seen)
           wanted == Need \ lost
           held == GuidsOf(Held)
           follow == kept \ lost
<1>3. kept \subseteq GuidsOf(AllOf(q.seen)) /\ Need = kept \ held
  BY KeptFound DEF Need
<1>4. follow = wanted \cup held /\ follow \subseteq kept
  <2>1. held \subseteq kept
    BY DEF Held, GuidsOf
  <2> QED
    BY <1>1, <1>3, <2>1
<1>5. \A need \in SUBSET kept : FollowRows(q.seen, need) = {RowNow(g) : g \in need}
  BY <1>2, <1>3, FollowedWhole
<1> DEFINE got == FollowRows(q.seen, wanted)
           rows == {[guid |-> h.guid, lines |-> h.lines] : h \in Held}
                     \cup (IF wanted = {} THEN {} ELSE got) \cup EndRows(q.seen)
           whole == EndRows(q.seen) \cup (IF follow = {} THEN {} ELSE FollowRows(q.seen, follow))
           fresh == IF wanted = {} THEN {} ELSE
                    {[guid |-> r.guid, lines |-> r.lines, newest |-> LastAt(q.seen, r.guid),
                      done |-> NoneToCome(LastAt(q.seen, r.guid), q.end)] : r \in got}
<1>6. /\ answer' = [rows |-> rows, whole |-> whole]
      /\ head' = [on |-> TRUE, wholeAt |-> q.wholeAt, floor |-> q.floor,
                  end |-> q.end, seen |-> q.seen, followed |-> Held \cup fresh]
  BY <1>2 DEF PollEnds
<1>7. wanted \subseteq kept
  BY <1>3
<1>8. got = {RowNow(g) : g \in wanted}
  BY <1>5, <1>7
<1> HIDE DEF got
\* A row that is kept is the row a read makes now.
<1>9. ASSUME NEW h \in Held PROVE [guid |-> h.guid, lines |-> h.lines] = RowNow(h.guid)
  <2>1. h \in q.held /\ h.done
    BY DEF Held
  <2>2. /\ h.lines = {l \in lines : l.guid = h.guid}
        /\ \A l \in h.lines : l \in readable /\ l.at < logNow
    BY <1>2, <2>1 DEF HeldFits
  <2>3. readable \subseteq lines
    BY <1>2 DEF LinesFit
  <2>4. h.lines = LinesNow(h.guid)
    BY <2>2, <2>3 DEF LinesNow
  <2> QED
    BY <2>4 DEF RowNow
<1>10. {[guid |-> h.guid, lines |-> h.lines] : h \in Held} = {RowNow(g) : g \in held}
  BY <1>9 DEF GuidsOf
<1>11. (IF wanted = {} THEN {} ELSE got) = {RowNow(g) : g \in wanted}
  BY <1>8
<1>12. (IF follow = {} THEN {} ELSE FollowRows(q.seen, follow)) = {RowNow(g) : g \in follow}
  BY <1>4, <1>5
<1>13. rows = whole
  BY <1>4, <1>10, <1>11, <1>12
<1>14. RowsAsWhole'
  BY <1>6, <1>13 DEF RowsAsWhole
<1>15. HeldFits(Held)
  BY <1>2 DEF HeldFits, Held
<1>16. HeldFits(fresh)
  <2> SUFFICES ASSUME NEW h \in fresh, h.done
               PROVE  /\ h.lines = {l \in lines : l.guid = h.guid}
                      /\ \A l \in h.lines : l \in readable /\ l.at < logNow
                      /\ \E m \in lines : m.guid = h.guid /\ m.by # Rest /\ m.at + FollowAfter <= logNow
    BY DEF HeldFits
  <2>1. PICK g \in wanted : h.guid = g /\ h.lines = LinesNow(g) /\ h.done = NoneToCome(LastAt(q.seen, g), q.end)
    <3>1. PICK r \in got : h = [guid |-> r.guid, lines |-> r.lines, newest |-> LastAt(q.seen, r.guid),
                                done |-> NoneToCome(LastAt(q.seen, r.guid), q.end)]
      OBVIOUS
    <3>2. PICK g \in wanted : r = RowNow(g)
      BY <1>8
    <3>3. r.guid = g /\ r.lines = LinesNow(g)
      BY <3>2 DEF RowNow
    <3>4. h.guid = r.guid /\ h.lines = r.lines /\ h.done = NoneToCome(LastAt(q.seen, r.guid), q.end)
      BY <3>1
    <3> QED
      BY <3>3, <3>4
  <2>2. g \in GuidsOf(AllOf(q.seen)) /\ NoneToCome(LastAt(q.seen, g), q.end)
    BY <1>3, <1>7, <2>1
  <2> QED
    BY <1>2, <2>1, <2>2, DoneIsWhole
<1> HIDE DEF fresh, rows, whole
<1>17. HeldFits(Held \cup fresh)
  BY <1>15, <1>16 DEF HeldFits
<1>18. LinesFit' /\ Together'
  BY <1>1, <1>2, SameLines
<1>19. SeenFits(head.seen, head.floor, head.end)' /\ HeldFits(head.followed)'
  <2> SUFFICES ASSUME NEW next, next = Held \cup fresh
               PROVE  SeenFits(q.seen, q.floor, q.end)' /\ HeldFits(next)'
    BY <1>6
  <2> QED
    BY <1>1, <1>2, <1>17, SameLines
<1> QED
  BY <1>1, <1>14, <1>18, <1>19 DEF ListInv, NoPoll

LEMMA ListSteps ==
  ASSUME ListInv, [LogNext]_logVars
  PROVE  ListInv'
<1>1. CASE LogMoves
  BY <1>1, ListMoves
<1>2. CASE PollWhole
  BY <1>2, PollStartsWhole
<1>3. CASE PollOn
  BY <1>3, PollStartsOn
<1>4. CASE \E lost \in SUBSET Guid : PollEnds(lost)
  BY <1>4, PollAnswers
<1>5. ASSUME UNCHANGED <<logNow, lines, readable, head>>,
             poll' = poll \/ poll' = NoPoll, answer' = answer \/ answer' = NoRows
      PROVE  ListInv'
  <2>1. LinesFit' /\ Together'
    BY <1>5, SameLines DEF ListInv
  <2>2. head'.on => SeenFits(head.seen, head.floor, head.end)' /\ HeldFits(head.followed)'
    <3> SUFFICES ASSUME NEW h, h = head, h.on
                 PROVE  SeenFits(h.seen, h.floor, h.end)' /\ HeldFits(h.followed)'
      BY <1>5
    <3> QED
      BY <1>5, SameLines DEF ListInv
  <2>3. poll'.on => /\ SeenFits(poll.seen, poll.floor, poll.end)' /\ HeldFits(poll.held)'
                    /\ poll'.seen = poll'.whole
    <3> SUFFICES ASSUME NEW q, q = poll, q.on, poll' = poll
                 PROVE  /\ SeenFits(q.seen, q.floor, q.end)' /\ HeldFits(q.held)'
                        /\ q.seen = q.whole
      BY <1>5 DEF NoPoll
    <3> QED
      BY <1>5, SameLines DEF ListInv
  <2>4. RowsAsWhole'
    BY <1>5 DEF ListInv, RowsAsWhole, NoRows
  <2> QED
    BY <2>1, <2>2, <2>3, <2>4 DEF ListInv
<1>6. CASE PollFails
  BY <1>5, <1>6 DEF PollFails
<1>7. CASE PageFirst \/ PageOlder
  BY <1>5, <1>7 DEF PageFirst, PageOlder, Page
<1>8. CASE UNCHANGED logVars
  BY <1>5, <1>8 DEF logVars
<1> QED
  BY <1>1, <1>2, <1>3, <1>4, <1>6, <1>7, <1>8 DEF LogNext, LogMoves

\* A poll that reads on from the last read knows what a read of the whole window
\* would, and answers its rows, whatever lines come late, of however many
\* requests, and whichever of its reads are lost (log-list.ts merged, readList).
THEOREM ListAlwaysWhole == LogSpec => []ListAsWhole
<1>1. LogInit => ListInv
  BY ListStart
<1>2. ListInv /\ [LogNext]_logVars => ListInv'
  BY ListSteps
<1>3. ListInv => ListAsWhole
  BY DEF ListInv, ListAsWhole, PollSeesWhole
<1> QED
  BY <1>1, <1>2, <1>3, PTL DEF LogSpec

-----------------------------------------------------------------------------
(* The lists: paging back. *)

PagesFit ==
  /\ pager.before \in Int
  /\ pager.done => pager.on
  /\ pager.on => \A m \in pager.due : m \in readable /\ m.by # Rest
  /\ pager.on /\ Uncrowded =>
       \A m \in pager.due :
         m.at >= Start /\ (pager.done \/ m.at >= pager.before) => m.guid \in pager.listed

At(t) == {l \in lines : l.at = t /\ l.by # Rest}

LEMMA AtFinite ==
  ASSUME LinesFit, NEW t
  PROVE  /\ IsFiniteSet(At(t)) /\ \A S \in SUBSET At(t) : IsFiniteSet(S) /\ Cardinality(S) \in Nat
         /\ IsFiniteSet(GuidsOf(At(t))) /\ Cardinality(GuidsOf(At(t))) \in Nat
<1>1. At(t) \in SUBSET lines /\ IsFiniteSet(lines) /\ lines \subseteq Line
  BY DEF At, LinesFit
<1>2. IsFiniteSet(At(t))
  BY <1>1, FS_Subset
<1>3. GuidsOf(At(t)) \in SUBSET Guid /\ IsFiniteSet(Guid)
  BY <1>1, LineIs, FinderAssumption DEF GuidsOf
<1> QED
  BY <1>2, <1>3, FS_Subset, FS_CardinalityType

\* Lines only come to a time.
LEMMA CrowdGrows ==
  ASSUME LinesFit, LinesFit', lines \subseteq lines', Uncrowded'
  PROVE  Uncrowded
<1> USE LogConstants
<1> SUFFICES ASSUME NEW t \in LogTime
             PROVE  /\ Cardinality(GuidsOf(At(t))) <= Cap
                    /\ \A f \in Finder : Cardinality({l \in At(t) : l.by = f}) <= LimitOf[f]
  BY DEF Uncrowded, At
<1> DEFINE later == {l \in lines' : l.at = t /\ l.by # Rest}
<1>1. /\ Cardinality(GuidsOf(later)) <= Cap
      /\ \A f \in Finder : Cardinality({l \in later : l.by = f}) <= LimitOf[f]
  BY DEF Uncrowded
<1>2. At(t) \in SUBSET later /\ later \in SUBSET lines'
  BY DEF At
<1>3. IsFiniteSet(later) /\ IsFiniteSet(GuidsOf(later))
  <2>1. IsFiniteSet(lines') /\ lines' \subseteq Line
    BY DEF LinesFit
  <2>2. GuidsOf(later) \in SUBSET Guid /\ IsFiniteSet(Guid)
    BY <1>2, <2>1, LineIs, FinderAssumption DEF GuidsOf
  <2> HIDE DEF later
  <2> QED
    BY <1>2, <2>1, <2>2, FS_Subset
<1> HIDE DEF later
<1>4. Cardinality(GuidsOf(At(t))) <= Cap
  <2>1. GuidsOf(At(t)) \in SUBSET GuidsOf(later)
    BY <1>2 DEF GuidsOf
  <2>2. /\ Cardinality(GuidsOf(At(t))) <= Cardinality(GuidsOf(later))
        /\ Cardinality(GuidsOf(At(t))) \in Nat /\ Cardinality(GuidsOf(later)) \in Nat
    BY <1>3, <2>1, FS_Subset, FS_CardinalityType
  <2> QED
    BY <1>1, <2>2
<1>5. ASSUME NEW f \in Finder PROVE Cardinality({l \in At(t) : l.by = f}) <= LimitOf[f]
  <2> DEFINE A == {l \in At(t) : l.by = f}
             B == {l \in later : l.by = f}
  <2>1. A \in SUBSET B /\ B \in SUBSET later
    BY <1>2
  <2>2. Cardinality(B) <= LimitOf[f] /\ LimitOf[f] \in Nat
    BY <1>1
  <2> HIDE DEF A, B
  <2>3. IsFiniteSet(B)
    BY <1>3, <2>1, FS_Subset
  <2>4. Cardinality(A) <= Cardinality(B) /\ Cardinality(A) \in Nat /\ Cardinality(B) \in Nat
    BY <2>1, <2>3, FS_Subset, FS_CardinalityType
  <2>5. Cardinality(A) <= LimitOf[f]
    BY <2>2, <2>4
  <2> QED
    BY <2>5 DEF A
<1> QED
  BY <1>4, <1>5

\* What one page has to tell: its seen lines, and what bounds the next page.
Cuts(seen) == {Lowest({l.at : l \in seen[f]}) : f \in {x \in Finder : Full(x, seen[x])}}
Left(seen) == {LastAt(seen, g) : g \in GuidsOf(AllOf(seen)) \ Kept(seen)}
Bounds(seen, floor, start) == Cuts(seen) \cup Left(seen) \cup (IF floor > start THEN {floor} ELSE {})

LEMMA PageFinds ==
  ASSUME LinesFit, NEW floor \in Int, NEW end \in Int,
         NEW seen, seen = [f \in Finder |-> Found(f, floor, end)]
  PROVE  /\ Finds(seen, end)
         /\ \A f \in Finder : seen[f] = Newest(LinesOf(f, floor, end), LimitOf[f])
         /\ \A f \in Finder : LinesOf(f, floor, end) \in SUBSET readable
         /\ \A f \in Finder : \A l \in LinesOf(f, floor, end) : l.by = f
<1>1. \A f \in Finder : seen[f] = Newest(LinesOf(f, floor, end), LimitOf[f])
  BY DEF Found, LinesOf
<1>2. \A f \in Finder : seen[f] \in SUBSET LinesOf(f, floor, end)
  BY <1>1, NewestIn
<1>3. \A f \in Finder : \A l \in LinesOf(f, floor, end) : l \in readable /\ l.by = f /\ l.at < end
  BY DEF LinesOf
<1> QED
  BY <1>1, <1>2, <1>3 DEF Finds

\* A finder at its limit is cut where its oldest line is.
LEMMA CutIs ==
  ASSUME LinesFit, NEW seen, NEW end, Finds(seen, end), NEW f \in Finder, Full(f, seen[f])
  PROVE  \E m \in seen[f] : m.at \in Nat /\ m.at \in Cuts(seen)
<1> USE LogConstants
<1> DEFINE T == {l.at : l \in seen[f]}
<1>1. seen[f] # {}
  BY FS_EmptySet DEF Full
<1>2. T \in SUBSET Nat /\ T # {}
  <2>1. \A l \in seen[f] : l.at \in Nat
    BY SeenLines
  <2> QED
    BY <1>1, <2>1
<1>3. Lowest(T) \in T
  <2> HIDE DEF T
  <2> QED
    BY <1>2, Lowermost
<1>4. Lowest(T) \in Cuts(seen)
  BY DEF Cuts
<1> QED
  BY <1>2, <1>3, <1>4

\* A line that is newer than every bound has been found, and its request kept.
LEMMA AboveBounds ==
  ASSUME LinesFit, NEW floor \in Int, NEW end \in Int, NEW start \in Int,
         floor = start \/ floor > start,
         NEW seen, seen = [f \in Finder |-> Found(f, floor, end)],
         NEW m \in readable, m.by # Rest, start <= m.at, m.at < end,
         \A b \in Bounds(seen, floor, start) : b < m.at
  PROVE  m.guid \in Kept(seen)
<1> USE LogConstants
<1>1. m \in lines /\ m.at \in Nat /\ m.by \in Finder
  BY LineIs DEF LinesFit
<1> DEFINE S == LinesOf(m.by, floor, end)
<1>2. /\ Finds(seen, end) /\ seen[m.by] = Newest(S, LimitOf[m.by])
      /\ S \in SUBSET readable /\ \A l \in S : l.by = m.by
  BY <1>1, PageFinds
<1>3. floor <= m.at
  BY <1>1 DEF Bounds
<1>4. m \in S
  BY <1>3 DEF LinesOf
<1>5. m \in seen[m.by]
  <2> SUFFICES ASSUME m \notin seen[m.by] PROVE FALSE
    OBVIOUS
  <2>1. Full(m.by, seen[m.by]) /\ \A k \in seen[m.by] : Newer(k, m)
    <3> HIDE DEF S
    <3> QED
      BY <1>1, <1>2, <1>4, FullOrAll
  <2>2. PICK k \in seen[m.by] : k.at \in Nat /\ k.at \in Cuts(seen)
    BY <1>1, <1>2, <2>1, CutIs
  <2>3. k.at < m.at
    BY <2>2 DEF Bounds
  <2> QED
    BY <1>1, <2>1, <2>2, <2>3 DEF Newer
<1>6. m \in AllOf(seen) /\ m.guid \in GuidsOf(AllOf(seen))
  BY <1>1, <1>5 DEF AllOf, GuidsOf
<1>7. LastAt(seen, m.guid) \in Nat /\ m.at <= LastAt(seen, m.guid)
  BY <1>2, <1>6, LastIs
<1>8. ~(LastAt(seen, m.guid) < m.at)
  BY <1>1, <1>7
<1> QED
  BY <1>6, <1>8 DEF Bounds, Left

\* So has, on an uncrowded log, a line of the last moment before the end.
LEMMA LastMoment ==
  ASSUME LinesFit, Uncrowded, NEW floor \in Int, NEW end \in Int, floor < end,
         NEW seen, seen = [f \in Finder |-> Found(f, floor, end)],
         NEW m \in readable, m.by # Rest, m.at = end - 1
  PROVE  m.guid \in Kept(seen)
<1> USE LogConstants
<1>1. m \in lines /\ m.at \in Nat /\ m.at \in LogTime /\ m.by \in Finder /\ m.guid \in Nat
  BY LineIs DEF LinesFit, Line
<1> DEFINE S == LinesOf(m.by, floor, end)
           n == LimitOf[m.by]
<1>2. /\ Finds(seen, end) /\ seen[m.by] = Newest(S, n)
      /\ S \in SUBSET readable /\ \A l \in S : l.by = m.by
  <2> HIDE DEF S
  <2>1. /\ Finds(seen, end)
        /\ \A f \in Finder : seen[f] = Newest(LinesOf(f, floor, end), LimitOf[f])
        /\ \A f \in Finder : LinesOf(f, floor, end) \in SUBSET readable
        /\ \A f \in Finder : \A l \in LinesOf(f, floor, end) : l.by = f
    BY PageFinds
  <2> QED
    BY <1>1, <2>1 DEF S
<1>3. m \in S /\ n \in Nat
  BY <1>1 DEF LinesOf
<1>4. /\ Cardinality(GuidsOf(At(m.at))) <= Cap
      /\ Cardinality({l \in At(m.at) : l.by = m.by}) <= n
  BY <1>1 DEF Uncrowded, At
<1>5. m \in seen[m.by]
  <2> DEFINE A == {k \in S : Newer(k, m)}
             B == {l \in At(m.at) : l.by = m.by}
  <2>1. ASSUME NEW k \in A PROVE k \in B \ {m}
    <3>1. k \in readable /\ k.by = m.by /\ k.at < end /\ Newer(k, m)
      BY DEF LinesOf
    <3>2. k \in lines /\ k.at \in Nat /\ k.guid \in Nat
      BY <3>1, LineIs DEF LinesFit
    <3>3. k.at = m.at /\ k # m
      BY <1>1, <3>1, <3>2 DEF Newer
    <3> QED
      BY <1>1, <3>1, <3>2, <3>3 DEF At
  <2>2. A \in SUBSET (B \ {m}) /\ m \in B /\ B \in SUBSET At(m.at)
    BY <1>1, <2>1 DEF At
  <2>3. Cardinality(A) < n
    <3> HIDE DEF A, B, n
    <3>1. IsFiniteSet(B) /\ Cardinality(B) \in Nat
      BY <2>2, AtFinite
    <3>2. IsFiniteSet(B \ {m}) /\ Cardinality(B \ {m}) = Cardinality(B) - 1
      BY <2>2, <3>1, FS_RemoveElement
    <3>3. Cardinality(A) <= Cardinality(B \ {m}) /\ Cardinality(A) \in Nat
      BY <2>2, <3>2, FS_Subset, FS_CardinalityType
    <3>4. Cardinality(B) <= n
      BY <1>4 DEF B
    <3> QED
      BY <1>3, <3>1, <3>2, <3>3, <3>4
  <2> QED
    BY <1>2, <1>3, <2>3 DEF Newest
<1>6. m \in AllOf(seen) /\ m.guid \in GuidsOf(AllOf(seen))
  BY <1>1, <1>5 DEF AllOf, GuidsOf
<1> DEFINE first == {[at |-> LastAt(seen, g), guid |-> g] : g \in GuidsOf(AllOf(seen))}
           x == [at |-> LastAt(seen, m.guid), guid |-> m.guid]
           Above == {y \in first : Newer(y, x)}
           G == GuidsOf(At(m.at))
<1>7. x \in first /\ x.at = m.at /\ x.guid = m.guid
  <2>1. LastAt(seen, m.guid) \in Nat /\ m.at <= LastAt(seen, m.guid) /\ LastAt(seen, m.guid) < end
    BY <1>2, <1>6, LastIs
  <2> QED
    BY <1>1, <1>6, <2>1
<1>8. ASSUME NEW y \in Above PROVE y.guid \in G \ {m.guid} /\ y.at = m.at
  <2>1. PICK g \in GuidsOf(AllOf(seen)) : y = [at |-> LastAt(seen, g), guid |-> g]
    OBVIOUS
  <2>2. /\ LastAt(seen, g) \in Nat /\ LastAt(seen, g) < end
        /\ \E k \in AllOf(seen) : k.guid = g /\ k.at = LastAt(seen, g)
    BY <1>2, LastIs
  <2>3. PICK k \in AllOf(seen) : k.guid = g /\ k.at = LastAt(seen, g)
    BY <2>2
  <2>4. k \in lines /\ k.by # Rest /\ k.guid \in Nat
    BY <1>2, SeenLines
  <2>5. y.at = LastAt(seen, g) /\ y.guid = g /\ Newer(y, x)
    BY <2>1
  <2> HIDE DEF x
  <2>6. y.at = m.at /\ y.guid < m.guid
    BY <1>1, <1>7, <2>2, <2>5 DEF Newer
  <2>7. g \in G
    BY <2>3, <2>4, <2>5, <2>6 DEF At, GuidsOf
  <2> QED
    BY <1>1, <2>3, <2>4, <2>5, <2>6, <2>7
<1>9. m.guid \in G
  BY <1>1 DEF At, GuidsOf
<1> HIDE DEF G
<1>10. IsFiniteSet(G) /\ Cardinality(G) \in Nat /\ Cardinality(G) <= Cap
  BY <1>4, AtFinite DEF G
<1>11. Cardinality(Above) < Cap
  <2>1. IsFiniteSet(G \ {m.guid}) /\ Cardinality(G \ {m.guid}) = Cardinality(G) - 1
    BY <1>9, <1>10, FS_RemoveElement
  <2> DEFINE h == [y \in Above |-> y.guid]
  <2>2. \A y \in Above : \E g \in GuidsOf(AllOf(seen)) : y = [at |-> LastAt(seen, g), guid |-> g]
    OBVIOUS
  <2> HIDE DEF Above
  <2>3. h \in Injection(Above, G \ {m.guid})
    <3>1. h \in [Above -> G \ {m.guid}]
      BY <1>8
    <3>2. \A y, z \in Above : h[y] = h[z] => y = z
      BY <2>2
    <3> QED
      BY <3>1, <3>2 DEF Injection, IsInjective
  <2> HIDE DEF h
  <2>4. IsFiniteSet(Above) /\ Cardinality(Above) <= Cardinality(G \ {m.guid})
    BY <2>1, <2>3, FS_Injection
  <2>5. Cardinality(Above) \in Nat
    BY <2>4, FS_CardinalityType
  <2> QED
    BY <1>10, <2>1, <2>4, <2>5
<1>12. x \in Newest(first, Cap)
  BY <1>7, <1>11 DEF Newest
<1>13. Kept(seen) = GuidsOf(Newest(first, Cap))
  BY DEF Kept
<1> HIDE DEF first, x
<1> QED
  BY <1>7, <1>12, <1>13 DEF GuidsOf

LEMMA BoundsAre ==
  ASSUME LinesFit, NEW floor \in Int, NEW end \in Int, NEW start \in Int, floor < end \/ floor = start,
         NEW seen, seen = [f \in Finder |-> Found(f, floor, end)]
  PROVE  \A b \in Bounds(seen, floor, start) : b \in Int /\ b < end
<1> USE LogConstants
<1>1. Finds(seen, end)
  BY PageFinds
<1>2. ASSUME NEW f \in Finder, Full(f, seen[f])
      PROVE  Lowest({l.at : l \in seen[f]}) \in Int /\ Lowest({l.at : l \in seen[f]}) < end
  <2> DEFINE T == {l.at : l \in seen[f]}
  <2>1. \A l \in seen[f] : l.at \in Nat /\ l.at < end
    BY <1>1, SeenLines
  <2>2. seen[f] # {}
    <3>1. Cardinality(seen[f]) >= LimitOf[f] /\ LimitOf[f] \in Nat /\ LimitOf[f] > 0
      BY <1>2 DEF Full
    <3> QED
      BY <3>1, FS_EmptySet
  <2>3. T \in SUBSET Nat /\ T # {} /\ \A k \in T : k < end
    BY <2>1, <2>2
  <2>4. Lowest(T) \in T
    <3> HIDE DEF T
    <3> QED
      BY <2>3, Lowermost
  <2>5. \A k \in T : k \in Int /\ k < end
    BY <2>1
  <2> HIDE DEF T
  <2>6. Lowest(T) \in Int /\ Lowest(T) < end
    BY <2>4, <2>5
  <2> QED
    BY <2>6 DEF T
<1>3. \A b \in Cuts(seen) : b \in Int /\ b < end
  BY <1>2 DEF Cuts
<1>4. \A g \in GuidsOf(AllOf(seen)) : LastAt(seen, g) \in Int /\ LastAt(seen, g) < end
  BY <1>1, LastIs
<1>5. \A b \in Left(seen) : b \in Int /\ b < end
  BY <1>4 DEF Left
<1> QED
  BY <1>3, <1>5 DEF Bounds

LEMMA HighestOne == ASSUME NEW v \in Int PROVE Highest({v}) = v
<1>1. Highest({v}) \in {v}
  BY Uppermost
<1> QED
  BY <1>1

\* The next page ends just above every bound, or at this one's last moment.
Bounded(next, bounds, end) ==
  \/ next = {} /\ bounds = {}
  \/ \E v \in Int : next = {v} /\ ((\A b \in bounds : b < v) \/ v = end - 1)

\* Where the next page ends.
LEMMA NextIs ==
  ASSUME LinesFit, NEW floor \in Int, NEW end \in Int, NEW start \in Int, floor < end \/ floor = start,
         NEW seen, seen = [f \in Finder |-> Found(f, floor, end)]
  PROVE  Bounded(NextBefore(seen, floor, start, end), Bounds(seen, floor, start), end)
<1> SUFFICES ASSUME NEW next, next = NextBefore(seen, floor, start, end)
             PROVE  \/ next = {} /\ Bounds(seen, floor, start) = {}
                    \/ \E v \in Int :
                         /\ next = {v}
                         /\ \/ \A b \in Bounds(seen, floor, start) : b < v
                            \/ v = end - 1
  BY DEF Bounded
<1> DEFINE B == Bounds(seen, floor, start)
<1>1. next = IF B = {} THEN {}
             ELSE IF Highest(B) + Seam < end THEN {Highest(B) + Seam} ELSE {end - Seam}
  BY DEF NextBefore, Bounds, Cuts, Left
<1>2. \A b \in B : b \in Int /\ b < end
  BY BoundsAre
<1>3. CASE B = {}
  BY <1>1, <1>3
<1>4. CASE B # {}
  <2> HIDE DEF B
  <2>1. B \in SUBSET Int /\ \A b \in B : b <= end
    BY <1>2
  <2>2. Highest(B) \in B /\ \A b \in B : b <= Highest(B)
    BY <1>4, <2>1, Uppermost
  <2> DEFINE h == Highest(B)
  <2>5. h \in Int /\ \A b \in B : b \in Int /\ b <= h
    BY <1>2, <2>2 DEF B
  <2>3. CASE h + Seam < end
    <3>1. next = {h + 1} /\ h + 1 \in Int
      BY <1>1, <1>4, <2>3, <2>5 DEF Seam
    <3>2. \A b \in B : b < h + 1
      <4> HIDE DEF h
      <4> QED
        BY <2>5
    <3> QED
      BY <3>1, <3>2, HighestOne DEF B
  <2>4. CASE ~(h + Seam < end)
    <3>1. next = {end - 1} /\ end - 1 \in Int
      BY <1>1, <1>4, <2>4 DEF Seam
    <3> QED
      BY <3>1, HighestOne
  <2> QED
    BY <2>3, <2>4
<1> QED
  BY <1>3, <1>4

\* A page adds what it found, and hands on the rest.
LEMMA PageTells ==
  ASSUME LinesFit, NEW end \in Int, NEW due, NEW listed, Page(end, due, listed),
         \A m \in due : m \in readable /\ m.by # Rest,
         Uncrowded => \A m \in due : m.at >= Start /\ m.at >= end => m.guid \in listed
  PROVE  PagesFit'
<1> USE LogConstants
<1> SUFFICES ASSUME NEW start, start = Start PROVE PagesFit'
  OBVIOUS
<1>1. start \in Int /\ start = logNow - Window /\ logNow \in Nat
  BY DEF LinesFit, Start
<1>2. PICK floor \in Floors(start, end) :
        LET seen == [f \in Finder |-> Found(f, floor, end)]
            next == NextBefore(seen, floor, start, end)
        IN  /\ pager' = [on |-> TRUE, before |-> IF next = {} THEN 0 ELSE Highest(next),
                         due |-> due, listed |-> listed \cup Kept(seen), done |-> next = {}]
            /\ UNCHANGED <<logNow, lines, readable>>
  BY DEF Page
<1>3. /\ floor \in Int
      /\ floor = start \/ floor > start
      /\ floor = start \/ floor < end
  BY <1>1 DEF Floors
<1>4. SUFFICES ASSUME NEW seen, seen = [f \in Finder |-> Found(f, floor, end)],
                      NEW next, next = NextBefore(seen, floor, start, end)
               PROVE  PagesFit'
  OBVIOUS
<1>5. /\ pager' = [on |-> TRUE, before |-> IF next = {} THEN 0 ELSE Highest(next),
                   due |-> due, listed |-> listed \cup Kept(seen), done |-> next = {}]
      /\ UNCHANGED <<logNow, lines, readable>>
  BY <1>2, <1>4
<1>6. \/ next = {} /\ Bounds(seen, floor, start) = {}
      \/ \E v \in Int :
           /\ next = {v} /\ Highest(next) = v
           /\ \/ \A b \in Bounds(seen, floor, start) : b < v
              \/ v = end - 1
  <2>1. LinesFit /\ floor \in Int /\ end \in Int /\ start \in Int /\ (floor < end \/ floor = start)
    BY <1>1, <1>3
  <2>2. Bounded(NextBefore(seen, floor, start, end), Bounds(seen, floor, start), end)
    BY <2>1, <1>4, NextIs
  <2> QED
    BY <2>2, <1>4, HighestOne DEF Bounded
<1>7. pager'.before \in Int
  BY <1>5, <1>6
<1>8. ASSUME Uncrowded, NEW m \in due, m.at >= start, next = {} \/ m.at >= Highest(next)
      PROVE  m.guid \in listed \cup Kept(seen)
  <2>1. m \in readable /\ m.by # Rest /\ m.at \in Nat
    BY LineIs DEF LinesFit
  <2>2. CASE m.at >= end
    BY <1>8, <2>2
  <2>3. CASE m.at < end
    <3>1. CASE \A b \in Bounds(seen, floor, start) : b < m.at
      BY <1>1, <1>3, <1>4, <1>8, <2>1, <2>3, <3>1, AboveBounds
    <3>2. CASE m.at = end - 1
      <4>1. floor < end
        BY <1>1, <1>3, <1>8, <2>1, <2>3
      <4> QED
        BY <1>3, <1>4, <1>8, <2>1, <3>2, <4>1, LastMoment
    <3>3. CASE next # {}
      <4>1. PICK v \in Int :
              /\ next = {v} /\ Highest(next) = v
              /\ \/ \A b \in Bounds(seen, floor, start) : b < v
                 \/ v = end - 1
        BY <1>6, <3>3
      <4>2. m.at >= v
        BY <1>8, <3>3, <4>1
      <4>3. CASE v = end - 1
        BY <2>1, <2>3, <3>2, <4>2, <4>3
      <4>4. CASE \A b \in Bounds(seen, floor, start) : b < v
        <5>1. \A b \in Bounds(seen, floor, start) : b \in Int
          BY <1>1, <1>3, <1>4, BoundsAre
        <5> QED
          BY <2>1, <3>1, <4>2, <4>4, <5>1
      <4> QED
        BY <4>1, <4>3, <4>4
    <3> QED
      BY <1>6, <3>1, <3>3
  <2> QED
    BY <2>1, <2>2, <2>3
<1>9. Uncrowded' => Uncrowded
  BY <1>5 DEF Uncrowded
<1>10. Start' = start
  BY <1>5 DEF Start
<1> QED
  BY <1>5, <1>7, <1>8, <1>9, <1>10 DEF PagesFit

LEMMA PagesStep ==
  ASSUME ListInv, ListInv', PagesFit, [LogNext]_logVars
  PROVE  PagesFit'
<1> USE LogConstants
<1>0. LinesFit /\ LinesFit' /\ logNow \in Nat
  BY DEF ListInv, LinesFit
<1>1. ASSUME pager' = pager, lines \subseteq lines', readable \subseteq readable',
             logNow' = logNow \/ logNow' = logNow + 2
      PROVE  PagesFit'
  <2>1. Uncrowded' => Uncrowded
    BY <1>0, <1>1, CrowdGrows
  <2>2. Start \in Int /\ Start' \in Int /\ Start <= Start'
    BY <1>0, <1>1 DEF Start
  <2> SUFFICES ASSUME NEW q, q = pager
               PROVE  /\ q.before \in Int /\ (q.done => q.on)
                      /\ q.on => \A m \in q.due : m \in readable' /\ m.by # Rest
                      /\ q.on /\ Uncrowded' =>
                           \A m \in q.due :
                             m.at >= Start' /\ (q.done \/ m.at >= q.before) => m.guid \in q.listed
    BY <1>1 DEF PagesFit
  <2>3. /\ q.before \in Int /\ (q.done => q.on)
        /\ q.on => \A m \in q.due : m \in readable /\ m.by # Rest
        /\ q.on /\ Uncrowded =>
             \A m \in q.due :
               m.at >= Start /\ (q.done \/ m.at >= q.before) => m.guid \in q.listed
    BY DEF PagesFit
  <2>4. \A m \in readable : m.at \in Nat
    BY <1>0, LineIs DEF LinesFit
  <2>5. \A m \in readable : m.at >= Start' => m.at >= Start
    BY <2>2, <2>4
  <2> QED
    BY <1>1, <2>1, <2>3, <2>5
<1>2. CASE LogMoves
  BY <1>1, <1>2 DEF LogMoves, Write, Arrive, LogTick
<1>3. CASE PollWhole \/ PollOn \/ PollFails
  BY <1>1, <1>3 DEF PollWhole, PollOn, PollFails, PollBegins
<1>4. CASE \E lost \in SUBSET Guid : PollEnds(lost)
  BY <1>1, <1>4 DEF PollEnds
<1>5. CASE UNCHANGED logVars
  BY <1>1, <1>5 DEF logVars
<1>6. CASE PageFirst
  <2> DEFINE due == {l \in readable : l.by # Rest /\ Start <= l.at /\ l.at < logNow}
  <2>1. Page(logNow, due, {})
    BY <1>6 DEF PageFirst
  <2>2. \A m \in due : m \in readable /\ m.by # Rest /\ ~(m.at >= logNow)
    <3>1. \A m \in readable : m.at \in Nat
      BY <1>0, LineIs DEF LinesFit
    <3> QED
      BY <1>0, <3>1
  <2> HIDE DEF due
  <2> QED
    BY <1>0, <2>1, <2>2, PageTells
<1>7. CASE PageOlder
  <2>1. pager.on /\ ~pager.done /\ Page(pager.before, pager.due, pager.listed)
    BY <1>7 DEF PageOlder
  <2>2. /\ pager.before \in Int
        /\ \A m \in pager.due : m \in readable /\ m.by # Rest
        /\ Uncrowded => \A m \in pager.due :
             m.at >= Start /\ m.at >= pager.before => m.guid \in pager.listed
    BY <2>1 DEF PagesFit
  <2> SUFFICES ASSUME NEW q, q = pager PROVE PagesFit'
    OBVIOUS
  <2>3. /\ Page(q.before, q.due, q.listed) /\ q.before \in Int
        /\ \A m \in q.due : m \in readable /\ m.by # Rest
        /\ Uncrowded => \A m \in q.due :
             m.at >= Start /\ m.at >= q.before => m.guid \in q.listed
    BY <2>1, <2>2
  <2> QED
    BY <1>0, <2>3, PageTells
<1> QED
  BY <1>2, <1>3, <1>4, <1>5, <1>6, <1>7 DEF LogNext, LogMoves

\* Whoever pages back to the end is shown every request that the first page
\* could find and that is still in the window, however many requests, finders
\* and pages there are, wherever the reads are cut down and whatever is written
\* meanwhile - unless a moment holds more than a read keeps (readOnFrom).
THEOREM PagesAlwaysWhole == LogSpec => []PagesSkipNothing
<1>1. LogInit => ListInv /\ PagesFit
  BY ListStart DEF LogInit, NoPager, PagesFit
<1>2. ListInv /\ PagesFit /\ [LogNext]_logVars => ListInv' /\ PagesFit'
  BY ListSteps, PagesStep
<1>3. ListInv /\ PagesFit => PagesSkipNothing
  <2> SUFFICES ASSUME LinesFit, PagesFit, pager.done, Uncrowded, NEW g \in GuidsOf(pager.due),
                      Highest({l.at : l \in {m \in pager.due : m.guid = g}}) >= Start
               PROVE  g \in pager.listed
    BY DEF ListInv, PagesSkipNothing
  <2> DEFINE T == {l.at : l \in {m \in pager.due : m.guid = g}}
  <2>1. pager.on /\ \A m \in pager.due : m \in readable /\ m.by # Rest
    BY DEF PagesFit
  <2>2. \A m \in pager.due : m.at \in Nat /\ m.at <= logNow
    BY <2>1, LineIs DEF LinesFit
  <2>3. PICK k \in pager.due : k.guid = g
    BY DEF GuidsOf
  <2>4. T \in SUBSET Int /\ T # {} /\ (\A t \in T : t <= logNow) /\ logNow \in Int
    <3>1. k.at \in T
      BY <2>3
    <3> QED
      BY <2>2, <3>1, LogConstants DEF LinesFit
  <2>5. Highest(T) \in T
    <3> HIDE DEF T
    <3> QED
      BY <2>4, Uppermost
  <2>6. PICK m \in pager.due : m.guid = g /\ m.at = Highest(T)
    BY <2>5
  <2> QED
    BY <2>1, <2>6 DEF PagesFit
<1> QED
  BY <1>1, <1>2, <1>3, PTL DEF LogSpec

-----------------------------------------------------------------------------
(* The lists: their types. *)

TypesFit ==
  /\ LogTypeOK
  /\ head.end \in Int /\ head.wholeAt \in Int
  /\ poll.end \in Int /\ poll.wholeAt \in Int
  /\ poll.end <= logNow /\ poll.wholeAt <= poll.end

LEMMA TypesStart == LogInit => TypesFit
<1> SUFFICES ASSUME LogInit PROVE TypesFit
  OBVIOUS
<1>1. LinesFit
  BY ListStart DEF ListInv
<1> QED
  BY <1>1 DEF LogInit, NoHead, NoPoll, NoPager, TypesFit, LogTypeOK, LinesFit

LEMMA FoundLines ==
  ASSUME LinesFit, NEW f \in Finder, NEW from, NEW to
  PROVE  Found(f, from, to) \in SUBSET Line
<1>1. Found(f, from, to) \in SUBSET {l \in readable : l.by = f /\ from <= l.at /\ l.at < to}
  BY NewestIn DEF Found
<1> QED
  BY <1>1 DEF LinesFit

LEMMA MergedLines ==
  ASSUME LinesFit, head.seen \in [Finder -> SUBSET Line],
         NEW f \in Finder, NEW fresh \in SUBSET Line, NEW start, NEW from
  PROVE  Merged(f, fresh, start, from) \in SUBSET Line
<1> DEFINE all == fresh \cup {l \in head.seen[f] : start <= l.at /\ l.at < from}
<1>1. all \in SUBSET Line
  OBVIOUS
<1>2. Newest(all, LimitOf[f]) \in SUBSET all
  <2> HIDE DEF all
  <2> QED
    BY NewestIn
<1> QED
  BY <1>1, <1>2 DEF Merged

LEMMA TypesStep ==
  ASSUME ListInv', TypesFit, LinesFit, [LogNext]_logVars
  PROVE  TypesFit'
<1> USE LogConstants
<1>1. LinesFit' /\ logNow \in Nat
  BY DEF ListInv, LinesFit
<1>2. ASSUME UNCHANGED <<head, poll, pager>>, logNow' = logNow \/ logNow' = logNow + 2
      PROVE  TypesFit'
  BY <1>1, <1>2 DEF TypesFit, LogTypeOK, LinesFit
<1>3. CASE LogMoves
  BY <1>2, <1>3 DEF LogMoves, Write, Arrive, LogTick
<1>4. ASSUME NEW floor, NEW wholeAt \in Int, wholeAt <= logNow, NEW seen \in [Finder -> SUBSET Line],
             NEW held, PollBegins(floor, wholeAt, seen, held)
      PROVE  TypesFit'
  BY <1>1, <1>4 DEF PollBegins, TypesFit, LogTypeOK, LinesFit
<1>5. CASE PollWhole
  <2>1. PICK floor \in Floors(Start, logNow) :
          PollBegins(floor, logNow, [f \in Finder |-> Found(f, floor, logNow)], {})
    BY <1>5 DEF PollWhole
  <2>2. [f \in Finder |-> Found(f, floor, logNow)] \in [Finder -> SUBSET Line]
    BY FoundLines
  <2> QED
    BY <1>1, <1>4, <2>1, <2>2
<1>6. CASE PollOn
  <2>1. PollBegins(head.floor, head.wholeAt,
          [f \in Finder |-> Merged(f, Found(f, From, logNow), Start, From)], head.followed)
    BY <1>6 DEF PollOn
  <2>2. [f \in Finder |-> Merged(f, Found(f, From, logNow), Start, From)] \in [Finder -> SUBSET Line]
    BY FoundLines, MergedLines DEF TypesFit, LogTypeOK
  <2>3. head.wholeAt \in Int /\ head.wholeAt <= logNow
    BY <1>1 DEF TypesFit, LogTypeOK
  <2> SUFFICES ASSUME NEW h, h = head PROVE TypesFit'
    OBVIOUS
  <2>4. /\ PollBegins(h.floor, h.wholeAt,
             [f \in Finder |-> Merged(f, Found(f, From, logNow), Start, From)], h.followed)
        /\ h.wholeAt \in Int /\ h.wholeAt <= logNow
    BY <2>1, <2>3
  <2> QED
    BY <1>4, <2>2, <2>4
<1>7. CASE \E lost \in SUBSET Guid : PollEnds(lost)
  <2>1. /\ UNCHANGED <<logNow, lines, readable, pager>> /\ poll' = NoPoll
        /\ head'.seen = poll.seen /\ head'.end = poll.end /\ head'.wholeAt = poll.wholeAt
    BY <1>7 DEF PollEnds
  <2> QED
    BY <1>1, <2>1 DEF NoPoll, TypesFit, LogTypeOK, LinesFit
<1>8. CASE PollFails
  BY <1>1, <1>8 DEF PollFails, NoPoll, TypesFit, LogTypeOK, LinesFit
<1>9. ASSUME NEW end, NEW due, NEW listed \in SUBSET Guid, Page(end, due, listed)
      PROVE  TypesFit'
  <2>1. PICK floor : /\ pager'.listed = listed \cup Kept([f \in Finder |-> Found(f, floor, end)])
                     /\ UNCHANGED <<logNow, lines, readable, head, poll>>
    BY <1>9 DEF Page
  <2> DEFINE seen == [f \in Finder |-> Found(f, floor, end)]
  <2>2. AllOf(seen) \in SUBSET Line
    BY FoundLines DEF AllOf
  <2> HIDE DEF seen
  <2>3. \A l \in Line : l.guid \in Guid
    BY DEF Line
  <2>4. GuidsOf(AllOf(seen)) \in SUBSET Guid
    BY <2>2, <2>3 DEF GuidsOf
  <2>5. Kept(seen) \in SUBSET Guid
    BY <2>4, KeptFound
  <2>6. pager'.listed \in SUBSET Guid
    BY <2>1, <2>5 DEF seen
  <2> QED
    BY <1>1, <2>1, <2>6 DEF TypesFit, LogTypeOK, LinesFit
<1>10. CASE PageFirst
  BY <1>9, <1>10 DEF PageFirst
<1>11. CASE PageOlder
  <2> SUFFICES ASSUME NEW q, q = pager PROVE TypesFit'
    OBVIOUS
  <2>1. Page(q.before, q.due, q.listed) /\ q.listed \in SUBSET Guid
    BY <1>11 DEF PageOlder, TypesFit, LogTypeOK
  <2> QED
    BY <1>9, <2>1
<1>12. CASE UNCHANGED logVars
  BY <1>2, <1>12 DEF logVars
<1> QED
  BY <1>3, <1>5, <1>6, <1>7, <1>8, <1>10, <1>11, <1>12 DEF LogNext, LogMoves

\* The lists' variables keep their types: a read ends by now, and the last whole
\* one by then (log-list.ts ListHead).
THEOREM ListTypeCorrect == LogSpec => []LogTypeOK
<1>1. LogInit => ListInv /\ TypesFit
  BY ListStart, TypesStart
<1>2. ListInv /\ TypesFit /\ [LogNext]_logVars => ListInv' /\ TypesFit'
  BY ListSteps, TypesStep DEF ListInv
<1>3. TypesFit => LogTypeOK
  BY DEF TypesFit
<1> QED
  BY <1>1, <1>2, <1>3, PTL DEF LogSpec
=============================================================================
