--------------------------- MODULE SnapshotSafety ----------------------------
(*****************************************************************************)
(* The snapshot store over the shared reads of the Prometheus client, for  *)
(* any number of keys, runs, queries and callers, any cap and any times.   *)
(*****************************************************************************)
EXTENDS Snapshots, FiniteSetTheorems, WellFoundedInduction, TLAPS

-----------------------------------------------------------------------------
(* Induction over the naturals, for sets. *)

LEMMA NatWF == IsWellFoundedOn({p \in Nat \X Nat : p[1] < p[2]}, Nat)
  BY NatLessThanWellFounded DEF OpToRel

LEMMA Least ==
  ASSUME NEW S \in SUBSET Nat, S # {}
  PROVE  \E m \in S : \A k \in S : m <= k
<1>1. PICK m \in S : \A k \in S : ~ (<<k, m>> \in {p \in Nat \X Nat : p[1] < p[2]})
  BY NatWF, WFMin
<1>2. ASSUME NEW k \in S PROVE m <= k
  <2>1. <<k, m>> \notin {p \in Nat \X Nat : p[1] < p[2]}
    BY <1>1
  <2>2. <<k, m>> \in Nat \X Nat /\ <<k, m>>[1] = k /\ <<k, m>>[2] = m
    OBVIOUS
  <2>3. ~ (k < m)
    BY <2>1, <2>2
  <2> QED
    BY <2>3
<1> QED
  BY <1>2

LEMMA Induction ==
  ASSUME NEW S, 0 \in S, \A n \in Nat : n \in S => n + 1 \in S
  PROVE  \A n \in Nat : n \in S
<1> SUFFICES ASSUME Nat \ S # {} PROVE FALSE
  OBVIOUS
<1>1. PICK m \in Nat \ S : \A k \in Nat \ S : m <= k
  BY Least
<1>2. m # 0
  BY <1>1
<1> QED
  BY <1>1, <1>2

-----------------------------------------------------------------------------
(* Only. *)

\* g[i] is what is left of the first i elements of s, for every i up to n.
Prefixes(g, s, S, n) ==
  g = [i \in 0..n |-> IF i = 0 THEN <<>>
                      ELSE IF s[i] \in S THEN Append(g[i - 1], s[i]) ELSE g[i - 1]]

LEMMA PrefixesAt ==
  ASSUME NEW g, NEW s, NEW S, NEW n \in Nat, Prefixes(g, s, S, n)
  PROVE  \A i \in 0..n : g[i] = IF i = 0 THEN <<>>
                               ELSE IF s[i] \in S THEN Append(g[i - 1], s[i]) ELSE g[i - 1]
<1> DEFINE e(i) == IF i = 0 THEN <<>>
                   ELSE IF s[i] \in S THEN Append(g[i - 1], s[i]) ELSE g[i - 1]
<1>1. g = [i \in 0..n |-> e(i)]
  BY DEF Prefixes
<1>2. \A i \in 0..n : g[i] = e(i)
  <2> HIDE DEF e
  <2> QED
    BY <1>1
<1> QED
  BY <1>2

LEMMA PrefixesExist ==
  ASSUME NEW s, NEW S
  PROVE  \A n \in Nat : \E g : Prefixes(g, s, S, n)
<1> DEFINE N == {n \in Nat : \E g : Prefixes(g, s, S, n)}
<1>1. 0 \in N
  <2>1. Prefixes([i \in 0..0 |-> <<>>], s, S, 0)
    BY DEF Prefixes
  <2> QED
    BY <2>1
<1>2. ASSUME NEW n \in Nat, n \in N PROVE n + 1 \in N
  <2>1. PICK g : Prefixes(g, s, S, n)
    BY <1>2
  <2> DEFINE last == IF s[n + 1] \in S THEN Append(g[n], s[n + 1]) ELSE g[n]
             h == [i \in 0..(n + 1) |-> IF i <= n THEN g[i] ELSE last]
  <2>2. ASSUME NEW i \in 0..(n + 1)
        PROVE  h[i] = IF i = 0 THEN <<>>
                      ELSE IF s[i] \in S THEN Append(h[i - 1], s[i]) ELSE h[i - 1]
    <3>1. CASE i = 0
      BY <2>1, <3>1 DEF Prefixes
    <3>2. CASE i \in 1..n
      <4>1. h[i] = g[i] /\ h[i - 1] = g[i - 1]
        BY <3>2
      <4>2. g[i] = IF s[i] \in S THEN Append(g[i - 1], s[i]) ELSE g[i - 1]
        BY <2>1, <3>2, PrefixesAt
      <4> QED
        BY <3>2, <4>1, <4>2
    <3>3. CASE i = n + 1
      <4>1. h[i] = last /\ h[i - 1] = g[n] /\ i # 0
        BY <3>3
      <4> QED
        BY <3>3, <4>1
    <3> QED
      BY <3>1, <3>2, <3>3
  <2>3. Prefixes(h, s, S, n + 1)
    <3>1. h = [i \in 0..(n + 1) |-> h[i]]
      OBVIOUS
    <3> HIDE DEF h
    <3> QED
      BY <2>2, <3>1 DEF Prefixes
  <2> QED
    BY <2>3
<1> HIDE DEF N
<1>3. \A n \in Nat : n \in N
  BY <1>1, <1>2, Induction
<1> QED
  BY <1>3 DEF N

LEMMA OnlyPrefix ==
  ASSUME NEW T, NEW s \in Seq(T), NEW S
  PROVE  \E g : Prefixes(g, s, S, Len(s)) /\ Only(s, S) = g[Len(s)]
<1> DEFINE g == CHOOSE g : Prefixes(g, s, S, Len(s))
<1>1. Prefixes(g, s, S, Len(s))
  BY PrefixesExist
<1>2. Only(s, S) = g[Len(s)]
  BY DEF Only, Prefixes
<1> QED
  BY <1>1, <1>2

\* Where in s the elements of Only(s, S) are: at[k] is the place of the k-th.
Places(at, t, s, S, n) ==
  /\ at \in [1..Len(t) -> 1..n]
  /\ \A k \in 1..Len(t) : t[k] = s[at[k]] /\ s[at[k]] \in S
  /\ \A k, l \in 1..Len(t) : k < l => at[k] < at[l]
  /\ \A i \in 1..n : s[i] \in S => \E k \in 1..Len(t) : at[k] = i

LEMMA OnlyPlaces ==
  ASSUME NEW T, NEW s \in Seq(T), NEW S
  PROVE  /\ Only(s, S) \in Seq(T)
         /\ \E at : Places(at, Only(s, S), s, S, Len(s))
<1>1. PICK g : Prefixes(g, s, S, Len(s)) /\ Only(s, S) = g[Len(s)]
  BY OnlyPrefix
<1> DEFINE N == {n \in Nat : n <= Len(s) =>
                  /\ g[n] \in Seq(T)
                  /\ \E at : Places(at, g[n], s, S, n)}
<1>2. 0 \in N
  <2>1. g[0] = <<>>
    BY <1>1, PrefixesAt
  <2>2. Places([k \in 1..0 |-> 0], <<>>, s, S, 0)
    BY DEF Places
  <2>3. <<>> \in Seq(T)
    OBVIOUS
  <2>4. \E at : Places(at, g[0], s, S, 0)
    BY <2>1, <2>2
  <2> QED
    BY <2>1, <2>3, <2>4
<1>3. ASSUME NEW n \in Nat, n \in N PROVE n + 1 \in N
  <2> SUFFICES ASSUME n + 1 <= Len(s)
               PROVE  g[n + 1] \in Seq(T) /\ \E at : Places(at, g[n + 1], s, S, n + 1)
    OBVIOUS
  <2>1. PICK at : Places(at, g[n], s, S, n)
    BY <1>3
  <2>2. g[n] \in Seq(T) /\ Len(g[n]) \in Nat /\ s[n + 1] \in T
    BY <1>3
  <2>3. g[n + 1] = IF s[n + 1] \in S THEN Append(g[n], s[n + 1]) ELSE g[n]
    <3>1. n + 1 \in 0..Len(s) /\ n + 1 # 0 /\ (n + 1) - 1 = n
      OBVIOUS
    <3> QED
      BY <1>1, <3>1, PrefixesAt
  <2>4. CASE s[n + 1] \notin S
    <3>1. g[n + 1] = g[n]
      BY <2>3, <2>4
    <3>2. Places(at, g[n], s, S, n + 1)
      BY <2>1, <2>2, <2>4 DEF Places
    <3> QED
      BY <2>2, <3>1, <3>2
  <2>5. CASE s[n + 1] \in S
    <3> DEFINE l == Len(g[n])
               up == [k \in 1..(l + 1) |-> IF k <= l THEN at[k] ELSE n + 1]
    <3>1. /\ g[n + 1] \in Seq(T) /\ Len(g[n + 1]) = l + 1
          /\ \A k \in 1..l : g[n + 1][k] = g[n][k]
          /\ g[n + 1][l + 1] = s[n + 1]
      BY <2>2, <2>3, <2>5
    <3>2. \A k \in 1..l : at[k] \in 1..n
      BY <2>1 DEF Places
    <3>3. /\ up \in [1..(l + 1) -> 1..(n + 1)]
          /\ up[l + 1] = n + 1
          /\ \A k \in 1..l : up[k] = at[k]
      BY <2>2, <3>2
    <3>4. \A k, m \in 1..(l + 1) : k < m => up[k] < up[m]
      <4> HIDE DEF up
      <4>1. \A k, m \in 1..l : k < m => at[k] < at[m]
        BY <2>1 DEF Places
      <4>2. \A k \in 1..(l + 1) : k \in 1..l \/ k = l + 1
        BY <2>2
      <4>3. \A k, m \in 1..(l + 1) : k < m => k \in 1..l
        BY <2>2
      <4>4. \A k \in 1..l : at[k] < n + 1
        BY <3>2
      <4> QED
        BY <3>3, <4>1, <4>2, <4>3, <4>4
    <3>5. \A k \in 1..(l + 1) : g[n + 1][k] = s[up[k]] /\ s[up[k]] \in S
      <4> HIDE DEF up
      <4>1. \A k \in 1..l : g[n][k] = s[at[k]] /\ s[at[k]] \in S
        BY <2>1 DEF Places
      <4>2. \A k \in 1..(l + 1) : k \in 1..l \/ k = l + 1
        BY <2>2
      <4> QED
        BY <2>5, <3>1, <3>3, <4>1, <4>2
    <3>6. \A i \in 1..(n + 1) : s[i] \in S => \E k \in 1..(l + 1) : up[k] = i
      <4> HIDE DEF up
      <4>1. \A i \in 1..n : s[i] \in S => \E k \in 1..l : at[k] = i
        BY <2>1 DEF Places
      <4>2. l + 1 \in 1..(l + 1) /\ 1..l \subseteq 1..(l + 1)
        BY <2>2
      <4> QED
        BY <2>2, <3>3, <4>1, <4>2
    <3>7. Places(up, g[n + 1], s, S, n + 1)
      <4> HIDE DEF up, l
      <4> QED
        BY <3>1, <3>3, <3>4, <3>5, <3>6 DEF Places
    <3> QED
      BY <3>1, <3>7
  <2> QED
    BY <2>4, <2>5
<1> HIDE DEF N
<1>4. \A n \in Nat : n \in N
  BY <1>2, <1>3, Induction
<1>5. Len(s) \in N
  BY <1>4
<1> QED
  BY <1>1, <1>5 DEF N

LEMMA OnlyRange ==
  ASSUME NEW T, NEW s \in Seq(T), NEW S
  PROVE  Range(Only(s, S)) = Range(s) \cap S
<1>1. Only(s, S) \in Seq(T)
  BY OnlyPlaces
<1>2. PICK at : Places(at, Only(s, S), s, S, Len(s))
  BY OnlyPlaces
<1>3. ASSUME NEW k \in 1..Len(Only(s, S))
      PROVE  at[k] \in 1..Len(s) /\ Only(s, S)[k] = s[at[k]] /\ s[at[k]] \in S
  BY <1>2 DEF Places
<1>4. ASSUME NEW i \in 1..Len(s), s[i] \in S
      PROVE  \E k \in 1..Len(Only(s, S)) : Only(s, S)[k] = s[i]
  BY <1>2, <1>4 DEF Places
<1>5. DOMAIN Only(s, S) = 1..Len(Only(s, S)) /\ DOMAIN s = 1..Len(s)
  BY <1>1
<1>6. \A x : x \in Range(Only(s, S)) => x \in Range(s) \cap S
  BY <1>3, <1>5 DEF Range
<1>7. \A x : x \in Range(s) \cap S => x \in Range(Only(s, S))
  BY <1>4, <1>5 DEF Range
<1> QED
  BY <1>6, <1>7

LEMMA OnlyLen ==
  ASSUME NEW T, NEW s \in Seq(T), NEW S
  PROVE  Len(Only(s, S)) = Cardinality({i \in DOMAIN s : s[i] \in S})
<1> DEFINE D == {i \in DOMAIN s : s[i] \in S}
           n == Len(Only(s, S))
<1>1. n \in Nat
  BY OnlyPlaces
<1>2. PICK at : Places(at, Only(s, S), s, S, Len(s))
  BY OnlyPlaces
<1>3. at \in Bijection(1..n, D)
  <2>1. at \in [1..n -> D] /\ \A i \in D : \E k \in 1..n : at[k] = i
    BY <1>2 DEF Places
  <2>2. ASSUME NEW k \in 1..n, NEW l \in 1..n, at[k] = at[l] PROVE k = l
    <3>1. at[k] \in 1..Len(s) /\ at[l] \in 1..Len(s)
      BY <1>2 DEF Places
    <3>2. ~(k < l) /\ ~(l < k)
      BY <1>2, <2>2, <3>1 DEF Places
    <3> QED
      BY <1>1, <3>2
  <2> QED
    BY <2>1, <2>2 DEF Bijection, Injection, IsInjective, Surjection
<1>4. ExistsBijection(1..n, D)
  BY <1>3 DEF ExistsBijection
<1> QED
  BY <1>1, <1>4, FS_CountingElements

-----------------------------------------------------------------------------
(* Entries. *)

Distinct(s) == \A i, j \in DOMAIN s : s[i].key = s[j].key => i = j

LEMMA RangeAt ==
  ASSUME NEW T, NEW s \in Seq(T)
  PROVE  /\ \A x : x \in Range(s) <=> \E i \in DOMAIN s : s[i] = x
         /\ Range(s) \subseteq T
  BY DEF Range

LEMMA OnlyDistinct ==
  ASSUME NEW T, NEW s \in Seq(T), NEW S, Distinct(s)
  PROVE  Distinct(Only(s, S))
<1>1. Only(s, S) \in Seq(T)
  BY OnlyPlaces
<1>2. PICK at : Places(at, Only(s, S), s, S, Len(s))
  BY OnlyPlaces
<1> SUFFICES ASSUME NEW k \in 1..Len(Only(s, S)), NEW l \in 1..Len(Only(s, S)),
                    Only(s, S)[k].key = Only(s, S)[l].key
             PROVE  k = l
  BY <1>1 DEF Distinct
<1>3. /\ at[k] \in 1..Len(s) /\ at[l] \in 1..Len(s)
      /\ Only(s, S)[k] = s[at[k]] /\ Only(s, S)[l] = s[at[l]]
  BY <1>2 DEF Places
<1>4. at[k] = at[l]
  BY <1>3 DEF Distinct
<1>5. ~(k < l) /\ ~(l < k)
  BY <1>2, <1>3, <1>4 DEF Places
<1> QED
  BY <1>1, <1>5

LEMMA AppendDistinct ==
  ASSUME NEW s \in Seq(EntryType), NEW e \in EntryType, Distinct(s),
         \A x \in Range(s) : x.key # e.key
  PROVE  /\ Append(s, e) \in Seq(EntryType)
         /\ Distinct(Append(s, e))
         /\ Range(Append(s, e)) = Range(s) \cup {e}
<1>1. /\ Append(s, e) \in Seq(EntryType) /\ Len(s) \in Nat
      /\ DOMAIN Append(s, e) = 1..(Len(s) + 1)
      /\ Append(s, e)[Len(s) + 1] = e
      /\ \A i \in 1..Len(s) : Append(s, e)[i] = s[i]
      /\ DOMAIN s = 1..Len(s)
  OBVIOUS
<1>2. \A i \in 1..(Len(s) + 1) : i \in 1..Len(s) \/ i = Len(s) + 1
  BY <1>1
<1>3. \A i \in 1..Len(s) : s[i].key # e.key /\ i \in 1..(Len(s) + 1)
  BY <1>1 DEF Range
<1>4. Distinct(Append(s, e))
  BY <1>1, <1>2, <1>3 DEF Distinct
<1>5. Len(s) + 1 \in 1..(Len(s) + 1)
  BY <1>1
<1>6. Range(Append(s, e)) = Range(s) \cup {e}
  BY <1>1, <1>2, <1>3, <1>5 DEF Range
<1> QED
  BY <1>1, <1>4, <1>6

\* The entry of a key is the one that has it.
LEMMA EntryIs ==
  ASSUME entries \in Seq(EntryType), Distinct(entries), NEW k
  PROVE  /\ \A e \in Range(entries) : e.key = k => k \in Keys /\ EntryOf(k) = e
         /\ k \in Keys => EntryOf(k) \in Range(entries) /\ EntryOf(k).key = k
<1>1. \A e, f \in Range(entries) : e.key = f.key => e = f
  BY DEF Range, Distinct
<1>2. k \in Keys => EntryOf(k) \in Range(entries) /\ EntryOf(k).key = k
  BY DEF Keys, EntryOf
<1>3. \A e \in Range(entries) : e.key = k => k \in Keys
  BY DEF Keys
<1> QED
  BY <1>1, <1>2, <1>3

\* The entry of a key is changed, in its place or at the end.
Changed(s, e) ==
  /\ s \in Seq(EntryType) /\ Distinct(s)
  /\ Range(s) = {x \in Range(entries) : x.key # e.key} \cup {e}

LEMMA WithChanges ==
  ASSUME entries \in Seq(EntryType), Distinct(entries), NEW e \in EntryType, e.key \in Keys
  PROVE  Changed(With(e), e)
<1>1. /\ With(e) \in Seq(EntryType) /\ DOMAIN With(e) = DOMAIN entries
      /\ \A i \in DOMAIN entries : With(e)[i] = IF entries[i].key = e.key THEN e ELSE entries[i]
  BY DEF With
<1>2. Distinct(With(e))
  BY <1>1 DEF Distinct
<1>3. PICK i \in DOMAIN entries : entries[i].key = e.key
  BY DEF Keys, Range
<1>4. Range(With(e)) = {x \in Range(entries) : x.key # e.key} \cup {e}
  BY <1>1, <1>3 DEF Range
<1> QED
  BY <1>1, <1>2, <1>4 DEF Changed

LEMMA WithoutDrops ==
  ASSUME entries \in Seq(EntryType), Distinct(entries), NEW ks
  PROVE  /\ Without(ks) \in Seq(EntryType) /\ Distinct(Without(ks))
         /\ Range(Without(ks)) = {x \in Range(entries) : x.key \notin ks}
<1>1. Without(ks) \in Seq(EntryType)
  BY OnlyPlaces DEF Without
<1>2. Distinct(Without(ks))
  BY OnlyDistinct DEF Without
<1>3. Range(Without(ks)) = Range(entries) \cap {x \in Range(entries) : x.key \notin ks}
  BY OnlyRange DEF Without
<1> QED
  BY <1>1, <1>2, <1>3

LEMMA LastChanges ==
  ASSUME entries \in Seq(EntryType), Distinct(entries), NEW e \in EntryType
  PROVE  Changed(Append(Without({e.key}), e), e)
<1>1. /\ Without({e.key}) \in Seq(EntryType) /\ Distinct(Without({e.key}))
      /\ Range(Without({e.key})) = {x \in Range(entries) : x.key \notin {e.key}}
  BY WithoutDrops
<1> SUFFICES ASSUME NEW s, s = Without({e.key}) PROVE Changed(Append(s, e), e)
  OBVIOUS
<1>2. /\ s \in Seq(EntryType) /\ Distinct(s)
      /\ Range(s) = {x \in Range(entries) : x.key # e.key}
  BY <1>1
<1>3. \A x \in Range(s) : x.key # e.key
  BY <1>2
<1>4. /\ Append(s, e) \in Seq(EntryType)
      /\ Distinct(Append(s, e))
      /\ Range(Append(s, e)) = Range(s) \cup {e}
  BY <1>2, <1>3, AppendDistinct
<1> QED
  BY <1>2, <1>4 DEF Changed

-----------------------------------------------------------------------------
(* The inductive invariant. *)

\* A read that a run which began at time `at` may keep.
ReadFits(r, at, q) ==
  /\ r.is = "data" => r.at >= at \/ at - r.at < ReuseFor(q, r.at)
  /\ r.is = "blank" => r.joined

EntrySound(e) == e.kept.is = "good" =>
  \A q \in QueriesOf[e.key] : ReadFits(e.kept.value[q], e.kept.at, q)

\* The run that an entry names is on, and the entry's.
Running(e) == e.running # Absent => runs[e.running].on /\ runs[e.running].key = e.key

Owned(w) == runs[w].on =>
  \E e \in Range(entries) : e.key = runs[w].key /\ e.running = w

\* What a run has read while none of its own reads was refused.
RunSound(w) == runs[w].on =>
  /\ runs[w].at <= now
  /\ ~refused[w] => \A q \in PromQuery : ReadFits(reads[w][q], runs[w].at, q)

\* Who waits has nothing to be served in the meantime.
Awaits(kw) ==
  /\ runs[kw[2]].on /\ runs[kw[2]].key = kw[1]
  /\ \A e \in Range(entries) : e.key = kw[1] => ~Servable(e)

EntriesInv ==
  /\ Distinct(entries)
  /\ \A e \in Range(entries) : Running(e) /\ EntrySound(e)
  /\ \A w \in Work : Owned(w) /\ RunSound(w)
  /\ \A kw \in waiting : Awaits(kw)

SnapshotInv == SnapshotTypeOK /\ EntriesInv /\ GoodBeforeBad

LEMMA InvHolds == SnapshotInv => RunOwnsItsEntry /\ KeptIsSound
<1> SUFFICES ASSUME SnapshotInv PROVE RunOwnsItsEntry /\ KeptIsSound
  OBVIOUS
<1>1. entries \in Seq(EntryType) /\ Distinct(entries)
  BY DEF SnapshotInv, SnapshotTypeOK, EntriesInv
<1>2. RunOwnsItsEntry
  <2> SUFFICES ASSUME NEW w \in Work, runs[w].on
               PROVE  runs[w].key \in Keys /\ EntryOf(runs[w].key).running = w
    BY DEF RunOwnsItsEntry
  <2>1. PICK e \in Range(entries) : e.key = runs[w].key /\ e.running = w
    BY DEF SnapshotInv, EntriesInv, Owned
  <2> QED
    BY <1>1, <2>1, EntryIs
<1>3. KeptIsSound
  BY DEF SnapshotInv, EntriesInv, EntrySound, ReadFits, KeptIsSound
<1> QED
  BY <1>2, <1>3

LEMMA Durations ==
  /\ \A q, t : t \in Time => ReuseFor(q, t) \in Nat
  /\ MaxNow \in Nat /\ Time \subseteq Nat
<1>1. /\ CacheTtl \in Nat /\ RangeSettle \in Nat /\ RangeReuseMax \in Nat /\ End \in Nat
      /\ GridStep \in Nat /\ MaxNow \in Nat
  BY TimesAssumption
<1>2. Time \subseteq Nat
  BY <1>1 DEF Time
<1> QED
  BY <1>1, <1>2 DEF ReuseFor, BiggerOf, SmallerOf

LEMMA SnapshotStart == SnapshotInit => SnapshotInv
<1> SUFFICES ASSUME SnapshotInit PROVE SnapshotInv
  OBVIOUS
<1>1. 0 \in Time /\ Todo \in Read /\ NoValue \in [PromQuery -> Read]
  BY Durations DEF Time, Todo, Read, NoValue
<1>2. Range(entries) = {} /\ entries = <<>> /\ waiting = {} /\ handed = Nothing
  BY DEF SnapshotInit, Range
<1>3. \A w \in Work : runs[w] = NoRun
  BY DEF SnapshotInit
<1>4. now \in Time /\ remembered \in Seq(Remembered)
  BY <1>1 DEF SnapshotInit, InitReads
<1>5. inflight \in [PromQuery -> [on: BOOLEAN, issuer: Work \cup {Absent}, joiners: SUBSET Work,
                                  kept: SUBSET Time, since: Time]]
  BY <1>1 DEF SnapshotInit, InitReads, NoRequest
<1>6. reads \in [Work -> [PromQuery -> Read]] /\ refused \in [Work -> BOOLEAN]
  BY <1>1 DEF SnapshotInit, InitReads
<1>7. runs \in [Work -> [on: BOOLEAN, key: Key \cup {Absent}, at: Time]]
  BY <1>1 DEF SnapshotInit, NoRun
<1>8. handed \in [key: Key \cup {Absent}, is: Outcome, waited: BOOLEAN]
  BY <1>2 DEF Nothing, Outcome
<1>9. SnapshotTypeOK
  BY <1>2, <1>4, <1>5, <1>6, <1>7, <1>8 DEF SnapshotTypeOK
<1>10. EntriesInv
  BY <1>2, <1>3 DEF EntriesInv, Distinct, Owned, RunSound, NoRun
<1> QED
  BY <1>2, <1>9, <1>10 DEF SnapshotInv, GoodBeforeBad

-----------------------------------------------------------------------------
(* Steps. *)

\* A read goes on: the entries, their runs and who waits for them are as before.
LEMMA ReadsKeep ==
  ASSUME SnapshotInv, Apart, now' = now, remembered' \in Seq(Remembered),
         inflight' \in [PromQuery -> [on: BOOLEAN, issuer: Work \cup {Absent}, joiners: SUBSET Work,
                                      kept: SUBSET Time, since: Time]],
         reads' \in [Work -> [PromQuery -> Read]],
         refused' \in [Work -> BOOLEAN],
         \A w \in Work : ~refused'[w] =>
           /\ ~refused[w]
           /\ \A q \in PromQuery : \/ reads'[w][q] = reads[w][q]
                                   \/ runs[w].on => ReadFits(reads'[w][q], runs[w].at, q)
  PROVE  SnapshotInv'
<1>1. UNCHANGED <<entries, runs, waiting>> /\ handed' = Nothing
  BY DEF Apart
<1>2. handed' \in [key: Key \cup {Absent}, is: Outcome, waited: BOOLEAN]
  BY <1>1 DEF Nothing, Outcome
<1>3. SnapshotTypeOK'
  BY <1>1, <1>2 DEF SnapshotInv, SnapshotTypeOK
<1>4. \A w \in Work : RunSound(w)'
  BY <1>1 DEF SnapshotInv, EntriesInv, RunSound
<1>5. \A w \in Work : Owned(w)'
  BY <1>1 DEF SnapshotInv, EntriesInv, Owned
<1>6. \A e \in Range(entries) : Running(e)' /\ (Servable(e)' <=> Servable(e))
  BY <1>1 DEF SnapshotInv, EntriesInv, Running, Servable, ServableAt, Younger
<1>7. \A kw \in waiting : Awaits(kw)'
  BY <1>1, <1>6 DEF SnapshotInv, EntriesInv, Awaits
<1>8. EntriesInv'
  BY <1>1, <1>4, <1>5, <1>6, <1>7 DEF SnapshotInv, EntriesInv
<1>9. GoodBeforeBad'
  BY <1>1 DEF GoodBeforeBad, Nothing
<1> QED
  BY <1>3, <1>8, <1>9 DEF SnapshotInv

LEMMA KeptTimes ==
  ASSUME SnapshotInv, NEW q
  PROVE  KeptOf(q) \subseteq Time /\ Young(q) \subseteq Time
<1>1. Range(remembered) \subseteq Remembered
  BY RangeAt DEF SnapshotInv, SnapshotTypeOK
<1>2. KeptOf(q) \subseteq Time
  BY <1>1 DEF KeptOf, Remembered
<1> QED
  BY <1>2 DEF Young

LEMMA ReuseKeeps ==
  ASSUME SnapshotInv, NEW w \in Work, NEW q \in PromQuery, RunReuse(w, q)
  PROVE  SnapshotInv'
<1>1. Reuse(w, q) /\ Apart
  BY DEF RunReuse
<1>2. PICK t \in Young(q) : reads' = [reads EXCEPT ![w][q] = Data(t)]
  BY <1>1 DEF Reuse
<1>3. t \in Time /\ now - t < ReuseFor(q, t)
  BY KeptTimes, <1>2 DEF Young
<1>4. Data(t) \in Read /\ Data(t).is = "data" /\ Data(t).at = t
  BY <1>3 DEF Data, Read
<1>5. reads \in [Work -> [PromQuery -> Read]] /\ now \in Time
  BY DEF SnapshotInv, SnapshotTypeOK
<1>6. /\ reads' \in [Work -> [PromQuery -> Read]]
      /\ reads'[w][q] = Data(t)
      /\ \A v \in Work, p \in PromQuery : v # w \/ p # q => reads'[v][p] = reads[v][p]
  <2> SUFFICES ASSUME NEW d \in Read, d = Data(t)
               PROVE  /\ reads' \in [Work -> [PromQuery -> Read]]
                      /\ reads'[w][q] = d
                      /\ \A v \in Work, p \in PromQuery : v # w \/ p # q => reads'[v][p] = reads[v][p]
    BY <1>4
  <2> QED
    BY <1>2, <1>5
<1>7. runs[w].on => ReadFits(Data(t), runs[w].at, q)
  <2>1. runs[w].on => runs[w].at <= now /\ runs[w].at \in Time
    BY DEF SnapshotInv, SnapshotTypeOK, EntriesInv, RunSound
  <2> QED
    <3> SUFFICES ASSUME runs[w].on PROVE ReadFits(Data(t), runs[w].at, q)
      OBVIOUS
    <3>1. runs[w].at \in Nat /\ now \in Nat /\ t \in Nat /\ ReuseFor(q, t) \in Nat
      BY <1>3, <1>5, <2>1, Durations
    <3>2. runs[w].at - t < ReuseFor(q, t)
      BY <1>3, <2>1, <3>1
    <3> QED
      BY <1>4, <3>2 DEF ReadFits
<1>8. \A v \in Work : ~refused'[v] =>
        /\ ~refused[v]
        /\ \A p \in PromQuery : \/ reads'[v][p] = reads[v][p]
                                \/ runs[v].on => ReadFits(reads'[v][p], runs[v].at, p)
  BY <1>1, <1>6, <1>7 DEF Reuse
<1>9. UNCHANGED <<now, remembered, inflight, refused>>
  BY <1>1 DEF Reuse
<1> QED
  BY <1>1, <1>6, <1>8, <1>9, ReadsKeep DEF SnapshotInv, SnapshotTypeOK

LEMMA AskKeeps ==
  ASSUME SnapshotInv, NEW w \in Work, NEW q \in PromQuery, RunJoin(w, q) \/ RunIssue(w, q)
  PROVE  SnapshotInv'
<1>1. (Join(w, q) \/ Issue(w, q)) /\ Apart
  BY DEF RunJoin, RunIssue
<1>2. /\ reads' = [reads EXCEPT ![w][q] = Waits]
      /\ UNCHANGED <<now, remembered, refused>>
  BY <1>1 DEF Join, Issue
<1>3. 0 \in Time
  BY Durations DEF Time
<1>4. Waits \in Read /\ Waits.is = "waits"
  BY <1>3 DEF Waits, Read
<1>5. /\ reads \in [Work -> [PromQuery -> Read]] /\ now \in Time
      /\ inflight \in [PromQuery -> [on: BOOLEAN, issuer: Work \cup {Absent},
                                     joiners: SUBSET Work, kept: SUBSET Time, since: Time]]
  BY DEF SnapshotInv, SnapshotTypeOK
<1>6. /\ reads' \in [Work -> [PromQuery -> Read]]
      /\ reads'[w][q] = Waits
      /\ \A v \in Work, p \in PromQuery : v # w \/ p # q => reads'[v][p] = reads[v][p]
  <2> SUFFICES ASSUME NEW d \in Read, d = Waits
               PROVE  /\ reads' \in [Work -> [PromQuery -> Read]]
                      /\ reads'[w][q] = d
                      /\ \A v \in Work, p \in PromQuery : v # w \/ p # q => reads'[v][p] = reads[v][p]
    BY <1>4
  <2> QED
    BY <1>2, <1>5
<1>7. ReadFits(Waits, runs[w].at, q)
  BY <1>4 DEF ReadFits
<1>8. \A v \in Work : ~refused'[v] =>
        /\ ~refused[v]
        /\ \A p \in PromQuery : \/ reads'[v][p] = reads[v][p]
                                \/ runs[v].on => ReadFits(reads'[v][p], runs[v].at, p)
  BY <1>2, <1>6, <1>7
<1>9. inflight' \in [PromQuery -> [on: BOOLEAN, issuer: Work \cup {Absent}, joiners: SUBSET Work,
                                   kept: SUBSET Time, since: Time]]
  <2>1. CASE Join(w, q)
    <3>1. inflight' = [inflight EXCEPT ![q].joiners = inflight[q].joiners \cup {w}]
      BY <2>1 DEF Join
    <3>2. inflight[q].joiners \cup {w} \in SUBSET Work
      BY <1>5
    <3> QED
      BY <1>5, <3>1, <3>2
  <2>2. CASE Issue(w, q)
    <3>1. [on |-> TRUE, issuer |-> w, joiners |-> {}, kept |-> KeptOf(q), since |-> now]
            \in [on: BOOLEAN, issuer: Work \cup {Absent}, joiners: SUBSET Work,
                 kept: SUBSET Time, since: Time]
      BY <1>5, KeptTimes
    <3>2. inflight' = [inflight EXCEPT ![q] =
            [on |-> TRUE, issuer |-> w, joiners |-> {}, kept |-> KeptOf(q), since |-> now]]
      BY <2>2 DEF Issue
    <3> QED
      BY <1>5, <3>1, <3>2
  <2> QED
    BY <1>1, <2>1, <2>2
<1> QED
  BY <1>1, <1>2, <1>6, <1>8, <1>9, ReadsKeep DEF SnapshotInv, SnapshotTypeOK

\* What an answer or a refusal hands to whoever asked.
LEMMA HandedKeeps ==
  ASSUME SnapshotInv, NEW q \in PromQuery, NEW own \in Read, NEW shared \in Read,
         reads' = Handed(q, own, shared)
  PROVE  /\ reads' \in [Work -> [PromQuery -> Read]]
         /\ \A w \in Work, p \in PromQuery :
              \/ reads'[w][p] = reads[w][p]
              \/ p = q /\ w = inflight[q].issuer /\ reads'[w][p] = own
              \/ p = q /\ reads'[w][p] = shared
<1>1. reads \in [Work -> [PromQuery -> Read]]
  BY DEF SnapshotInv, SnapshotTypeOK
<1>2. ASSUME NEW w \in Work
      PROVE  /\ reads'[w] \in [PromQuery -> Read]
             /\ \A p \in PromQuery :
                  \/ reads'[w][p] = reads[w][p]
                  \/ p = q /\ w = inflight[q].issuer /\ reads'[w][p] = own
                  \/ p = q /\ reads'[w][p] = shared
  <2>1. reads'[w] = [reads[w] EXCEPT ![q] =
           IF w = inflight[q].issuer THEN own
           ELSE IF w \in inflight[q].joiners THEN shared ELSE reads[w][q]]
    BY DEF Handed
  <2> QED
    BY <1>1, <2>1
<1>3. reads' = [w \in Work |-> reads'[w]]
  BY DEF Handed
<1> QED
  BY <1>2, <1>3

LEMMA Remembering ==
  ASSUME SnapshotInv, NEW q \in PromQuery
  PROVE  Remember(q) \in Seq(Remembered)
<1>1. remembered \in Seq(Remembered) /\ now \in Time
  BY DEF SnapshotInv, SnapshotTypeOK
<1> DEFINE live == Only(remembered, {m \in Range(remembered) : m.query # q})
           room == IF Len(live) >= MaxRemembered THEN Tail(live) ELSE live
           m == [query |-> q, at |-> now]
<1>2. live \in Seq(Remembered)
  BY <1>1, OnlyPlaces
<1>3. room \in Seq(Remembered)
  <2> HIDE DEF live
  <2>1. MaxRemembered \in Nat \ {0}
    BY TimesAssumption
  <2>2. CASE Len(live) >= MaxRemembered
    <3>1. Len(live) \in Nat /\ Len(live) # 0
      BY <1>2, <2>1, <2>2
    <3>2. live # <<>>
      BY <3>1
    <3> QED
      BY <1>2, <2>2, <3>2
  <2> QED
    BY <1>2, <2>2
<1>4. m \in Remembered
  BY <1>1 DEF Remembered
<1>5. Append(room, m) \in Seq(Remembered)
  <2> HIDE DEF room, m
  <2> QED
    BY <1>3, <1>4
<1> QED
  BY <1>1, <1>5 DEF Remember

LEMMA AnswerKeeps ==
  ASSUME SnapshotInv, NEW q \in PromQuery, StoreAnswers(q)
  PROVE  SnapshotInv'
<1>1. Answer(q) /\ Apart
  BY DEF StoreAnswers
<1>2. now \in Time /\ 0 \in Time
  BY Durations DEF SnapshotInv, SnapshotTypeOK, Time
<1>3. Data(now) \in Read /\ Data(now).is = "data" /\ Data(now).at = now
  BY <1>2 DEF Data, Read
<1>4. /\ reads' \in [Work -> [PromQuery -> Read]]
      /\ \A w \in Work, p \in PromQuery : reads'[w][p] = reads[w][p] \/ reads'[w][p] = Data(now)
  BY <1>1, <1>3, HandedKeeps DEF Answer
<1>5. ASSUME NEW w \in Work, runs[w].on, NEW p \in PromQuery
      PROVE  ReadFits(Data(now), runs[w].at, p)
  <2>1. runs[w].at <= now /\ runs[w].at \in Time
    BY <1>5 DEF SnapshotInv, SnapshotTypeOK, EntriesInv, RunSound
  <2> QED
    BY <1>2, <1>3, <2>1, Durations DEF ReadFits
<1>6. inflight' \in [PromQuery -> [on: BOOLEAN, issuer: Work \cup {Absent}, joiners: SUBSET Work,
                                   kept: SUBSET Time, since: Time]]
  <2>1. inflight' = [inflight EXCEPT ![q] = NoRequest]
    BY <1>1 DEF Answer
  <2>2. NoRequest \in [on: BOOLEAN, issuer: Work \cup {Absent}, joiners: SUBSET Work,
                       kept: SUBSET Time, since: Time]
    BY <1>2 DEF NoRequest
  <2> QED
    BY <2>1, <2>2 DEF SnapshotInv, SnapshotTypeOK
<1>7. remembered' \in Seq(Remembered) /\ UNCHANGED <<now, refused>>
  BY <1>1, Remembering DEF Answer
<1>8. \A v \in Work : ~refused'[v] =>
        /\ ~refused[v]
        /\ \A p \in PromQuery : \/ reads'[v][p] = reads[v][p]
                                \/ runs[v].on => ReadFits(reads'[v][p], runs[v].at, p)
  BY <1>4, <1>5, <1>7
<1> QED
  BY <1>1, <1>4, <1>6, <1>7, <1>8, ReadsKeep DEF SnapshotInv, SnapshotTypeOK

\* The works that joined a refused read keep a blank that they did not ask for;
\* the one that issued it is marked.
LEMMA RefuseKeeps ==
  ASSUME SnapshotInv, NEW q \in PromQuery, StoreRefuses(q)
  PROVE  SnapshotInv'
<1>1. Refuse(q) /\ Apart
  BY DEF StoreRefuses
<1>2. 0 \in Time
  BY Durations DEF Time
<1>3. /\ Blank(TRUE) \in Read /\ Blank(FALSE) \in Read
      /\ Blank(TRUE).is = "blank" /\ Blank(TRUE).joined = TRUE
  BY <1>2 DEF Blank, Read
<1>4. PICK own \in Read, shared \in Read :
        /\ reads' = Handed(q, own, shared)
        /\ shared.is = "blank" /\ shared.joined
  <2>1. StandIn(q) \subseteq Time
    BY DEF SnapshotInv, SnapshotTypeOK, StandIn
  <2>2. \A t \in Time : Data(t) \in Read
    BY DEF Data, Read
  <2> QED
    BY <1>1, <1>3, <2>1, <2>2 DEF Refuse, Blank
<1>6. /\ reads' \in [Work -> [PromQuery -> Read]]
      /\ \A w \in Work, p \in PromQuery :
           \/ reads'[w][p] = reads[w][p]
           \/ w = inflight[q].issuer
           \/ reads'[w][p] = shared
  BY <1>4, HandedKeeps
<1>7. inflight' \in [PromQuery -> [on: BOOLEAN, issuer: Work \cup {Absent}, joiners: SUBSET Work,
                                   kept: SUBSET Time, since: Time]]
  <2>1. inflight' = [inflight EXCEPT ![q] = NoRequest]
    BY <1>1 DEF Refuse
  <2>2. NoRequest \in [on: BOOLEAN, issuer: Work \cup {Absent}, joiners: SUBSET Work,
                       kept: SUBSET Time, since: Time]
    BY <1>2 DEF NoRequest
  <2> QED
    BY <2>1, <2>2 DEF SnapshotInv, SnapshotTypeOK
<1>8. /\ refused' = [w \in Work |-> refused[w] \/ w = inflight[q].issuer]
      /\ UNCHANGED <<now, remembered>>
  BY <1>1 DEF Refuse
<1>9. refused' \in [Work -> BOOLEAN]
  BY <1>8 DEF SnapshotInv, SnapshotTypeOK
<1>10. \A w \in Work : ~refused'[w] => ~refused[w] /\ w # inflight[q].issuer
  BY <1>8
<1>11. \A w \in Work, p \in PromQuery : ReadFits(shared, runs[w].at, p)
  BY <1>4 DEF ReadFits
<1>12. \A v \in Work : ~refused'[v] =>
        /\ ~refused[v]
        /\ \A p \in PromQuery : \/ reads'[v][p] = reads[v][p]
                                \/ runs[v].on => ReadFits(reads'[v][p], runs[v].at, p)
  BY <1>6, <1>10, <1>11
<1> QED
  BY <1>1, <1>6, <1>7, <1>8, <1>9, <1>12, ReadsKeep DEF SnapshotInv, SnapshotTypeOK

\* What of the state a run's start or end does not look at, or only adds to.
LEMMA TypesOf ==
  ASSUME SnapshotInv
  PROVE  /\ now \in Time
         /\ entries \in Seq(EntryType) /\ Distinct(entries)
         /\ Range(entries) \subseteq EntryType
         /\ runs \in [Work -> [on: BOOLEAN, key: Key \cup {Absent}, at: Time]]
         /\ reads \in [Work -> [PromQuery -> Read]]
         /\ refused \in [Work -> BOOLEAN]
         /\ NoValue \in [PromQuery -> Read]
         /\ NoRun \in [on: BOOLEAN, key: Key \cup {Absent}, at: Time]
<1>1. 0 \in Time
  BY Durations DEF Time
<1>2. NoValue \in [PromQuery -> Read] /\ NoRun \in [on: BOOLEAN, key: Key \cup {Absent}, at: Time]
  BY <1>1 DEF NoValue, Todo, Read, NoRun
<1> QED
  BY <1>2, RangeAt DEF SnapshotInv, SnapshotTypeOK, EntriesInv

\* Run w of key k starts; e is its entry, new or not.  An entry with a run stays.
LEMMA StartKeeps ==
  ASSUME SnapshotInv, NEW k \in Key, NEW w \in Free, Start(k, w),
         entries' \in Seq(EntryType), Distinct(entries'),
         NEW e \in Range(entries'), e.key = k, e.running = w, EntrySound(e),
         \A x \in Range(entries') : x = e \/ x \in Range(entries),
         \A x \in Range(entries) : x.running # Absent => x \in Range(entries')
  PROVE  /\ now' \in Time /\ remembered' \in Seq(Remembered)
         /\ reads' \in [Work -> [PromQuery -> Read]]
         /\ refused' \in [Work -> BOOLEAN]
         /\ runs' \in [Work -> [on: BOOLEAN, key: Key \cup {Absent}, at: Time]]
         /\ \A x \in Range(entries') : Running(x)' /\ EntrySound(x)
         /\ \A v \in Work : Owned(v)' /\ RunSound(v)'
         /\ \A kw \in waiting : kw[2] # w /\ Awaits(kw)'
<1>1. w \in Work /\ ~runs[w].on
  BY DEF Free
<1>2. /\ runs' = [runs EXCEPT ![w] = [on |-> TRUE, key |-> k, at |-> now]]
      /\ reads' = [reads EXCEPT ![w] = NoValue]
      /\ refused' = [refused EXCEPT ![w] = FALSE]
      /\ UNCHANGED <<now, remembered, inflight>>
  BY DEF Start
<1>3. /\ runs' \in [Work -> [on: BOOLEAN, key: Key \cup {Absent}, at: Time]]
      /\ runs'[w].on /\ runs'[w].key = k /\ runs'[w].at = now
      /\ \A v \in Work : v # w => runs'[v] = runs[v]
  BY <1>1, <1>2, TypesOf
<1>4. /\ reads' \in [Work -> [PromQuery -> Read]] /\ reads'[w] = NoValue
      /\ \A v \in Work : v # w => reads'[v] = reads[v]
  BY <1>1, <1>2, TypesOf
<1>5. /\ refused' \in [Work -> BOOLEAN]
      /\ \A v \in Work : v # w => refused'[v] = refused[v]
  BY <1>1, <1>2, TypesOf
<1>6. \A x \in Range(entries) : x.running # w
  BY <1>1, WorkAssumption DEF SnapshotInv, EntriesInv, Running
<1>7. ASSUME NEW x \in Range(entries') PROVE Running(x)' /\ EntrySound(x)
  <2>1. CASE x = e
    BY <1>3, <2>1 DEF Running
  <2>2. CASE x \in Range(entries)
    <3>1. x.running = Absent \/ x.running \in Work
      BY <2>2, TypesOf DEF EntryType
    <3> QED
      BY <1>3, <1>6, <2>2, <3>1 DEF SnapshotInv, EntriesInv, Running
  <2> QED
    BY <2>1, <2>2
<1>8. ASSUME NEW v \in Work PROVE Owned(v)' /\ RunSound(v)'
  <2>1. CASE v = w
    <3>1. Owned(w)'
      BY <1>3 DEF Owned
    <3>2. \A q \in PromQuery : ReadFits(NoValue[q], now, q)
      BY DEF NoValue, Todo, ReadFits
    <3>3. RunSound(w)'
      <4>1. now \in Nat
        BY TypesOf, Durations
      <4>2. \A q \in PromQuery : ReadFits(reads'[w][q], runs'[w].at, q)
        BY <1>3, <1>4, <3>2
      <4> QED
        BY <1>2, <1>3, <4>1, <4>2 DEF RunSound
    <3> QED
      BY <2>1, <3>1, <3>3
  <2>2. CASE v # w
    <3>1. RunSound(v)'
      BY <1>2, <1>3, <1>4, <1>5, <2>2 DEF SnapshotInv, EntriesInv, RunSound
    <3>2. Owned(v)'
      <4> SUFFICES ASSUME runs[v].on PROVE Owned(v)'
        BY <1>3, <2>2 DEF Owned
      <4>1. PICK x \in Range(entries) : x.key = runs[v].key /\ x.running = v
        BY DEF SnapshotInv, EntriesInv, Owned
      <4>2. x \in Range(entries')
        BY <4>1, WorkAssumption
      <4> QED
        BY <1>3, <2>2, <4>1, <4>2 DEF Owned
    <3> QED
      BY <3>1, <3>2
  <2> QED
    BY <2>1, <2>2
<1>9. ASSUME NEW kw \in waiting PROVE kw[2] # w /\ Awaits(kw)'
  <2>1. Awaits(kw) /\ kw[2] \in Work /\ kw[2] # w
    BY <1>1 DEF SnapshotInv, SnapshotTypeOK, EntriesInv, Awaits
  <2>2. runs'[kw[2]].on /\ runs'[kw[2]].key = kw[1]
    BY <1>3, <2>1 DEF Awaits
  <2>3. PICK x \in Range(entries) : x.key = kw[1] /\ x.running = kw[2]
    BY <2>1 DEF SnapshotInv, EntriesInv, Owned, Awaits
  <2>4. x \in Range(entries')
    BY <2>1, <2>3, WorkAssumption
  <2>5. kw[1] # k
    <3> SUFFICES ASSUME x.key = e.key PROVE FALSE
      BY <2>3
    <3>1. x = e
      BY <2>4, RangeAt DEF Distinct
    <3> QED
      BY <2>1, <2>3, <3>1
  <2>6. \A y \in Range(entries') : y.key = kw[1] => y \in Range(entries)
    BY <2>5
  <2>7. \A y \in Range(entries) : Servable(y)' <=> Servable(y)
    BY <1>2 DEF Servable, ServableAt, Younger
  <2> QED
    BY <2>1, <2>2, <2>6, <2>7 DEF Awaits
<1> QED
  BY <1>2, <1>3, <1>4, <1>5, <1>7, <1>8, <1>9 DEF SnapshotInv, SnapshotTypeOK

\* What get() leaves of the invariant when it starts no run.
LEMMA ServeKeeps ==
  ASSUME SnapshotInv, NEW k \in Key, GetKept(k) \/ GetShared(k) \/ GetSetback(k)
  PROVE  SnapshotInv'
<1>1. UNCHANGED <<readVars, entries, runs>> /\ k \in Keys
  BY DEF GetKept, GetShared, GetSetback
<1>2. UNCHANGED <<now, remembered, inflight, reads, refused>>
  BY <1>1 DEF readVars
<1>3. PICK e \in Range(entries) : e = EntryOf(k) /\ e.key = k /\ e \in EntryType
  BY <1>1, TypesOf, EntryIs
<1>4. \A x \in Range(entries) : x.key = k => x = e
  BY <1>3, TypesOf, EntryIs
<1>5. \A x \in Range(entries) : Servable(x)' <=> Servable(x)
  BY <1>2 DEF Servable, ServableAt, Younger
<1>6. (\A kw \in waiting : Awaits(kw)') /\ waiting \subseteq Key \X Work
  BY <1>1, <1>5 DEF SnapshotInv, SnapshotTypeOK, EntriesInv, Awaits
<1>7. /\ Distinct(entries') /\ \A x \in Range(entries') : Running(x)' /\ EntrySound(x)
      /\ \A w \in Work : Owned(w)' /\ RunSound(w)'
  BY <1>1, <1>2 DEF SnapshotInv, EntriesInv, Running, Owned, RunSound
<1>8. CASE GetKept(k)
  <2>1. Servable(e) /\ handed' = [key |-> k, is |-> e.kept.is, waited |-> FALSE] /\ waiting' = waiting
    BY <1>3, <1>8 DEF GetKept, Serve
  <2>2. e.kept.is = "good"
    BY <2>1 DEF Servable, ServableAt, Younger
  <2>3. handed' \in [key: Key \cup {Absent}, is: Outcome, waited: BOOLEAN] /\ handed'.is = "good"
    BY <2>1, <2>2 DEF Outcome
  <2> QED
    BY <1>1, <1>2, <1>6, <1>7, <2>1, <2>3
       DEF SnapshotInv, SnapshotTypeOK, EntriesInv, GoodBeforeBad
<1>9. CASE GetSetback(k)
  <2>1. /\ ~Servable(e) /\ handed' = [key |-> k, is |-> e.setback.is, waited |-> FALSE]
        /\ waiting' = waiting
    BY <1>3, <1>9 DEF GetSetback, Serve
  <2>2. handed' \in [key: Key \cup {Absent}, is: Outcome, waited: BOOLEAN] /\ handed'.key = k
    BY <1>3, <2>1 DEF Outcome, EntryType
  <2>3. GoodBeforeBad'
    BY <1>1, <1>4, <1>5, <2>1, <2>2 DEF GoodBeforeBad
  <2> QED
    BY <1>1, <1>2, <1>6, <1>7, <2>1, <2>2, <2>3 DEF SnapshotInv, SnapshotTypeOK, EntriesInv
<1>10. CASE GetShared(k)
  <2>1. /\ ~Servable(e) /\ e.running # Absent
        /\ waiting' = waiting \cup {<<k, e.running>>} /\ handed' = Nothing
    BY <1>3, <1>10 DEF GetShared, Await
  <2>2. e.running \in Work /\ runs[e.running].on /\ runs[e.running].key = k
    BY <1>3, <2>1 DEF SnapshotInv, EntriesInv, Running, EntryType
  <2>3. Awaits(<<k, e.running>>)'
    BY <1>1, <1>4, <1>5, <2>1, <2>2 DEF Awaits
  <2>4. handed' \in [key: Key \cup {Absent}, is: Outcome, waited: BOOLEAN] /\ GoodBeforeBad'
    BY <2>1 DEF GoodBeforeBad, Nothing, Outcome
  <2>5. waiting' \subseteq Key \X Work
    BY <1>6, <2>1, <2>2
  <2>6. \A kw \in waiting' : Awaits(kw)'
    BY <1>6, <2>1, <2>3
  <2> QED
    BY <1>1, <1>2, <1>7, <2>4, <2>5, <2>6 DEF SnapshotInv, SnapshotTypeOK, EntriesInv
<1> QED
  BY <1>8, <1>9, <1>10

LEMMA FreeOne == Free # {} => SomeFree \in Free
  BY DEF SomeFree

\* What a run that starts makes of the entry o that its key has.
LEMMA AgainEntry ==
  ASSUME SnapshotInv, NEW k \in Key, GetStale(k) \/ GetAgain(k)
  PROVE  \E w \in Free, o \in Range(entries), e \in EntryType :
           /\ Start(k, w)
           /\ o.key = k /\ k \in Keys /\ o = EntryOf(k) /\ o.running = Absent
           /\ e.key = k /\ e.running = w /\ e.kept = o.kept
           /\ Changed(entries', e)
           /\ \/ Servable(o) /\ Serve(k, o.kept)
              \/ ~Servable(o) /\ Await(k, w)
<1>1. k \in Keys /\ Free # {}
  BY DEF GetStale, GetAgain
<1>2. PICK w \in Free : w = SomeFree
  BY <1>1, FreeOne
<1>3. PICK o \in Range(entries) : o = EntryOf(k) /\ o.key = k /\ o \in EntryType
  BY <1>1, TypesOf, EntryIs
<1>4. /\ entries' = With([o EXCEPT !.running = w]) /\ Start(k, w) /\ o.running = Absent
      /\ \/ Servable(o) /\ Serve(k, o.kept)
         \/ ~Servable(o) /\ Await(k, w)
  BY <1>2, <1>3 DEF GetStale, GetAgain
<1>5. PICK e \in EntryType : e = [o EXCEPT !.running = w]
  BY <1>3, <1>2 DEF EntryType, Free
<1>6. e.key = k /\ e.running = w /\ e.kept = o.kept
  BY <1>3, <1>5 DEF EntryType
<1>7. Changed(entries', e)
  BY <1>1, <1>4, <1>5, <1>6, WithChanges, TypesOf
<1> QED
  BY <1>1, <1>3, <1>4, <1>6, <1>7

LEMMA AgainKeeps ==
  ASSUME SnapshotInv, NEW k \in Key, GetStale(k) \/ GetAgain(k)
  PROVE  SnapshotInv'
<1>1. PICK w \in Free, o \in Range(entries), e \in EntryType :
        /\ Start(k, w)
        /\ o.key = k /\ k \in Keys /\ o = EntryOf(k) /\ o.running = Absent
        /\ e.key = k /\ e.running = w /\ e.kept = o.kept
        /\ Changed(entries', e)
        /\ \/ Servable(o) /\ Serve(k, o.kept)
           \/ ~Servable(o) /\ Await(k, w)
  BY AgainEntry
<1>8. /\ entries' \in Seq(EntryType) /\ Distinct(entries') /\ e \in Range(entries')
      /\ \A x \in Range(entries') : x = e \/ (x \in Range(entries) /\ x.key # k)
      /\ \A x \in Range(entries) : x.key # k => x \in Range(entries')
  BY <1>1 DEF Changed
<1>9. \A x \in Range(entries) : x.running # Absent => x \in Range(entries')
  BY <1>1, <1>8, TypesOf, EntryIs
<1>10. EntrySound(e)
  BY <1>1 DEF SnapshotInv, EntriesInv, EntrySound
<1>11. /\ now' \in Time /\ remembered' \in Seq(Remembered)
       /\ reads' \in [Work -> [PromQuery -> Read]]
       /\ refused' \in [Work -> BOOLEAN]
       /\ runs' \in [Work -> [on: BOOLEAN, key: Key \cup {Absent}, at: Time]]
       /\ \A x \in Range(entries') : Running(x)' /\ EntrySound(x)
       /\ \A v \in Work : Owned(v)' /\ RunSound(v)'
       /\ \A kw \in waiting : kw[2] # w /\ Awaits(kw)'
  BY <1>1, <1>8, <1>9, <1>10, StartKeeps
<1>12. UNCHANGED <<now, inflight>> /\ w \in Work
  BY <1>1 DEF Start, Free
<1>13. CASE Servable(o) /\ Serve(k, o.kept)
  <2>1. waiting' = waiting /\ handed' = [key |-> k, is |-> o.kept.is, waited |-> FALSE]
    BY <1>13 DEF Serve
  <2>2. o.kept.is = "good"
    BY <1>13 DEF Servable, ServableAt, Younger
  <2>3. handed' \in [key: Key \cup {Absent}, is: Outcome, waited: BOOLEAN] /\ handed'.is = "good"
    BY <2>1, <2>2 DEF Outcome
  <2> QED
    BY <1>8, <1>11, <1>12, <2>1, <2>3 DEF SnapshotInv, SnapshotTypeOK, EntriesInv, GoodBeforeBad
<1>14. CASE ~Servable(o) /\ Await(k, w)
  <2>1. waiting' = waiting \cup {<<k, w>>} /\ handed' = Nothing
    BY <1>14 DEF Await
  <2>2. handed' \in [key: Key \cup {Absent}, is: Outcome, waited: BOOLEAN] /\ GoodBeforeBad'
    BY <2>1 DEF GoodBeforeBad, Nothing, Outcome
  <2>3. ~Servable(e)'
    BY <1>1, <1>12, <1>14 DEF Servable, ServableAt, Younger
  <2>4. runs'[w].on /\ runs'[w].key = k
    BY <1>1, <1>12, TypesOf DEF Start
  <2>5. \A x \in Range(entries') : x.key = k => x = e
    BY <1>8
  <2>6. Awaits(<<k, w>>)'
    BY <2>3, <2>4, <2>5 DEF Awaits
  <2>7. \A kw \in waiting' : Awaits(kw)'
    BY <1>11, <2>1, <2>6
  <2>8. waiting' \subseteq Key \X Work
    BY <1>12, <2>1 DEF SnapshotInv, SnapshotTypeOK
  <2> QED
    BY <1>8, <1>11, <1>12, <2>2, <2>7, <2>8 DEF SnapshotInv, SnapshotTypeOK, EntriesInv
<1> QED
  BY <1>1, <1>13, <1>14

\* A new key: what is evicted has no run.
LEMMA NewEntries ==
  ASSUME SnapshotInv, NEW k \in Key, k \notin Keys, NEW w \in Work, entries' = Add(k, w)
  PROVE  \E e \in EntryType :
           /\ e = [key |-> k, kept |-> NoAnswer, running |-> w, setback |-> NoSetback]
           /\ entries' = Append(Without(Evicted), e)
           /\ entries' \in Seq(EntryType) /\ Distinct(entries')
           /\ Range(entries') = {x \in Range(entries) : x.key \notin Evicted} \cup {e}
           /\ \A x \in Range(entries) : x.running # Absent => x.key \notin Evicted
<1>1. 0 \in Time
  BY Durations DEF Time
<1>2. NoAnswer \in [is: {"none", "good"}, at: Time, value: [PromQuery -> Read]]
  BY <1>1, TypesOf DEF NoAnswer
<1>3. NoSetback \in [is: Outcome \ {"good"}, at: Time]
  BY <1>1 DEF NoSetback, Outcome
<1>4. PICK e \in EntryType :
        e = [key |-> k, kept |-> NoAnswer, running |-> w, setback |-> NoSetback]
  BY <1>2, <1>3 DEF EntryType
<1>5. entries' = Append(Without(Evicted), e) /\ e.key = k
  BY <1>4 DEF Add
<1>6. /\ Without(Evicted) \in Seq(EntryType) /\ Distinct(Without(Evicted))
      /\ Range(Without(Evicted)) = {x \in Range(entries) : x.key \notin Evicted}
  BY TypesOf, WithoutDrops
<1>7. \A x \in Range(Without(Evicted)) : x.key # e.key
  BY <1>5, <1>6 DEF Keys
<1>8. /\ Append(Without(Evicted), e) \in Seq(EntryType)
      /\ Distinct(Append(Without(Evicted), e))
      /\ Range(Append(Without(Evicted), e)) = Range(Without(Evicted)) \cup {e}
  <2> SUFFICES ASSUME NEW s, s = Without(Evicted)
               PROVE  /\ Append(s, e) \in Seq(EntryType)
                      /\ Distinct(Append(s, e))
                      /\ Range(Append(s, e)) = Range(s) \cup {e}
    OBVIOUS
  <2> QED
    BY <1>6, <1>7, AppendDistinct
<1>9. \A x \in Range(entries) : x.running # Absent => x.key \notin Evicted
  <2> SUFFICES ASSUME NEW x \in Range(entries), x.running # Absent, x.key \in Evicted PROVE FALSE
    OBVIOUS
  <2>1. PICK i \in DOMAIN entries : entries[i].key = x.key /\ entries[i].running = Absent
    BY DEF Evicted
  <2>2. entries[i] \in Range(entries)
    BY TypesOf, RangeAt
  <2>3. \A y \in Range(entries) : y.key = x.key => EntryOf(x.key) = y
    BY TypesOf, EntryIs
  <2> QED
    BY <2>1, <2>2, <2>3
<1> QED
  BY <1>4, <1>5, <1>6, <1>8, <1>9

LEMMA NewKeeps ==
  ASSUME SnapshotInv, NEW k \in Key, GetNew(k)
  PROVE  SnapshotInv'
<1>1. k \notin Keys /\ Free # {}
  BY DEF GetNew
<1>2. PICK w \in Free : w = SomeFree
  BY <1>1, FreeOne
<1>3. entries' = Add(k, w) /\ Start(k, w) /\ Await(k, w) /\ w \in Work
  BY <1>2 DEF GetNew, Free
<1>4. PICK e \in EntryType :
        /\ e = [key |-> k, kept |-> NoAnswer, running |-> w, setback |-> NoSetback]
        /\ entries' = Append(Without(Evicted), e)
        /\ entries' \in Seq(EntryType) /\ Distinct(entries')
        /\ Range(entries') = {x \in Range(entries) : x.key \notin Evicted} \cup {e}
        /\ \A x \in Range(entries) : x.running # Absent => x.key \notin Evicted
  BY <1>1, <1>3, NewEntries
<1>5. e.key = k /\ e.running = w /\ e.kept.is = "none" /\ e \in Range(entries')
  BY <1>4 DEF NoAnswer
<1>6. EntrySound(e)
  BY <1>5 DEF EntrySound
<1>7. /\ \A x \in Range(entries') : x = e \/ x \in Range(entries)
      /\ \A x \in Range(entries) : x.running # Absent => x \in Range(entries')
      /\ \A x \in Range(entries') : x.key = k => x = e
  BY <1>1, <1>4 DEF Keys
<1>8. /\ now' \in Time /\ remembered' \in Seq(Remembered)
      /\ reads' \in [Work -> [PromQuery -> Read]]
      /\ refused' \in [Work -> BOOLEAN]
      /\ runs' \in [Work -> [on: BOOLEAN, key: Key \cup {Absent}, at: Time]]
      /\ \A x \in Range(entries') : Running(x)' /\ EntrySound(x)
      /\ \A v \in Work : Owned(v)' /\ RunSound(v)'
      /\ \A kw \in waiting : kw[2] # w /\ Awaits(kw)'
  BY <1>3, <1>4, <1>5, <1>6, <1>7, StartKeeps
<1>9. waiting' = waiting \cup {<<k, w>>} /\ handed' = Nothing
  BY <1>3 DEF Await
<1>10. handed' \in [key: Key \cup {Absent}, is: Outcome, waited: BOOLEAN] /\ GoodBeforeBad'
  BY <1>9 DEF GoodBeforeBad, Nothing, Outcome
<1>11. ~Servable(e)'
  BY <1>5 DEF Servable, ServableAt, Younger
<1>12. runs'[w].on /\ runs'[w].key = k
  BY <1>3, TypesOf DEF Start
<1>13. Awaits(<<k, w>>)'
  BY <1>7, <1>11, <1>12 DEF Awaits
<1>14. \A kw \in waiting' : Awaits(kw)'
  BY <1>8, <1>9, <1>13
<1>15. waiting' \subseteq Key \X Work /\ UNCHANGED inflight
  BY <1>3, <1>9 DEF SnapshotInv, SnapshotTypeOK, Start
<1> QED
  BY <1>4, <1>8, <1>10, <1>14, <1>15 DEF SnapshotInv, SnapshotTypeOK, EntriesInv

\* Run w ends and leaves e in the place of its entry: whoever waited for it had
\* nothing to be served, and has nothing now unless the run was good.
LEMMA EndKeeps ==
  ASSUME SnapshotInv, NEW w \in Work, runs[w].on, NEW e \in EntryType, e.key = runs[w].key,
         Changed(entries', e), e.running = Absent, EntrySound(e),
         NEW outcome \in Outcome, Settle(w, outcome),
         outcome # "good" => e.kept = EntryOf(e.key).kept
  PROVE  SnapshotInv'
<1>1. /\ runs' = [runs EXCEPT ![w] = NoRun]
      /\ reads' = [reads EXCEPT ![w] = NoValue]
      /\ refused' = [refused EXCEPT ![w] = FALSE]
      /\ waiting' = {kw \in waiting : kw[2] # w}
      /\ handed' = IF waiting' = waiting THEN Nothing
                   ELSE [key |-> runs[w].key, is |-> outcome, waited |-> TRUE]
      /\ UNCHANGED <<now, remembered, inflight>>
  BY DEF Settle
<1>2. /\ runs' \in [Work -> [on: BOOLEAN, key: Key \cup {Absent}, at: Time]]
      /\ ~runs'[w].on
      /\ \A v \in Work : v # w => runs'[v] = runs[v]
  BY <1>1, TypesOf DEF NoRun
<1>3. /\ reads' \in [Work -> [PromQuery -> Read]]
      /\ \A v \in Work : v # w => reads'[v] = reads[v]
  BY <1>1, TypesOf
<1>4. /\ refused' \in [Work -> BOOLEAN]
      /\ \A v \in Work : v # w => refused'[v] = refused[v]
  BY <1>1, TypesOf
<1>5. /\ entries' \in Seq(EntryType) /\ Distinct(entries')
      /\ \A x \in Range(entries') : x = e \/ (x \in Range(entries) /\ x.key # e.key)
      /\ \A x \in Range(entries) : x.key # e.key => x \in Range(entries')
  BY DEF Changed
<1>6. PICK o \in Range(entries) : o.key = e.key /\ o.running = w
  BY DEF SnapshotInv, EntriesInv, Owned
<1>7. EntryOf(e.key) = o /\ \A x \in Range(entries) : x.key = e.key => x = o
  BY <1>6, TypesOf, EntryIs
<1>8. \A x : Servable(x)' <=> Servable(x)
  BY <1>1 DEF Servable, ServableAt, Younger
<1>9. ASSUME NEW x \in Range(entries') PROVE Running(x)' /\ EntrySound(x)
  <2>1. CASE x = e
    BY <2>1 DEF Running
  <2>2. CASE x \in Range(entries) /\ x.key # e.key
    <3>1. x.running = Absent \/ x.running \in Work
      BY <2>2, TypesOf DEF EntryType
    <3>2. x.running # w
      BY <2>2, WorkAssumption DEF SnapshotInv, EntriesInv, Running
    <3> QED
      BY <1>2, <2>2, <3>1, <3>2 DEF SnapshotInv, EntriesInv, Running
  <2> QED
    BY <1>5, <2>1, <2>2
<1>10. ASSUME NEW v \in Work PROVE Owned(v)' /\ RunSound(v)'
  <2>1. CASE v = w
    BY <1>2, <2>1 DEF Owned, RunSound
  <2>2. CASE v # w
    <3>1. RunSound(v)'
      BY <1>1, <1>2, <1>3, <1>4, <2>2 DEF SnapshotInv, EntriesInv, RunSound
    <3>2. Owned(v)'
      <4> SUFFICES ASSUME runs[v].on PROVE Owned(v)'
        BY <1>2, <2>2 DEF Owned
      <4>1. PICK x \in Range(entries) : x.key = runs[v].key /\ x.running = v
        BY DEF SnapshotInv, EntriesInv, Owned
      <4>2. x.key # e.key
        BY <1>6, <1>7, <2>2, <4>1
      <4> QED
        BY <1>2, <1>5, <2>2, <4>1, <4>2 DEF Owned
    <3> QED
      BY <3>1, <3>2
  <2> QED
    BY <2>1, <2>2
<1>11. ASSUME NEW kw \in waiting' PROVE Awaits(kw)'
  <2>1. kw \in waiting /\ kw[2] # w /\ kw[2] \in Work /\ Awaits(kw)
    BY <1>1 DEF SnapshotInv, SnapshotTypeOK, EntriesInv
  <2>2. PICK x \in Range(entries) : x.key = kw[1] /\ x.running = kw[2]
    BY <2>1 DEF SnapshotInv, EntriesInv, Owned, Awaits
  <2>3. kw[1] # e.key
    BY <1>6, <1>7, <2>1, <2>2
  <2>4. \A y \in Range(entries') : y.key = kw[1] => y \in Range(entries)
    BY <1>5, <2>3
  <2> QED
    BY <1>2, <1>8, <2>1, <2>4 DEF Awaits
<1>12. GoodBeforeBad'
  <2> SUFFICES ASSUME handed'.key # Absent, handed'.is # "good",
                      NEW x \in Range(entries'), x.key = handed'.key
               PROVE  ~Servable(x)'
    BY DEF GoodBeforeBad
  <2>1. waiting' # waiting
    BY <1>1 DEF Nothing
  <2>2. handed'.key = e.key /\ handed'.is = outcome
    BY <1>1, <2>1
  <2>3. x = e /\ e.kept = o.kept
    BY <1>5, <1>7, <2>2
  <2>4. PICK kw \in waiting : kw[2] = w
    BY <1>1, <2>1
  <2>5. ~Servable(o)
    BY <1>6, <2>4 DEF SnapshotInv, EntriesInv, Awaits
  <2>6. ~Servable(e)
    BY <1>6, <2>3, <2>5 DEF Servable, ServableAt, Younger
  <2> QED
    BY <1>8, <2>3, <2>6
<1>13. handed' \in [key: Key \cup {Absent}, is: Outcome, waited: BOOLEAN]
  <2>1. Nothing \in [key: Key \cup {Absent}, is: Outcome, waited: BOOLEAN]
    BY DEF Nothing, Outcome
  <2>2. [key |-> runs[w].key, is |-> outcome, waited |-> TRUE]
          \in [key: Key \cup {Absent}, is: Outcome, waited: BOOLEAN]
    BY TypesOf
  <2> QED
    BY <1>1, <2>1, <2>2
<1>14. waiting' \subseteq Key \X Work
  BY <1>1 DEF SnapshotInv, SnapshotTypeOK
<1> QED
  BY <1>1, <1>2, <1>3, <1>4, <1>5, <1>9, <1>10, <1>11, <1>12, <1>13, <1>14
     DEF SnapshotInv, SnapshotTypeOK, EntriesInv

\* What the end of a run makes of its entry.
LEMMA EndEntry ==
  ASSUME SnapshotInv, NEW w \in Work, RunEnd(w)
  PROVE  runs[w].on /\ \E e \in EntryType, outcome \in Outcome :
           /\ e.key = runs[w].key /\ e.key \in Keys /\ e.running = Absent
           /\ Changed(entries', e) /\ EntrySound(e)
           /\ Settle(w, outcome)
           /\ outcome # "good" => e.kept = EntryOf(e.key).kept
<1>1. runs[w].on
  BY DEF RunEnd, RunGood, RunDegraded, RunThrows, AllRead, InOwnCode
<1>2. PICK o \in Range(entries) : o.key = runs[w].key /\ o.running = w
  BY <1>1 DEF SnapshotInv, EntriesInv, Owned
<1>3. o = EntryOf(runs[w].key) /\ o \in EntryType /\ o.key \in Keys /\ o.key \in Key
  BY <1>2, TypesOf, EntryIs DEF EntryType
<1>4. now \in Time /\ runs[w].at \in Time /\ reads[w] \in [PromQuery -> Read]
  BY TypesOf
<1>5. ASSUME NEW outcome \in {"degraded", "failed"}, SetBack(w, outcome)
      PROVE  \E e \in EntryType, out \in Outcome :
               /\ e.key = runs[w].key /\ e.key \in Keys /\ e.running = Absent
               /\ Changed(entries', e) /\ EntrySound(e)
               /\ Settle(w, out)
               /\ out # "good" => e.kept = EntryOf(e.key).kept
  <2>1. [is |-> outcome, at |-> now] \in [is: Outcome \ {"good"}, at: Time]
    BY <1>4 DEF Outcome
  <2>2. PICK e \in EntryType :
          e = [o EXCEPT !.running = Absent, !.setback = [is |-> outcome, at |-> now]]
    BY <1>3, <2>1 DEF EntryType
  <2>3. e.key = o.key /\ e.running = Absent /\ e.kept = o.kept
    BY <1>3, <2>2 DEF EntryType
  <2>4. entries' = With(e) /\ Settle(w, outcome)
    BY <1>3, <1>5, <2>2 DEF SetBack
  <2>5. Changed(entries', e)
    BY <1>3, <2>3, <2>4, WithChanges, TypesOf
  <2>6. EntrySound(e)
    BY <1>2, <2>3 DEF SnapshotInv, EntriesInv, EntrySound
  <2>7. outcome \in Outcome
    BY DEF Outcome
  <2> QED
    BY <1>2, <1>3, <2>3, <2>4, <2>5, <2>6, <2>7
<1>6. ASSUME RunGood(w)
      PROVE  \E e \in EntryType, out \in Outcome :
               /\ e.key = runs[w].key /\ e.key \in Keys /\ e.running = Absent
               /\ Changed(entries', e) /\ EntrySound(e)
               /\ Settle(w, out)
               /\ out # "good" => e.kept = EntryOf(e.key).kept
  <2>1. [is |-> "good", at |-> runs[w].at, value |-> reads[w]]
          \in [is: {"none", "good"}, at: Time, value: [PromQuery -> Read]]
    BY <1>4
  <2>2. NoSetback \in [is: Outcome \ {"good"}, at: Time]
    BY Durations DEF NoSetback, Outcome, Time
  <2>3. PICK e \in EntryType :
          e = [o EXCEPT !.kept = [is |-> "good", at |-> runs[w].at, value |-> reads[w]],
                        !.running = Absent, !.setback = NoSetback]
    BY <1>3, <2>1, <2>2 DEF EntryType
  <2>4. /\ e.key = o.key /\ e.running = Absent
        /\ e.kept = [is |-> "good", at |-> runs[w].at, value |-> reads[w]]
    BY <1>3, <2>3 DEF EntryType
  <2>5. entries' = Append(Without({e.key}), e) /\ Settle(w, "good") /\ ~refused[w]
    BY <1>3, <1>6, <2>3 DEF RunGood
  <2>6. Changed(entries', e)
    BY <2>5, LastChanges, TypesOf
  <2>7. EntrySound(e)
    <3>1. \A q \in PromQuery : ReadFits(reads[w][q], runs[w].at, q)
      BY <1>1, <2>5 DEF SnapshotInv, EntriesInv, RunSound
    <3>2. QueriesOf[e.key] \subseteq PromQuery
      BY <1>3, <2>4, KeyAssumption
    <3>3. e.kept.value = reads[w] /\ e.kept.at = runs[w].at
      BY <2>4
    <3> QED
      BY <3>1, <3>2, <3>3 DEF EntrySound
  <2>8. "good" \in Outcome
    BY DEF Outcome
  <2> QED
    BY <1>2, <1>3, <2>4, <2>5, <2>6, <2>7, <2>8
<1> QED
  BY <1>1, <1>5, <1>6 DEF RunEnd, RunDegraded, RunThrows

LEMMA RunEndKeeps ==
  ASSUME SnapshotInv, NEW w \in Work, RunEnd(w)
  PROVE  SnapshotInv'
  BY EndEntry, EndKeeps

\* Time forgets answers, and never makes one servable again.
LEMMA ClockKeeps ==
  ASSUME SnapshotInv, Clock
  PROVE  SnapshotInv'
<1>1. /\ now < MaxNow /\ now' = now + 1 /\ UNCHANGED <<inflight, reads, refused, runs, waiting>>
      /\ remembered' = Only(remembered, {m \in Range(remembered) : ~Expired(m, now + 1)})
      /\ handed' = Nothing
  BY DEF Clock, Tick
<1>2. now \in Nat /\ now' \in Time
  BY <1>1, TypesOf, Durations DEF Time
<1>3. remembered' \in Seq(Remembered)
  BY <1>1, OnlyPlaces DEF SnapshotInv, SnapshotTypeOK
<1> DEFINE forgets(o) == [o EXCEPT !.kept = IF ServableAt(o, now + 1) THEN o.kept ELSE NoAnswer,
                                   !.setback = IF CoolingAt(o, now + 1) THEN o.setback ELSE NoSetback]
<1>4. entries' = [i \in DOMAIN entries |-> forgets(entries[i])]
  BY DEF Clock
<1>5. 0 \in Time
  BY Durations DEF Time
<1>6. NoAnswer \in [is: {"none", "good"}, at: Time, value: [PromQuery -> Read]]
      /\ NoAnswer.is = "none"
  BY <1>5, TypesOf DEF NoAnswer
<1>7. NoSetback \in [is: Outcome \ {"good"}, at: Time]
  BY <1>5 DEF NoSetback, Outcome
<1>8. ASSUME NEW o \in EntryType
      PROVE  /\ forgets(o) \in EntryType
             /\ forgets(o).key = o.key /\ forgets(o).running = o.running
             /\ forgets(o).kept = o.kept \/ forgets(o).kept = NoAnswer
  <2>1. (IF ServableAt(o, now + 1) THEN o.kept ELSE NoAnswer)
          \in [is: {"none", "good"}, at: Time, value: [PromQuery -> Read]]
    BY <1>6 DEF EntryType
  <2>2. (IF CoolingAt(o, now + 1) THEN o.setback ELSE NoSetback) \in [is: Outcome \ {"good"}, at: Time]
    BY <1>7 DEF EntryType
  <2> QED
    BY <2>1, <2>2 DEF EntryType
<1>9. /\ entries' \in Seq(EntryType) /\ DOMAIN entries' = DOMAIN entries
      /\ \A i \in DOMAIN entries : /\ entries[i] \in EntryType
                                   /\ entries'[i].key = entries[i].key
                                   /\ entries'[i].running = entries[i].running
                                   /\ entries'[i].kept = entries[i].kept \/ entries'[i].kept = NoAnswer
  <2> HIDE DEF forgets
  <2>1. \A i \in DOMAIN entries : entries[i] \in EntryType
    BY TypesOf
  <2>2. entries \in Seq(EntryType)
    BY TypesOf
  <2> QED
    BY <1>4, <1>8, <2>1, <2>2
<1>10. Distinct(entries')
  BY <1>9, TypesOf DEF Distinct
<1>11. ASSUME NEW x \in Range(entries')
       PROVE  \E o \in Range(entries) :
                /\ o \in EntryType /\ x.key = o.key /\ x.running = o.running
                /\ x.kept = o.kept \/ x.kept = NoAnswer
  BY <1>9 DEF Range
<1>12. ASSUME NEW o \in Range(entries)
       PROVE  \E x \in Range(entries') : x.key = o.key /\ x.running = o.running
  BY <1>9 DEF Range
<1>13. ASSUME NEW x \in Range(entries') PROVE Running(x)' /\ EntrySound(x)
  <2>1. PICK o \in Range(entries) :
          /\ x.key = o.key /\ x.running = o.running
          /\ x.kept = o.kept \/ x.kept = NoAnswer
    BY <1>11
  <2> QED
    BY <1>1, <1>6, <2>1 DEF SnapshotInv, EntriesInv, Running, EntrySound
<1>14. ASSUME NEW w \in Work PROVE Owned(w)' /\ RunSound(w)'
  <2>1. Owned(w)'
    BY <1>1, <1>12 DEF SnapshotInv, EntriesInv, Owned
  <2>2. runs[w].at \in Nat
    BY TypesOf, Durations
  <2> QED
    BY <1>1, <1>2, <2>1, <2>2 DEF SnapshotInv, EntriesInv, RunSound
<1>15. ASSUME NEW kw \in waiting PROVE Awaits(kw)'
  <2> SUFFICES ASSUME NEW x \in Range(entries'), x.key = kw[1] PROVE ~Servable(x)'
    BY <1>1 DEF SnapshotInv, EntriesInv, Awaits
  <2>1. PICK o \in Range(entries) :
          /\ o \in EntryType /\ x.key = o.key
          /\ x.kept = o.kept \/ x.kept = NoAnswer
    BY <1>11
  <2>2. ~Servable(o)
    BY <2>1 DEF SnapshotInv, EntriesInv, Awaits
  <2>3. Ttl[o.key] \in Nat /\ o.kept.at \in Nat
    BY <2>1, KeyAssumption, Durations DEF EntryType
  <2> QED
    BY <1>1, <1>2, <1>6, <2>1, <2>2, <2>3 DEF Servable, ServableAt, Younger
<1>16. handed' \in [key: Key \cup {Absent}, is: Outcome, waited: BOOLEAN] /\ GoodBeforeBad'
  BY <1>1 DEF GoodBeforeBad, Nothing, Outcome
<1> QED
  BY <1>1, <1>2, <1>3, <1>9, <1>10, <1>13, <1>14, <1>15, <1>16
     DEF SnapshotInv, SnapshotTypeOK, EntriesInv

LEMMA SnapshotStep == SnapshotInv /\ [SnapshotNext]_snapshotVars => SnapshotInv'
<1> SUFFICES ASSUME SnapshotInv, [SnapshotNext]_snapshotVars PROVE SnapshotInv'
  OBVIOUS
<1>1. CASE UNCHANGED snapshotVars
  BY <1>1 DEF snapshotVars, readVars, SnapshotInv, SnapshotTypeOK, EntriesInv, GoodBeforeBad,
              Running, Owned, RunSound, Awaits, Servable, ServableAt, Younger
<1>2. CASE \E k \in Key : Get(k)
  BY <1>2, NewKeeps, ServeKeeps, AgainKeeps DEF Get
<1>3. CASE \E w \in Work, q \in PromQuery : ReadStep(w, q)
  BY <1>3, ReuseKeeps, AskKeeps DEF ReadStep
<1>4. CASE \E q \in PromQuery : StoreStep(q)
  BY <1>4, AnswerKeeps, RefuseKeeps DEF StoreStep
<1>5. CASE \E w \in Work : RunEnd(w)
  BY <1>5, RunEndKeeps
<1>6. CASE Clock
  BY <1>6, ClockKeeps
<1> QED
  BY <1>1, <1>2, <1>3, <1>4, <1>5, <1>6 DEF SnapshotNext

LEMMA SnapshotAlways == SnapshotSpec => []SnapshotInv
<1>1. SnapshotInit => SnapshotInv
  BY SnapshotStart
<1>2. SnapshotInv /\ [SnapshotNext]_snapshotVars => SnapshotInv'
  BY SnapshotStep
<1> QED
  BY <1>1, <1>2, PTL DEF SnapshotSpec

-----------------------------------------------------------------------------
(* The cap. *)

\* The entries before the i-th that no run is in flight for.
Before(i) == {j \in 1..(i - 1) : entries[j].running = Absent}

\* If an idle entry stays, enough of those before it go.
LEMMA EnoughGo ==
  ASSUME SnapshotInv, NEW i \in DOMAIN entries, entries[i].running = Absent,
         entries[i].key \notin Evicted
  PROVE  Len(Without(Evicted)) < MaxEntries
<1> DEFINE n == Len(entries)
           Idle == {j \in DOMAIN entries : entries[j].running = Absent}
           Go == {j \in Idle : Cardinality(Before(j)) <= n - MaxEntries}
           Stay == {j \in DOMAIN entries : entries[j].key \notin Evicted}
<1>1. entries \in Seq(EntryType) /\ DOMAIN entries = 1..n /\ n \in Nat /\ MaxEntries \in Nat
  BY TypesOf, KeyAssumption
<1>2. /\ IsFiniteSet(DOMAIN entries) /\ Cardinality(DOMAIN entries) = n
      /\ \A D \in SUBSET DOMAIN entries : IsFiniteSet(D) /\ Cardinality(D) \in Nat
  <2>1. IsFiniteSet(1..n) /\ Cardinality(1..n) = n
    <3> HIDE DEF n
    <3>1. 1 \in Int /\ n \in Int
      BY <1>1
    <3>2. IsFiniteSet(1..n) /\ Cardinality(1..n) = IF 1 > n THEN 0 ELSE n - 1 + 1
      BY <3>1, FS_Interval
    <3> QED
      BY <1>1, <3>2
  <2>2. \A D \in SUBSET (1..n) : IsFiniteSet(D)
    BY <2>1, FS_Subset
  <2> QED
    BY <1>1, <2>1, <2>2, FS_CardinalityType
<1>3. \A j \in DOMAIN entries : entries[j].key \in Evicted <=> j \in Go
  <2>1. Evicted = {entries[j].key : j \in Go}
    BY DEF Evicted, Before
  <2>2. \A j, l \in DOMAIN entries : entries[j].key = entries[l].key => j = l
    BY TypesOf DEF Distinct
  <2> QED
    BY <2>1, <2>2
<1>4. i \in Idle \ Go
  BY <1>3
<1>5. PICK m \in Idle \ Go : \A j \in Idle \ Go : m <= j
  <2>1. Idle \ Go \in SUBSET Nat /\ Idle \ Go # {}
    BY <1>1, <1>4
  <2> HIDE DEF Idle, Go
  <2> QED
    BY <2>1, Least
<1>6. Before(m) \subseteq Go
  <2> SUFFICES ASSUME NEW j \in Before(m) PROVE j \in Go
    OBVIOUS
  <2>1. j \in Idle /\ j < m
    BY <1>1, <1>5 DEF Before
  <2> QED
    BY <1>1, <1>5, <2>1
<1>7. Cardinality(Before(m)) > n - MaxEntries /\ Cardinality(Before(m)) \in Nat
  <2>1. Before(m) \in SUBSET DOMAIN entries
    BY <1>6
  <2>2. ~(Cardinality(Before(m)) <= n - MaxEntries)
    BY <1>5
  <2> QED
    BY <1>1, <1>2, <2>1, <2>2
<1>8. Go \in SUBSET DOMAIN entries /\ IsFiniteSet(Go) /\ Cardinality(Go) \in Nat
  BY <1>2
<1>9. Cardinality(Before(m)) <= Cardinality(Go)
  BY <1>6, <1>8, FS_Subset
<1>10. Stay = DOMAIN entries \ Go
  BY <1>3
<1>11. Cardinality(Stay) = n - Cardinality(Go)
  <2>1. DOMAIN entries \cap Go = Go
    BY <1>8
  <2>2. Cardinality(DOMAIN entries \ Go) = Cardinality(DOMAIN entries) - Cardinality(DOMAIN entries \cap Go)
    BY <1>2, FS_Difference
  <2> QED
    BY <1>2, <1>10, <2>1, <2>2
<1>12. Len(Without(Evicted)) = Cardinality(Stay)
  <2> DEFINE S == {x \in Range(entries) : x.key \notin Evicted}
  <2>1. Len(Only(entries, S)) = Cardinality({j \in DOMAIN entries : entries[j] \in S})
    BY <1>1, OnlyLen
  <2>2. {j \in DOMAIN entries : entries[j] \in S} = Stay
    BY <1>1, RangeAt
  <2> QED
    BY <2>1, <2>2 DEF Without
<1> QED
  BY <1>1, <1>7, <1>8, <1>9, <1>11, <1>12

\* CapHolds, of one step.
CapStep ==
  \A k \in {e.key : e \in Range(entries')} \ Keys :
    /\ Len(entries') > MaxEntries =>
         \A e \in Range(entries') : e.running # Absent
    /\ \A e \in Range(entries) : e.running # Absent => e \in Range(entries')

LEMMA NewCaps ==
  ASSUME SnapshotInv, NEW k \in Key, GetNew(k)
  PROVE  CapStep
<1>1. PICK w \in Work : entries' = Add(k, w) /\ k \notin Keys
  BY FreeOne DEF GetNew, Free
<1>2. PICK e \in EntryType :
        /\ e = [key |-> k, kept |-> NoAnswer, running |-> w, setback |-> NoSetback]
        /\ entries' = Append(Without(Evicted), e)
        /\ entries' \in Seq(EntryType) /\ Distinct(entries')
        /\ Range(entries') = {x \in Range(entries) : x.key \notin Evicted} \cup {e}
        /\ \A x \in Range(entries) : x.running # Absent => x.key \notin Evicted
  BY <1>1, NewEntries
<1>3. \A x \in Range(entries) : x.running # Absent => x \in Range(entries')
  BY <1>2
<1>4. ASSUME NEW x \in Range(entries'), x.running = Absent
      PROVE  ~(Len(entries') > MaxEntries)
  <2>1. x \in Range(entries) /\ x.key \notin Evicted
    BY <1>2, <1>4, WorkAssumption
  <2>2. PICK i \in DOMAIN entries : entries[i] = x
    BY <2>1, RangeAt, TypesOf
  <2>3. Len(Without(Evicted)) < MaxEntries
    BY <1>4, <2>1, <2>2, EnoughGo
  <2>4. Without(Evicted) \in Seq(EntryType)
    BY WithoutDrops, TypesOf
  <2>5. Len(Without(Evicted)) \in Nat /\ Len(Append(Without(Evicted), e)) = Len(Without(Evicted)) + 1
    <3> SUFFICES ASSUME NEW s \in Seq(EntryType), s = Without(Evicted)
                 PROVE  Len(s) \in Nat /\ Len(Append(s, e)) = Len(s) + 1
      BY <2>4
    <3> QED
      OBVIOUS
  <2> QED
    BY <1>2, <2>3, <2>5, KeyAssumption
<1> QED
  BY <1>3, <1>4 DEF CapStep

LEMMA OthersAddNone ==
  ASSUME SnapshotInv, SnapshotNext, \A k \in Key : ~GetNew(k)
  PROVE  {e.key : e \in Range(entries')} \subseteq Keys
<1>1. ASSUME NEW e \in EntryType, e.key \in Keys, Changed(entries', e)
      PROVE  {x.key : x \in Range(entries')} \subseteq Keys
  BY <1>1 DEF Changed, Keys
<1>2. CASE UNCHANGED entries
  BY <1>2 DEF Keys
<1>3. ASSUME NEW k \in Key, GetStale(k) \/ GetAgain(k)
      PROVE  {e.key : e \in Range(entries')} \subseteq Keys
  BY <1>1, <1>3, AgainEntry
<1>4. ASSUME NEW w \in Work, RunEnd(w)
      PROVE  {e.key : e \in Range(entries')} \subseteq Keys
  BY <1>1, <1>4, EndEntry
<1>5. ASSUME Clock PROVE {e.key : e \in Range(entries')} \subseteq Keys
  <2>1. /\ DOMAIN entries' = DOMAIN entries
        /\ \A i \in DOMAIN entries : entries'[i].key = entries[i].key
    <3>1. \A i \in DOMAIN entries : entries[i] \in EntryType
      BY TypesOf
    <3> QED
      BY <1>5, <3>1 DEF Clock, EntryType
  <2> QED
    BY <2>1 DEF Keys, Range
<1> QED
  BY <1>2, <1>3, <1>4, <1>5
     DEF SnapshotNext, Get, GetKept, GetShared, GetSetback, ReadStep, RunReuse, RunJoin, RunIssue,
         StoreStep, StoreAnswers, StoreRefuses, Apart

\* Every run that is on is its key's, for every number of works, routes and
\* queries, every length of time and every cap.
THEOREM RunsOwnTheirEntries == SnapshotSpec => []RunOwnsItsEntry
<1>1. SnapshotInv => RunOwnsItsEntry
  BY InvHolds
<1> QED
  BY <1>1, SnapshotAlways, PTL

\* What is kept as good holds nothing stale and no blank of the run's own.
THEOREM KeptAlwaysSound == SnapshotSpec => []KeptIsSound
<1>1. SnapshotInv => KeptIsSound
  BY InvHolds
<1> QED
  BY <1>1, SnapshotAlways, PTL

\* A good answer that can be served is served before any bad one.
THEOREM GoodAlwaysBeforeBad == SnapshotSpec => []GoodBeforeBad
<1>1. SnapshotInv => GoodBeforeBad
  BY DEF SnapshotInv
<1> QED
  BY <1>1, SnapshotAlways, PTL

\* Every variable of the snapshots keeps to its type.
THEOREM SnapshotTypeCorrect == SnapshotSpec => []SnapshotTypeOK
<1>1. SnapshotInv => SnapshotTypeOK
  BY DEF SnapshotInv
<1> QED
  BY <1>1, SnapshotAlways, PTL

\* A new key leaves the snapshots past their cap only by keys in flight.
THEOREM CapAlwaysHolds == SnapshotSpec => CapHolds
<1>1. SnapshotInv /\ [SnapshotNext]_snapshotVars => [CapStep]_snapshotVars
  <2> SUFFICES ASSUME SnapshotInv, SnapshotNext PROVE CapStep
    OBVIOUS
  <2>1. CASE \E k \in Key : GetNew(k)
    BY <2>1, NewCaps
  <2>2. CASE \A k \in Key : ~GetNew(k)
    BY <2>2, OthersAddNone DEF CapStep
  <2> QED
    BY <2>1, <2>2
<1> QED
  BY <1>1, SnapshotAlways, PTL DEF SnapshotSpec, CapHolds, CapStep
=============================================================================
