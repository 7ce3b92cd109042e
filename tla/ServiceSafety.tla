--------------------------- MODULE ServiceSafety ---------------------------
(***************************************************************************)
(* Theorems about the idle gate of the web (IdleGate), about sign-in with  *)
(* a provider (ProviderLinks) and about the try-me drawer (TryMe); and of  *)
(* the eight parts of MCServices together.                                 *)
(***************************************************************************)
EXTENDS MCServices, BudgetSafety, ViewSafety

-----------------------------------------------------------------------------
(* The idle gate. *)

Watching(k) == {p \in mounted : KeyOf[p] = k}

\* The count of a key is that of the panels that watch it (use-api.ts).
PollsCounted == \A k \in Key : polls[k] = Cardinality(Watching(k))

\* While a panel is up, the phase that was announced is past only if the timer
\* is going to say so, and then no later than the clock's own boundary: the
\* timer stays where it is when activity moves the boundary on.
Announced ==
  mounted # {} =>
    /\ idle.phase = "active" => timer # Unset /\ timer <= idle.last + SlowAfter
    /\ idle.phase = "slow" =>
         timer # Unset /\ timer <= idle.last + PauseAfter /\ clock - idle.last >= SlowAfter
    /\ idle.phase = "paused" => clock - idle.last >= PauseAfter

IdleInv ==
  /\ IdleTypeOK
  /\ exempt \in BOOLEAN
  /\ idle.last <= clock
  /\ PollsCounted
  /\ Announced

LEMMA DueType ==
  ASSUME NEW last \in Nat, NEW t \in Nat
  PROVE  DueFrom(last, t) \in {Unset} \cup Nat
  BY IdleAssumption DEF DueFrom

LEMMA StartedType ==
  ASSUME clock \in 0..MaxIdleTime, NEW moved \in BOOLEAN
  PROVE  /\ Started(clock, moved) \in [last: 0..MaxIdleTime, phase: Phase, resumes: BOOLEAN]
         /\ Started(clock, moved).last = clock
         /\ DueFrom(clock, clock) \in {Unset} \cup Nat
<1>1. /\ Started(clock, moved) \in [last: 0..MaxIdleTime, phase: Phase, resumes: BOOLEAN]
      /\ Started(clock, moved).last = clock
  BY Zenon DEF Started, Phase
<1>2. clock \in Nat
  BY IdleAssumption
<1>3. DueFrom(clock, clock) \in {Unset} \cup Nat
  BY <1>2, DueType
<1> QED
  BY <1>1, <1>3

LEMMA Clocks ==
  ASSUME IdleInv
  PROVE  /\ clock \in Nat /\ clock <= clock /\ idle.last \in Nat
         /\ timer \in Int /\ SlowAfter \in Nat /\ PauseAfter \in Nat
  BY IdleAssumption DEF IdleInv, IdleTypeOK, Unset

LEMMA WatchingFinite ==
  ASSUME mounted \subseteq Panel, NEW k
  PROVE  IsFiniteSet(Watching(k))
  BY IdleAssumption, FS_Subset DEF Watching

LEMMA IdleStart == IdleInit => IdleInv
<1> SUFFICES ASSUME IdleInit PROVE IdleInv
  OBVIOUS
<1>1. IdleTypeOK /\ exempt \in BOOLEAN /\ idle.last <= clock
  <2>1. idle \in [last: 0..MaxIdleTime, phase: Phase, resumes: BOOLEAN]
    <3>1. 0 \in 0..MaxIdleTime
      BY IdleAssumption
    <3> QED
      BY <3>1, Zenon DEF IdleInit, Started, Phase
  <2>2. idle.last = 0
    BY DEF IdleInit, Started
  <2>3. polls \in [Key -> Nat] /\ exempt \in BOOLEAN
    BY Zenon DEF IdleInit
  <2>4. clock \in 0..MaxIdleTime /\ idle.last <= clock
    <3>1. clock = 0
      BY DEF IdleInit
    <3> QED
      BY <2>2, <3>1, IdleAssumption
  <2>5. timer \in {Unset} \cup Nat /\ mounted \subseteq Panel /\ reread \subseteq Key
    BY DEF IdleInit
  <2> QED
    BY <2>1, <2>3, <2>4, <2>5 DEF IdleTypeOK
<1>2. PollsCounted
  <2>1. \A k \in Key : Watching(k) = {}
    BY DEF IdleInit, Watching
  <2> QED
    BY <2>1, FS_EmptySet DEF IdleInit, PollsCounted
<1>3. Announced
  BY DEF IdleInit, Announced
<1> QED
  BY <1>1, <1>2, <1>3 DEF IdleInv

LEMMA MountKeeps ==
  ASSUME IdleInv, NEW p \in Panel, Mount(p)
  PROVE  IdleInv'
<1>1. \A k \in Key : Watching(k)' = IF k = KeyOf[p] THEN Watching(k) \cup {p} ELSE Watching(k)
  BY DEF Mount, Watching
<1>2. \A k \in Key : IsFiniteSet(Watching(k)) /\ p \notin Watching(k)
  BY WatchingFinite DEF IdleInv, IdleTypeOK, Mount, Watching
<1>3. KeyOf[p] \in Key
  BY IdleAssumption
<1>4. PollsCounted'
  <2> SUFFICES ASSUME NEW k \in Key PROVE polls'[k] = Cardinality(Watching(k)')
    BY DEF PollsCounted
  <2>1. CASE k = KeyOf[p]
    <3>1. Cardinality(Watching(k) \cup {p}) = Cardinality(Watching(k)) + 1
      BY <1>2, FS_AddElement
    <3> QED
      BY <3>1, <1>1, <1>3, <2>1 DEF Mount, IdleInv, IdleTypeOK, PollsCounted
  <2>2. CASE k # KeyOf[p]
    BY <1>1, <1>3, <2>2 DEF Mount, IdleInv, IdleTypeOK, PollsCounted
  <2> QED
    BY <2>1, <2>2
<1>5. IdleTypeOK' /\ exempt' \in BOOLEAN /\ (idle.last <= clock)'
  <2>1. polls' \in [Key -> Nat]
    BY <1>3 DEF Mount, IdleInv, IdleTypeOK
  <2>2. idle' \in [last: 0..MaxIdleTime, phase: Phase, resumes: BOOLEAN] /\ idle'.last <= clock
    <3>1. CASE mounted = {}
      <4>1. idle' = Started(clock, FALSE)
        BY <3>1 DEF Mount
      <4> QED
        BY <4>1, Clocks, StartedType DEF IdleInv, IdleTypeOK
    <3>2. CASE mounted # {}
      <4>1. idle' = idle
        BY <3>2 DEF Mount
      <4> QED
        BY <4>1 DEF IdleInv, IdleTypeOK
    <3> QED
      BY <3>1, <3>2
  <2>3. timer' \in {Unset} \cup Nat
    BY StartedType DEF Mount, IdleInv, IdleTypeOK
  <2> QED
    BY <2>1, <2>2, <2>3 DEF Mount, IdleInv, IdleTypeOK
<1>6. Announced'
  <2>1. CASE mounted = {}
    BY <2>1, IdleAssumption DEF Mount, IdleInv, IdleTypeOK, Announced, Started, DueFrom, Unset
  <2>2. CASE mounted # {}
    BY <2>2 DEF Mount, IdleInv, Announced
  <2> QED
    BY <2>1, <2>2
<1> QED
  BY <1>4, <1>5, <1>6 DEF IdleInv

LEMMA UnmountKeeps ==
  ASSUME IdleInv, NEW p \in Panel, Unmount(p)
  PROVE  IdleInv'
<1>1. \A k \in Key : Watching(k)' = IF k = KeyOf[p] THEN Watching(k) \ {p} ELSE Watching(k)
  BY DEF Unmount, Watching
<1>2. \A k \in Key : IsFiniteSet(Watching(k))
  BY WatchingFinite DEF IdleInv, IdleTypeOK
<1>3. KeyOf[p] \in Key /\ p \in Watching(KeyOf[p])
  BY IdleAssumption DEF Unmount, Watching
<1>4. \A k \in Key : polls'[k] = Cardinality(Watching(k)') /\ polls'[k] \in Nat
  <2> SUFFICES ASSUME NEW k \in Key
               PROVE  polls'[k] = Cardinality(Watching(k)') /\ polls'[k] \in Nat
    OBVIOUS
  <2>1. CASE k = KeyOf[p]
    <3>1. /\ Cardinality(Watching(k) \ {p}) = Cardinality(Watching(k)) - 1
          /\ IsFiniteSet(Watching(k) \ {p})
      BY <1>2, <1>3, <2>1, FS_RemoveElement
    <3>2. Cardinality(Watching(k) \ {p}) \in Nat
      BY <3>1, FS_CardinalityType
    <3> QED
      BY <3>1, <3>2, <1>1, <1>3, <2>1 DEF Unmount, IdleInv, IdleTypeOK, PollsCounted
  <2>2. CASE k # KeyOf[p]
    BY <1>1, <1>3, <2>2 DEF Unmount, IdleInv, IdleTypeOK, PollsCounted
  <2> QED
    BY <2>1, <2>2
<1>5. IdleTypeOK' /\ exempt' \in BOOLEAN /\ (idle.last <= clock)'
  <2>1. polls' \in [Key -> Nat]
    BY <1>3, <1>4 DEF Unmount, IdleInv, IdleTypeOK
  <2> QED
    BY <2>1 DEF Unmount, IdleInv, IdleTypeOK
<1>6. Announced'
  BY DEF Unmount, IdleInv, Announced
<1> QED
  BY <1>4, <1>5, <1>6 DEF IdleInv, PollsCounted

LEMMA NavigateKeeps ==
  ASSUME IdleInv, Navigate
  PROVE  IdleInv'
  BY DEF IdleInv, Navigate, IdleTypeOK, PollsCounted, Watching, Announced

LEMMA TimerKeeps ==
  ASSUME IdleInv, TimerFires
  PROVE  IdleInv'
<1>1. PollsCounted'
  BY DEF IdleInv, TimerFires, PollsCounted, Watching
<1>2. IdleTypeOK' /\ exempt' \in BOOLEAN /\ (idle.last <= clock)'
  <2>1. timer' \in {Unset} \cup Nat
    BY DueType DEF IdleInv, TimerFires, IdleTypeOK
  <2>2. idle' \in [last: 0..MaxIdleTime, phase: Phase, resumes: BOOLEAN] /\ idle'.last <= clock
    BY DEF TimerFires, IdleInv, IdleTypeOK, Phase, IdlePhase
  <2> QED
    BY <2>1, <2>2 DEF TimerFires, IdleInv, IdleTypeOK
<1>3. Announced'
  BY IdleAssumption DEF IdleInv, IdleTypeOK, TimerFires, Announced, IdlePhase, DueFrom, Unset
<1> QED
  BY <1>1, <1>2, <1>3 DEF IdleInv

LEMMA ActivityKeeps ==
  ASSUME IdleInv, Activity
  PROVE  IdleInv'
<1>1. PollsCounted'
  BY DEF IdleInv, Activity, PollsCounted, Watching
<1>2. IdleTypeOK' /\ exempt' \in BOOLEAN /\ (idle.last <= clock)'
  <2>1. timer' \in {Unset} \cup Nat
    BY StartedType DEF IdleInv, Activity, IdleTypeOK
  <2>2. idle' \in [last: 0..MaxIdleTime, phase: Phase, resumes: BOOLEAN] /\ idle'.last <= clock
    <3>1. CASE Idle
      <4>1. idle' = Started(clock, TRUE)
        BY <3>1 DEF Activity
      <4> QED
        BY <4>1, Clocks, StartedType DEF IdleInv, IdleTypeOK
    <3>2. CASE ~Idle
      <4>1. idle' = [idle EXCEPT !.last = clock, !.resumes = FALSE]
        BY <3>2 DEF Activity
      <4>2. /\ idle' \in [last: 0..MaxIdleTime, phase: Phase, resumes: BOOLEAN]
            /\ idle'.last = clock
        BY <4>1 DEF IdleInv, IdleTypeOK
      <4> QED
        BY <4>2, Clocks
    <3> QED
      BY <3>1, <3>2
  <2>3. reread' \subseteq Key
    BY DEF Activity, Polled
  <2> QED
    BY <2>1, <2>2, <2>3 DEF Activity, IdleInv, IdleTypeOK
<1>3. Announced'
  <2>1. CASE Idle
    BY <2>1, IdleAssumption
    DEF IdleInv, IdleTypeOK, Activity, Announced, Started, DueFrom, Unset
  <2>2. CASE ~Idle
    <3>1. idle.phase = "active" /\ mounted # {} /\ timer # Unset /\ timer <= idle.last + SlowAfter
      BY <2>2 DEF IdleInv, Announced, Activity, Idle
    <3>2. idle'.phase = "active" /\ idle'.last = clock /\ timer' = timer
      BY <2>2, <3>1 DEF Activity, IdleInv, IdleTypeOK
    <3>3. timer <= clock + SlowAfter
      BY <3>1, Clocks DEF IdleInv
    <3> QED
      BY <3>1, <3>2, <3>3 DEF Announced
  <2> QED
    BY <2>1, <2>2
<1> QED
  BY <1>1, <1>2, <1>3 DEF IdleInv

LEMMA TickKeeps ==
  ASSUME IdleInv, IdleTick
  PROVE  IdleInv'
<1>1. PollsCounted'
  BY DEF IdleInv, IdleTick, PollsCounted, Watching
<1>2. IdleTypeOK' /\ exempt' \in BOOLEAN /\ (idle.last <= clock)'
  <2>1. clock' \in 0..MaxIdleTime /\ clock < clock'
    BY IdleAssumption DEF IdleInv, IdleTick, IdleTypeOK
  <2>2. /\ idle' \in [last: 0..MaxIdleTime, phase: Phase, resumes: BOOLEAN]
        /\ idle'.last = idle.last
    BY DEF IdleInv, IdleTick, IdleTypeOK
  <2>3. idle'.last <= clock'
    BY <2>1, <2>2, Clocks DEF IdleInv
  <2> QED
    BY <2>1, <2>2, <2>3 DEF IdleInv, IdleTick, IdleTypeOK
<1>3. Announced'
  BY IdleAssumption DEF IdleInv, IdleTypeOK, IdleTick, Announced, Phase
<1> QED
  BY <1>1, <1>2, <1>3 DEF IdleInv

LEMMA IdleStep == IdleInv /\ [IdleNext]_idleVars => IdleInv'
<1> SUFFICES ASSUME IdleInv, [IdleNext]_idleVars PROVE IdleInv'
  OBVIOUS
<1>1. CASE UNCHANGED idleVars
  BY <1>1 DEF idleVars, IdleInv, IdleTypeOK, PollsCounted, Watching, Announced
<1>2. CASE IdleNext
  BY <1>2, MountKeeps, UnmountKeeps, NavigateKeeps, TimerKeeps, ActivityKeeps, TickKeeps
  DEF IdleNext
<1> QED
  BY <1>1, <1>2

LEMMA IdleAlways == IdleSpec => []IdleInv
  BY IdleStart, IdleStep, PTL DEF IdleSpec

LEMMA NoneLeftWrong == IdleInv => PillCatchesUp
<1> SUFFICES ASSUME IdleInv, Gated, idle.phase # IdlePhase(clock - idle.last)
             PROVE  timer # Unset /\ timer <= clock
  BY DEF PillCatchesUp, PhaseDrawn, PhaseNow
<1>1. mounted # {} /\ idle.phase \in Phase
  BY DEF Gated, IdleInv, IdleTypeOK
<1> QED
  BY <1>1, IdleAssumption DEF IdleInv, IdleTypeOK, Announced, IdlePhase, Phase, Unset

\* PillCatchesUp, for any panels, boundaries and time.
THEOREM PillAlwaysCatchesUp == IdleSpec => []PillCatchesUp
  BY IdleAlways, NoneLeftWrong, PTL

LEMMA ReturnStep ==
  ASSUME IdleInv, [IdleNext]_idleVars, Gated, Gated', PhaseNow # "active", PhaseNow' = "active"
  PROVE  idle'.resumes /\ {KeyOf[p] : p \in mounted'} \subseteq reread'
<1>1. mounted # {} /\ ~exempt /\ mounted' # {} /\ ~exempt'
  BY DEF Gated
<1>2. /\ IdlePhase(clock - idle.last) # "active"
      /\ IdlePhase(clock' - idle'.last) = "active"
  BY DEF PhaseNow
<1>3. ~(clock' = clock /\ idle'.last = idle.last)
  BY <1>2
<1>4. ~IdleTick
  BY <1>2, IdleAssumption DEF IdleTick, IdleInv, IdleTypeOK, IdlePhase
<1>5. ~TimerFires
  BY <1>3 DEF TimerFires, IdleInv, IdleTypeOK
<1>6. Activity
  BY <1>1, <1>3, <1>4, <1>5 DEF IdleNext, idleVars, Mount, Unmount, Navigate
<1>7. idle'.resumes /\ reread' = Polled /\ mounted' = mounted
  BY <1>1, <1>2, <1>6 DEF Activity, Idle, Started
<1>8. ASSUME NEW p \in mounted PROVE KeyOf[p] \in Polled
  <2>1. KeyOf[p] \in Key /\ p \in Watching(KeyOf[p])
    BY <1>8, IdleAssumption DEF IdleInv, IdleTypeOK, Watching
  <2>2. IsFiniteSet(Watching(KeyOf[p]))
    BY WatchingFinite DEF IdleInv, IdleTypeOK
  <2>3. Cardinality(Watching(KeyOf[p])) # 0
    BY <2>1, <2>2, FS_EmptySet
  <2> QED
    BY <2>1, <2>3 DEF IdleInv, IdleTypeOK, PollsCounted, Polled
<1> QED
  BY <1>7, <1>8

\* ReturnRereads, for any panels and keys.
THEOREM ReturnAlwaysRereads == IdleSpec => ReturnRereads
<1>1. IdleInv /\ [IdleNext]_idleVars =>
        [Gated /\ Gated' /\ PhaseNow # "active" /\ PhaseNow' = "active" =>
           idle'.resumes /\ {KeyOf[p] : p \in mounted'} \subseteq reread']_idleVars
  BY ReturnStep
<1> QED
  BY <1>1, IdleAlways, PTL DEF IdleSpec, ReturnRereads

-----------------------------------------------------------------------------
(* Sign-in with a provider. *)

\* What a request has read is still so when it uses it: the identity it goes by
\* has proved the address it looks for, and that of the account it has found,
\* which was not among those removed when it began.  An account keeps its
\* address once it has one.
CallFine(c) ==
  /\ calls[c].at # "idle" => calls[c].as \in Identity
  /\ calls[c].at \in {"provider", "address"} /\ calls[c].email # NoOne =>
       <<calls[c].as, calls[c].email>> \in vouched
  /\ calls[c].at = "address" => calls[c].email # NoOne
  /\ calls[c].at \in {"link", "open"} =>
       /\ calls[c].user \in UserRow /\ users[calls[c].user].status # "unused"
       /\ <<calls[c].as, users[calls[c].user].email>> \in vouched
       /\ calls[c].user \notin calls[c].gone
  /\ calls[c].gone \subseteq Gone

LinksProved ==
  \A u \in UserRow :
    users[u].googleId # NoOne => <<users[u].googleId, users[u].email>> \in vouched

OpenedFine ==
  opened # NoSession => <<opened.as, users[opened.user].email>> \in vouched /\ ~opened.late

LinksInv ==
  /\ LinksTypeOK
  /\ LinksProved
  /\ OpenedFine
  /\ \A c \in Caller : CallFine(c)

\* What a step may do to the accounts: none loses its address, or comes back.
Onward ==
  /\ \A u \in UserRow :
       users[u].status # "unused" => users'[u].status # "unused" /\ users'[u].email = users[u].email
  /\ Gone \subseteq Gone'
  /\ vouched \subseteq vouched'

\* A step that takes one request further, or none, leaves the others fine.
LEMMA OthersFine ==
  ASSUME LinksInv, Onward, NEW c \in Caller, calls'[c] = calls[c]
  PROVE  CallFine(c)'
<1>1. CallFine(c)
  BY DEF LinksInv
<1>2. users[calls[c].user].email = users'[calls[c].user].email \/ calls[c].at \notin {"link", "open"}
  BY <1>1 DEF CallFine, Onward
<1> QED
  BY <1>1, <1>2 DEF CallFine, Onward

LEMMA LinksStart == LinksInit => LinksInv
<1> SUFFICES ASSUME LinksInit PROVE LinksInv
  OBVIOUS
<1>1. LinksTypeOK
  BY DEF LinksInit, LinksTypeOK, NoUser, NoCall, NoSession
<1>2. LinksProved /\ OpenedFine
  BY DEF LinksInit, LinksProved, OpenedFine, NoUser
<1>3. ASSUME NEW c \in Caller PROVE CallFine(c)
  BY DEF LinksInit, CallFine, NoCall
<1> QED
  BY <1>1, <1>2, <1>3 DEF LinksInv

LEMMA IdleFine ==
  ASSUME NEW c \in Caller, calls'[c] = NoCall
  PROVE  CallFine(c)'
  BY DEF CallFine, NoCall

LEMMA SignInWithKeeps ==
  ASSUME LinksInv, NEW c \in Caller, NEW i \in Identity, NEW email \in Address \cup {NoOne},
         SignInWith(c, i, email)
  PROVE  LinksInv'
<1>1. Onward
  BY DEF SignInWith, Onward, Gone
<1>2. LinksTypeOK'
  <2>1. vouched' \subseteq Identity \X Address
    BY DEF SignInWith, LinksInv, LinksTypeOK
  <2>2. Gone \subseteq UserRow
    BY DEF Gone
  <2> QED
    BY <2>1, <2>2 DEF SignInWith, LinksInv, LinksTypeOK, NoSession
<1>3. LinksProved' /\ OpenedFine'
  BY <1>1 DEF SignInWith, LinksInv, LinksProved, OpenedFine, Onward
<1>4. CallFine(c)'
  <2>1. calls'[c] = [at |-> "provider", as |-> i, email |-> email, user |-> NoOne, gone |-> Gone]
    BY DEF SignInWith, LinksInv, LinksTypeOK
  <2>2. email # NoOne => <<i, email>> \in vouched'
    BY DEF SignInWith
  <2> QED
    BY <1>1, <2>1, <2>2 DEF CallFine, Onward
<1>5. ASSUME NEW d \in Caller, d # c PROVE CallFine(d)'
  <2>1. calls'[d] = calls[d]
    BY <1>5 DEF SignInWith, LinksInv, LinksTypeOK
  <2> QED
    BY <1>1, <2>1, OthersFine
<1> QED
  BY <1>2, <1>3, <1>4, <1>5 DEF LinksInv

\* A request that reads and goes on, or is answered, changes no account.
LEMMA ReadKeeps ==
  ASSUME LinksInv, NEW c \in Caller, UNCHANGED <<users, vouched>>, opened' = NoSession,
         NEW at \in {"address", "link", "open"}, NEW u \in UserRow \cup {NoOne},
         (GoesTo(c, at, u) /\ CallFine(c)') \/ Answered(c)
  PROVE  LinksInv'
<1>1. Onward
  BY DEF Onward, Gone
<1>2. LinksTypeOK'
  <2>1. opened' \in [user: UserRow \cup {NoOne}, as: Identity \cup {NoOne}, late: BOOLEAN]
    BY DEF NoSession
  <2>2. calls' \in [Caller ->
          [at: {"idle", "provider", "address", "link", "open"}, as: Identity \cup {NoOne},
           email: Address \cup {NoOne}, user: UserRow \cup {NoOne}, gone: SUBSET UserRow]]
    BY DEF GoesTo, Answered, NoCall, LinksInv, LinksTypeOK
  <2> QED
    BY <2>1, <2>2 DEF LinksInv, LinksTypeOK
<1>3. LinksProved' /\ OpenedFine'
  BY <1>1 DEF LinksInv, LinksProved, OpenedFine, Onward
<1>4. CallFine(c)'
  <2>1. CASE Answered(c)
    <3>1. calls'[c] = NoCall
      BY <2>1 DEF Answered, LinksInv, LinksTypeOK
    <3> QED
      BY <3>1, IdleFine
  <2> QED
    BY <2>1
<1>5. ASSUME NEW d \in Caller, d # c PROVE CallFine(d)'
  <2>1. calls'[d] = calls[d]
    BY <1>5 DEF GoesTo, Answered, LinksInv, LinksTypeOK
  <2> QED
    BY <1>1, <2>1, OthersFine
<1> QED
  BY <1>2, <1>3, <1>4, <1>5 DEF LinksInv

LEMMA ByProviderKeeps ==
  ASSUME LinksInv, NEW c \in Caller, ByProvider(c)
  PROVE  LinksInv'
<1>1. CallFine(c) /\ calls[c].at = "provider"
  BY DEF ByProvider, LinksInv
<1>2. UNCHANGED <<users, vouched>> /\ opened' = NoSession
  BY DEF ByProvider
<1>3. CASE Answered(c)
  BY <1>2, <1>3, ReadKeeps
<1>4. CASE \E u \in Holders(calls[c].as) : users[u].status = "active" /\ GoesTo(c, "open", u)
  <2>1. PICK u \in UserRow : /\ users[u].googleId = calls[c].as
                             /\ users[u].status = "active" /\ GoesTo(c, "open", u)
    BY <1>4 DEF Holders
  <2>2. calls'[c] = [calls[c] EXCEPT !.at = "open", !.user = u]
    BY <2>1 DEF GoesTo, LinksInv, LinksTypeOK
  <2>3. calls'[c].at = "open" /\ calls'[c].user = u /\ calls'[c].as = calls[c].as
        /\ calls'[c].gone = calls[c].gone
    BY <2>2 DEF LinksInv, LinksTypeOK
  <2>4. <<calls[c].as, users[u].email>> \in vouched
    BY <1>1, <2>1, LinksAssumption DEF CallFine, LinksInv, LinksProved
  <2>5. u \notin calls[c].gone
    BY <1>1, <2>1 DEF CallFine, Gone
  <2>6. CallFine(c)'
    BY <1>1, <1>2, <2>1, <2>3, <2>4, <2>5 DEF CallFine, Gone
  <2> QED
    BY <1>2, <2>1, <2>6, ReadKeeps
<1>5. CASE calls[c].email # NoOne /\ GoesTo(c, "address", NoOne)
  <2>1. calls'[c] = [calls[c] EXCEPT !.at = "address", !.user = NoOne]
    BY <1>5 DEF GoesTo, LinksInv, LinksTypeOK
  <2>2. calls'[c].at = "address" /\ calls'[c].as = calls[c].as
        /\ calls'[c].email = calls[c].email /\ calls'[c].gone = calls[c].gone
    BY <2>1 DEF LinksInv, LinksTypeOK
  <2>3. CallFine(c)'
    BY <1>1, <1>2, <1>5, <2>2 DEF CallFine, Gone
  <2> QED
    BY <1>2, <1>5, <2>3, ReadKeeps
<1> QED
  BY <1>3, <1>4, <1>5 DEF ByProvider

LEMMA ByAddressKeeps ==
  ASSUME LinksInv, NEW c \in Caller, ByAddress(c)
  PROVE  LinksInv'
<1>1. CallFine(c) /\ calls[c].at = "address"
  BY DEF ByAddress, LinksInv
<1>2. UNCHANGED <<users, vouched>> /\ opened' = NoSession
  BY DEF ByAddress
<1>3. CASE Answered(c)
  BY <1>2, <1>3, ReadKeeps
<1>4. CASE \E u \in Active(calls[c].email) : GoesTo(c, "link", u)
  <2>1. PICK u \in UserRow : /\ users[u].email = calls[c].email
                             /\ users[u].status = "active" /\ GoesTo(c, "link", u)
    BY <1>4 DEF Active
  <2>2. calls'[c] = [calls[c] EXCEPT !.at = "link", !.user = u]
    BY <2>1 DEF GoesTo, LinksInv, LinksTypeOK
  <2>3. calls'[c].at = "link" /\ calls'[c].user = u /\ calls'[c].as = calls[c].as
        /\ calls'[c].gone = calls[c].gone
    BY <2>2 DEF LinksInv, LinksTypeOK
  <2>4. u \notin calls[c].gone
    BY <1>1, <2>1 DEF CallFine, Gone
  <2>5. CallFine(c)'
    BY <1>1, <1>2, <2>1, <2>3, <2>4 DEF CallFine, Gone
  <2> QED
    BY <1>2, <2>1, <2>5, ReadKeeps
<1> QED
  BY <1>3, <1>4 DEF ByAddress

LEMMA GoesToType ==
  ASSUME LinksInv, NEW c \in Caller, NEW at \in {"address", "link", "open"},
         NEW u \in UserRow \cup {NoOne}, GoesTo(c, at, u)
  PROVE  calls' \in [Caller ->
           [at: {"idle", "provider", "address", "link", "open"}, as: Identity \cup {NoOne},
            email: Address \cup {NoOne}, user: UserRow \cup {NoOne}, gone: SUBSET UserRow]]
<1> DEFINE Calls == [at: {"idle", "provider", "address", "link", "open"}, as: Identity \cup {NoOne},
                     email: Address \cup {NoOne}, user: UserRow \cup {NoOne}, gone: SUBSET UserRow]
<1>1. calls \in [Caller -> Calls]
  BY DEF LinksInv, LinksTypeOK
<1>2. calls' = [calls EXCEPT ![c] = [calls[c] EXCEPT !.at = at, !.user = u]]
  BY <1>1 DEF GoesTo
<1>3. calls[c] \in Calls
  BY <1>1
<1>4. [calls[c] EXCEPT !.at = at, !.user = u] \in Calls
  BY <1>3
<1>5. calls' \in [Caller -> Calls]
  <2> HIDE DEF Calls
  <2> QED
    BY <1>1, <1>2, <1>4
<1> QED
  BY <1>5

LEMMA LinkKeeps ==
  ASSUME LinksInv, NEW c \in Caller, Link(c)
  PROVE  LinksInv'
<1> DEFINE u == calls[c].user
<1>1. /\ calls[c].at = "link" /\ calls[c].as \in Identity /\ u \in UserRow
      /\ users[u].status # "unused" /\ <<calls[c].as, users[u].email>> \in vouched
      /\ u \notin calls[c].gone /\ calls[c].gone \subseteq Gone /\ CallFine(c)
  BY DEF Link, LinksInv, CallFine
<1>2. vouched' = vouched /\ opened' = NoSession
  BY DEF Link
<1>3. CASE Answered(c) /\ UNCHANGED users
  BY <1>2, <1>3, ReadKeeps
<1>4. CASE users' = [users EXCEPT ![u].googleId = calls[c].as] /\ GoesTo(c, "open", u)
  <2>1. \A v \in UserRow : /\ users'[v].status = users[v].status
                           /\ users'[v].email = users[v].email
                           /\ v # u => users'[v] = users[v]
    BY <1>4 DEF LinksInv, LinksTypeOK
  <2>2. users'[u].googleId = calls[c].as
    BY <1>1, <1>4 DEF LinksInv, LinksTypeOK
  <2>3. Onward
    BY <1>2, <2>1 DEF Onward, Gone
  <2>4. calls'[c] = [calls[c] EXCEPT !.at = "open", !.user = u]
    BY <1>4 DEF GoesTo, LinksInv, LinksTypeOK
  <2>5. calls'[c].at = "open" /\ calls'[c].user = u /\ calls'[c].as = calls[c].as
        /\ calls'[c].gone = calls[c].gone
    BY <2>4 DEF LinksInv, LinksTypeOK
  <2>6. CallFine(c)'
    BY <1>1, <1>2, <2>1, <2>3, <2>5 DEF CallFine, Onward
  <2>7. ASSUME NEW d \in Caller, d # c PROVE CallFine(d)'
    <3>1. calls'[d] = calls[d]
      BY <1>4, <2>7 DEF GoesTo, LinksInv, LinksTypeOK
    <3> QED
      BY <2>3, <3>1, OthersFine
  <2>8. LinksProved' /\ OpenedFine'
    BY <1>1, <1>2, <2>1, <2>2 DEF LinksInv, LinksProved, OpenedFine
  <2>9. LinksTypeOK'
    <3>1. users' \in [UserRow -> [status: {"unused", "active", "removed"},
                                  email: Address \cup {NoOne}, googleId: Identity \cup {NoOne}]]
      BY <1>1, <1>4 DEF LinksInv, LinksTypeOK
    <3>2. calls' \in [Caller ->
            [at: {"idle", "provider", "address", "link", "open"}, as: Identity \cup {NoOne},
             email: Address \cup {NoOne}, user: UserRow \cup {NoOne}, gone: SUBSET UserRow]]
      BY <1>1, <1>4, GoesToType
    <3>3. opened' \in [user: UserRow \cup {NoOne}, as: Identity \cup {NoOne}, late: BOOLEAN]
      BY <1>2 DEF NoSession
    <3> QED
      BY <1>2, <3>1, <3>2, <3>3 DEF LinksInv, LinksTypeOK
  <2> QED
    BY <2>6, <2>7, <2>8, <2>9 DEF LinksInv
<1> QED
  BY <1>3, <1>4 DEF Link

LEMMA OpenKeeps ==
  ASSUME LinksInv, NEW c \in Caller, Open(c)
  PROVE  LinksInv'
<1>1. /\ calls[c].at = "open" /\ calls[c].as \in Identity /\ calls[c].user \in UserRow
      /\ <<calls[c].as, users[calls[c].user].email>> \in vouched
      /\ calls[c].user \notin calls[c].gone
  BY DEF Open, LinksInv, CallFine
<1>2. users' = users /\ vouched' = vouched /\ Answered(c)
  BY DEF Open
<1>3. Onward
  BY <1>2 DEF Onward, Gone
<1>4. opened' = [user |-> calls[c].user, as |-> calls[c].as, late |-> FALSE]
  <2>1. (calls[c].user \in calls[c].gone) = FALSE
    BY <1>1
  <2> QED
    BY <2>1, Zenon DEF Open
<1>5. LinksProved' /\ OpenedFine'
  BY <1>1, <1>2, <1>4 DEF LinksInv, LinksProved, OpenedFine
<1>6. LinksTypeOK'
  <2>1. calls' \in [Caller ->
          [at: {"idle", "provider", "address", "link", "open"}, as: Identity \cup {NoOne},
           email: Address \cup {NoOne}, user: UserRow \cup {NoOne}, gone: SUBSET UserRow]]
    BY <1>2 DEF Answered, NoCall, LinksInv, LinksTypeOK
  <2>2. opened' \in [user: UserRow \cup {NoOne}, as: Identity \cup {NoOne}, late: BOOLEAN]
    BY <1>1, <1>4
  <2> QED
    BY <1>2, <2>1, <2>2 DEF LinksInv, LinksTypeOK
<1>7. ASSUME NEW d \in Caller PROVE CallFine(d)'
  <2>1. calls'[d] = IF d = c THEN NoCall ELSE calls[d]
    BY <1>2 DEF Answered, LinksInv, LinksTypeOK
  <2> QED
    BY <1>3, <2>1, OthersFine, IdleFine
<1> QED
  BY <1>5, <1>6, <1>7 DEF LinksInv

LEMMA RedeemKeeps ==
  ASSUME LinksInv, NEW c \in Caller, NEW u \in UserRow, NEW email \in Address,
         NEW i \in Identity \cup {NoOne}, Redeem(c, u, email, i)
  PROVE  LinksInv'
<1> DEFINE opening == [at |-> "open", as |-> i, email |-> email, user |-> u, gone |-> Gone]
<1>1. /\ users[u].status = "unused" /\ opened' = NoSession
      /\ users' = [users EXCEPT ![u] = [status |-> "active", email |-> email, googleId |-> i]]
  BY DEF Redeem
<1>2. /\ \A v \in UserRow : v # u => users'[v] = users[v]
      /\ users'[u] = [status |-> "active", email |-> email, googleId |-> i]
  BY <1>1 DEF LinksInv, LinksTypeOK
<1>3. \/ i = NoOne /\ calls' = calls /\ vouched' = vouched
      \/ /\ i \in Identity /\ calls' = [calls EXCEPT ![c] = opening]
         /\ vouched' = vouched \cup {<<i, email>>}
  BY DEF Redeem
<1>4. Onward
  BY <1>1, <1>2, <1>3 DEF Onward, Gone
<1>5. u \notin Gone
  BY <1>1 DEF Gone
<1>6. LinksProved' /\ OpenedFine'
  BY <1>1, <1>2, <1>3 DEF LinksInv, LinksProved, OpenedFine
<1>7. LinksTypeOK'
  <2>1. Gone \in SUBSET UserRow
    BY DEF Gone
  <2>2. opening \in [at: {"idle", "provider", "address", "link", "open"}, as: Identity \cup {NoOne},
                  email: Address \cup {NoOne}, user: UserRow \cup {NoOne}, gone: SUBSET UserRow]
    BY <2>1
  <2>3. calls' \in [Caller ->
          [at: {"idle", "provider", "address", "link", "open"}, as: Identity \cup {NoOne},
           email: Address \cup {NoOne}, user: UserRow \cup {NoOne}, gone: SUBSET UserRow]]
    BY <1>3, <2>2 DEF LinksInv, LinksTypeOK
  <2>4. users' \in [UserRow -> [status: {"unused", "active", "removed"},
                                email: Address \cup {NoOne}, googleId: Identity \cup {NoOne}]]
    BY <1>1 DEF LinksInv, LinksTypeOK
  <2>5. opened' \in [user: UserRow \cup {NoOne}, as: Identity \cup {NoOne}, late: BOOLEAN]
    BY <1>1 DEF NoSession
  <2>6. vouched' \subseteq Identity \X Address
    BY <1>3 DEF LinksInv, LinksTypeOK
  <2> QED
    BY <2>3, <2>4, <2>5, <2>6 DEF LinksTypeOK
<1>8. ASSUME NEW d \in Caller PROVE CallFine(d)'
  <2>1. CASE calls'[d] = calls[d]
    BY <1>4, <2>1, OthersFine
  <2>2. CASE i \in Identity /\ calls'[d] = opening /\ <<i, email>> \in vouched'
    BY <1>2, <1>4, <1>5, <2>2 DEF CallFine, Onward
  <2> QED
    BY <1>3, <2>1, <2>2 DEF LinksInv, LinksTypeOK
<1> QED
  BY <1>6, <1>7, <1>8 DEF LinksInv

LEMMA RemoveUserKeeps ==
  ASSUME LinksInv, NEW u \in UserRow, RemoveUser(u)
  PROVE  LinksInv'
<1>1. /\ users' = [users EXCEPT ![u].status = "removed", ![u].googleId = NoOne]
      /\ opened' = NoSession /\ calls' = calls /\ vouched' = vouched
  BY DEF RemoveUser
<1>2. \A v \in UserRow : /\ users'[v].email = users[v].email
                         /\ v # u => users'[v] = users[v]
  BY <1>1 DEF LinksInv, LinksTypeOK
<1>3. users'[u].status = "removed" /\ users'[u].googleId = NoOne
  BY <1>1 DEF LinksInv, LinksTypeOK
<1>4. Onward
  BY <1>1, <1>2, <1>3 DEF Onward, Gone
<1>5. LinksProved' /\ OpenedFine'
  <2>1. OpenedFine'
    BY <1>1 DEF OpenedFine
  <2>2. ASSUME NEW v \in UserRow, users'[v].googleId # NoOne
        PROVE  <<users'[v].googleId, users'[v].email>> \in vouched
    BY <1>2, <1>3, <2>2 DEF LinksInv, LinksProved
  <2> QED
    BY <1>1, <2>1, <2>2 DEF LinksProved
<1>6. LinksTypeOK'
  <2>1. users' \in [UserRow -> [status: {"unused", "active", "removed"},
                                email: Address \cup {NoOne}, googleId: Identity \cup {NoOne}]]
    <3>1. users[u] \in [status: {"unused", "active", "removed"},
                        email: Address \cup {NoOne}, googleId: Identity \cup {NoOne}]
      BY DEF LinksInv, LinksTypeOK
    <3>2. users' = [users EXCEPT ![u] = [users[u] EXCEPT !.status = "removed", !.googleId = NoOne]]
      BY <1>1 DEF LinksInv, LinksTypeOK
    <3>3. [users[u] EXCEPT !.status = "removed", !.googleId = NoOne]
            \in [status: {"unused", "active", "removed"},
                 email: Address \cup {NoOne}, googleId: Identity \cup {NoOne}]
      BY <3>1
    <3> QED
      BY <3>2, <3>3 DEF LinksInv, LinksTypeOK
  <2>2. opened' \in [user: UserRow \cup {NoOne}, as: Identity \cup {NoOne}, late: BOOLEAN]
    BY <1>1 DEF NoSession
  <2> QED
    BY <1>1, <2>1, <2>2 DEF LinksInv, LinksTypeOK
<1>7. ASSUME NEW d \in Caller PROVE CallFine(d)'
  BY <1>1, <1>4, OthersFine
<1> QED
  BY <1>5, <1>6, <1>7 DEF LinksInv

LEMMA LinksStep == LinksInv /\ [LinksNext]_linksVars => LinksInv'
<1> SUFFICES ASSUME LinksInv, [LinksNext]_linksVars PROVE LinksInv'
  OBVIOUS
<1>1. CASE UNCHANGED linksVars
  BY <1>1
  DEF linksVars, LinksInv, LinksTypeOK, LinksProved, OpenedFine, CallFine, Gone
<1>2. CASE LinksNext
  BY <1>2, SignInWithKeeps, ByProviderKeeps, ByAddressKeeps, LinkKeeps, OpenKeeps, RedeemKeeps,
     RemoveUserKeeps
  DEF LinksNext
<1> QED
  BY <1>1, <1>2

LEMMA LinksAlways == LinksSpec => []LinksInv
  BY LinksStart, LinksStep, PTL DEF LinksSpec

\* OnlyOwnersGetIn, for any accounts, addresses, identities and requests.
THEOREM OnlyOwnersEverGetIn == LinksSpec => []OnlyOwnersGetIn
<1>1. LinksInv => OnlyOwnersGetIn
  BY DEF LinksInv, LinksProved, OpenedFine, OnlyOwnersGetIn
<1> QED
  BY <1>1, LinksAlways, PTL

-----------------------------------------------------------------------------
(* The try-me drawer. *)

\* A browser socket belongs to a request over a socket.
SocketsFit == \A s \in Sending : sends[s].socket # "none" => OverSocket(s)

\* Only what the transport offers is ever selected: the snap of switchTransport.
DrawerInv ==
  /\ DrawerTypeOK
  /\ SocketsFit
  /\ controls.command \in Offered(controls.transport)
  /\ SpinnersTrue
  /\ SendsCanLand

LEMMA DrawerStart == DrawerInit => DrawerInv
<1> SUFFICES ASSUME DrawerInit PROVE DrawerInv
  OBVIOUS
<1>1. PICK t \in Transport : \E c \in Offered(t) :
        controls = [command |-> c, transport |-> t,
                    target |-> IF drawerRow.backup /\ t \in drawerRow.direct
                               THEN "upstream" ELSE "router"]
  BY DEF DrawerInit, Transport
<1>2. PICK c \in Offered(t) :
        controls = [command |-> c, transport |-> t,
                    target |-> IF drawerRow.backup /\ t \in drawerRow.direct
                               THEN "upstream" ELSE "router"]
  BY <1>1
<1>3. c \in Command
  BY <1>2, CommandAssumption DEF Offered
<1>4. DrawerTypeOK
  BY <1>1, <1>2, <1>3 DEF DrawerInit, DrawerTypeOK, Blank, AtRest, Transport, Via, Request
<1>5. controls.command \in Offered(controls.transport)
  BY <1>2
<1>6. SocketsFit /\ SpinnersTrue /\ SendsCanLand
  BY DEF DrawerInit, SocketsFit, SpinnersTrue, SendsCanLand, Blank, AtRest
<1> QED
  BY <1>4, <1>5, <1>6 DEF DrawerInv

\* Turning a control sends nothing.
LEMMA ControlsKeep ==
  ASSUME DrawerInv,
         \/ \E c \in Command : Select(c)
         \/ \E t \in Transport : SwitchTransport(t)
         \/ \E via \in Via : SetTarget(via)
  PROVE  DrawerInv'
<1>1. /\ UNCHANGED <<drawerRow, comparing, sends, latest>>
      /\ \/ shown' = Blank /\ wsPhase' = "none"
         \/ UNCHANGED <<shown, wsPhase>>
  BY DEF Select, SwitchTransport, SetTarget, ResetResult, Blank
<1>2. /\ controls' \in [command: Command, transport: Transport, target: Via]
      /\ controls'.command \in Offered(controls'.transport)
  <2>1. ASSUME NEW c \in Command, Select(c)
        PROVE  /\ controls' \in [command: Command, transport: Transport, target: Via]
               /\ controls'.command \in Offered(controls'.transport)
    BY <2>1 DEF DrawerInv, DrawerTypeOK, Select
  <2>2. ASSUME NEW t \in Transport, SwitchTransport(t)
        PROVE  /\ controls' \in [command: Command, transport: Transport, target: Via]
               /\ controls'.command \in Offered(controls'.transport)
    <3>1. PICK c \in Offered(t) :
            controls' = [command |-> c, transport |-> t,
                         target |-> IF t \in drawerRow.direct THEN controls.target ELSE "router"]
      BY <2>2 DEF SwitchTransport
    <3>2. c \in Command
      BY CommandAssumption DEF Offered
    <3> QED
      BY <3>1, <3>2 DEF DrawerInv, DrawerTypeOK, Via
  <2>3. ASSUME NEW via \in Via, SetTarget(via)
        PROVE  /\ controls' \in [command: Command, transport: Transport, target: Via]
               /\ controls'.command \in Offered(controls'.transport)
    BY <2>3 DEF DrawerInv, DrawerTypeOK, SetTarget
  <2> QED
    BY <2>1, <2>2, <2>3
<1>3. DrawerTypeOK'
  BY <1>1, <1>2 DEF DrawerInv, DrawerTypeOK, Blank
<1>4. SpinnersTrue'
  BY <1>1 DEF DrawerInv, SpinnersTrue, OverSocket, Blank
<1>5. SendsCanLand' /\ SocketsFit'
  BY <1>1 DEF DrawerInv, SendsCanLand, SocketsFit, OverSocket
<1> QED
  BY <1>2, <1>3, <1>4, <1>5 DEF DrawerInv, Offered

\* A send starts with a request that can land, and is what spins from then on.
LEMMA FireKeeps ==
  ASSUME DrawerInv, NEW s \in Sending, NEW both \in BOOLEAN, NEW leg \in Via,
         Fire(s, both, leg),
         comparing' = (comparing \/ both),
         leg = "router" => ~drawerRow.backup,
         leg = "upstream" \/ both => OnDirect /\ ~PathRefused
  PROVE  DrawerInv'
<1> DEFINE new == [on |-> TRUE, both |-> both, leg |-> leg, of |-> {Selected},
                   socket |-> Socket(leg, controls.transport)]
<1>1. /\ sends' = [sends EXCEPT ![s] = new]
      /\ latest' = {s} /\ UNCHANGED <<drawerRow, controls>>
      /\ shown' = [status |-> "loading", of |-> {}, pair |-> {}]
      /\ wsPhase' = IF controls.transport = "ws" THEN "connecting" ELSE "none"
      /\ ~sends[s].on
  BY DEF Fire, ResetResult, Blank
<1>2. Selected \in Request
  BY DEF DrawerInv, DrawerTypeOK, Selected, Request
<1>3. /\ sends'[s] = new
      /\ \A x \in Sending \ {s} : sends'[x] = sends[x]
  BY <1>1 DEF DrawerInv, DrawerTypeOK
<1>4. DrawerTypeOK'
  <2>1. new \in [on: BOOLEAN, both: BOOLEAN, leg: Via, of: SUBSET Request,
                 socket: {"none", "connecting", "open", "shut"}]
    BY <1>2 DEF Socket
  <2> QED
    BY <1>1, <2>1 DEF DrawerInv, DrawerTypeOK
<1>5. SpinnersTrue'
  <2>1. \E x \in latest' : sends'[x].on
    BY <1>1, <1>3
  <2>2. comparing' => \E x \in Sending : sends'[x].on /\ sends'[x].both
    BY <1>1, <1>3 DEF DrawerInv, SpinnersTrue
  <2>3. wsPhase' # "none" => \E r \in sends'[s].of : r.transport = "ws"
    <3>1. sends'[s].of = {Selected}
      BY <1>3
    <3>2. wsPhase' # "none" => Selected.transport = "ws"
      BY <1>1 DEF Selected
    <3> QED
      BY <3>1, <3>2
  <2> QED
    BY <1>3, <2>1, <2>2, <2>3 DEF SpinnersTrue, OverSocket
<1>6. SendsCanLand'
  <2>1. /\ leg = "upstream" \/ both =>
             controls.transport \in drawerRow.direct /\ controls.command \notin Foreign
        /\ controls.transport = "http" => controls.command \notin Subscription
    BY DEF DrawerInv, OnDirect, PathRefused, Offered
  <2>2. \A r \in sends'[s].of : r.transport = controls.transport /\ r.command = controls.command
    BY <1>3 DEF Selected
  <2>3. /\ sends'[s].leg = "router" => ~drawerRow'.backup
        /\ sends'[s].leg = "upstream" \/ sends'[s].both =>
             \A r \in sends'[s].of : r.transport \in drawerRow'.direct /\ r.command \notin Foreign
        /\ \A r \in sends'[s].of : r.transport = "http" => r.command \notin Subscription
    BY <1>1, <1>3, <2>1, <2>2
  <2> QED
    BY <1>1, <1>3, <2>3 DEF DrawerInv, SendsCanLand
<1>7. SocketsFit'
  <2>1. sends'[s].socket # "none" => Selected.transport = "ws" /\ Selected \in sends'[s].of
    BY <1>3 DEF Socket, Selected
  <2> QED
    BY <1>3, <2>1 DEF DrawerInv, SocketsFit, OverSocket
<1> QED
  BY <1>1, <1>4, <1>5, <1>6, <1>7 DEF DrawerInv, Offered

\* A socket that opens or shuts, and a pair half answered, go on.
LEMMA OnTheWayKeeps ==
  ASSUME DrawerInv, NEW s \in Sending, SocketOpens(s) \/ SocketShut(s) \/ RouterHalf(s)
  PROVE  DrawerInv'
<1>1. /\ UNCHANGED <<drawerRow, controls, shown, comparing, latest>>
      /\ sends[s].on
      /\ \/ SocketOpens(s) /\ sends' = [sends EXCEPT ![s].socket = "open"]
         \/ SocketShut(s) /\ sends' = [sends EXCEPT ![s].socket = "shut"]
         \/ RouterHalf(s) /\ sends' = [sends EXCEPT ![s].leg = "upstream", ![s].socket = "none"]
  BY DEF SocketOpens, SocketShut, RouterHalf
<1>2. /\ \A x \in Sending : /\ sends'[x].on = sends[x].on /\ sends'[x].both = sends[x].both
                           /\ sends'[x].of = sends[x].of
                           /\ \/ sends'[x].leg = sends[x].leg
                              \/ sends'[x].leg = "upstream" /\ sends[x].both
  <2>1. \A x \in Sending : x # s => sends'[x] = sends[x]
    BY <1>1 DEF DrawerInv, DrawerTypeOK
  <2>2. /\ sends'[s].on = sends[s].on /\ sends'[s].both = sends[s].both
        /\ sends'[s].of = sends[s].of
    <3>1. CASE sends' = [sends EXCEPT ![s].socket = "open"]
      BY <3>1 DEF DrawerInv, DrawerTypeOK
    <3>2. CASE sends' = [sends EXCEPT ![s].socket = "shut"]
      BY <3>2 DEF DrawerInv, DrawerTypeOK
    <3>3. CASE sends' = [sends EXCEPT ![s].leg = "upstream", ![s].socket = "none"]
      BY <3>3 DEF DrawerInv, DrawerTypeOK
    <3> QED
      BY <1>1, <3>1, <3>2, <3>3
  <2>3. \/ sends'[s].leg = sends[s].leg
        \/ sends'[s].leg = "upstream" /\ sends[s].both
    <3>1. RouterHalf(s) => sends[s].both
      BY DEF RouterHalf
    <3> QED
      BY <1>1, <3>1 DEF DrawerInv, DrawerTypeOK
  <2> QED
    BY <2>1, <2>2, <2>3
<1>3. DrawerTypeOK'
  BY <1>1 DEF DrawerInv, DrawerTypeOK, Via, SocketOpens, SocketShut, RouterHalf
<1>4. wsPhase' # "none" => \E x \in Sending : sends[x].on /\ OverSocket(x)
  <2>1. wsPhase' # wsPhase => SocketOpens(s) \/ OverSocket(s)
    BY <1>1 DEF SocketShut, RouterHalf
  <2>2. SocketOpens(s) => OverSocket(s)
    BY DEF DrawerInv, SocketsFit, SocketOpens
  <2>3. sends[s].on /\ (wsPhase # "none" => \E x \in Sending : sends[x].on /\ OverSocket(x))
    BY <1>1 DEF DrawerInv, SpinnersTrue
  <2> QED
    BY <2>1, <2>2, <2>3
<1>5. SpinnersTrue'
  <2>1. latest \subseteq Sending
    BY DEF DrawerInv, DrawerTypeOK
  <2>2. \A x \in Sending : OverSocket(x)' <=> OverSocket(x)
    BY <1>2 DEF OverSocket
  <2>3. /\ shown.status = "loading" => \E x \in latest : sends[x].on
        /\ comparing => \E x \in Sending : sends[x].on /\ sends[x].both
    BY DEF DrawerInv, SpinnersTrue
  <2>4. /\ shown'.status = "loading" => \E x \in latest' : sends'[x].on
        /\ comparing' => \E x \in Sending : sends'[x].on /\ sends'[x].both
    BY <1>1, <1>2, <2>1, <2>3
  <2>5. wsPhase' # "none" => \E x \in Sending : sends'[x].on /\ OverSocket(x)'
    BY <1>2, <1>4, <2>2
  <2> QED
    BY <2>4, <2>5 DEF SpinnersTrue
<1>6. SendsCanLand'
  BY <1>1, <1>2 DEF DrawerInv, SendsCanLand
<1>7. SocketsFit'
  <2>1. \A x \in Sending : x # s => sends'[x] = sends[x]
    BY <1>1 DEF DrawerInv, DrawerTypeOK
  <2>2. sends'[s].socket # "none" => sends[s].socket # "none"
    BY <1>1 DEF DrawerInv, DrawerTypeOK, SocketOpens, SocketShut
  <2>3. \A x \in Sending : sends'[x].socket # "none" => OverSocket(x)
    BY <2>1, <2>2 DEF DrawerInv, SocketsFit
  <2>4. \A x \in Sending : OverSocket(x)' <=> OverSocket(x)
    BY <1>2 DEF OverSocket
  <2> QED
    BY <2>3, <2>4 DEF SocketsFit
<1> QED
  BY <1>1, <1>3, <1>5, <1>6, <1>7 DEF DrawerInv, Offered

\* What settles no longer spins: its answer is shown, and the rest is as it was.
LEMMA SettleKeeps ==
  ASSUME DrawerInv, NEW s \in Sending,
         RouterAnswers(s) \/ UpstreamAnswers(s) \/ PairAnswers(s) \/ Fails(s)
  PROVE  DrawerInv'
<1>1. /\ UNCHANGED <<drawerRow, controls, latest>>
      /\ sends' = [sends EXCEPT ![s] = AtRest]
      /\ \E status \in {"ok", "error"}, pair \in SUBSET Request :
           shown' = [status |-> status, of |-> sends[s].of, pair |-> pair]
      /\ comparing' \in BOOLEAN /\ wsPhase' \in {"none", "connecting", "open"}
      /\ comparing' => comparing /\ ~sends[s].both
      /\ wsPhase' # "none" => wsPhase' = wsPhase /\ ~OverSocket(s)
  <2> USE DEF DrawerInv, DrawerTypeOK, Settle, Show
  <2>1. CASE RouterAnswers(s)
    BY <2>1 DEF RouterAnswers
  <2>2. CASE UpstreamAnswers(s)
    BY <2>2 DEF UpstreamAnswers
  <2>3. CASE PairAnswers(s)
    BY <2>3 DEF PairAnswers
  <2>4. CASE Fails(s)
    BY <2>4 DEF Fails
  <2> QED
    BY <2>1, <2>2, <2>3, <2>4
<1>2. /\ sends'[s] = AtRest
      /\ \A x \in Sending \ {s} : sends'[x] = sends[x]
  BY <1>1 DEF DrawerInv, DrawerTypeOK
<1>3. DrawerTypeOK'
  <2>1. sends[s].of \in SUBSET Request
    BY DEF DrawerInv, DrawerTypeOK
  <2>2. AtRest \in [on: BOOLEAN, both: BOOLEAN, leg: Via, of: SUBSET Request,
                    socket: {"none", "connecting", "open", "shut"}]
    BY DEF AtRest, Via
  <2> QED
    BY <1>1, <2>1, <2>2 DEF DrawerInv, DrawerTypeOK
<1>4. SpinnersTrue'
  <2>1. shown'.status # "loading"
    BY <1>1
  <2>2. comparing' => \E x \in Sending : sends'[x].on /\ sends'[x].both
    BY <1>1, <1>2 DEF DrawerInv, SpinnersTrue
  <2>3. wsPhase' # "none" => \E x \in Sending \ {s} : sends[x].on /\ OverSocket(x)
    BY <1>1 DEF DrawerInv, SpinnersTrue
  <2>4. wsPhase' # "none" => \E x \in Sending : sends'[x].on /\ OverSocket(x)'
    BY <1>2, <2>3 DEF OverSocket
  <2> QED
    BY <2>1, <2>2, <2>4 DEF SpinnersTrue
<1>5. SendsCanLand' /\ SocketsFit'
  BY <1>1, <1>2 DEF DrawerInv, SendsCanLand, SocketsFit, OverSocket, AtRest
<1> QED
  BY <1>1, <1>3, <1>4, <1>5 DEF DrawerInv, Offered

LEMMA DrawerStep == DrawerInv /\ [DrawerNext]_drawerVars => DrawerInv'
<1> SUFFICES ASSUME DrawerInv, [DrawerNext]_drawerVars PROVE DrawerInv'
  OBVIOUS
<1>1. CASE UNCHANGED drawerVars
  BY <1>1 DEF drawerVars, DrawerInv, DrawerTypeOK, SocketsFit, SpinnersTrue, SendsCanLand,
              OverSocket, Offered
<1>2. CASE \/ \E c \in Command : Select(c)
           \/ \E t \in Transport : SwitchTransport(t)
           \/ \E via \in Via : SetTarget(via)
  BY <1>2, ControlsKeep
<1>3. ASSUME NEW s \in Sending, Send(s) PROVE DrawerInv'
  <2> DEFINE leg == IF OnDirect THEN "upstream" ELSE "router"
  <2>1. /\ Fire(s, FALSE, leg) /\ leg \in Via
        /\ comparing' = (comparing \/ FALSE)
        /\ leg = "router" => ~drawerRow.backup
        /\ leg = "upstream" \/ FALSE => OnDirect /\ ~PathRefused
    BY <1>3 DEF Send, Via, PinRefused, DrawerInv, DrawerTypeOK
  <2> QED
    BY <2>1, FireKeeps
<1>4. ASSUME NEW s \in Sending, Compare(s) PROVE DrawerInv'
  <2>1. /\ Fire(s, TRUE, "router") /\ "router" \in Via
        /\ comparing' = (comparing \/ TRUE)
        /\ ~drawerRow.backup /\ OnDirect /\ ~PathRefused
    BY <1>4 DEF Compare, Via, PinRefused
  <2> QED
    BY <2>1, FireKeeps
<1>5. ASSUME NEW s \in Sending, SocketOpens(s) \/ SocketShut(s) \/ RouterHalf(s)
      PROVE  DrawerInv'
  BY <1>5, OnTheWayKeeps
<1>6. ASSUME NEW s \in Sending,
             RouterAnswers(s) \/ UpstreamAnswers(s) \/ PairAnswers(s) \/ Fails(s)
      PROVE  DrawerInv'
  BY <1>6, SettleKeeps
<1> QED
  BY <1>1, <1>2, <1>3, <1>4, <1>5, <1>6 DEF DrawerNext

LEMMA DrawerAlways == DrawerSpec => []DrawerInv
  BY DrawerStart, DrawerStep, PTL DEF DrawerSpec

\* DrawerHolds, for any catalog and any number of sends at once.
THEOREM DrawerAlwaysHolds == DrawerSpec => []DrawerHolds
<1>1. DrawerInv => DrawerHolds
  BY DEF DrawerInv, DrawerHolds
<1> QED
  BY <1>1, DrawerAlways, PTL

-----------------------------------------------------------------------------
(* The parts together. *)

\* Each part, seen alone, behaves as its own specification says.
LEMMA PartsStart ==
  Init => /\ ChartInit /\ LockoutInit /\ ViewerInit /\ IdleInit
          /\ ReportInit /\ HealthInit /\ LinksInit /\ DrawerInit
  BY DEF Init

LEMMA PartsStep ==
  [Next]_<<focus, chart, lockoutVars, viewerVars, idleVars, reportVars,
           healthVars, linksVars, drawerVars>> =>
    /\ [ChartNext]_chart /\ [LockoutNext]_lockoutVars /\ [ViewerNext]_viewerVars
    /\ [IdleNext]_idleVars /\ [ReportNext]_reportVars /\ [HealthNext]_healthVars
    /\ [LinksNext]_linksVars /\ [DrawerNext]_drawerVars
  BY DEF Next

\* A behaviour of the parts one at a time is one of every part, so what is proved
\* of a part alone holds of it there.
THEOREM PartsBehave ==
  Spec => /\ ChartSpec /\ LockoutSpec /\ ViewerSpec /\ IdleSpec
          /\ ReportSpec /\ HealthSpec /\ LinksSpec /\ DrawerSpec
  BY PartsStart, PartsStep, PTL
  DEF Spec, ChartSpec, LockoutSpec, ViewerSpec, IdleSpec, ReportSpec, HealthSpec, LinksSpec, DrawerSpec

\* Every part keeps its types, whatever the sizes: counts stay in their bounds,
\* requests and answers keep their shape, and nothing is selected, polled or
\* linked that is not there.
THEOREM TypesAlwaysOK == Spec => []TypesOK
<1>1. ReportInv => ReportTypeOK
  BY DEF ReportInv
<1>2. HealthInv => HealthTypeOK
  BY DEF HealthInv
<1>3. ViewerInv => ViewerTypeOK
  BY DEF ViewerInv
<1>4. IdleInv => IdleTypeOK
  BY DEF IdleInv
<1>5. LinksInv => LinksTypeOK
  BY DEF LinksInv
<1>6. DrawerInv => DrawerTypeOK
  BY DEF DrawerInv
<1> QED
  BY <1>1, <1>2, <1>3, <1>4, <1>5, <1>6, PartsBehave, LockoutTypeCorrect, ReportAlways,
     HealthAlways, ViewerAlways, IdleAlways, LinksAlways, DrawerAlways, PTL
  DEF TypesOK
=============================================================================
