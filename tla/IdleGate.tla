------------------------------ MODULE IdleGate ------------------------------
(***************************************************************************)
(* The idle gate of the web's polls (poll.ts, idle-store.ts, use-api.ts):  *)
(* polls slow down, then stop, when nobody is at the page, and a return    *)
(* re-reads them.  The polls read the clock; what the page draws is the    *)
(* phase last announced by a timer that may be late (a hidden tab, a       *)
(* laptop asleep).                                                         *)
(***************************************************************************)
EXTENDS Integers, FiniteSets

CONSTANTS
  Panel, Key,     \* panels that poll, and what they read
  KeyOf,          \* KeyOf[p], the key that panel p polls
  SlowAfter, PauseAfter,
  MaxIdleTime     \* bound

ASSUME IdleAssumption ==
  /\ KeyOf \in [Panel -> Key] /\ IsFiniteSet(Panel)
  /\ SlowAfter \in Nat \ {0} /\ PauseAfter \in Nat /\ MaxIdleTime \in Nat
  /\ SlowAfter < PauseAfter

VARIABLES
  clock,
  idle,           \* IdleState, but that resumes only says whether it has moved
  timer,          \* when the phase timer is due, or Unset
  mounted,        \* panels on the page: subscribers, and watchers of their key
  polls,          \* polls[k], how many of them watch k
  exempt,         \* whether the page showing is one the gate leaves alone
  reread          \* history: the keys that the last step re-read

idleVars == <<clock, idle, timer, mounted, polls, exempt, reread>>

Unset == -1
Phase == {"active", "slow", "paused"}

IdlePhase(ms) == IF ms >= PauseAfter THEN "paused" ELSE IF ms >= SlowAfter THEN "slow" ELSE "active"

\* Mutant: the timer is not set again for the pause.
DueOnce(last, t) == IF t - last < SlowAfter THEN last + SlowAfter ELSE Unset

\* msToNextPhase(), from t: when the phase moves on its own.
DueFrom(last, t) ==
  IF t - last < SlowAfter THEN last + SlowAfter
  ELSE IF t - last < PauseAfter THEN last + PauseAfter ELSE Unset

Started(t, moved) == [last |-> t, phase |-> "active", resumes |-> moved]

IdleInit ==
  /\ clock = 0
  /\ idle = Started(0, FALSE)
  /\ timer = Unset
  /\ mounted = {}
  /\ polls = [k \in Key |-> 0]
  /\ exempt = FALSE
  /\ reread = {}

Gated == mounted # {} /\ ~exempt
PhaseNow == IF Gated THEN IdlePhase(clock - idle.last) ELSE "active"
PhaseDrawn == IF Gated THEN idle.phase ELSE "active"

Mount(p) ==
  /\ p \notin mounted
  /\ mounted' = mounted \cup {p}
  /\ polls' = [polls EXCEPT ![KeyOf[p]] = @ + 1]
  /\ IF mounted = {}
     THEN idle' = Started(clock, FALSE) /\ timer' = DueFrom(clock, clock)
     ELSE UNCHANGED <<idle, timer>>
  /\ reread' = {}
  /\ UNCHANGED <<clock, exempt>>

\* Mutant: a panel stops watching twice.
UnmountTwice(p) ==
  /\ mounted' = mounted \ {p}
  /\ polls' = [polls EXCEPT ![KeyOf[p]] = @ - 1]
  /\ timer' = IF mounted' = {} THEN Unset ELSE timer
  /\ reread' = {}
  /\ UNCHANGED <<clock, idle, exempt>>

Unmount(p) ==
  /\ p \in mounted
  /\ mounted' = mounted \ {p}
  /\ polls' = [polls EXCEPT ![KeyOf[p]] = @ - 1]
  /\ timer' = IF mounted' = {} THEN Unset ELSE timer
  /\ reread' = {}
  /\ UNCHANGED <<clock, idle, exempt>>

\* Another page shows: the exempt one, or one that is gated.
Navigate ==
  /\ exempt' = ~exempt
  /\ reread' = {}
  /\ UNCHANGED <<clock, idle, timer, mounted, polls>>

\* tick(): fires when it is due or later, and sets itself again.
TimerFires ==
  /\ timer # Unset /\ timer <= clock
  /\ idle' = [idle EXCEPT !.phase = IdlePhase(clock - idle.last), !.resumes = FALSE]
  /\ timer' = DueFrom(idle.last, clock)
  /\ reread' = {}
  /\ UNCHANGED <<clock, mounted, polls, exempt>>

\* Mutant: only the announcement tells.
IdleAnnounced == idle.phase # "active"

\* onActivity(): a return from idle by the announcement or by the clock.
Idle == idle.phase # "active" \/ IdlePhase(clock - idle.last) # "active"
Polled == {k \in Key : polls[k] > 0}

Activity ==
  /\ mounted # {}
  /\ IF Idle
     THEN /\ idle' = Started(clock, TRUE)
          /\ timer' = DueFrom(clock, clock)
          /\ reread' = IF exempt THEN {} ELSE Polled
     ELSE /\ idle' = [idle EXCEPT !.last = clock, !.resumes = FALSE]
          /\ reread' = {}
          /\ UNCHANGED timer
  /\ UNCHANGED <<clock, mounted, polls, exempt>>

IdleTick ==
  /\ clock < MaxIdleTime
  /\ clock' = clock + 1
  /\ idle' = [idle EXCEPT !.resumes = FALSE]
  /\ reread' = {}
  /\ UNCHANGED <<timer, mounted, polls, exempt>>

IdleNext ==
  \/ \E p \in Panel : Mount(p) \/ Unmount(p)
  \/ Navigate
  \/ TimerFires
  \/ Activity
  \/ IdleTick

IdleSpec == IdleInit /\ [][IdleNext]_idleVars

IdleTypeOK ==
  /\ clock \in 0..MaxIdleTime
  /\ idle \in [last: 0..MaxIdleTime, phase: Phase, resumes: BOOLEAN]
  /\ timer \in {Unset} \cup Nat
  /\ mounted \subseteq Panel
  /\ polls \in [Key -> Nat]
  /\ reread \subseteq Key

\* What the page draws is the phase the polls obey, or a timer that is already
\* due will say so: activity never moves the timer, a page with no panel has
\* none, and still no phase is left wrong for good (idle-store.ts arm, tick).
PillCatchesUp == PhaseDrawn = PhaseNow \/ (timer # Unset /\ timer <= clock)

\* Panels that were held up and are not any longer on the same page have their
\* keys re-read in that step, and their timers armed again, whether or not the
\* phase timer had said that the page was idle (onActivity, onEvent; use-api.ts
\* pollTimer).
ReturnRereads ==
  [][Gated /\ Gated' /\ PhaseNow # "active" /\ PhaseNow' = "active" =>
       idle'.resumes /\ {KeyOf[p] : p \in mounted'} \subseteq reread']_idleVars
=============================================================================
