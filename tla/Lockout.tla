------------------------------ MODULE Lockout ------------------------------
(***************************************************************************)
(* The per-account lockout (lockout.ts), at the grain of its statements.   *)
(* An attempt is counted before its credential is looked at; the upsert,   *)
(* the pruning and the lock's mark are three statements, and the answer    *)
(* may give the attempt back.  One address: the others' attempts reach it  *)
(* only by pruning.                                                        *)
(*                                                                         *)
(* A window is the stretch that one count is about: it begins where the    *)
(* row is made, or starts over.  Windows are numbered, which the code does *)
(* not do.                                                                 *)
(***************************************************************************)
EXTENDS Integers, FiniteSets

CONSTANTS
  Attempt,        \* requests, each with one credential to check
  MaxFailures,    \* LOCKOUT_MAX_FAILURES
  LockWindow,     \* LOCKOUT_WINDOW_MS
  MaxLockTime, MaxWindows    \* bounds

ASSUME LockoutAssumption ==
  /\ IsFiniteSet(Attempt)
  /\ MaxFailures \in Nat \ {0}
  /\ LockWindow \in Nat \ {0}
  /\ MaxLockTime \in Nat /\ MaxWindows \in Nat

VARIABLES
  lockTime,
  row,            \* the address' row of login_attempts
  attempts,       \* attempts[a], how far the request a is
  windows,        \* windows begun so far
  wrong,          \* history: wrong[w], wrong credentials checked in window w
  strays          \* history: strays[w], refunds of older attempts that w got

lockoutVars == <<lockTime, row, attempts, windows, wrong, strays>>

LockTime == 0..MaxLockTime
AnyWindow == 0..MaxWindows

\* until = 0 is no mark: a mark is LockWindow after some start.
NoRow == [on |-> FALSE, count |-> 0, start |-> 0, until |-> 0, window |-> 0]
Unmade == [at |-> "unmade", count |-> 0, start |-> 0, until |-> 0, window |-> 0]

LockoutInit ==
  /\ lockTime = 0
  /\ row = NoRow
  /\ attempts = [a \in Attempt |-> Unmade]
  /\ windows = 0
  /\ wrong = [w \in AnyWindow |-> 0]
  /\ strays = [w \in AnyWindow |-> 0]

Lapsed == row.start < lockTime - LockWindow
NewWindow == ~row.on \/ Lapsed

\* A lapsed row keeps its mark, and its place, when it starts over.
Counted ==
  IF NewWindow
  THEN [on |-> TRUE, count |-> 1, start |-> lockTime,
        until |-> IF row.on THEN row.until ELSE 0, window |-> windows + 1]
  ELSE [row EXCEPT !.count = @ + 1]

\* recordAttempt(), its upsert: each request is handed its own count.
Record(a) ==
  /\ attempts[a].at = "unmade"
  /\ NewWindow => windows < MaxWindows
  /\ row' = Counted
  /\ windows' = Counted.window
  /\ attempts' = [attempts EXCEPT ![a] =
       [at |-> "prune", count |-> Counted.count, start |-> Counted.start,
        until |-> Counted.until, window |-> Counted.window]]
  /\ UNCHANGED <<lockTime, wrong, strays>>

\* pruneLapsed(): the row goes when its window has lapsed and its lock is over,
\* unless a batch of older rows goes first.
Prunable == row.on /\ Lapsed /\ row.until <= lockTime
Pruned == row' = row \/ (Prunable /\ row' = NoRow)

Prune(a) ==
  /\ attempts[a].at = "prune"
  /\ Pruned
  /\ attempts' = [attempts EXCEPT ![a].at = IF attempts[a].count < MaxFailures THEN "check" ELSE "mark"]
  /\ UNCHANGED <<lockTime, windows, wrong, strays>>

\* An attempt on another address.
PruneByOthers ==
  /\ Prunable
  /\ Pruned
  /\ UNCHANGED <<lockTime, attempts, windows, wrong, strays>>

\* Mutant: the attempt past the budget is answered too.
MarkOneMore(a) ==
  LET until == attempts[a].start + LockWindow IN
  /\ attempts[a].at = "mark"
  /\ row' = IF row.on /\ attempts[a].until # until THEN [row EXCEPT !.until = until] ELSE row
  /\ attempts' = [attempts EXCEPT ![a].at = IF attempts[a].count > MaxFailures + 1 THEN "over" ELSE "check"]
  /\ UNCHANGED <<lockTime, windows, wrong, strays>>

\* The mark, from what the upsert returned; the attempt that spends the budget
\* still gets its answer, those past it are refused.
Mark(a) ==
  LET until == attempts[a].start + LockWindow IN
  /\ attempts[a].at = "mark"
  /\ row' = IF row.on /\ attempts[a].until # until THEN [row EXCEPT !.until = until] ELSE row
  /\ attempts' = [attempts EXCEPT ![a].at = IF attempts[a].count > MaxFailures THEN "over" ELSE "check"]
  /\ UNCHANGED <<lockTime, windows, wrong, strays>>

Wrong(a) ==
  /\ attempts[a].at = "check"
  /\ wrong' = [wrong EXCEPT ![attempts[a].window] = @ + 1]
  /\ attempts' = [attempts EXCEPT ![a].at = "over"]
  /\ UNCHANGED <<lockTime, row, windows, strays>>

\* refundAttempt(): a right first factor, or a secret the key does not open.
Refunded ==
  [row EXCEPT !.count = IF row.count > 0 THEN row.count - 1 ELSE 0,
              !.until = IF row.count - 1 < MaxFailures THEN 0 ELSE row.until]

Refund(a) ==
  /\ attempts[a].at = "check"
  /\ row' = IF row.on THEN Refunded ELSE row
  /\ strays' = IF row.on /\ row.window # attempts[a].window
               THEN [strays EXCEPT ![row.window] = @ + 1] ELSE strays
  /\ attempts' = [attempts EXCEPT ![a].at = "over"]
  /\ UNCHANGED <<lockTime, windows, wrong>>

\* clearFailures(): a sign-in finishes, or the account's own password changes.
Clear(a) ==
  /\ attempts[a].at = "check"
  /\ row' = NoRow
  /\ attempts' = [attempts EXCEPT ![a].at = "over"]
  /\ UNCHANGED <<lockTime, windows, wrong, strays>>

\* A password reset clears the address with no attempt of its own.
ClearByReset ==
  /\ row.on
  /\ row' = NoRow
  /\ UNCHANGED <<lockTime, attempts, windows, wrong, strays>>

LockTick ==
  /\ lockTime < MaxLockTime
  /\ lockTime' = lockTime + 1
  /\ UNCHANGED <<row, attempts, windows, wrong, strays>>

LockoutNext ==
  \/ \E a \in Attempt :
       Record(a) \/ Prune(a) \/ Mark(a) \/ Wrong(a) \/ Refund(a) \/ Clear(a)
  \/ PruneByOthers
  \/ ClearByReset
  \/ LockTick

LockoutSpec == LockoutInit /\ [][LockoutNext]_lockoutVars

RowType == [on: BOOLEAN, count: Nat, start: LockTime, until: Nat, window: AnyWindow]
AttemptType == [at: {"unmade", "prune", "mark", "check", "over"}, count: Nat, start: LockTime,
                until: Nat, window: AnyWindow]

LockoutTypeOK ==
  /\ lockTime \in LockTime
  /\ row \in RowType
  /\ attempts \in [Attempt -> AttemptType]
  /\ windows \in AnyWindow
  /\ wrong \in [AnyWindow -> Nat]
  /\ strays \in [AnyWindow -> Nat]

\* However many requests guess at once, at most MaxFailures wrong credentials
\* are checked in a window, and one more for each refund that an attempt of an
\* older window paid into it (lockout.ts:45-48, refundAttempt).
WrongPerWindow == \A w \in AnyWindow : wrong[w] <= MaxFailures + strays[w]

\* No lock outlasts the window of its row, whoever writes the mark late: a
\* lapsed row is never kept from pruning (recordAttempt, pruneLapsed).
LockEndsWithWindow == row.on => row.until <= row.start + LockWindow

BudgetHolds == WrongPerWindow /\ LockEndsWithWindow
=============================================================================
