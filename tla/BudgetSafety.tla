---------------------------- MODULE BudgetSafety -----------------------------
(****************************************************************************)
(* What is counted is counted once: the budget of attempts of an address    *)
(* (Lockout), and the alerts of incident reports (IncidentReports), for any *)
(* number of attempts, forms and posts, any budget and any window.          *)
(****************************************************************************)
EXTENDS Lockout, IncidentReports, FiniteSetTheorems, TLAPS

-----------------------------------------------------------------------------
(* Lockout. *)

(***************************************************************************)
(* Typing.                                                                 *)
(***************************************************************************)

\* Windows are numbered as they begin, and an address has one at a time.
WindowsInOrder ==
  /\ row.on => row.window = windows
  /\ \A a \in Attempt : attempts[a].window <= windows
  /\ \A w \in AnyWindow : w > windows => wrong[w] = 0

Typed == LockoutTypeOK /\ WindowsInOrder

LEMMA CountedType ==
  ASSUME Typed, NewWindow => windows < MaxWindows
  PROVE  /\ Counted \in RowType
         /\ Counted.on
         /\ NewWindow => Counted.window = windows + 1
         /\ ~NewWindow => Counted.window = windows
<1>1. row \in RowType /\ lockTime \in LockTime /\ windows \in AnyWindow
  BY DEF Typed, LockoutTypeOK
<1>2. CASE NewWindow
  <2>1. windows + 1 \in AnyWindow
    BY <1>1, <1>2, LockoutAssumption DEF AnyWindow
  <2>2. (IF row.on THEN row.until ELSE 0) \in Nat
    BY <1>1 DEF RowType
  <2> QED BY <1>1, <1>2, <2>1, <2>2 DEF Counted, RowType
<1>3. CASE ~NewWindow
  <2>1. Counted = [row EXCEPT !.count = row.count + 1]
    BY <1>3 DEF Counted
  <2>2. row.on /\ row.window = windows
    BY <1>3 DEF NewWindow, Typed, WindowsInOrder
  <2> QED BY <1>1, <1>3, <2>1, <2>2 DEF RowType
<1> QED BY <1>2, <1>3

LEMMA TypedInit == LockoutInit => Typed
BY LockoutAssumption
   DEF LockoutInit, Typed, LockoutTypeOK, WindowsInOrder, RowType, AttemptType, NoRow, Unmade,
       LockTime, AnyWindow

LEMMA NoRowType == NoRow \in RowType /\ ~NoRow.on
BY LockoutAssumption DEF NoRow, RowType, LockTime, AnyWindow

LEMMA TypedNext == Typed /\ [LockoutNext]_lockoutVars => Typed'
<1> SUFFICES ASSUME Typed, [LockoutNext]_lockoutVars PROVE Typed'
  OBVIOUS
<1> USE LockoutAssumption DEF Typed, LockoutTypeOK, WindowsInOrder
<1>1. ASSUME NEW a \in Attempt, Record(a) PROVE Typed'
  <2>1. /\ Counted \in RowType
        /\ Counted.on
        /\ Counted.window \in {windows, windows + 1}
    BY <1>1, CountedType DEF Record
  <2>2. [at |-> "prune", count |-> Counted.count, start |-> Counted.start,
         until |-> Counted.until, window |-> Counted.window] \in AttemptType
    BY <2>1 DEF RowType, AttemptType
  <2>3. /\ attempts' \in [Attempt -> AttemptType]
        /\ \A b \in Attempt : attempts'[b].window \in {attempts[b].window, windows'}
    BY <1>1, <2>2 DEF Record
  <2>4. windows' \in AnyWindow /\ windows <= windows'
    BY <1>1, <2>1 DEF Record, RowType, AnyWindow
  <2>5. ASSUME NEW b \in Attempt PROVE attempts'[b].window <= windows'
    <3>1. attempts[b].window \in Int /\ attempts[b].window <= windows
      BY DEF AttemptType, AnyWindow
    <3> QED BY <2>3, <2>4, <3>1 DEF AnyWindow
  <2>6. WindowsInOrder'
    BY <1>1, <2>1, <2>4, <2>5 DEF Record, AnyWindow
  <2> QED BY <1>1, <2>1, <2>3, <2>4, <2>6 DEF Record
<1>2. ASSUME NEW a \in Attempt, Prune(a) PROVE Typed'
  BY <1>2, NoRowType DEF Prune, Pruned, AttemptType
<1>3. CASE PruneByOthers
  BY <1>3, NoRowType DEF PruneByOthers, Pruned
<1>4. ASSUME NEW a \in Attempt, Mark(a) PROVE Typed'
  <2>1. attempts[a].start + LockWindow \in Nat
    BY DEF AttemptType, LockTime
  <2>2. row' \in RowType /\ row'.on = row.on /\ row'.window = row.window
    BY <1>4, <2>1 DEF Mark, RowType
  <2> QED BY <1>4, <2>2 DEF Mark, AttemptType
<1>5. ASSUME NEW a \in Attempt, Wrong(a) PROVE Typed'
  <2>1. attempts[a].window \in AnyWindow /\ attempts[a].window <= windows
    BY DEF AttemptType
  <2>2. /\ wrong' \in [AnyWindow -> Nat]
        /\ \A w \in AnyWindow : w > windows => wrong'[w] = 0
    BY <1>5, <2>1 DEF Wrong, AnyWindow
  <2>3. /\ attempts' \in [Attempt -> AttemptType]
        /\ \A b \in Attempt : attempts'[b].window <= windows
    BY <1>5 DEF Wrong, AttemptType
  <2> QED BY <1>5, <2>2, <2>3 DEF Wrong
<1>6. ASSUME NEW a \in Attempt, Refund(a) PROVE Typed'
  <2>a. /\ Refunded \in RowType
        /\ Refunded.on = row.on
        /\ Refunded.window = row.window
    <3>1. (IF row.count > 0 THEN row.count - 1 ELSE 0) \in Nat
      BY DEF RowType
    <3>2. (IF row.count - 1 < MaxFailures THEN 0 ELSE row.until) \in Nat
      BY DEF RowType
    <3> QED BY <3>1, <3>2 DEF Refunded, RowType
  <2>1. row' \in RowType /\ row'.on = row.on /\ row'.window = row.window
    BY <1>6, <2>a DEF Refund
  <2>2. strays' \in [AnyWindow -> Nat]
    BY <1>6 DEF Refund, RowType
  <2> QED BY <1>6, <2>1, <2>2 DEF Refund, AttemptType
<1>7. ASSUME NEW a \in Attempt, Clear(a) PROVE Typed'
  BY <1>7, NoRowType DEF Clear, AttemptType
<1>8. CASE ClearByReset
  BY <1>8, NoRowType DEF ClearByReset
<1>9. CASE LockTick
  BY <1>9 DEF LockTick, LockTime
<1>10. CASE UNCHANGED lockoutVars
  BY <1>10 DEF lockoutVars
<1> QED
  BY <1>1, <1>2, <1>3, <1>4, <1>5, <1>6, <1>7, <1>8, <1>9, <1>10 DEF LockoutNext

\* Typing, for every value of the constants: whatever the order of upserts,
\* prunings, marks, refunds and clears, the row keeps its shape (lockout.ts).
THEOREM LockoutTypeCorrect == LockoutSpec => []LockoutTypeOK
<1>1. LockoutSpec => []Typed
  BY TypedInit, TypedNext, PTL DEF LockoutSpec
<1> QED BY <1>1, PTL DEF Typed

(***************************************************************************)
(* The budget.  What a window has spent is the wrong credentials checked   *)
(* in it and the attempts that will still be answered; the count of the    *)
(* row covers it, but for the refunds of older attempts.                   *)
(***************************************************************************)

Spending(w) ==
  {a \in Attempt :
     /\ attempts[a].at \in {"prune", "mark", "check"}
     /\ attempts[a].count <= MaxFailures
     /\ attempts[a].window = w}

Spent(w) == wrong[w] + Cardinality(Spending(w))

\* An attempt that is answered was within the budget.
AnsweredInBudget ==
  \A a \in Attempt : attempts[a].at = "check" => attempts[a].count <= MaxFailures

WindowsWithin == \A w \in AnyWindow : Spent(w) <= MaxFailures + strays[w]

CountCovers ==
  \A w \in AnyWindow : row.on /\ row.window = w => Spent(w) <= row.count + strays[w]

BudgetInv == Typed /\ AnsweredInBudget /\ WindowsWithin /\ CountCovers

LEMMA SpendingSize ==
  ASSUME NEW w
  PROVE  IsFiniteSet(Spending(w)) /\ Cardinality(Spending(w)) \in Nat
<1>1. Spending(w) \in SUBSET Attempt
  BY DEF Spending
<1> QED BY <1>1, LockoutAssumption, FS_Subset, FS_CardinalityType DEF LockoutAssumption

LEMMA SpentType ==
  ASSUME Typed, NEW w \in AnyWindow
  PROVE  wrong[w] \in Nat /\ strays[w] \in Nat /\ Spent(w) \in Nat
BY SpendingSize DEF Typed, LockoutTypeOK, Spent

\* An attempt that goes on spends no more and no less.
LEMMA GoingOn ==
  ASSUME Typed, NEW a \in Attempt, NEW t, NEW w,
         attempts' = [attempts EXCEPT ![a].at = t],
         attempts[a].at \in {"prune", "mark"},
         \/ t \in {"mark", "check"}
         \/ t = "over" /\ attempts[a].count > MaxFailures
  PROVE  Spending(w)' = Spending(w)
<1>1. ASSUME NEW b \in Attempt PROVE b \in Spending(w)' <=> b \in Spending(w)
  <2>1. attempts[b] \in AttemptType /\ attempts[a] \in AttemptType
    BY DEF Typed, LockoutTypeOK
  <2>2. CASE b = a
    <3>1. attempts'[b] = [attempts[b] EXCEPT !.at = t]
      BY <2>2 DEF Typed, LockoutTypeOK
    <3>2. /\ attempts'[b].at = t
          /\ attempts'[b].count = attempts[b].count
          /\ attempts'[b].window = attempts[b].window
      BY <3>1, <2>1 DEF AttemptType
    <3>3. attempts[b].count \in Nat /\ MaxFailures \in Nat
      BY <2>1, LockoutAssumption DEF AttemptType
    <3> QED BY <2>2, <3>2, <3>3 DEF Spending
  <2>3. CASE b # a
    BY <2>3 DEF Spending, Typed, LockoutTypeOK
  <2> QED BY <2>2, <2>3
<1> QED BY <1>1 DEF Spending

\* An attempt that has its answer leaves its window's.
LEMMA Answering ==
  ASSUME Typed, AnsweredInBudget, NEW a \in Attempt, NEW w,
         attempts' = [attempts EXCEPT ![a].at = "over"],
         attempts[a].at = "check"
  PROVE  Cardinality(Spending(w))' =
           IF w = attempts[a].window THEN Cardinality(Spending(w)) - 1 ELSE Cardinality(Spending(w))
<1>1. Spending(w)' = Spending(w) \ {a}
  <2>1. ASSUME NEW b \in Attempt
        PROVE  b \in Spending(w)' <=> b \in Spending(w) /\ b # a
    BY DEF Spending, Typed, LockoutTypeOK, AttemptType
  <2> QED BY <2>1 DEF Spending
<1>2. a \in Spending(w) <=> w = attempts[a].window
  BY DEF Spending, AnsweredInBudget
<1> QED BY <1>1, <1>2, SpendingSize, FS_RemoveElement

\* An attempt that is counted joins the row's window, if within the budget.
LEMMA Joining ==
  ASSUME Typed, NEW a \in Attempt, NEW w, Record(a)
  PROVE  Cardinality(Spending(w))' =
           IF w = Counted.window /\ Counted.count <= MaxFailures
           THEN Cardinality(Spending(w)) + 1 ELSE Cardinality(Spending(w))
<1>1. a \notin Spending(w)
  BY DEF Spending, Record
<1>2. /\ attempts'[a].at = "prune"
      /\ attempts'[a].count = Counted.count
      /\ attempts'[a].window = Counted.window
      /\ \A b \in Attempt : b # a => attempts'[b] = attempts[b]
  BY DEF Record, Typed, LockoutTypeOK
<1>3. CASE w = Counted.window /\ Counted.count <= MaxFailures
  <2>1. Spending(w)' = Spending(w) \cup {a}
    BY <1>2, <1>3 DEF Spending
  <2> QED BY <1>1, <1>3, <2>1, SpendingSize, FS_AddElement
<1>4. CASE ~(w = Counted.window /\ Counted.count <= MaxFailures)
  <2>1. Spending(w)' = Spending(w)
    BY <1>1, <1>2, <1>4 DEF Spending
  <2> QED BY <1>4, <2>1
<1> QED BY <1>3, <1>4

\* A window that has not begun has nothing spent.
LEMMA NothingYet ==
  ASSUME Typed, NEW w \in AnyWindow, w > windows
  PROVE  Spent(w) = 0
<1>1. Spending(w) = {}
  BY DEF Spending, Typed, LockoutTypeOK, WindowsInOrder, AttemptType, AnyWindow
<1> QED BY <1>1, FS_EmptySet DEF Spent, Typed, WindowsInOrder

LEMMA BudgetInit == LockoutInit => BudgetInv
<1> SUFFICES ASSUME LockoutInit PROVE BudgetInv
  OBVIOUS
<1>1. ASSUME NEW w \in AnyWindow PROVE Spent(w) = 0
  <2>1. Spending(w) = {}
    BY DEF Spending, LockoutInit, Unmade
  <2> QED BY <2>1, FS_EmptySet DEF Spent, LockoutInit
<1>2. WindowsWithin
  BY <1>1, LockoutAssumption DEF WindowsWithin, LockoutInit
<1> QED BY <1>2, TypedInit DEF BudgetInv, AnsweredInBudget, CountCovers, LockoutInit, NoRow, Unmade

LEMMA BudgetRecord ==
  ASSUME BudgetInv, NEW a \in Attempt, Record(a)
  PROVE  WindowsWithin' /\ CountCovers'
<1> USE DEF BudgetInv
<1>1. Counted \in RowType /\ Counted.count \in Nat /\ Counted.window \in AnyWindow
  BY CountedType DEF Record, RowType
<1>2. row' = Counted /\ wrong' = wrong /\ strays' = strays
  BY DEF Record
<1>3. Spent(Counted.window) + 1 <= Counted.count + strays[Counted.window]
  <2>1. CASE NewWindow
    <3>1. Counted.window = windows + 1 /\ Counted.count = 1
      BY <2>1, CountedType DEF Counted, Record
    <3>2. Counted.window > windows
      BY <3>1 DEF Typed, LockoutTypeOK, AnyWindow
    <3> QED BY <1>1, <3>1, <3>2, NothingYet, SpentType
  <2>2. CASE ~NewWindow
    <3>1. Counted = [row EXCEPT !.count = row.count + 1]
      BY <2>2 DEF Counted
    <3>2. row \in RowType /\ row.on
      BY <2>2 DEF NewWindow, Typed, LockoutTypeOK
    <3>3. Counted.window = row.window /\ Counted.count = row.count + 1 /\ row.count \in Nat
      BY <3>1, <3>2 DEF RowType
    <3> QED BY <1>1, <3>2, <3>3, SpentType DEF CountCovers
  <2> QED BY <2>1, <2>2
<1>4. ASSUME NEW w \in AnyWindow
      PROVE  Spent(w)' = IF w = Counted.window /\ Counted.count <= MaxFailures
                         THEN Spent(w) + 1 ELSE Spent(w)
  BY <1>2, Joining, SpendingSize, SpentType DEF Spent
<1>5. WindowsWithin'
  <2> SUFFICES ASSUME NEW w \in AnyWindow PROVE Spent(w)' <= MaxFailures + strays[w]
    BY <1>2 DEF WindowsWithin
  <2> QED BY <1>1, <1>3, <1>4, SpentType, LockoutAssumption DEF WindowsWithin
<1>6. CountCovers'
  <2> SUFFICES ASSUME NEW w \in AnyWindow, Counted.window = w
               PROVE  Spent(w)' <= Counted.count + strays[w]
    BY <1>2 DEF CountCovers
  <2> QED BY <1>1, <1>3, <1>4, SpentType
<1> QED BY <1>5, <1>6

\* A wrong credential moves from the attempts under way to the wrong ones.
LEMMA BudgetWrong ==
  ASSUME BudgetInv, NEW a \in Attempt, Wrong(a)
  PROVE  WindowsWithin' /\ CountCovers'
<1> USE DEF BudgetInv
<1>1. ASSUME NEW w \in AnyWindow PROVE Spent(w)' = Spent(w)
  <2>1. wrong'[w] = IF w = attempts[a].window THEN wrong[w] + 1 ELSE wrong[w]
    BY DEF Wrong, Typed, LockoutTypeOK
  <2>2. Cardinality(Spending(w))' =
          IF w = attempts[a].window THEN Cardinality(Spending(w)) - 1 ELSE Cardinality(Spending(w))
    BY Answering DEF Wrong
  <2>3. Spent(w)' = wrong'[w] + Cardinality(Spending(w))'
    BY DEF Spent
  <2>4. Spent(w) = wrong[w] + Cardinality(Spending(w))
    BY DEF Spent
  <2> QED BY <2>1, <2>2, <2>3, <2>4, SpendingSize, SpentType
<1>2. row' = row /\ strays' = strays
  BY DEF Wrong
<1> QED BY <1>1, <1>2 DEF WindowsWithin, CountCovers

\* A refund takes one off the count, and one off what its window has spent or
\* else a stray for the window that the row is about.
LEMMA BudgetRefund ==
  ASSUME BudgetInv, NEW a \in Attempt, Refund(a)
  PROVE  WindowsWithin' /\ CountCovers'
<1> USE DEF BudgetInv
<1> DEFINE own == attempts[a].window
<1>1. ASSUME NEW w \in AnyWindow
      PROVE  Spent(w)' = IF w = own THEN Spent(w) - 1 ELSE Spent(w)
  <2>1. Cardinality(Spending(w))' =
          IF w = own THEN Cardinality(Spending(w)) - 1 ELSE Cardinality(Spending(w))
    BY Answering DEF Refund
  <2>2. Spent(w)' = wrong[w] + Cardinality(Spending(w))'
    BY DEF Spent, Refund
  <2>3. Spent(w) = wrong[w] + Cardinality(Spending(w))
    BY DEF Spent
  <2> QED BY <2>1, <2>2, <2>3, SpendingSize, SpentType
<1>2. row \in RowType /\ row.window \in AnyWindow /\ row.count \in Nat
  BY DEF Typed, LockoutTypeOK, RowType
<1>3. ASSUME NEW w \in AnyWindow
      PROVE  strays'[w] = IF row.on /\ w = row.window /\ w # own THEN strays[w] + 1 ELSE strays[w]
  BY <1>2 DEF Refund, Typed, LockoutTypeOK
<1>4. WindowsWithin'
  <2> SUFFICES ASSUME NEW w \in AnyWindow PROVE Spent(w)' <= MaxFailures + strays'[w]
    BY DEF WindowsWithin
  <2> QED BY <1>1, <1>3, SpentType, LockoutAssumption DEF WindowsWithin
<1>5. CountCovers'
  <2>1. CASE row.on
    <3>1. /\ row'.window = row.window
          /\ row'.count = IF row.count > 0 THEN row.count - 1 ELSE 0
      BY <1>2, <2>1 DEF Refund, Refunded, RowType
    <3>2. Spent(row.window) <= row.count + strays[row.window]
      BY <1>2, <2>1 DEF CountCovers
    <3>3. row.window = own => Spent(row.window) >= 1 
      <4>1. a \in Spending(own)
        BY DEF Spending, AnsweredInBudget, Refund
      <4>2. Cardinality(Spending(own)) >= 1
        BY <4>1, SpendingSize, FS_EmptySet
      <4> QED BY <1>2, <4>2, SpendingSize, SpentType DEF Spent
    <3> SUFFICES ASSUME NEW w \in AnyWindow, row.window = w
                 PROVE  Spent(w)' <= row'.count + strays'[w]
      BY <3>1 DEF CountCovers
    <3> QED BY <1>1, <1>2, <1>3, <2>1, <3>1, <3>2, <3>3, SpentType
  <2>2. CASE ~row.on
    BY <2>2 DEF Refund, CountCovers
  <2> QED BY <2>1, <2>2
<1> QED BY <1>4, <1>5

\* Clearing takes the row, and the attempt that clears has been answered.
LEMMA BudgetClear ==
  ASSUME BudgetInv, NEW a \in Attempt, Clear(a)
  PROVE  WindowsWithin' /\ CountCovers'
<1> USE DEF BudgetInv
<1>1. ASSUME NEW w \in AnyWindow PROVE Spent(w)' \in {Spent(w), Spent(w) - 1}
  <2>1. Cardinality(Spending(w))' \in {Cardinality(Spending(w)), Cardinality(Spending(w)) - 1}
    BY Answering DEF Clear
  <2>2. Spent(w)' = wrong[w] + Cardinality(Spending(w))'
    BY DEF Spent, Clear
  <2>3. Spent(w) = wrong[w] + Cardinality(Spending(w))
    BY DEF Spent
  <2> QED BY <2>1, <2>2, <2>3, SpendingSize, SpentType
<1>2. WindowsWithin'
  <2> SUFFICES ASSUME NEW w \in AnyWindow PROVE Spent(w)' <= MaxFailures + strays[w]
    BY DEF WindowsWithin, Clear
  <2> QED BY <1>1, SpentType, LockoutAssumption DEF WindowsWithin
<1>3. CountCovers'
  BY NoRowType DEF CountCovers, Clear
<1> QED BY <1>2, <1>3

\* Steps that answer nobody: the row may go, or its mark may change.
LEMMA BudgetKept ==
  ASSUME BudgetInv,
         wrong' = wrong, strays' = strays,
         \A w \in AnyWindow : Spending(w)' = Spending(w),
         \/ row' = NoRow
         \/ row'.on = row.on /\ row'.count = row.count /\ row'.window = row.window
  PROVE  WindowsWithin' /\ CountCovers'
<1>1. ASSUME NEW w \in AnyWindow PROVE Spent(w)' = Spent(w)
  BY DEF Spent
<1>2. WindowsWithin'
  BY <1>1 DEF WindowsWithin, BudgetInv
<1>3. CountCovers'
  BY <1>1, NoRowType DEF CountCovers, BudgetInv
<1> QED BY <1>2, <1>3

LEMMA BudgetNext == BudgetInv /\ [LockoutNext]_lockoutVars => BudgetInv'
<1> SUFFICES ASSUME BudgetInv, [LockoutNext]_lockoutVars PROVE BudgetInv'
  OBVIOUS
<1> USE DEF BudgetInv
<1>0. Typed'
  BY TypedNext
<1>1. ASSUME NEW a \in Attempt, Record(a) PROVE AnsweredInBudget' /\ WindowsWithin' /\ CountCovers'
  BY <1>1, BudgetRecord DEF AnsweredInBudget, Record, Typed, LockoutTypeOK
<1>2. ASSUME NEW a \in Attempt, Prune(a) PROVE AnsweredInBudget' /\ WindowsWithin' /\ CountCovers'
  <2>1. \A w \in AnyWindow : Spending(w)' = Spending(w)
    BY <1>2, GoingOn DEF Prune
  <2>2. AnsweredInBudget'
    BY <1>2, LockoutAssumption DEF Prune, AnsweredInBudget, Typed, LockoutTypeOK, AttemptType
  <2> QED BY <1>2, <2>1, <2>2, BudgetKept DEF Prune, Pruned
<1>3. CASE PruneByOthers
  BY <1>0, <1>3, BudgetKept DEF PruneByOthers, Pruned, AnsweredInBudget, Spending
<1>4. ASSUME NEW a \in Attempt, Mark(a) PROVE AnsweredInBudget' /\ WindowsWithin' /\ CountCovers'
  <2>1. \A w \in AnyWindow : Spending(w)' = Spending(w)
    BY <1>4, GoingOn DEF Mark
  <2>2. AnsweredInBudget'
    BY <1>4, LockoutAssumption DEF Mark, AnsweredInBudget, Typed, LockoutTypeOK, AttemptType
  <2>3. row'.on = row.on /\ row'.count = row.count /\ row'.window = row.window
    BY <1>4 DEF Mark, Typed, LockoutTypeOK, RowType
  <2> QED BY <1>4, <2>1, <2>2, <2>3, BudgetKept DEF Mark
<1>5. ASSUME NEW a \in Attempt, Wrong(a) PROVE AnsweredInBudget' /\ WindowsWithin' /\ CountCovers'
  BY <1>5, BudgetWrong DEF Wrong, AnsweredInBudget, Typed, LockoutTypeOK, AttemptType
<1>6. ASSUME NEW a \in Attempt, Refund(a) PROVE AnsweredInBudget' /\ WindowsWithin' /\ CountCovers'
  BY <1>6, BudgetRefund DEF Refund, AnsweredInBudget, Typed, LockoutTypeOK, AttemptType
<1>7. ASSUME NEW a \in Attempt, Clear(a) PROVE AnsweredInBudget' /\ WindowsWithin' /\ CountCovers'
  BY <1>7, BudgetClear DEF Clear, AnsweredInBudget, Typed, LockoutTypeOK, AttemptType
<1>8. CASE ClearByReset
  BY <1>0, <1>8, BudgetKept DEF ClearByReset, AnsweredInBudget, Spending
<1>9. CASE LockTick
  BY <1>0, <1>9, BudgetKept DEF LockTick, AnsweredInBudget, Spending
<1>10. CASE UNCHANGED lockoutVars
  BY <1>0, <1>10, BudgetKept DEF lockoutVars, AnsweredInBudget, Spending
<1> QED
  BY <1>0, <1>1, <1>2, <1>3, <1>4, <1>5, <1>6, <1>7, <1>8, <1>9, <1>10 DEF LockoutNext

(***************************************************************************)
(* The end of the lock.  Every start that an attempt remembers is the      *)
(* row's or an older one, so the mark it writes late is not too late.      *)
(***************************************************************************)

StartsInOrder ==
  /\ row.start <= lockTime
  /\ \A a \in Attempt : attempts[a].start <= lockTime
  /\ row.on => \A a \in Attempt : attempts[a].start <= row.start

LockInv == Typed /\ StartsInOrder /\ LockEndsWithWindow

LEMMA LockInit == LockoutInit => LockInv
BY TypedInit, LockoutAssumption
   DEF LockInv, LockoutInit, StartsInOrder, LockEndsWithWindow, NoRow, Unmade

LEMMA LockNext == LockInv /\ [LockoutNext]_lockoutVars => LockInv'
<1> SUFFICES ASSUME LockInv, [LockoutNext]_lockoutVars PROVE LockInv'
  OBVIOUS
<1> USE DEF LockInv
<1>0. Typed'
  BY TypedNext
<1>a. /\ row \in RowType /\ row.start \in Int /\ row.until \in Nat
      /\ lockTime \in Nat /\ LockWindow \in Nat
      /\ \A b \in Attempt : attempts[b] \in AttemptType /\ attempts[b].start \in Int
      /\ attempts \in [Attempt -> AttemptType]
  BY LockoutAssumption DEF Typed, LockoutTypeOK, RowType, AttemptType, LockTime
<1>1. ASSUME NEW a \in Attempt, Record(a) PROVE StartsInOrder' /\ LockEndsWithWindow'
  <2>1. /\ row' = Counted /\ lockTime' = lockTime
        /\ \A b \in Attempt :
             attempts'[b].start = IF b = a THEN Counted.start ELSE attempts[b].start
    BY <1>1, <1>a DEF Record
  <2>2. CASE NewWindow
    <3>1. Counted.start = lockTime /\ Counted.until = IF row.on THEN row.until ELSE 0
      BY <2>2 DEF Counted
    <3> QED BY <1>a, <2>1, <3>1 DEF StartsInOrder, LockEndsWithWindow
  <2>3. CASE ~NewWindow
    <3>1. Counted.start = row.start /\ Counted.until = row.until /\ row.on
      BY <1>a, <2>3 DEF Counted, NewWindow, RowType
    <3> QED BY <1>a, <2>1, <3>1 DEF StartsInOrder, LockEndsWithWindow
  <2> QED BY <2>2, <2>3
<1>2. ASSUME /\ \A b \in Attempt : attempts'[b].start = attempts[b].start
             /\ lockTime' = lockTime
             /\ \/ row' = NoRow
                \/ row'.on = row.on /\ row'.start = row.start /\ row'.until \in {row.until, 0}
      PROVE  StartsInOrder' /\ LockEndsWithWindow'
  <2>1. NoRow.start = 0 /\ ~NoRow.on
    BY DEF NoRow
  <2>2. row.on => row.start >= 0
    BY DEF Typed, LockoutTypeOK, RowType, LockTime
  <2> QED BY <1>2, <1>a, <2>1, <2>2 DEF StartsInOrder, LockEndsWithWindow
<1>3. ASSUME NEW a \in Attempt, Prune(a) PROVE StartsInOrder' /\ LockEndsWithWindow'
  BY <1>2, <1>3, <1>a DEF Prune, Pruned, AttemptType
<1>4. ASSUME NEW a \in Attempt, Mark(a) PROVE StartsInOrder' /\ LockEndsWithWindow'
  <2>1. /\ lockTime' = lockTime
        /\ \A b \in Attempt : attempts'[b].start = attempts[b].start
    BY <1>4, <1>a DEF Mark, AttemptType
  <2>2. /\ row'.on = row.on /\ row'.start = row.start
        /\ row'.until = row.until \/ (row.on /\ row'.until = attempts[a].start + LockWindow)
    BY <1>4, <1>a DEF Mark, RowType
  <2> QED BY <1>a, <2>1, <2>2 DEF StartsInOrder, LockEndsWithWindow
<1>5. ASSUME NEW a \in Attempt, Refund(a) PROVE StartsInOrder' /\ LockEndsWithWindow'
  <2>1. row'.on = row.on /\ row'.start = row.start /\ row'.until \in {row.until, 0}
    BY <1>5, <1>a DEF Refund, Refunded, RowType
  <2> QED BY <1>2, <1>5, <1>a, <2>1 DEF Refund, AttemptType
<1>6. ASSUME NEW a \in Attempt, Wrong(a) \/ Clear(a) PROVE StartsInOrder' /\ LockEndsWithWindow'
  BY <1>2, <1>6, <1>a DEF Wrong, Clear, AttemptType
<1>7. CASE PruneByOthers \/ ClearByReset \/ UNCHANGED lockoutVars
  BY <1>0, <1>2, <1>7 DEF PruneByOthers, Pruned, ClearByReset, lockoutVars
<1>8. CASE LockTick
  BY <1>0, <1>8, <1>a DEF LockTick, StartsInOrder, LockEndsWithWindow
<1> QED
  BY <1>0, <1>1, <1>3, <1>4, <1>5, <1>6, <1>7, <1>8 DEF LockoutNext

\* However many requests guess at once, whatever is refunded, cleared, pruned
\* or marked between their statements, no window has more wrong credentials
\* checked than the budget and its strays, and no lock outlasts its window
\* (lockout.ts:45-48, recordAttempt, refundAttempt, pruneLapsed).
THEOREM BudgetHolding == LockoutSpec => []BudgetHolds
<1>1. LockoutSpec => []BudgetInv
  BY BudgetInit, BudgetNext, PTL DEF LockoutSpec
<1>2. LockoutSpec => []LockInv
  BY LockInit, LockNext, PTL DEF LockoutSpec
<1>3. BudgetInv => WrongPerWindow
  <2> SUFFICES ASSUME BudgetInv, NEW w \in AnyWindow
               PROVE  wrong[w] <= MaxFailures + strays[w]
    BY DEF WrongPerWindow
  <2> QED BY SpendingSize, SpentType, LockoutAssumption DEF BudgetInv, WindowsWithin, Spent
<1>4. BudgetInv /\ LockInv => BudgetHolds
  BY <1>3 DEF LockInv, BudgetHolds
<1> QED BY <1>1, <1>2, <1>4, PTL

-----------------------------------------------------------------------------
(* Reports of incidents. *)

\* A form has drafted one report more than it has been told of, until it is told
\* of this one too; it awaits a post of its own draft.
FormFits(f) ==
  /\ forms[f].draft = forms[f].reported + (IF forms[f].sent THEN 0 ELSE 1)
  /\ forms[f].awaits # 0 =>
       /\ ~forms[f].sent
       /\ forms[f].awaits \in DOMAIN posts
       /\ posts[forms[f].awaits].form = f
       /\ posts[forms[f].awaits].draft = forms[f].draft

\* The key of an alert that was sent is of its post's draft, or of its hour.
PostFits(i) ==
  /\ posts[i].draft = posts[i].incident + 1
  /\ posts[i].is = "asked" => posts[i].alert = "none"
  /\ posts[i].is = "sending" => posts[i].alert # "none"
  /\ posts[i].at <= reportTime
  /\ posts[i].alert # "none" =>
       posts[i].uid = IF posts[i].severity = "critical"
                      THEN [of |-> "hour", n |-> posts[i].at \div Hour]
                      ELSE [of |-> posts[i].form, n |-> posts[i].draft]

\* The alerts sent in the window up to t, and the budget's part in them.
Stretch(t) ==
  {i \in DOMAIN posts : posts[i].alert # "none" /\ t - PodWindow < posts[i].at /\ posts[i].at <= t}
Budgeted == Stretch(reportTime) \subseteq budget

ReportInv ==
  /\ ReportTypeOK
  /\ \A f \in Form : FormFits(f)
  /\ \A i \in DOMAIN posts : PostFits(i)
  /\ SentIsTrue
  /\ Budgeted
  /\ BudgetSlides

LEMMA PostsFinite ==
  ASSUME ReportInv, NEW S \in SUBSET DOMAIN posts
  PROVE  IsFiniteSet(S) /\ Cardinality(S) \in Nat
<1>1. DOMAIN posts = 1..Len(posts) /\ Len(posts) \in Nat
  BY DEF ReportInv, ReportTypeOK
<1>2. IsFiniteSet(1..Len(posts))
  BY <1>1, FS_Interval
<1>3. IsFiniteSet(S)
  BY <1>1, <1>2, FS_Subset
<1> QED
  BY <1>3, FS_CardinalityType

\* One post changes.
LEMMA OnePost ==
  ASSUME posts \in Seq(Post), NEW i \in DOMAIN posts, NEW p \in Post,
         posts' = [posts EXCEPT ![i] = p]
  PROVE  /\ posts' \in Seq(Post) /\ Len(posts') = Len(posts)
         /\ DOMAIN posts' = DOMAIN posts
         /\ posts'[i] = p
         /\ \A j \in DOMAIN posts : j # i => posts'[j] = posts[j]
<1>1. DOMAIN posts' = DOMAIN posts
  OBVIOUS
<1>2. posts' \in Seq(Post)
  OBVIOUS
<1>3. Len(posts') = Len(posts)
  OBVIOUS
<1> QED
  BY <1>1, <1>2, <1>3

LEMMA ReportStart == ReportInit => ReportInv
<1> SUFFICES ASSUME ReportInit PROVE ReportInv
  OBVIOUS
<1>1. posts = <<>> /\ DOMAIN posts = {} /\ budget = {} /\ reportTime = 0
  BY DEF ReportInit
<1>2. ReportTypeOK
  BY <1>1, ReportAssumption DEF ReportInit, ReportTypeOK, FreshForm
<1>3. \A f \in Form : FormFits(f) /\ ~forms[f].sent
  BY DEF ReportInit, FormFits, FreshForm
<1>4. Budgeted /\ BudgetSlides
  <2>1. \A t : Stretch(t) = {}
    BY <1>1 DEF Stretch
  <2>2. \A t : Cardinality(Stretch(t)) <= PodMax
    BY <2>1, FS_EmptySet, ReportAssumption
  <2> QED
    BY <2>1, <2>2 DEF Budgeted, BudgetSlides, Stretch
<1> QED
  BY <1>1, <1>2, <1>3, <1>4 DEF ReportInv, SentIsTrue

\* What a step of one post leaves of the others, and of itself: its form, its
\* draft and its incident, and an alert that has landed.
Onwards(i) ==
  /\ posts' \in Seq(Post) /\ Len(posts') = Len(posts)
  /\ \A j \in DOMAIN posts : j # i => posts'[j] = posts[j]
  /\ posts'[i].form = posts[i].form /\ posts'[i].draft = posts[i].draft
  /\ posts'[i].incident = posts[i].incident /\ posts'[i].severity = posts[i].severity
  /\ posts[i].alert = "landed" => posts'[i].alert = "landed"

\* The form of post i is told; the rest of it is as before.
LEMMA ToldKeeps ==
  ASSUME ReportInv, NEW i \in DOMAIN posts, NEW sent \in BOOLEAN, Told(i, sent), Onwards(i),
         sent => posts'[i].alert = "landed"
  PROVE  /\ forms' \in [Form -> [draft: Nat, awaits: 0..MaxPosts, sent: BOOLEAN, reported: Nat]]
         /\ \A f \in Form : FormFits(f)'
         /\ SentIsTrue'
<1>1. /\ forms' = [f \in Form |->
            IF forms[f].awaits # i THEN forms[f]
            ELSE [forms[f] EXCEPT !.awaits = 0, !.sent = sent,
                                  !.reported = IF sent THEN @ + 1 ELSE @]]
  BY DEF Told
<1>a. 0 \in 0..MaxPosts
  BY ReportAssumption
<1>2. forms \in [Form -> [draft: Nat, awaits: 0..MaxPosts, sent: BOOLEAN, reported: Nat]]
  BY DEF ReportInv, ReportTypeOK
<1>3. forms' \in [Form -> [draft: Nat, awaits: 0..MaxPosts, sent: BOOLEAN, reported: Nat]]
  <2> SUFFICES ASSUME NEW f \in Form
               PROVE  (IF forms[f].awaits # i THEN forms[f]
                       ELSE [forms[f] EXCEPT !.awaits = 0, !.sent = sent,
                                  !.reported = IF sent THEN @ + 1 ELSE @])
                      \in [draft: Nat, awaits: 0..MaxPosts, sent: BOOLEAN, reported: Nat]
    BY <1>1
  <2>1. forms[f] \in [draft: Nat, awaits: 0..MaxPosts, sent: BOOLEAN, reported: Nat]
    BY <1>2
  <2>2. (IF sent THEN forms[f].reported + 1 ELSE forms[f].reported) \in Nat
    BY <2>1
  <2> QED
    BY <2>1, <2>2, <1>a
<1>4. DOMAIN posts' = DOMAIN posts /\ i \in 1..Len(posts) /\ i # 0
  BY DEF Onwards, ReportInv, ReportTypeOK
<1>5. ASSUME NEW f \in Form
      PROVE  /\ FormFits(f)'
             /\ forms'[f].sent => \E j \in DOMAIN posts' :
                  posts'[j].alert = "landed" /\ posts'[j].form = f /\ posts'[j].draft = forms'[f].draft
  <2>1. FormFits(f) /\ (forms[f].sent => \E j \in DOMAIN posts :
                  posts[j].alert = "landed" /\ posts[j].form = f /\ posts[j].draft = forms[f].draft)
    BY DEF ReportInv, SentIsTrue
  <2>2. CASE forms[f].awaits # i
    <3>1. forms'[f] = forms[f]
      BY <1>1, <2>2
    <3> QED
      BY <3>1, <2>1, <1>4 DEF FormFits, Onwards
  <2>3. CASE forms[f].awaits = i
    <3>1. /\ forms'[f].awaits = 0 /\ forms'[f].sent = sent /\ forms'[f].draft = forms[f].draft
          /\ forms'[f].reported = IF sent THEN forms[f].reported + 1 ELSE forms[f].reported
      BY <1>1, <1>2, <2>3
    <3>2. ~forms[f].sent /\ posts[i].form = f /\ posts[i].draft = forms[f].draft
      BY <2>1, <2>3, <1>4 DEF FormFits
    <3> QED
      BY <3>1, <3>2, <2>1, <1>2, <1>4 DEF FormFits, Onwards
  <2> QED
    BY <2>2, <2>3
<1> QED
  BY <1>3, <1>5 DEF SentIsTrue

\* Nothing that is sent or landed changes the budget's stretches, if no alert is
\* begun and time stands still.
LEMMA StretchesStay ==
  ASSUME ReportInv, NEW i \in DOMAIN posts, Onwards(i), UNCHANGED reportTime,
         posts'[i].at = posts[i].at,
         posts'[i].alert # "none" <=> posts[i].alert # "none"
  PROVE  /\ \A t : Stretch(t)' = Stretch(t)
         /\ BudgetSlides'
<1>1. DOMAIN posts' = DOMAIN posts
  BY DEF Onwards, ReportInv, ReportTypeOK
<1>2. \A t : Stretch(t)' = Stretch(t)
  BY <1>1 DEF Onwards, Stretch
<1> QED
  BY <1>2 DEF ReportInv, BudgetSlides, Stretch

\* A post is refused, or its answer or its failure is told.
LEMMA OverKeeps ==
  ASSUME ReportInv, NEW i \in DOMAIN posts, NEW alert \in {"none", "out", "landed", "lost"},
         NEW sent \in BOOLEAN, Told(i, sent),
         posts' = [posts EXCEPT ![i].is = "over", ![i].alert = alert],
         posts[i].alert = "landed" => alert = "landed",
         alert = "none" <=> posts[i].alert = "none",
         sent => alert = "landed",
         UNCHANGED reportTime,
         budget' = budget \/ budget' = Live
  PROVE  ReportInv'
<1>1. posts \in Seq(Post)
  BY DEF ReportInv, ReportTypeOK
<1>2. /\ DOMAIN posts' = DOMAIN posts /\ posts' \in Seq(Post) /\ Len(posts') = Len(posts)
      /\ posts'[i] = [posts[i] EXCEPT !.is = "over", !.alert = alert]
      /\ \A j \in DOMAIN posts : j # i => posts'[j] = posts[j]
  <2> SUFFICES ASSUME NEW p, p = [posts[i] EXCEPT !.is = "over", !.alert = alert]
               PROVE  /\ DOMAIN posts' = DOMAIN posts /\ posts' \in Seq(Post)
                      /\ Len(posts') = Len(posts) /\ posts'[i] = p
                      /\ \A j \in DOMAIN posts : j # i => posts'[j] = posts[j]
    OBVIOUS
  <2>1. posts[i] \in Post
    BY <1>1
  <2>2. p \in Post
    BY <2>1 DEF Post
  <2>3. posts' = [posts EXCEPT ![i] = p]
    BY <1>1
  <2> QED
    BY <1>1, <2>2, <2>3, OnePost
<1>3. posts[i] \in Post
  BY <1>1
<1>4. /\ posts'[i].form = posts[i].form /\ posts'[i].draft = posts[i].draft
      /\ posts'[i].incident = posts[i].incident /\ posts'[i].severity = posts[i].severity
      /\ posts'[i].is = "over" /\ posts'[i].alert = alert
      /\ posts'[i].at = posts[i].at /\ posts'[i].uid = posts[i].uid
  BY <1>2, <1>3 DEF Post
<1>5. Onwards(i)
  BY <1>2, <1>4 DEF Onwards
<1>6. /\ forms' \in [Form -> [draft: Nat, awaits: 0..MaxPosts, sent: BOOLEAN, reported: Nat]]
      /\ \A f \in Form : FormFits(f)'
      /\ SentIsTrue'
  BY <1>5, <1>4, ToldKeeps
<1>7. (\A t : Stretch(t)' = Stretch(t)) /\ BudgetSlides'
  BY <1>4, <1>5, StretchesStay
<1>8. Live \subseteq budget /\ Stretch(reportTime) \subseteq Live
  BY DEF ReportInv, Budgeted, Live, Stretch
<1>9. Budgeted' /\ budget' \subseteq DOMAIN posts'
  BY <1>2, <1>7, <1>8 DEF ReportInv, ReportTypeOK, Budgeted
<1>10. \A j \in DOMAIN posts' : PostFits(j)'
  BY <1>2, <1>4 DEF ReportInv, PostFits
<1>11. ReportTypeOK'
  BY <1>2, <1>6, <1>9 DEF ReportInv, ReportTypeOK
<1> QED
  BY <1>6, <1>7, <1>9, <1>10, <1>11 DEF ReportInv

LEMMA EndsKeep ==
  ASSUME ReportInv, NEW i \in DOMAIN posts,
         Refuse(i) \/ OverBudget(i) \/ Accepted(i) \/ NotAccepted(i)
  PROVE  ReportInv'
<1>1. posts \in Seq(Post) /\ posts[i] \in Post /\ PostFits(i)
  BY DEF ReportInv, ReportTypeOK
<1>2. posts[i].alert \in {"none", "out", "landed", "lost"}
  BY <1>1 DEF Post
<1>3. [posts EXCEPT ![i].is = "over"] = [posts EXCEPT ![i].is = "over", ![i].alert = posts[i].alert]
  BY <1>1 DEF Post
<1>4. CASE Refuse(i) \/ OverBudget(i)
  BY <1>2, <1>3, <1>4, <1>1, OverKeeps DEF Refuse, OverBudget, PostFits
<1>5. CASE Accepted(i)
  BY <1>2, <1>3, <1>5, OverKeeps DEF Accepted
<1>6. CASE NotAccepted(i)
  <2>1. PICK alert \in {posts[i].alert} \cup (IF posts[i].alert = "out" THEN {"lost"} ELSE {}) :
          posts' = [posts EXCEPT ![i].is = "over", ![i].alert = alert]
    BY <1>6 DEF NotAccepted
  <2>2. /\ alert \in {"none", "out", "landed", "lost"}
        /\ posts[i].alert = "landed" => alert = "landed"
        /\ alert = "none" <=> posts[i].alert = "none"
    BY <1>2
  <2> QED
    BY <2>1, <2>2, <1>6, OverKeeps DEF NotAccepted
<1> QED
  BY <1>4, <1>5, <1>6

LEMMA SubmitKeeps ==
  ASSUME ReportInv, NEW f \in Form, NEW s \in Severity, Submit(f, s)
  PROVE  ReportInv'
<1> SUFFICES ASSUME NEW n, n = Len(posts) + 1,
                    NEW p, p = [form |-> f, draft |-> forms[f].draft,
                                incident |-> forms[f].reported, severity |-> s, is |-> "asked",
                                uid |-> NoUid, at |-> 0, alert |-> "none"]
             PROVE  ReportInv'
  OBVIOUS
<1>1. /\ posts \in Seq(Post) /\ reportTime \in Nat
      /\ forms \in [Form -> [draft: Nat, awaits: 0..MaxPosts, sent: BOOLEAN, reported: Nat]]
  BY ReportAssumption DEF ReportInv, ReportTypeOK
<1>2. p \in Post
  BY <1>1 DEF Post, NoUid, Uid
<1>3. posts' = Append(posts, p)
  BY DEF Submit
<1>4. /\ posts' \in Seq(Post) /\ DOMAIN posts' = DOMAIN posts \cup {n} /\ n \notin DOMAIN posts
      /\ posts'[n] = p /\ \A j \in DOMAIN posts : posts'[j] = posts[j]
  BY <1>1, <1>2, <1>3
<1>5. /\ n \in 0..MaxPosts
      /\ forms' \in [Form -> [draft: Nat, awaits: 0..MaxPosts, sent: BOOLEAN, reported: Nat]]
      /\ forms'[f].awaits = n /\ forms'[f].draft = forms[f].draft
      /\ forms'[f].sent = forms[f].sent /\ forms'[f].reported = forms[f].reported
      /\ \A g \in Form : g # f => forms'[g] = forms[g]
  <2>1. n \in 0..MaxPosts
    BY <1>1, ReportAssumption DEF Submit
  <2> QED
    BY <1>1, <2>1 DEF Submit
<1>6. \A g \in Form : FormFits(g)'
  <2>1. FormFits(f)'
    BY <1>4, <1>5 DEF Submit, ReportInv, FormFits
  <2> QED
    BY <2>1, <1>4, <1>5 DEF ReportInv, FormFits
<1>7. \A j \in DOMAIN posts' : PostFits(j)'
  <2>1. /\ p.draft = p.incident + 1 /\ p.is = "asked" /\ p.alert = "none" /\ p.at = 0
        /\ 0 <= reportTime /\ reportTime' = reportTime
    BY <1>1 DEF Submit, ReportInv, FormFits
  <2>2. PostFits(n)'
    BY <1>4, <2>1 DEF PostFits
  <2>3. ASSUME NEW j \in DOMAIN posts PROVE PostFits(j)'
    BY <1>4, <2>1, <2>3 DEF PostFits, ReportInv
  <2> QED
    BY <1>4, <2>2, <2>3
<1>8. SentIsTrue'
  BY <1>4, <1>5 DEF ReportInv, SentIsTrue, Submit
<1>9. (\A t : Stretch(t)' = Stretch(t)) /\ BudgetSlides'
  <2>1. \A t : Stretch(t)' = Stretch(t)
    BY <1>4 DEF Stretch
  <2> QED
    BY <2>1 DEF ReportInv, BudgetSlides, Stretch, Submit
<1> QED
  BY <1>4, <1>5, <1>6, <1>7, <1>8, <1>9 DEF ReportInv, ReportTypeOK, Budgeted, Submit

LEMMA FormAlone ==
  ASSUME ReportInv, NEW f \in Form, Disconnect(f) \/ Close(f)
  PROVE  ReportInv'
<1>1. forms \in [Form -> [draft: Nat, awaits: 0..MaxPosts, sent: BOOLEAN, reported: Nat]]
  BY DEF ReportInv, ReportTypeOK
<1>2. UNCHANGED <<reportTime, budget, posts>>
  BY DEF Disconnect, Close
<1>3. 0 \in 0..MaxPosts
  BY ReportAssumption
<1>4. /\ forms' \in [Form -> [draft: Nat, awaits: 0..MaxPosts, sent: BOOLEAN, reported: Nat]]
      /\ \A g \in Form : g # f => forms'[g] = forms[g]
      /\ \/ forms'[f] = forms[f]
         \/ /\ forms'[f].awaits = 0 /\ forms'[f].reported = forms[f].reported
            /\ \/ forms'[f].draft = forms[f].draft /\ forms'[f].sent = forms[f].sent
               \/ forms'[f].draft = forms[f].draft + 1 /\ forms[f].sent /\ ~forms'[f].sent
  <2>1. CASE Disconnect(f)
    BY <1>1, <1>3, <2>1 DEF Disconnect
  <2>2. CASE Close(f)
    <3>1. Afresh(forms[f]) \in [draft: Nat, awaits: 0..MaxPosts, sent: BOOLEAN, reported: Nat]
      <4>1. forms[f] \in [draft: Nat, awaits: 0..MaxPosts, sent: BOOLEAN, reported: Nat]
        BY <1>1
      <4>2. forms[f].draft + 1 \in Nat
        BY <4>1
      <4> QED
        BY <4>1, <4>2 DEF Afresh
    <3>2. /\ Afresh(forms[f]).awaits = forms[f].awaits
          /\ Afresh(forms[f]).reported = forms[f].reported
          /\ Afresh(forms[f]).draft = forms[f].draft + 1 /\ ~Afresh(forms[f]).sent
      BY <1>1 DEF Afresh
    <3>3. forms' = [forms EXCEPT ![f] = IF forms[f].sent THEN Afresh(forms[f]) ELSE forms[f]]
      BY <2>2 DEF Close
    <3> QED
      BY <1>1, <2>2, <3>1, <3>2, <3>3 DEF Close
  <2> QED
    BY <2>1, <2>2
<1>5. \A g \in Form : FormFits(g)'
  <2>1. FormFits(f)'
    BY <1>1, <1>2, <1>4 DEF ReportInv, FormFits
  <2> QED
    BY <1>2, <1>4, <2>1 DEF ReportInv, FormFits
<1>6. SentIsTrue'
  BY <1>2, <1>4 DEF ReportInv, SentIsTrue
<1>7. (\A i \in DOMAIN posts : PostFits(i))' /\ Budgeted' /\ BudgetSlides'
  BY <1>2 DEF ReportInv, PostFits, Budgeted, BudgetSlides, Stretch
<1> QED
  BY <1>2, <1>4, <1>5, <1>6, <1>7 DEF ReportInv, ReportTypeOK

\* The alert that is begun is one more than those of the budget.
LEMMA TakeKeeps ==
  ASSUME ReportInv, NEW i \in DOMAIN posts, Take(i)
  PROVE  ReportInv'
<1>1. /\ posts \in Seq(Post) /\ posts[i] \in Post /\ PostFits(i)
      /\ reportTime \in Nat /\ reportTime \div Hour \in Nat
  BY ReportAssumption DEF ReportInv, ReportTypeOK
<1>2. AlertUid(posts[i]) \in Uid
  BY <1>1 DEF AlertUid, Uid, Post
<1> SUFFICES ASSUME NEW p, p = [posts[i] EXCEPT !.is = "sending", !.uid = AlertUid(posts[i]),
                                                !.at = reportTime, !.alert = "out"]
             PROVE  ReportInv'
  OBVIOUS
<1>3. p \in Post
  BY <1>1, <1>2 DEF Post
<1>4. posts' = [posts EXCEPT ![i] = p]
  BY <1>1 DEF Take
<1>5. /\ posts' \in Seq(Post) /\ Len(posts') = Len(posts) /\ DOMAIN posts' = DOMAIN posts
      /\ posts'[i] = p /\ \A j \in DOMAIN posts : j # i => posts'[j] = posts[j]
  BY <1>1, <1>3, <1>4, OnePost
<1>6. /\ p.form = posts[i].form /\ p.draft = posts[i].draft /\ p.incident = posts[i].incident
      /\ p.severity = posts[i].severity /\ p.is = "sending" /\ p.uid = AlertUid(posts[i])
      /\ p.at = reportTime /\ p.alert = "out"
  BY <1>1 DEF Post
<1>7. posts[i].alert = "none"
  BY <1>1 DEF PostFits, Take
<1>8. \A j \in DOMAIN posts' : PostFits(j)'
  <2>1. PostFits(i)'
    BY <1>1, <1>5, <1>6 DEF PostFits, AlertUid, Take
  <2> QED
    BY <1>5, <2>1 DEF ReportInv, PostFits, Take
<1>9. \A f \in Form : FormFits(f)'
  BY <1>5, <1>6 DEF ReportInv, FormFits, Take
<1>10. SentIsTrue'
  BY <1>5, <1>7 DEF ReportInv, SentIsTrue, Take
<1>11. Live \subseteq DOMAIN posts /\ Stretch(reportTime) \subseteq Live
  BY DEF ReportInv, ReportTypeOK, Budgeted, Live, Stretch
<1>12. Stretch(reportTime)' \subseteq Live \cup {i} /\ budget' = Live \cup {i}
  BY <1>5, <1>11 DEF Stretch, Take
<1>13. BudgetSlides'
  <2>1. /\ IsFiniteSet(Live) /\ Cardinality(Live) \in Nat
        /\ IsFiniteSet(Live \cup {i}) /\ Cardinality(Live \cup {i}) \in Nat
        /\ Cardinality(Stretch(reportTime)') \in Nat
    BY <1>5, <1>11, <1>12, PostsFinite DEF Stretch
  <2>2. Cardinality(Live \cup {i}) <= Cardinality(Live) + 1
    BY <2>1, FS_AddElement
  <2>3. Cardinality(Stretch(reportTime)') <= Cardinality(Live \cup {i})
    BY <1>12, <2>1, FS_Subset
  <2>4. Cardinality(Stretch(reportTime)') <= PodMax
    BY <2>1, <2>2, <2>3, ReportAssumption DEF Take
  <2>5. ASSUME NEW t \in 0..reportTime, t # reportTime PROVE Stretch(t)' = Stretch(t)
    <3>1. ~(p.at <= t)
      BY <1>1, <1>6, <2>5
    <3>2. i \notin Stretch(t) /\ i \notin Stretch(t)'
      BY <1>5, <1>7, <3>1 DEF Stretch
    <3>3. \A j \in DOMAIN posts : j # i => (j \in Stretch(t) <=> j \in Stretch(t)')
      BY <1>5 DEF Stretch
    <3>4. Stretch(t) \subseteq DOMAIN posts /\ Stretch(t)' \subseteq DOMAIN posts
      BY <1>5 DEF Stretch
    <3> QED
      BY <3>2, <3>3, <3>4
  <2>6. \A t \in 0..reportTime : Cardinality(Stretch(t)) <= PodMax
    BY DEF ReportInv, BudgetSlides, Stretch
  <2>7. reportTime' = reportTime
    BY DEF Take
  <2>8. \A t \in 0..reportTime : Cardinality(Stretch(t)') <= PodMax
    BY <2>4, <2>5, <2>6, <2>7
  <2> QED
    BY <2>7, <2>8 DEF BudgetSlides, Stretch
<1>14. ReportTypeOK' /\ Budgeted'
  BY <1>5, <1>11, <1>12 DEF ReportInv, ReportTypeOK, Budgeted, Take
<1> QED
  BY <1>8, <1>9, <1>10, <1>13, <1>14 DEF ReportInv

LEMMA LandsKeeps ==
  ASSUME ReportInv, NEW i \in DOMAIN posts, Lands(i)
  PROVE  ReportInv'
<1>1. posts \in Seq(Post) /\ posts[i] \in Post
  BY DEF ReportInv, ReportTypeOK
<1> SUFFICES ASSUME NEW p, p = [posts[i] EXCEPT !.alert = "landed"] PROVE ReportInv'
  OBVIOUS
<1>2. p \in Post
  BY <1>1 DEF Post
<1>3. posts' = [posts EXCEPT ![i] = p]
  BY <1>1 DEF Lands
<1>4. /\ posts' \in Seq(Post) /\ Len(posts') = Len(posts) /\ DOMAIN posts' = DOMAIN posts
      /\ posts'[i] = p /\ \A j \in DOMAIN posts : j # i => posts'[j] = posts[j]
  BY <1>1, <1>2, <1>3, OnePost
<1>5. /\ p.form = posts[i].form /\ p.draft = posts[i].draft /\ p.incident = posts[i].incident
      /\ p.severity = posts[i].severity /\ p.is = posts[i].is /\ p.uid = posts[i].uid
      /\ p.at = posts[i].at /\ p.alert = "landed"
  BY <1>1 DEF Post
<1>6. Onwards(i)
  BY <1>4, <1>5 DEF Onwards
<1>7. (\A t : Stretch(t)' = Stretch(t)) /\ BudgetSlides'
  BY <1>4, <1>5, <1>6, StretchesStay DEF Lands
<1>8. \A j \in DOMAIN posts' : PostFits(j)'
  BY <1>4, <1>5 DEF ReportInv, PostFits, Lands
<1>9. \A f \in Form : FormFits(f)'
  BY <1>4, <1>5 DEF ReportInv, FormFits, Lands
<1>10. SentIsTrue'
  BY <1>4, <1>5 DEF ReportInv, SentIsTrue, Lands
<1> QED
  BY <1>4, <1>7, <1>8, <1>9, <1>10 DEF ReportInv, ReportTypeOK, Budgeted, Lands

\* The stretch that ends with the new tick is part of the one that ended before.
LEMMA ReportTickKeeps == ReportInv /\ ReportTick => ReportInv'
<1> SUFFICES ASSUME ReportInv, ReportTick PROVE ReportInv'
  OBVIOUS
<1>1. /\ reportTime \in Nat /\ reportTime' = reportTime + 1 /\ reportTime' \in 0..MaxReportTime
      /\ UNCHANGED <<forms, budget, posts>>
  BY ReportAssumption DEF ReportTick, ReportInv, ReportTypeOK
<1>2. ASSUME NEW i \in DOMAIN posts PROVE posts[i].at \in Nat /\ posts[i].at <= reportTime
  <2>1. posts[i] \in Post
    BY DEF ReportInv, ReportTypeOK
  <2> QED
    BY <2>1 DEF ReportInv, PostFits, Post
<1>3. \A i \in DOMAIN posts : PostFits(i)'
  BY <1>1, <1>2 DEF ReportInv, PostFits
<1>4. Stretch(reportTime + 1) \subseteq Stretch(reportTime)
  BY <1>1, <1>2, ReportAssumption DEF Stretch
<1>5. \A t \in 0..reportTime : Cardinality(Stretch(t)) <= PodMax
  BY DEF ReportInv, BudgetSlides, Stretch
<1>6. Cardinality(Stretch(reportTime + 1)) <= PodMax
  <2>1. /\ IsFiniteSet(Stretch(reportTime)) /\ Cardinality(Stretch(reportTime)) \in Nat
        /\ Cardinality(Stretch(reportTime + 1)) \in Nat
    BY PostsFinite DEF Stretch
  <2>2. Cardinality(Stretch(reportTime + 1)) <= Cardinality(Stretch(reportTime))
    BY <1>4, <2>1, FS_Subset
  <2> QED
    BY <1>1, <1>5, <2>1, <2>2, ReportAssumption
<1>7. BudgetSlides'
  <2>1. \A t \in 0..(reportTime + 1) : Cardinality(Stretch(t)) <= PodMax
    BY <1>1, <1>5, <1>6
  <2> QED
    BY <1>1, <2>1 DEF BudgetSlides, Stretch
<1>8. Budgeted'
  BY <1>1, <1>4 DEF ReportInv, Budgeted, Stretch
<1> QED
  BY <1>1, <1>3, <1>7, <1>8 DEF ReportInv, ReportTypeOK, FormFits, SentIsTrue

LEMMA ReportStep == ReportInv /\ [ReportNext]_reportVars => ReportInv'
<1> SUFFICES ASSUME ReportInv, [ReportNext]_reportVars PROVE ReportInv'
  OBVIOUS
<1>1. CASE UNCHANGED reportVars
  BY <1>1 DEF reportVars, ReportInv, ReportTypeOK, FormFits, PostFits, SentIsTrue, Budgeted,
              BudgetSlides, Stretch
<1>2. CASE \E f \in Form : Disconnect(f) \/ Close(f) \/ \E s \in Severity : Submit(f, s)
  BY <1>2, FormAlone, SubmitKeeps
<1>3. CASE \E i \in DOMAIN posts :
             Refuse(i) \/ Take(i) \/ OverBudget(i) \/ Accepted(i) \/ NotAccepted(i) \/ Lands(i)
  BY <1>3, EndsKeep, TakeKeeps, LandsKeeps
<1>4. CASE ReportTick
  BY <1>4, ReportTickKeeps
<1> QED
  BY <1>1, <1>2, <1>3, <1>4 DEF ReportNext

LEMMA ReportHolds == ReportInv => ReportsHold
<1> SUFFICES ASSUME ReportInv PROVE RetriesJoin
  BY DEF ReportInv, ReportsHold
<1>1. ASSUME NEW i \in DOMAIN posts
      PROVE  PostFits(i) /\ posts[i].draft \in Nat /\ posts[i].incident \in Nat
  <2>1. posts[i] \in Post
    BY DEF ReportInv, ReportTypeOK
  <2> QED
    BY <2>1 DEF ReportInv, Post
<1>2. \A i, j \in Landed("other") :
         posts[i].form = posts[j].form /\ posts[i].incident = posts[j].incident
           => posts[i].uid = posts[j].uid
  <2> SUFFICES ASSUME NEW i \in Landed("other"), NEW j \in Landed("other"),
                      posts[i].form = posts[j].form, posts[i].incident = posts[j].incident
               PROVE  posts[i].uid = posts[j].uid
    OBVIOUS
  <2>1. /\ i \in DOMAIN posts /\ posts[i].alert = "landed" /\ posts[i].severity = "other"
        /\ j \in DOMAIN posts /\ posts[j].alert = "landed" /\ posts[j].severity = "other"
    BY DEF Landed
  <2>2. posts[i].draft = posts[j].draft
    BY <1>1, <2>1 DEF PostFits
  <2>3. /\ posts[i].uid = [of |-> posts[i].form, n |-> posts[i].draft]
        /\ posts[j].uid = [of |-> posts[j].form, n |-> posts[j].draft]
    BY <1>1, <2>1 DEF PostFits
  <2> QED
    BY <2>2, <2>3
<1>3. \A i, j \in Landed("critical") :
         posts[i].at \div Hour = posts[j].at \div Hour => posts[i].uid = posts[j].uid
  <2>1. \A i \in Landed("critical") : posts[i].uid = [of |-> "hour", n |-> posts[i].at \div Hour]
    BY <1>1 DEF Landed, PostFits
  <2> QED
    BY <2>1
<1> QED
  BY <1>2, <1>3 DEF RetriesJoin

LEMMA ReportAlways == ReportSpec => []ReportInv
<1>1. ReportInit => ReportInv
  BY ReportStart
<1>2. ReportInv /\ [ReportNext]_reportVars => ReportInv'
  BY ReportStep
<1> QED
  BY <1>1, <1>2, PTL DEF ReportSpec

\* Reports sent again join the group of the first, a form that says its report was
\* sent is right, and the budget holds in every stretch as long as its window,
\* for every number of forms, every budget and every window.
THEOREM ReportsAlwaysHold == ReportSpec => []ReportsHold
<1>1. ReportInv => ReportsHold
  BY ReportHolds
<1> QED
  BY <1>1, ReportAlways, PTL
=============================================================================
