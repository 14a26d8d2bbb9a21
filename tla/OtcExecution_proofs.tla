----------------------- MODULE OtcExecution_proofs -----------------------
(***************************************************************************)
(* Theorems about OtcExecution, for any signals, protections, processes,   *)
(* caps and limits.                                                        *)
(***************************************************************************)
EXTENDS OtcExecution, FiniteSetTheorems, NaturalsInduction, TLAPS

(* A division by 100 of an integer is an integer. *)
LEMMA DivisionType == ASSUME NEW n \in Int PROVE n \div 100 \in Int
  OBVIOUS

(* What a binary returns on an integer stake is an integer. *)
LEMMA OutcomesType == ASSUME NEW a \in Int PROVE Outcomes(a) \subseteq Int
<1>1. -a \in Int /\ a * PayoutPct \in Int
  BY StakeAssumption
<1>2. (a * PayoutPct) \div 100 \in Int
  BY <1>1, DivisionType
<1> QED
  BY <1>1, <1>2 DEF Outcomes

(* The alert keys stay well typed whatever the evaluation says. *)
LEMMA AlertType ==
    ASSUME TypeOK, NEW reason, ClaimAlert(reason) \/ UNCHANGED alerted
    PROVE  alerted' \subseteq Days \X StopReasons
  BY DEF TypeOK, ClaimAlert

(***************************************************************************)
(* Every variable keeps its type: no level leaves the table, no row is     *)
(* written for a signal that does not exist, only orders are ghosts.        *)
(***************************************************************************)
THEOREM TypeCorrect == Spec => []TypeOK
<1>1. Init => TypeOK
  BY ExecutionAssumption
  DEF Init, TypeOK, Days, Levels, Legs, Stages, Rows, NoRow, NoPnl
<1>2. TypeOK /\ [Next]_vars => TypeOK'
  <2> SUFFICES ASSUME TypeOK, [Next]_vars PROVE TypeOK'
    OBVIOUS
  <2> USE ExecutionAssumption DEF leg, book, stop
  <2>1. CASE UNCHANGED vars
    BY <2>1 DEF TypeOK, vars
  <2>2. ASSUME NEW s \in Signals, Dispatch(s) PROVE TypeOK'
    <3>1. alerted' \subseteq Days \X StopReasons
      BY <2>2, AlertType DEF Dispatch, StopEvaluates
    <3> QED
      BY <2>2, <3>1 DEF Dispatch, Goto, TypeOK, Stages, Executing, Ended
  <2>3. ASSUME NEW s \in Signals, StartTask(s) PROVE TypeOK'
    BY <2>3 DEF StartTask, Goto, TypeOK, Stages, Executing, Ended
  <2>4. ASSUME NEW s \in Signals, CheckStop(s) PROVE TypeOK'
    <3>1. alerted' \subseteq Days \X StopReasons
      BY <2>4, AlertType DEF CheckStop, StopEvaluates
    <3> QED
      BY <2>4, <3>1 DEF CheckStop, Goto, TypeOK, Stages, Executing, Ended
  <2>5. ASSUME NEW s \in Signals, CheckCap(s) PROVE TypeOK'
    BY <2>5 DEF CheckCap, Goto, TypeOK, Stages, Executing, Ended
  <2>6. ASSUME NEW s \in Signals, WaitLeg(s) PROVE TypeOK'
    BY <2>6 DEF WaitLeg, LeaveLoop, Goto, TypeOK, Stages, Executing, Ended
  <2>7. ASSUME NEW s \in Signals, OpenLeg(s) PROVE TypeOK'
    <3>1. Current(s) \in Legs
      BY DEF Current, Legs, TypeOK
    <3>2. \A base \in BaseStakes : StakeForLevel(base, Martingale, level[s]) \in Int
      BY StakeAssumption DEF TypeOK, Levels
    <3>3. pc' \in [Signals -> Stages]
      BY <2>7 DEF OpenLeg, LeaveLoop, Goto, TypeOK, Stages, Executing, Ended
    <3>4. orders' \subseteq Legs /\ ghosts' \subseteq orders'
      BY <2>7, <3>1 DEF OpenLeg, TypeOK
    <3>5. stake' \in [Signals -> Int]
      BY <2>7, <3>2 DEF OpenLeg, TypeOK
    <3> QED
      BY <2>7, <3>3, <3>4, <3>5 DEF OpenLeg, TypeOK
  <2>8. ASSUME NEW s \in Signals, Settle(s) PROVE TypeOK'
    <3>1. stake[s] \in Int
      BY DEF TypeOK
    <3>2. \A v \in Outcomes(stake[s]) : Pnl(v) \in [known : BOOLEAN, pnl : Int]
      BY <3>1, OutcomesType DEF Pnl
    <3>3. NoPnl \in [known : BOOLEAN, pnl : Int]
      BY DEF NoPnl
    <3> QED
      BY <2>8, <3>2, <3>3 DEF Settle, Goto, TypeOK, Stages, Executing, Ended
  <2>9. ASSUME NEW s \in Signals, CreateRow(s) PROVE TypeOK'
    <3>1. OpenRow \in Rows /\ ClosedRow(day) \in Rows
      BY DEF OpenRow, ClosedRow, Rows, TypeOK, Days
    <3> QED
      BY <2>9, <3>1 DEF CreateRow, LeaveLoop, Goto, TypeOK, Stages, Executing, Ended
  <2>10. ASSUME NEW s \in Signals, CloseRow(s) PROVE TypeOK'
    <3>1. Current(s) \in Legs /\ result[s].pnl \in Int
      BY DEF Current, Legs, TypeOK
    <3>2. BookedRow(result[s].pnl, row[Current(s)].day) \in Rows
      BY <3>1 DEF BookedRow, Rows, TypeOK
    <3>3. row' \in [Legs -> Rows]
      BY <2>10, <3>1, <3>2 DEF CloseRow, TypeOK
    <3>4. level' \in [Signals -> Levels]
      <4>1. GoesOn(s) => level[s] + 1 \in Levels
        BY DEF GoesOn, TypeOK, Levels
      <4> QED
        BY <2>10, <4>1 DEF CloseRow, TypeOK
    <3>5. result' \in [Signals -> [known : BOOLEAN, pnl : Int]]
      BY <2>10 DEF CloseRow, TypeOK, NoPnl
    <3> QED
      BY <2>10, <3>3, <3>4, <3>5
      DEF CloseRow, LeaveLoop, Goto, TypeOK, Stages, Executing, Ended
  <2>11. ASSUME NEW s \in Signals, NotifyStop(s) PROVE TypeOK'
    <3>1. alerted' \subseteq Days \X StopReasons
      BY <2>11, AlertType DEF NotifyStop
    <3> QED
      BY <2>11, <3>1 DEF NotifyStop, Goto, TypeOK, Stages, Executing, Ended
  <2>12. ASSUME NEW s \in Signals, Fail(s) PROVE TypeOK'
    BY <2>12 DEF Fail, Goto, TypeOK, Stages, Executing, Ended
  <2>13. CASE NextDay
    BY <2>13 DEF NextDay, TypeOK, Days
  <2>14. CASE Quiet
    BY <2>14 DEF Quiet, TypeOK, vars
  <2> QED
    BY <2>1, <2>2, <2>3, <2>4, <2>5, <2>6, <2>7, <2>8, <2>9, <2>10, <2>11,
       <2>12, <2>13, <2>14 DEF Next, Step
<1> QED
  BY <1>1, <1>2, PTL DEF Spec
-----------------------------------------------------------------------------
(***************************************************************************)
(* The strengthening: where a signal stands in its ladder, against the     *)
(* orders placed for it and the rows booked for it.                        *)
(***************************************************************************)
BeforeLoop == {"new", "queued", "guard", "cap"}
BeforeOrder == BeforeLoop \cup {"wait", "open"}
AfterOrder == {"settle", "create", "close"}
InLoop == {"wait", "open"} \cup AfterOrder

BookedLoss(s, l) == row[<<s, l>>].booked /\ row[<<s, l>>].pnl < 0

NoLaterOrder(s) == \A l \in Levels : <<s, l>> \in orders => l <= level[s]

LadderPosition(s) ==
    /\ Start[s] <= level[s]
    /\ pc[s] \in BeforeLoop => level[s] = Start[s]
    /\ pc[s] \in InLoop => level[s] <= Prot[s]
    /\ level[s] > Start[s] => BookedLoss(s, level[s] - 1)
    /\ NoLaterOrder(s)
    /\ pc[s] \in BeforeOrder => Current(s) \notin orders
    /\ pc[s] \in AfterOrder => Current(s) \in orders /\ ~row[Current(s)].booked

BookedWereOrdered == \A k \in Legs : row[k].booked => k \in orders

LadderInv == BookedWereOrdered /\ \A s \in Signals : LadderPosition(s)

(* Protections, stated signal by signal and level by level. *)
Protected(s, l) == <<s, l>> \in orders /\ l > Start[s] => BookedLoss(s, l - 1)

LEMMA ProtectedIsTheInvariant ==
    ASSUME TypeOK
    PROVE  ProtectionOnlyAfterLoss <=> \A s \in Signals, l \in Levels : Protected(s, l)
  BY DEF ProtectionOnlyAfterLoss, Protected, BookedLoss, TypeOK, Legs

(* A step that leaves a signal's place, level, rows and orders as they were. *)
LEMMA Undisturbed ==
    ASSUME TypeOK, TypeOK', NEW s \in Signals, LadderPosition(s),
           level'[s] = level[s],
           pc'[s] = pc[s],
           \A l \in Levels : row'[<<s, l>>] = row[<<s, l>>],
           \A l \in Levels : <<s, l>> \in orders' <=> <<s, l>> \in orders
    PROVE  LadderPosition(s)'
<1>1. level[s] \in Levels /\ level[s] \in Int /\ Start[s] \in Nat
  BY ExecutionAssumption DEF TypeOK, Levels
<1>2. level[s] > Start[s] => level[s] - 1 \in Levels
  BY <1>1, ExecutionAssumption DEF Levels
<1> QED
  BY <1>1, <1>2
  DEF LadderPosition, BookedLoss, NoLaterOrder, Current, InLoop, BeforeLoop,
      BeforeOrder, AfterOrder

(* A step that only moves a signal's place, never back before its order. *)
LEMMA Moved ==
    ASSUME TypeOK, TypeOK', NEW s \in Signals, LadderPosition(s),
           UNCHANGED <<level, row, orders>>,
           pc'[s] \in BeforeLoop => pc[s] \in BeforeLoop,
           pc'[s] \in BeforeOrder => pc[s] \in BeforeOrder,
           pc'[s] \in AfterOrder => pc[s] \in AfterOrder,
           pc'[s] \in InLoop => pc[s] \in InLoop \/ level[s] <= Prot[s]
    PROVE  LadderPosition(s)'
  BY DEF LadderPosition, BookedLoss, NoLaterOrder, Current

(* The processes share no leg: a step of s leaves the others undisturbed. *)
LEMMA OthersUndisturbed ==
    ASSUME TypeOK, TypeOK', LadderInv, NEW s \in Signals,
           \A r \in Signals \ {s} : level'[r] = level[r] /\ pc'[r] = pc[r],
           \A k \in Legs \ {Current(s)} :
               row'[k] = row[k] /\ (k \in orders' <=> k \in orders)
    PROVE  \A r \in Signals \ {s} : LadderPosition(r)'
<1> SUFFICES ASSUME NEW r \in Signals \ {s} PROVE LadderPosition(r)'
  OBVIOUS
<1>1. \A l \in Levels : <<r, l>> \in Legs \ {Current(s)}
  BY DEF Legs, Current
<1> QED
  BY <1>1, Undisturbed DEF LadderInv

(***************************************************************************)
(* Each action keeps the ladder positions.                                 *)
(***************************************************************************)
LEMMA LadderInit == ASSUME Init PROVE LadderInv
<1>1. Start \in [Signals -> Nat]
  BY ExecutionAssumption
<1> QED
  BY <1>1
  DEF Init, LadderInv, LadderPosition, BookedWereOrdered, BookedLoss, NoLaterOrder,
      Current, InLoop, AfterOrder, BeforeOrder, BeforeLoop, NoRow, Legs

(* The actions that neither order nor write a row. *)
LEMMA LadderMoves ==
    ASSUME TypeOK, TypeOK', LadderInv, NEW s \in Signals,
           \/ Dispatch(s) \/ StartTask(s) \/ CheckStop(s) \/ CheckCap(s)
           \/ WaitLeg(s) \/ Settle(s) \/ NotifyStop(s) \/ Fail(s)
    PROVE  LadderInv'
<1> USE DEF leg, book, stop, Goto, BeforeLoop, BeforeOrder, AfterOrder, InLoop
<1>1. UNCHANGED <<level, row, orders>>
  BY DEF Dispatch, StartTask, CheckStop, CheckCap, WaitLeg, Settle, NotifyStop, Fail
<1>2. \A r \in Signals \ {s} : pc'[r] = pc[r]
  BY DEF Dispatch, StartTask, CheckStop, CheckCap, WaitLeg, Settle, NotifyStop, Fail,
         LeaveLoop, TypeOK
<1>3. \A r \in Signals \ {s} : LadderPosition(r)'
  BY <1>1, <1>2, OthersUndisturbed
<1>4. LadderPosition(s)
  BY DEF LadderInv
<1>5. CASE Dispatch(s) \/ StartTask(s) \/ CheckStop(s)
  <2>1. pc[s] \in BeforeLoop /\ (pc'[s] \in {"queued", "guard", "cap"} \/ pc'[s] \in Ended)
    BY <1>5 DEF Dispatch, StartTask, CheckStop, TypeOK, Ended
  <2> QED
    BY <1>1, <1>3, <1>4, <2>1, Moved DEF LadderInv, BookedWereOrdered, Ended
<1>6. CASE CheckCap(s)
  <2>1. pc[s] = "cap" /\ pc'[s] \in {"wait", "capped", "done"}
    BY <1>6 DEF CheckCap, TypeOK
  <2>2. pc'[s] = "wait" => ~(Start[s] > Prot[s])
    BY <1>6 DEF CheckCap, TypeOK
  <2>3. pc'[s] = "wait" => level[s] <= Prot[s]
    <3>1. Start[s] \in Int /\ Prot[s] \in Int
      BY ExecutionAssumption
    <3> QED
      BY <1>4, <2>1, <2>2, <3>1 DEF LadderPosition
  <2> QED
    BY <1>1, <1>3, <1>4, <2>1, <2>3, Moved DEF LadderInv, BookedWereOrdered
<1>7. CASE WaitLeg(s)
  <2>1. pc[s] = "wait" /\ pc'[s] \in {"open", "notify", "done"}
    BY <1>7 DEF WaitLeg, LeaveLoop, TypeOK
  <2> QED
    BY <1>1, <1>3, <1>4, <2>1, Moved DEF LadderInv, BookedWereOrdered
<1>8. CASE Settle(s)
  <2>1. pc[s] = "settle" /\ pc'[s] = "create"
    BY <1>8 DEF Settle, TypeOK
  <2> QED
    BY <1>1, <1>3, <1>4, <2>1, Moved DEF LadderInv, BookedWereOrdered
<1>9. CASE NotifyStop(s) \/ Fail(s)
  <2>1. pc'[s] \in {"done", "failed"}
    BY <1>9 DEF NotifyStop, Fail, TypeOK
  <2> QED
    BY <1>1, <1>3, <1>4, <2>1, Moved DEF LadderInv, BookedWereOrdered
<1> QED
  BY <1>5, <1>6, <1>7, <1>8, <1>9

LEMMA LadderOpen ==
    ASSUME TypeOK, TypeOK', LadderInv, NEW s \in Signals, OpenLeg(s)
    PROVE  LadderInv'
<1> USE DEF leg, book, stop, Goto
<1>1. UNCHANGED <<level, row>> /\ Current(s) \in Legs /\ pc[s] = "open"
  BY DEF OpenLeg, Current, Legs, TypeOK
<1>2. orders' \in {orders, orders \cup {Current(s)}}
  BY DEF OpenLeg
<1>3. \A r \in Signals \ {s} : LadderPosition(r)'
  <2>1. \A r \in Signals \ {s} : pc'[r] = pc[r]
    BY DEF OpenLeg, LeaveLoop, TypeOK
  <2> QED
    BY <1>1, <1>2, <2>1, OthersUndisturbed
<1>4. LadderPosition(s) /\ ~row[Current(s)].booked
  BY <1>1 DEF LadderInv, LadderPosition, BookedWereOrdered, BeforeOrder, BeforeLoop
<1>5. pc'[s] \in {"settle", "notify", "done", "failed"}
  BY DEF OpenLeg, LeaveLoop, TypeOK
<1>6. pc'[s] = "settle" => Current(s) \in orders'
  BY DEF OpenLeg, LeaveLoop, TypeOK
<1>7. NoLaterOrder(s)'
  <2>1. \A l \in Levels : <<s, l>> = Current(s) => l <= level[s]
    BY ExecutionAssumption DEF Current, TypeOK, Levels
  <2> QED
    BY <1>1, <1>2, <1>4, <2>1 DEF LadderPosition, NoLaterOrder
<1>8. LadderPosition(s)'
  BY <1>1, <1>4, <1>5, <1>6, <1>7
  DEF LadderPosition, BookedLoss, Current, BeforeLoop, BeforeOrder, AfterOrder, InLoop
<1>9. BookedWereOrdered'
  BY <1>1, <1>2 DEF LadderInv, BookedWereOrdered
<1> QED
  BY <1>3, <1>8, <1>9 DEF LadderInv

LEMMA LadderCreate ==
    ASSUME TypeOK, TypeOK', LadderInv, NEW s \in Signals, CreateRow(s)
    PROVE  LadderInv'
<1> USE DEF leg, book, stop, Goto
<1>1. UNCHANGED <<level, orders>> /\ Current(s) \in Legs /\ pc[s] = "create"
  BY DEF CreateRow, Current, Legs, TypeOK
<1>2. \A k \in Legs \ {Current(s)} : row'[k] = row[k]
  BY DEF CreateRow, TypeOK
<1>3. ~row'[Current(s)].booked
  <2>1. row'[Current(s)] \in {ClosedRow(day), OpenRow}
    BY <1>1 DEF CreateRow, TypeOK
  <2> QED
    BY <2>1 DEF ClosedRow, OpenRow
<1>4. \A r \in Signals \ {s} : LadderPosition(r)'
  <2>1. \A r \in Signals \ {s} : pc'[r] = pc[r]
    BY DEF CreateRow, LeaveLoop, TypeOK
  <2> QED
    BY <1>1, <1>2, <2>1, OthersUndisturbed
<1>5. LadderPosition(s)
  BY DEF LadderInv
<1>6. pc'[s] \in {"close", "notify", "done"}
  BY DEF CreateRow, LeaveLoop, TypeOK
<1>7. level[s] > Start[s] => BookedLoss(s, level[s] - 1)'
  <2> SUFFICES ASSUME level[s] > Start[s] PROVE BookedLoss(s, level[s] - 1)'
    OBVIOUS
  <2>1. <<s, level[s] - 1>> \in Legs \ {Current(s)}
    BY ExecutionAssumption DEF Legs, Levels, Current, TypeOK
  <2> QED
    BY <1>1, <1>2, <1>5, <2>1 DEF LadderPosition, BookedLoss
<1>8. LadderPosition(s)'
  BY <1>1, <1>3, <1>5, <1>6, <1>7
  DEF LadderPosition, BookedLoss, NoLaterOrder, Current, BeforeLoop, BeforeOrder,
      AfterOrder, InLoop
<1>9. BookedWereOrdered'
  BY <1>1, <1>2, <1>3 DEF LadderInv, BookedWereOrdered
<1> QED
  BY <1>4, <1>8, <1>9 DEF LadderInv

LEMMA LadderClose ==
    ASSUME TypeOK, TypeOK', LadderInv, NEW s \in Signals, CloseRow(s)
    PROVE  LadderInv'
<1> USE DEF leg, book, stop, Goto
<1>1. UNCHANGED orders /\ Current(s) \in Legs /\ pc[s] = "close"
  BY DEF CloseRow, Current, Legs, TypeOK
<1>2. \A k \in Legs \ {Current(s)} : row'[k] = row[k]
  BY DEF CloseRow, TypeOK
<1>3. row'[Current(s)].booked /\ row'[Current(s)].pnl = result[s].pnl
  BY <1>1 DEF CloseRow, TypeOK, BookedRow
<1>4. LadderPosition(s) /\ Current(s) \in orders
  BY <1>1 DEF LadderInv, LadderPosition, AfterOrder
<1>5. \A r \in Signals \ {s} : LadderPosition(r)'
  <2>1. \A r \in Signals \ {s} : pc'[r] = pc[r] /\ level'[r] = level[r]
    BY DEF CloseRow, LeaveLoop, TypeOK
  <2> QED
    BY <1>1, <1>2, <2>1, OthersUndisturbed
<1>6. BookedWereOrdered'
  BY <1>1, <1>2, <1>4 DEF LadderInv, BookedWereOrdered
<1>7. level[s] \in Int /\ Start[s] \in Int /\ Prot[s] \in Int
  BY ExecutionAssumption DEF TypeOK, Levels
<1>8. CASE GoesOn(s)
  <2>1. level'[s] = level[s] + 1 /\ pc'[s] = "wait" /\ level[s] < Prot[s]
    BY <1>8 DEF CloseRow, GoesOn, TypeOK
  <2>2. row'[<<s, level[s]>>].booked /\ row'[<<s, level[s]>>].pnl < 0
    BY <1>1, <1>3, <1>8 DEF GoesOn, IsLoss, Current
  <2>3. Current(s)' \notin orders'
    BY <1>1, <1>4, <1>7, <2>1 DEF LadderPosition, NoLaterOrder, Current, TypeOK
  <2>4. NoLaterOrder(s)'
    BY <1>1, <1>4, <1>7, <2>1, ExecutionAssumption
    DEF LadderPosition, NoLaterOrder, Levels
  <2>5. BookedLoss(s, level[s] - 1)'
    BY <1>7, <2>1, <2>2 DEF BookedLoss
  <2>6. LadderPosition(s)'
    BY <1>4, <1>7, <2>1, <2>3, <2>4, <2>5
    DEF LadderPosition, BeforeLoop, BeforeOrder, AfterOrder, InLoop
  <2> QED
    BY <1>5, <1>6, <2>6 DEF LadderInv
<1>9. CASE ~GoesOn(s)
  <2>1. level' = level /\ pc'[s] \in {"notify", "done"}
    BY <1>9 DEF CloseRow, LeaveLoop, TypeOK
  <2>2. level[s] > Start[s] => BookedLoss(s, level[s] - 1)'
    <3> SUFFICES ASSUME level[s] > Start[s] PROVE BookedLoss(s, level[s] - 1)'
      OBVIOUS
    <3>1. <<s, level[s] - 1>> \in Legs \ {Current(s)}
      BY ExecutionAssumption DEF Legs, Levels, Current, TypeOK
    <3> QED
      BY <1>2, <1>4, <2>1, <3>1 DEF LadderPosition, BookedLoss
  <2>3. LadderPosition(s)'
    BY <1>1, <1>4, <2>1, <2>2
    DEF LadderPosition, BookedLoss, NoLaterOrder, BeforeLoop, BeforeOrder, AfterOrder, InLoop
  <2> QED
    BY <1>5, <1>6, <2>3 DEF LadderInv
<1> QED
  BY <1>8, <1>9

LEMMA LadderStep ==
    ASSUME TypeOK, TypeOK', LadderInv, [Next]_vars
    PROVE  LadderInv'
<1>1. CASE \E s \in Signals : Step(s) \/ Fail(s)
  BY <1>1, LadderMoves, LadderOpen, LadderCreate, LadderClose DEF Step
<1>2. CASE UNCHANGED <<pc, level, row, orders>>
  <2>1. \A s \in Signals : LadderPosition(s)'
    BY <1>2, Undisturbed DEF LadderInv
  <2> QED
    BY <1>2, <2>1 DEF LadderInv, BookedWereOrdered
<1> QED
  BY <1>1, <1>2 DEF Next, NextDay, Quiet, vars, leg, book, stop

(***************************************************************************)
(* At all times a signal stands where its orders and its booked rows say   *)
(* it stands.                                                              *)
(***************************************************************************)
THEOREM LadderPositions == Spec => []LadderInv
<1>1. Init => LadderInv
  BY LadderInit
<1>2. TypeOK /\ TypeOK' /\ LadderInv /\ [Next]_vars => LadderInv'
  BY LadderStep
<1> QED
  BY <1>1, <1>2, TypeCorrect, PTL DEF Spec

(* A step keeps the protections: a new order of level l finds l - 1 lost.   *)
LEMMA ProtectedStep ==
    ASSUME TypeOK, TypeOK', LadderInv, [Next]_vars,
           NEW s \in Signals, NEW l \in Levels, Protected(s, l)
    PROVE  Protected(s, l)'
<1> USE DEF leg, book, stop
<1> SUFFICES ASSUME <<s, l>> \in orders', l > Start[s] PROVE BookedLoss(s, l - 1)'
  BY DEF Protected
<1>1. l \in Int /\ <<s, l - 1>> \in Legs /\ l - 1 < l
  BY ExecutionAssumption DEF Legs, Levels
<1>2. BookedLoss(s, l - 1) /\ l <= level[s]
  <2>1. CASE <<s, l>> \in orders
    BY <2>1 DEF Protected, LadderInv, LadderPosition, NoLaterOrder
  <2>2. CASE <<s, l>> \notin orders
    <3>1. PICK r \in Signals : OpenLeg(r) /\ <<s, l>> = Current(r)
      BY <2>2 DEF Next, Step, Dispatch, StartTask, CheckStop, CheckCap, WaitLeg, OpenLeg,
                  Settle, CreateRow, CloseRow, NotifyStop, Fail, NextDay, Quiet, vars
    <3>2. r = s /\ l = level[s]
      BY <3>1 DEF Current
    <3> QED
      BY <1>1, <3>2 DEF LadderInv, LadderPosition
  <2> QED
    BY <2>1, <2>2
<1>3. row'[<<s, l - 1>>] = row[<<s, l - 1>>]
  <2>1. CASE \E r \in Signals : CreateRow(r) \/ CloseRow(r)
    <3>1. PICK r \in Signals : CreateRow(r) \/ CloseRow(r)
      BY <2>1
    <3>2. <<s, l - 1>> # Current(r)
      BY <1>1, <1>2 DEF Current, TypeOK, Levels
    <3> QED
      BY <1>1, <3>1, <3>2 DEF CreateRow, CloseRow, TypeOK
  <2>2. CASE UNCHANGED row
    BY <2>2
  <2> QED
    BY <2>1, <2>2 DEF Next, Step, Dispatch, StartTask, CheckStop, CheckCap, WaitLeg,
                      OpenLeg, Settle, NotifyStop, Fail, NextDay, Quiet, vars
<1> QED
  BY <1>2, <1>3 DEF BookedLoss

(***************************************************************************)
(* A protection is ordered only after the leg before it was booked as a    *)
(* loss: for any number of signals, levels and processes, whatever fails.  *)
(***************************************************************************)
THEOREM ProtectionsFollowLosses == Spec => []ProtectionOnlyAfterLoss
<1> DEFINE AllProtected == \A s \in Signals, l \in Levels : Protected(s, l)
<1>1. Init => AllProtected
  BY DEF Init, Protected
<1>2. TypeOK /\ TypeOK' /\ LadderInv /\ AllProtected /\ [Next]_vars => AllProtected'
  BY ProtectedStep
<1>3. TypeOK /\ AllProtected => ProtectionOnlyAfterLoss
  BY ProtectedIsTheInvariant
<1> HIDE DEF AllProtected
<1> QED
  BY <1>1, <1>2, <1>3, TypeCorrect, LadderPositions, PTL DEF Spec
-----------------------------------------------------------------------------
(***************************************************************************)
(* The refinement.  Three facts about a step: it places one leg that the   *)
(* ladder allows, or it books one placed leg, or it changes neither the    *)
(* orders nor any outcome.                                                 *)
(***************************************************************************)
Booked == [k \in Legs |-> OutcomeOf(row[k])]

LEMMA OpenPlaces ==
    ASSUME TypeOK, LadderInv, NEW s \in Signals, OpenLeg(s)
    PROVE  Ladder!Place(s, level[s]) \/ UNCHANGED <<orders, Booked>>
<1> USE DEF leg, book, stop
<1>1. pc[s] = "open" /\ UNCHANGED row /\ UNCHANGED Booked
  BY DEF OpenLeg, Booked
<1>2. LadderPosition(s) /\ level[s] \in Levels /\ level[s] \in Int
  BY DEF LadderInv, TypeOK, Levels
<1>3. level[s] \in Start[s]..Prot[s] /\ <<s, level[s]>> \notin orders
  BY <1>1, <1>2, ExecutionAssumption
  DEF LadderPosition, InLoop, BeforeOrder, BeforeLoop, Current
<1>4. level[s] # Start[s] => Booked[<<s, level[s] - 1>>] = "loss"
  <2> SUFFICES ASSUME level[s] # Start[s] PROVE Booked[<<s, level[s] - 1>>] = "loss"
    OBVIOUS
  <2>1. level[s] > Start[s] /\ <<s, level[s] - 1>> \in Legs
    BY <1>2, ExecutionAssumption DEF LadderPosition, Legs, Levels
  <2> QED
    BY <1>2, <2>1 DEF LadderPosition, BookedLoss, Booked, OutcomeOf
<1>5. orders' \in {orders, orders \cup {<<s, level[s]>>}}
  BY DEF OpenLeg, Current
<1> QED
  BY <1>1, <1>3, <1>4, <1>5 DEF Ladder!Place, Ladder!MayPlace, Booked

LEMMA CreateBooksNothing ==
    ASSUME TypeOK, LadderInv, NEW s \in Signals, CreateRow(s)
    PROVE  UNCHANGED <<orders, Booked>>
<1> USE DEF leg, book, stop
<1>1. pc[s] = "create" /\ UNCHANGED orders /\ Current(s) \in Legs
  BY DEF CreateRow, Current, Legs, TypeOK
<1>2. ~row[Current(s)].booked
  BY <1>1 DEF LadderInv, LadderPosition, AfterOrder
<1>3. row'[Current(s)] \in {ClosedRow(day), OpenRow}
  BY <1>1 DEF CreateRow, TypeOK
<1>4. ~row'[Current(s)].booked
  BY <1>3 DEF ClosedRow, OpenRow
<1>5. \A k \in Legs \ {Current(s)} : row'[k] = row[k]
  BY DEF CreateRow, TypeOK
<1>6. \A k \in Legs : OutcomeOf(row'[k]) = OutcomeOf(row[k])
  BY <1>2, <1>4, <1>5 DEF OutcomeOf
<1> QED
  BY <1>1, <1>6 DEF Booked

LEMMA CloseBooks ==
    ASSUME TypeOK, LadderInv, NEW s \in Signals, CloseRow(s)
    PROVE  Ladder!Book(s, level[s])
<1> USE DEF leg, book, stop
<1>1. pc[s] = "close" /\ UNCHANGED orders /\ Current(s) \in Legs
  BY DEF CloseRow, Current, Legs, TypeOK
<1>2. Current(s) \in orders /\ ~row[Current(s)].booked
  BY <1>1 DEF LadderInv, LadderPosition, AfterOrder
<1>3. Booked[Current(s)] = "none"
  BY <1>1, <1>2 DEF Booked, OutcomeOf
<1>4. row'[Current(s)].booked
  BY <1>1 DEF CloseRow, TypeOK, BookedRow
<1>5. OutcomeOf(row'[Current(s)]) \in {"loss", "even", "win"}
  BY <1>4 DEF OutcomeOf
<1>6. \A k \in Legs \ {Current(s)} : row'[k] = row[k]
  BY DEF CloseRow, TypeOK
<1>7. [k \in Legs |-> OutcomeOf(row'[k])]
         = [Booked EXCEPT ![Current(s)] = OutcomeOf(row'[Current(s)])]
  BY <1>1, <1>6 DEF Booked
<1> QED
  BY <1>1, <1>2, <1>3, <1>5, <1>7 DEF Ladder!Book, Ladder!Outcomes, Booked, Current

LEMMA OthersStutter ==
    ASSUME [Next]_vars,
           \A s \in Signals : ~OpenLeg(s) /\ ~CreateRow(s) /\ ~CloseRow(s)
    PROVE  UNCHANGED <<orders, Booked>>
<1>1. UNCHANGED <<orders, row>>
  BY DEF Next, Step, Dispatch, StartTask, CheckStop, CheckCap, WaitLeg, Settle,
         NotifyStop, Fail, NextDay, Quiet, vars, leg, book, stop
<1> QED
  BY <1>1 DEF Booked

(* Initial states map to initial states, and every step to a step or a stutter. *)
THEOREM ExecutorImplementsLadder == Spec => ImplementsLadder
<1>1. Init => Ladder!Init
  BY DEF Init, Ladder!Init, NoRow, OutcomeOf, Legs
<1>2. TypeOK /\ LadderInv /\ [Next]_vars => [Ladder!Next]_<<orders, Booked>>
  <2> SUFFICES ASSUME TypeOK, LadderInv, [Next]_vars
               PROVE  Ladder!Next \/ UNCHANGED <<orders, Booked>>
    OBVIOUS
  <2>1. ASSUME NEW s \in Signals, Ladder!Place(s, level[s]) \/ Ladder!Book(s, level[s])
        PROVE  Ladder!Next
    BY <2>1 DEF Ladder!Next, TypeOK
  <2> QED
    BY <2>1, OpenPlaces, CreateBooksNothing, CloseBooks, OthersStutter
<1>3. Init /\ [][Next]_vars /\ []TypeOK /\ []LadderInv => Ladder!Spec
  BY <1>1, <1>2, PTL DEF Ladder!Spec, Booked
<1> QED
  BY <1>3, TypeCorrect, LadderPositions, PTL DEF Spec, ImplementsLadder
-----------------------------------------------------------------------------
(* OrdersAccounted leg by leg. *)
Accounted(k) ==
    \/ row[k].booked
    \/ row[k].status = "open"
    \/ k \in ghosts
    \/ k = Current(k[1]) /\ pc[k[1]] \in {"settle", "create", "close", "failed"}

(* A step keeps every order accounted for. *)
LEMMA AccountedStep ==
    ASSUME TypeOK, LadderInv, OrdersAccounted, [Next]_vars, NEW k \in orders'
    PROVE  Accounted(k)'
<1> USE DEF leg, book, stop, Goto
<1>1. CASE k \notin orders
  <2>1. PICK s \in Signals : OpenLeg(s) /\ k = Current(s)
    BY <1>1 DEF Next, Step, Dispatch, StartTask, CheckStop, CheckCap, WaitLeg, OpenLeg,
                Settle, CreateRow, CloseRow, NotifyStop, Fail, NextDay, Quiet, vars
  <2>2. k[1] = s /\ level' = level
    BY <2>1 DEF Current, OpenLeg
  <2>3. k \in ghosts' \/ pc'[s] = "settle"
    BY <1>1, <2>1 DEF OpenLeg, TypeOK
  <2> QED
    BY <2>1, <2>2, <2>3 DEF Accounted, Current
<1>2. CASE k \in orders
  <2>1. Accounted(k) /\ k \in Legs /\ k[1] \in Signals
    BY <1>2 DEF OrdersAccounted, Accounted, TypeOK, Legs
  <2>2. ghosts \subseteq ghosts'
    BY DEF Next, Step, Dispatch, StartTask, CheckStop, CheckCap, WaitLeg, OpenLeg,
           Settle, CreateRow, CloseRow, NotifyStop, Fail, NextDay, Quiet, vars
  <2>3. ASSUME NEW s \in Signals, CreateRow(s) PROVE Accounted(k)'
    <3>1. CASE k = Current(s)
      <4>1. k[1] = s /\ level' = level
        BY <3>1, <2>3 DEF Current, CreateRow
      <4>2. pc'[s] = "close" \/ row'[k] = OpenRow
        BY <2>1, <2>3, <3>1 DEF CreateRow, TypeOK
      <4> QED
        BY <3>1, <4>1, <4>2 DEF Accounted, Current, OpenRow
    <3>2. CASE k # Current(s)
      <4>1. row'[k] = row[k] /\ level' = level
        BY <2>1, <2>3, <3>2 DEF CreateRow, TypeOK
      <4>2. k = Current(k[1]) => k[1] # s
        BY <3>2
      <4>3. \A r \in Signals \ {s} : pc'[r] = pc[r]
        BY <2>3 DEF CreateRow, LeaveLoop, TypeOK
      <4> QED
        BY <2>1, <2>2, <4>1, <4>2, <4>3 DEF Accounted, Current
    <3> QED
      BY <3>1, <3>2
  <2>4. ASSUME NEW s \in Signals, CloseRow(s) PROVE Accounted(k)'
    <3>1. CASE k = Current(s)
      BY <2>1, <2>4, <3>1 DEF CloseRow, TypeOK, BookedRow, Accounted
    <3>2. CASE k # Current(s)
      <4>1. row'[k] = row[k]
        BY <2>1, <2>4, <3>2 DEF CloseRow, TypeOK
      <4>2. k = Current(k[1]) => k[1] # s
        BY <3>2
      <4>3. \A r \in Signals \ {s} : pc'[r] = pc[r] /\ level'[r] = level[r]
        BY <2>4 DEF CloseRow, LeaveLoop, TypeOK
      <4> QED
        BY <2>1, <2>2, <4>1, <4>2, <4>3 DEF Accounted, Current
    <3> QED
      BY <3>1, <3>2
  <2>5. ASSUME NEW s \in Signals, UNCHANGED <<row, level>>,
               \A r \in Signals \ {s} : pc'[r] = pc[r],
               pc[s] \in {"settle", "create", "close", "failed"}
                   => pc'[s] \in {"settle", "create", "close", "failed"}
        PROVE  Accounted(k)'
    BY <2>1, <2>2, <2>5 DEF Accounted, Current
  <2>6. ASSUME NEW s \in Signals,
               \/ Dispatch(s) \/ StartTask(s) \/ CheckStop(s) \/ CheckCap(s)
               \/ WaitLeg(s) \/ OpenLeg(s) \/ Settle(s) \/ NotifyStop(s) \/ Fail(s)
        PROVE  Accounted(k)'
    <3>1. UNCHANGED <<row, level>>
      BY <2>6 DEF Dispatch, StartTask, CheckStop, CheckCap, WaitLeg, OpenLeg, Settle,
                  NotifyStop, Fail
    <3>2. \A r \in Signals \ {s} : pc'[r] = pc[r]
      BY <2>6 DEF Dispatch, StartTask, CheckStop, CheckCap, WaitLeg, OpenLeg, Settle,
                  NotifyStop, Fail, LeaveLoop, TypeOK
    <3>3. pc[s] \in {"settle", "create", "close", "failed"}
             => pc'[s] \in {"settle", "create", "close", "failed"}
      BY <2>6 DEF Dispatch, StartTask, CheckStop, CheckCap, WaitLeg, OpenLeg, Settle,
                  NotifyStop, Fail, Executing, TypeOK
    <3> QED
      BY <2>5, <3>1, <3>2, <3>3
  <2>7. CASE UNCHANGED <<pc, level, row>>
    BY <2>1, <2>2, <2>7 DEF Accounted, Current
  <2> QED
    BY <2>3, <2>4, <2>6, <2>7 DEF Next, Step, NextDay, Quiet, vars
<1> QED
  BY <1>1, <1>2

(***************************************************************************)
(* No accepted binary is ever forgotten, whatever fails and in whatever    *)
(* order the processes run.                                                *)
(***************************************************************************)
THEOREM NoOrderForgotten == Spec => []OrdersAccounted
<1>1. Init => OrdersAccounted
  BY DEF Init, OrdersAccounted
<1>2. TypeOK /\ LadderInv /\ OrdersAccounted /\ [Next]_vars => OrdersAccounted'
  BY AccountedStep DEF OrdersAccounted, Accounted
<1> QED
  BY <1>1, <1>2, TypeCorrect, LadderPositions, PTL DEF Spec
-----------------------------------------------------------------------------
(***************************************************************************)
(* The open rows.                                                          *)
(***************************************************************************)
LEMMA SetsAreFinite ==
    /\ IsFiniteSet(Running) /\ IsFiniteSet(PastCap) /\ IsFiniteSet(OpenRows)
    /\ Cardinality(Running) \in Nat /\ Cardinality(PastCap) \in Nat
    /\ Cardinality(OpenRows) \in Nat
<1>1. IsFiniteSet(Signals) /\ IsFiniteSet(Levels)
  BY ExecutionAssumption, FS_Interval DEF Levels
<1>2. IsFiniteSet(Legs)
  BY <1>1, FS_Product DEF Legs
<1>3. Running \subseteq Signals /\ PastCap \subseteq Signals /\ OpenRows \subseteq Legs
  BY DEF Running, PastCap, OpenRows
<1>4. IsFiniteSet(Running) /\ IsFiniteSet(PastCap) /\ IsFiniteSet(OpenRows)
  BY <1>1, <1>2, <1>3, FS_Subset
<1> QED
  BY <1>4, FS_CardinalityType

(* Enlarging a finite set by at most one element. *)
LEMMA OneMore ==
    ASSUME NEW S, IsFiniteSet(S), NEW x, NEW T, T \subseteq S \cup {x}
    PROVE  IsFiniteSet(T) /\ Cardinality(T) <= Cardinality(S) + 1
<1>1. IsFiniteSet(S \cup {x}) /\ Cardinality(S \cup {x}) \in Nat
      /\ Cardinality(S) \in Nat /\ Cardinality(S \cup {x}) <= Cardinality(S) + 1
  BY FS_AddElement, FS_CardinalityType
<1>2. IsFiniteSet(T) /\ Cardinality(T) <= Cardinality(S \cup {x}) /\ Cardinality(T) \in Nat
  BY <1>1, FS_Subset, FS_CardinalityType
<1> QED
  BY <1>1, <1>2

(* A step takes a process only when one is free. *)
LEMMA SlotsStep ==
    ASSUME TypeOK, SlotsRespected, [Next]_vars
    PROVE  SlotsRespected'
<1> USE DEF leg, book, stop, Goto
<1>1. ASSUME Running' \subseteq Running PROVE SlotsRespected'
  <2>1. Cardinality(Running') <= Cardinality(Running) /\ Cardinality(Running') \in Nat
    BY <1>1, SetsAreFinite, FS_Subset, FS_CardinalityType
  <2> QED
    BY <2>1, SetsAreFinite, ExecutionAssumption DEF SlotsRespected
<1>2. ASSUME NEW s \in Signals, FreeSlot, Running' \subseteq Running \cup {s}
      PROVE  SlotsRespected'
  <2>1. Cardinality(Running') <= Cardinality(Running) + 1
        /\ Cardinality(Running') \in Nat
    BY <1>2, SetsAreFinite, OneMore, FS_CardinalityType
  <2> QED
    BY <1>2, <2>1, SetsAreFinite, ExecutionAssumption DEF SlotsRespected, FreeSlot
<1>3. ASSUME NEW s \in Signals, Dispatch(s) \/ StartTask(s) PROVE SlotsRespected'
  <2>1. Running' \subseteq Running \cup {s}
    BY <1>3 DEF Dispatch, StartTask, Running, TypeOK
  <2>2. FreeSlot \/ pc'[s] \in {"skipped", "missed", "queued"}
    BY <1>3 DEF Dispatch, StartTask, TypeOK
  <2>3. pc'[s] \in {"skipped", "missed", "queued"} => Running' \subseteq Running
    BY <2>1 DEF Running, Executing
  <2> QED
    BY <1>1, <1>2, <2>1, <2>2, <2>3
<1>4. ASSUME NEW s \in Signals,
             \/ CheckStop(s) \/ CheckCap(s) \/ WaitLeg(s) \/ OpenLeg(s) \/ Settle(s)
             \/ CreateRow(s) \/ CloseRow(s) \/ NotifyStop(s) \/ Fail(s)
      PROVE  SlotsRespected'
  <2>1. pc[s] \in Executing /\ \A r \in Signals \ {s} : pc'[r] = pc[r]
    BY <1>4 DEF CheckStop, CheckCap, WaitLeg, OpenLeg, Settle, CreateRow, CloseRow,
                NotifyStop, Fail, LeaveLoop, TypeOK, Executing
  <2> QED
    BY <1>1, <2>1 DEF Running
<1>5. CASE UNCHANGED pc
  BY <1>1, <1>5 DEF Running
<1> QED
  BY <1>3, <1>4, <1>5 DEF Next, Step, NextDay, Quiet, vars

THEOREM SlotsNeverExceeded == Spec => []SlotsRespected
<1>1. Init => SlotsRespected
  <2>1. Init => Running = {}
    BY DEF Init, Running, Executing
  <2> QED
    BY <2>1, FS_EmptySet, ExecutionAssumption DEF SlotsRespected
<1>2. TypeOK /\ SlotsRespected /\ [Next]_vars => SlotsRespected'
  BY SlotsStep
<1> QED
  BY <1>1, <1>2, TypeCorrect, PTL DEF Spec

(* A leg left open trades its process's place past the cap for its row.     *)
LEMMA OpenRowsStep ==
    ASSUME TypeOK, SlotsRespected', OpenRowsBounded, [Next]_vars
    PROVE  OpenRowsBounded'
<1> USE DEF leg, book, stop, Goto
<1>1. ASSUME OpenRows' \subseteq OpenRows, PastCap' \subseteq PastCap PROVE OpenRowsBounded'
  <2>1. /\ Cardinality(OpenRows') \in Nat /\ Cardinality(OpenRows') <= Cardinality(OpenRows)
        /\ Cardinality(PastCap') \in Nat /\ Cardinality(PastCap') <= Cardinality(PastCap)
    BY <1>1, SetsAreFinite, FS_Subset, FS_CardinalityType
  <2> QED
    BY <2>1, SetsAreFinite, ExecutionAssumption DEF OpenRowsBounded
<1>2. ASSUME NEW s \in Signals, CheckCap(s) PROVE OpenRowsBounded'
  <2>1. UNCHANGED OpenRows
    BY <1>2 DEF CheckCap, OpenRows
  <2>2. CASE Cardinality(OpenRows) >= MaxOpen
    <3>1. pc' = [pc EXCEPT ![s] = "capped"]
      BY <1>2, <2>2 DEF CheckCap
    <3> QED
      BY <1>1, <2>1, <3>1 DEF PastCap, TypeOK
  <2>3. CASE ~(Cardinality(OpenRows) >= MaxOpen)
    <3>1. PastCap' \subseteq Running'
      BY DEF PastCap, Running, Executing
    <3>2. IsFiniteSet(Running')
      <4>1. Running' \subseteq Running \cup {s}
        BY <1>2 DEF CheckCap, Running, TypeOK
      <4> QED
        BY <4>1, SetsAreFinite, OneMore
    <3>3. Cardinality(PastCap') <= Cardinality(Running')
          /\ Cardinality(PastCap') \in Nat /\ Cardinality(Running') \in Nat
      BY <3>1, <3>2, FS_Subset, FS_CardinalityType
    <3> QED
      BY <2>1, <2>3, <3>3, SetsAreFinite, ExecutionAssumption
      DEF OpenRowsBounded, SlotsRespected
  <2> QED
    BY <2>2, <2>3
<1>3. ASSUME NEW s \in Signals, CreateRow(s) PROVE OpenRowsBounded'
  <2>1. pc[s] = "create" /\ s \in PastCap /\ Current(s) \in Legs
    BY <1>3 DEF CreateRow, PastCap, Current, Legs, TypeOK
  <2>2. CASE result[s].known
    <3>1. row' = [row EXCEPT ![Current(s)] = ClosedRow(day)]
          /\ pc' = [pc EXCEPT ![s] = "close"]
      BY <1>3, <2>2 DEF CreateRow
    <3>2. OpenRows' \subseteq OpenRows
      BY <3>1, <2>1 DEF OpenRows, ClosedRow, TypeOK
    <3>3. PastCap' \subseteq PastCap
      BY <3>1, <2>1 DEF PastCap, TypeOK
    <3> QED
      BY <1>1, <3>2, <3>3
  <2>3. CASE ~result[s].known
    <3>1. row' = [row EXCEPT ![Current(s)] = OpenRow]
          /\ pc'[s] \in {"notify", "done"}
          /\ \A r \in Signals \ {s} : pc'[r] = pc[r]
      BY <1>3, <2>3 DEF CreateRow, LeaveLoop, TypeOK
    <3>2. OpenRows' \subseteq OpenRows \cup {Current(s)}
      BY <3>1, <2>1 DEF OpenRows, TypeOK
    <3>3. PastCap' = PastCap \ {s}
      BY <3>1 DEF PastCap
    <3>4. Cardinality(OpenRows') <= Cardinality(OpenRows) + 1
          /\ Cardinality(OpenRows') \in Nat
      BY <3>2, SetsAreFinite, OneMore, FS_CardinalityType
    <3>5. Cardinality(PastCap') = Cardinality(PastCap) - 1
      BY <3>3, <2>1, SetsAreFinite, FS_RemoveElement
    <3> QED
      BY <3>4, <3>5, SetsAreFinite, ExecutionAssumption DEF OpenRowsBounded
  <2> QED
    BY <2>2, <2>3
<1>4. ASSUME NEW s \in Signals,
             \/ Dispatch(s) \/ StartTask(s) \/ CheckStop(s) \/ WaitLeg(s) \/ OpenLeg(s)
             \/ Settle(s) \/ CloseRow(s) \/ NotifyStop(s) \/ Fail(s)
      PROVE  OpenRowsBounded'
  <2>1. OpenRows' \subseteq OpenRows
    <3>1. CASE CloseRow(s)
      <4>1. row' = [row EXCEPT ![Current(s)] = BookedRow(result[s].pnl, @.day)]
        BY <3>1 DEF CloseRow
      <4>2. \A k \in Legs : row'[k].status = "open" => row[k].status = "open"
        BY <4>1 DEF BookedRow, TypeOK
      <4> QED
        BY <4>2 DEF OpenRows
    <3>2. CASE UNCHANGED row
      BY <3>2 DEF OpenRows
    <3> QED
      BY <1>4, <3>1, <3>2 DEF Dispatch, StartTask, CheckStop, WaitLeg, OpenLeg, Settle,
                              NotifyStop, Fail
  <2>2. PastCap' \subseteq PastCap
    BY <1>4 DEF Dispatch, StartTask, CheckStop, WaitLeg, OpenLeg, Settle, CloseRow,
                NotifyStop, Fail, LeaveLoop, PastCap, TypeOK
  <2> QED
    BY <1>1, <2>1, <2>2
<1>5. CASE UNCHANGED <<pc, row>>
  BY <1>1, <1>5 DEF OpenRows, PastCap
<1> QED
  BY <1>2, <1>3, <1>4, <1>5 DEF Next, Step, NextDay, Quiet, vars

(***************************************************************************)
(* However many signals arrive and however many legs end without a result, *)
(* the rows left open stay below the cap plus the number of processes.     *)
(***************************************************************************)
THEOREM OpenRowsStayBounded == Spec => []OpenRowsBounded
<1>1. ASSUME Init PROVE OpenRowsBounded
  <2>1. OpenRows = {} /\ PastCap = {}
    BY <1>1 DEF Init, OpenRows, PastCap, NoRow
  <2>2. Cardinality(OpenRows) = 0 /\ Cardinality(PastCap) = 0
    BY <2>1, FS_EmptySet
  <2> QED
    BY <2>2, ExecutionAssumption DEF OpenRowsBounded
<1>2. TypeOK /\ SlotsRespected' /\ OpenRowsBounded /\ [Next]_vars => OpenRowsBounded'
  BY OpenRowsStep
<1> QED
  BY <1>1, <1>2, TypeCorrect, SlotsNeverExceeded, PTL DEF Spec
-----------------------------------------------------------------------------
(***************************************************************************)
(* Sums over finite sets, as the folds of the model compute them: the sum  *)
(* depends on no order, and compares as its terms do.  What is inductive   *)
(* is shown of the smallest set it could fail for.                         *)
(***************************************************************************)
LEMMA LeastNatural ==
    ASSUME NEW S \in SUBSET Nat, S # {}
    PROVE  \E n \in S : \A m \in S : n <= m
<1>1. PICK n \in S : \A m \in S : <<m, n>> \notin OpToRel(<, Nat)
  BY WFMin, NatLessThanWellFounded, Zenon
<1>2. \A m \in S : ~(m < n)
  BY <1>1, Zenon DEF OpToRel
<1> QED
  BY <1>2

(* Of some finite sets one has no other of them inside.                     *)
LEMMA LeastSet ==
    ASSUME NEW U, IsFiniteSet(U), NEW Bad \in SUBSET SUBSET U, Bad # {}
    PROVE  \E S \in Bad : /\ IsFiniteSet(S)
                          /\ \A T \in SUBSET S : T # S => T \notin Bad
<1>1. \A S \in Bad : IsFiniteSet(S) /\ Cardinality(S) \in Nat
  BY FS_Subset, FS_CardinalityType
<1> DEFINE Sizes == {Cardinality(S) : S \in Bad}
<1>2. Sizes \in SUBSET Nat /\ Sizes # {}
  BY <1>1
<1>3. PICK n \in Sizes : \A m \in Sizes : n <= m
  <2> HIDE DEF Sizes
  <2> QED
    BY <1>2, LeastNatural
<1>4. PICK S \in Bad : n = Cardinality(S)
  BY <1>3
<1>5. ASSUME NEW T \in SUBSET S, T # S PROVE T \notin Bad
  <2>1. Cardinality(T) < Cardinality(S) /\ Cardinality(T) \in Nat
    BY <1>1, <1>5, FS_Subset, FS_CardinalityType
  <2> QED
    BY <1>1, <1>3, <1>4, <2>1
<1> QED
  BY <1>1, <1>4, <1>5

Pick(T) == CHOOSE x \in T : TRUE

Unrolls(iter, f, S) ==
    iter = [T \in SUBSET S |-> IF T = {} THEN 0 ELSE f[Pick(T)] + iter[T \ {Pick(T)}]]

Sum(f, S) == (CHOOSE iter : Unrolls(iter, f, S))[S]

(* The sums of the model are these.                                         *)
LEMMA RowSum ==
    ASSUME NEW rows, NEW S
    PROVE  MapThenSumSet(LAMBDA k : rows[k].pnl, S) = Sum([k \in S |-> rows[k].pnl], S)
<1> DEFINE Folds(iter) ==
             iter = [T \in SUBSET S |->
                        IF T = {} THEN 0
                        ELSE rows[CHOOSE x \in T : TRUE].pnl
                                 + iter[T \ {CHOOSE x \in T : TRUE}]]
           f == [k \in S |-> rows[k].pnl]
<1>1. MapThenSumSet(LAMBDA k : rows[k].pnl, S) = (CHOOSE iter : Folds(iter))[S]
  BY DEF MapThenSumSet, MapThenFoldSet
<1>2. ASSUME NEW iter PROVE Folds(iter) <=> Unrolls(iter, f, S)
  <2>1. \A T \in SUBSET S : T # {} =>
          rows[CHOOSE x \in T : TRUE].pnl = f[CHOOSE x \in T : TRUE]
    OBVIOUS
  <2> HIDE DEF f
  <2> QED
    BY <2>1 DEF Unrolls, Pick
<1>3. Sum(f, S) = (CHOOSE iter : Unrolls(iter, f, S))[S]
  BY DEF Sum
<1> HIDE DEF Folds, f
<1>4. (CHOOSE iter : Folds(iter)) = (CHOOSE iter : Unrolls(iter, f, S))
  BY <1>2
<1> QED
  BY <1>1, <1>3, <1>4 DEF f

LEMMA StakeSum ==
    ASSUME NEW S
    PROVE  MapThenSumSet(WorstStake, S) = Sum([l \in S |-> WorstStake(l)], S)
<1> DEFINE Folds(iter) ==
             iter = [T \in SUBSET S |->
                        IF T = {} THEN 0
                        ELSE WorstStake(CHOOSE x \in T : TRUE)
                                 + iter[T \ {CHOOSE x \in T : TRUE}]]
           f == [l \in S |-> WorstStake(l)]
<1>1. MapThenSumSet(WorstStake, S) = (CHOOSE iter : Folds(iter))[S]
  BY DEF MapThenSumSet, MapThenFoldSet
<1>2. ASSUME NEW iter PROVE Folds(iter) <=> Unrolls(iter, f, S)
  <2>1. \A T \in SUBSET S : T # {} =>
          WorstStake(CHOOSE x \in T : TRUE) = f[CHOOSE x \in T : TRUE]
    OBVIOUS
  <2> HIDE DEF f
  <2> QED
    BY <2>1 DEF Unrolls, Pick
<1>3. Sum(f, S) = (CHOOSE iter : Unrolls(iter, f, S))[S]
  BY DEF Sum
<1> HIDE DEF Folds, f
<1>4. (CHOOSE iter : Folds(iter)) = (CHOOSE iter : Unrolls(iter, f, S))
  BY <1>2
<1> QED
  BY <1>1, <1>3, <1>4 DEF f

(* Two unrollings agree on the sets they share.                             *)
LEMMA UnrollsOnce ==
    ASSUME NEW f, NEW S, IsFiniteSet(S), NEW R \in SUBSET S,
           NEW g, Unrolls(g, f, S), NEW h, Unrolls(h, f, R)
    PROVE  \A T \in SUBSET R : g[T] = h[T]
<1> DEFINE Bad == {T \in SUBSET R : g[T] # h[T]}
<1>1. Bad = {}
  <2> SUFFICES ASSUME Bad # {} PROVE FALSE
    OBVIOUS
  <2>1. IsFiniteSet(R) /\ Bad \in SUBSET SUBSET R
    BY FS_Subset
  <2>2. PICK T \in Bad : \A V \in SUBSET T : V # T => V \notin Bad
    <3> HIDE DEF Bad
    <3> QED
      BY <2>1, LeastSet
  <2>3. T \in SUBSET R /\ T \in SUBSET S
    OBVIOUS
  <2>4. CASE T = {}
    <3>1. g[T] = 0 /\ h[T] = 0
      BY <2>3, <2>4 DEF Unrolls
    <3> QED
      BY <2>2, <3>1
  <2>5. CASE T # {}
    <3>1. Pick(T) \in T
      BY <2>5 DEF Pick
    <3>2. T \ {Pick(T)} \in SUBSET T /\ T \ {Pick(T)} # T
      BY <3>1
    <3>3. g[T \ {Pick(T)}] = h[T \ {Pick(T)}]
      BY <2>2, <2>3, <3>2
    <3>4. /\ g[T] = f[Pick(T)] + g[T \ {Pick(T)}]
          /\ h[T] = f[Pick(T)] + h[T \ {Pick(T)}]
      BY <2>3, <2>5 DEF Unrolls
    <3> QED
      BY <2>2, <3>3, <3>4
  <2> QED
    BY <2>4, <2>5
<1> QED
  BY <1>1

(* The sum of a set is a term and the sum of the rest.                      *)
LEMMA SumUnrolls ==
    ASSUME NEW f, NEW S, IsFiniteSet(S)
    PROVE  Sum(f, S) = IF S = {} THEN 0 ELSE f[Pick(S)] + Sum(f, S \ {Pick(S)})
<1> DEFINE Rest(T) == IF T = {} THEN 0 ELSE f[Pick(T)] + Sum(f, T \ {Pick(T)})
           Sums(T) == [V \in SUBSET T |-> Sum(f, V)]
           Bad == {T \in SUBSET S : ~Unrolls(Sums(T), f, T)}
<1>1. Bad = {}
  <2> SUFFICES ASSUME Bad # {} PROVE FALSE
    OBVIOUS
  <2>1. Bad \in SUBSET SUBSET S
    OBVIOUS
  <2>2. PICK T \in Bad : IsFiniteSet(T) /\ \A V \in SUBSET T : V # T => V \notin Bad
    <3> HIDE DEF Bad
    <3> QED
      BY <2>1, LeastSet
  <2>3. \A V \in SUBSET T : V # T => Unrolls(Sums(V), f, V)
    BY <2>2
  <2>4. T # {} => Pick(T) \in T
    BY DEF Pick
  <2> DEFINE whole == [V \in SUBSET T |-> IF V = T THEN Rest(T) ELSE Sum(f, V)]
  <2>5. ASSUME NEW V \in SUBSET T, V # T PROVE Sum(f, V) = Rest(V)
    <3>1. Unrolls(Sums(V), f, V)
      BY <2>3, <2>5
    <3>2. V # {} => Pick(V) \in V
      BY DEF Pick
    <3>3. V \in SUBSET V /\ (V # {} => V \ {Pick(V)} \in SUBSET V)
      OBVIOUS
    <3>4. Sums(V)[V] = IF V = {} THEN 0 ELSE f[Pick(V)] + Sums(V)[V \ {Pick(V)}]
      <4> HIDE DEF Sums
      <4> QED
        BY <3>1, <3>3 DEF Unrolls
    <3> QED
      BY <3>3, <3>4
  <2>6. Unrolls(whole, f, T)
    <3>1. ASSUME NEW V \in SUBSET T
          PROVE  whole[V] = IF V = {} THEN 0 ELSE f[Pick(V)] + whole[V \ {Pick(V)}]
      <4>1. V # {} => Pick(V) \in V
        BY DEF Pick
      <4>2. V # {} => V \ {Pick(V)} \in SUBSET T /\ V \ {Pick(V)} # T
        BY <4>1
      <4>3. whole[V] = Rest(V)
        BY <2>5
      <4>4. V # {} => whole[V \ {Pick(V)}] = Sum(f, V \ {Pick(V)})
        BY <4>2
      <4> HIDE DEF whole
      <4> QED
        BY <4>3, <4>4
    <3>2. whole = [V \in SUBSET T |-> whole[V]]
      OBVIOUS
    <3> HIDE DEF whole
    <3> QED
      BY <3>1, <3>2 DEF Unrolls
  <2> DEFINE chosen == CHOOSE iter : Unrolls(iter, f, T)
  <2>7. Unrolls(chosen, f, T)
    <3> HIDE DEF whole
    <3> QED
      BY <2>6
  <2>8. Sum(f, T) = whole[T]
    <3>1. \A V \in SUBSET T : chosen[V] = whole[V]
      <4> HIDE DEF whole, chosen
      <4> QED
        BY <2>2, <2>6, <2>7, UnrollsOnce
    <3>2. Sum(f, T) = chosen[T]
      BY DEF Sum
    <3> HIDE DEF whole, chosen
    <3> QED
      BY <3>1, <3>2
  <2>9. Sums(T) = whole
    BY <2>8
  <2> QED
    BY <2>2, <2>6, <2>9
<1>2. Unrolls(Sums(S), f, S)
  BY <1>1
<1>3. S # {} => S \ {Pick(S)} \in SUBSET S
  OBVIOUS
<1>4. Sums(S)[S] = IF S = {} THEN 0 ELSE f[Pick(S)] + Sums(S)[S \ {Pick(S)}]
  <2> HIDE DEF Sums
  <2> QED
    BY <1>2 DEF Unrolls
<1> QED
  BY <1>3, <1>4

LEMMA SumType ==
    ASSUME NEW f, NEW S, IsFiniteSet(S), \A x \in S : f[x] \in Int
    PROVE  Sum(f, S) \in Int
<1> DEFINE Bad == {T \in SUBSET S : Sum(f, T) \notin Int}
<1>1. Bad = {}
  <2> SUFFICES ASSUME Bad # {} PROVE FALSE
    OBVIOUS
  <2>1. Bad \in SUBSET SUBSET S
    OBVIOUS
  <2>2. PICK T \in Bad : IsFiniteSet(T) /\ \A V \in SUBSET T : V # T => V \notin Bad
    <3> HIDE DEF Bad
    <3> QED
      BY <2>1, LeastSet
  <2>3. T # {} => Pick(T) \in T /\ f[Pick(T)] \in Int
    BY DEF Pick
  <2>4. T # {} => Sum(f, T \ {Pick(T)}) \in Int
    BY <2>2, <2>3
  <2>5. Sum(f, T) \in Int
    BY <2>2, <2>3, <2>4, SumUnrolls
  <2> QED
    BY <2>2, <2>5
<1> QED
  BY <1>1

(* Any term may be the one taken out.                                       *)
LEMMA SumRemoves ==
    ASSUME NEW f, NEW S, IsFiniteSet(S), \A x \in S : f[x] \in Int, NEW x \in S
    PROVE  Sum(f, S) = f[x] + Sum(f, S \ {x})
<1> DEFINE Bad == {T \in SUBSET S : \E y \in T : Sum(f, T) # f[y] + Sum(f, T \ {y})}
<1>1. Bad = {}
  <2> SUFFICES ASSUME Bad # {} PROVE FALSE
    OBVIOUS
  <2>1. Bad \in SUBSET SUBSET S
    OBVIOUS
  <2>2. PICK T \in Bad : IsFiniteSet(T) /\ \A V \in SUBSET T : V # T => V \notin Bad
    <3> HIDE DEF Bad
    <3> QED
      BY <2>1, LeastSet
  <2>3. PICK y \in T : Sum(f, T) # f[y] + Sum(f, T \ {y})
    BY <2>2
  <2> DEFINE c == Pick(T)
             both == T \ {c, y}
  <2>4. c \in T
    BY <2>3 DEF Pick
  <2>5. Sum(f, T) = f[c] + Sum(f, T \ {c})
    BY <2>2, <2>3, SumUnrolls
  <2>6. c # y
    BY <2>3, <2>5
  <2>7. T \ {c} \notin Bad /\ T \ {y} \notin Bad
    BY <2>2, <2>3, <2>4
  <2>8. Sum(f, T \ {c}) = f[y] + Sum(f, both)
    <3>1. y \in T \ {c} /\ T \ {c} \in SUBSET S /\ (T \ {c}) \ {y} = both
      BY <2>3, <2>6
    <3> HIDE DEF c, both
    <3> QED
      BY <2>7, <3>1
  <2>9. Sum(f, T \ {y}) = f[c] + Sum(f, both)
    <3>1. c \in T \ {y} /\ T \ {y} \in SUBSET S /\ (T \ {y}) \ {c} = both
      BY <2>4, <2>6
    <3> HIDE DEF c, both
    <3> QED
      BY <2>7, <3>1
  <2>10. f[c] \in Int /\ f[y] \in Int /\ Sum(f, both) \in Int
    <3>1. IsFiniteSet(both) /\ \A z \in both : f[z] \in Int
      BY <2>2, FS_Subset
    <3> QED
      BY <2>3, <2>4, <3>1, SumType
  <2> HIDE DEF c, both
  <2> QED
    BY <2>3, <2>5, <2>8, <2>9, <2>10
<1>2. S \notin Bad
  BY <1>1
<1> QED
  BY <1>2

(* Sums compare as their terms do.                                          *)
LEMMA SumCompares ==
    ASSUME NEW S, IsFiniteSet(S), NEW f, NEW g,
           \A x \in S : f[x] \in Int /\ g[x] \in Int /\ f[x] <= g[x]
    PROVE  Sum(f, S) <= Sum(g, S)
<1> DEFINE Bad == {T \in SUBSET S : ~(Sum(f, T) <= Sum(g, T))}
<1>1. Bad = {}
  <2> SUFFICES ASSUME Bad # {} PROVE FALSE
    OBVIOUS
  <2>1. Bad \in SUBSET SUBSET S
    OBVIOUS
  <2>2. PICK T \in Bad : IsFiniteSet(T) /\ \A V \in SUBSET T : V # T => V \notin Bad
    <3> HIDE DEF Bad
    <3> QED
      BY <2>1, LeastSet
  <2>3. CASE T = {}
    <3>1. Sum(f, T) = 0 /\ Sum(g, T) = 0
      BY <2>2, <2>3, SumUnrolls
    <3> QED
      BY <2>2, <3>1
  <2>4. CASE T # {}
    <3>1. PICK x \in T : TRUE
      BY <2>4
    <3>2. Sum(f, T \ {x}) <= Sum(g, T \ {x})
      BY <2>2, <3>1
    <3>3. Sum(f, T) = f[x] + Sum(f, T \ {x}) /\ Sum(g, T) = g[x] + Sum(g, T \ {x})
      BY <2>2, SumRemoves
    <3>4. Sum(f, T \ {x}) \in Int /\ Sum(g, T \ {x}) \in Int
      BY <2>2, SumType, FS_Subset
    <3>5. f[x] \in Int /\ g[x] \in Int /\ f[x] <= g[x]
      BY <2>2
    <3> QED
      BY <2>2, <3>2, <3>3, <3>4, <3>5
  <2> QED
    BY <2>3, <2>4
<1> QED
  BY <1>1

LEMMA SumAgrees ==
    ASSUME NEW S, IsFiniteSet(S), NEW f, NEW g, \A x \in S : f[x] \in Int /\ g[x] = f[x]
    PROVE  Sum(f, S) = Sum(g, S)
<1>1. Sum(f, S) <= Sum(g, S) /\ Sum(g, S) <= Sum(f, S)
  BY SumCompares
<1>2. Sum(f, S) \in Int /\ Sum(g, S) \in Int
  BY SumType
<1> QED
  BY <1>1, <1>2

(* One term changes.                                                        *)
LEMMA SumChanges ==
    ASSUME NEW S, IsFiniteSet(S), NEW x \in S, NEW f, NEW g,
           \A y \in S : f[y] \in Int /\ g[y] \in Int,
           \A y \in S \ {x} : g[y] = f[y]
    PROVE  Sum(g, S) - g[x] = Sum(f, S) - f[x]
<1>1. IsFiniteSet(S \ {x})
  BY FS_Subset
<1>2. Sum(f, S \ {x}) = Sum(g, S \ {x})
  BY <1>1, SumAgrees
<1>3. Sum(f, S) = f[x] + Sum(f, S \ {x}) /\ Sum(g, S) = g[x] + Sum(g, S \ {x})
  BY SumRemoves
<1>4. Sum(f, S \ {x}) \in Int /\ f[x] \in Int /\ g[x] \in Int
  BY <1>1, SumType
<1> QED
  BY <1>2, <1>3, <1>4

(* Terms that are not negative only add.                                    *)
LEMMA SumGrows ==
    ASSUME NEW S, IsFiniteSet(S), NEW f, \A x \in S : f[x] \in Nat, NEW R \in SUBSET S
    PROVE  Sum(f, R) <= Sum(f, S)
<1> DEFINE Bad == {T \in SUBSET S : R \subseteq T /\ ~(Sum(f, R) <= Sum(f, T))}
<1>1. Bad = {}
  <2> SUFFICES ASSUME Bad # {} PROVE FALSE
    OBVIOUS
  <2>1. Bad \in SUBSET SUBSET S
    OBVIOUS
  <2>2. PICK T \in Bad : IsFiniteSet(T) /\ \A V \in SUBSET T : V # T => V \notin Bad
    <3> HIDE DEF Bad
    <3> QED
      BY <2>1, LeastSet
  <2>3. IsFiniteSet(R) /\ Sum(f, R) \in Int
    BY FS_Subset, SumType
  <2>4. CASE T = R
    BY <2>2, <2>3, <2>4
  <2>5. CASE T # R
    <3>1. PICK x \in T : x \notin R
      BY <2>2, <2>5
    <3>2. Sum(f, R) <= Sum(f, T \ {x})
      BY <2>2, <3>1
    <3>3. Sum(f, T) = f[x] + Sum(f, T \ {x})
      BY <2>2, SumRemoves
    <3>4. Sum(f, T \ {x}) \in Int
      BY <2>2, SumType, FS_Subset
    <3>5. f[x] \in Nat
      BY <2>2
    <3> QED
      BY <2>2, <2>3, <3>2, <3>3, <3>4, <3>5
  <2> QED
    BY <2>4, <2>5
<1>2. S \notin Bad
  BY <1>1
<1> QED
  BY <1>2

(* A sum is no more than its greatest term, as often as there are terms.    *)
LEMMA SumBounded ==
    ASSUME NEW S, IsFiniteSet(S), NEW R \in SUBSET S, NEW b \in Nat, NEW f,
           \A x \in R : f[x] \in Int /\ f[x] <= b,
           \A x \in S \ R : f[x] = 0
    PROVE  Sum(f, S) <= Cardinality(R) * b
<1> DEFINE Bad == {T \in SUBSET S : ~(Sum(f, T) <= Cardinality(R \cap T) * b)}
<1>1. Bad = {}
  <2> SUFFICES ASSUME Bad # {} PROVE FALSE
    OBVIOUS
  <2>1. Bad \in SUBSET SUBSET S
    OBVIOUS
  <2>2. PICK T \in Bad : IsFiniteSet(T) /\ \A V \in SUBSET T : V # T => V \notin Bad
    <3> HIDE DEF Bad
    <3> QED
      BY <2>1, LeastSet
  <2>3. CASE T = {}
    <3>1. Sum(f, T) = 0 /\ Cardinality(R \cap T) = 0
      BY <2>2, <2>3, SumUnrolls, FS_EmptySet
    <3> QED
      BY <2>2, <3>1
  <2>4. CASE T # {}
    <3>1. PICK x \in T : TRUE
      BY <2>4
    <3> DEFINE n == Cardinality(R \cap T)
               m == Cardinality(R \cap (T \ {x}))
    <3>2. Sum(f, T \ {x}) <= m * b
      BY <2>2, <3>1
    <3>3. \A y \in S : f[y] \in Int
      OBVIOUS
    <3>4. Sum(f, T) = f[x] + Sum(f, T \ {x})
      BY <2>2, <3>3, SumRemoves
    <3>5. Sum(f, T \ {x}) \in Int
      BY <2>2, <3>3, SumType, FS_Subset
    <3>6. IsFiniteSet(R \cap T) /\ m \in Nat /\ n \in Nat
      BY <2>2, FS_Subset, FS_CardinalityType
    <3>7. f[x] <= (n - m) * b
      <4>1. CASE x \in R
        <5>1. R \cap (T \ {x}) = (R \cap T) \ {x} /\ x \in R \cap T
          BY <4>1
        <5>2. Cardinality((R \cap T) \ {x}) = n - 1
          BY <3>6, <5>1, FS_RemoveElement
        <5>3. (n - m) * b = b
          <6>1. m = n - 1
            BY <5>1, <5>2
          <6> HIDE DEF n, m
          <6> QED
            BY <3>6, <6>1
        <5> QED
          BY <4>1, <5>3
      <4>2. CASE x \notin R
        <5>1. R \cap (T \ {x}) = R \cap T
          BY <4>2
        <5>2. n = m
          BY <5>1
        <5>3. f[x] = 0
          BY <2>2, <4>2
        <5>4. (n - m) * b = 0
          <6> HIDE DEF n, m
          <6> QED
            BY <3>6, <5>2
        <5> QED
          BY <5>3, <5>4
      <4> QED
        BY <4>1, <4>2
    <3>8. (n - m) * b + m * b = n * b /\ n * b \in Int /\ m * b \in Int
          /\ (n - m) * b \in Int
      BY <3>6
    <3>9. ~(Sum(f, T) <= n * b)
      BY <2>2
    <3>10. f[x] \in Int
      BY <2>2, <3>3
    <3> HIDE DEF n, m
    <3> QED
      BY <3>2, <3>4, <3>5, <3>7, <3>8, <3>9, <3>10
  <2> QED
    BY <2>3, <2>4
<1>2. S \notin Bad /\ R \cap S = R
  BY <1>1
<1> QED
  BY <1>2

LEMMA GreatestExists ==
    ASSUME NEW S \in SUBSET Int, IsFiniteSet(S), S # {}
    PROVE  Max(S) \in S /\ \A x \in S : x <= Max(S)
<1> DEFINE Bad == {T \in SUBSET S : T # {} /\ ~\E x \in T : \A y \in T : x >= y}
<1>1. Bad = {}
  <2> SUFFICES ASSUME Bad # {} PROVE FALSE
    OBVIOUS
  <2>1. Bad \in SUBSET SUBSET S
    OBVIOUS
  <2>2. PICK T \in Bad : IsFiniteSet(T) /\ \A V \in SUBSET T : V # T => V \notin Bad
    <3> HIDE DEF Bad
    <3> QED
      BY <2>1, LeastSet
  <2>3. PICK x \in T : TRUE
    BY <2>2
  <2>4. CASE T = {x}
    BY <2>2, <2>4
  <2>5. CASE T # {x}
    <3>1. PICK z \in T \ {x} : \A y \in T \ {x} : z >= y
      <4>1. T \ {x} \in SUBSET T /\ T \ {x} # T /\ T \ {x} # {}
        BY <2>3, <2>5
      <4>2. T \ {x} \notin Bad
        BY <2>2, <4>1
      <4>3. T \ {x} \in SUBSET S
        OBVIOUS
      <4> QED
        BY <4>1, <4>2, <4>3
    <3>2. \E w \in T : \A y \in T : w >= y
      <4>1. CASE z >= x
        BY <3>1, <4>1
      <4>2. CASE x >= z
        <5>1. \A y \in T : x >= y
          BY <3>1, <4>2
        <5> QED
          BY <5>1
      <4> QED
        BY <3>1, <4>1, <4>2
    <3> QED
      BY <2>2, <3>2
  <2> QED
    BY <2>4, <2>5
<1>2. \E x \in S : \A y \in S : x >= y
  BY <1>1
<1>3. Max(S) = CHOOSE x \in S : \A y \in S : x >= y
  BY DEF Max
<1>4. Max(S) \in S /\ \A y \in S : Max(S) >= y
  BY <1>2, <1>3
<1> QED
  BY <1>4

-----------------------------------------------------------------------------
(***************************************************************************)
(* The loss of a day.  What keeps it bounded while several sequences run   *)
(* is not the booked loss but the booked loss and what the sequences that  *)
(* passed the stop may still lose: a leg moves its stake from the one to   *)
(* the other, and only passing the stop adds to the sum.                   *)
(***************************************************************************)
Worst == [l \in Levels |-> WorstStake(l)]

LEMMA StakesAreAmounts ==
    /\ \A l \in Levels : Worst[l] = WorstStake(l) /\ WorstStake(l) \in Nat
    /\ \A l \in Levels, base \in BaseStakes :
         StakeForLevel(base, Martingale, l) \in Nat
           /\ StakeForLevel(base, Martingale, l) <= WorstStake(l)
<1>1. \A l \in Levels, base \in BaseStakes : StakeForLevel(base, Martingale, l) \in Nat
  BY StakeAssumption DEF Levels
<1>2. ASSUME NEW a \in Nat, NEW b \in Nat
      PROVE  Greatest(a, b) \in Nat /\ a <= Greatest(a, b) /\ b <= Greatest(a, b)
  BY <1>2 DEF Greatest
<1> QED
  BY <1>1, <1>2 DEF Worst, WorstStake, BaseStakes

(* The worst cycle of all is an amount, and no signal's is worse.           *)
LEMMA CyclesAreBounded ==
    /\ WorstOfAll \in Nat
    /\ \A s \in Signals : Sum(Worst, Start[s]..Prot[s]) <= WorstOfAll
<1>1. MaxLevel \in Nat
  BY ExecutionAssumption
<1> DEFINE cycles == {0} \cup {WorstCycle(r) : r \in Signals}
<1>2. \A r \in Signals : WorstCycle(r) = Sum(Worst, Start[r]..Prot[r])
                         /\ WorstCycle(r) \in Int
  <2> SUFFICES ASSUME NEW r \in Signals
               PROVE  WorstCycle(r) = Sum(Worst, Start[r]..Prot[r]) /\ WorstCycle(r) \in Int
    OBVIOUS
  <2> DEFINE legs == Start[r]..Prot[r]
             terms == [l \in legs |-> WorstStake(l)]
  <2>1. WorstCycle(r) = Sum(terms, legs)
    BY StakeSum DEF WorstCycle
  <2>2. IsFiniteSet(legs) /\ legs \subseteq Levels
    <3>1. /\ Start[r] \in Int /\ Start[r] >= 0
          /\ Prot[r] \in Int /\ Prot[r] <= MaxLevel
      BY ExecutionAssumption
    <3>2. IsFiniteSet(legs)
      BY <3>1, FS_Interval
    <3> QED
      BY <3>1, <3>2, <1>1 DEF Levels
  <2>3. \A l \in legs : terms[l] \in Int /\ Worst[l] = terms[l]
    BY <2>2, StakesAreAmounts
  <2> HIDE DEF terms, legs
  <2>4. Sum(terms, legs) = Sum(Worst, legs) /\ Sum(terms, legs) \in Int
    BY <2>2, <2>3, SumAgrees, SumType
  <2> QED
    BY <2>1, <2>4 DEF legs
<1>3. WorstOfAll \in cycles /\ \A x \in cycles : x <= WorstOfAll
  <2>1. IsFiniteSet({WorstCycle(r) : r \in Signals})
    <3> DEFINE cycle == [r \in Signals |-> WorstCycle(r)]
               all == {WorstCycle(r) : r \in Signals}
    <3>1. cycle \in Surjection(Signals, all)
      BY DEF Surjection
    <3>2. IsFiniteSet(Signals)
      BY ExecutionAssumption
    <3> HIDE DEF cycle, all
    <3>3. IsFiniteSet(all)
      BY <3>1, <3>2, FS_Surjection
    <3> QED
      BY <3>3 DEF all
  <2>2. IsFiniteSet(cycles)
    BY <2>1, FS_Singleton, FS_Union
  <2>3. cycles \in SUBSET Int /\ cycles # {}
    BY <1>2
  <2>4. WorstOfAll = Max(cycles)
    BY DEF WorstOfAll
  <2> HIDE DEF cycles
  <2> QED
    BY <2>2, <2>3, <2>4, GreatestExists
<1> QED
  BY <1>2, <1>3

(* What the levels from n on may lose: less with each level, and within the *)
(* worst cycle of all.                                                      *)
LEMMA StakesLeft ==
    ASSUME NEW s \in Signals, NEW n \in Nat
    PROVE  /\ Sum(Worst, n..Prot[s]) \in Nat /\ Sum(Worst, (n + 1)..Prot[s]) \in Nat
           /\ n <= Prot[s] => Sum(Worst, n..Prot[s])
                                = WorstStake(n) + Sum(Worst, (n + 1)..Prot[s])
           /\ n <= Prot[s] => WorstStake(n) <= Sum(Worst, n..Prot[s])
           /\ Start[s] <= n => Sum(Worst, n..Prot[s]) <= WorstOfAll
           /\ WorstOfAll \in Nat
<1>1. /\ Prot[s] \in Levels /\ Start[s] \in Levels /\ Levels \subseteq Nat /\ MaxLevel \in Nat
      /\ Prot[s] \in Int /\ Start[s] \in Int /\ Start[s] >= 0 /\ Prot[s] <= MaxLevel
  BY ExecutionAssumption DEF Levels
<1>2. ASSUME NEW m \in Nat
      PROVE  /\ IsFiniteSet(m..Prot[s]) /\ m..Prot[s] \subseteq Levels
             /\ \A l \in m..Prot[s] : Worst[l] \in Nat
             /\ Sum(Worst, m..Prot[s]) \in Nat
  <2>1. IsFiniteSet(m..Prot[s])
    <3>1. m \in Int /\ Prot[s] \in Int
      BY <1>1
    <3> QED
      BY <3>1, FS_Interval
  <2>2. m..Prot[s] \subseteq Levels
    BY <1>1 DEF Levels
  <2>3. \A l \in m..Prot[s] : Worst[l] \in Nat
    BY <2>2, StakesAreAmounts
  <2>4. Sum(Worst, m..Prot[s]) \in Int
    <3>1. \A l \in m..Prot[s] : Worst[l] \in Int
      BY <2>3
    <3> HIDE DEF Worst
    <3> QED
      BY <2>1, <3>1, SumType
  <2>5. Sum(Worst, {}) <= Sum(Worst, m..Prot[s])
    BY <2>1, <2>3, SumGrows
  <2>6. Sum(Worst, {}) = 0
    BY SumUnrolls, FS_EmptySet
  <2> QED
    BY <2>1, <2>2, <2>3, <2>4, <2>5, <2>6
<1>3. ASSUME n <= Prot[s]
      PROVE  Sum(Worst, n..Prot[s]) = WorstStake(n) + Sum(Worst, (n + 1)..Prot[s])
  <2>1. n \in n..Prot[s] /\ (n..Prot[s]) \ {n} = (n + 1)..Prot[s]
    BY <1>1, <1>3
  <2>2. Sum(Worst, n..Prot[s]) = Worst[n] + Sum(Worst, (n + 1)..Prot[s])
    <3>1. IsFiniteSet(n..Prot[s]) /\ \A l \in n..Prot[s] : Worst[l] \in Int
      BY <1>2
    <3>2. Sum(Worst, n..Prot[s]) = Worst[n] + Sum(Worst, (n..Prot[s]) \ {n})
      <4> DEFINE legs == n..Prot[s]
      <4>1. IsFiniteSet(legs) /\ n \in legs /\ \A l \in legs : Worst[l] \in Int
        BY <2>1, <3>1
      <4> HIDE DEF legs
      <4>2. Sum(Worst, legs) = Worst[n] + Sum(Worst, legs \ {n})
        <5>1. \A l \in legs : Sum(Worst, legs) = Worst[l] + Sum(Worst, legs \ {l})
          BY <4>1, SumRemoves
        <5> QED
          BY <4>1, <5>1, Zenon
      <4> QED
        BY <4>2 DEF legs
    <3> QED
      BY <2>1, <3>2
  <2>3. Worst[n] = WorstStake(n)
    BY <1>2, <2>1, StakesAreAmounts
  <2> QED
    BY <2>2, <2>3
<1>4. WorstOfAll \in Nat
  BY CyclesAreBounded
<1>5. WorstStake(n) \in Nat \/ ~(n <= Prot[s])
  BY <1>1, StakesAreAmounts DEF Levels
<1>6. Sum(Worst, (n + 1)..Prot[s]) \in Nat
  <2>1. n + 1 \in Nat
    OBVIOUS
  <2> QED
    BY <1>2, <2>1
<1>7. n <= Prot[s] => WorstStake(n) <= Sum(Worst, n..Prot[s])
  BY <1>3, <1>5, <1>6
<1>8. ASSUME Start[s] <= n PROVE Sum(Worst, n..Prot[s]) <= WorstOfAll
  <2>1. n..Prot[s] \in SUBSET (Start[s]..Prot[s]) /\ Start[s] \in Nat
    <3>1. \A l \in n..Prot[s] : l \in Start[s]..Prot[s]
      BY <1>1, <1>8
    <3> QED
      BY <1>1, <3>1
  <2>2. Sum(Worst, n..Prot[s]) <= Sum(Worst, Start[s]..Prot[s])
    BY <1>2, <2>1, SumGrows
  <2>3. Sum(Worst, Start[s]..Prot[s]) <= WorstOfAll
    BY CyclesAreBounded
  <2> QED
    BY <1>2, <1>4, <2>1, <2>2, <2>3
<1> QED
  BY <1>2, <1>3, <1>4, <1>6, <1>7, <1>8

(***************************************************************************)
(* What a leg brings is no worse than the stake of its level, and nothing  *)
(* is dated after today.                                                   *)
(***************************************************************************)
MoneyInv ==
    /\ \A k \in Legs : row[k].day <= day
    /\ \A s \in Signals :
         /\ pc[s] = "settle" => stake[s] \in Nat /\ stake[s] <= WorstStake(level[s])
         /\ pc[s] \in {"create", "close"} => result[s].pnl >= -WorstStake(level[s])

LEMMA OutcomesAreBounded ==
    ASSUME NEW a \in Nat, NEW v \in Outcomes(a)
    PROVE  v \in Int /\ v >= -a
<1>1. a * PayoutPct \in Nat
  BY StakeAssumption
<1>2. ASSUME NEW n \in Nat PROVE n \div 100 \in Nat
  BY <1>2
<1>3. (a * PayoutPct) \div 100 \in Nat
  BY <1>1, <1>2
<1> QED
  BY <1>3 DEF Outcomes

LEMMA MoneyStep ==
    ASSUME TypeOK, MoneyInv, [Next]_vars
    PROVE  MoneyInv'
<1> USE DEF leg, book, stop, Goto
<1>1. \A s \in Signals : level[s] \in Levels /\ WorstStake(level[s]) \in Nat
  BY StakesAreAmounts DEF TypeOK
<1>2. ASSUME NEW s \in Signals,
             \/ Dispatch(s) \/ StartTask(s) \/ CheckStop(s) \/ CheckCap(s)
             \/ WaitLeg(s) \/ NotifyStop(s) \/ Fail(s)
      PROVE  MoneyInv'
  <2>1. /\ UNCHANGED <<day, level, stake, result, row>>
        /\ \A r \in Signals \ {s} : pc'[r] = pc[r]
        /\ pc'[s] \notin {"settle", "create", "close"}
    BY <1>2 DEF Dispatch, StartTask, CheckStop, CheckCap, WaitLeg, LeaveLoop, NotifyStop,
                Fail, TypeOK
  <2> QED
    BY <2>1 DEF MoneyInv
<1>3. ASSUME NEW s \in Signals, OpenLeg(s) PROVE MoneyInv'
  <2>1. /\ UNCHANGED <<day, level, result, row>>
        /\ \A r \in Signals \ {s} : pc'[r] = pc[r] /\ stake'[r] = stake[r]
        /\ pc'[s] \notin {"create", "close"}
    BY <1>3 DEF OpenLeg, LeaveLoop, TypeOK
  <2>2. pc'[s] = "settle" => \E base \in BaseStakes :
                                stake'[s] = StakeForLevel(base, Martingale, level[s])
    BY <1>3 DEF OpenLeg, LeaveLoop, TypeOK
  <2>3. pc'[s] = "settle" => stake'[s] \in Nat /\ stake'[s] <= WorstStake(level[s])
    BY <1>1, <2>2, StakesAreAmounts
  <2> QED
    BY <2>1, <2>3 DEF MoneyInv
<1>4. ASSUME NEW s \in Signals, Settle(s) PROVE MoneyInv'
  <2>1. /\ UNCHANGED <<day, level, row>> /\ pc[s] = "settle" /\ pc'[s] = "create"
        /\ \A r \in Signals \ {s} :
             pc'[r] = pc[r] /\ stake'[r] = stake[r] /\ result'[r] = result[r]
    BY <1>4 DEF Settle, TypeOK
  <2>2. stake[s] \in Nat /\ stake[s] <= WorstStake(level[s])
    BY <2>1 DEF MoneyInv
  <2>3. PICK res \in {Pnl(v) : v \in Outcomes(stake[s])} \cup {NoPnl} : result'[s] = res
    BY <1>4 DEF Settle, TypeOK
  <2>4. res.pnl \in Int /\ res.pnl >= -stake[s]
    BY <2>2, <2>3, OutcomesAreBounded DEF Pnl, NoPnl
  <2>5. result'[s].pnl >= -WorstStake(level[s])
    BY <1>1, <2>2, <2>3, <2>4
  <2> QED
    BY <2>1, <2>5 DEF MoneyInv
<1>5. ASSUME NEW s \in Signals, CreateRow(s) PROVE MoneyInv'
  <2>1. /\ UNCHANGED <<day, level, stake, result>> /\ pc[s] = "create"
        /\ pc'[s] # "settle"
        /\ \A r \in Signals \ {s} : pc'[r] = pc[r]
    BY <1>5 DEF CreateRow, LeaveLoop, TypeOK
  <2>2. \A k \in Legs : row'[k].day \in {row[k].day, day, 0}
    <3>1. Current(s) \in Legs
      BY DEF Current, Legs, TypeOK
    <3>2. /\ row'[Current(s)] \in {ClosedRow(day), OpenRow}
          /\ \A k \in Legs \ {Current(s)} : row'[k] = row[k]
      BY <1>5, <3>1 DEF CreateRow, TypeOK
    <3>3. row'[Current(s)].day \in {day, 0}
      BY <3>2 DEF ClosedRow, OpenRow
    <3> QED
      BY <3>2, <3>3
  <2>3. \A k \in Legs : row'[k].day <= day
    BY <2>2 DEF MoneyInv, TypeOK, Days
  <2> QED
    BY <2>1, <2>3 DEF MoneyInv
<1>6. ASSUME NEW s \in Signals, CloseRow(s) PROVE MoneyInv'
  <2>1. /\ UNCHANGED <<day, stake>>
        /\ pc'[s] \notin {"settle", "create", "close"}
        /\ \A r \in Signals \ {s} :
             pc'[r] = pc[r] /\ level'[r] = level[r] /\ result'[r] = result[r]
    BY <1>6 DEF CloseRow, LeaveLoop, TypeOK
  <2>2. \A k \in Legs : row'[k].day = row[k].day
    BY <1>6 DEF CloseRow, BookedRow, TypeOK
  <2> QED
    BY <2>1, <2>2 DEF MoneyInv
<1>7. CASE NextDay
  <2>1. \A k \in Legs : row[k].day \in Nat
    BY DEF TypeOK, Rows
  <2>2. \A k \in Legs : row'[k].day <= day'
    BY <1>7, <2>1 DEF NextDay, MoneyInv, TypeOK, Days
  <2> QED
    BY <1>7, <2>2 DEF NextDay, MoneyInv
<1>8. CASE UNCHANGED vars
  BY <1>8 DEF MoneyInv, vars
<1> QED
  BY <1>2, <1>3, <1>4, <1>5, <1>6, <1>7, <1>8 DEF Next, Step, Quiet

-----------------------------------------------------------------------------
(* What a sequence past the stop may still lose on a day: today and later,  *)
(* all the levels it has left; of a day gone by, only the leg whose row was *)
(* dated then and is not booked yet.                                        *)
PastStop == {"cap"} \cup InLoop

Remaining(s) == Sum(Worst, level[s]..Prot[s])

Owed(s, d) ==
    IF pc[s] \notin PastStop THEN 0
    ELSE IF d >= day THEN Remaining(s)
    ELSE IF pc[s] = "close" /\ row[Current(s)].day = d THEN WorstStake(level[s])
    ELSE 0

Exposure(d) == Sum([s \in Signals |-> Owed(s, d)], Signals)

LossKept(d) == DayPnl(d) - Exposure(d) > -Limits.lossUsd - Slots * WorstOfAll

LEMMA OwedType ==
    ASSUME TypeOK, NEW s \in Signals, NEW d
    PROVE  Owed(s, d) \in Nat /\ Remaining(s) \in Nat /\ WorstStake(level[s]) \in Nat
<1>1. level[s] \in Levels /\ level[s] \in Nat
  BY ExecutionAssumption DEF TypeOK, Levels
<1>2. Remaining(s) \in Nat
  BY <1>1, StakesLeft DEF Remaining
<1>3. WorstStake(level[s]) \in Nat
  BY <1>1, StakesAreAmounts
<1> QED
  BY <1>2, <1>3 DEF Owed

LEMMA ExposureType ==
    ASSUME TypeOK, NEW d
    PROVE  Exposure(d) \in Int
<1> DEFINE owing == [s \in Signals |-> Owed(s, d)]
<1>1. \A s \in Signals : owing[s] \in Int
  BY OwedType
<1> HIDE DEF owing
<1>2. Sum(owing, Signals) \in Int
  BY <1>1, SumType, ExecutionAssumption
<1> QED
  BY <1>2 DEF Exposure, owing

(* The PnL of a day is the sum over the rows booked on it.                  *)
BookedOn(d) == {k \in Legs : row[k].booked /\ row[k].day = d}
Pnls == [k \in Legs |-> row[k].pnl]

LEMMA DayPnlIsSum ==
    ASSUME TypeOK, NEW d
    PROVE  /\ DayPnl(d) = Sum(Pnls, BookedOn(d))
           /\ DayPnl(d) \in Int
           /\ IsFiniteSet(BookedOn(d)) /\ \A k \in BookedOn(d) : Pnls[k] \in Int
<1> DEFINE terms == [k \in BookedOn(d) |-> row[k].pnl]
<1>1. IsFiniteSet(BookedOn(d)) /\ BookedOn(d) \subseteq Legs
  <2>1. IsFiniteSet(Signals) /\ IsFiniteSet(Levels)
    BY ExecutionAssumption, FS_Interval DEF Levels
  <2>2. IsFiniteSet(Legs)
    BY <2>1, FS_Product DEF Legs
  <2>3. BookedOn(d) \subseteq Legs
    BY DEF BookedOn
  <2> QED
    BY <2>2, <2>3, FS_Subset
<1>2. \A k \in BookedOn(d) : terms[k] = Pnls[k] /\ Pnls[k] \in Int
  BY <1>1 DEF Pnls, TypeOK, Rows
<1>3. DayPnl(d) = MapThenSumSet(LAMBDA k : row[k].pnl, BookedOn(d))
  BY DEF DayPnl, BookedOn
<1>4. DayPnl(d) = Sum(terms, BookedOn(d))
  BY <1>3, RowSum
<1>5. Sum(terms, BookedOn(d)) = Sum(Pnls, BookedOn(d)) /\ Sum(Pnls, BookedOn(d)) \in Int
  <2> HIDE DEF terms
  <2> QED
    BY <1>1, <1>2, SumAgrees, SumType
<1> QED
  BY <1>1, <1>2, <1>4, <1>5

(* All of it, in a form that holds of the next state too.                   *)
DaysAreTyped ==
    \A d : /\ DayPnl(d) = Sum(Pnls, BookedOn(d)) /\ DayPnl(d) \in Int
           /\ IsFiniteSet(BookedOn(d)) /\ \A k \in BookedOn(d) : Pnls[k] \in Int
           /\ Exposure(d) \in Int /\ \A s \in Signals : Owed(s, d) \in Nat

LEMMA DayTypes == TypeOK => DaysAreTyped
BY DayPnlIsSum, ExposureType, OwedType DEF DaysAreTyped

(* Booking a row adds its PnL to its day; a row that is not booked adds     *)
(* nothing.                                                                 *)
LEMMA BookingAdds ==
    ASSUME TypeOK, TypeOK', NEW x \in Legs, ~row[x].booked,
           \A k \in Legs \ {x} : row'[k] = row[k], NEW d
    PROVE  DayPnl(d)' = DayPnl(d) + IF row'[x].booked /\ row'[x].day = d
                                    THEN row'[x].pnl ELSE 0
<1>1. /\ DayPnl(d) = Sum(Pnls, BookedOn(d)) /\ DayPnl(d) \in Int
      /\ IsFiniteSet(BookedOn(d)) /\ \A k \in BookedOn(d) : Pnls[k] \in Int
  BY DayPnlIsSum
<1>2. /\ DayPnl(d)' = Sum(Pnls', BookedOn(d)')
      /\ IsFiniteSet(BookedOn(d)') /\ \A k \in BookedOn(d)' : Pnls'[k] \in Int
  <2>1. DaysAreTyped'
    BY DayTypes, PTL
  <2> QED
    BY <2>1 DEF DaysAreTyped
<1>3. x \notin BookedOn(d)
  BY DEF BookedOn
<1>4. \A k \in BookedOn(d) : Pnls'[k] = Pnls[k]
  BY <1>3 DEF BookedOn, Pnls
<1>5. Sum(Pnls', BookedOn(d)) = Sum(Pnls, BookedOn(d))
  BY <1>1, <1>4, SumAgrees
<1>6. CASE row'[x].booked /\ row'[x].day = d
  <2>1. BookedOn(d)' = BookedOn(d) \cup {x}
    BY <1>6 DEF BookedOn
  <2>2. x \in BookedOn(d)' /\ BookedOn(d)' \ {x} = BookedOn(d)
    BY <1>3, <2>1
  <2>3. Sum(Pnls', BookedOn(d)') = Pnls'[x] + Sum(Pnls', BookedOn(d)' \ {x})
    BY <1>2, <2>2, SumRemoves
  <2>4. Pnls'[x] = row'[x].pnl /\ row'[x].pnl \in Int
    BY DEF Pnls, TypeOK, Rows
  <2>5. Sum(Pnls', BookedOn(d)' \ {x}) = DayPnl(d)
    BY <1>1, <1>5, <2>2
  <2>6. DayPnl(d)' = row'[x].pnl + DayPnl(d)
    BY <1>2, <2>3, <2>4, <2>5
  <2> QED
    BY <1>1, <1>6, <2>4, <2>6
<1>7. CASE ~(row'[x].booked /\ row'[x].day = d)
  <2>1. BookedOn(d)' = BookedOn(d)
    BY <1>7 DEF BookedOn
  <2> QED
    BY <1>1, <1>2, <1>5, <1>7, <2>1
<1> QED
  BY <1>6, <1>7

(* One sequence moves: the bound is kept if the day gains at least what the *)
(* sequence owes more.                                                      *)
LEMMA OneMoves ==
    ASSUME TypeOK, TypeOK', NEW s \in Signals, NEW d,
           \A r \in Signals \ {s} : Owed(r, d)' = Owed(r, d),
           DayPnl(d)' - DayPnl(d) >= Owed(s, d)' - Owed(s, d),
           LossKept(d)
    PROVE  LossKept(d)'
<1> DEFINE owing == [r \in Signals |-> Owed(r, d)]
           later == [r \in Signals |-> Owed(r, d)']
<1>1. \A r \in Signals : owing[r] \in Int /\ later[r] \in Int
  <2>1. \A r \in Signals : Owed(r, d) \in Int
    BY OwedType
  <2>2. DaysAreTyped'
    BY DayTypes, PTL
  <2>3. \A r \in Signals : Owed(r, d)' \in Int
    BY <2>2 DEF DaysAreTyped
  <2> QED
    BY <2>1, <2>3
<1>2. \A r \in Signals \ {s} : later[r] = owing[r]
  OBVIOUS
<1>3. owing[s] = Owed(s, d) /\ later[s] = Owed(s, d)'
  OBVIOUS
<1>4. Exposure(d) = Sum(owing, Signals) /\ Exposure(d)' = Sum(later, Signals)
  BY DEF Exposure
<1> HIDE DEF owing, later
<1>5. Sum(later, Signals) - later[s] = Sum(owing, Signals) - owing[s]
  BY <1>1, <1>2, SumChanges, ExecutionAssumption
<1>6. Exposure(d) \in Int /\ DayPnl(d) \in Int
  BY ExposureType, DayPnlIsSum
<1>7. Exposure(d)' \in Int /\ DayPnl(d)' \in Int
  <2>1. DaysAreTyped'
    BY DayTypes, PTL
  <2> QED
    BY <2>1 DEF DaysAreTyped
<1>8. Slots * WorstOfAll \in Int /\ Limits.lossUsd \in Int
  BY CyclesAreBounded, ExecutionAssumption, StakeAssumption
<1> QED
  BY <1>1, <1>3, <1>4, <1>5, <1>6, <1>7, <1>8 DEF LossKept

(* No more processes run than there are: what all of them may still lose is *)
(* within the bound, so a day that has not reached its stop keeps it.       *)
LEMMA FreshDay ==
    ASSUME TypeOK, LadderInv, SlotsRespected, NEW d, DayPnl(d) > -Limits.lossUsd
    PROVE  LossKept(d)
<1> DEFINE owing == [s \in Signals |-> Owed(s, d)]
           past == {s \in Signals : pc[s] \in PastStop}
<1>1. \A s \in Signals : Owed(s, d) \in Nat /\ (s \notin past => Owed(s, d) = 0)
  BY OwedType DEF Owed
<1>2. ASSUME NEW s \in past PROVE Owed(s, d) <= WorstOfAll
  <2>1. level[s] \in Nat /\ Start[s] <= level[s]
    BY ExecutionAssumption DEF TypeOK, Levels, LadderInv, LadderPosition
  <2>2. Remaining(s) <= WorstOfAll /\ WorstOfAll \in Nat
    BY <2>1, StakesLeft DEF Remaining
  <2>3. pc[s] = "close" => WorstStake(level[s]) <= Remaining(s)
    <3>1. pc[s] = "close" => level[s] <= Prot[s]
      BY DEF LadderInv, LadderPosition, InLoop, AfterOrder
    <3> QED
      BY <2>1, <3>1, StakesLeft DEF Remaining
  <2>4. Remaining(s) \in Nat /\ WorstStake(level[s]) \in Nat
    BY OwedType
  <2> QED
    BY <2>2, <2>3, <2>4 DEF Owed
<1>3. IsFiniteSet(Signals) /\ Slots \in Nat
  BY ExecutionAssumption
<1>4. WorstOfAll \in Nat
  BY CyclesAreBounded
<1>5. past \in SUBSET Signals /\ past \subseteq Running
  BY DEF Running, PastStop, InLoop, AfterOrder, Executing
<1>6. Cardinality(past) <= Slots /\ Cardinality(past) \in Nat
  BY <1>3, <1>5, SetsAreFinite, FS_Subset, FS_CardinalityType DEF SlotsRespected
<1>7. Exposure(d) = Sum(owing, Signals)
  BY DEF Exposure
<1>8. \A s \in Signals : owing[s] = Owed(s, d)
  OBVIOUS
<1> HIDE DEF owing, past
<1>9. Sum(owing, Signals) <= Cardinality(past) * WorstOfAll
  <2>1. /\ \A s \in past : owing[s] \in Int /\ owing[s] <= WorstOfAll
        /\ \A s \in Signals \ past : owing[s] = 0
    BY <1>1, <1>2, <1>5, <1>8
  <2> QED
    BY <1>3, <1>4, <1>5, <2>1, SumBounded
<1>10. Cardinality(past) * WorstOfAll <= Slots * WorstOfAll
       /\ Cardinality(past) * WorstOfAll \in Int /\ Slots * WorstOfAll \in Int
  BY <1>3, <1>4, <1>6
<1>11. Exposure(d) \in Int /\ DayPnl(d) \in Int /\ Limits.lossUsd \in Int
  BY ExposureType, DayPnlIsSum, StakeAssumption
<1> QED
  BY <1>7, <1>9, <1>10, <1>11 DEF LossKept

FreshDaysKeepIt == \A d : DayPnl(d) > -Limits.lossUsd => LossKept(d)

LEMMA FreshDays == TypeOK /\ LadderInv /\ SlotsRespected => FreshDaysKeepIt
BY FreshDay DEF FreshDaysKeepIt

LEMMA ExposureIsPositive ==
    ASSUME TypeOK, NEW d
    PROVE  Exposure(d) >= 0
<1> DEFINE owing == [s \in Signals |-> Owed(s, d)]
<1>1. \A s \in Signals : owing[s] \in Nat
  BY OwedType
<1>2. Exposure(d) = Sum(owing, Signals)
  BY DEF Exposure
<1> HIDE DEF owing
<1>3. Sum(owing, {}) <= Sum(owing, Signals)
  BY <1>1, SumGrows, ExecutionAssumption
<1>4. Sum(owing, {}) = 0
  BY SumUnrolls, FS_EmptySet
<1> QED
  BY <1>2, <1>3, <1>4, ExposureType

(* The evaluation that lets a sequence pass saw a total above the stop.     *)
LEMMA VerdictAllows ==
    ASSUME TypeOK, Limits.lossOn, Limits.lossUsd > 0, Verdict = "none"
    PROVE  DayPnl(day) > -Limits.lossUsd
<1>1. DayPnl(day) \in Int /\ Limits.lossUsd \in Int
  BY DayPnlIsSum, StakeAssumption
<1>2. ~LossLimitHit(DayPnl(day), Limits)
  BY DEF Verdict, DecideStop
<1> QED
  BY <1>1, <1>2 DEF LossLimitHit

(* The rows of days to come are not booked yet.                             *)
LEMMA DaysToCome ==
    ASSUME TypeOK, MoneyInv, NEW d \in Int, d > day
    PROVE  DayPnl(d) = 0
<1>1. BookedOn(d) = {}
  BY DEF BookedOn, MoneyInv, TypeOK, Rows, Days
<1> QED
  BY <1>1, DayPnlIsSum, SumUnrolls

LEMMA LossStep ==
    ASSUME TypeOK, TypeOK', LadderInv, LadderInv', SlotsRespected', MoneyInv, MoneyInv',
           [Next]_vars, Limits.lossOn, Limits.lossUsd > 0,
           NEW d \in Days, d \notin blind', LossKept(d)
    PROVE  LossKept(d)'
<1> USE DEF leg, book, stop, Goto
<1>1. /\ d \in Int /\ day \in Int /\ day' \in Int /\ Limits.lossUsd \in Int
      /\ DayPnl(d) \in Int
      /\ \A s \in Signals : Owed(s, d) \in Nat /\ Remaining(s) \in Nat
                            /\ WorstStake(level[s]) \in Nat
  <2>1. d \in Int /\ day \in Int /\ day' \in Int
    BY ExecutionAssumption DEF TypeOK, Days
  <2>2. DayPnl(d) \in Int /\ Limits.lossUsd \in Int
    BY DayPnlIsSum, StakeAssumption
  <2>3. \A s \in Signals : Owed(s, d) \in Nat /\ Remaining(s) \in Nat
                          /\ WorstStake(level[s]) \in Nat
    BY OwedType
  <2> QED
    BY <2>1, <2>2, <2>3
<1>2. DaysAreTyped' /\ FreshDaysKeepIt'
  BY DayTypes, FreshDays, PTL
<1>3. ASSUME UNCHANGED <<row>> PROVE DayPnl(d)' = DayPnl(d)
  <2>1. Pnls' = Pnls /\ BookedOn(d)' = BookedOn(d)
    BY <1>3 DEF Pnls, BookedOn
  <2> QED
    BY <1>2, <2>1, DayPnlIsSum DEF DaysAreTyped
<1>4. ASSUME NEW s \in Signals, UNCHANGED <<day, level, row>>,
             \A r \in Signals \ {s} : pc'[r] = pc[r],
             pc'[s] \in PastStop => pc[s] \in PastStop, pc'[s] # "close"
      PROVE  LossKept(d)'
  <2>1. \A r \in Signals \ {s} : Owed(r, d)' = Owed(r, d)
    BY <1>4 DEF Owed, Remaining, Current
  <2>2. Owed(s, d)' \in {0, Remaining(s)} /\ (Owed(s, d)' = 0 \/ Owed(s, d)' = Owed(s, d))
    BY <1>4 DEF Owed, Remaining
  <2>3. DayPnl(d)' - DayPnl(d) >= Owed(s, d)' - Owed(s, d)
    BY <1>1, <1>3, <1>4, <2>2
  <2> QED
    BY <2>1, <2>3, OneMoves
<1>5. ASSUME NEW s \in Signals,
             \/ Dispatch(s) \/ StartTask(s) \/ CheckCap(s) \/ WaitLeg(s) \/ OpenLeg(s)
             \/ Settle(s) \/ NotifyStop(s) \/ Fail(s)
      PROVE  LossKept(d)'
  <2>1. /\ UNCHANGED <<day, level, row>> /\ \A r \in Signals \ {s} : pc'[r] = pc[r]
    BY <1>5 DEF Dispatch, StartTask, CheckCap, WaitLeg, OpenLeg, Settle, NotifyStop, Fail,
                LeaveLoop, TypeOK
  <2>2. pc'[s] # "close" /\ (pc'[s] \in PastStop => pc[s] \in PastStop)
    BY <1>5 DEF Dispatch, StartTask, CheckCap, WaitLeg, OpenLeg, Settle, NotifyStop, Fail,
                LeaveLoop, TypeOK, PastStop, InLoop, AfterOrder
  <2> QED
    BY <1>4, <2>1, <2>2
<1>6. ASSUME NEW s \in Signals, CheckStop(s) PROVE LossKept(d)'
  <2>1. /\ UNCHANGED <<day, level, row>> /\ pc[s] = "guard"
        /\ \A r \in Signals \ {s} : pc'[r] = pc[r]
        /\ pc'[s] \in {"cap", "stopped"}
    BY <1>6 DEF CheckStop, TypeOK
  <2>2. CASE pc'[s] = "stopped"
    BY <1>4, <2>1, <2>2 DEF PastStop, InLoop, AfterOrder
  <2>3. CASE pc'[s] = "cap" /\ d < day
    <3>1. \A r \in Signals \ {s} : Owed(r, d)' = Owed(r, d)
      BY <2>1 DEF Owed, Remaining, Current
    <3>2. Owed(s, d)' = 0
      BY <1>1, <2>1, <2>3 DEF Owed
    <3> QED
      BY <1>1, <1>3, <2>1, <3>1, <3>2, OneMoves
  <2>4. CASE pc'[s] = "cap" /\ d = day
    <3>1. Verdict = "none"
      BY <1>6, <2>4 DEF CheckStop, StopEvaluates, TypeOK
    <3>2. DayPnl(d) > -Limits.lossUsd
      BY <2>4, <3>1, VerdictAllows
    <3> QED
      BY <1>2, <1>3, <2>1, <3>2 DEF FreshDaysKeepIt
  <2>5. CASE d > day
    <3>1. DayPnl(d) = 0
      BY <1>1, <2>5, DaysToCome
    <3> QED
      BY <1>1, <1>2, <1>3, <2>1, <3>1 DEF FreshDaysKeepIt
  <2> QED
    BY <1>1, <2>1, <2>2, <2>3, <2>4, <2>5
<1>7. ASSUME NEW s \in Signals, CreateRow(s) PROVE LossKept(d)'
  <2>1. /\ UNCHANGED <<day, level>> /\ pc[s] = "create" /\ Current(s) \in Legs
        /\ \A r \in Signals \ {s} : pc'[r] = pc[r]
        /\ pc'[s] \in {"close", "notify", "done"}
    BY <1>7 DEF CreateRow, LeaveLoop, TypeOK, Current, Legs
  <2>2. /\ \A k \in Legs \ {Current(s)} : row'[k] = row[k]
        /\ row'[Current(s)] \in {ClosedRow(day), OpenRow}
        /\ pc'[s] = "close" => row'[Current(s)] = ClosedRow(day)
    BY <1>7, <2>1 DEF CreateRow, LeaveLoop, TypeOK
  <2>3. ~row[Current(s)].booked /\ ~row'[Current(s)].booked
    BY <2>1, <2>2 DEF LadderInv, LadderPosition, AfterOrder, ClosedRow, OpenRow
  <2>4. DayPnl(d)' = DayPnl(d) + 0
    BY <2>1, <2>2, <2>3, BookingAdds
  <2>5. \A r \in Signals \ {s} : Owed(r, d)' = Owed(r, d)
    <3>1. \A r \in Signals \ {s} : row'[Current(r)] = row[Current(r)]
      BY <2>2 DEF Current, Legs, TypeOK
    <3> QED
      BY <2>1, <3>1 DEF Owed, Remaining, Current
  <2>6. Owed(s, d)' = 0 \/ Owed(s, d)' = Owed(s, d)
    <3>1. pc'[s] = "close" => row'[Current(s)].day = day
      BY <2>2 DEF ClosedRow
    <3> QED
      BY <1>1, <2>1, <3>1 DEF Owed, Remaining, Current, PastStop, InLoop, AfterOrder
  <2>7. DayPnl(d)' - DayPnl(d) >= Owed(s, d)' - Owed(s, d)
    BY <1>1, <2>4, <2>6
  <2> QED
    BY <2>5, <2>7, OneMoves
<1>8. ASSUME NEW s \in Signals, CloseRow(s) PROVE LossKept(d)'
  <2> DEFINE k == Current(s)
             v == result[s].pnl
  <2>1. /\ UNCHANGED day /\ pc[s] = "close" /\ k \in Legs
        /\ \A r \in Signals \ {s} : pc'[r] = pc[r] /\ level'[r] = level[r]
        /\ level'[s] \in {level[s], level[s] + 1}
        /\ pc'[s] \in {"wait", "notify", "done"}
        /\ pc'[s] = "wait" => level'[s] = level[s] + 1
    BY <1>8 DEF CloseRow, LeaveLoop, TypeOK, Current, Legs
  <2>2. /\ \A j \in Legs \ {k} : row'[j] = row[j]
        /\ row'[k] = BookedRow(v, row[k].day)
    BY <1>8, <2>1 DEF CloseRow, TypeOK
  <2>3. row'[k].booked /\ row'[k].pnl = v /\ row'[k].day = row[k].day /\ ~row[k].booked
    BY <2>1, <2>2 DEF LadderInv, LadderPosition, AfterOrder, BookedRow
  <2>4. v \in Int /\ v >= -WorstStake(level[s]) /\ row[k].day <= day /\ row[k].day \in Int
    BY <2>1 DEF MoneyInv, TypeOK, Rows
  <2>5. DayPnl(d)' = DayPnl(d) + IF row[k].day = d THEN v ELSE 0
    BY <2>1, <2>2, <2>3, BookingAdds
  <2>6. \A r \in Signals \ {s} : Owed(r, d)' = Owed(r, d)
    <3>1. \A r \in Signals \ {s} : row'[Current(r)] = row[Current(r)]
      BY <2>2 DEF Current, Legs, TypeOK
    <3> QED
      BY <2>1, <3>1 DEF Owed, Remaining, Current
  <2>7. Owed(s, d)' <= Owed(s, d) - IF row[k].day = d \/ d >= day
                                    THEN WorstStake(level[s]) ELSE 0
    <3>1. level[s] \in Nat /\ level[s] <= Prot[s]
      BY <2>1, ExecutionAssumption
      DEF LadderInv, LadderPosition, InLoop, AfterOrder, TypeOK, Levels
    <3>2. Remaining(s) = WorstStake(level[s]) + Sum(Worst, (level[s] + 1)..Prot[s])
      BY <3>1, StakesLeft DEF Remaining
    <3>3. Owed(s, d) = IF d >= day THEN Remaining(s)
                       ELSE IF row[k].day = d THEN WorstStake(level[s]) ELSE 0
      BY <2>1 DEF Owed, PastStop, InLoop, AfterOrder
    <3>4. Owed(s, d)' = IF d >= day /\ pc'[s] = "wait"
                        THEN Sum(Worst, (level[s] + 1)..Prot[s]) ELSE 0
      BY <2>1 DEF Owed, Remaining, PastStop, InLoop, AfterOrder
    <3>5. Sum(Worst, (level[s] + 1)..Prot[s]) \in Nat
      BY <3>1, StakesLeft
    <3> HIDE DEF k
    <3> QED
      BY <1>1, <3>2, <3>3, <3>4, <3>5
  <2>8. Owed(s, d)' \in Nat /\ Owed(s, d) \in Nat /\ WorstStake(level[s]) \in Nat
    BY <1>1, <1>2 DEF DaysAreTyped
  <2>9. DayPnl(d)' - DayPnl(d) >= Owed(s, d)' - Owed(s, d)
    <3> HIDE DEF k, v
    <3> QED
      BY <1>1, <2>4, <2>5, <2>7, <2>8
  <2> QED
    BY <2>6, <2>9, OneMoves
<1>9. CASE NextDay
  <2> DEFINE owing == [s \in Signals |-> Owed(s, d)]
             later == [s \in Signals |-> Owed(s, d)']
  <2>1. \A s \in Signals : Owed(s, d)' \in Nat /\ Owed(s, d)' <= Owed(s, d)
    <3> SUFFICES ASSUME NEW s \in Signals PROVE Owed(s, d)' <= Owed(s, d)
      BY <1>2 DEF DaysAreTyped
    <3>1. UNCHANGED <<pc, level, row>> /\ day' = day + 1
      BY <1>9 DEF NextDay
    <3>2. pc[s] = "close" => WorstStake(level[s]) <= Remaining(s)
      <4>1. pc[s] = "close" => level[s] <= Prot[s]
        BY DEF LadderInv, LadderPosition, InLoop, AfterOrder
      <4>2. level[s] \in Nat
        BY ExecutionAssumption DEF TypeOK, Levels
      <4> QED
        BY <4>1, <4>2, StakesLeft DEF Remaining
    <3>3. Remaining(s)' = Remaining(s) /\ Current(s)' = Current(s)
      BY <3>1 DEF Remaining, Current
    <3> QED
      BY <1>1, <3>1, <3>2, <3>3 DEF Owed
  <2>2. \A s \in Signals : owing[s] \in Int /\ later[s] \in Int /\ later[s] <= owing[s]
    BY <1>1, <2>1
  <2>3. Exposure(d) = Sum(owing, Signals) /\ Exposure(d)' = Sum(later, Signals)
    BY DEF Exposure
  <2> HIDE DEF owing, later
  <2>4. Sum(later, Signals) <= Sum(owing, Signals)
    BY <2>2, SumCompares, ExecutionAssumption
  <2>5. DayPnl(d)' = DayPnl(d)
    BY <1>3, <1>9 DEF NextDay
  <2>6. Exposure(d) \in Int /\ Exposure(d)' \in Int
    BY <1>2, ExposureType DEF DaysAreTyped
  <2>7. Slots * WorstOfAll \in Int
    BY CyclesAreBounded, ExecutionAssumption
  <2> QED
    BY <1>1, <2>3, <2>4, <2>5, <2>6, <2>7 DEF LossKept
<1>10. CASE UNCHANGED vars
  <2>1. /\ DayPnl(d)' = DayPnl(d)
        /\ \A s \in Signals : Owed(s, d)' = Owed(s, d)
    BY <1>3, <1>10 DEF vars, Owed, Remaining, Current
  <2>2. Exposure(d)' = Exposure(d)
    BY <2>1 DEF Exposure
  <2> QED
    BY <2>1, <2>2 DEF LossKept
<1> QED
  BY <1>5, <1>6, <1>7, <1>8, <1>9, <1>10 DEF Next, Step, Quiet

LossInv == Limits.lossOn /\ Limits.lossUsd > 0 => \A d \in Days \ blind : LossKept(d)

LEMMA LossInvariant == Spec => [](MoneyInv /\ LossInv)
<1>1. Init => MoneyInv /\ LossInv
  <2> SUFFICES ASSUME Init PROVE MoneyInv /\ LossInv
    OBVIOUS
  <2>1. TypeOK
    BY ExecutionAssumption
    DEF Init, TypeOK, Days, Levels, Legs, Stages, Rows, NoRow, NoPnl
  <2>2. LadderInv
    BY LadderInit
  <2>3. SlotsRespected
    <3>1. Running = {}
      BY DEF Init, Running, Executing
    <3> QED
      BY <3>1, FS_EmptySet, ExecutionAssumption DEF SlotsRespected
  <2>4. MoneyInv
    BY DEF Init, MoneyInv, NoRow
  <2>5. ASSUME Limits.lossUsd > 0, NEW d \in Days PROVE LossKept(d)
    <3>1. BookedOn(d) = {}
      BY DEF Init, BookedOn, NoRow
    <3>2. DayPnl(d) = 0
      BY <2>1, <3>1, DayPnlIsSum, SumUnrolls
    <3>3. DayPnl(d) > -Limits.lossUsd
      BY <2>5, <3>2, StakeAssumption
    <3> QED
      BY <2>1, <2>2, <2>3, <3>3, FreshDay
  <2> QED
    BY <2>4, <2>5 DEF LossInv
<1>2. TypeOK /\ TypeOK' /\ LadderInv /\ LadderInv' /\ SlotsRespected'
        /\ MoneyInv /\ LossInv /\ [Next]_vars => MoneyInv' /\ LossInv'
  <2> SUFFICES ASSUME TypeOK, TypeOK', LadderInv, LadderInv', SlotsRespected',
                      MoneyInv, LossInv, [Next]_vars
               PROVE  MoneyInv' /\ LossInv'
    OBVIOUS
  <2>1. MoneyInv'
    BY MoneyStep
  <2>2. blind \subseteq blind'
    BY DEF Next, Step, Dispatch, StartTask, CheckStop, CheckCap, WaitLeg, OpenLeg, Settle,
           CreateRow, CloseRow, NotifyStop, Fail, NextDay, Quiet, vars, stop
  <2>3. ASSUME Limits.lossOn, Limits.lossUsd > 0, NEW d \in Days, d \notin blind'
        PROVE  LossKept(d)'
    <3>1. LossKept(d)
      BY <2>2, <2>3 DEF LossInv
    <3> QED
      BY <2>1, <2>3, <3>1, LossStep
  <2> QED
    BY <2>1, <2>3 DEF LossInv
<1> QED
  BY <1>1, <1>2, TypeCorrect, LadderPositions, SlotsNeverExceeded, PTL DEF Spec

(***************************************************************************)
(* The stop loss is read once per sequence, by processes that do not wait  *)
(* for each other, and sequences that began before midnight book their     *)
(* losses after it.  Still, on a day whose evaluations all succeeded, the  *)
(* booked loss exceeds the stop by less than one worst cycle per process.  *)
(***************************************************************************)
THEOREM DayLossStaysBounded == Spec => []DayLossBounded
<1>1. TypeOK /\ LossInv => DayLossBounded
  <2> SUFFICES ASSUME TypeOK, LossInv, Limits.lossOn, Limits.lossUsd > 0,
                      NEW d \in Days \ blind
               PROVE  DayPnl(d) > -Limits.lossUsd - Slots * WorstOfAll
    BY DEF DayLossBounded
  <2>1. LossKept(d)
    BY DEF LossInv
  <2>2. DayPnl(d) \in Int /\ Exposure(d) \in Int /\ Exposure(d) >= 0
    BY DayPnlIsSum, ExposureType, ExposureIsPositive
  <2>3. Slots * WorstOfAll \in Int /\ Limits.lossUsd \in Int
    BY CyclesAreBounded, ExecutionAssumption, StakeAssumption
  <2> QED
    BY <2>1, <2>2, <2>3 DEF LossKept
<1> QED
  BY <1>1, LossInvariant, TypeCorrect, PTL
=============================================================================
