--------------------------- MODULE OtcExecution ---------------------------
(***************************************************************************)
(* The OTC executor: signals are dispatched, queued on the Celery queue    *)
(* "otc" (or run in the caller's process), and each one is executed by one *)
(* process as a martingale sequence of binary options.  Up to Slots        *)
(* processes run at once and share only the trades table and the Redis     *)
(* keys of the stop alert.  What a process keeps of a leg (its stake, its  *)
(* result) is forgotten as soon as it is no longer read.                   *)
(*                                                                         *)
(* otc/signal_dispatch.py, otc/tasks.py, otc/executor.py, the order calls  *)
(* of otc/broker.py as the executor sees them, otc/guard.py and the alert  *)
(* claim of otc/stop_alert.py.  The broker's matching of a settlement to   *)
(* an order, the clock and the daily session are abstracted to the results *)
(* they can return.                                                        *)
(*                                                                         *)
(* Trading is enabled and dry_run is off: with either switch the other way *)
(* no handler below changes any of these variables.                        *)
(***************************************************************************)
EXTENDS OtcRisk, FiniteSets, FiniteSetsExt

CONSTANTS
    Signals,      \* the signals that arrive
    Immediate,    \* those with no time in them: run by the caller, not queued
    MaxLevel,     \* bound: highest protection level of a signal
    Start,        \* signal -> protection level of its first leg
    Prot,         \* signal -> max_auto_protections_for_signal
    Slots,        \* processes that execute sequences (celery -c, and callers)
    MaxOpen,      \* otc.max_open_trades
    Martingale,   \* otc.martingale
    SessionStake, \* base stake of the daily session
    DefaultStake, \* otc.default_stake_usd, used when the session is unreadable
    PayoutPct,    \* what a winning binary pays, in percent of the stake
    Limits,       \* the stop settings and the session's limits
    MaxDay        \* bound: days explored

ASSUME ExecutionAssumption ==
    /\ IsFiniteSet(Signals)
    /\ Immediate \subseteq Signals
    /\ MaxLevel \in Nat
    /\ Start \in [Signals -> 0..MaxLevel]
    /\ Prot \in [Signals -> 0..MaxLevel]
    /\ Slots \in Nat \ {0}
    /\ MaxOpen \in Nat \ {0}
    /\ MaxDay \in Nat \ {0}

(* The base stake of a leg: the day's session, or the YAML if that fails.   *)
BaseStakes == {SessionStake, DefaultStake}

(* quantize(0.01) makes every stake a whole number of cents, and a limit in *)
(* dollars is one too.                                                      *)
ASSUME StakeAssumption ==
    /\ PayoutPct \in Nat
    /\ Limits.lossUsd \in Int
    /\ \A base \in BaseStakes, l \in 0..MaxLevel :
          StakeForLevel(base, Martingale, l) \in Nat

VARIABLES
    day,      \* the current local day
    pc,       \* where the handling of each signal stands
    level,    \* the protection level of the current leg
    stake,    \* the stake of the current leg
    result,   \* what wait_settlement returned for the current leg
    row,      \* the trades table: at most one row per signal and level
    orders,   \* binaries the broker has accepted
    ghosts,   \* history: those whose acceptance the executor never learned
    alerted,  \* Redis keys otc:stop:alert:<day>:<reason>
    blind     \* history: days on which try_execute's stop check failed open

vars == <<day, pc, level, stake, result, row, orders, ghosts, alerted, blind>>
leg == <<level, stake, result>>
book == <<orders, ghosts>>
stop == <<alerted, blind>>

Days == 1..MaxDay
Levels == 0..MaxLevel
Legs == Signals \X Levels

Executing == {"guard", "cap", "wait", "open", "settle", "create", "close", "notify"}
Ended == {"skipped", "missed", "stopped", "capped", "done", "failed"}
Stages == {"new", "queued"} \cup Executing \cup Ended

NoRow == [status |-> "none", booked |-> FALSE, pnl |-> 0, day |-> 0]
OpenRow == [status |-> "open", booked |-> FALSE, pnl |-> 0, day |-> 0]
ClosedRow(d) == [status |-> "closed", booked |-> FALSE, pnl |-> 0, day |-> d]
BookedRow(v, d) == [status |-> "closed", booked |-> TRUE, pnl |-> v, day |-> d]

(* The processes at work, and the leg each is on.                           *)
Running == {s \in Signals : pc[s] \in Executing}
FreeSlot == Cardinality(Running) < Slots
Current(s) == <<s, level[s]>>

(* count_open_trades(PROFILE_ID): rows are the only thing it can see.       *)
OpenRows == {k \in Legs : row[k].status = "open"}

(* otc_period_totals: the PnL of the rows closed on day d.                  *)
DayPnl(d) ==
    MapThenSumSet(LAMBDA k : row[k].pnl, {k \in Legs : row[k].booked /\ row[k].day = d})

Goto(s, p) == pc' = [pc EXCEPT ![s] = p]

(***************************************************************************)
(* evaluate_otc_stop as its caller sees it.  A reason claims the alert key *)
(* of the day.  An exception anywhere inside reads as "no stop", even one  *)
(* of the alert's own Redis call, whose claim may have been made.          *)
(***************************************************************************)
Verdict == DecideStop(DayPnl(day), Limits)

ClaimAlert(reason) ==
    alerted' = IF reason \in StopReasons THEN alerted \cup {<<day, reason>>} ELSE alerted

StopEvaluates(reason, failsOpen) ==
    /\ reason = IF failsOpen THEN "none" ELSE Verdict
    /\ \/ ClaimAlert(Verdict)
       \/ failsOpen /\ UNCHANGED alerted

Reasons == StopReasons \cup {"none"}

(***************************************************************************)
(* dispatch_otc_signal: stop, entry window, then queue or run here.        *)
(***************************************************************************)
Dispatch(s) ==
    /\ pc[s] = "new"
    /\ \E reason \in Reasons, failsOpen \in BOOLEAN :
          /\ StopEvaluates(reason, failsOpen)
          /\ \/ reason # "none" /\ Goto(s, "skipped")
             \/ reason = "none" /\ s \notin Immediate /\ Goto(s, "missed")
             \/ reason = "none" /\ s \notin Immediate /\ Goto(s, "queued")
             \/ reason = "none" /\ s \in Immediate /\ FreeSlot /\ Goto(s, "guard")
    /\ UNCHANGED <<day, leg, row, book, blind>>

(* execute_otc_signal: a worker takes the task; the window is checked again. *)
StartTask(s) ==
    /\ pc[s] = "queued"
    /\ FreeSlot
    /\ \/ Goto(s, "missed")
       \/ Goto(s, "guard")
    /\ UNCHANGED <<day, leg, row, book, stop>>

(* try_execute: the stop is read once, before the first leg.                *)
CheckStop(s) ==
    /\ pc[s] = "guard"
    /\ \E reason \in Reasons, failsOpen \in BOOLEAN :
          /\ StopEvaluates(reason, failsOpen)
          /\ Goto(s, IF reason = "none" THEN "cap" ELSE "stopped")
          /\ blind' = IF failsOpen THEN blind \cup {day} ELSE blind
    /\ UNCHANGED <<day, leg, row, book>>

(* Mutant: the cap is compared with > instead of >=.                        *)
CheckCapOffByOne(s) ==
    /\ pc[s] = "cap"
    /\ Goto(s, IF Cardinality(OpenRows) > MaxOpen THEN "capped"
               ELSE IF Start[s] > Prot[s] THEN "done"
               ELSE "wait")
    /\ UNCHANGED <<day, leg, row, book, stop>>

(* The cap on open trades, then the loop over range(start, max + 1).        *)
CheckCap(s) ==
    /\ pc[s] = "cap"
    /\ Goto(s, IF Cardinality(OpenRows) >= MaxOpen THEN "capped"
               ELSE IF Start[s] > Prot[s] THEN "done"
               ELSE "wait")
    /\ UNCHANGED <<day, leg, row, book, stop>>

(* Leaving the loop: the stop is re-evaluated only if some leg executed.    *)
LeaveLoop(s, executed) ==
    Goto(s, IF executed \/ level[s] > Start[s] THEN "notify" ELSE "done")

(* wait_for_leg: the leg's time arrives, or it was missed.                  *)
WaitLeg(s) ==
    /\ pc[s] = "wait"
    /\ \/ Goto(s, "open")
       \/ s \notin Immediate /\ LeaveLoop(s, FALSE)
    /\ UNCHANGED <<day, leg, row, book, stop>>

(***************************************************************************)
(* stake_for_level and open_binary.  The order is accepted or not, and the *)
(* executor learns a fill, an error that it takes for "not executed", or   *)
(* an exception no handler catches; the last two say nothing of the order. *)
(***************************************************************************)
Answers == {"filled", "not_executed", "raised"}

OpenLeg(s) ==
    /\ pc[s] = "open"
    /\ \E accepted \in BOOLEAN, answer \in Answers, base \in BaseStakes :
          /\ answer = "filled" => accepted
          /\ orders' = IF accepted THEN orders \cup {Current(s)} ELSE orders
          /\ ghosts' = IF accepted /\ answer # "filled"
                       THEN ghosts \cup {Current(s)} ELSE ghosts
          /\ \/ /\ answer = "filled"
                /\ stake' = [stake EXCEPT ![s] = StakeForLevel(base, Martingale, level[s])]
                /\ Goto(s, "settle")
             \/ answer = "not_executed" /\ LeaveLoop(s, FALSE) /\ UNCHANGED stake
             \/ answer = "raised" /\ Goto(s, "failed") /\ UNCHANGED stake
    /\ UNCHANGED <<day, level, result, row, stop>>

(* What a binary can return on a stake.                                     *)
Outcomes(amount) == {-amount, 0, (amount * PayoutPct) \div 100}

(***************************************************************************)
(* wait_settlement: what the broker's positions and history say, or None   *)
(* when a deadline passes first.  The position is found by asset and       *)
(* amount, so the result may be another trade's: nothing here ties it to   *)
(* this binary but the amount.                                             *)
(***************************************************************************)
Settle(s) ==
    /\ pc[s] = "settle"
    /\ \E res \in {Pnl(v) : v \in Outcomes(stake[s])} \cup {NoPnl} :
          result' = [result EXCEPT ![s] = res]
    /\ stake' = [stake EXCEPT ![s] = 0]
    /\ Goto(s, "create")
    /\ UNCHANGED <<day, level, row, book, stop>>

(* Mutant: a leg without a PnL is not persisted.                            *)
CreateRowOnlyKnown(s) ==
    /\ pc[s] = "create"
    /\ IF result[s].known
       THEN /\ row' = [row EXCEPT ![Current(s)] = ClosedRow(day)]
            /\ Goto(s, "close")
       ELSE LeaveLoop(s, TRUE) /\ UNCHANGED row
    /\ UNCHANGED <<day, leg, book, stop>>

(* _persist_trade, create_trade: without a PnL the row is left "open" and   *)
(* the sequence ends there.  The closing time is taken here.                *)
CreateRow(s) ==
    /\ pc[s] = "create"
    /\ IF result[s].known
       THEN /\ row' = [row EXCEPT ![Current(s)] = ClosedRow(day)]
            /\ Goto(s, "close")
       ELSE /\ row' = [row EXCEPT ![Current(s)] = OpenRow]
            /\ LeaveLoop(s, TRUE)
    /\ UNCHANGED <<day, leg, book, stop>>

(* Mutant: the comparison with the last level is off by one.                *)
GoesOnTooFar(s) == IsLoss(result[s]) /\ level[s] <= Prot[s]

(* The decision of the loop: only a loss below the last level goes on.      *)
GoesOn(s) == IsLoss(result[s]) /\ level[s] < Prot[s]

(* Mutant: the loop goes on without booking the loss it goes on from.       *)
CloseRowUnlessGoingOn(s) ==
    /\ pc[s] = "close"
    /\ result' = [result EXCEPT ![s] = NoPnl]
    /\ IF GoesOn(s)
       THEN /\ level' = [level EXCEPT ![s] = @ + 1]
            /\ Goto(s, "wait")
            /\ UNCHANGED row
       ELSE /\ row' = [row EXCEPT ![Current(s)] = BookedRow(result[s].pnl, @.day)]
            /\ LeaveLoop(s, TRUE)
            /\ UNCHANGED level
    /\ UNCHANGED <<day, stake, book, stop>>

(* Mutant: a loss repeats the same level.                                   *)
CloseRowSameLevel(s) ==
    /\ pc[s] = "close"
    /\ row' = [row EXCEPT ![Current(s)] = BookedRow(result[s].pnl, @.day)]
    /\ result' = [result EXCEPT ![s] = NoPnl]
    /\ IF GoesOn(s) THEN Goto(s, "wait") ELSE LeaveLoop(s, TRUE)
    /\ UNCHANGED <<day, level, stake, book, stop>>

(* _persist_trade, close_trade (a second transaction), then the loop.       *)
CloseRow(s) ==
    /\ pc[s] = "close"
    /\ row' = [row EXCEPT ![Current(s)] = BookedRow(result[s].pnl, @.day)]
    /\ result' = [result EXCEPT ![s] = NoPnl]
    /\ IF GoesOn(s)
       THEN /\ level' = [level EXCEPT ![s] = @ + 1]
            /\ Goto(s, "wait")
       ELSE /\ LeaveLoop(s, TRUE)
            /\ UNCHANGED level
    /\ UNCHANGED <<day, stake, book, stop>>

(* check_and_notify_otc_stop: an exception inside it is swallowed.          *)
NotifyStop(s) ==
    /\ pc[s] = "notify"
    /\ Goto(s, "done")
    /\ \/ ClaimAlert(Verdict)
       \/ UNCHANGED alerted
    /\ UNCHANGED <<day, leg, row, book, blind>>

(***************************************************************************)
(* The process dies, or a call outside any try raises (a transport error   *)
(* of place_trade or get_trade_history, a database error while persisting).*)
(* Celery acknowledged the task when it started: nobody takes it up again. *)
(***************************************************************************)
Fail(s) ==
    /\ pc[s] \in Executing
    /\ Goto(s, "failed")
    /\ UNCHANGED <<day, leg, row, book, stop>>

(* Midnight in the signal timezone.                                         *)
NextDay ==
    /\ day < MaxDay
    /\ day' = day + 1
    /\ UNCHANGED <<pc, leg, row, book, stop>>

Init ==
    /\ day = 1
    /\ pc = [s \in Signals |-> "new"]
    /\ level = Start
    /\ stake = [s \in Signals |-> 0]
    /\ result = [s \in Signals |-> NoPnl]
    /\ row = [k \in Legs |-> NoRow]
    /\ orders = {}
    /\ ghosts = {}
    /\ alerted = {}
    /\ blind = {}

Step(s) ==
    \/ Dispatch(s) \/ StartTask(s) \/ CheckStop(s) \/ CheckCap(s)
    \/ WaitLeg(s) \/ OpenLeg(s) \/ Settle(s) \/ CreateRow(s) \/ CloseRow(s)
    \/ NotifyStop(s)

(* A signal whose handling is over stays that way: the end of a behaviour.  *)
Quiet == (\A s \in Signals : pc[s] \in Ended) /\ day = MaxDay /\ UNCHANGED vars

Next ==
    \/ \E s \in Signals : Step(s) \/ Fail(s)
    \/ NextDay
    \/ Quiet

Spec == Init /\ [][Next]_vars

(***************************************************************************)
(* Fairness: a worker that holds a task keeps executing it (every wait in  *)
(* it has a deadline), and an idle worker takes a queued task.  Nothing    *)
(* makes a signal arrive, a process fail or a day pass.                    *)
(***************************************************************************)
Fairness ==
    \A s \in Signals : WF_vars(pc[s] # "new" /\ Step(s))

FairSpec == Spec /\ Fairness
-----------------------------------------------------------------------------
(* Types of the variables. *)
Rows == [status : {"none", "open", "closed"}, booked : BOOLEAN, pnl : Int, day : Nat]

TypeOK ==
    /\ day \in Days
    /\ pc \in [Signals -> Stages]
    /\ level \in [Signals -> Levels]
    /\ stake \in [Signals -> Int]
    /\ result \in [Signals -> [known : BOOLEAN, pnl : Int]]
    /\ row \in [Legs -> Rows]
    /\ orders \subseteq Legs
    /\ ghosts \subseteq orders
    /\ alerted \subseteq Days \X StopReasons
    /\ blind \subseteq Days

(***************************************************************************)
(* A protection leg was ordered only after the leg before it was booked as *)
(* a loss (the continue/break chain of try_execute, across the two         *)
(* transactions of _persist_trade, failures and lost answers).             *)
(***************************************************************************)
ProtectionOnlyAfterLoss ==
    \A k \in orders : k[2] > Start[k[1]] =>
        LET before == row[<<k[1], k[2] - 1>>]
        IN  before.booked /\ before.pnl < 0

(***************************************************************************)
(* No accepted binary is forgotten: its PnL is in the totals, its row is   *)
(* left open for want of a result, its handler still works on it or died   *)
(* on it, or the executor never learned that it was accepted.              *)
(***************************************************************************)
OrdersAccounted ==
    \A k \in orders :
        \/ row[k].booked
        \/ row[k].status = "open"
        \/ k \in ghosts
        \/ k = Current(k[1]) /\ pc[k[1]] \in {"settle", "create", "close", "failed"}

(***************************************************************************)
(* max_open_trades is checked before a sequence and counts rows, while a   *)
(* row appears only when a leg has no result: the rows left open exceed    *)
(* the cap by less than the number of processes.                           *)
(***************************************************************************)
PastCap == {s \in Signals : pc[s] \in {"wait", "open", "settle", "create", "close"}}

(* No more sequences run at once than there are processes to run them. *)
SlotsRespected == Cardinality(Running) <= Slots

OpenRowsBounded == Cardinality(OpenRows) + Cardinality(PastCap) <= MaxOpen - 1 + Slots

(***************************************************************************)
(* The stop loss is read once per sequence.  On a day whose evaluations    *)
(* all succeeded, the booked loss exceeds the stop by no more than one     *)
(* full martingale cycle per process.                                      *)
(***************************************************************************)
WorstStake(l) ==
    Greatest(StakeForLevel(SessionStake, Martingale, l),
             StakeForLevel(DefaultStake, Martingale, l))
WorstCycle(s) == MapThenSumSet(WorstStake, Start[s]..Prot[s])
WorstOfAll == Max({0} \cup {WorstCycle(s) : s \in Signals})

DayLossBounded ==
    Limits.lossOn /\ Limits.lossUsd > 0 =>
        \A d \in Days \ blind : DayPnl(d) > -Limits.lossUsd - Slots * WorstOfAll

(***************************************************************************)
(* The executor implements the martingale ladder.                          *)
(***************************************************************************)
OutcomeOf(r) ==
    IF ~r.booked THEN "none"
    ELSE IF r.pnl < 0 THEN "loss"
    ELSE IF r.pnl = 0 THEN "even"
    ELSE "win"

Ladder == INSTANCE OtcLadder WITH
    placed <- orders,
    booked <- [k \in Legs |-> OutcomeOf(row[k])]

ImplementsLadder == Ladder!Spec

(* A queued signal is always brought to an end. *)
QueuedConcludes == \A s \in Signals : pc[s] = "queued" ~> pc[s] \in Ended

(***************************************************************************)
(* The stop alert says "Operações pausadas até o próximo dia": after it    *)
(* was claimed for a day, no sequence passes a stop check of that day that *)
(* did read the totals.                                                    *)
(***************************************************************************)
PausedUntilNextDay ==
    [][\A s \in Signals :
          pc[s] = "guard" /\ pc'[s] = "cap" /\ day \notin blind'
              => \A r \in StopReasons : <<day, r>> \notin alerted]_vars
=============================================================================
