----------------------------- MODULE TradeEntry -----------------------------
(***************************************************************************)
(* How spot trades are opened.  Scans (Celery workers, the panel's button) *)
(* and the listener of the Tasso channel hand signals to TradeExecutor,    *)
(* which passes a gate, counts open trades three times, buys or sells,     *)
(* places protective orders, and only then writes the row that the counts  *)
(* of the others see.                                                      *)
(*                                                                         *)
(* execution/trade_executor.py, execution/gate.py,                         *)
(* bankroll/execution_context.py, the statements of                        *)
(* data/repositories/trade_repo.py and bankroll_repo.py they run, the      *)
(* order calls of execution/binance_broker.py, alerts/scheduler.py and     *)
(* tasso/executor.py as the callers.  The dry run is left out.             *)
(*                                                                         *)
(* A trade is followed until PositionMonitor's model takes over: CloseTrade *)
(* stands for all of it.                                                   *)
(***************************************************************************)
EXTENDS Integers, FiniteSets

CONSTANTS
    Workers,    \* processes and threads that may be in try_execute at a time
    Ids,        \* bound: names for the positions held at one time
    Signals,    \* the signals that the static rules of the gate let through
    Profiles,   \* the profiles they come from
    TassoKind,  \* those of kind "tasso", which pass the gate unexamined
    Cap,        \* max_open_trades of each profile
    GlobalCap,  \* TRADING_MAX_OPEN_TRADES
    OtcRows,    \* how many OTC rows may be open in the same table
    MaxFaults   \* bound: lost answers and handlers that die

(* premium: confidence "high" and no context verdict but "confirm".         *)
(* levels: the take-profits are the monitor's and not an order.            *)
SignalShape(s) ==
    /\ s.profile \in Profiles
    /\ s.buy \in BOOLEAN /\ s.levels \in BOOLEAN /\ s.premium \in BOOLEAN

ASSUME EntryAssumption ==
    /\ IsFiniteSet(Workers) /\ Workers # {}
    /\ IsFiniteSet(Ids)
    /\ \A s \in Signals : SignalShape(s)
    /\ TassoKind \subseteq Profiles
    /\ Cap \in [Profiles -> Nat \ {0}]
    /\ GlobalCap \in Nat \ {0}
    /\ OtcRows \subseteq Nat
    /\ MaxFaults \in Nat

VARIABLES
    positions,  \* what was bought or sold and not closed yet
    goal,       \* bankroll_settings.goal_reached_at is not null
    pc,         \* where each worker stands in try_execute
    mine,       \* its locals: signal, rules read, position and orders known
    late,       \* history: entries that were not premium since the goal was marked
    faults      \* bound: faults so far

vars == <<positions, goal, pc, mine, late, faults>>

Kinds == {"stop", "target"}

(* recorded: there is a row.  resting: protective orders at the exchange;   *)
(* named: those the row names.                                             *)
Positions == [id : Ids, signal : Signals, recorded : BOOLEAN,
              resting : SUBSET Kinds, named : SUBSET Kinds]

Steps == {"idle", "global", "profile", "duplicate", "order", "stop", "target", "record"}
Locals == [signal : Signals, strict : BOOLEAN, id : Ids, named : SUBSET Kinds]

Goto(w, step) == pc' = [pc EXCEPT ![w] = step]
Done(w) == Goto(w, "idle")
Fault == faults < MaxFaults /\ faults' = faults + 1

Open == {p \in positions : p.recorded}
OpenOf(profile) == {p \in Open : p.signal.profile = profile}
OpenSetup(profile, pair) == {p \in OpenOf(profile) : p.signal.pair = pair}

(***************************************************************************)
(* The bankroll.  The goal is marked by whoever looks at the panel after   *)
(* the month's PnL got there; the first reading of a new month forgets it. *)
(***************************************************************************)
MarkGoal ==
    /\ ~goal
    /\ goal' = TRUE
    /\ late' = 0
    /\ UNCHANGED <<positions, pc, mine, faults>>

NewMonth ==
    /\ goal
    /\ goal' = FALSE
    /\ late' = 0
    /\ UNCHANGED <<positions, pc, mine, faults>>

(***************************************************************************)
(* try_execute.                                                            *)
(***************************************************************************)
(* Mutant: the gate forgets the month's goal.                               *)
GateOpenUnprotected(s, strict) == s \in Signals

(* should_execute_trade, as far as it depends on what changes.              *)
GateOpen(s, strict) == s.profile \in TassoKind \/ (strict => s.premium)

(* The rules are read once; the gate and the profile's cap work on them.    *)
(* Candles and the flag shown beside the row are read in the same step.     *)
Begin(w, s) ==
    /\ pc[w] = "idle"
    /\ GateOpen(s, goal)
    /\ mine' = [mine EXCEPT ![w].signal = s, ![w].strict = goal, ![w].named = {}]
    /\ Goto(w, "global")
    /\ UNCHANGED <<positions, goal, late, faults>>

(* The three counts, each a statement of its own: go on, or be refused.     *)
Count(w, step, refused, next) ==
    /\ pc[w] = step
    /\ Goto(w, IF refused THEN "idle" ELSE next)
    /\ UNCHANGED <<positions, goal, mine, late, faults>>

(* COUNT_OPEN_TRADES_SQL counts the OTC rows of the table too.              *)
CheckGlobal(w) ==
    \E otc \in OtcRows : Count(w, "global", Cardinality(Open) + otc >= GlobalCap, "profile")

(* get_execution_profile_for: one trade per profile once the goal is met.   *)
Allowed(profile, strict) == IF strict THEN 1 ELSE Cap[profile]

(* Mutant: one trade more than the profile allows.                          *)
ProfileFullOffByOne(profile, strict) ==
    Cardinality(OpenOf(profile)) > Allowed(profile, strict)

ProfileFull(profile, strict) == Cardinality(OpenOf(profile)) >= Allowed(profile, strict)

CheckProfile(w) ==
    Count(w, "profile", ProfileFull(mine[w].signal.profile, mine[w].strict), "duplicate")

(* Mutant: the profile is left to the default of has_open_trade.            *)
DuplicateOfDefault(s) == s.profile \notin TassoKind /\ OpenSetup(s.profile, s.pair) # {}

(* has_open_trade.                                                          *)
Duplicate(s) == OpenSetup(s.profile, s.pair) # {}

CheckDuplicate(w) == Count(w, "duplicate", Duplicate(mine[w].signal), "order")

Bought(w, id) ==
    [id |-> id, signal |-> mine[w].signal, recorded |-> FALSE,
     resting |-> {}, named |-> {}]

FreeIds == Ids \ {p.id : p \in positions}

(* Mutant: levels are forgotten, and the target is ordered too.             *)
AfterStopAlways(s) == "target"

AfterStop(s) == IF s.levels THEN "record" ELSE "target"

AfterOrder(s) == IF s.buy THEN "stop" ELSE "record"

Premium(s) == s.profile \in TassoKind \/ s.premium

(* The market order of _execute_buy and _execute_sell.  No balance, a       *)
(* refusal, and an order that fills nothing end the attempt; an ExchangeError *)
(* does so too, though the order may have been executed.                    *)
Order(w) ==
    /\ pc[w] = "order"
    /\ \/ Done(w) /\ UNCHANGED <<positions, mine, late, faults>>
       \/ \E id \in FreeIds :
             /\ positions' = positions \cup {Bought(w, id)}
             /\ late' = IF goal /\ ~Premium(mine[w].signal) THEN late + 1 ELSE late
             /\ \/ mine' = [mine EXCEPT ![w].id = id]
                   /\ Goto(w, AfterOrder(mine[w].signal))
                   /\ UNCHANGED faults
                \/ Done(w) /\ Fault /\ UNCHANGED mine
    /\ UNCHANGED goal

Hers(w) == {p \in positions : p.id = mine[w].id}
Changed(w, p) == positions' = (positions \ Hers(w)) \cup {p}

(* Mutant: an order that is refused ends the attempt.                       *)
PlaceOrRaise(w, step, next) ==
    /\ pc[w] = step
    /\ \/ \E p \in Hers(w) : Changed(w, [p EXCEPT !.resting = @ \cup {step}])
          /\ mine' = [mine EXCEPT ![w].named = @ \cup {step}]
          /\ Goto(w, next)
       \/ Done(w) /\ UNCHANGED <<positions, mine>>
    /\ UNCHANGED <<goal, late, faults>>

(* place_stop_loss_limit and place_take_profit_limit answer None for every  *)
(* error: the order was refused (the price has moved, the stop order holds  *)
(* the coins), or it rests and nobody knows its number.                     *)
PlaceOrder(w, step, next) ==
    /\ pc[w] = step
    /\ \/ \E p \in Hers(w) :
             /\ Changed(w, [p EXCEPT !.resting = @ \cup {step}])
             /\ \/ mine' = [mine EXCEPT ![w].named = @ \cup {step}] /\ UNCHANGED faults
                \/ UNCHANGED mine /\ Fault
       \/ UNCHANGED <<positions, mine, faults>>
    /\ Goto(w, next)
    /\ UNCHANGED <<goal, late>>

PlaceStop(w) == PlaceOrder(w, "stop", AfterStop(mine[w].signal))
PlaceTarget(w) == PlaceOrder(w, "target", "record")

(* create_trade, last.                                                      *)
CreateTrade(w) ==
    /\ pc[w] = "record"
    /\ \E p \in Hers(w) : Changed(w, [p EXCEPT !.recorded = TRUE, !.named = mine[w].named])
    /\ Done(w)
    /\ UNCHANGED <<goal, mine, late, faults>>

(* An exception that try_execute does not catch (the candles, the database, *)
(* any other than ExchangeError), or the death of the process.              *)
Fail(w) ==
    /\ pc[w] # "idle"
    /\ Fault
    /\ Done(w)
    /\ UNCHANGED <<positions, goal, mine, late>>

(* close_trade, by whoever closes it; what rests for it goes with it.       *)
CloseTrade(p) ==
    /\ positions' = positions \ {p}
    /\ UNCHANGED <<goal, pc, mine, late, faults>>

Init ==
    /\ positions = {}
    /\ goal = FALSE
    /\ pc = [w \in Workers |-> "idle"]
    /\ mine \in [Workers -> {m \in Locals : ~m.strict /\ m.named = {}}]
    /\ late = 0
    /\ faults = 0

Step(w) ==
    \/ \E s \in Signals : Begin(w, s)
    \/ CheckGlobal(w) \/ CheckProfile(w) \/ CheckDuplicate(w)
    \/ Order(w) \/ PlaceStop(w) \/ PlaceTarget(w) \/ CreateTrade(w)
    \/ Fail(w)

Next ==
    \/ \E w \in Workers : Step(w)
    \/ \E p \in Open : CloseTrade(p)
    \/ MarkGoal
    \/ NewMonth

Spec == Init /\ [][Next]_vars

-----------------------------------------------------------------------------
Busy(w, steps) == pc[w] \in steps
Holding == {"stop", "target", "record"}
Holds(w, p) == Busy(w, Holding) /\ mine[w].id = p.id

(* Types, and: a position has one name, a worker past its order has its     *)
(* position without a row, and the orders that rest for a position are      *)
(* those the monitor expects of its kind: none for a sell, no target where  *)
(* the take-profits are levels.                                             *)
TypeOK ==
    /\ positions \subseteq Positions
    /\ goal \in BOOLEAN
    /\ pc \in [Workers -> Steps]
    /\ mine \in [Workers -> Locals]
    /\ late \in Nat
    /\ faults \in 0..MaxFaults
    /\ \A p, q \in positions : p.id = q.id => p = q
    /\ \A w \in Workers : Busy(w, Holding) =>
          \E p \in Hers(w) : ~p.recorded /\ p.signal = mine[w].signal
    /\ \A p \in positions :
          p.resting \subseteq (IF ~p.signal.buy THEN {}
                               ELSE IF p.signal.levels THEN {"stop"} ELSE Kinds)

(* No cap is overrun by more than the workers that were past its count,     *)
(* however long these take and whatever closes meanwhile: the global cap    *)
(* and each profile's.                                                      *)
CapsOverrunOnlyInFlight ==
    /\ Cardinality(Open) < GlobalCap + Cardinality(Workers)
    /\ \A f \in Profiles : Cardinality(OpenOf(f)) < Cap[f] + Cardinality(Workers)

(* A pair has at most one open trade per profile and worker, in whatever    *)
(* direction: one, if a single worker runs (has_open_trade).                *)
OneTradePerSetup ==
    \A p \in Open :
        Cardinality(OpenSetup(p.signal.profile, p.signal.pair)) <= Cardinality(Workers)

(* Whatever is held is in the hands of a worker, or has a row that names    *)
(* every order resting for it; the exceptions are no more than the faults,  *)
(* although no step of the way is repeated or undone.                       *)
OnlyFaultsLoseTrack ==
    Cardinality({p \in positions :
        /\ \A w \in Workers : ~Holds(w, p)
        /\ p.recorded => ~(p.resting \subseteq p.named)}) <= faults

(* After the month's goal is marked, "só entradas de alta certeza": what    *)
(* else is entered had read the rules before, at most once per worker.      *)
ProtectedAfterGoal == goal => late <= Cardinality(Workers)
=============================================================================
