-------------------------- MODULE PositionMonitor --------------------------
(***************************************************************************)
(* The life of one spot trade after its entry: its row, the orders that    *)
(* rest at the exchange for it, and those who act on both.  Runs of the    *)
(* position monitor read the open trades once and then work on that copy;  *)
(* the listener of the Tasso channel moves stops and closes trades on the  *)
(* channel's word.  Every SQL statement and every call of the exchange is  *)
(* a step of its own, and nothing keeps two handlers apart.                *)
(*                                                                         *)
(* execution/position_monitor.py, profiles/exit_policy.py,                 *)
(* tasso/trade_close.py, tasso/trade_update.py, the statements on a trade  *)
(* of data/repositories/trade_repo.py and the order calls of               *)
(* execution/binance_broker.py.  The dry run, in which these handlers      *)
(* change nothing, is left out.                                            *)
(*                                                                         *)
(* Prices stand on the trade's own scale, mirrored for a sell: the entry   *)
(* is at 0, the first stop at -1, the k-th take-profit level at k.  PnL is *)
(* counted in units of quantity that have been accounted for.              *)
(***************************************************************************)
EXTENDS Integers, Sequences, FiniteSets

CONSTANTS
    Monitors,   \* concurrent runs of monitor_open_trades (Celery processes)
    Listeners,  \* processes that handle the messages of the Tasso channel
    Plans,      \* the trades explored: direction, levels, profile rules
    Quantity,   \* what was bought (or sold) at entry
    Slip,       \* how far a purchase by value misses its quantity
    NewStops,   \* the stops the channel may announce
    MaxOrders,  \* bound: no stop update begins with so many orders placed
    MaxFaults   \* bound: failed calls and handlers that die

(* levels = 0 is a trade with one take-profit; breakeven = 0 moves no stop. *)
Plan == [buy : BOOLEAN, levels : Nat, breakeven : Nat, timeStop : BOOLEAN, tasso : BOOLEAN]

ASSUME PositionAssumption ==
    /\ Monitors \cap Listeners = {}
    /\ Plans \subseteq Plan
    /\ Quantity \in Nat \ {0}
    /\ Slip \in Nat
    /\ NewStops \subseteq Int
    /\ MaxOrders \in Nat
    /\ MaxFaults \in Nat

Handlers == Monitors \cup Listeners

VARIABLES
    plan,    \* what of the trade never changes
    row,     \* its row in the table trades
    orders,  \* the protective orders placed for it, by number; 0 is none
    sold,    \* history: the quantity that left the position at the exchange
    price,   \* the market
    pc,      \* where each handler stands
    mine,    \* what it remembers: its copy of the row and what it is about to write
    faults   \* bound: faults so far

vars == <<plan, row, orders, sold, price, pc, mine, faults>>

None == 0
Bottom == -1
Entry == 0
Partial == plan.levels > 0
Top == IF Partial THEN plan.levels ELSE 1
Prices == Bottom..Top

Steps == {"tp", "stop", "price", "sellPart", "sellAll", "record", "close",
          "cancel", "place", "restop", "clearStop", "clearTp"}

Rows == [status : {"open", "closed"}, remaining : Int, taken : Nat, realized : Int,
         booked : Int, stop : Int, stopOrder : Nat, tpOrder : Nat]
Orders == [kind : {"stop", "tp"}, qty : Int, at : Int, status : {"open", "filled", "canceled"}]

NewRow(stopOrder, tpOrder) ==
    [status |-> "open", remaining |-> Quantity, taken |-> 0, realized |-> 0,
     booked |-> 0, stop |-> Bottom, stopOrder |-> stopOrder, tpOrder |-> tpOrder]
NewOrder(kind, qty, at) == [kind |-> kind, qty |-> qty, at |-> at, status |-> "open"]

(* A handler between two trades remembers nothing that matters.             *)
Blank == [row |-> NewRow(None, None), deal |-> 0, stop |-> Bottom, order |-> None]
Copy == [Blank EXCEPT !.row = row]

Goto(h, step) == pc' = [pc EXCEPT ![h] = step]
Keep(h, m) == mine' = [mine EXCEPT ![h] = m]
Done(h) == Goto(h, "idle") /\ Keep(h, Blank)
Fault == faults < MaxFaults /\ faults' = faults + 1

(***************************************************************************)
(* The exchange.                                                           *)
(***************************************************************************)

(* A market order of a buy's exit fills whole; one of a sell's exit is by   *)
(* quote value, at a price that has moved since.                            *)
Fills(q) == IF plan.buy THEN {q} ELSE {f \in (q - Slip)..(q + Slip) : f > 0}

(* The price at which an order would execute.  Every protective order is a  *)
(* sale: of the position for a buy, the wrong way for a sell.               *)
Executes(o) ==
    IF o.kind = "tp" THEN price >= o.at
    ELSE IF plan.buy THEN price <= o.at ELSE price >= o.at

Leaves(o) == IF plan.buy THEN o.qty ELSE -o.qty

Execute(i) ==
    /\ orders[i].status = "open"
    /\ Executes(orders[i])
    /\ orders' = [orders EXCEPT ![i].status = "filled"]
    /\ sold' = sold + Leaves(orders[i])
    /\ UNCHANGED <<plan, row, price, pc, mine, faults>>

MovePrice ==
    /\ price' \in Prices \ {price}
    /\ UNCHANGED <<plan, row, orders, sold, pc, mine, faults>>

(* Mutant: the answer of fetch_order is read the other way round.           *)
SeemsFilledInverted(id) == id # None /\ orders[id].status = "open"

(* _order_closed: an order counts as executed when it is no longer open,    *)
(* cancelled or not, and has a price, as these orders always have.          *)
SeemsFilled(id) == id # None /\ orders[id].status # "open"

(* cancel_order swallows every error: the order may be gone already.        *)
Cancelled(id) ==
    IF id # None /\ orders[id].status = "open"
    THEN [orders EXCEPT ![id].status = "canceled"]
    ELSE orders

CancelOrder(id) ==
    \/ orders' = Cancelled(id) /\ UNCHANGED faults
    \/ UNCHANGED orders /\ Fault

(***************************************************************************)
(* A run of the monitor, for this trade.  list_open_trades made its copy.  *)
(***************************************************************************)
FirstCheck == IF Partial THEN "stop" ELSE IF plan.buy THEN "tp" ELSE "price"

(* _apply_time_stop comes first; whether the time is up is for the candles. *)
Watch(m) ==
    /\ pc[m] = "idle"
    /\ row.status = "open"
    /\ Keep(m, Copy)
    /\ \/ Goto(m, FirstCheck)
       \/ plan.timeStop /\ Goto(m, "sellAll")
    /\ UNCHANGED <<plan, row, orders, sold, price, faults>>

(* The protective orders: one that executed closes the row, for all that    *)
(* the copy says is left.                                                   *)
CheckOrder(m, step, id, next) ==
    /\ pc[m] = step
    /\ IF SeemsFilled(id)
       THEN Goto(m, "close") /\ Keep(m, [mine[m] EXCEPT !.deal = mine[m].row.remaining])
       ELSE Goto(m, next) /\ UNCHANGED mine
    /\ UNCHANGED <<plan, row, orders, sold, price, faults>>

CheckTp(m) == CheckOrder(m, "tp", mine[m].row.tpOrder, "stop")
CheckStop(m) == CheckOrder(m, "stop", mine[m].row.stopOrder, "price")

(* Mutant: the last level is not recognised.                                *)
PartQuantityFlat(r) ==
    LET part == Quantity \div plan.levels IN
    IF part > r.remaining THEN r.remaining ELSE part

(* partial_close_quantity: the last level takes what is left.               *)
PartQuantity(r) ==
    LET part == Quantity \div plan.levels IN
    IF r.taken >= plan.levels - 1 \/ part > r.remaining THEN r.remaining ELSE part

StopReached(r) == price <= r.stop

(* Mutant: the price is compared with the level after the next.             *)
LevelReachedLate(r) == Partial /\ r.taken < plan.levels /\ price > r.taken + 1

LevelReached(r) == Partial /\ r.taken < plan.levels /\ price > r.taken

LookAtPrice(m) ==
    LET r == mine[m].row IN
    /\ pc[m] = "price"
    /\ \/ StopReached(r) /\ Goto(m, "sellAll") /\ UNCHANGED mine
       \/ ~StopReached(r) /\ ~Partial /\ price >= Top /\ Goto(m, "sellAll") /\ UNCHANGED mine
       \/ ~StopReached(r) /\ LevelReached(r) /\ PartQuantity(r) > 0
          /\ Goto(m, "sellPart") /\ UNCHANGED mine
       \/ ~StopReached(r) /\ ~(LevelReached(r) /\ PartQuantity(r) > 0)
          /\ (Partial \/ price < Top) /\ Done(m)
    /\ UNCHANGED <<plan, row, orders, sold, price, faults>>

(* Mutant: one level too many is waited for.                                *)
SequelOffByOne(r, deal) == IF r.taken + 1 > plan.levels THEN "close" ELSE "record"

(* What follows a part that was sold: the last one closes the trade.        *)
Sequel(r, deal) ==
    IF r.taken + 1 >= plan.levels \/ r.remaining - deal <= 0 THEN "close" ELSE "record"

(* _execute_partial_take_profit: the order, whose answer can be lost.  One  *)
(* that is refused raises, and is a case of Fail.                           *)
SellPart(m) ==
    LET r == mine[m].row IN
    /\ pc[m] = "sellPart"
    /\ \E f \in Fills(PartQuantity(r)) :
          /\ sold' = sold + f
          /\ \/ Keep(m, [mine[m] EXCEPT !.deal = f]) /\ Goto(m, Sequel(r, f))
                /\ UNCHANGED faults
             \/ Done(m) /\ Fault
    /\ UNCHANGED <<plan, row, orders, price>>

(* _market_close and TassoStopCloser: sell what the copy says is left,      *)
(* which TypeOK shows to be never nothing.                                  *)
SellAll(h) ==
    LET q == mine[h].row.remaining IN
    /\ pc[h] = "sellAll"
    /\ \E f \in Fills(q) :
          /\ sold' = sold + f
          /\ \/ Keep(h, [mine[h] EXCEPT !.deal = q]) /\ Goto(h, "close") /\ UNCHANGED faults
             \/ Done(h) /\ Fault
    /\ UNCHANGED <<plan, row, orders, price>>

(* record_partial_close, and the way to the breakeven stop after its level. *)
AfterRecord(r) ==
    IF r.taken # plan.breakeven THEN "idle"
    ELSE IF ~plan.buy THEN "restop"
    ELSE IF r.stopOrder # None THEN "cancel" ELSE "place"

(* Mutant: the PnL of the part is not added to what was realized.           *)
RecordedUnbooked(r, deal) == [r EXCEPT !.remaining = @ - deal, !.taken = @ + 1]

Recorded(r, deal) ==
    [r EXCEPT !.remaining = @ - deal, !.taken = @ + 1, !.realized = @ + deal]

Record(m) ==
    LET r == Recorded(mine[m].row, mine[m].deal)
        next == AfterRecord(r)
    IN
    /\ pc[m] = "record"
    /\ row' = [row EXCEPT !.remaining = r.remaining, !.taken = r.taken, !.realized = r.realized]
    /\ Goto(m, next)
    /\ Keep(m, IF next = "idle" THEN Blank
               ELSE [row |-> r, deal |-> 0, stop |-> Entry, order |-> None])
    /\ UNCHANGED <<plan, orders, sold, price, faults>>

(* close_trade: by number, whatever the row says by now.                    *)
Close(h) ==
    /\ pc[h] = "close"
    /\ row' = [row EXCEPT !.status = "closed", !.booked = mine[h].row.realized + mine[h].deal]
    /\ Done(h)
    /\ UNCHANGED <<plan, orders, sold, price, faults>>

(***************************************************************************)
(* Moving the stop: the old order is cancelled, a new one placed, and the  *)
(* row written, by the monitor and by TassoTradeUpdater alike.             *)
(***************************************************************************)
Cancel(h) ==
    /\ pc[h] = "cancel"
    /\ CancelOrder(mine[h].row.stopOrder)
    /\ Goto(h, "place")
    /\ UNCHANGED <<plan, row, sold, price, mine>>

(* place_stop_loss_limit answers None for every error; the exchange refuses *)
(* an order that would execute at once, and may have taken one whose answer *)
(* is lost.                                                                 *)
Place(h) ==
    LET o == NewOrder("stop", mine[h].row.remaining, mine[h].stop) IN
    /\ pc[h] = "place"
    /\ \/ ~Executes(o) /\ orders' = Append(orders, o)
          /\ \/ Keep(h, [mine[h] EXCEPT !.order = Len(orders')]) /\ UNCHANGED faults
             \/ UNCHANGED mine /\ Fault
       \/ UNCHANGED <<orders, mine>> /\ (IF Executes(o) THEN UNCHANGED faults ELSE Fault)
    /\ Goto(h, "restop")
    /\ UNCHANGED <<plan, row, sold, price>>

(* Mutant: update_stop_loss writes the price and forgets the order.         *)
RestopKeepsOrder(h) ==
    /\ pc[h] = "restop"
    /\ row' = [row EXCEPT !.stop = mine[h].stop]
    /\ Done(h)
    /\ UNCHANGED <<plan, orders, sold, price, faults>>

(* update_stop_loss.                                                        *)
Restop(h) ==
    /\ pc[h] = "restop"
    /\ row' = [row EXCEPT !.stop = mine[h].stop, !.stopOrder = mine[h].order]
    /\ Done(h)
    /\ UNCHANGED <<plan, orders, sold, price, faults>>

(***************************************************************************)
(* The channel: a new stop for the open trade, or its stop was hit.        *)
(***************************************************************************)
FindsTrade(l) == pc[l] = "idle" /\ row.status = "open" /\ plan.tasso

ReceiveUpdate(l, stop) ==
    /\ FindsTrade(l)
    /\ stop # row.stop
    /\ row.remaining > 0
    /\ Len(orders) < MaxOrders
    /\ Keep(l, [Copy EXCEPT !.stop = stop])
    /\ Goto(l, IF row.stopOrder # None THEN "cancel" ELSE "place")
    /\ UNCHANGED <<plan, row, orders, sold, price, faults>>

ReceiveStopHit(l) ==
    /\ FindsTrade(l)
    /\ row.remaining > 0
    /\ Keep(l, Copy)
    /\ Goto(l, "clearStop")
    /\ UNCHANGED <<plan, row, orders, sold, price, faults>>

(* TassoStopCloser cancels both orders before it sells.                     *)
Clear(l, step, id, next) ==
    /\ pc[l] = step
    /\ IF id = None THEN UNCHANGED <<orders, faults>> ELSE CancelOrder(id)
    /\ Goto(l, next)
    /\ UNCHANGED <<plan, row, sold, price, mine>>

ClearStop(l) == Clear(l, "clearStop", mine[l].row.stopOrder, "clearTp")
ClearTp(l) == Clear(l, "clearTp", mine[l].row.tpOrder, "sellAll")

(* An exception, or the death of the process, between any two steps.        *)
Fail(h) ==
    /\ pc[h] # "idle"
    /\ Fault
    /\ Done(h)
    /\ UNCHANGED <<plan, row, orders, sold, price>>

(***************************************************************************)
(* As TradeExecutor leaves a trade: a buy has a stop order, and a target    *)
(* order if it has no levels; the exchange may have refused either.        *)
(***************************************************************************)
InitialOrders == {<<>>} \cup
    (IF ~plan.buy THEN {}
     ELSE LET stop == NewOrder("stop", Quantity, Bottom)
              tp == NewOrder("tp", Quantity, Top)
          IN {<<stop>>} \cup (IF Partial THEN {} ELSE {<<tp>>, <<stop, tp>>}))

OrderOf(os, kind) ==
    IF \E i \in DOMAIN os : os[i].kind = kind
    THEN CHOOSE i \in DOMAIN os : os[i].kind = kind
    ELSE None

Init ==
    /\ plan \in Plans
    /\ orders \in InitialOrders
    /\ row = NewRow(OrderOf(orders, "stop"), OrderOf(orders, "tp"))
    /\ sold = 0
    /\ price = Entry
    /\ pc = [h \in Handlers |-> "idle"]
    /\ mine = [h \in Handlers |-> Blank]
    /\ faults = 0

Work(h) ==
    \/ SellAll(h) \/ Close(h)
    \/ Cancel(h) \/ Place(h) \/ Restop(h)
MonitorStep(m) ==
    \/ CheckTp(m) \/ CheckStop(m) \/ LookAtPrice(m)
    \/ SellPart(m) \/ Record(m) \/ Work(m)
ListenerStep(l) == ClearStop(l) \/ ClearTp(l) \/ Work(l)

Next ==
    \/ \E m \in Monitors : Watch(m) \/ MonitorStep(m)
    \/ \E l \in Listeners :
          \/ \E stop \in NewStops : ReceiveUpdate(l, stop)
          \/ ReceiveStopHit(l)
          \/ ListenerStep(l)
    \/ \E h \in Handlers : Fail(h)
    \/ \E i \in DOMAIN orders : Execute(i)
    \/ MovePrice

Spec == Init /\ [][Next]_vars

(* Beat sends a run every minute and a run that works goes on to its end,   *)
(* as does a message that is handled; the market and the exchange owe       *)
(* nothing.                                                                 *)
Fairness ==
    /\ \A m \in Monitors : WF_vars(Watch(m)) /\ WF_vars(MonitorStep(m))
    /\ \A l \in Listeners : WF_vars(ListenerStep(l))

FairSpec == Spec /\ Fairness

-----------------------------------------------------------------------------
(* Rows, orders and copies keep their types, and whoever holds a copy of an *)
(* open trade has something left to sell: no step that halves, subtracts or *)
(* overwrites quantities leaves an open trade without any.                  *)
Memories == [row : Rows, deal : Int, stop : Int, order : Nat]
TypeOK ==
    /\ plan \in Plans
    /\ row \in Rows
    /\ orders \in Seq(Orders)
    /\ sold \in Int
    /\ price \in Prices
    /\ pc \in [Handlers -> Steps \cup {"idle"}]
    /\ mine \in [Handlers -> Memories]
    /\ faults \in 0..MaxFaults
    /\ row.remaining > 0
    /\ \A h \in Handlers : mine[h].row.remaining > 0

(* The PnL of a closed buy is that of its whole quantity, no part left out  *)
(* or counted twice, whichever of the handlers at work closed it last and   *)
(* however old its copy was (realized_pnl_usdt and remaining_quantity of    *)
(* record_partial_close, close_trade).                                      *)
BookedWhole == plan.buy /\ row.status = "closed" => row.booked = Quantity

(* Without faults, the stop order an open row names has been cancelled only *)
(* while whoever cancelled it is still about to write another or to close:  *)
(* update_stop_loss of a slower handler never brings a dead order back.     *)
NamedStopIsLive ==
    row.status = "open" /\ row.stopOrder # None /\ faults = 0
    /\ orders[row.stopOrder].status = "canceled"
        => \E h \in Handlers :
              /\ mine[h].row.stopOrder = row.stopOrder
              /\ pc[h] \in {"place", "restop", "clearTp", "sellAll", "close"}

(* One monitor at a time and no faults: a buy whose stop the channel does   *)
(* not move is closed only after all of it was sold, through the monitor's  *)
(* orders or the resting ones (_order_closed, _finalize_close).             *)
ClosedMeansSold ==
    plan.buy /\ ~plan.tasso /\ row.status = "closed" /\ faults = 0 => sold >= Quantity

(* A price that stays at the stop or at the last level closes the trade,    *)
(* whatever level it was at and in spite of faults.                         *)
ExitsWhenDecided == <>[](price \in {Bottom, Top}) => <>(row.status = "closed")

(* The row of a trade follows the plan of its exits, level by level, under  *)
(* one monitor and the channel's listener, with faults.                     *)
WhileOpen(value) == IF row.status = "open" THEN value ELSE 0
Exits == INSTANCE ScaleOut WITH
    status <- row.status, booked <- row.booked, remaining <- WhileOpen(row.remaining),
    taken <- WhileOpen(row.taken), stop <- WhileOpen(row.stop)
ImplementsScaleOut == Exits!Spec

(* The design of the partial exits has TP1, TP2 and TP3 close a third, a     *)
(* third and the remainder: a buy closed after its second level has sold    *)
(* what was bought.                                                         *)
PartsMakeTheWhole ==
    plan.buy /\ row.status = "closed" /\ row.taken = 2 => sold = Quantity
=============================================================================
