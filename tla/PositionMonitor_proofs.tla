----------------------- MODULE PositionMonitor_proofs -----------------------
(***************************************************************************)
(* Theorems about PositionMonitor for every plan and quantity.  For every  *)
(* number of monitors and listeners: types and the PnL of a closed buy,    *)
(* with any faults, and without faults that no dead stop order comes back  *)
(* into the row.  For one monitor at a time: without faults a closed buy   *)
(* is sold, and with them the row implements ScaleOut.                     *)
(***************************************************************************)
EXTENDS PositionMonitor, TLAPS

(* What is left and what was accounted for are always written together, so  *)
(* every copy of the row adds up to the whole, however old it is.           *)
Whole(r) == r.remaining > 0 /\ r.realized + r.remaining = Quantity

(* What a handler is about to write, by the step it stands at.              *)
Deals(h) ==
    /\ pc[h] = "sellPart" => Partial
    /\ pc[h] = "record" => mine[h].row.remaining - mine[h].deal > 0
    /\ pc[h] = "close" /\ plan.buy => mine[h].deal = mine[h].row.remaining

WholeInv ==
    /\ TypeOK
    /\ Whole(row)
    /\ \A h \in Handlers : Whole(mine[h].row) /\ Deals(h)
    /\ BookedWhole

-----------------------------------------------------------------------------
(* Cancelling or executing an order changes nothing but its status.         *)
LEMMA StatusKeepsOrders ==
    ASSUME NEW os \in Seq(Orders), NEW i, NEW s \in {"open", "filled", "canceled"}
    PROVE  [os EXCEPT ![i].status = s] \in Seq(Orders)
<1> DEFINE n == Len(os)
           o == [os[i] EXCEPT !.status = s]
<1>1. os \in [1..n -> Orders] /\ n \in Nat
  OBVIOUS
<1>2. i \in 1..n => o \in Orders
  BY <1>1 DEF Orders
<1>3. [os EXCEPT ![i] = o] \in [1..n -> Orders]
  <2> HIDE DEF n, o
  <2> QED
    BY <1>1, <1>2
<1> HIDE DEF n, o
<1>4. [os EXCEPT ![i] = o] \in Seq(Orders)
  BY <1>1, <1>3, SMTT(30)
<1> QED
  BY <1>4 DEF o

(* A cancel call leaves a sequence of orders, whichever way it goes.        *)
LEMMA CancelKeepsTypes ==
    ASSUME TypeOK, NEW id, CancelOrder(id)
    PROVE  orders' \in Seq(Orders) /\ faults' \in 0..MaxFaults
<1>1. [orders EXCEPT ![id].status = "canceled"] \in Seq(Orders)
  BY StatusKeepsOrders DEF TypeOK
<1>2. orders' \in {[orders EXCEPT ![id].status = "canceled"], orders}
  BY DEF CancelOrder, Cancelled
<1>3. faults' \in 0..MaxFaults
  BY PositionAssumption DEF CancelOrder, Fault, TypeOK
<1> QED
  BY <1>1, <1>2, <1>3 DEF TypeOK

(* Init.                                                                    *)
LEMMA InitWhole == Init => WholeInv
<1> SUFFICES ASSUME Init PROVE WholeInv
  OBVIOUS
<1> USE PositionAssumption DEF None
<1>1. orders \in Seq(Orders)
  <2> DEFINE st == NewOrder("stop", Quantity, Bottom)
             tp == NewOrder("tp", Quantity, Top)
  <2>1. Top \in Int /\ Bottom \in Int
    BY DEF Init, Top, Bottom, Partial, Plan
  <2>2. st \in Orders /\ tp \in Orders
    BY <2>1 DEF NewOrder, Orders
  <2>3. orders = <<>> \/ orders = <<st>> \/ orders = <<tp>> \/ orders = <<st, tp>>
    BY Zenon DEF Init, InitialOrders
  <2> HIDE DEF st, tp
  <2>4. <<>> \in Seq(Orders) /\ <<st>> \in Seq(Orders) /\ <<tp>> \in Seq(Orders)
        /\ <<st, tp>> \in Seq(Orders)
    BY <2>2
  <2> QED
    BY <2>3, <2>4
<1>2. \A k : OrderOf(orders, k) \in Nat
  <2>1. DOMAIN orders \subseteq Nat
    BY <1>1
  <2> QED
    BY <2>1 DEF OrderOf
<1>3. \A a, b \in Nat : NewRow(a, b) \in Rows /\ Whole(NewRow(a, b))
  BY DEF NewRow, Rows, Whole, Bottom
<1>4. row \in Rows /\ Whole(row) /\ row.status = "open"
  BY <1>2, <1>3 DEF Init, NewRow
<1>5. Blank \in Memories /\ Whole(Blank.row)
  BY <1>3 DEF Blank, Memories, Bottom
<1>6. price \in Prices
  BY DEF Init, Entry, Prices, Bottom, Top, Partial, Plan
<1>7. \A h \in Handlers : pc[h] = "idle" /\ mine[h] = Blank
  BY DEF Init
<1>8. TypeOK
  <2>1. plan \in Plans /\ sold \in Int /\ faults \in 0..MaxFaults
    BY DEF Init
  <2>2. pc \in [Handlers -> Steps \cup {"idle"}] /\ mine \in [Handlers -> Memories]
    BY <1>5 DEF Init
  <2>3. row.remaining > 0 /\ \A h \in Handlers : mine[h].row.remaining > 0
    BY <1>4, <1>5, <1>7 DEF Whole
  <2> QED
    BY <1>1, <1>4, <1>6, <2>1, <2>2, <2>3 DEF TypeOK
<1> QED
  BY <1>4, <1>5, <1>7, <1>8 DEF WholeInv, Deals, BookedWhole

(* What must hold of a handler's step and memory for it to be in order.     *)
Fit(step, m) ==
    /\ step \in Steps \cup {"idle"}
    /\ m \in Memories
    /\ Whole(m.row)
    /\ step = "sellPart" => Partial
    /\ step = "record" => m.row.remaining - m.deal > 0
    /\ step = "close" /\ plan.buy => m.deal = m.row.remaining

HandlersFit ==
    /\ pc \in [Handlers -> Steps \cup {"idle"}]
    /\ mine \in [Handlers -> Memories]
    /\ \A h \in Handlers : Fit(pc[h], mine[h])

(* The rest of the invariant: what handlers share.                          *)
Shared ==
    /\ plan \in Plans
    /\ row \in Rows /\ Whole(row) /\ BookedWhole
    /\ orders \in Seq(Orders)
    /\ sold \in Int
    /\ price \in Prices
    /\ faults \in 0..MaxFaults

LEMMA WholeInvParts == WholeInv <=> HandlersFit /\ Shared
<1>1. WholeInv => HandlersFit /\ Shared
  BY DEF WholeInv, TypeOK, HandlersFit, Shared, Fit, Deals
<1>2. HandlersFit /\ Shared => WholeInv
  BY DEF WholeInv, TypeOK, HandlersFit, Shared, Fit, Deals, Whole
<1> QED
  BY <1>1, <1>2

(* A step of one handler leaves the others in order.                        *)
LEMMA OneMoves ==
    ASSUME HandlersFit, NEW h \in Handlers, NEW step, NEW m, Fit(step, m),
           plan' = plan, Goto(h, step), Keep(h, m)
    PROVE  HandlersFit'
<1>1. pc' \in [Handlers -> Steps \cup {"idle"}] /\ mine' \in [Handlers -> Memories]
  BY DEF HandlersFit, Goto, Keep, Fit
<1>2. ASSUME NEW g \in Handlers PROVE Fit(pc[g], mine[g])'
  <2>1. pc'[g] = (IF g = h THEN step ELSE pc[g]) /\ mine'[g] = (IF g = h THEN m ELSE mine[g])
    BY DEF HandlersFit, Goto, Keep
  <2>2. Fit(IF g = h THEN step ELSE pc[g], IF g = h THEN m ELSE mine[g])
    BY DEF HandlersFit
  <2> QED
    BY <2>1, <2>2 DEF Fit, Partial
<1> QED
  BY <1>1, <1>2 DEF HandlersFit

LEMMA OneMovesOn ==
    ASSUME HandlersFit, NEW h \in Handlers, NEW step, Fit(step, mine[h]),
           plan' = plan, Goto(h, step), mine' = mine
    PROVE  HandlersFit'
<1>1. Keep(h, mine[h])
  BY DEF Keep, HandlersFit
<1> QED
  BY <1>1, OneMoves

LEMMA BlankFits == Fit("idle", Blank)
BY PositionAssumption DEF Fit, Blank, Memories, NewRow, Rows, Whole, None, Bottom, Steps

LEMMA OneIsDone ==
    ASSUME HandlersFit, NEW h \in Handlers, plan' = plan, Done(h)
    PROVE  HandlersFit'
BY BlankFits, OneMoves DEF Done

(* What keeps the shared part: the plan, and a row and orders in order.     *)
LEMMA SharedKept ==
    ASSUME Shared, plan' = plan, price' = price, row' \in Rows, Whole(row'),
           BookedWhole', orders' \in Seq(Orders), sold' \in Int, faults' \in 0..MaxFaults
    PROVE  Shared'
BY DEF Shared, Whole, Prices, Top, Partial, Bottom

(* As long as the row stays, so do the facts about it.                      *)
LEMMA RowKept ==
    ASSUME Shared, plan' = plan, row' = row
    PROVE  row' \in Rows /\ Whole(row') /\ BookedWhole'
BY DEF Shared, Whole, BookedWhole

(* The checks of a monitor's run: copy, orders, price.                      *)
LEMMA ChecksKeepWhole ==
    ASSUME HandlersFit, Shared, NEW m \in Monitors,
           Watch(m) \/ CheckTp(m) \/ CheckStop(m) \/ LookAtPrice(m)
    PROVE  (HandlersFit /\ Shared)'
<1> USE DEF Handlers
<1>1. m \in Handlers /\ Fit(pc[m], mine[m])
  BY DEF HandlersFit
<1>2. Shared'
  <2>1. UNCHANGED <<plan, row, orders, sold, price, faults>>
    BY DEF Watch, CheckTp, CheckStop, CheckOrder, LookAtPrice
  <2> QED
    BY <2>1 DEF Shared, BookedWhole, Whole, Prices, Top, Partial, Bottom
<1>3. CASE Watch(m)
  <2>1. Copy \in Memories /\ Whole(Copy.row)
    BY BlankFits DEF Copy, Fit, Memories, Shared
  <2>2. PICK step \in {FirstCheck, "sellAll"} : Goto(m, step)
    BY <1>3 DEF Watch
  <2>3. Fit(step, Copy)
    BY <2>1 DEF Fit, FirstCheck, Steps
  <2> QED
    BY <1>1, <1>2, <1>3, <2>2, <2>3, OneMoves DEF Watch
<1>4. ASSUME NEW s, NEW id, NEW next \in {"stop", "price"}, CheckOrder(m, s, id, next)
      PROVE  HandlersFit'
  <2>1. CASE SeemsFilled(id)
    <3> DEFINE new == [mine[m] EXCEPT !.deal = mine[m].row.remaining]
    <3>1. Fit("close", new)
      BY <1>1 DEF Fit, Memories, Rows, Steps, Whole
    <3>2. Goto(m, "close") /\ Keep(m, new) /\ plan' = plan
      BY <1>4, <2>1 DEF CheckOrder
    <3> HIDE DEF new
    <3> QED
      BY <1>1, <3>1, <3>2, OneMoves
  <2>2. CASE ~SeemsFilled(id)
    <3>1. Goto(m, next) /\ mine' = mine /\ plan' = plan
      BY <1>4, <2>2 DEF CheckOrder
    <3>2. Fit(next, mine[m])
      BY <1>1 DEF Fit, Steps
    <3> QED
      BY <1>1, <3>1, <3>2, OneMovesOn
  <2> QED
    BY <2>1, <2>2
<1>5. CASE CheckTp(m) \/ CheckStop(m)
  BY <1>2, <1>4, <1>5 DEF CheckTp, CheckStop
<1>6. CASE LookAtPrice(m)
  <2>1. CASE Done(m)
    BY <1>1, <1>2, <1>6, <2>1, OneIsDone DEF LookAtPrice
  <2>2. ASSUME NEW step \in {"sellAll", "sellPart"}, Goto(m, step), mine' = mine,
               step = "sellPart" => Partial
        PROVE  HandlersFit'
    <3>1. Fit(step, mine[m])
      BY <1>1, <2>2 DEF Fit, Steps
    <3> QED
      BY <1>1, <1>6, <2>2, <3>1, OneMovesOn DEF LookAtPrice
  <2>3. \/ Done(m)
        \/ Goto(m, "sellAll") /\ mine' = mine
        \/ Goto(m, "sellPart") /\ mine' = mine /\ Partial
    BY <1>6 DEF LookAtPrice, LevelReached
  <2> QED
    BY <1>2, <2>1, <2>2, <2>3
<1> QED
  BY <1>2, <1>3, <1>5, <1>6

(* A buy's exit sells what was asked, a sell's buys back some quantity.     *)
LEMMA FillsAreWhole ==
    ASSUME NEW q \in Int, NEW f \in Fills(q)
    PROVE  f \in Int /\ (plan.buy => f = q)
BY PositionAssumption DEF Fills

(* The last part is all that is left, and no part is more.                  *)
LEMMA PartFits ==
    ASSUME Shared, Partial, NEW r \in Rows, Whole(r)
    PROVE  /\ PartQuantity(r) \in Int
           /\ PartQuantity(r) <= r.remaining
           /\ r.taken + 1 >= plan.levels => PartQuantity(r) = r.remaining
<1>1. plan.levels \in Nat /\ plan.levels > 0 /\ r.taken \in Nat /\ r.remaining \in Int
  BY PositionAssumption DEF Shared, Partial, Plan, Rows
<1>2. Quantity \div plan.levels \in Int
  BY <1>1, PositionAssumption
<1> QED
  BY <1>1, <1>2 DEF PartQuantity

LEMMA SalesKeepWhole ==
    ASSUME HandlersFit, Shared, NEW h \in Handlers, SellPart(h) \/ SellAll(h)
    PROVE  (HandlersFit /\ Shared)'
<1> DEFINE r == mine[h].row
<1>1. Fit(pc[h], mine[h]) /\ mine[h] \in Memories /\ r \in Rows /\ r.remaining \in Int
      /\ r.taken \in Nat /\ Whole(r)
  BY DEF HandlersFit, Fit, Memories, Rows
<1>2. plan' = plan /\ row' = row /\ orders' = orders /\ price' = price
  BY DEF SellPart, SellAll
<1>3. ASSUME NEW q \in Int, NEW f \in Fills(q), sold' = sold + f,
             faults' = faults \/ Fault
      PROVE  Shared'
  <2>1. sold' \in Int
    BY <1>3, FillsAreWhole DEF Shared
  <2>2. faults' \in 0..MaxFaults
    BY <1>3, PositionAssumption DEF Shared, Fault
  <2>3. orders' \in Seq(Orders)
    BY <1>2 DEF Shared
  <2> QED
    BY <1>2, <2>1, <2>2, <2>3, RowKept, SharedKept
<1>4. CASE SellPart(h)
  <2>1. Partial
    BY <1>1, <1>4 DEF SellPart, Fit
  <2>2. PICK f \in Fills(PartQuantity(r)) :
          /\ sold' = sold + f
          /\ \/ Keep(h, [mine[h] EXCEPT !.deal = f]) /\ Goto(h, Sequel(r, f)) /\ UNCHANGED faults
             \/ Done(h) /\ Fault
    BY <1>4 DEF SellPart
  <2>3. /\ PartQuantity(r) \in Int /\ PartQuantity(r) <= r.remaining
        /\ r.taken + 1 >= plan.levels => PartQuantity(r) = r.remaining
    BY <1>1, <2>1, PartFits
  <2>4. f \in Int /\ (plan.buy => f = PartQuantity(r))
    BY <2>3, FillsAreWhole
  <2>5. Shared'
    BY <1>3, <2>2, <2>3
  <2>6. CASE Keep(h, [mine[h] EXCEPT !.deal = f]) /\ Goto(h, Sequel(r, f))
    <3> DEFINE new == [mine[h] EXCEPT !.deal = f]
    <3>1. new \in Memories /\ new.row = r /\ new.deal = f
      BY <1>1, <2>4 DEF Memories
    <3>2. Sequel(r, f) = "record" => r.remaining - f > 0
      BY <1>1, <2>4 DEF Sequel
    <3>3. Sequel(r, f) = "close" /\ plan.buy => f = r.remaining
      BY <1>1, <2>3, <2>4 DEF Sequel
    <3>4. Sequel(r, f) \in {"close", "record"}
      BY DEF Sequel
    <3> HIDE DEF new, r
    <3>5. Fit(Sequel(r, f), new)
      BY <1>1, <3>1, <3>2, <3>3, <3>4 DEF Fit, Steps
    <3>6. Keep(h, new)
      BY <2>6 DEF new
    <3> QED
      BY <1>2, <2>5, <2>6, <3>5, <3>6, OneMoves
  <2>7. CASE Done(h)
    BY <1>2, <2>5, <2>7, OneIsDone
  <2> QED
    BY <2>2, <2>6, <2>7
<1>5. CASE SellAll(h)
  <2> DEFINE new == [mine[h] EXCEPT !.deal = r.remaining]
  <2>1. PICK f \in Fills(r.remaining) :
          /\ sold' = sold + f
          /\ \/ Keep(h, new) /\ Goto(h, "close") /\ UNCHANGED faults
             \/ Done(h) /\ Fault
    BY <1>5 DEF SellAll
  <2>2. Shared'
    BY <1>1, <1>3, <2>1
  <2>3. Fit("close", new)
    BY <1>1 DEF Fit, Memories, Steps
  <2> HIDE DEF new
  <2> QED
    BY <1>2, <2>1, <2>2, <2>3, OneMoves, OneIsDone
<1> QED
  BY <1>4, <1>5

(* Taking a level off a row that adds up leaves one that does.              *)
LEMMA RecordedIsWhole ==
    ASSUME NEW r \in Rows, NEW deal \in Int, Whole(r), r.remaining - deal > 0
    PROVE  Recorded(r, deal) \in Rows /\ Whole(Recorded(r, deal))
<1>1. /\ r.remaining - deal \in Int /\ r.taken + 1 \in Nat /\ r.realized + deal \in Int
      /\ r.realized + deal + (r.remaining - deal) = Quantity
  BY PositionAssumption DEF Rows, Whole
<1>2. /\ Recorded(r, deal) \in Rows
      /\ Recorded(r, deal).remaining = r.remaining - deal
      /\ Recorded(r, deal).realized = r.realized + deal
  BY <1>1 DEF Rows, Recorded
<1> QED
  BY <1>1, <1>2 DEF Whole

(* The two fields are written together, from a copy that adds up.           *)
LEMMA RecordKeepsWhole ==
    ASSUME HandlersFit, Shared, NEW m \in Handlers, Record(m)
    PROVE  (HandlersFit /\ Shared)'
<1> DEFINE r == Recorded(mine[m].row, mine[m].deal)
           next == AfterRecord(r)
           new == [row |-> r, deal |-> 0, stop |-> Entry, order |-> None]
<1>1. /\ mine[m] \in Memories /\ Whole(mine[m].row)
      /\ mine[m].row.remaining - mine[m].deal > 0
  BY DEF HandlersFit, Fit, Record
<1>2. r \in Rows /\ Whole(r)
  BY <1>1, RecordedIsWhole DEF Memories
<1>3. new \in Memories /\ new.row = r
  <2> HIDE DEF r
  <2> QED
    BY <1>2 DEF Memories, Entry, None
<1>4. /\ row' = [row EXCEPT !.remaining = r.remaining, !.taken = r.taken, !.realized = r.realized]
      /\ Goto(m, next)
      /\ Keep(m, IF next = "idle" THEN Blank ELSE new)
      /\ UNCHANGED <<plan, orders, sold, price, faults>>
  BY DEF Record
<1> HIDE DEF r, new
<1>5. row' \in Rows /\ Whole(row') /\ BookedWhole'
  <2>1. row \in Rows /\ BookedWhole
    BY DEF Shared
  <2>2. row' \in Rows /\ Whole(row')
    BY <1>2, <1>4, <2>1 DEF Rows, Whole
  <2>3. row'.status = row.status /\ row'.booked = row.booked /\ plan' = plan
    BY <1>4, <2>1 DEF Rows
  <2> QED
    BY <2>1, <2>2, <2>3 DEF BookedWhole
<1>6. Shared'
  BY <1>4, <1>5, SharedKept DEF Shared
<1>7. next \in {"idle", "restop", "cancel", "place"}
  BY DEF AfterRecord
<1> HIDE DEF next
<1>8. CASE next = "idle"
  BY <1>4, <1>6, <1>8, OneIsDone DEF Done
<1>9. CASE next # "idle"
  <2>1. Fit(next, new)
    BY <1>2, <1>3, <1>7 DEF Fit, Steps
  <2> QED
    BY <1>4, <1>6, <1>9, <2>1, OneMoves
<1> QED
  BY <1>8, <1>9

(* Whoever closes books the whole, be it the first to close or not.         *)
LEMMA CloseKeepsWhole ==
    ASSUME HandlersFit, Shared, NEW h \in Handlers, Close(h)
    PROVE  (HandlersFit /\ Shared)'
<1>1. /\ mine[h] \in Memories /\ Whole(mine[h].row)
      /\ plan.buy => mine[h].deal = mine[h].row.remaining
  BY DEF HandlersFit, Fit, Close
<1>2. /\ row' = [row EXCEPT !.status = "closed",
                            !.booked = mine[h].row.realized + mine[h].deal]
      /\ UNCHANGED <<plan, orders, sold, price, faults>>
  BY DEF Close
<1>3. row \in Rows /\ Whole(row)
  BY DEF Shared
<1> DEFINE b == mine[h].row.realized + mine[h].deal
<1>4. b \in Int /\ (plan.buy => b = Quantity)
  BY <1>1, PositionAssumption DEF Memories, Rows, Whole
<1>5. row' \in Rows /\ Whole(row') /\ row'.booked = b
  <2> HIDE DEF b
  <2>1. row' = [row EXCEPT !.status = "closed", !.booked = b]
    BY <1>2 DEF b
  <2> QED
    BY <1>3, <1>4, <2>1 DEF Rows, Whole
<1>6. Shared'
  BY <1>2, <1>4, <1>5, SharedKept DEF Shared, BookedWhole
<1> QED
  BY <1>2, <1>6, OneIsDone DEF Close

(* Moving the stop touches no quantity.                                     *)
LEMMA StopMovesKeepWhole ==
    ASSUME HandlersFit, Shared, NEW h \in Handlers, Cancel(h) \/ Place(h) \/ Restop(h)
    PROVE  (HandlersFit /\ Shared)'
<1>1. Fit(pc[h], mine[h]) /\ mine[h] \in Memories
  BY DEF HandlersFit
<1>2. TypeOK
  BY WholeInvParts DEF WholeInv
<1>3. CASE Cancel(h)
  <2>1. orders' \in Seq(Orders) /\ faults' \in 0..MaxFaults
    BY <1>2, <1>3, CancelKeepsTypes DEF Cancel
  <2>2. Shared'
    BY <1>3, <2>1, RowKept, SharedKept DEF Cancel, Shared
  <2>3. Fit("place", mine[h])
    BY <1>1 DEF Fit, Steps
  <2> QED
    BY <1>3, <2>2, <2>3, OneMovesOn DEF Cancel
<1>4. CASE Place(h)
  <2> DEFINE o == NewOrder("stop", mine[h].row.remaining, mine[h].stop)
             new == [mine[h] EXCEPT !.order = Len(orders')]
  <2>1. o \in Orders
    BY <1>1 DEF NewOrder, Orders, Memories, Rows
  <2>2. orders \in Seq(Orders)
    BY DEF Shared
  <2>3. orders' \in {Append(orders, o), orders}
    BY <1>4 DEF Place
  <2>4. orders' \in Seq(Orders) /\ Len(orders') \in Nat
    <3> HIDE DEF o
    <3>1. Append(orders, o) \in Seq(Orders)
      BY <2>1, <2>2
    <3> QED
      BY <2>2, <2>3, <3>1
  <2>5. faults' \in 0..MaxFaults
    BY <1>4, PositionAssumption DEF Place, Fault, Shared
  <2>6. /\ Keep(h, new) \/ mine' = mine
        /\ Goto(h, "restop")
        /\ UNCHANGED <<plan, row, sold, price>>
    BY <1>4 DEF Place
  <2>7. Shared'
    BY <2>4, <2>5, <2>6, RowKept, SharedKept DEF Shared
  <2>8. Fit("restop", new) /\ Fit("restop", mine[h])
    BY <1>1, <2>4 DEF Fit, Memories, Steps
  <2> HIDE DEF new
  <2> QED
    BY <2>6, <2>7, <2>8, OneMoves, OneMovesOn
<1>5. CASE Restop(h)
  <2>1. /\ row' = [row EXCEPT !.stop = mine[h].stop, !.stopOrder = mine[h].order]
        /\ UNCHANGED <<plan, orders, sold, price, faults>>
    BY <1>5 DEF Restop
  <2>2. row \in Rows /\ Whole(row) /\ BookedWhole
    BY DEF Shared
  <2>3. row' \in Rows /\ Whole(row')
    BY <1>1, <2>1, <2>2 DEF Rows, Whole, Memories
  <2>4. BookedWhole'
    BY <2>1, <2>2 DEF BookedWhole, Rows
  <2>5. Shared'
    BY <2>1, <2>3, <2>4, SharedKept DEF Shared
  <2> QED
    BY <1>5, <2>1, <2>5, OneIsDone DEF Restop
<1> QED
  BY <1>3, <1>4, <1>5

(* The channel's messages.                                                  *)
LEMMA ChannelKeepsWhole ==
    ASSUME HandlersFit, Shared, NEW l \in Listeners,
           \/ \E stop \in NewStops : ReceiveUpdate(l, stop)
           \/ ReceiveStopHit(l) \/ ClearStop(l) \/ ClearTp(l)
    PROVE  (HandlersFit /\ Shared)'
<1>1. l \in Handlers /\ Fit(pc[l], mine[l])
  BY DEF Handlers, HandlersFit
<1>2. TypeOK
  BY WholeInvParts DEF WholeInv
<1>3. Copy \in Memories /\ Copy.row = row /\ Whole(row)
  BY BlankFits DEF Copy, Fit, Memories, Shared
<1>4. ASSUME NEW stop \in NewStops, ReceiveUpdate(l, stop)
      PROVE  (HandlersFit /\ Shared)'
  <2> DEFINE new == [Copy EXCEPT !.stop = stop]
  <2>1. UNCHANGED <<plan, row, orders, sold, price, faults>>
    BY <1>4 DEF ReceiveUpdate
  <2>2. Shared'
    BY <2>1, RowKept, SharedKept DEF Shared
  <2>3. new \in Memories /\ new.row = row
    BY <1>3, PositionAssumption DEF Memories
  <2>4. PICK step \in {"cancel", "place"} : Goto(l, step) /\ Keep(l, new)
    BY <1>4 DEF ReceiveUpdate
  <2>5. Fit(step, new)
    BY <1>3, <2>3 DEF Fit, Steps
  <2> HIDE DEF new
  <2> QED
    BY <1>1, <2>1, <2>2, <2>4, <2>5, OneMoves
<1>5. CASE ReceiveStopHit(l)
  <2>1. UNCHANGED <<plan, row, orders, sold, price, faults>>
    BY <1>5 DEF ReceiveStopHit
  <2>2. Shared'
    BY <2>1, RowKept, SharedKept DEF Shared
  <2>3. Fit("clearStop", Copy)
    BY <1>3 DEF Fit, Steps
  <2> QED
    BY <1>1, <1>5, <2>1, <2>2, <2>3, OneMoves DEF ReceiveStopHit
<1>6. ASSUME NEW step, NEW id, NEW next \in {"clearTp", "sellAll"}, Clear(l, step, id, next)
      PROVE  (HandlersFit /\ Shared)'
  <2>1. orders' \in Seq(Orders) /\ faults' \in 0..MaxFaults
    BY <1>2, <1>6, CancelKeepsTypes DEF Clear, TypeOK
  <2>2. Shared'
    BY <1>6, <2>1, RowKept, SharedKept DEF Clear, Shared
  <2>3. Fit(next, mine[l])
    BY <1>1 DEF Fit, Steps
  <2> QED
    BY <1>1, <1>6, <2>2, <2>3, OneMovesOn DEF Clear
<1> QED
  BY <1>4, <1>5, <1>6 DEF ClearStop, ClearTp

(* The exchange and the market change no row and no copy.                   *)
LEMMA MarketKeepsWhole ==
    ASSUME HandlersFit, Shared, MovePrice \/ \E i \in DOMAIN orders : Execute(i)
    PROVE  (HandlersFit /\ Shared)'
<1>1. UNCHANGED <<plan, row, pc, mine, faults>>
  BY DEF MovePrice, Execute
<1>2. HandlersFit'
  BY <1>1 DEF HandlersFit, Fit, Partial, Whole
<1>3. price' \in Prices /\ sold' \in Int /\ orders' \in Seq(Orders)
  <2>1. CASE MovePrice
    BY <2>1 DEF MovePrice, Shared
  <2>2. CASE \E i \in DOMAIN orders : Execute(i)
    <3> PICK i \in DOMAIN orders : Execute(i)
      BY <2>2
    <3>1. orders \in Seq(Orders) /\ orders[i] \in Orders
      BY DEF Shared
    <3>2. orders' \in Seq(Orders)
      BY <3>1, StatusKeepsOrders DEF Execute
    <3>3. sold' \in Int
      BY <3>1 DEF Execute, Leaves, Orders, Shared
    <3> QED
      BY <3>2, <3>3 DEF Execute, Shared
  <2> QED
    BY <2>1, <2>2
<1>4. Shared'
  BY <1>1, <1>3 DEF Shared, BookedWhole, Whole, Prices, Top, Partial, Bottom
<1> QED
  BY <1>2, <1>4

LEMMA FailKeepsWhole ==
    ASSUME HandlersFit, Shared, NEW h \in Handlers, Fail(h)
    PROVE  (HandlersFit /\ Shared)'
<1>1. faults' \in 0..MaxFaults
  BY PositionAssumption DEF Fail, Fault, Shared
<1>2. Shared'
  BY <1>1, RowKept, SharedKept DEF Fail, Shared
<1> QED
  BY <1>2, OneIsDone DEF Fail

LEMMA NextWhole == WholeInv /\ [Next]_vars => WholeInv'
<1> SUFFICES ASSUME HandlersFit, Shared, [Next]_vars PROVE (HandlersFit /\ Shared)'
  BY WholeInvParts, PTL
<1>1. ASSUME NEW h \in Handlers, Work(h) PROVE (HandlersFit /\ Shared)'
  BY <1>1, SalesKeepWhole, CloseKeepsWhole, StopMovesKeepWhole DEF Work
<1>2. ASSUME NEW m \in Monitors, Watch(m) \/ MonitorStep(m) PROVE (HandlersFit /\ Shared)'
  <2>1. m \in Handlers
    BY DEF Handlers
  <2> QED
    BY <1>1, <1>2, <2>1, ChecksKeepWhole, SalesKeepWhole, RecordKeepsWhole DEF MonitorStep
<1>3. ASSUME NEW l \in Listeners,
             \/ \E stop \in NewStops : ReceiveUpdate(l, stop)
             \/ ReceiveStopHit(l) \/ ListenerStep(l)
      PROVE  (HandlersFit /\ Shared)'
  <2>1. l \in Handlers
    BY DEF Handlers
  <2> QED
    BY <1>1, <1>3, <2>1, ChannelKeepsWhole DEF ListenerStep
<1>4. CASE UNCHANGED vars
  BY <1>4 DEF vars, HandlersFit, Shared, Fit, Partial, Whole, BookedWhole, Prices, Top, Bottom
<1> QED
  BY <1>2, <1>3, <1>4, FailKeepsWhole, MarketKeepsWhole DEF Next

(* Types, and that an open trade always has something left, for every       *)
(* number of handlers.                                                      *)
THEOREM TypeCorrect == Spec => []TypeOK
<1>1. WholeInv => TypeOK
  BY DEF WholeInv
<1> QED
  BY InitWhole, NextWhole, <1>1, PTL DEF Spec

(* A closed buy has the PnL of its whole quantity, however many monitors    *)
(* and listeners closed it, from however old a copy, with any faults.       *)
THEOREM PnlIsOfTheWhole == Spec => []BookedWhole
<1>1. WholeInv => BookedWhole
  BY DEF WholeInv
<1> QED
  BY InitWhole, NextWhole, <1>1, PTL DEF Spec

-----------------------------------------------------------------------------
(***************************************************************************)
(* The orders that rows and copies name.                                   *)
(***************************************************************************)
NamesStop(id) == id = None \/ (id \in DOMAIN orders /\ orders[id].kind = "stop")
NamesTp(id) == id = None \/ (id \in DOMAIN orders /\ orders[id].kind = "tp")

Named ==
    /\ NamesStop(row.stopOrder) /\ NamesTp(row.tpOrder)
    /\ \A h \in Handlers : /\ NamesStop(mine[h].row.stopOrder)
                           /\ NamesTp(mine[h].row.tpOrder)
                           /\ NamesStop(mine[h].order)

(* An order that was placed and not written to the row yet is known to the  *)
(* handler that placed it, and to no other: nobody cancels it.              *)
Private(h) ==
    mine[h].order # None =>
        /\ orders[mine[h].order].status # "canceled"
        /\ row.stopOrder # mine[h].order
        /\ \A g \in Handlers : /\ mine[g].row.stopOrder # mine[h].order
                               /\ g # h => mine[g].order # mine[h].order

StopInv == Named /\ (\A h \in Handlers : Private(h)) /\ NamedStopIsLive

(* Those about to write another stop, or to close.                          *)
Replacing == {"place", "restop", "clearTp", "sellAll", "close"}

LEMMA StatusChanges ==
    ASSUME NEW os \in Seq(Orders), NEW i, NEW s
    PROVE  LET new == [os EXCEPT ![i].status = s]
           IN  /\ DOMAIN new = DOMAIN os
               /\ \A j \in DOMAIN os :
                    /\ new[j].kind = os[j].kind /\ new[j].qty = os[j].qty
                    /\ new[j].status = IF j = i THEN s ELSE os[j].status
<1>1. \A j \in DOMAIN os : os[j] \in Orders
  OBVIOUS
<1> QED
  BY <1>1 DEF Orders

LEMMA OneAppended ==
    ASSUME NEW os \in Seq(Orders), NEW o \in Orders
    PROVE  LET new == Append(os, o)
           IN  /\ Len(os) \in Nat /\ Len(new) = Len(os) + 1
               /\ DOMAIN os = 1..Len(os) /\ DOMAIN new = DOMAIN os \cup {Len(new)}
               /\ Len(new) # None /\ Len(new) \notin DOMAIN os
               /\ new[Len(new)] = o /\ \A j \in DOMAIN os : new[j] = os[j]
BY DEF None

LEMMA InitStop == Init => StopInv
<1> SUFFICES ASSUME Init PROVE StopInv
  OBVIOUS
<1>1. \A h \in Handlers : mine[h] = Blank /\ pc[h] = "idle"
  BY DEF Init
<1>2. Blank.order = None /\ Blank.row.stopOrder = None /\ Blank.row.tpOrder = None
  BY DEF Blank, NewRow
<1>3. \A k \in {"stop", "tp"} :
        OrderOf(orders, k) = None
          \/ (OrderOf(orders, k) \in DOMAIN orders /\ orders[OrderOf(orders, k)].kind = k)
  BY DEF OrderOf
<1>4. row.stopOrder = OrderOf(orders, "stop") /\ row.tpOrder = OrderOf(orders, "tp")
  BY DEF Init, NewRow
<1>5. Named
  BY <1>1, <1>2, <1>3, <1>4 DEF Named, NamesStop, NamesTp
<1>6. \A i \in DOMAIN orders : orders[i].status = "open"
  <2> DEFINE st == NewOrder("stop", Quantity, Bottom)
             tp == NewOrder("tp", Quantity, Top)
  <2>1. orders = <<>> \/ orders = <<st>> \/ orders = <<tp>> \/ orders = <<st, tp>>
    BY Zenon DEF Init, InitialOrders
  <2>2. st.status = "open" /\ tp.status = "open"
    BY DEF NewOrder
  <2> HIDE DEF st, tp
  <2> QED
    BY <2>1, <2>2
<1>7. NamedStopIsLive
  BY <1>5, <1>6 DEF NamedStopIsLive, Named, NamesStop
<1> QED
  BY <1>1, <1>2, <1>5, <1>7 DEF StopInv, Private

(* A step of one handler that changes no order and names no new one.        *)
LEMMA NamesKept ==
    ASSUME StopInv, orders' = orders, NEW h \in Handlers,
           row'.stopOrder = row.stopOrder, row'.tpOrder = row.tpOrder,
           \A g \in Handlers \ {h} : mine'[g] = mine[g] /\ pc'[g] = pc[g],
           mine'[h].row.stopOrder \in {mine[h].row.stopOrder, row.stopOrder, None},
           mine'[h].row.tpOrder \in {mine[h].row.tpOrder, row.tpOrder, None},
           mine'[h].order \in {mine[h].order, None},
           row'.status = "open" /\ faults' = 0 => row.status = "open" /\ faults = 0,
           row'.status = "open" /\ faults' = 0 /\ pc[h] \in Replacing
             => pc'[h] \in Replacing /\ mine'[h].row.stopOrder = mine[h].row.stopOrder
    PROVE  StopInv'
<1>1. Named'
  BY DEF StopInv, Named, NamesStop, NamesTp
<1>2. ASSUME NEW g \in Handlers PROVE Private(g)'
  <2>1. mine'[g].order \in {mine[g].order, None} /\ Private(g)
    BY DEF StopInv
  <2>2. \A k \in Handlers : /\ mine'[k].row.stopOrder \in {mine[k].row.stopOrder, row.stopOrder, None}
                            /\ mine'[k].order \in {mine[k].order, None}
    OBVIOUS
  <2> QED
    BY <2>1, <2>2 DEF Private
<1>3. NamedStopIsLive'
  <2> SUFFICES ASSUME row'.status = "open", row.stopOrder # None, faults' = 0,
                      orders[row.stopOrder].status = "canceled"
               PROVE  \E g \in Handlers : /\ mine'[g].row.stopOrder = row.stopOrder
                                          /\ pc'[g] \in Replacing
    BY DEF NamedStopIsLive, Replacing
  <2>1. PICK g \in Handlers : mine[g].row.stopOrder = row.stopOrder /\ pc[g] \in Replacing
    BY DEF StopInv, NamedStopIsLive, Replacing
  <2> QED
    BY <2>1
<1> QED
  BY <1>1, <1>2, <1>3 DEF StopInv

(* What a handler's own step leaves of the others.                          *)
LEMMA OthersStay ==
    ASSUME HandlersFit, NEW h \in Handlers, NEW step
    PROVE  /\ Goto(h, step) => pc'[h] = step /\ \A g \in Handlers \ {h} : pc'[g] = pc[g]
           /\ \A m : Keep(h, m) =>
                mine'[h] = m /\ \A g \in Handlers \ {h} : mine'[g] = mine[g]
BY DEF HandlersFit, Goto, Keep

LEMMA NamesOfCopies ==
    ASSUME HandlersFit
    PROVE  /\ Blank.row.stopOrder = None /\ Blank.row.tpOrder = None /\ Blank.order = None
           /\ Copy.row = row /\ Copy.order = None
           /\ \A h \in Handlers : \A d :
                /\ [mine[h] EXCEPT !.deal = d].row = mine[h].row
                /\ [mine[h] EXCEPT !.deal = d].order = mine[h].order
BY DEF HandlersFit, Memories, Blank, NewRow, Copy

LEMMA DoneKeepsNames ==
    ASSUME HandlersFit, StopInv, NEW h \in Handlers, Done(h),
           UNCHANGED <<orders, row>>, faults' \in Nat,
           faults' = 0 => faults = 0 /\ pc[h] \notin Replacing
    PROVE  StopInv'
<1>1. Goto(h, "idle") /\ Keep(h, Blank)
  BY DEF Done
<1>2. /\ mine'[h] = Blank /\ \A g \in Handlers \ {h} : mine'[g] = mine[g] /\ pc'[g] = pc[g]
  BY <1>1, OthersStay
<1> QED
  BY <1>2, NamesOfCopies, NamesKept

LEMMA ChecksKeepNames ==
    ASSUME HandlersFit, Shared, StopInv, NEW m \in Handlers,
           \/ Watch(m) \/ CheckTp(m) \/ CheckStop(m) \/ LookAtPrice(m)
           \/ \E stop \in NewStops : ReceiveUpdate(m, stop)
           \/ ReceiveStopHit(m)
    PROVE  StopInv'
<1>1. UNCHANGED <<row, orders, faults>> /\ faults \in Nat /\ pc[m] \notin Replacing
  <2>1. UNCHANGED <<row, orders, faults>>
    BY DEF Watch, CheckTp, CheckStop, CheckOrder, LookAtPrice, ReceiveUpdate, ReceiveStopHit
  <2>2. pc[m] \in {"idle", "tp", "stop", "price"}
    BY DEF Watch, CheckTp, CheckStop, CheckOrder, LookAtPrice, ReceiveUpdate, ReceiveStopHit,
           FindsTrade
  <2>3. faults \in Nat
    BY PositionAssumption DEF Shared
  <2> QED
    BY <2>1, <2>2, <2>3 DEF Replacing
<1>2. CASE Done(m)
  BY <1>1, <1>2, DoneKeepsNames
<1>3. ASSUME NEW step, NEW new, Goto(m, step), Keep(m, new) \/ (mine' = mine /\ new = mine[m]),
             \/ new.row = row /\ new.order = None
             \/ new.row = mine[m].row /\ new.order = mine[m].order
      PROVE  StopInv'
  <2>1. mine'[m] = new /\ \A g \in Handlers \ {m} : mine'[g] = mine[g] /\ pc'[g] = pc[g]
    BY <1>3, OthersStay
  <2> QED
    BY <1>1, <1>3, <2>1, NamesKept
<1>4. CASE Watch(m) \/ ReceiveStopHit(m)
  <2>1. PICK step : Goto(m, step) /\ Keep(m, Copy)
    BY <1>4 DEF Watch, ReceiveStopHit
  <2> QED
    BY <1>3, <2>1, NamesOfCopies
<1>5. ASSUME NEW stop \in NewStops, ReceiveUpdate(m, stop) PROVE StopInv'
  <2>1. PICK step : Goto(m, step) /\ Keep(m, [Copy EXCEPT !.stop = stop])
    BY <1>5 DEF ReceiveUpdate
  <2>2. [Copy EXCEPT !.stop = stop].row = row /\ [Copy EXCEPT !.stop = stop].order = None
    BY DEF Copy, Blank
  <2> QED
    BY <1>3, <2>1, <2>2
<1>6. ASSUME NEW s, NEW id, NEW next, CheckOrder(m, s, id, next) PROVE StopInv'
  <2>1. PICK step, d : Goto(m, step) /\ (Keep(m, [mine[m] EXCEPT !.deal = d]) \/ mine' = mine)
    BY <1>6 DEF CheckOrder
  <2> QED
    BY <1>3, <2>1, NamesOfCopies
<1>7. CASE LookAtPrice(m)
  <2>1. \/ Done(m) \/ \E step : Goto(m, step) /\ mine' = mine
    BY <1>7 DEF LookAtPrice
  <2> QED
    BY <1>2, <1>3, <2>1
<1> QED
  BY <1>4, <1>5, <1>6, <1>7 DEF CheckTp, CheckStop

(* Sales, their record and the close name no other order.                   *)
LEMMA SalesKeepNames ==
    ASSUME HandlersFit, Shared, StopInv, NEW h \in Handlers,
           SellPart(h) \/ SellAll(h) \/ Record(h) \/ Close(h)
    PROVE  StopInv'
<1>1. orders' = orders /\ faults \in Nat
  BY PositionAssumption DEF SellPart, SellAll, Record, Close, Shared
<1>2. CASE SellPart(h) \/ SellAll(h)
  <2>1. row' = row /\ pc[h] # "restop"
    BY <1>2 DEF SellPart, SellAll
  <2>2. CASE Done(h) /\ Fault
    <3>1. faults' \in Nat /\ faults' # 0
      BY <1>1, <2>2 DEF Fault
    <3> QED
      BY <1>1, <2>1, <2>2, <3>1, DoneKeepsNames
  <2>3. ASSUME NEW step, NEW d, Goto(h, step), Keep(h, [mine[h] EXCEPT !.deal = d]),
               faults' = faults, pc[h] \in Replacing => step \in Replacing
        PROVE  StopInv'
    <3> DEFINE new == [mine[h] EXCEPT !.deal = d]
    <3>1. new.row = mine[h].row /\ new.order = mine[h].order
      BY NamesOfCopies
    <3>2. Keep(h, new)
      BY <2>3
    <3> HIDE DEF new
    <3>3. /\ mine'[h] = new /\ pc'[h] = step
          /\ \A g \in Handlers \ {h} : mine'[g] = mine[g] /\ pc'[g] = pc[g]
      BY <2>3, <3>2, OthersStay
    <3> QED
      BY <1>1, <2>1, <2>3, <3>1, <3>3, NamesKept
  <2>4. \/ Done(h) /\ Fault
        \/ \E step, d : /\ Goto(h, step) /\ Keep(h, [mine[h] EXCEPT !.deal = d])
                        /\ faults' = faults /\ (pc[h] \in Replacing => step \in Replacing)
    BY <1>2 DEF SellPart, SellAll, Replacing
  <2> QED
    BY <2>2, <2>3, <2>4
<1>3. CASE Record(h)
  <2> DEFINE r == Recorded(mine[h].row, mine[h].deal)
  <2>1. /\ row' = [row EXCEPT !.remaining = r.remaining, !.taken = r.taken,
                              !.realized = r.realized]
        /\ faults' = faults /\ pc[h] = "record"
    BY <1>3 DEF Record
  <2>2. row \in Rows /\ mine[h].row \in Rows
    BY DEF Shared, HandlersFit, Memories
  <2>3. r.stopOrder = mine[h].row.stopOrder /\ r.tpOrder = mine[h].row.tpOrder
    BY <2>2 DEF Recorded, Rows
  <2> HIDE DEF r
  <2>4. /\ row'.stopOrder = row.stopOrder /\ row'.tpOrder = row.tpOrder
        /\ row'.status = row.status
    BY <2>1, <2>2 DEF Rows
  <2>5. PICK step, new : /\ Goto(h, step) /\ Keep(h, new)
                         /\ new = Blank \/ (new.row = r /\ new.order = None)
    BY <1>3 DEF Record, r
  <2>6. mine'[h] = new /\ \A g \in Handlers \ {h} : mine'[g] = mine[g] /\ pc'[g] = pc[g]
    BY <2>5, OthersStay
  <2> QED
    BY <1>1, <2>1, <2>3, <2>4, <2>5, <2>6, NamesOfCopies, NamesKept DEF Replacing
<1>4. CASE Close(h)
  <2>1. row \in Rows
    BY DEF Shared
  <2>2. /\ row'.stopOrder = row.stopOrder /\ row'.tpOrder = row.tpOrder
        /\ row'.status = "closed"
    BY <1>4, <2>1 DEF Close, Rows
  <2>3. Goto(h, "idle") /\ Keep(h, Blank)
    BY <1>4 DEF Close, Done
  <2>4. mine'[h] = Blank /\ \A g \in Handlers \ {h} : mine'[g] = mine[g] /\ pc'[g] = pc[g]
    BY <2>3, OthersStay
  <2> QED
    BY <1>1, <2>2, <2>4, NamesOfCopies, NamesKept
<1> QED
  BY <1>2, <1>3, <1>4

LEMMA FailKeepsNames ==
    ASSUME HandlersFit, Shared, StopInv, NEW h \in Handlers, Fail(h)
    PROVE  StopInv'
<1>1. faults' \in Nat /\ faults' # 0
  BY PositionAssumption DEF Fail, Fault, Shared
<1> QED
  BY <1>1, DoneKeepsNames DEF Fail

(* Cancelling an order: its number came from a copy of the row, so it is    *)
(* nobody's private order, and whoever cancels a stop will replace it.      *)
LEMMA CancelsKeepNames ==
    ASSUME HandlersFit, Shared, StopInv, NEW h \in Handlers,
           Cancel(h) \/ ClearStop(h) \/ ClearTp(h)
    PROVE  StopInv'
<1> DEFINE id == IF Cancel(h) \/ ClearStop(h) THEN mine[h].row.stopOrder
                                              ELSE mine[h].row.tpOrder
           next == IF Cancel(h) THEN "place" ELSE IF ClearStop(h) THEN "clearTp" ELSE "sellAll"
<1>1. /\ UNCHANGED <<plan, row, mine>> /\ Goto(h, next) /\ next \in Replacing
      /\ orders' = orders \/ orders' = Cancelled(id)
      /\ faults' = faults \/ Fault
  <2>1. UNCHANGED <<plan, row, mine>> /\ Goto(h, next)
    BY DEF Cancel, ClearStop, ClearTp, Clear
  <2>2. /\ orders' = orders \/ orders' = Cancelled(id)
        /\ faults' = faults \/ Fault
    BY DEF Cancel, ClearStop, ClearTp, Clear, CancelOrder
  <2> QED
    BY <2>1, <2>2 DEF Replacing
<1>2. pc'[h] = next /\ \A g \in Handlers \ {h} : pc'[g] = pc[g]
  BY <1>1, OthersStay
<1>3. faults' = 0 => faults = 0
  BY <1>1, PositionAssumption DEF Fault, Shared
<1>4. ASSUME NEW g \in Handlers, pc[g] \in Replacing PROVE pc'[g] \in Replacing
  BY <1>1, <1>2, <1>4
<1>5. CASE orders' = orders
  <2>1. NamedStopIsLive'
    <3> SUFFICES ASSUME row.status = "open", row.stopOrder # None, faults' = 0,
                        orders[row.stopOrder].status = "canceled"
                 PROVE  \E g \in Handlers : /\ mine[g].row.stopOrder = row.stopOrder
                                            /\ pc'[g] \in Replacing
      BY <1>1, <1>5 DEF NamedStopIsLive, Replacing
    <3>1. PICK g \in Handlers : mine[g].row.stopOrder = row.stopOrder /\ pc[g] \in Replacing
      BY <1>3 DEF StopInv, NamedStopIsLive, Replacing
    <3> QED
      BY <1>4, <3>1
  <2>2. Named' /\ \A g \in Handlers : Private(g)'
    BY <1>1, <1>5 DEF StopInv, Named, NamesStop, NamesTp, Private
  <2> QED
    BY <2>1, <2>2 DEF StopInv
<1>6. CASE orders' # orders
  <2>1. orders' = [orders EXCEPT ![id].status = "canceled"] /\ id # None
    BY <1>1, <1>6 DEF Cancelled
  <2>2. /\ DOMAIN orders' = DOMAIN orders
        /\ \A j \in DOMAIN orders :
             /\ orders'[j].kind = orders[j].kind
             /\ orders'[j].status = IF j = id THEN "canceled" ELSE orders[j].status
    BY <2>1, StatusChanges DEF Shared
  <2>3. Named'
    BY <1>1, <2>2 DEF StopInv, Named, NamesStop, NamesTp
  <2>4. ASSUME NEW g \in Handlers PROVE Private(g)'
    <3> SUFFICES ASSUME mine[g].order # None
                 PROVE  orders'[mine[g].order].status # "canceled"
      BY <1>1, <2>4 DEF StopInv, Private
    <3>1. /\ mine[g].order \in DOMAIN orders /\ orders[mine[g].order].kind = "stop"
          /\ orders[mine[g].order].status # "canceled"
          /\ mine[h].row.stopOrder # mine[g].order
      BY DEF StopInv, Named, NamesStop, Private
    <3>2. mine[g].order # id
      BY <2>1, <3>1 DEF StopInv, Named, NamesTp
    <3> QED
      BY <2>2, <3>1, <3>2
  <2>5. NamedStopIsLive'
    <3> SUFFICES ASSUME row.status = "open", row.stopOrder # None, faults' = 0,
                        orders'[row.stopOrder].status = "canceled"
                 PROVE  \E g \in Handlers : /\ mine[g].row.stopOrder = row.stopOrder
                                            /\ pc'[g] \in Replacing
      BY <1>1 DEF NamedStopIsLive, Replacing
    <3>1. row.stopOrder \in DOMAIN orders /\ orders[row.stopOrder].kind = "stop"
      BY DEF StopInv, Named, NamesStop
    <3>2. CASE row.stopOrder = id
      <4>1. mine[h].row.stopOrder = id
        BY <2>1, <3>1, <3>2 DEF StopInv, Named, NamesTp
      <4> QED
        BY <1>1, <1>2, <3>2, <4>1
    <3>3. CASE row.stopOrder # id
      <4>1. orders[row.stopOrder].status = "canceled"
        BY <2>2, <3>1, <3>3
      <4>2. PICK g \in Handlers : mine[g].row.stopOrder = row.stopOrder /\ pc[g] \in Replacing
        BY <1>3, <4>1 DEF StopInv, NamedStopIsLive, Replacing
      <4> QED
        BY <1>4, <4>2
    <3> QED
      BY <3>2, <3>3
  <2> QED
    BY <2>3, <2>4, <2>5 DEF StopInv
<1> QED
  BY <1>5, <1>6

(* An order just placed is new to everybody.                                *)
LEMMA PlaceKeepsNames ==
    ASSUME HandlersFit, Shared, StopInv, NEW h \in Handlers, Place(h)
    PROVE  StopInv'
<1> DEFINE o == NewOrder("stop", mine[h].row.remaining, mine[h].stop)
           new == [mine[h] EXCEPT !.order = Len(orders')]
<1>1. UNCHANGED <<plan, row>> /\ Goto(h, "restop") /\ pc[h] = "place"
  BY DEF Place
<1>2. pc'[h] = "restop" /\ \A g \in Handlers \ {h} : pc'[g] = pc[g]
  BY <1>1, OthersStay
<1>3. faults' = 0 => faults = 0
  BY PositionAssumption DEF Place, Fault, Shared
<1>4. o \in Orders /\ o.kind = "stop" /\ o.status = "open" /\ mine[h] \in Memories
  BY DEF NewOrder, Orders, Memories, Rows, HandlersFit
<1>5. ASSUME NEW g \in Handlers, pc[g] \in Replacing PROVE pc'[g] \in Replacing
  BY <1>1, <1>2, <1>5 DEF Replacing
<1>6. CASE orders' = Append(orders, o)
  <2>1. /\ DOMAIN orders' = DOMAIN orders \cup {Len(orders')}
        /\ Len(orders') # None /\ Len(orders') \notin DOMAIN orders
        /\ orders'[Len(orders')] = o /\ \A j \in DOMAIN orders : orders'[j] = orders[j]
    BY <1>4, <1>6, OneAppended DEF Shared
  <2>2. mine' = mine \/ Keep(h, new)
    BY DEF Place
  <2>3. new.row = mine[h].row /\ new.order = Len(orders')
    BY <1>4 DEF Memories
  <2>4. /\ \A g \in Handlers : mine'[g].row = mine[g].row
        /\ \A g \in Handlers \ {h} : mine'[g] = mine[g]
        /\ mine'[h].order \in {mine[h].order, Len(orders')}
    <3> HIDE DEF new
    <3> QED
      BY <2>2, <2>3, OthersStay
  <2>5. Named'
    <3>1. ASSUME NEW id
          PROVE  /\ NamesStop(id) => NamesStop(id)'
                 /\ NamesTp(id) => NamesTp(id)'
      BY <2>1 DEF NamesStop, NamesTp
    <3>2. Len(orders') \in DOMAIN orders' /\ orders'[Len(orders')].kind = "stop"
      BY <1>4, <2>1
    <3>3. NamesStop(row.stopOrder)' /\ NamesTp(row.tpOrder)'
      BY <1>1, <3>1 DEF StopInv, Named
    <3> HIDE DEF new, o
    <3>4. ASSUME NEW g \in Handlers
          PROVE  /\ NamesStop(mine[g].row.stopOrder)' /\ NamesTp(mine[g].row.tpOrder)'
                 /\ NamesStop(mine[g].order)'
      <4>1. /\ NamesStop(mine[g].row.stopOrder) /\ NamesTp(mine[g].row.tpOrder)
            /\ NamesStop(mine[g].order)
        BY DEF StopInv, Named
      <4>2. /\ mine'[g].row.stopOrder = mine[g].row.stopOrder
            /\ mine'[g].row.tpOrder = mine[g].row.tpOrder
            /\ mine'[g].order \in {mine[g].order, Len(orders')}
        BY <2>4
      <4> QED
        BY <3>1, <3>2, <4>1, <4>2 DEF NamesStop, NamesTp
    <3> QED
      BY <3>3, <3>4, Zenon DEF Named
  <2>6. ASSUME NEW g \in Handlers PROVE Private(g)'
    <3>1. Named /\ Private(g)
      BY DEF StopInv
    <3>2. CASE mine'[g].order = mine[g].order
      <4> SUFFICES ASSUME mine[g].order # None PROVE Private(g)'
        BY <3>2 DEF Private
      <4>1. mine[g].order \in DOMAIN orders
        BY <3>1 DEF Named, NamesStop
      <4>2. /\ orders'[mine[g].order].status # "canceled" /\ row'.stopOrder # mine[g].order
        BY <1>1, <2>1, <3>1, <4>1 DEF Private
      <4>3. ASSUME NEW k \in Handlers
            PROVE  /\ mine'[k].row.stopOrder # mine[g].order
                   /\ k # g => mine'[k].order # mine[g].order
        BY <2>1, <2>4, <3>1, <4>1 DEF Private
      <4> QED
        BY <3>2, <4>2, <4>3 DEF Private
    <3>3. CASE g = h /\ mine'[h].order = Len(orders')
      <4>1. \A k \in Handlers : /\ mine[k].row.stopOrder # Len(orders')
                                /\ mine[k].order # Len(orders')
        BY <2>1, <3>1 DEF Named, NamesStop
      <4>2. row.stopOrder # Len(orders')
        BY <2>1, <3>1 DEF Named, NamesStop
      <4> QED
        BY <1>1, <1>4, <2>1, <2>4, <3>3, <4>1, <4>2 DEF Private
    <3> QED
      BY <2>4, <3>2, <3>3
  <2>7. NamedStopIsLive'
    <3> SUFFICES ASSUME row.status = "open", row.stopOrder # None, faults' = 0,
                        orders'[row.stopOrder].status = "canceled"
                 PROVE  \E g \in Handlers : /\ mine'[g].row.stopOrder = row.stopOrder
                                            /\ pc'[g] \in Replacing
      BY <1>1 DEF NamedStopIsLive, Replacing
    <3>1. row.stopOrder \in DOMAIN orders
      BY DEF StopInv, Named, NamesStop
    <3>2. PICK g \in Handlers : mine[g].row.stopOrder = row.stopOrder /\ pc[g] \in Replacing
      BY <1>3, <2>1, <3>1 DEF StopInv, NamedStopIsLive, Replacing
    <3> QED
      BY <1>5, <2>4, <3>2
  <2> QED
    BY <2>5, <2>6, <2>7 DEF StopInv
<1>7. CASE orders' = orders /\ mine' = mine
  <2>1. NamedStopIsLive'
    <3> SUFFICES ASSUME row.status = "open", row.stopOrder # None, faults' = 0,
                        orders[row.stopOrder].status = "canceled"
                 PROVE  \E g \in Handlers : /\ mine[g].row.stopOrder = row.stopOrder
                                            /\ pc'[g] \in Replacing
      BY <1>1, <1>7 DEF NamedStopIsLive, Replacing
    <3>1. PICK g \in Handlers : mine[g].row.stopOrder = row.stopOrder /\ pc[g] \in Replacing
      BY <1>3 DEF StopInv, NamedStopIsLive, Replacing
    <3> QED
      BY <1>5, <3>1
  <2> QED
    BY <1>1, <1>7, <2>1 DEF StopInv, Named, NamesStop, NamesTp, Private
<1> QED
  BY <1>6, <1>7 DEF Place

(* The row names the handler's own order from now on, or none.              *)
LEMMA RestopKeepsNames ==
    ASSUME HandlersFit, Shared, StopInv, NEW h \in Handlers, Restop(h)
    PROVE  StopInv'
<1>1. /\ row' = [row EXCEPT !.stop = mine[h].stop, !.stopOrder = mine[h].order]
      /\ Goto(h, "idle") /\ Keep(h, Blank)
      /\ UNCHANGED <<plan, orders, sold, price, faults>>
  BY DEF Restop, Done
<1>2. /\ row'.stopOrder = mine[h].order /\ row'.tpOrder = row.tpOrder
      /\ row'.status = row.status
  BY <1>1 DEF Shared, Rows
<1>3. mine'[h] = Blank /\ \A g \in Handlers \ {h} : mine'[g] = mine[g]
  BY <1>1, OthersStay
<1>4. Named'
  BY <1>1, <1>2, <1>3, NamesOfCopies DEF StopInv, Named, NamesStop, NamesTp
<1>5. ASSUME NEW g \in Handlers PROVE Private(g)'
  <2>1. Private(g)
    BY DEF StopInv
  <2> QED
    BY <1>1, <1>2, <1>3, <2>1, NamesOfCopies DEF Private
<1>6. NamedStopIsLive'
  BY <1>1, <1>2 DEF StopInv, Private, NamedStopIsLive
<1> QED
  BY <1>4, <1>5, <1>6 DEF StopInv

(* The exchange executes orders that were not cancelled.                    *)
LEMMA MarketKeepsNames ==
    ASSUME HandlersFit, Shared, StopInv,
           MovePrice \/ \E i \in DOMAIN orders : Execute(i)
    PROVE  StopInv'
<1>1. UNCHANGED <<row, pc, mine, faults>>
  BY DEF MovePrice, Execute
<1>2. CASE MovePrice
  <2>1. orders' = orders
    BY <1>2 DEF MovePrice
  <2> QED
    BY <1>1, <2>1 DEF StopInv, Named, NamesStop, NamesTp, Private, NamedStopIsLive
<1>3. CASE \E i \in DOMAIN orders : Execute(i)
  <2>1. PICK i \in DOMAIN orders : Execute(i)
    BY <1>3
  <2>2. /\ DOMAIN orders' = DOMAIN orders
        /\ \A j \in DOMAIN orders :
             /\ orders'[j].kind = orders[j].kind
             /\ orders'[j].status \in {orders[j].status, "filled"}
    BY <2>1, StatusChanges DEF Shared, Execute
  <2>3. Named'
    BY <1>1, <2>2 DEF StopInv, Named, NamesStop, NamesTp
  <2>4. ASSUME NEW g \in Handlers PROVE Private(g)'
    BY <1>1, <2>2 DEF StopInv, Named, NamesStop, Private
  <2>5. NamedStopIsLive'
    <3>1. NamesStop(row.stopOrder) /\ NamedStopIsLive
      BY DEF StopInv, Named
    <3> QED
      BY <1>1, <2>2, <3>1 DEF NamesStop, NamedStopIsLive
  <2> QED
    BY <2>3, <2>4, <2>5 DEF StopInv
<1> QED
  BY <1>2, <1>3

LEMMA NextStop == WholeInv /\ StopInv /\ [Next]_vars => StopInv'
<1> SUFFICES ASSUME HandlersFit, Shared, StopInv, [Next]_vars PROVE StopInv'
  BY WholeInvParts
<1>1. ASSUME NEW h \in Handlers, Work(h) PROVE StopInv'
  BY <1>1, SalesKeepNames, CancelsKeepNames, PlaceKeepsNames, RestopKeepsNames DEF Work
<1>2. ASSUME NEW m \in Monitors, Watch(m) \/ MonitorStep(m) PROVE StopInv'
  <2>1. m \in Handlers
    BY DEF Handlers
  <2> QED
    BY <1>1, <1>2, <2>1, ChecksKeepNames, SalesKeepNames DEF MonitorStep
<1>3. ASSUME NEW l \in Listeners,
             \/ \E stop \in NewStops : ReceiveUpdate(l, stop)
             \/ ReceiveStopHit(l) \/ ListenerStep(l)
      PROVE  StopInv'
  <2>1. l \in Handlers
    BY DEF Handlers
  <2> QED
    BY <1>1, <1>3, <2>1, ChecksKeepNames, CancelsKeepNames DEF ListenerStep
<1>4. CASE UNCHANGED vars
  BY <1>4 DEF vars, StopInv, Named, NamesStop, NamesTp, Private, NamedStopIsLive
<1> QED
  BY <1>2, <1>3, <1>4, FailKeepsNames, MarketKeepsNames DEF Next

(* Without faults no dead stop order is brought back into the row, however  *)
(* many monitors and listeners cancel, place and write at once.             *)
THEOREM StopsStayLive == Spec => []NamedStopIsLive
<1>1. StopInv => NamedStopIsLive
  BY DEF StopInv
<1> QED
  BY InitWhole, NextWhole, InitStop, NextStop, <1>1, PTL DEF Spec

-----------------------------------------------------------------------------
(***************************************************************************)
(* One monitor, the exchange and no faults: what was sold keeps ahead of   *)
(* what the row says is gone.                                              *)
(***************************************************************************)
OneMonitor == \A m, n \in Monitors : m = n
Undisturbed == plan.buy /\ ~plan.tasso /\ faults = 0

Gone == Quantity - row.remaining

(* So much was sold, and by something else than any order that executed.    *)
Apart(least) ==
    /\ sold >= least
    /\ \A i \in DOMAIN orders : orders[i].status = "filled" => sold >= least + orders[i].qty

Covers(id) == id # None => orders[id].qty >= row.remaining

InSync(m) ==
    /\ mine[m].row.remaining = row.remaining
    /\ mine[m].row.stopOrder = row.stopOrder
    /\ mine[m].row.tpOrder = row.tpOrder

RowSold ==
    /\ \A i \in DOMAIN orders : /\ orders[i].qty > 0
                                /\ orders[i].kind = "tp" => orders[i].status # "canceled"
    /\ Covers(row.stopOrder) /\ Covers(row.tpOrder)
    /\ row.status = "closed" => sold >= Quantity

(* A part that was sold is not in the row before it is recorded.            *)
SoldBy(m) ==
    /\ row.status = "open" /\ pc[m] \notin {"record", "close"} => Apart(Gone)
    /\ pc[m] # "idle" => row.status = "open" /\ InSync(m)
    /\ Covers(mine[m].order)
    /\ pc[m] = "record" => mine[m].deal >= 0 /\ Apart(Gone + mine[m].deal)
    /\ pc[m] = "close" => sold >= Quantity

Alone == \A l \in Listeners : pc[l] = "idle"
SoldInv == Undisturbed => Alone /\ RowSold /\ \A m \in Monitors : SoldBy(m)

LEMMA SharedNumbers ==
    ASSUME Shared
    PROVE  /\ row.remaining \in Int /\ row.remaining > 0 /\ Gone \in Int
           /\ sold \in Int /\ Quantity \in Int
           /\ row.status \in {"open", "closed"}
           /\ \A i \in DOMAIN orders : /\ orders[i].qty \in Int
                                       /\ orders[i].kind \in {"stop", "tp"}
                                       /\ orders[i].status \in {"open", "filled", "canceled"}
<1>1. \A i \in DOMAIN orders : orders[i] \in Orders
  BY DEF Shared
<1> QED
  BY <1>1, PositionAssumption DEF Shared, Rows, Orders, Whole, Gone

LEMMA MineNumbers ==
    ASSUME HandlersFit, NEW h \in Handlers
    PROVE  /\ mine[h] \in Memories /\ mine[h].row \in Rows /\ Whole(mine[h].row)
           /\ mine[h].deal \in Int /\ mine[h].row.remaining \in Int
           /\ mine[h].row.remaining > 0 /\ mine[h].row.taken \in Nat
BY DEF HandlersFit, Fit, Memories, Rows, Whole

LEMMA InitSold == Init => SoldInv
<1> SUFFICES ASSUME Init PROVE SoldInv
  OBVIOUS
<1>1. WholeInv /\ StopInv
  BY InitWhole, InitStop
<1>2. Shared
  BY <1>1, WholeInvParts
<1>3. \A h \in Handlers : mine[h] = Blank /\ pc[h] = "idle"
  BY DEF Init
<1>4. row.remaining = Quantity /\ row.status = "open" /\ sold = 0
  BY DEF Init, NewRow
<1>5. \A i \in DOMAIN orders : orders[i].qty = Quantity /\ orders[i].status = "open"
  <2> DEFINE st == NewOrder("stop", Quantity, Bottom)
             tp == NewOrder("tp", Quantity, Top)
  <2>1. orders = <<>> \/ orders = <<st>> \/ orders = <<tp>> \/ orders = <<st, tp>>
    BY Zenon DEF Init, InitialOrders
  <2>2. st.qty = Quantity /\ tp.qty = Quantity /\ st.status = "open" /\ tp.status = "open"
    BY DEF NewOrder
  <2> HIDE DEF st, tp
  <2> QED
    BY <2>1, <2>2
<1>6. RowSold
  <2>1. Covers(row.stopOrder) /\ Covers(row.tpOrder)
    BY <1>1, <1>4, <1>5, PositionAssumption DEF StopInv, Named, NamesStop, NamesTp, Covers
  <2> QED
    BY <1>4, <1>5, <2>1, PositionAssumption DEF RowSold
<1>7. ASSUME NEW m \in Monitors PROVE SoldBy(m)
  <2>1. pc[m] = "idle" /\ mine[m].order = None
    BY <1>3 DEF Handlers, Blank
  <2>2. Apart(Gone)
    BY <1>4, <1>5, PositionAssumption DEF Apart, Gone
  <2> QED
    BY <2>1, <2>2 DEF SoldBy, Covers
<1>8. Alone
  BY <1>3 DEF Alone, Handlers
<1> QED
  BY <1>6, <1>7, <1>8 DEF SoldInv

(* A step of the only monitor concerns no other handler.                    *)
LEMMA OneSells ==
    ASSUME OneMonitor, NEW m \in Monitors, SoldInv,
           \A g \in Handlers \ {m} : pc'[g] = pc[g],
           plan' = plan, faults' = 0 => faults = 0,
           Undisturbed => (RowSold /\ SoldBy(m))'
    PROVE  SoldInv'
<1> SUFFICES ASSUME Undisturbed' PROVE (Alone /\ RowSold /\ \A n \in Monitors : SoldBy(n))'
  BY DEF SoldInv
<1>1. Undisturbed
  BY DEF Undisturbed
<1>2. RowSold' /\ SoldBy(m)'
  BY <1>1
<1>3. \A n \in Monitors : n = m
  BY DEF OneMonitor
<1>4. \A l \in Listeners : l \in Handlers \ {m}
  BY PositionAssumption DEF Handlers
<1>5. Alone'
  BY <1>1, <1>4 DEF SoldInv, Alone
<1>6. ASSUME NEW n \in Monitors PROVE SoldBy(n)'
  BY <1>2, <1>3, Zenon
<1> QED
  BY <1>2, <1>5, <1>6

(* A step that changes neither row nor orders nor what was sold.            *)
LEMMA SteadySold ==
    ASSUME HandlersFit, OneMonitor, NEW m \in Monitors, SoldInv,
           UNCHANGED <<plan, row, orders, sold>>, faults' = 0 => faults = 0,
           NEW step, NEW new, Goto(m, step), Keep(m, new) \/ (mine' = mine /\ new = mine[m]),
           step \notin {"idle", "record"}, row.status = "open",
           pc[m] \notin {"record", "close"},
           /\ new.row.remaining = row.remaining
           /\ new.row.stopOrder = row.stopOrder /\ new.row.tpOrder = row.tpOrder,
           new.order \in {None, mine[m].order},
           Undisturbed /\ RowSold /\ SoldBy(m) /\ step = "close" => sold >= Quantity
    PROVE  SoldInv'
<1>1. /\ pc'[m] = step /\ mine'[m] = new
      /\ \A g \in Handlers \ {m} : pc'[g] = pc[g]
  BY OthersStay DEF Handlers
<1>2. ASSUME Undisturbed PROVE (RowSold /\ SoldBy(m))'
  <2>1. RowSold /\ SoldBy(m)
    BY <1>2 DEF SoldInv
  <2>2. RowSold'
    BY <2>1 DEF RowSold, Covers
  <2>3. SoldBy(m)'
    BY <1>1, <1>2, <2>1 DEF SoldBy, Covers, Apart, Gone, InSync
  <2> QED
    BY <2>2, <2>3
<1> QED
  BY <1>1, <1>2, OneSells

(* Going home without having done anything.                                 *)
LEMMA DoneSold ==
    ASSUME HandlersFit, OneMonitor, NEW m \in Monitors, SoldInv, Done(m),
           UNCHANGED <<plan, row, orders, sold>>, faults' = 0 => faults = 0,
           pc[m] \notin {"record", "close"}
    PROVE  SoldInv'
<1>1. /\ pc'[m] = "idle" /\ mine'[m] = Blank
      /\ \A g \in Handlers \ {m} : pc'[g] = pc[g]
  BY OthersStay DEF Handlers, Done
<1>2. ASSUME Undisturbed PROVE (RowSold /\ SoldBy(m))'
  <2>1. RowSold /\ SoldBy(m)
    BY <1>2 DEF SoldInv
  <2>2. RowSold'
    BY <2>1 DEF RowSold, Covers
  <2>3. SoldBy(m)'
    BY <1>1, <2>1, NamesOfCopies DEF SoldBy, Covers, Apart, Gone
  <2> QED
    BY <2>2, <2>3
<1> QED
  BY <1>1, <1>2, OneSells

(* An order that the monitor finds executed has sold all that was left: the *)
(* stop is not one that somebody cancelled, and no target ever is.          *)
LEMMA ExecutedIsAll ==
    ASSUME HandlersFit, Shared, StopInv, OneMonitor, Undisturbed, Alone, RowSold,
           NEW m \in Monitors, SoldBy(m), NEW id, SeemsFilled(id),
           \/ pc[m] = "stop" /\ id = mine[m].row.stopOrder
           \/ pc[m] = "tp" /\ id = mine[m].row.tpOrder
    PROVE  sold >= Quantity
<1>1. row.status = "open" /\ InSync(m) /\ Apart(Gone)
  BY DEF SoldBy
<1>2. id # None /\ orders[id].status # "open" /\ id \in {row.stopOrder, row.tpOrder}
  BY <1>1 DEF SeemsFilled, InSync
<1>3. id \in DOMAIN orders /\ Covers(id)
  BY <1>2 DEF StopInv, Named, NamesStop, NamesTp, RowSold
<1>4. orders[id].status # "canceled"
  <2>1. CASE pc[m] = "stop" /\ id = mine[m].row.stopOrder
    <3> SUFFICES ASSUME orders[id].status = "canceled" PROVE FALSE
      OBVIOUS
    <3>1. id = row.stopOrder
      BY <1>1, <2>1 DEF InSync
    <3>2. PICK h \in Handlers : pc[h] \in Replacing
      BY <1>1, <1>2, <3>1 DEF StopInv, NamedStopIsLive, Undisturbed, Replacing
    <3>3. h = m \/ pc[h] = "idle"
      BY DEF Handlers, OneMonitor, Alone
    <3> QED
      BY <2>1, <3>2, <3>3 DEF Replacing
  <2>2. CASE pc[m] = "tp" /\ id = mine[m].row.tpOrder
    <3>1. id = row.tpOrder
      BY <1>1, <2>2 DEF InSync
    <3> QED
      BY <1>2, <1>3, <3>1 DEF StopInv, Named, NamesTp, RowSold
  <2> QED
    BY <2>1, <2>2
<1>5. orders[id].status = "filled"
  BY <1>2, <1>3, <1>4, SharedNumbers
<1> QED
  BY <1>1, <1>2, <1>3, <1>5, SharedNumbers DEF Apart, Covers, Gone

LEMMA ChecksSold ==
    ASSUME HandlersFit, Shared, StopInv, OneMonitor, SoldInv, NEW m \in Monitors,
           Watch(m) \/ CheckTp(m) \/ CheckStop(m) \/ LookAtPrice(m)
    PROVE  SoldInv'
<1>1. UNCHANGED <<plan, row, orders, sold, faults>> /\ m \in Handlers
  BY DEF Watch, CheckTp, CheckStop, CheckOrder, LookAtPrice, Handlers
<1>2. CASE Watch(m)
  <2>1. PICK step \in {"stop", "tp", "price", "sellAll"} : Goto(m, step) /\ Keep(m, Copy)
    BY <1>2 DEF Watch, FirstCheck
  <2>2. row.status = "open" /\ pc[m] = "idle"
    BY <1>2 DEF Watch
  <2> QED
    BY <1>1, <2>1, <2>2, NamesOfCopies, SteadySold
<1>3. ASSUME NEW step \in {"stop", "tp"}, NEW id, NEW next \in {"stop", "price"},
             CheckOrder(m, step, id, next),
             \/ step = "stop" /\ id = mine[m].row.stopOrder
             \/ step = "tp" /\ id = mine[m].row.tpOrder
      PROVE  SoldInv'
  <2>1. pc[m] = step
    BY <1>3 DEF CheckOrder
  <2> DEFINE new == [mine[m] EXCEPT !.deal = mine[m].row.remaining]
  <2>2. CASE ~Undisturbed'
    BY <2>2 DEF SoldInv
  <2>3. CASE Undisturbed'
    <3>1. Undisturbed /\ Alone /\ RowSold /\ SoldBy(m)
      BY <1>1, <2>3 DEF Undisturbed, SoldInv
    <3>2. row.status = "open" /\ InSync(m)
      BY <1>3, <2>1, <3>1 DEF SoldBy
    <3>3. CASE SeemsFilled(id)
      <4>1. Goto(m, "close") /\ Keep(m, new)
        BY <1>3, <3>3 DEF CheckOrder
      <4>2. sold >= Quantity
        BY <1>3, <2>1, <3>1, <3>3, ExecutedIsAll
      <4>3. new.row = mine[m].row /\ new.order = mine[m].order
        BY <1>1, NamesOfCopies
      <4> HIDE DEF new
      <4> QED
        BY <1>1, <1>3, <2>1, <3>2, <4>1, <4>2, <4>3, SteadySold DEF InSync
    <3>4. CASE ~SeemsFilled(id)
      <4>1. Goto(m, next) /\ mine' = mine
        BY <1>3, <3>4 DEF CheckOrder
      <4> QED
        BY <1>1, <1>3, <2>1, <3>2, <4>1, SteadySold DEF InSync
    <3> QED
      BY <3>3, <3>4
  <2> QED
    BY <2>2, <2>3
<1>4. CASE CheckTp(m)
  BY <1>3, <1>4 DEF CheckTp
<1>5. CASE CheckStop(m)
  BY <1>3, <1>5 DEF CheckStop
<1>6. CASE LookAtPrice(m)
  <2>1. pc[m] = "price"
    BY <1>6 DEF LookAtPrice
  <2>2. CASE Done(m)
    BY <1>1, <2>1, <2>2, DoneSold
  <2>3. CASE ~Done(m)
    <3>1. PICK step \in {"sellAll", "sellPart"} : Goto(m, step) /\ mine' = mine
      BY <1>6, <2>3 DEF LookAtPrice
    <3>2. CASE ~Undisturbed'
      BY <3>2 DEF SoldInv
    <3>3. CASE Undisturbed'
      <4>1. SoldBy(m)
        BY <1>1, <3>3 DEF Undisturbed, SoldInv
      <4>2. row.status = "open" /\ InSync(m)
        BY <2>1, <4>1 DEF SoldBy
      <4> QED
        BY <1>1, <2>1, <3>1, <4>2, SteadySold DEF InSync
    <3> QED
      BY <3>2, <3>3
  <2> QED
    BY <2>2, <2>3
<1> QED
  BY <1>2, <1>4, <1>5, <1>6

(* What a sale adds to what was sold.                                       *)
LEMMA SaleAdds ==
    ASSUME Shared, RowSold, NEW f \in Int, f >= 0, NEW least \in Int, Apart(least),
           sold' = sold + f, UNCHANGED <<row, orders>>
    PROVE  /\ RowSold'
           /\ sold' >= least + f
           /\ \A i \in DOMAIN orders' : orders'[i].status = "filled"
                                          => sold' >= least + f + orders'[i].qty
<1>1. RowSold'
  BY SharedNumbers DEF RowSold, Covers
<1> QED
  BY <1>1, SharedNumbers DEF Apart

LEMMA SalesSold ==
    ASSUME HandlersFit, Shared, OneMonitor, SoldInv, NEW m \in Monitors,
           SellPart(m) \/ SellAll(m)
    PROVE  SoldInv'
<1> DEFINE r == mine[m].row
<1>1. /\ UNCHANGED <<plan, row, orders>> /\ pc[m] \in {"sellPart", "sellAll"}
      /\ m \in Handlers
  BY DEF SellPart, SellAll, Handlers
<1>2. /\ r \in Rows /\ Whole(r) /\ r.remaining \in Int /\ r.remaining > 0
      /\ mine[m] \in Memories
  BY <1>1, MineNumbers
<1>3. CASE ~Undisturbed'
  BY <1>3 DEF SoldInv
<1>4. CASE Undisturbed'
  <2>1. faults' = 0 /\ plan.buy /\ faults' # faults + 1
    <3>1. faults' = 0
      BY <1>4 DEF Undisturbed
    <3>2. faults' = faults + 1 => FALSE
      BY <3>1, PositionAssumption DEF Shared
    <3> QED
      BY <1>1, <1>4, <3>1, <3>2 DEF Undisturbed
  <2>2. PICK q, new, step :
          /\ q \in Int /\ sold' = sold + q /\ q >= 0
          /\ Goto(m, step) /\ Keep(m, new) /\ faults' = faults
          /\ new.row = r /\ new.order = mine[m].order
          /\ step \in {"record", "close"}
          /\ step = "record" => new.deal = q
          /\ step = "close" => q >= r.remaining
    <3>1. CASE SellAll(m)
      <4> DEFINE new == [mine[m] EXCEPT !.deal = r.remaining]
      <4>1. sold' = sold + r.remaining
        BY <1>2, <2>1, <3>1, FillsAreWhole DEF SellAll
      <4>2. Keep(m, new) /\ Goto(m, "close") /\ faults' = faults
        BY <2>1, <3>1 DEF SellAll, Fault
      <4>3. new.row = r /\ new.order = mine[m].order
        BY <1>1, NamesOfCopies
      <4> HIDE DEF new
      <4> QED
        BY <1>2, <4>1, <4>2, <4>3
    <3>2. CASE SellPart(m)
      <4> DEFINE q == PartQuantity(r)
                 new == [mine[m] EXCEPT !.deal = q]
      <4>1. Partial
        BY <1>1, <3>2 DEF SellPart, HandlersFit, Fit
      <4>2. q \in Int /\ q <= r.remaining /\ (r.taken + 1 >= plan.levels => q = r.remaining)
        BY <1>2, <4>1, PartFits
      <4>3. q >= 0
        <5>1. plan.levels \in Nat /\ plan.levels > 0
          BY <4>1, PositionAssumption DEF Shared, Partial, Plan
        <5>2. Quantity \div plan.levels \in Int /\ Quantity \div plan.levels >= 0
          BY <5>1, PositionAssumption
        <5> QED
          BY <1>2, <5>2 DEF PartQuantity
      <4>4. PICK f \in Fills(q) :
              /\ sold' = sold + f
              /\ \/ Keep(m, [mine[m] EXCEPT !.deal = f]) /\ Goto(m, Sequel(r, f))
                    /\ UNCHANGED faults
                 \/ Done(m) /\ Fault
        BY <3>2 DEF SellPart
      <4>5. f = q
        BY <2>1, <4>2, FillsAreWhole
      <4>6. Keep(m, new) /\ Goto(m, Sequel(r, q)) /\ faults' = faults /\ sold' = sold + q
        BY <2>1, <4>4, <4>5 DEF Fault
      <4>7. new.row = r /\ new.order = mine[m].order /\ new.deal = q
        <5> HIDE DEF q
        <5> QED
          BY <1>1, <1>2, NamesOfCopies DEF Memories
      <4> HIDE DEF q, new
      <4>8. /\ Sequel(r, q) \in {"record", "close"}
            /\ Sequel(r, q) = "close" => q >= r.remaining
        BY <1>2, <4>2 DEF Sequel
      <4> QED
        BY <4>2, <4>3, <4>6, <4>7, <4>8
    <3> QED
      BY <3>1, <3>2
  <2> HIDE DEF r
  <2>3. /\ pc'[m] = step /\ mine'[m] = new
        /\ \A g \in Handlers \ {m} : pc'[g] = pc[g]
    BY <1>1, <2>2, OthersStay
  <2>4. ASSUME Undisturbed PROVE (RowSold /\ SoldBy(m))'
    <3>1. RowSold /\ SoldBy(m) /\ Apart(Gone) /\ row.status = "open" /\ InSync(m)
      BY <1>1, <2>4 DEF SoldInv, SoldBy
    <3>2. /\ RowSold' /\ sold' >= Gone + q
          /\ \A i \in DOMAIN orders' : orders'[i].status = "filled"
                                         => sold' >= Gone + q + orders'[i].qty
      BY <1>1, <2>2, <3>1, SharedNumbers, SaleAdds
    <3>3. /\ row'.status = "open" /\ InSync(m)' /\ Covers(mine[m].order)'
      BY <1>1, <2>2, <2>3, <3>1 DEF SoldBy, InSync, Covers, r
    <3>4. step = "close" => sold' >= Quantity
      BY <2>2, <3>1, <3>2, SharedNumbers DEF InSync, Gone, r
    <3>5. step = "record" => mine'[m].deal >= 0 /\ Apart(Gone + mine[m].deal)'
      BY <1>1, <2>2, <2>3, <3>2 DEF Apart, Gone
    <3> QED
      BY <2>2, <2>3, <3>2, <3>3, <3>4, <3>5 DEF SoldBy
  <2> QED
    BY <1>1, <2>2, <2>3, <2>4, OneSells
<1> QED
  BY <1>3, <1>4

(* Recording a part takes it off what the row says is left.                 *)
LEMMA RecordSold ==
    ASSUME HandlersFit, Shared, StopInv, OneMonitor, SoldInv, NEW m \in Monitors, Record(m)
    PROVE  SoldInv'
<1> DEFINE r == Recorded(mine[m].row, mine[m].deal)
           next == AfterRecord(r)
           new == IF next = "idle" THEN Blank
                  ELSE [row |-> r, deal |-> 0, stop |-> Entry, order |-> None]
<1>1. /\ row' = [row EXCEPT !.remaining = r.remaining, !.taken = r.taken, !.realized = r.realized]
      /\ Goto(m, next) /\ Keep(m, new) /\ pc[m] = "record" /\ m \in Handlers
      /\ UNCHANGED <<plan, orders, sold, price, faults>>
  BY DEF Record, Handlers
<1>2. next \in {"idle", "restop", "cancel", "place"}
  BY DEF AfterRecord
<1>3. new.order = None /\ (next # "idle" => new.row = r)
  BY NamesOfCopies
<1>4. /\ r.remaining = mine[m].row.remaining - mine[m].deal
      /\ r.stopOrder = mine[m].row.stopOrder /\ r.tpOrder = mine[m].row.tpOrder
  BY <1>1, MineNumbers DEF Recorded, Rows
<1> HIDE DEF r, next, new
<1>5. /\ row'.remaining = r.remaining /\ row'.status = row.status
      /\ row'.stopOrder = row.stopOrder /\ row'.tpOrder = row.tpOrder
  BY <1>1 DEF Shared, Rows
<1>6. /\ pc'[m] = next /\ mine'[m] = new
      /\ \A g \in Handlers \ {m} : pc'[g] = pc[g]
  BY <1>1, OthersStay
<1>7. ASSUME Undisturbed PROVE (RowSold /\ SoldBy(m))'
  <2>1. /\ RowSold /\ InSync(m) /\ row.status = "open"
        /\ mine[m].deal >= 0 /\ Apart(Gone + mine[m].deal)
    BY <1>1, <1>7 DEF SoldInv, SoldBy
  <2>2. row'.remaining = row.remaining - mine[m].deal /\ row'.remaining <= row.remaining
    BY <1>1, <1>4, <1>5, <2>1, MineNumbers, SharedNumbers DEF InSync
  <2>3. Apart(Gone)'
    <3>1. Gone' = Gone + mine[m].deal
      BY <1>1, <2>2, MineNumbers, SharedNumbers DEF Gone
    <3> QED
      BY <1>1, <2>1, <3>1 DEF Apart
  <2>4. RowSold'
    <3>1. ASSUME NEW id, Covers(id), id \in DOMAIN orders \/ id = None PROVE Covers(id)'
      BY <1>1, <2>2, <3>1, MineNumbers, SharedNumbers DEF Covers
    <3>2. /\ row.stopOrder \in DOMAIN orders \/ row.stopOrder = None
          /\ row.tpOrder \in DOMAIN orders \/ row.tpOrder = None
      BY DEF StopInv, Named, NamesStop, NamesTp
    <3>3. (Covers(row.stopOrder) /\ Covers(row.tpOrder))'
      BY <1>5, <2>1, <3>1, <3>2 DEF RowSold, Covers
    <3> QED
      BY <1>1, <1>5, <2>1, <3>3 DEF RowSold
  <2>5. Covers(mine[m].order)'
    BY <1>3, <1>6 DEF Covers
  <2>6. next # "idle" => InSync(m)'
    BY <1>3, <1>4, <1>5, <1>6, <2>1, <2>2 DEF InSync
  <2> QED
    BY <1>2, <1>5, <1>6, <2>1, <2>3, <2>4, <2>5, <2>6 DEF SoldBy
<1> QED
  BY <1>1, <1>6, <1>7, OneSells

LEMMA CloseSold ==
    ASSUME HandlersFit, Shared, OneMonitor, SoldInv, NEW m \in Monitors, Close(m)
    PROVE  SoldInv'
<1>1. /\ row' = [row EXCEPT !.status = "closed", !.booked = mine[m].row.realized + mine[m].deal]
      /\ Goto(m, "idle") /\ Keep(m, Blank) /\ pc[m] = "close" /\ m \in Handlers
      /\ UNCHANGED <<plan, orders, sold, price, faults>>
  BY DEF Close, Done, Handlers
<1>2. /\ row'.remaining = row.remaining /\ row'.status = "closed"
      /\ row'.stopOrder = row.stopOrder /\ row'.tpOrder = row.tpOrder
  BY <1>1 DEF Shared, Rows
<1>3. /\ pc'[m] = "idle" /\ mine'[m] = Blank
      /\ \A g \in Handlers \ {m} : pc'[g] = pc[g]
  BY <1>1, OthersStay
<1>4. ASSUME Undisturbed PROVE (RowSold /\ SoldBy(m))'
  <2>1. RowSold /\ sold >= Quantity
    BY <1>1, <1>4 DEF SoldInv, SoldBy
  <2>2. RowSold'
    BY <1>1, <1>2, <2>1 DEF RowSold, Covers
  <2>3. SoldBy(m)'
    BY <1>2, <1>3, NamesOfCopies DEF SoldBy, Covers
  <2> QED
    BY <2>2, <2>3
<1> QED
  BY <1>1, <1>3, <1>4, OneSells

(* Moving the stop cancels no target, and places an order for all that is   *)
(* left.                                                                    *)
LEMMA CancelSold ==
    ASSUME HandlersFit, Shared, StopInv, OneMonitor, SoldInv, NEW m \in Monitors, Cancel(m)
    PROVE  SoldInv'
<1> DEFINE id == mine[m].row.stopOrder
<1>1. /\ CancelOrder(id) /\ Goto(m, "place") /\ pc[m] = "cancel" /\ m \in Handlers
      /\ UNCHANGED <<plan, row, sold, price, mine>>
  BY DEF Cancel, Handlers
<1>2. pc'[m] = "place" /\ \A g \in Handlers \ {m} : pc'[g] = pc[g]
  BY <1>1, OthersStay
<1>3. faults' = 0 => faults = 0
  BY <1>1, PositionAssumption DEF CancelOrder, Fault, Shared
<1>4. /\ DOMAIN orders' = DOMAIN orders
      /\ \A i \in DOMAIN orders :
           /\ orders'[i].qty = orders[i].qty /\ orders'[i].kind = orders[i].kind
           /\ \/ orders'[i].status = orders[i].status
              \/ orders'[i].status = "canceled" /\ orders[i].kind = "stop"
  <2>1. CASE orders' = orders
    BY <2>1
  <2>2. CASE orders' # orders
    <3>1. orders' = [orders EXCEPT ![id].status = "canceled"] /\ id # None
      BY <1>1, <2>2 DEF CancelOrder, Cancelled
    <3>2. id \in DOMAIN orders /\ orders[id].kind = "stop"
      BY <1>1, <3>1 DEF StopInv, Named, NamesStop
    <3> HIDE DEF id
    <3> QED
      BY <3>1, <3>2, StatusChanges DEF Shared
  <2> QED
    BY <2>1, <2>2
<1>5. ASSUME Undisturbed PROVE (RowSold /\ SoldBy(m))'
  <2>1. RowSold /\ SoldBy(m)
    BY <1>5 DEF SoldInv
  <2>2. \A i : (i # None => i \in DOMAIN orders) => (Covers(i) <=> Covers(i)')
    BY <1>1, <1>4 DEF Covers
  <2>3. /\ row.stopOrder # None => row.stopOrder \in DOMAIN orders
        /\ row.tpOrder # None => row.tpOrder \in DOMAIN orders
        /\ mine[m].order # None => mine[m].order \in DOMAIN orders
    BY <1>1 DEF StopInv, Named, NamesStop, NamesTp
  <2>4. RowSold'
    BY <1>1, <1>4, <2>1, <2>2, <2>3 DEF RowSold
  <2>5. Apart(Gone)'
    BY <1>1, <1>4, <2>1 DEF SoldBy, Apart, Gone
  <2> QED
    BY <1>1, <1>2, <2>1, <2>2, <2>3, <2>4, <2>5 DEF SoldBy, InSync
<1> QED
  BY <1>1, <1>2, <1>3, <1>5, OneSells

LEMMA PlaceSold ==
    ASSUME HandlersFit, Shared, StopInv, OneMonitor, SoldInv, NEW m \in Monitors, Place(m)
    PROVE  SoldInv'
<1> DEFINE o == NewOrder("stop", mine[m].row.remaining, mine[m].stop)
           new == [mine[m] EXCEPT !.order = Len(orders')]
<1>1. UNCHANGED <<plan, row, sold, price>> /\ Goto(m, "restop") /\ pc[m] = "place"
      /\ m \in Handlers
  BY DEF Place, Handlers
<1>2. pc'[m] = "restop" /\ \A g \in Handlers \ {m} : pc'[g] = pc[g]
  BY <1>1, OthersStay
<1>3. faults' = 0 => faults = 0
  BY PositionAssumption DEF Place, Fault, Shared
<1>4. o \in Orders /\ o.kind = "stop" /\ o.status = "open" /\ o.qty = mine[m].row.remaining
  BY <1>1, MineNumbers DEF NewOrder, Orders, Memories
<1>5. new.row = mine[m].row /\ new.order = Len(orders')
  BY <1>1, MineNumbers DEF Memories
<1> HIDE DEF o, new
<1>6. CASE orders' = Append(orders, o)
  <2>1. /\ DOMAIN orders' = DOMAIN orders \cup {Len(orders')}
        /\ Len(orders') \notin DOMAIN orders
        /\ orders'[Len(orders')] = o /\ \A j \in DOMAIN orders : orders'[j] = orders[j]
    BY <1>4, <1>6, OneAppended DEF Shared
  <2>2. mine'[m].row = mine[m].row /\ mine'[m].order \in {mine[m].order, Len(orders')}
    <3>1. mine' = mine \/ Keep(m, new)
      BY DEF Place, new
    <3> QED
      BY <1>1, <1>5, <3>1, OthersStay
  <2>3. ASSUME Undisturbed PROVE (RowSold /\ SoldBy(m))'
    <3>1. RowSold /\ SoldBy(m) /\ Apart(Gone) /\ InSync(m) /\ row.status = "open"
      BY <1>1, <2>3 DEF SoldInv, SoldBy
    <3>2. \A i : (i # None => i \in DOMAIN orders) => (Covers(i) <=> Covers(i)')
      BY <1>1, <2>1 DEF Covers
    <3>3. /\ row.stopOrder # None => row.stopOrder \in DOMAIN orders
          /\ row.tpOrder # None => row.tpOrder \in DOMAIN orders
          /\ mine[m].order # None => mine[m].order \in DOMAIN orders
      BY <1>1 DEF StopInv, Named, NamesStop, NamesTp
    <3>4. o.qty > 0 /\ o.qty >= row'.remaining
      BY <1>1, <1>4, <3>1, MineNumbers, SharedNumbers DEF InSync
    <3>5. RowSold'
      <4>1. \A i \in DOMAIN orders' : /\ orders'[i].qty > 0
                                      /\ orders'[i].kind = "tp" => orders'[i].status # "canceled"
        BY <1>4, <2>1, <3>1, <3>4 DEF RowSold
      <4>2. (Covers(row.stopOrder) /\ Covers(row.tpOrder))'
        BY <1>1, <3>1, <3>2, <3>3 DEF RowSold
      <4>3. row'.status = "closed" => sold' >= Quantity
        BY <1>1, <3>1 DEF RowSold
      <4> QED
        BY <4>1, <4>2, <4>3 DEF RowSold
    <3>6. Apart(Gone)'
      BY <1>1, <1>4, <2>1, <3>1 DEF Apart, Gone
    <3>7. Covers(mine[m].order)'
      <4>1. orders'[Len(orders')].qty >= row'.remaining
        BY <2>1, <3>4
      <4>2. CASE mine'[m].order = mine[m].order
        BY <3>1, <3>2, <3>3, <4>2, <1>1, <2>1 DEF SoldBy, Covers
      <4>3. CASE mine'[m].order = Len(orders')
        BY <4>1, <4>3 DEF Covers
      <4> QED
        BY <2>2, <4>2, <4>3
    <3>8. row'.status = "open" /\ InSync(m)'
      BY <1>1, <2>2, <3>1 DEF InSync
    <3> QED
      BY <1>2, <3>5, <3>6, <3>7, <3>8 DEF SoldBy
  <2> QED
    BY <1>1, <1>2, <1>3, <2>3, OneSells
<1>7. CASE orders' = orders /\ mine' = mine
  <2>1. CASE ~Undisturbed'
    BY <2>1 DEF SoldInv
  <2>2. CASE Undisturbed'
    <3>1. SoldBy(m)
      BY <1>1, <1>3, <2>2 DEF Undisturbed, SoldInv
    <3> QED
      BY <1>1, <1>3, <1>7, <3>1, SteadySold DEF SoldBy, InSync
  <2> QED
    BY <2>1, <2>2
<1> QED
  BY <1>6, <1>7 DEF Place, o

LEMMA RestopSold ==
    ASSUME HandlersFit, Shared, OneMonitor, SoldInv, NEW m \in Monitors, Restop(m)
    PROVE  SoldInv'
<1>1. /\ row' = [row EXCEPT !.stop = mine[m].stop, !.stopOrder = mine[m].order]
      /\ Goto(m, "idle") /\ Keep(m, Blank) /\ pc[m] = "restop" /\ m \in Handlers
      /\ UNCHANGED <<plan, orders, sold, price, faults>>
  BY DEF Restop, Done, Handlers
<1>2. /\ row'.remaining = row.remaining /\ row'.status = row.status
      /\ row'.stopOrder = mine[m].order /\ row'.tpOrder = row.tpOrder
  BY <1>1 DEF Shared, Rows
<1>3. /\ pc'[m] = "idle" /\ mine'[m] = Blank
      /\ \A g \in Handlers \ {m} : pc'[g] = pc[g]
  BY <1>1, OthersStay
<1>4. ASSUME Undisturbed PROVE (RowSold /\ SoldBy(m))'
  <2>1. RowSold /\ SoldBy(m)
    BY <1>4 DEF SoldInv
  <2>2. RowSold'
    BY <1>1, <1>2, <2>1 DEF RowSold, Covers, SoldBy
  <2>3. SoldBy(m)'
    BY <1>1, <1>2, <1>3, <2>1, NamesOfCopies DEF SoldBy, Covers, Apart, Gone
  <2> QED
    BY <2>2, <2>3
<1> QED
  BY <1>1, <1>3, <1>4, OneSells

(* What the exchange executes it sells besides what was sold already.       *)
LEMMA MarketSold ==
    ASSUME HandlersFit, Shared, StopInv, SoldInv, MovePrice \/ \E i \in DOMAIN orders : Execute(i)
    PROVE  SoldInv'
<1>1. UNCHANGED <<plan, row, pc, mine, faults>>
  BY DEF MovePrice, Execute
<1> SUFFICES ASSUME Undisturbed PROVE (Alone /\ RowSold /\ \A m \in Monitors : SoldBy(m))'
  BY <1>1 DEF SoldInv, Undisturbed
<1>2. Alone /\ RowSold /\ \A m \in Monitors : SoldBy(m)
  BY DEF SoldInv
<1>3. CASE MovePrice
  <2>1. UNCHANGED <<orders, sold>>
    BY <1>3 DEF MovePrice
  <2> QED
    BY <1>1, <1>2, <2>1 DEF Alone, RowSold, SoldBy, Covers, Apart, Gone, InSync
<1>4. CASE \E i \in DOMAIN orders : Execute(i)
  <2>1. PICK i \in DOMAIN orders : Execute(i)
    BY <1>4
  <2>2. /\ DOMAIN orders' = DOMAIN orders /\ sold' = sold + orders[i].qty
        /\ \A j \in DOMAIN orders :
             /\ orders'[j].qty = orders[j].qty /\ orders'[j].kind = orders[j].kind
             /\ orders'[j].status = IF j = i THEN "filled" ELSE orders[j].status
    BY <2>1, StatusChanges DEF Shared, Execute, Undisturbed, Leaves
  <2>3. orders[i].qty > 0 /\ sold' > sold
    BY <1>2, <2>2, SharedNumbers DEF RowSold
  <2>4. ASSUME NEW least \in Int, Apart(least)
        PROVE  /\ sold' >= least
               /\ \A j \in DOMAIN orders' : orders'[j].status = "filled"
                                              => sold' >= least + orders'[j].qty
    BY <2>2, <2>3, <2>4, SharedNumbers DEF Apart
  <2>5. ASSUME NEW id, Covers(id), id \in DOMAIN orders \/ id = None PROVE Covers(id)'
    BY <1>1, <2>2, <2>5 DEF Covers
  <2>6. RowSold'
    <3>1. (Covers(row.stopOrder) /\ Covers(row.tpOrder))'
      BY <1>1, <1>2, <2>2, <2>5 DEF RowSold, StopInv, Named, NamesStop, NamesTp, Covers
    <3>2. \A j \in DOMAIN orders' : /\ orders'[j].qty > 0
                                    /\ orders'[j].kind = "tp" => orders'[j].status # "canceled"
      BY <1>2, <2>2 DEF RowSold
    <3>3. row'.status = "closed" => sold' >= Quantity
      BY <1>1, <1>2, <2>2, <2>3, SharedNumbers DEF RowSold
    <3> QED
      BY <3>1, <3>2, <3>3 DEF RowSold
  <2>7. ASSUME NEW m \in Monitors PROVE SoldBy(m)'
    <3>1. SoldBy(m) /\ mine[m].deal \in Int
      BY <1>2, MineNumbers DEF Handlers
    <3>2. Apart(Gone) => Apart(Gone)'
      BY <1>1, <2>4, SharedNumbers DEF Apart, Gone
    <3>3. Apart(Gone + mine[m].deal) => Apart(Gone + mine[m].deal)'
      BY <1>1, <2>4, <3>1, SharedNumbers DEF Apart, Gone
    <3>4. sold >= Quantity => sold' >= Quantity
      BY <2>2, <2>3, SharedNumbers
    <3>5. Covers(mine[m].order)'
      <4>1. mine[m].order \in DOMAIN orders \/ mine[m].order = None
        BY DEF StopInv, Named, NamesStop, Handlers
      <4> QED
        BY <1>1, <2>2, <3>1, <4>1 DEF SoldBy, Covers
    <3> QED
      BY <1>1, <3>1, <3>2, <3>3, <3>4, <3>5 DEF SoldBy, InSync
  <2>8. Alone'
    BY <1>1, <1>2 DEF Alone
  <2> QED
    BY <2>6, <2>7, <2>8
<1> QED
  BY <1>3, <1>4

LEMMA NextSold ==
    ASSUME OneMonitor, WholeInv, StopInv, SoldInv, [Next]_vars
    PROVE  SoldInv'
<1> HandlersFit /\ Shared
  BY WholeInvParts
<1>1. ASSUME NEW m \in Monitors, Watch(m) \/ MonitorStep(m) PROVE SoldInv'
  BY <1>1, ChecksSold, SalesSold, RecordSold, CloseSold, CancelSold, PlaceSold, RestopSold
  DEF MonitorStep, Work
<1>2. ASSUME NEW l \in Listeners,
             \/ \E stop \in NewStops : ReceiveUpdate(l, stop)
             \/ ReceiveStopHit(l) \/ ListenerStep(l)
      PROVE  SoldInv'
  <2>1. pc[l] # "idle" \/ plan.tasso
    BY <1>2 DEF ReceiveUpdate, ReceiveStopHit, FindsTrade, ListenerStep, ClearStop, ClearTp,
                Clear, Work, SellAll, Close, Cancel, Place, Restop
  <2>2. plan' = plan
    BY <1>2 DEF ReceiveUpdate, ReceiveStopHit, FindsTrade, ListenerStep, ClearStop, ClearTp,
                Clear, Work, SellAll, Close, Cancel, Place, Restop
  <2>3. faults' = 0 => faults = 0
    <3>1. faults' = faults \/ faults' = faults + 1
      BY <1>2 DEF ReceiveUpdate, ReceiveStopHit, FindsTrade, ListenerStep, ClearStop, ClearTp,
                  Clear, Work, SellAll, Close, Cancel, Place, Restop, Fault, CancelOrder
    <3> QED
      BY <3>1, PositionAssumption DEF Shared
  <2> QED
    BY <2>1, <2>2, <2>3 DEF SoldInv, Undisturbed, Alone
<1>3. ASSUME NEW h \in Handlers, Fail(h) PROVE SoldInv'
  <2>1. faults' # 0
    BY <1>3, PositionAssumption DEF Fail, Fault, Shared
  <2> QED
    BY <2>1 DEF SoldInv, Undisturbed
<1>4. CASE UNCHANGED vars
  BY <1>4 DEF vars, SoldInv, Undisturbed, Alone, RowSold, SoldBy, Covers, Apart, Gone, InSync
<1> QED
  BY <1>1, <1>2, <1>3, <1>4, MarketSold DEF Next

(* With one monitor at a time, no faults and no word of the channel, a buy  *)
(* is closed only after all of it was sold, whatever its levels and         *)
(* whichever of its orders the exchange executes in between.                *)
THEOREM ClosedIsSold == ASSUME OneMonitor PROVE Spec => []ClosedMeansSold
<1>1. SoldInv => ClosedMeansSold
  BY DEF SoldInv, Undisturbed, RowSold, ClosedMeansSold
<1>2. WholeInv /\ StopInv /\ SoldInv /\ [Next]_vars => SoldInv'
  BY NextSold
<1> QED
  BY InitWhole, NextWhole, InitStop, NextStop, InitSold, <1>1, <1>2, PTL DEF Spec

-----------------------------------------------------------------------------
(***************************************************************************)
(* One monitor, with the channel and with faults: the row implements       *)
(* ScaleOut.                                                               *)
(***************************************************************************)
Moving == {"cancel", "place", "restop"}

(* The copy of the only monitor does not fall behind the levels of the row. *)
KeepsPace(m) ==
    /\ row.status = "open" \/ plan.tasso
    /\ mine[m].row.taken = row.taken
    /\ mine[m].row.remaining = row.remaining
    /\ pc[m] = "record" => /\ row.taken + 1 < plan.levels
                           /\ Exits!Near(mine[m].deal, PartQuantity(row))
    /\ pc[m] \in Moving => /\ mine[m].stop = Entry
                           /\ row.taken > 0 /\ row.taken = plan.breakeven

(* Whoever closes books what its copy says is left, as far as fills allow.  *)
Scales(h) ==
    /\ pc[h] = "close" => Exits!Near(mine[h].deal, mine[h].row.remaining)
    /\ h \in Monitors /\ pc[h] # "idle" => KeepsPace(h)
    /\ h \in Listeners /\ pc[h] # "idle" =>
          /\ plan.tasso
          /\ pc[h] \in Moving => mine[h].stop \in NewStops

ScaleInv == \A h \in Handlers : Scales(h)

LEMMA NearFacts ==
    ASSUME Shared, NEW q \in Int
    PROVE  /\ Exits!Near(q, q)
           /\ \A f \in Fills(q) : f \in Int /\ Exits!Near(f, q)
           /\ \A f, rest \in Int :
                Exits!Near(f, q) /\ q <= rest /\ f >= rest => Exits!Near(f, rest)
<1>1. Exits!Off \in Nat /\ (plan.buy => Exits!Off = 0) /\ (~plan.buy => Exits!Off = Slip)
  BY PositionAssumption DEF Exits!Off
<1>2. \A a, b \in Int : Exits!Near(a, b) <=> a - b >= -Exits!Off /\ a - b <= Exits!Off
  BY <1>1 DEF Exits!Near
<1>3. \A f \in Fills(q) : f \in Int /\ f - q >= -Exits!Off /\ f - q <= Exits!Off
  BY <1>1, PositionAssumption DEF Fills
<1> HIDE DEF Exits!Near
<1> QED
  BY <1>1, <1>2, <1>3

(* A step that leaves what other handlers rely on.                          *)
LEMMA OneScales ==
    ASSUME OneMonitor, ScaleInv, NEW h \in Handlers, plan' = plan,
           \A g \in Handlers \ {h} : pc'[g] = pc[g] /\ mine'[g] = mine[g],
           h \in Monitors \/ (/\ row'.taken = row.taken /\ row'.remaining = row.remaining
                              /\ row'.status = row.status \/ plan.tasso),
           Scales(h)'
    PROVE  ScaleInv'
<1> SUFFICES ASSUME NEW g \in Handlers, g # h PROVE Scales(g)'
  BY DEF ScaleInv
<1>1. Scales(g) /\ pc'[g] = pc[g] /\ mine'[g] = mine[g]
  BY DEF ScaleInv
<1>2. pc'[g] = "close" => Exits!Near(mine[g].deal, mine[g].row.remaining)'
  BY <1>1 DEF Scales, Exits!Near, Exits!Off
<1>3. ASSUME g \in Monitors, pc[g] # "idle" PROVE KeepsPace(g)'
  <2>1. KeepsPace(g)
    BY <1>1, <1>3 DEF Scales
  <2>2. h \notin Monitors
    BY <1>3 DEF OneMonitor
  <2>3. PartQuantity(row)' = PartQuantity(row)
    BY <2>2 DEF PartQuantity
  <2> QED
    BY <1>1, <2>1, <2>2, <2>3 DEF KeepsPace, Exits!Near, Exits!Off
<1> QED
  BY <1>1, <1>2, <1>3 DEF Scales

LEMMA IdleScales ==
    ASSUME HandlersFit, OneMonitor, ScaleInv, NEW h \in Handlers, Done(h), plan' = plan,
           h \in Monitors \/ (/\ row'.taken = row.taken /\ row'.remaining = row.remaining
                              /\ row'.status = row.status \/ plan.tasso)
    PROVE  ScaleInv'
<1>1. /\ pc'[h] = "idle"
      /\ \A g \in Handlers \ {h} : pc'[g] = pc[g] /\ mine'[g] = mine[g]
  BY OthersStay DEF Done
<1>2. Scales(h)'
  BY <1>1 DEF Scales
<1> QED
  BY <1>1, <1>2, OneScales

(* A handler goes on with what it remembers.                                *)
LEMMA GoesOn ==
    ASSUME HandlersFit, OneMonitor, ScaleInv, NEW h \in Handlers, UNCHANGED <<plan, row>>,
           NEW step, NEW new, Goto(h, step), Keep(h, new) \/ (mine' = mine /\ new = mine[h]),
           pc[h] # "idle", new.row = mine[h].row, new.stop = mine[h].stop,
           step = "close" => Exits!Near(new.deal, new.row.remaining),
           step = "record" => h \in Monitors /\ row.taken + 1 < plan.levels
                                /\ Exits!Near(new.deal, PartQuantity(row)),
           step \in Moving => pc[h] \in Moving
    PROVE  ScaleInv'
<1>1. /\ pc'[h] = step /\ mine'[h] = new
      /\ \A g \in Handlers \ {h} : pc'[g] = pc[g] /\ mine'[g] = mine[g]
  BY OthersStay
<1>2. Scales(h)
  BY DEF ScaleInv
<1>3. step = "close" => Exits!Near(mine[h].deal, mine[h].row.remaining)'
  BY <1>1 DEF Exits!Near, Exits!Off
<1>4. ASSUME h \in Monitors PROVE KeepsPace(h)'
  <2>1. KeepsPace(h)
    BY <1>2, <1>4 DEF Scales
  <2>2. PartQuantity(row)' = PartQuantity(row)
    BY DEF PartQuantity
  <2>3. step = "record" => Exits!Near(mine[h].deal, PartQuantity(row))'
    BY <1>1, <2>2 DEF Exits!Near, Exits!Off
  <2> QED
    BY <1>1, <2>1, <2>3 DEF KeepsPace
<1>5. h \in Listeners => plan'.tasso /\ (step \in Moving => mine'[h].stop \in NewStops)
  BY <1>1, <1>2 DEF Scales
<1>6. Scales(h)'
  BY <1>1, <1>3, <1>4, <1>5 DEF Scales
<1> QED
  BY <1>1, <1>6, OneScales

LEMMA InitScale == Init => ScaleInv
BY DEF Init, ScaleInv, Scales, Handlers

LEMMA ChecksScale ==
    ASSUME HandlersFit, Shared, OneMonitor, ScaleInv, NEW m \in Monitors,
           Watch(m) \/ CheckTp(m) \/ CheckStop(m) \/ LookAtPrice(m)
    PROVE  ScaleInv'
<1>1. UNCHANGED <<plan, row>> /\ m \in Handlers
  BY DEF Watch, CheckTp, CheckStop, CheckOrder, LookAtPrice, Handlers
<1>2. CASE Watch(m)
  <2>1. PICK step \in {"stop", "tp", "price", "sellAll"} : Goto(m, step) /\ Keep(m, Copy)
    BY <1>2 DEF Watch, FirstCheck
  <2>2. /\ pc'[m] = step /\ mine'[m] = Copy
        /\ \A g \in Handlers \ {m} : pc'[g] = pc[g] /\ mine'[g] = mine[g]
    BY <1>1, <2>1, OthersStay
  <2>3. row.status = "open"
    BY <1>2 DEF Watch
  <2>4. Scales(m)'
    BY <1>1, <2>2, <2>3, NamesOfCopies, PositionAssumption DEF Scales, KeepsPace, Moving
  <2> QED
    BY <1>1, <2>2, <2>4, OneScales
<1>3. ASSUME NEW step \in {"stop", "tp"}, NEW id, NEW next \in {"stop", "price"},
             CheckOrder(m, step, id, next)
      PROVE  ScaleInv'
  <2> DEFINE new == [mine[m] EXCEPT !.deal = mine[m].row.remaining]
  <2>1. new.row = mine[m].row /\ new.stop = mine[m].stop /\ new.deal = new.row.remaining
    BY <1>1, MineNumbers DEF Memories
  <2>2. new.row.remaining \in Int
    BY <1>1, <2>1, MineNumbers
  <2>3. pc[m] # "idle"
    BY <1>3 DEF CheckOrder
  <2>4. \/ Goto(m, "close") /\ Keep(m, new)
        \/ Goto(m, next) /\ mine' = mine
    BY <1>3 DEF CheckOrder
  <2> HIDE DEF new
  <2>5. Exits!Near(new.deal, new.row.remaining)
    BY <2>1, <2>2, NearFacts
  <2>6. CASE Goto(m, "close") /\ Keep(m, new)
    BY <1>1, <2>1, <2>3, <2>5, <2>6, GoesOn DEF Moving
  <2>7. CASE Goto(m, next) /\ mine' = mine
    BY <1>1, <1>3, <2>3, <2>7, GoesOn DEF Moving
  <2> QED
    BY <2>4, <2>6, <2>7
<1>4. CASE CheckTp(m)
  BY <1>3, <1>4 DEF CheckTp
<1>5. CASE CheckStop(m)
  BY <1>3, <1>5 DEF CheckStop
<1>6. CASE LookAtPrice(m)
  <2>1. CASE Done(m)
    BY <1>1, <2>1, IdleScales
  <2>2. CASE ~Done(m)
    <3>1. PICK step \in {"sellAll", "sellPart"} : Goto(m, step) /\ mine' = mine
      BY <1>6, <2>2 DEF LookAtPrice
    <3>2. pc[m] # "idle"
      BY <1>6 DEF LookAtPrice
    <3> QED
      BY <1>1, <3>1, <3>2, GoesOn DEF Moving
  <2> QED
    BY <2>1, <2>2
<1> QED
  BY <1>2, <1>4, <1>5, <1>6

LEMMA SalesScale ==
    ASSUME HandlersFit, Shared, OneMonitor, ScaleInv, NEW h \in Handlers,
           SellAll(h) \/ (h \in Monitors /\ SellPart(h))
    PROVE  ScaleInv'
<1> DEFINE r == mine[h].row
<1>1. UNCHANGED <<plan, row>> /\ pc[h] # "idle"
  BY DEF SellAll, SellPart
<1>2. /\ r \in Rows /\ Whole(r) /\ r.remaining \in Int /\ r.taken \in Nat
      /\ mine[h] \in Memories
  BY MineNumbers
<1>3. CASE Done(h)
  BY <1>1, <1>3, IdleScales
<1>4. CASE SellAll(h) /\ ~Done(h)
  <2> DEFINE new == [mine[h] EXCEPT !.deal = r.remaining]
  <2>1. Keep(h, new) /\ Goto(h, "close")
    BY <1>4 DEF SellAll
  <2>2. new.row = r /\ new.stop = mine[h].stop /\ new.deal = r.remaining
    BY <1>2 DEF Memories
  <2> HIDE DEF new
  <2>3. Exits!Near(new.deal, new.row.remaining)
    BY <1>2, <2>2, NearFacts
  <2> QED
    BY <1>1, <2>1, <2>2, <2>3, GoesOn DEF Moving
<1>5. CASE SellPart(h) /\ h \in Monitors /\ ~Done(h)
  <2> DEFINE q == PartQuantity(r)
  <2>1. Partial
    BY <1>5 DEF SellPart, HandlersFit, Fit
  <2>2. q \in Int /\ q <= r.remaining /\ (r.taken + 1 >= plan.levels => q = r.remaining)
    BY <1>2, <2>1, PartFits
  <2>3. PICK f \in Fills(q) :
          Keep(h, [mine[h] EXCEPT !.deal = f]) /\ Goto(h, Sequel(r, f))
    BY <1>5 DEF SellPart
  <2> DEFINE new == [mine[h] EXCEPT !.deal = f]
  <2>4. f \in Int /\ Exits!Near(f, q)
    BY <2>2, <2>3, NearFacts
  <2>5. new.row = r /\ new.stop = mine[h].stop /\ new.deal = f
    BY <1>2, <2>4 DEF Memories
  <2>6. row.taken = r.taken /\ row.remaining = r.remaining
    BY <1>1, <1>5 DEF ScaleInv, Scales, KeepsPace
  <2>7. PartQuantity(row) = q
    BY <2>6 DEF PartQuantity
  <2> HIDE DEF q, new
  <2>8. Sequel(r, f) = "close" => Exits!Near(f, r.remaining)
    <3> SUFFICES ASSUME r.taken + 1 >= plan.levels \/ r.remaining - f <= 0
                 PROVE  Exits!Near(f, r.remaining)
      BY DEF Sequel
    <3>1. CASE r.taken + 1 >= plan.levels
      BY <2>2, <2>4, <3>1
    <3>2. CASE r.remaining - f <= 0
      <4>1. f >= r.remaining
        BY <1>2, <2>4, <3>2
      <4> QED
        BY <1>2, <2>2, <2>4, <4>1, NearFacts
    <3> QED
      BY <3>1, <3>2
  <2>9. Sequel(r, f) = "record" => r.taken + 1 < plan.levels
    BY <1>2, PositionAssumption DEF Sequel, Shared, Plan
  <2>10. Sequel(r, f) \in {"close", "record"}
    BY DEF Sequel
  <2>11. Keep(h, new)
    BY <2>3 DEF new
  <2> HIDE DEF r
  <2>12. /\ Sequel(r, f) = "close" => Exits!Near(new.deal, new.row.remaining)
         /\ Sequel(r, f) = "record" => row.taken + 1 < plan.levels
                                         /\ Exits!Near(new.deal, PartQuantity(row))
    BY <2>4, <2>5, <2>6, <2>7, <2>8, <2>9
  <2> QED
    BY <1>1, <1>5, <2>3, <2>5, <2>10, <2>11, <2>12, GoesOn DEF Moving, r
<1> QED
  BY <1>3, <1>4, <1>5

LEMMA StopMovesScale ==
    ASSUME HandlersFit, Shared, OneMonitor, ScaleInv, NEW h \in Handlers,
           Cancel(h) \/ Place(h) \/ Restop(h) \/ Close(h) \/ ClearStop(h) \/ ClearTp(h)
    PROVE  ScaleInv'
<1>1. plan' = plan /\ pc[h] # "idle"
  BY DEF Cancel, Place, Restop, Close, ClearStop, ClearTp, Clear
<1>2. Scales(h)
  BY DEF ScaleInv
<1>3. CASE Restop(h) \/ Close(h)
  <2>1. row'.taken = row.taken /\ row'.remaining = row.remaining
    BY <1>3 DEF Restop, Close, Shared, Rows
  <2>2. h \in Monitors \/ plan.tasso
    BY <1>1, <1>2 DEF Scales, Handlers
  <2> QED
    BY <1>1, <1>3, <2>1, <2>2, IdleScales DEF Restop, Close
<1>4. CASE Cancel(h) \/ ClearStop(h) \/ ClearTp(h)
  <2>1. PICK step \in {"place", "clearTp", "sellAll"} :
          Goto(h, step) /\ mine' = mine /\ row' = row /\ (step = "place" => pc[h] = "cancel")
    BY <1>4 DEF Cancel, ClearStop, ClearTp, Clear
  <2> QED
    BY <1>1, <2>1, GoesOn DEF Moving
<1>5. CASE Place(h)
  <2> DEFINE new == [mine[h] EXCEPT !.order = Len(orders')]
  <2>1. Goto(h, "restop") /\ row' = row /\ pc[h] = "place" /\ (Keep(h, new) \/ mine' = mine)
    BY <1>5 DEF Place
  <2>2. new.row = mine[h].row /\ new.stop = mine[h].stop
    BY MineNumbers DEF Memories
  <2> HIDE DEF new
  <2> QED
    BY <1>1, <2>1, <2>2, GoesOn DEF Moving
<1> QED
  BY <1>3, <1>4, <1>5

LEMMA RecordScale ==
    ASSUME HandlersFit, Shared, OneMonitor, ScaleInv, NEW m \in Monitors, Record(m)
    PROVE  ScaleInv'
<1> DEFINE r == Recorded(mine[m].row, mine[m].deal)
           next == AfterRecord(r)
           new == [row |-> r, deal |-> 0, stop |-> Entry, order |-> None]
<1>1. /\ row' = [row EXCEPT !.remaining = r.remaining, !.taken = r.taken, !.realized = r.realized]
      /\ Goto(m, next) /\ Keep(m, IF next = "idle" THEN Blank ELSE new)
      /\ UNCHANGED <<plan, orders, sold, price, faults>>
      /\ m \in Handlers /\ pc[m] = "record"
  BY DEF Record, Handlers
<1>2. next \in {"idle", "restop", "cancel", "place"} /\ (next # "idle" => r.taken = plan.breakeven)
  BY DEF AfterRecord
<1>3. r.taken = mine[m].row.taken + 1 /\ mine[m].row.taken \in Nat
  BY <1>1, MineNumbers DEF Recorded, Rows
<1>4. new.row = r /\ new.stop = Entry
  OBVIOUS
<1> HIDE DEF r, next, new
<1>5. row'.taken = r.taken /\ row'.remaining = r.remaining /\ row'.status = row.status
  BY <1>1 DEF Shared, Rows
<1>6. CASE next = "idle"
  BY <1>1, <1>6, IdleScales DEF Done
<1>7. CASE next # "idle"
  <2>1. /\ pc'[m] = next /\ mine'[m] = new
        /\ \A g \in Handlers \ {m} : pc'[g] = pc[g] /\ mine'[g] = mine[g]
    BY <1>1, <1>7, OthersStay
  <2>2. row.status = "open" \/ plan.tasso
    BY <1>1 DEF ScaleInv, Scales, KeepsPace
  <2>3. KeepsPace(m)'
    BY <1>1, <1>2, <1>3, <1>4, <1>5, <1>7, <2>1, <2>2 DEF KeepsPace
  <2>4. Scales(m)'
    BY <1>2, <2>1, <2>3, PositionAssumption DEF Scales
  <2> QED
    BY <1>1, <2>1, <2>4, OneScales
<1> QED
  BY <1>6, <1>7

LEMMA ChannelScales ==
    ASSUME HandlersFit, Shared, OneMonitor, ScaleInv, NEW l \in Listeners,
           \/ \E stop \in NewStops : ReceiveUpdate(l, stop)
           \/ ReceiveStopHit(l)
    PROVE  ScaleInv'
<1>1. /\ UNCHANGED <<plan, row>> /\ plan.tasso /\ l \in Handlers /\ l \notin Monitors
  BY PositionAssumption DEF ReceiveUpdate, ReceiveStopHit, FindsTrade, Handlers
<1>2. PICK step, new :
        /\ step \in {"cancel", "place", "clearStop"} /\ Goto(l, step) /\ Keep(l, new)
        /\ step \in Moving => new.stop \in NewStops
  <2>1. CASE ReceiveStopHit(l)
    BY <2>1 DEF ReceiveStopHit, Moving
  <2>2. ASSUME NEW stop \in NewStops, ReceiveUpdate(l, stop) PROVE [Copy EXCEPT !.stop = stop].stop = stop
    BY DEF Copy, Blank
  <2>3. ASSUME NEW stop \in NewStops, ReceiveUpdate(l, stop)
        PROVE  \E step \in {"cancel", "place"} :
                  Goto(l, step) /\ Keep(l, [Copy EXCEPT !.stop = stop])
    BY <2>3 DEF ReceiveUpdate
  <2> QED
    BY <2>1, <2>2, <2>3
<1>3. /\ pc'[l] = step /\ mine'[l] = new
      /\ \A g \in Handlers \ {l} : pc'[g] = pc[g] /\ mine'[g] = mine[g]
  BY <1>1, <1>2, OthersStay
<1>4. Scales(l)'
  BY <1>1, <1>2, <1>3 DEF Scales
<1> QED
  BY <1>1, <1>3, <1>4, OneScales

LEMMA NextScale ==
    ASSUME OneMonitor, WholeInv, ScaleInv, [Next]_vars
    PROVE  ScaleInv'
<1> HandlersFit /\ Shared
  BY WholeInvParts
<1>1. ASSUME NEW h \in Handlers, Work(h) PROVE ScaleInv'
  BY <1>1, SalesScale, StopMovesScale DEF Work
<1>2. ASSUME NEW m \in Monitors, Watch(m) \/ MonitorStep(m) PROVE ScaleInv'
  <2>1. m \in Handlers
    BY DEF Handlers
  <2> QED
    BY <1>1, <1>2, <2>1, ChecksScale, SalesScale, RecordScale DEF MonitorStep
<1>3. ASSUME NEW l \in Listeners,
             \/ \E stop \in NewStops : ReceiveUpdate(l, stop)
             \/ ReceiveStopHit(l) \/ ListenerStep(l)
      PROVE  ScaleInv'
  <2>1. l \in Handlers
    BY DEF Handlers
  <2> QED
    BY <1>1, <1>3, <2>1, ChannelScales, StopMovesScale DEF ListenerStep
<1>4. ASSUME NEW h \in Handlers, Fail(h) PROVE ScaleInv'
  BY <1>4, IdleScales DEF Fail
<1>5. CASE MovePrice \/ (\E i \in DOMAIN orders : Execute(i)) \/ UNCHANGED vars
  <2>1. UNCHANGED <<plan, row, pc, mine>>
    BY <1>5 DEF MovePrice, Execute, vars
  <2> QED
    BY <2>1 DEF ScaleInv, Scales, KeepsPace, PartQuantity, Exits!Near, Exits!Off
<1> QED
  BY <1>2, <1>3, <1>4, <1>5 DEF Next

-----------------------------------------------------------------------------
(* Init maps to the abstract one, and every step to a level taken, a stop   *)
(* moved, a close, a second close of a sell, or to none.                    *)
LEMMA RowStays ==
    ASSUME plan' = plan, row' = row
    PROVE  UNCHANGED Exits!vars
BY DEF Exits!vars, WhileOpen

LEMMA RecordTakes ==
    ASSUME HandlersFit, Shared, ScaleInv, NEW m \in Monitors, Record(m)
    PROVE  Exits!Take \/ UNCHANGED Exits!vars
<1> DEFINE r == Recorded(mine[m].row, mine[m].deal)
<1>1. /\ row' = [row EXCEPT !.remaining = r.remaining, !.taken = r.taken, !.realized = r.realized]
      /\ plan' = plan /\ pc[m] = "record" /\ m \in Handlers
  BY DEF Record, Handlers
<1>2. /\ r.taken = mine[m].row.taken + 1
      /\ r.remaining = mine[m].row.remaining - mine[m].deal
  BY <1>1, MineNumbers DEF Recorded, Rows
<1> HIDE DEF r
<1>3. /\ row'.taken = r.taken /\ row'.remaining = r.remaining /\ row'.status = row.status
      /\ row'.booked = row.booked /\ row'.stop = row.stop
  BY <1>1 DEF Shared, Rows
<1>4. /\ mine[m].row.taken = row.taken /\ mine[m].row.remaining = row.remaining
      /\ row.taken + 1 < plan.levels /\ Exits!Near(mine[m].deal, PartQuantity(row))
  BY <1>1 DEF ScaleInv, Scales, KeepsPace
<1>5. /\ row.taken \in Nat /\ plan.levels \in Nat /\ row.remaining \in Int /\ mine[m].deal \in Int
      /\ row.remaining - mine[m].deal > 0
  <2>1. mine[m].row.remaining - mine[m].deal > 0
    BY <1>1 DEF HandlersFit, Fit
  <2> QED
    BY <1>1, <1>4, <2>1, MineNumbers, PositionAssumption DEF Shared, Rows, Plan
<1>6. CASE row.status = "open"
  <2>1. Exits!Part = PartQuantity(row)
    BY <1>4, <1>5, <1>6 DEF Exits!Part, PartQuantity, WhileOpen
  <2>2. row.remaining - (row.remaining - mine[m].deal) = mine[m].deal
    BY <1>5
  <2> QED
    BY <1>1, <1>2, <1>3, <1>4, <1>5, <1>6, <2>1, <2>2 DEF Exits!Take, WhileOpen
<1>7. CASE row.status # "open"
  BY <1>1, <1>3, <1>7 DEF Exits!vars, WhileOpen
<1> QED
  BY <1>6, <1>7

LEMMA RestopMoves ==
    ASSUME HandlersFit, Shared, ScaleInv, NEW h \in Handlers, Restop(h)
    PROVE  Exits!MoveStop \/ UNCHANGED Exits!vars
<1>1. /\ row' = [row EXCEPT !.stop = mine[h].stop, !.stopOrder = mine[h].order]
      /\ plan' = plan /\ pc[h] = "restop"
  BY DEF Restop
<1>2. /\ row'.taken = row.taken /\ row'.remaining = row.remaining /\ row'.status = row.status
      /\ row'.booked = row.booked /\ row'.stop = mine[h].stop
  BY <1>1 DEF Shared, Rows
<1>3. \/ plan.tasso /\ mine[h].stop \in NewStops
      \/ row.taken = plan.breakeven /\ row.taken > 0 /\ mine[h].stop = 0
  BY <1>1 DEF ScaleInv, Scales, KeepsPace, Moving, Handlers, Entry
<1>4. CASE row.status = "open"
  BY <1>1, <1>2, <1>3, <1>4 DEF Exits!MoveStop, WhileOpen
<1>5. CASE row.status # "open"
  BY <1>1, <1>2, <1>5 DEF Exits!vars, WhileOpen
<1> QED
  BY <1>4, <1>5

LEMMA CloseCloses ==
    ASSUME HandlersFit, Shared, BookedWhole', ScaleInv, NEW h \in Handlers, Close(h)
    PROVE  Exits!Close \/ Exits!Rebook \/ UNCHANGED Exits!vars
<1>1. /\ row' = [row EXCEPT !.status = "closed", !.booked = mine[h].row.realized + mine[h].deal]
      /\ plan' = plan /\ pc[h] = "close"
  BY DEF Close
<1>2. /\ row'.taken = row.taken /\ row'.remaining = row.remaining /\ row'.status = "closed"
      /\ row'.stop = row.stop /\ row'.booked = mine[h].row.realized + mine[h].deal
  BY <1>1 DEF Shared, Rows
<1>3. Exits!Near(row'.booked, Quantity)
  <2>1. Exits!Near(mine[h].deal, mine[h].row.remaining)
    BY <1>1 DEF ScaleInv, Scales
  <2>2. /\ mine[h].row.realized + mine[h].row.remaining = Quantity
        /\ mine[h].row.realized \in Int /\ mine[h].row.remaining \in Int /\ mine[h].deal \in Int
    BY MineNumbers DEF Whole, Rows
  <2>3. row'.booked - Quantity = mine[h].deal - mine[h].row.remaining
    BY <1>2, <2>2, PositionAssumption
  <2> QED
    BY <2>1, <2>3 DEF Exits!Near
<1>4. row.status \in {"open", "closed"} /\ plan.buy \in BOOLEAN
  BY PositionAssumption DEF Shared, Rows, Plan
<1>5. CASE row.status = "open"
  BY <1>1, <1>2, <1>3, <1>5 DEF Exits!Close, Exits!Near, Exits!Off, WhileOpen
<1>6. CASE row.status = "closed" /\ plan.buy
  <2>1. row'.booked = Quantity /\ row.booked = Quantity
    BY <1>1, <1>2, <1>6 DEF Shared, BookedWhole
  <2> QED
    BY <1>1, <1>2, <1>6, <2>1 DEF Exits!vars, WhileOpen
<1>7. CASE row.status = "closed" /\ ~plan.buy
  <2>1. plan.tasso
    <3>1. h \in Monitors => row.status = "open" \/ plan.tasso
      BY <1>1 DEF ScaleInv, Scales, KeepsPace
    <3>2. h \in Listeners => plan.tasso
      BY <1>1 DEF ScaleInv, Scales
    <3> QED
      BY <1>7, <3>1, <3>2 DEF Handlers
  <2> QED
    BY <1>1, <1>2, <1>3, <1>7, <2>1 DEF Exits!Rebook, Exits!Near, Exits!Off, WhileOpen
<1> QED
  BY <1>4, <1>5, <1>6, <1>7

LEMMA InitImplements == Init => Exits!Init
<1> SUFFICES ASSUME Init PROVE Exits!Init
  OBVIOUS
<1>1. /\ row.status = "open" /\ row.remaining = Quantity /\ row.taken = 0
      /\ row.booked = 0 /\ row.stop = -1
  BY DEF Init, NewRow, Bottom
<1> QED
  BY <1>1 DEF Exits!Init, WhileOpen

LEMMA NextImplements ==
    ASSUME WholeInv, WholeInv', ScaleInv, [Next]_vars
    PROVE  [Exits!Next]_Exits!vars
<1> HandlersFit /\ Shared /\ BookedWhole'
  BY WholeInvParts DEF WholeInv
<1>1. CASE plan' = plan /\ row' = row
  BY <1>1, RowStays
<1>2. ASSUME NEW m \in Monitors, Record(m) PROVE [Exits!Next]_Exits!vars
  BY <1>2, RecordTakes DEF Exits!Next
<1>3. ASSUME NEW h \in Handlers, Restop(h) PROVE [Exits!Next]_Exits!vars
  BY <1>3, RestopMoves DEF Exits!Next
<1>4. ASSUME NEW h \in Handlers, Close(h) PROVE [Exits!Next]_Exits!vars
  BY <1>4, CloseCloses DEF Exits!Next
<1>5. ASSUME NEW h \in Handlers, Work(h) PROVE [Exits!Next]_Exits!vars
  <2>1. SellAll(h) \/ Cancel(h) \/ Place(h) => UNCHANGED <<plan, row>>
    BY DEF SellAll, Cancel, Place
  <2> QED
    BY <1>1, <1>3, <1>4, <1>5, <2>1 DEF Work
<1>6. ASSUME NEW m \in Monitors, Watch(m) \/ MonitorStep(m) PROVE [Exits!Next]_Exits!vars
  <2>1. Watch(m) \/ CheckTp(m) \/ CheckStop(m) \/ LookAtPrice(m) \/ SellPart(m)
           => UNCHANGED <<plan, row>>
    BY DEF Watch, CheckTp, CheckStop, CheckOrder, LookAtPrice, SellPart
  <2>2. m \in Handlers
    BY DEF Handlers
  <2> QED
    BY <1>1, <1>2, <1>5, <1>6, <2>1, <2>2 DEF MonitorStep
<1>7. ASSUME NEW l \in Listeners,
             \/ \E stop \in NewStops : ReceiveUpdate(l, stop)
             \/ ReceiveStopHit(l) \/ ListenerStep(l)
      PROVE  [Exits!Next]_Exits!vars
  <2>1. CASE \/ \E stop \in NewStops : ReceiveUpdate(l, stop)
             \/ ReceiveStopHit(l) \/ ClearStop(l) \/ ClearTp(l)
    <3>1. plan' = plan /\ row' = row
      BY <2>1 DEF ReceiveUpdate, ReceiveStopHit, ClearStop, ClearTp, Clear
    <3> QED
      BY <1>1, <3>1
  <2>2. CASE Work(l)
    BY <1>5, <2>2 DEF Handlers
  <2> QED
    BY <1>7, <2>1, <2>2 DEF ListenerStep
<1>8. CASE \/ \E h \in Handlers : Fail(h)
           \/ \E i \in DOMAIN orders : Execute(i)
           \/ MovePrice
           \/ UNCHANGED vars
  BY <1>1, <1>8 DEF Fail, Execute, MovePrice, vars
<1> QED
  BY <1>6, <1>7, <1>8 DEF Next

(* The row of a trade follows the plan of its exits under one monitor at a  *)
(* time, whatever the channel's listeners and the exchange do in between    *)
(* and wherever a call fails or a handler dies.                             *)
THEOREM RowScalesOut == ASSUME OneMonitor PROVE Spec => ImplementsScaleOut
<1>1. WholeInv /\ ScaleInv /\ [Next]_vars => ScaleInv'
  BY NextScale
<1>2. WholeInv /\ WholeInv' /\ ScaleInv /\ [Next]_vars => [Exits!Next]_Exits!vars
  BY NextImplements
<1> QED
  BY InitWhole, NextWhole, InitScale, InitImplements, <1>1, <1>2, PTL
  DEF Spec, ImplementsScaleOut, Exits!Spec

=============================================================================
