------------------------- MODULE TradeEntry_proofs -------------------------
(***************************************************************************)
(* Theorems about TradeEntry for any number of workers, signals, profiles, *)
(* caps and faults: types, the caps, duplicates, what faults lose, and the *)
(* protected rules.                                                        *)
(***************************************************************************)
EXTENDS TradeEntry, FiniteSetTheorems, TLAPS

(* Only buys come to the protective orders, only those without levels to    *)
(* the target.                                                              *)
Ordered(w) ==
    /\ pc[w] \in {"stop", "target"} => mine[w].signal.buy
    /\ pc[w] = "target" => ~mine[w].signal.levels

(* Two workers never hold one position, so neither can write the other's    *)
(* row: this is what makes TypeOK inductive.                                *)
EntryInv ==
    /\ TypeOK
    /\ IsFiniteSet(positions)
    /\ \A w \in Workers : Ordered(w)
    /\ \A v, w \in Workers :
          Busy(v, Holding) /\ Busy(w, Holding) /\ v # w => mine[v].id # mine[w].id

(* The one position of a worker past its order.                             *)
LEMMA HeldPosition ==
    ASSUME EntryInv, NEW w \in Workers, pc[w] \in Holding
    PROVE  \E p \in positions :
               /\ Hers(w) = {p} /\ p \in Positions /\ p.id = mine[w].id
               /\ ~p.recorded /\ p.signal = mine[w].signal
BY DEF EntryInv, TypeOK, Busy, Hers

(* Init.                                                                    *)
LEMMA InitEntry == Init => EntryInv
<1> SUFFICES ASSUME Init PROVE EntryInv
  OBVIOUS
<1>1. IsFiniteSet(positions)
  BY FS_EmptySet DEF Init
<1>2. \A w \in Workers : ~Busy(w, Holding)
  BY DEF Init, Busy, Holding
<1>3. pc \in [Workers -> Steps] /\ mine \in [Workers -> Locals]
  <2>1. mine \in [Workers -> {m \in Locals : ~m.strict /\ m.named = {}}]
    BY DEF Init
  <2>2. mine \in [Workers -> Locals]
    <3> HIDE DEF Locals
    <3> QED
      BY <2>1
  <2> QED
    BY <2>2 DEF Init, Steps
<1>4. late \in Nat /\ faults \in 0..MaxFaults
  BY EntryAssumption DEF Init
<1>7. goal \in BOOLEAN
  BY DEF Init
<1>5. positions = {}
  BY DEF Init
<1>6. TypeOK
  BY <1>2, <1>3, <1>4, <1>5, <1>7 DEF TypeOK
<1>8. \A w \in Workers : Ordered(w)
  BY DEF Init, Ordered
<1> QED
  BY <1>1, <1>2, <1>6, <1>8 DEF EntryInv

(* Begin, the counts and Fail touch no position.                            *)
LEMMA AttemptKeepsTypes ==
    ASSUME EntryInv, NEW w \in Workers,
           \/ \E s \in Signals : Begin(w, s)
           \/ CheckGlobal(w) \/ CheckProfile(w) \/ CheckDuplicate(w) \/ Fail(w)
    PROVE  EntryInv'
<1>1. positions' = positions /\ goal' = goal /\ late' = late
  BY DEF Begin, CheckGlobal, CheckProfile, CheckDuplicate, Count, Fail
<1>0. faults' \in 0..MaxFaults
  <2>1. faults' = faults \/ Fault
    BY DEF Begin, CheckGlobal, CheckProfile, CheckDuplicate, Count, Fail
  <2> QED
    BY <2>1, EntryAssumption DEF Fault, EntryInv, TypeOK
<1>2. \E step \in Steps \ Holding : pc' = [pc EXCEPT ![w] = step]
  BY DEF Begin, CheckGlobal, CheckProfile, CheckDuplicate, Count, Fail, Goto, Done,
         Steps, Holding
<1>3. mine' \in [Workers -> Locals] /\ \A v \in Workers \ {w} : mine'[v] = mine[v]
  <2>1. CASE \E s \in Signals : Begin(w, s)
    <3>1. PICK s \in Signals : Begin(w, s)
      BY <2>1
    <3>2. [mine[w] EXCEPT !.signal = s, !.strict = goal, !.named = {}] \in Locals
      <4>1. mine[w] \in Locals /\ goal \in BOOLEAN
        BY DEF EntryInv, TypeOK
      <4> QED
        BY <4>1 DEF Locals
    <3>3. mine' = [mine EXCEPT ![w] =
                      [mine[w] EXCEPT !.signal = s, !.strict = goal, !.named = {}]]
      BY <3>1 DEF Begin, EntryInv, TypeOK
    <3> QED
      BY <3>2, <3>3 DEF EntryInv, TypeOK
  <2>2. CASE UNCHANGED mine
    BY <2>2 DEF EntryInv, TypeOK
  <2> QED
    BY <2>1, <2>2 DEF CheckGlobal, CheckProfile, CheckDuplicate, Count, Fail
<1>4. \A v \in Workers : Busy(v, Holding)' => Busy(v, Holding) /\ mine'[v] = mine[v]
  BY <1>2, <1>3 DEF Busy, EntryInv, TypeOK
<1>5. pc' \in [Workers -> Steps]
  BY <1>2 DEF EntryInv, TypeOK
<1>6. TypeOK'
  BY <1>0, <1>1, <1>3, <1>4, <1>5 DEF EntryInv, TypeOK, Hers
<1>7. \A v \in Workers : Ordered(v)'
  <2>1. pc'[w] \notin {"stop", "target"}
    BY <1>2 DEF Holding, EntryInv, TypeOK
  <2>2. \A v \in Workers \ {w} : pc'[v] = pc[v]
    BY <1>2 DEF EntryInv, TypeOK
  <2> QED
    BY <1>3, <2>1, <2>2 DEF Ordered, EntryInv
<1> QED
  BY <1>1, <1>4, <1>6, <1>7 DEF EntryInv

(* A new position has a name nobody uses.                                   *)
LEMMA OrderKeepsTypes ==
    ASSUME EntryInv, NEW w \in Workers, Order(w)
    PROVE  EntryInv'
<1>1. pc[w] = "order" /\ mine[w] \in Locals /\ goal' = goal /\ faults' \in 0..MaxFaults
      /\ late' \in Nat
  BY EntryAssumption DEF EntryInv, TypeOK, Order, Fault
<1>2. CASE Done(w) /\ UNCHANGED <<positions, mine, late, faults>>
  BY <1>1, <1>2 DEF EntryInv, TypeOK, Done, Goto, Busy, Holding, Steps, Hers, Ordered
<1>3. ASSUME NEW id \in FreeIds,
             positions' = positions \cup {Bought(w, id)},
             \/ mine' = [mine EXCEPT ![w].id = id]
                /\ Goto(w, AfterOrder(mine[w].signal))
             \/ Done(w) /\ UNCHANGED mine
      PROVE  EntryInv'
  <2> DEFINE b == Bought(w, id)
  <2>1. b \in Positions /\ b.id = id /\ ~b.recorded /\ b.signal = mine[w].signal
        /\ b.resting = {}
    BY <1>1 DEF Bought, Positions, FreeIds, Locals, Kinds
  <2>2. \A p \in positions : p.id # id
    BY DEF FreeIds
  <2>3. IsFiniteSet(positions')
    BY <1>3, FS_AddElement DEF EntryInv
  <2>4. positions' \subseteq Positions
        /\ \A p, q \in positions' : p.id = q.id => p = q
    BY <1>3, <2>1, <2>2 DEF EntryInv, TypeOK
  <2>5. \A p \in positions' :
            p.resting \subseteq (IF ~p.signal.buy THEN {}
                                 ELSE IF p.signal.levels THEN {"stop"} ELSE Kinds)
    BY <1>3, <2>1 DEF EntryInv, TypeOK
  <2>6. CASE Done(w) /\ UNCHANGED mine
    <3>1. pc' \in [Workers -> Steps]
          /\ \A v \in Workers : Busy(v, Holding)' => Busy(v, Holding) /\ v # w
      BY <2>6 DEF Done, Goto, EntryInv, TypeOK, Steps, Holding, Busy
    <3>2. TypeOK'
      BY <1>1, <1>3, <2>4, <2>5, <2>6, <3>1 DEF EntryInv, TypeOK, Hers
    <3>3. \A v \in Workers : Ordered(v)'
      BY <2>6 DEF Done, Goto, EntryInv, TypeOK, Ordered
    <3> QED
      BY <2>3, <2>6, <3>1, <3>2, <3>3 DEF EntryInv
  <2>7. CASE mine' = [mine EXCEPT ![w].id = id] /\ Goto(w, AfterOrder(mine[w].signal))
    <3> DEFINE m == [mine[w] EXCEPT !.id = id]
    <3>1. m \in Locals /\ m.id = id /\ m.signal = mine[w].signal
      BY <1>1 DEF Locals, FreeIds
    <3>2. mine' = [mine EXCEPT ![w] = m]
      BY <2>7 DEF EntryInv, TypeOK
    <3>3. mine' \in [Workers -> Locals] /\ mine'[w] = m
          /\ \A v \in Workers \ {w} : mine'[v] = mine[v]
      <4> HIDE DEF m
      <4> QED
        BY <3>1, <3>2 DEF EntryInv, TypeOK
    <3>4. pc' \in [Workers -> Steps]
          /\ \A v \in Workers \ {w} : Busy(v, Holding)' => Busy(v, Holding)
      BY <2>7 DEF Goto, AfterOrder, EntryInv, TypeOK, Steps, Busy
    <3> HIDE DEF m, b
    <3>5. \A v \in Workers \ {w} : Busy(v, Holding)' =>
              /\ mine'[v].id # id
              /\ \E p \in Hers(v)' : ~p.recorded /\ p.signal = mine'[v].signal
      <4> SUFFICES ASSUME NEW v \in Workers \ {w}, Busy(v, Holding)'
                   PROVE  /\ mine'[v].id # id
                          /\ \E p \in Hers(v)' : ~p.recorded /\ p.signal = mine'[v].signal
        OBVIOUS
      <4>1. PICK p \in positions : p.id = mine[v].id /\ ~p.recorded
                                   /\ p.signal = mine[v].signal
        BY <3>4, HeldPosition DEF Busy
      <4> QED
        BY <1>3, <2>2, <3>3, <4>1 DEF Hers, b
    <3>6. b \in Hers(w)'
      BY <1>3, <2>1, <3>1, <3>3 DEF Hers, b
    <3>7. TypeOK'
      BY <1>1, <1>3, <2>1, <2>4, <2>5, <3>1, <3>3, <3>4, <3>5, <3>6
      DEF EntryInv, TypeOK
    <3>8. \A v \in Workers : Ordered(v)'
      <4>1. pc'[w] = AfterOrder(mine[w].signal) /\ \A v \in Workers \ {w} : pc'[v] = pc[v]
        BY <2>7 DEF Goto, EntryInv, TypeOK
      <4> QED
        BY <3>1, <3>3, <4>1 DEF AfterOrder, Ordered, EntryInv
    <3> QED
      BY <2>3, <3>1, <3>3, <3>4, <3>5, <3>7, <3>8 DEF EntryInv
  <2> QED
    BY <1>3, <2>6, <2>7
<1> QED
  BY <1>2, <1>3 DEF Order

(* Writing a position anew under its own name disturbs no other worker.     *)
LEMMA ChangeKeepsPositions ==
    ASSUME EntryInv, NEW w \in Workers, pc[w] \in Holding,
           NEW p \in positions, Hers(w) = {p},
           NEW q \in Positions, q.id = p.id, q.signal = p.signal, Changed(w, q),
           q.resting \subseteq (IF ~q.signal.buy THEN {}
                               ELSE IF q.signal.levels THEN {"stop"} ELSE Kinds),
           mine' \in [Workers -> Locals], mine'[w].id = mine[w].id,
           mine'[w].signal = mine[w].signal,
           \A v \in Workers \ {w} : mine'[v] = mine[v] /\ pc'[v] = pc[v],
           pc' \in [Workers -> Steps],
           Busy(w, Holding)' => ~q.recorded, Ordered(w)',
           goal' = goal, late' = late, faults' \in 0..MaxFaults
    PROVE  EntryInv'
<1>1. positions' = (positions \ {p}) \cup {q} /\ p.id = mine[w].id /\ p.signal = mine[w].signal
  BY HeldPosition DEF Changed
<1>2. IsFiniteSet(positions')
  <2>1. IsFiniteSet(positions \ {p})
    BY FS_RemoveElement DEF EntryInv
  <2> QED
    BY <1>1, <2>1, FS_AddElement
<1>3. positions' \subseteq Positions /\ \A a, b \in positions' : a.id = b.id => a = b
  BY <1>1 DEF EntryInv, TypeOK
<1>4. \A a \in positions' :
          a.resting \subseteq (IF ~a.signal.buy THEN {}
                              ELSE IF a.signal.levels THEN {"stop"} ELSE Kinds)
  BY <1>1 DEF EntryInv, TypeOK
<1>5. ASSUME NEW v \in Workers, Busy(v, Holding)'
      PROVE  \E a \in Hers(v)' : ~a.recorded /\ a.signal = mine'[v].signal
  <2>1. CASE v = w
    BY <1>1, <1>5, <2>1 DEF Hers
  <2>2. CASE v # w
    <3>1. pc[v] \in Holding /\ mine[v].id # mine[w].id /\ mine'[v] = mine[v]
      BY <1>5, <2>2 DEF Busy, EntryInv
    <3>2. PICK a \in positions : a.id = mine[v].id /\ ~a.recorded /\ a.signal = mine[v].signal
      BY <3>1, HeldPosition
    <3>3. a \in positions'
      BY <1>1, <3>1, <3>2
    <3> QED
      BY <3>1, <3>2, <3>3 DEF Hers
  <2> QED
    BY <2>1, <2>2
<1>6. \A u, v \in Workers :
          Busy(u, Holding)' /\ Busy(v, Holding)' /\ u # v => mine'[u].id # mine'[v].id
  BY DEF EntryInv, Busy
<1>7. TypeOK'
  BY <1>3, <1>4, <1>5 DEF EntryInv, TypeOK
<1>8. \A v \in Workers : Ordered(v)'
  BY DEF Ordered, EntryInv
<1> QED
  BY <1>2, <1>6, <1>7, <1>8 DEF EntryInv

(* A protective order is added to the position, or refused, or its answer   *)
(* is lost.                                                                 *)
LEMMA PlaceKeepsTypes ==
    ASSUME EntryInv, NEW w \in Workers, PlaceStop(w) \/ PlaceTarget(w)
    PROVE  EntryInv'
<1>1. PICK step \in {"stop", "target"}, next \in {"record", "target"} :
          /\ PlaceOrder(w, step, next)
          /\ next = "target" => ~mine[w].signal.levels
          /\ step = pc[w]
  BY DEF PlaceStop, PlaceTarget, AfterStop, PlaceOrder
<1>2. pc[w] \in Holding /\ mine[w].signal.buy
      /\ (step = "target" => ~mine[w].signal.levels)
  BY <1>1 DEF Holding, EntryInv, Ordered
<1>3. PICK p \in positions :
          /\ Hers(w) = {p} /\ p \in Positions /\ p.id = mine[w].id
          /\ ~p.recorded /\ p.signal = mine[w].signal
  BY <1>2, HeldPosition
<1>4. /\ pc' = [pc EXCEPT ![w] = next] /\ goal' = goal /\ late' = late
      /\ faults' \in 0..MaxFaults
  <2>1. pc' = [pc EXCEPT ![w] = next] /\ goal' = goal /\ late' = late
        /\ (faults' = faults \/ Fault)
    BY <1>1 DEF PlaceOrder, Goto
  <2> QED
    BY <2>1, EntryAssumption DEF Fault, EntryInv, TypeOK
<1>5. pc' \in [Workers -> Steps] /\ pc'[w] = next
      /\ \A v \in Workers \ {w} : pc'[v] = pc[v]
  BY <1>4 DEF EntryInv, TypeOK, Steps
<1>6. /\ mine' \in [Workers -> Locals]
      /\ mine'[w].id = mine[w].id /\ mine'[w].signal = mine[w].signal
      /\ \A v \in Workers \ {w} : mine'[v] = mine[v]
  <2> DEFINE m == [mine[w] EXCEPT !.named = @ \cup {step}]
  <2>1. m \in Locals /\ m.id = mine[w].id /\ m.signal = mine[w].signal
    <3>1. mine[w] \in Locals
      BY DEF EntryInv, TypeOK
    <3> QED
      BY <3>1 DEF Locals, Kinds
  <2>2. mine' = [mine EXCEPT ![w] = m] \/ mine' = mine
    BY <1>1 DEF PlaceOrder, EntryInv, TypeOK
  <2> HIDE DEF m
  <2> QED
    BY <2>1, <2>2 DEF EntryInv, TypeOK
<1>7. Ordered(w)'
  BY <1>1, <1>2, <1>5, <1>6 DEF Ordered
<1>8. CASE \E o \in Hers(w) : Changed(w, [o EXCEPT !.resting = @ \cup {step}])
  <2> DEFINE q == [p EXCEPT !.resting = @ \cup {step}]
  <2>1. /\ q \in Positions /\ q.id = p.id /\ q.signal = p.signal /\ ~q.recorded
        /\ q.resting = p.resting \cup {step}
    BY <1>3 DEF Positions, Kinds
  <2>2. Changed(w, q)
    BY <1>3, <1>8
  <2>3. q.resting \subseteq (IF ~q.signal.buy THEN {}
                            ELSE IF q.signal.levels THEN {"stop"} ELSE Kinds)
    BY <1>2, <1>3, <2>1 DEF EntryInv, TypeOK, Kinds
  <2> HIDE DEF q
  <2> QED
    BY <1>2, <1>3, <1>4, <1>5, <1>6, <1>7, <2>1, <2>2, <2>3, ChangeKeepsPositions
<1>9. CASE UNCHANGED positions
  <2>1. Changed(w, p)
    BY <1>3, <1>9 DEF Changed
  <2>2. p.resting \subseteq (IF ~p.signal.buy THEN {}
                            ELSE IF p.signal.levels THEN {"stop"} ELSE Kinds)
    BY DEF EntryInv, TypeOK
  <2> QED
    BY <1>2, <1>3, <1>4, <1>5, <1>6, <1>7, <2>1, <2>2, ChangeKeepsPositions
<1> QED
  BY <1>1, <1>8, <1>9 DEF PlaceOrder

(* The row is written and the worker lets go of its position.               *)
LEMMA CreateKeepsTypes ==
    ASSUME EntryInv, NEW w \in Workers, CreateTrade(w)
    PROVE  EntryInv'
<1>1. pc[w] \in Holding /\ pc' = [pc EXCEPT ![w] = "idle"]
      /\ mine' = mine /\ goal' = goal /\ late' = late /\ faults' = faults
  BY DEF CreateTrade, Done, Goto, Holding
<1>2. PICK p \in positions :
          /\ Hers(w) = {p} /\ p \in Positions /\ p.id = mine[w].id
          /\ ~p.recorded /\ p.signal = mine[w].signal
  BY <1>1, HeldPosition
<1> DEFINE q == [p EXCEPT !.recorded = TRUE, !.named = mine[w].named]
<1>3. q \in Positions /\ q.id = p.id /\ q.signal = p.signal /\ q.resting = p.resting
  <2>1. mine[w].named \in SUBSET Kinds
    BY DEF EntryInv, TypeOK, Locals
  <2> QED
    BY <1>2, <2>1 DEF Positions
<1>4. Changed(w, q)
  BY <1>2 DEF CreateTrade
<1>5. q.resting \subseteq (IF ~q.signal.buy THEN {}
                          ELSE IF q.signal.levels THEN {"stop"} ELSE Kinds)
  BY <1>2, <1>3 DEF EntryInv, TypeOK
<1>6. /\ pc' \in [Workers -> Steps] /\ pc'[w] = "idle"
      /\ \A v \in Workers \ {w} : pc'[v] = pc[v]
  BY <1>1 DEF EntryInv, TypeOK, Steps
<1>7. ~Busy(w, Holding)' /\ Ordered(w)'
  BY <1>6 DEF Busy, Holding, Ordered
<1>8. mine' \in [Workers -> Locals] /\ faults' \in 0..MaxFaults
  BY <1>1 DEF EntryInv, TypeOK
<1> HIDE DEF q
<1> QED
  BY <1>1, <1>2, <1>3, <1>4, <1>5, <1>6, <1>7, <1>8, ChangeKeepsPositions

(* Closing takes a recorded position, which no worker holds.                *)
LEMMA CloseKeepsTypes ==
    ASSUME EntryInv, NEW p \in Open, CloseTrade(p)
    PROVE  EntryInv'
<1>1. positions' = positions \ {p} /\ p \in positions /\ p.recorded
      /\ UNCHANGED <<goal, pc, mine, late, faults>>
  BY DEF CloseTrade, Open
<1>2. IsFiniteSet(positions')
  BY <1>1, FS_RemoveElement DEF EntryInv
<1>3. ASSUME NEW v \in Workers, Busy(v, Holding)
      PROVE  \E a \in Hers(v)' : ~a.recorded /\ a.signal = mine[v].signal
  <2>1. PICK a \in positions : a.id = mine[v].id /\ ~a.recorded /\ a.signal = mine[v].signal
    BY <1>3, HeldPosition DEF Busy
  <2> QED
    BY <1>1, <2>1 DEF Hers
<1>4. TypeOK'
  BY <1>1, <1>3 DEF EntryInv, TypeOK, Busy
<1> QED
  BY <1>1, <1>2, <1>4 DEF EntryInv, Busy, Ordered

LEMMA EntryStep == EntryInv /\ [Next]_vars => EntryInv'
<1> SUFFICES ASSUME EntryInv, [Next]_vars PROVE EntryInv'
  OBVIOUS
<1>1. ASSUME NEW w \in Workers, Step(w) PROVE EntryInv'
  BY <1>1, AttemptKeepsTypes, OrderKeepsTypes, PlaceKeepsTypes, CreateKeepsTypes DEF Step
<1>2. ASSUME NEW p \in Open, CloseTrade(p) PROVE EntryInv'
  BY <1>2, CloseKeepsTypes
<1>3. CASE MarkGoal \/ NewMonth \/ UNCHANGED vars
  <2>1. UNCHANGED <<positions, pc, mine, faults>>
    BY <1>3 DEF MarkGoal, NewMonth, vars
  <2>2. goal' \in BOOLEAN
    BY <1>3 DEF MarkGoal, NewMonth, vars, EntryInv, TypeOK
  <2>5. late' \in Nat
    BY <1>3 DEF MarkGoal, NewMonth, vars, EntryInv, TypeOK
  <2>3. TypeOK'
    BY <2>1, <2>2, <2>5 DEF EntryInv, TypeOK, Busy, Hers
  <2>4. \A w \in Workers : Ordered(w)'
    BY <2>1 DEF EntryInv, Ordered
  <2> QED
    BY <2>1, <2>3, <2>4 DEF EntryInv, Busy
<1> QED
  BY <1>1, <1>2, <1>3 DEF Next

(***************************************************************************)
(* Whatever the workers do at the same time, each writes only its own row, *)
(* and a trade's resting orders are those of its kind.                     *)
(***************************************************************************)
THEOREM EntryInvariant == Spec => []EntryInv
BY InitEntry, EntryStep, PTL DEF Spec

(* TypeOK, of which EntryInv is the inductive strengthening.                *)
THEOREM TypeCorrect == Spec => []TypeOK
<1>1. EntryInv => TypeOK
  BY DEF EntryInv
<1> QED
  BY <1>1, EntryInvariant, PTL

-----------------------------------------------------------------------------
(***************************************************************************)
(* The caps.  Open rows alone are no inductive measure: a worker past the  *)
(* count will add one whatever the count says by then.  Rows and workers   *)
(* past it together are: the sum grows only at the count, which bounds the *)
(* rows, while the workers are never more than there are.                  *)
(***************************************************************************)
PastDuplicate == {"order", "stop", "target", "record"}
PastProfile == PastDuplicate \cup {"duplicate"}
PastGlobal == PastProfile \cup {"profile"}

RowsOf(S) == {p \in Open : p.signal \in S}
Flying(S, past) == {w \in Workers : pc[w] \in past /\ mine[w].signal \in S}

SlotInv(S, past, cap) ==
    Cardinality(RowsOf(S)) + Cardinality(Flying(S, past)) < cap + Cardinality(Workers)

OfProfile(f) == {s \in Signals : s.profile = f}
OfSetup(f, x) == {s \in OfProfile(f) : s.pair = x}
Pairs == {s.pair : s \in Signals}

CapsInv ==
    /\ SlotInv(Signals, PastGlobal, GlobalCap)
    /\ \A f \in Profiles : SlotInv(OfProfile(f), PastProfile, Cap[f])
    /\ \A f \in Profiles, x \in Pairs : SlotInv(OfSetup(f, x), PastDuplicate, 1)

LEMMA SlotsAreFinite ==
    ASSUME EntryInv, NEW S, NEW past
    PROVE  /\ IsFiniteSet(RowsOf(S)) /\ IsFiniteSet(Flying(S, past))
           /\ Cardinality(RowsOf(S)) \in Nat /\ Cardinality(Flying(S, past)) \in Nat
           /\ Cardinality(Flying(S, past)) <= Cardinality(Workers)
           /\ Cardinality(Workers) \in Nat \ {0}
<1>1. RowsOf(S) \subseteq positions /\ Flying(S, past) \subseteq Workers
  BY DEF RowsOf, Open, Flying
<1>2. IsFiniteSet(positions) /\ IsFiniteSet(Workers) /\ Workers # {}
  BY EntryAssumption DEF EntryInv
<1>3. IsFiniteSet(RowsOf(S)) /\ IsFiniteSet(Flying(S, past))
      /\ Cardinality(Flying(S, past)) <= Cardinality(Workers)
  BY <1>1, <1>2, FS_Subset
<1>4. Cardinality(Workers) \in Nat /\ Cardinality(Workers) # 0
  BY <1>2, FS_CardinalityType, FS_EmptySet
<1> QED
  BY <1>3, <1>4, FS_CardinalityType

(* A step that adds neither a row nor a worker.                             *)
LEMMA SlotsShrink ==
    ASSUME EntryInv, EntryInv', NEW S, NEW past, NEW cap \in Nat, SlotInv(S, past, cap),
           RowsOf(S)' \subseteq RowsOf(S), Flying(S, past)' \subseteq Flying(S, past)
    PROVE  SlotInv(S, past, cap)'
<1>1. /\ Cardinality(RowsOf(S)') <= Cardinality(RowsOf(S))
      /\ Cardinality(Flying(S, past)') <= Cardinality(Flying(S, past))
      /\ Cardinality(RowsOf(S)') \in Nat /\ Cardinality(Flying(S, past)') \in Nat
  BY SlotsAreFinite, FS_Subset, FS_CardinalityType
<1> QED
  BY <1>1, SlotsAreFinite DEF SlotInv

(* A worker passes the count, which found a place.                          *)
LEMMA SlotsJoin ==
    ASSUME EntryInv, EntryInv', NEW S, NEW past, NEW cap \in Nat,
           RowsOf(S)' = RowsOf(S), Cardinality(RowsOf(S)) < cap
    PROVE  SlotInv(S, past, cap)'
<1>1. /\ Cardinality(Flying(S, past)') <= Cardinality(Workers)
      /\ Cardinality(Flying(S, past)') \in Nat
  <2>1. Flying(S, past)' \subseteq Workers /\ IsFiniteSet(Workers)
    BY EntryAssumption DEF Flying
  <2> QED
    BY <2>1, FS_Subset, FS_CardinalityType
<1> QED
  BY <1>1, SlotsAreFinite DEF SlotInv

(* A worker trades its place for a row.                                     *)
LEMMA SlotsLand ==
    ASSUME EntryInv, EntryInv', NEW S, NEW past, NEW cap \in Nat, SlotInv(S, past, cap),
           NEW w \in Flying(S, past), Flying(S, past)' \subseteq Flying(S, past) \ {w},
           NEW q, RowsOf(S)' \subseteq RowsOf(S) \cup {q}
    PROVE  SlotInv(S, past, cap)'
<1>1. /\ Cardinality(RowsOf(S)') <= Cardinality(RowsOf(S)) + 1
      /\ Cardinality(RowsOf(S)') \in Nat
  <2>3. IsFiniteSet(RowsOf(S)) /\ Cardinality(RowsOf(S)) \in Nat
    BY SlotsAreFinite
  <2>1. IsFiniteSet(RowsOf(S) \cup {q})
        /\ Cardinality(RowsOf(S) \cup {q}) <= Cardinality(RowsOf(S)) + 1
        /\ Cardinality(RowsOf(S) \cup {q}) \in Nat
    <3>1. IsFiniteSet(RowsOf(S) \cup {q})
          /\ Cardinality(RowsOf(S) \cup {q}) =
                IF q \in RowsOf(S) THEN Cardinality(RowsOf(S)) ELSE Cardinality(RowsOf(S)) + 1
      BY <2>3, FS_AddElement
    <3> QED
      BY <2>3, <3>1
  <2>2. IsFiniteSet(RowsOf(S)')
        /\ Cardinality(RowsOf(S)') <= Cardinality(RowsOf(S) \cup {q})
    BY <2>1, FS_Subset
  <2> QED
    BY <2>1, <2>2, SlotsAreFinite, FS_CardinalityType
<1>2. /\ Cardinality(Flying(S, past)') <= Cardinality(Flying(S, past)) - 1
      /\ Cardinality(Flying(S, past)') \in Nat
  <2>1. IsFiniteSet(Flying(S, past) \ {w})
        /\ Cardinality(Flying(S, past) \ {w}) = Cardinality(Flying(S, past)) - 1
    BY SlotsAreFinite, FS_RemoveElement
  <2>2. IsFiniteSet(Flying(S, past)')
        /\ Cardinality(Flying(S, past)') <= Cardinality(Flying(S, past) \ {w})
    BY <2>1, FS_Subset
  <2> QED
    BY <2>1, <2>2, FS_CardinalityType
<1> QED
  BY <1>1, <1>2, SlotsAreFinite DEF SlotInv

(* What a worker's own step leaves of the others, and of the rows.          *)
LEMMA OneWorkerMoves ==
    ASSUME EntryInv, NEW w \in Workers, Step(w)
    PROVE  /\ \A v \in Workers \ {w} : pc'[v] = pc[v] /\ mine'[v] = mine[v]
           /\ pc[w] # "idle" => mine'[w].signal = mine[w].signal
           /\ ~CreateTrade(w) => Open' = Open
<1>1. \A v \in Workers \ {w} : pc'[v] = pc[v] /\ mine'[v] = mine[v]
  BY DEF Step, Begin, CheckGlobal, CheckProfile, CheckDuplicate, Count, Order, PlaceStop,
         PlaceTarget, PlaceOrder, CreateTrade, Fail, Goto, Done, EntryInv, TypeOK
<1>2. pc[w] # "idle" => mine'[w].signal = mine[w].signal
  <2>1. mine[w] \in Locals /\ mine \in [Workers -> Locals]
    BY DEF EntryInv, TypeOK
  <2> QED
    BY <2>1 DEF Step, Begin, CheckGlobal, CheckProfile, CheckDuplicate, Count, Order,
                PlaceStop, PlaceTarget, PlaceOrder, CreateTrade, Fail, Locals
<1>3. ASSUME Order(w) PROVE Open' = Open
  BY <1>3 DEF Order, Open, Bought
<1>4. ASSUME PlaceStop(w) \/ PlaceTarget(w) PROVE Open' = Open
  <2>1. pc[w] \in Holding
    BY <1>4 DEF PlaceStop, PlaceTarget, PlaceOrder, Holding
  <2>2. PICK p \in positions : Hers(w) = {p} /\ ~p.recorded /\ p \in Positions
    BY <2>1, HeldPosition
  <2>3. PICK step : \/ UNCHANGED positions
                    \/ Changed(w, [p EXCEPT !.resting = @ \cup {step}])
    BY <1>4, <2>2 DEF PlaceStop, PlaceTarget, PlaceOrder
  <2> QED
    BY <2>2, <2>3 DEF Changed, Open, Positions
<1>5. ASSUME ~CreateTrade(w) PROVE Open' = Open
  BY <1>3, <1>4, <1>5 DEF Step, Begin, CheckGlobal, CheckProfile, CheckDuplicate, Count,
                          Fail, Open
<1> QED
  BY <1>1, <1>2, <1>5

(* Rows and workers past a count keep their sum below the cap whenever each *)
(* worker that passes it finds a place.                                     *)
LEMMA SlotsStep ==
    ASSUME EntryInv, EntryInv', [Next]_vars, NEW S,
           NEW past \in {PastGlobal, PastProfile, PastDuplicate}, NEW cap \in Nat,
           SlotInv(S, past, cap),
           \A w \in Workers :
               pc[w] \notin past /\ pc'[w] \in past /\ mine'[w].signal \in S
                   => Cardinality(RowsOf(S)) < cap
    PROVE  SlotInv(S, past, cap)'
<1>1. "idle" \notin past /\ "record" \in past /\ "global" \notin past
  BY DEF PastGlobal, PastProfile, PastDuplicate
<1>2. ASSUME NEW w \in Workers, Step(w), ~CreateTrade(w)
      PROVE  SlotInv(S, past, cap)'
  <2>1. RowsOf(S)' = RowsOf(S)
    BY <1>2, OneWorkerMoves DEF RowsOf
  <2>2. CASE pc[w] \notin past /\ pc'[w] \in past /\ mine'[w].signal \in S
    BY <2>1, <2>2, SlotsJoin
  <2>3. CASE ~(pc[w] \notin past /\ pc'[w] \in past /\ mine'[w].signal \in S)
    <3>1. Flying(S, past)' \subseteq Flying(S, past)
      BY <1>1, <1>2, <2>3, OneWorkerMoves DEF Flying
    <3> QED
      BY <2>1, <3>1, SlotsShrink
  <2> QED
    BY <2>2, <2>3
<1>3. ASSUME NEW w \in Workers, CreateTrade(w)
      PROVE  SlotInv(S, past, cap)'
  <2>1. /\ pc[w] = "record" /\ pc'[w] = "idle" /\ mine' = mine
        /\ \A v \in Workers \ {w} : pc'[v] = pc[v]
    BY <1>3 DEF CreateTrade, Done, Goto, EntryInv, TypeOK
  <2>2. Flying(S, past)' \subseteq Flying(S, past) \ {w}
    BY <1>1, <2>1 DEF Flying
  <2>3. PICK p \in positions :
            Hers(w) = {p} /\ p \in Positions /\ ~p.recorded /\ p.signal = mine[w].signal
    BY <2>1, HeldPosition DEF Holding
  <2> DEFINE q == [p EXCEPT !.recorded = TRUE, !.named = mine[w].named]
  <2>4. positions' = (positions \ {p}) \cup {q} /\ q.signal = mine[w].signal
    BY <1>3, <2>3 DEF CreateTrade, Changed, Positions
  <2> HIDE DEF q
  <2>5. CASE mine[w].signal \in S
    <3>1. w \in Flying(S, past)
      BY <1>1, <2>1, <2>5 DEF Flying
    <3>2. RowsOf(S)' \subseteq RowsOf(S) \cup {q}
      BY <2>4 DEF RowsOf, Open
    <3> QED
      BY <2>2, <3>1, <3>2, SlotsLand
  <2>6. CASE mine[w].signal \notin S
    <3>1. RowsOf(S)' \subseteq RowsOf(S)
      BY <2>4, <2>6 DEF RowsOf, Open
    <3> QED
      BY <2>2, <3>1, SlotsShrink
  <2> QED
    BY <2>5, <2>6
<1>4. ASSUME NEW p \in Open, CloseTrade(p)
      PROVE  SlotInv(S, past, cap)'
  <2>1. RowsOf(S)' \subseteq RowsOf(S) /\ Flying(S, past)' \subseteq Flying(S, past)
    BY <1>4 DEF CloseTrade, RowsOf, Open, Flying
  <2> QED
    BY <2>1, SlotsShrink
<1>5. CASE MarkGoal \/ NewMonth \/ UNCHANGED vars
  <2>1. UNCHANGED <<positions, pc, mine>>
    BY <1>5 DEF MarkGoal, NewMonth, vars
  <2>2. RowsOf(S)' = RowsOf(S) /\ Flying(S, past)' = Flying(S, past)
    BY <2>1 DEF RowsOf, Open, Flying
  <2> QED
    BY <2>2, SlotsShrink
<1> QED
  BY <1>2, <1>3, <1>4, <1>5 DEF Next

(* A worker comes past each count by that count alone.                      *)
LEMMA PassedCounts ==
    ASSUME EntryInv, [Next]_vars, NEW w \in Workers
    PROVE  /\ pc[w] \notin PastGlobal /\ pc'[w] \in PastGlobal => CheckGlobal(w)
           /\ pc[w] \notin PastProfile /\ pc'[w] \in PastProfile => CheckProfile(w)
           /\ pc[w] \notin PastDuplicate /\ pc'[w] \in PastDuplicate => CheckDuplicate(w)
<1> USE DEF PastGlobal, PastProfile, PastDuplicate
<1>1. CASE Step(w)
  <2>1. pc \in [Workers -> Steps]
    BY DEF EntryInv, TypeOK
  <2>2. CASE \E s \in Signals : Begin(w, s)
    BY <2>1, <2>2 DEF Begin, Goto
  <2>3. CASE Order(w)
    BY <2>1, <2>3 DEF Order
  <2>4. CASE PlaceStop(w)
    BY <2>1, <2>4 DEF PlaceStop, PlaceOrder
  <2>5. CASE PlaceTarget(w)
    BY <2>1, <2>5 DEF PlaceTarget, PlaceOrder
  <2>6. CASE CreateTrade(w) \/ Fail(w)
    BY <2>1, <2>6 DEF CreateTrade, Fail, Done, Goto
  <2>7. CASE CheckGlobal(w)
    BY <2>1, <2>7 DEF CheckGlobal, Count, Goto
  <2>8. CASE CheckProfile(w)
    BY <2>1, <2>8 DEF CheckProfile, Count, Goto
  <2>9. CASE CheckDuplicate(w)
    BY <2>1, <2>9 DEF CheckDuplicate, Count, Goto
  <2> QED
    BY <1>1, <2>2, <2>3, <2>4, <2>5, <2>6, <2>7, <2>8, <2>9 DEF Step
<1>2. CASE pc'[w] = pc[w]
  BY <1>2
<1>3. \A v \in Workers \ {w} : Step(v) => pc'[w] = pc[w]
  BY OneWorkerMoves
<1>4. \A p \in Open : CloseTrade(p) => pc' = pc
  BY DEF CloseTrade
<1>5. MarkGoal \/ NewMonth \/ UNCHANGED vars => pc' = pc
  BY DEF MarkGoal, NewMonth, vars
<1> QED
  BY <1>1, <1>2, <1>3, <1>4, <1>5 DEF Next

(* The sets the code counts.                                                *)
LEMMA CountedRows ==
    ASSUME EntryInv
    PROVE  /\ RowsOf(Signals) = Open
           /\ \A f \in Profiles : RowsOf(OfProfile(f)) = OpenOf(f)
           /\ \A f \in Profiles, x \in Pairs : RowsOf(OfSetup(f, x)) = OpenSetup(f, x)
<1>1. \A p \in Open : p.signal \in Signals
  BY DEF EntryInv, TypeOK, Open, Positions
<1> QED
  BY <1>1 DEF RowsOf, OfProfile, OfSetup, OpenOf, OpenSetup

(* The guard of each count leaves room for one row more.                    *)
LEMMA RoomAtTheCount ==
    ASSUME EntryInv, NEW w \in Workers
    PROVE  /\ CheckGlobal(w) /\ pc'[w] \in PastGlobal =>
                 Cardinality(Open) < GlobalCap
           /\ CheckProfile(w) /\ pc'[w] \in PastProfile =>
                 Cardinality(OpenOf(mine[w].signal.profile)) < Cap[mine[w].signal.profile]
           /\ CheckDuplicate(w) /\ pc'[w] \in PastDuplicate =>
                 Cardinality(OpenSetup(mine[w].signal.profile, mine[w].signal.pair)) < 1
<1> USE DEF PastGlobal, PastProfile, PastDuplicate
<1> DEFINE s == mine[w].signal
<1>1. s.profile \in Profiles /\ Cap[s.profile] \in Nat \ {0} /\ mine[w].strict \in BOOLEAN
      /\ pc \in [Workers -> Steps]
  <2>1. mine[w] \in Locals
    BY DEF EntryInv, TypeOK
  <2>2. s \in Signals /\ mine[w].strict \in BOOLEAN
    BY <2>1 DEF Locals
  <2> QED
    BY <2>2, EntryAssumption DEF SignalShape, EntryInv, TypeOK
<1>2. Cardinality(Open) \in Nat /\ Cardinality(OpenOf(s.profile)) \in Nat
  <2>1. IsFiniteSet(positions) /\ Open \subseteq positions
        /\ OpenOf(s.profile) \subseteq positions
    BY DEF EntryInv, Open, OpenOf
  <2> QED
    BY <2>1, FS_Subset, FS_CardinalityType
<1> HIDE DEF s
<1>3. ASSUME CheckGlobal(w), pc'[w] \in PastGlobal
      PROVE  Cardinality(Open) < GlobalCap
  <2>1. PICK otc \in OtcRows :
            Count(w, "global", Cardinality(Open) + otc >= GlobalCap, "profile")
    BY <1>3 DEF CheckGlobal
  <2>2. ~(Cardinality(Open) + otc >= GlobalCap)
    BY <1>1, <1>3, <2>1 DEF Count, Goto
  <2>3. otc \in Nat /\ GlobalCap \in Nat
    BY EntryAssumption
  <2> QED
    BY <1>2, <2>2, <2>3
<1>4. ASSUME CheckProfile(w), pc'[w] \in PastProfile
      PROVE  Cardinality(OpenOf(s.profile)) < Cap[s.profile]
  <2>1. ~ProfileFull(s.profile, mine[w].strict)
    BY <1>1, <1>4 DEF CheckProfile, Count, Goto, s
  <2> QED
    BY <1>1, <1>2, <2>1 DEF ProfileFull, Allowed
<1>5. ASSUME CheckDuplicate(w), pc'[w] \in PastDuplicate
      PROVE  Cardinality(OpenSetup(s.profile, s.pair)) < 1
  <2>1. OpenSetup(s.profile, s.pair) = {}
    BY <1>1, <1>5 DEF CheckDuplicate, Count, Goto, Duplicate, s
  <2> QED
    BY <2>1, FS_EmptySet
<1> QED
  BY <1>3, <1>4, <1>5 DEF s

LEMMA InitCaps == Init => CapsInv
<1> SUFFICES ASSUME Init PROVE CapsInv
  OBVIOUS
<1>1. ASSUME NEW S, NEW past \in {PastGlobal, PastProfile, PastDuplicate},
             NEW cap \in Nat \ {0}
      PROVE  SlotInv(S, past, cap)
  <2>1. RowsOf(S) = {} /\ Flying(S, past) = {}
    BY DEF Init, RowsOf, Open, Flying, PastGlobal, PastProfile, PastDuplicate
  <2>2. Cardinality(Workers) \in Nat
    BY EntryAssumption, FS_CardinalityType
  <2> QED
    BY <2>1, <2>2, FS_EmptySet DEF SlotInv
<1> QED
  BY <1>1, EntryAssumption DEF CapsInv

LEMMA CapsStep ==
    ASSUME EntryInv, EntryInv', CapsInv, [Next]_vars
    PROVE  CapsInv'
<1>2. GlobalCap \in Nat /\ \A f \in Profiles : Cap[f] \in Nat
  BY EntryAssumption
<1>3. SlotInv(Signals, PastGlobal, GlobalCap)'
  <2>1. ASSUME NEW w \in Workers, pc[w] \notin PastGlobal, pc'[w] \in PastGlobal
        PROVE  Cardinality(RowsOf(Signals)) < GlobalCap
    BY <2>1, PassedCounts, RoomAtTheCount, CountedRows
  <2> QED
    BY <1>2, <2>1, SlotsStep DEF CapsInv
<1>4. ASSUME NEW f \in Profiles
      PROVE  SlotInv(OfProfile(f), PastProfile, Cap[f])'
  <2>1. ASSUME NEW w \in Workers, pc[w] \notin PastProfile, pc'[w] \in PastProfile,
               mine'[w].signal \in OfProfile(f)
        PROVE  Cardinality(RowsOf(OfProfile(f))) < Cap[f]
    <3>1. CheckProfile(w)
      BY <2>1, PassedCounts
    <3>2. mine[w].signal.profile = f
      BY <2>1, <3>1 DEF CheckProfile, Count, OfProfile
    <3> QED
      BY <2>1, <3>1, <3>2, RoomAtTheCount, CountedRows
  <2> QED
    BY <1>2, <1>4, <2>1, SlotsStep DEF CapsInv
<1>5. ASSUME NEW f \in Profiles, NEW x \in Pairs
      PROVE  SlotInv(OfSetup(f, x), PastDuplicate, 1)'
  <2>1. ASSUME NEW w \in Workers, pc[w] \notin PastDuplicate, pc'[w] \in PastDuplicate,
               mine'[w].signal \in OfSetup(f, x)
        PROVE  Cardinality(RowsOf(OfSetup(f, x))) < 1
    <3>1. CheckDuplicate(w)
      BY <2>1, PassedCounts
    <3>2. mine[w].signal.profile = f /\ mine[w].signal.pair = x
      BY <2>1, <3>1 DEF CheckDuplicate, Count, OfSetup, OfProfile
    <3> QED
      BY <2>1, <3>1, <3>2, RoomAtTheCount, CountedRows
  <2> QED
    BY <1>5, <2>1, SlotsStep DEF CapsInv
<1> QED
  BY <1>3, <1>4, <1>5 DEF CapsInv

LEMMA CapsBound ==
    ASSUME EntryInv, CapsInv
    PROVE  CapsOverrunOnlyInFlight /\ OneTradePerSetup
<1>1. ASSUME NEW S, NEW past, NEW cap \in Nat, SlotInv(S, past, cap)
      PROVE  Cardinality(RowsOf(S)) < cap + Cardinality(Workers)
  BY <1>1, SlotsAreFinite DEF SlotInv
<1>2. CapsOverrunOnlyInFlight
  BY <1>1, CountedRows, EntryAssumption DEF CapsInv, CapsOverrunOnlyInFlight
<1>3. ASSUME NEW p \in Open
      PROVE  Cardinality(OpenSetup(p.signal.profile, p.signal.pair)) <= Cardinality(Workers)
  <2>1. p.signal \in Signals
    BY DEF EntryInv, TypeOK, Open, Positions
  <2>2. p.signal.profile \in Profiles /\ p.signal.pair \in Pairs
    BY <2>1, EntryAssumption DEF SignalShape, Pairs
  <2> DEFINE n == Cardinality(OpenSetup(p.signal.profile, p.signal.pair))
  <2>3. n < 1 + Cardinality(Workers)
    BY <1>1, <2>2, CountedRows DEF CapsInv
  <2>4. n \in Nat /\ Cardinality(Workers) \in Nat
    BY <2>2, SlotsAreFinite, CountedRows
  <2> QED
    BY <2>3, <2>4
<1> QED
  BY <1>2, <1>3 DEF OneTradePerSetup

(***************************************************************************)
(* The three counts are statements of their own and nothing locks, so each *)
(* cap may be overrun; never by as many as there are workers.              *)
(***************************************************************************)
THEOREM CapsStayBounded == Spec => []CapsOverrunOnlyInFlight
BY InitEntry, EntryStep, InitCaps, CapsStep, CapsBound, PTL DEF Spec

(* A pair of a profile is open at most once per worker.                     *)
THEOREM DuplicatesStayBounded == Spec => []OneTradePerSetup
BY InitEntry, EntryStep, InitCaps, CapsStep, CapsBound, PTL DEF Spec

-----------------------------------------------------------------------------
(***************************************************************************)
(* The protected rules.  Whoever may still enter without being premium had *)
(* begun before the goal was marked, for the gate admits no other since.   *)
(***************************************************************************)
Early == {"global", "profile", "duplicate", "order"}
Ordinary == {w \in Workers : pc[w] \in Early /\ ~Premium(mine[w].signal)}

ProtectInv == goal => late + Cardinality(Ordinary) <= Cardinality(Workers)

LEMMA OrdinaryIsFinite ==
    /\ IsFiniteSet(Ordinary) /\ Cardinality(Ordinary) \in Nat
    /\ Cardinality(Ordinary) <= Cardinality(Workers) /\ Cardinality(Workers) \in Nat
<1>1. Ordinary \subseteq Workers /\ IsFiniteSet(Workers)
  BY EntryAssumption DEF Ordinary
<1> QED
  BY <1>1, FS_Subset, FS_CardinalityType

LEMMA ProtectStep ==
    ASSUME EntryInv, EntryInv', ProtectInv, [Next]_vars
    PROVE  ProtectInv'
<1> SUFFICES ASSUME goal'
             PROVE  late' + Cardinality(Ordinary') <= Cardinality(Workers)
  BY DEF ProtectInv
<1>0. /\ IsFiniteSet(Ordinary') /\ Cardinality(Ordinary') \in Nat
      /\ Cardinality(Ordinary') <= Cardinality(Workers)
  <2>1. Ordinary' \subseteq Workers /\ IsFiniteSet(Workers)
    BY EntryAssumption DEF Ordinary
  <2> QED
    BY <2>1, FS_Subset, FS_CardinalityType
<1>1. late \in Nat
  BY DEF EntryInv, TypeOK
<1>2. ASSUME goal, late' = late, Ordinary' \subseteq Ordinary
      PROVE  late' + Cardinality(Ordinary') <= Cardinality(Workers)
  <2>1. Cardinality(Ordinary') <= Cardinality(Ordinary)
    BY <1>2, OrdinaryIsFinite, FS_Subset
  <2> QED
    BY <1>0, <1>1, <1>2, <2>1, OrdinaryIsFinite DEF ProtectInv
<1>3. ASSUME NEW w \in Workers, Step(w), ~Order(w)
      PROVE  late' + Cardinality(Ordinary') <= Cardinality(Workers)
  <2>1. goal /\ late' = late
    BY <1>3 DEF Step, Begin, CheckGlobal, CheckProfile, CheckDuplicate, Count, PlaceStop,
                PlaceTarget, PlaceOrder, CreateTrade, Fail
  <2>2. w \in Ordinary' => w \in Ordinary
    <3>1. pc \in [Workers -> Steps] /\ mine \in [Workers -> Locals] /\ mine[w] \in Locals
      BY DEF EntryInv, TypeOK
    <3>2. CASE \E s \in Signals : Begin(w, s)
      <4>1. PICK s \in Signals : Begin(w, s)
        BY <3>2
      <4>2. mine'[w].signal = s /\ GateOpen(s, goal)
        BY <3>1, <4>1 DEF Begin, Locals
      <4> QED
        BY <2>1, <4>2 DEF GateOpen, Premium, Ordinary
    <3>3. CASE ~\E s \in Signals : Begin(w, s)
      <4>1. pc[w] # "idle"
        BY <1>3, <3>3 DEF Step, CheckGlobal, CheckProfile, CheckDuplicate, Count, Order,
                          PlaceStop, PlaceTarget, PlaceOrder, CreateTrade, Fail
      <4>2. mine'[w].signal = mine[w].signal
        BY <1>3, <4>1, OneWorkerMoves
      <4>3. pc'[w] \in Early => pc[w] \in Early
        BY <1>3, <3>1, <3>3 DEF Step, CheckGlobal, CheckProfile, CheckDuplicate, Count,
              PlaceStop, PlaceTarget, PlaceOrder, AfterStop, CreateTrade, Fail, Goto,
              Done, Early
      <4> QED
        BY <4>2, <4>3 DEF Ordinary, Premium
    <3> QED
      BY <3>2, <3>3
  <2>3. \A v \in Workers \ {w} : v \in Ordinary' => v \in Ordinary
    BY <1>3, OneWorkerMoves DEF Ordinary, Premium
  <2>4. Ordinary' \subseteq Ordinary
    BY <2>2, <2>3 DEF Ordinary
  <2> QED
    BY <1>2, <2>1, <2>4
<1>4. ASSUME NEW w \in Workers, Order(w)
      PROVE  late' + Cardinality(Ordinary') <= Cardinality(Workers)
  <2>1. goal /\ pc[w] = "order" /\ pc'[w] \notin Early
    BY <1>4 DEF Order, Done, Goto, AfterOrder, Early, EntryInv, TypeOK
  <2>2. Ordinary' \subseteq Ordinary \ {w}
    BY <1>4, <2>1, OneWorkerMoves DEF Step, Ordinary, Premium
  <2>3. CASE late' = late
    BY <1>2, <2>1, <2>2, <2>3
  <2>4. CASE late' # late
    <3>1. late' = late + 1 /\ w \in Ordinary
      BY <1>4, <2>1, <2>4 DEF Order, Ordinary, Early
    <3>2. IsFiniteSet(Ordinary \ {w})
          /\ Cardinality(Ordinary \ {w}) = Cardinality(Ordinary) - 1
      BY <3>1, OrdinaryIsFinite, FS_RemoveElement
    <3>3. Cardinality(Ordinary') <= Cardinality(Ordinary \ {w})
      BY <2>2, <3>2, FS_Subset
    <3> QED
      BY <1>0, <1>1, <2>1, <3>1, <3>2, <3>3, OrdinaryIsFinite DEF ProtectInv
  <2> QED
    BY <2>3, <2>4
<1>5. ASSUME NEW p \in Open, CloseTrade(p)
      PROVE  late' + Cardinality(Ordinary') <= Cardinality(Workers)
  BY <1>2, <1>5 DEF CloseTrade, Ordinary, Premium
<1>6. CASE MarkGoal
  BY <1>0, <1>6 DEF MarkGoal
<1>7. CASE NewMonth
  BY <1>7 DEF NewMonth
<1>8. CASE UNCHANGED vars
  BY <1>2, <1>8 DEF vars, Ordinary, Premium
<1> QED
  BY <1>3, <1>4, <1>5, <1>6, <1>7, <1>8 DEF Next

(***************************************************************************)
(* Once the month's goal is marked, what is not of high confidence enters  *)
(* at most once per worker, and only on rules read before.                 *)
(***************************************************************************)
THEOREM ProtectionHolds == Spec => []ProtectedAfterGoal
<1>1. Init => ProtectInv
  BY DEF Init, ProtectInv
<1>2. EntryInv /\ ProtectInv => ProtectedAfterGoal
  BY OrdinaryIsFinite DEF EntryInv, TypeOK, ProtectInv, ProtectedAfterGoal
<1> QED
  BY InitEntry, EntryStep, <1>1, ProtectStep, <1>2, PTL DEF Spec

-----------------------------------------------------------------------------
(***************************************************************************)
(* Who knows of a position.  The orders a worker has not named are lost    *)
(* before its row is written, so what is counted is what neither a worker  *)
(* nor a row knows in full.                                                *)
(***************************************************************************)
KnownBy(w, p) == Holds(w, p) /\ p.resting \subseteq mine[w].named
Known(p) == \/ \E w \in Workers : KnownBy(w, p)
            \/ p.recorded /\ p.resting \subseteq p.named
Lost == {p \in positions : ~Known(p)}

TrackInv == Cardinality(Lost) <= faults

LEMMA LostIsFinite ==
    ASSUME EntryInv
    PROVE  IsFiniteSet(Lost) /\ Cardinality(Lost) \in Nat
<1>1. Lost \subseteq positions /\ IsFiniteSet(positions)
  BY DEF Lost, EntryInv
<1> QED
  BY <1>1, FS_Subset, FS_CardinalityType

(* Nothing more is lost; or one more, by a fault; or what was lost already  *)
(* is written anew.                                                         *)
LEMMA LostKeep ==
    ASSUME EntryInv, TrackInv, Lost' \subseteq Lost, faults' = faults
    PROVE  TrackInv'
<1>1. IsFiniteSet(Lost') /\ Cardinality(Lost') <= Cardinality(Lost)
  BY LostIsFinite, FS_Subset
<1> QED
  BY <1>1, LostIsFinite, FS_CardinalityType, EntryAssumption DEF TrackInv, EntryInv, TypeOK

LEMMA LostToFault ==
    ASSUME EntryInv, TrackInv, NEW q, Lost' \subseteq Lost \cup {q}, faults' = faults + 1
    PROVE  TrackInv'
<1>1. IsFiniteSet(Lost \cup {q})
      /\ Cardinality(Lost \cup {q}) =
            IF q \in Lost THEN Cardinality(Lost) ELSE Cardinality(Lost) + 1
  BY LostIsFinite, FS_AddElement
<1>2. IsFiniteSet(Lost') /\ Cardinality(Lost') <= Cardinality(Lost \cup {q})
  BY <1>1, FS_Subset
<1> QED
  BY <1>1, <1>2, LostIsFinite, FS_CardinalityType, EntryAssumption
  DEF TrackInv, EntryInv, TypeOK

LEMMA LostAnew ==
    ASSUME EntryInv, TrackInv, NEW p \in Lost, NEW q,
           Lost' \subseteq (Lost \ {p}) \cup {q}, faults' = faults
    PROVE  TrackInv'
<1>1. IsFiniteSet(Lost \ {p}) /\ Cardinality(Lost \ {p}) = Cardinality(Lost) - 1
  BY LostIsFinite, FS_RemoveElement
<1>2. IsFiniteSet((Lost \ {p}) \cup {q})
      /\ Cardinality((Lost \ {p}) \cup {q}) =
            IF q \in Lost \ {p} THEN Cardinality(Lost \ {p})
                                ELSE Cardinality(Lost \ {p}) + 1
  BY <1>1, FS_AddElement
<1>3. IsFiniteSet(Lost') /\ Cardinality(Lost') <= Cardinality((Lost \ {p}) \cup {q})
  BY <1>2, FS_Subset
<1> QED
  BY <1>1, <1>2, <1>3, LostIsFinite, FS_CardinalityType, EntryAssumption
  DEF TrackInv, EntryInv, TypeOK

(* A worker's step leaves what the others, or a row, know of it.            *)
LEMMA OthersKnow ==
    ASSUME EntryInv, NEW w \in Workers, Step(w), NEW p \in positions,
           Known(p), ~KnownBy(w, p)
    PROVE  Known(p)'
<1>1. CASE p.recorded /\ p.resting \subseteq p.named
  BY <1>1 DEF Known
<1>2. CASE \E v \in Workers : KnownBy(v, p)
  <2>1. PICK v \in Workers \ {w} : KnownBy(v, p)
    BY <1>2
  <2>2. pc'[v] = pc[v] /\ mine'[v] = mine[v]
    BY OneWorkerMoves
  <2> QED
    BY <2>1, <2>2 DEF Known, KnownBy, Holds, Busy
<1> QED
  BY <1>1, <1>2 DEF Known

(* Begin, the counts and Fail: only the last lets go of a position.         *)
LEMMA AttemptLoses ==
    ASSUME EntryInv, TrackInv, NEW w \in Workers, Step(w), UNCHANGED positions,
           \/ pc[w] \notin Holding /\ faults' = faults
           \/ faults' = faults + 1
    PROVE  TrackInv'
<1>1. CASE pc[w] \notin Holding /\ faults' = faults
  <2>1. \A p \in positions : ~KnownBy(w, p)
    BY <1>1 DEF KnownBy, Holds, Busy
  <2>2. Lost' \subseteq Lost
    BY <2>1, OthersKnow DEF Lost
  <2> QED
    BY <1>1, <2>2, LostKeep
<1>2. CASE faults' = faults + 1 /\ \E p \in positions : KnownBy(w, p)
  <2>1. PICK p \in positions : KnownBy(w, p)
    BY <1>2
  <2>2. \A q \in positions \ {p} : ~KnownBy(w, q)
    BY <2>1 DEF KnownBy, Holds, EntryInv, TypeOK
  <2>3. Lost' \subseteq Lost \cup {p}
    BY <2>2, OthersKnow DEF Lost
  <2> QED
    BY <1>2, <2>3, LostToFault
<1>3. CASE faults' = faults + 1 /\ ~\E p \in positions : KnownBy(w, p)
  <2>1. Lost' \subseteq Lost \cup {w}
    BY <1>3, OthersKnow DEF Lost
  <2> QED
    BY <1>3, <2>1, LostToFault
<1> QED
  BY <1>1, <1>2, <1>3

(* A new position is in its worker's hands, unless the answer is lost.      *)
LEMMA OrderLoses ==
    ASSUME EntryInv, EntryInv', TrackInv, NEW w \in Workers, Order(w)
    PROVE  TrackInv'
<1>1. pc[w] = "order" /\ Step(w)
  BY DEF Order, Step
<1>2. \A p \in positions : ~KnownBy(w, p)
  BY <1>1 DEF KnownBy, Holds, Busy, Holding
<1>3. CASE UNCHANGED <<positions, faults>>
  <2>1. Lost' \subseteq Lost
    BY <1>1, <1>2, <1>3, OthersKnow DEF Lost
  <2> QED
    BY <1>3, <2>1, LostKeep
<1>4. ASSUME NEW id \in FreeIds, positions' = positions \cup {Bought(w, id)}
      PROVE  Lost' \subseteq Lost \cup {Bought(w, id)}
  BY <1>1, <1>2, <1>4, OthersKnow DEF Lost
<1>5. ASSUME NEW id \in FreeIds, positions' = positions \cup {Bought(w, id)},
             faults' = faults + 1
      PROVE  TrackInv'
  BY <1>4, <1>5, LostToFault
<1>6. ASSUME NEW id \in FreeIds, positions' = positions \cup {Bought(w, id)},
             mine' = [mine EXCEPT ![w].id = id], Goto(w, AfterOrder(mine[w].signal)),
             faults' = faults
      PROVE  TrackInv'
  <2>0. PICK b : b = Bought(w, id)
    OBVIOUS
  <2>1. b.id = id /\ b.resting = {}
    BY <2>0 DEF Bought
  <2>2. mine'[w].id = id /\ pc'[w] \in Holding
    <3>1. pc \in [Workers -> Steps] /\ mine \in [Workers -> Locals] /\ mine[w] \in Locals
      BY DEF EntryInv, TypeOK
    <3> QED
      BY <1>6, <3>1 DEF Goto, AfterOrder, Holding, Locals
  <2>3. Known(b)'
    BY <2>1, <2>2 DEF Known, KnownBy, Holds, Busy
  <2>4. Lost' \subseteq Lost
    BY <1>4, <1>6, <2>0, <2>3 DEF Lost
  <2> QED
    BY <1>6, <2>4, LostKeep
<1> QED
  BY <1>3, <1>5, <1>6 DEF Order, Fault

(* Its own position is written anew: all the others are known as before.    *)
LEMMA OnlyHersChanges ==
    ASSUME EntryInv, NEW w \in Workers, Step(w), NEW p \in positions, Hers(w) = {p},
           NEW q, Changed(w, q)
    PROVE  Lost' \subseteq (Lost \ {p}) \cup {q}
<1>1. positions' = (positions \ {p}) \cup {q}
  BY DEF Changed
<1>2. \A o \in positions \ {p} : ~KnownBy(w, o)
  BY DEF KnownBy, Holds, Hers
<1> QED
  BY <1>1, <1>2, OthersKnow DEF Lost

(* A protective order is named, or lost by a fault.                         *)
LEMMA PlaceLoses ==
    ASSUME EntryInv, EntryInv', TrackInv, NEW w \in Workers, PlaceStop(w) \/ PlaceTarget(w)
    PROVE  TrackInv'
<1>1. PICK step \in {"stop", "target"}, next \in {"record", "target"} :
          PlaceOrder(w, step, next)
  BY DEF PlaceStop, PlaceTarget, AfterStop
<1>2. pc[w] \in Holding /\ pc'[w] \in Holding /\ Step(w)
  BY <1>1 DEF PlaceStop, PlaceTarget, PlaceOrder, Holding, Step, Goto, EntryInv, TypeOK
<1>3. PICK p \in positions :
          /\ Hers(w) = {p} /\ p \in Positions /\ p.id = mine[w].id
          /\ ~p.recorded /\ p.signal = mine[w].signal
  BY <1>2, HeldPosition
<1>4. \A v \in Workers \ {w} : ~KnownBy(v, p)
  BY <1>2, <1>3 DEF KnownBy, Holds, EntryInv, Busy
<1> DEFINE q == [p EXCEPT !.resting = @ \cup {step}]
<1>5. q.id = p.id /\ q.resting = p.resting \cup {step}
  BY <1>3 DEF Positions
<1>6. mine \in [Workers -> Locals] /\ mine[w] \in Locals
  BY DEF EntryInv, TypeOK
<1> HIDE DEF q
<1>7. CASE Changed(w, q) /\ mine' = [mine EXCEPT ![w].named = @ \cup {step}]
           /\ faults' = faults
  <2>1. Lost' \subseteq (Lost \ {p}) \cup {q}
    BY <1>2, <1>3, <1>7, OnlyHersChanges
  <2>2. mine'[w].id = mine[w].id /\ mine'[w].named = mine[w].named \cup {step}
    BY <1>6, <1>7 DEF Locals
  <2>3. CASE p \in Lost
    BY <1>7, <2>1, <2>3, LostAnew
  <2>4. CASE p \notin Lost
    <3>1. KnownBy(w, p)
      BY <1>3, <1>4, <2>4 DEF Lost, Known
    <3>2. Known(q)'
      BY <1>2, <1>3, <1>5, <2>2, <3>1 DEF Known, KnownBy, Holds, Busy
    <3>3. Lost' \subseteq Lost
      BY <2>1, <3>2 DEF Lost
    <3> QED
      BY <1>7, <3>3, LostKeep
  <2> QED
    BY <2>3, <2>4
<1>8. CASE Changed(w, q) /\ Fault
  <2>1. Lost' \subseteq Lost \cup {q}
    BY <1>2, <1>3, <1>8, OnlyHersChanges
  <2> QED
    BY <1>8, <2>1, LostToFault DEF Fault
<1>9. CASE UNCHANGED <<positions, mine, faults>>
  <2>1. KnownBy(w, p) => Known(p)'
    BY <1>2, <1>9 DEF Known, KnownBy, Holds, Busy
  <2>2. \A o \in positions \ {p} : ~KnownBy(w, o)
    BY <1>3 DEF KnownBy, Holds, Hers
  <2>3. Lost' \subseteq Lost
    BY <1>2, <1>9, <2>1, <2>2, OthersKnow DEF Lost
  <2> QED
    BY <1>9, <2>3, LostKeep
<1> QED
  BY <1>1, <1>3, <1>7, <1>8, <1>9 DEF PlaceOrder, q

(* The row names what its worker knew.                                      *)
LEMMA CreateLoses ==
    ASSUME EntryInv, EntryInv', TrackInv, NEW w \in Workers, CreateTrade(w)
    PROVE  TrackInv'
<1>1. pc[w] \in Holding /\ Step(w) /\ faults' = faults
  BY DEF CreateTrade, Holding, Step
<1>2. PICK p \in positions :
          /\ Hers(w) = {p} /\ p \in Positions /\ p.id = mine[w].id /\ ~p.recorded
  BY <1>1, HeldPosition
<1>3. \A v \in Workers \ {w} : ~KnownBy(v, p)
  BY <1>1, <1>2 DEF KnownBy, Holds, EntryInv, Busy
<1>4. PICK q : /\ Changed(w, q) /\ q.resting = p.resting
               /\ q.named = mine[w].named /\ q.recorded
  <2> DEFINE q == [p EXCEPT !.recorded = TRUE, !.named = mine[w].named]
  <2>1. Changed(w, q)
    BY <1>2 DEF CreateTrade
  <2>2. q.resting = p.resting /\ q.named = mine[w].named /\ q.recorded
    BY <1>2 DEF Positions
  <2> QED
    BY <2>1, <2>2
<1>5. Lost' \subseteq (Lost \ {p}) \cup {q}
  BY <1>1, <1>2, <1>4, OnlyHersChanges
<1>6. CASE p \in Lost
  BY <1>1, <1>5, <1>6, LostAnew
<1>7. CASE p \notin Lost
  <2>1. KnownBy(w, p)
    BY <1>2, <1>3, <1>7 DEF Lost, Known
  <2>2. Known(q)'
    BY <1>4, <2>1 DEF Known, KnownBy
  <2>3. Lost' \subseteq Lost
    BY <1>5, <2>2 DEF Lost
  <2> QED
    BY <1>1, <2>3, LostKeep
<1> QED
  BY <1>6, <1>7

LEMMA TrackStep ==
    ASSUME EntryInv, EntryInv', TrackInv, [Next]_vars
    PROVE  TrackInv'
<1>1. ASSUME NEW w \in Workers, Step(w) PROVE TrackInv'
  <2>1. CASE \/ \E s \in Signals : Begin(w, s)
             \/ CheckGlobal(w) \/ CheckProfile(w) \/ CheckDuplicate(w) \/ Fail(w)
    <3>1. UNCHANGED positions
      BY <2>1 DEF Begin, CheckGlobal, CheckProfile, CheckDuplicate, Count, Fail
    <3>2. \/ pc[w] \notin Holding /\ faults' = faults
          \/ faults' = faults + 1
      BY <2>1 DEF Begin, CheckGlobal, CheckProfile, CheckDuplicate, Count, Fail, Fault,
                  Holding
    <3> QED
      BY <1>1, <3>1, <3>2, AttemptLoses
  <2> QED
    BY <1>1, <2>1, OrderLoses, PlaceLoses, CreateLoses DEF Step
<1>2. ASSUME NEW p \in Open, CloseTrade(p) PROVE TrackInv'
  <2>1. Lost' \subseteq Lost /\ faults' = faults
    BY <1>2 DEF CloseTrade, Lost, Known, KnownBy, Holds, Busy
  <2> QED
    BY <2>1, LostKeep
<1>3. CASE MarkGoal \/ NewMonth \/ UNCHANGED vars
  <2>1. UNCHANGED <<positions, pc, mine, faults>>
    BY <1>3 DEF MarkGoal, NewMonth, vars
  <2>2. Lost' \subseteq Lost
    BY <2>1 DEF Lost, Known, KnownBy, Holds, Busy
  <2> QED
    BY <2>1, <2>2, LostKeep
<1> QED
  BY <1>1, <1>2, <1>3 DEF Next

(***************************************************************************)
(* No refusal, no cap and no other worker makes a position or one of its   *)
(* orders unknown to the database: each that is has a fault of its own.    *)
(***************************************************************************)
THEOREM TrackIsKept == Spec => []OnlyFaultsLoseTrack
<1>1. Init => TrackInv
  <2>1. Init => Lost = {} /\ faults = 0
    BY DEF Init, Lost
  <2> QED
    BY <2>1, FS_EmptySet DEF TrackInv
<1>2. EntryInv /\ TrackInv => OnlyFaultsLoseTrack
  <2> SUFFICES ASSUME EntryInv, TrackInv PROVE OnlyFaultsLoseTrack
    OBVIOUS
  <2> DEFINE N == {p \in positions :
                      /\ \A w \in Workers : ~Holds(w, p)
                      /\ p.recorded => ~(p.resting \subseteq p.named)}
  <2>1. N \subseteq Lost
    BY DEF Lost, Known, KnownBy
  <2>2. IsFiniteSet(N) /\ Cardinality(N) <= Cardinality(Lost)
    BY <2>1, LostIsFinite, FS_Subset
  <2>3. Cardinality(N) \in Nat /\ faults \in Nat
    BY <2>2, FS_CardinalityType, EntryAssumption DEF EntryInv, TypeOK
  <2> QED
    BY <2>2, <2>3, LostIsFinite DEF TrackInv, OnlyFaultsLoseTrack
<1> QED
  BY InitEntry, EntryStep, <1>1, TrackStep, <1>2, PTL DEF Spec
=============================================================================
