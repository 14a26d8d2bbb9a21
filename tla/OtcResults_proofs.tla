------------------------- MODULE OtcResults_proofs -------------------------
(***************************************************************************)
(* Theorems about what the results of binaries are taken for.              *)
(*                                                                         *)
(* OtcSettlement, for any number of binaries, kinds, windows of            *)
(* instruments, rows of history, deadlines and faults: whose result an     *)
(* order takes, and that it takes the one that shows.                      *)
(*                                                                         *)
(* OtcSimulation, for any stakes, payoffs, targets and multipliers: the    *)
(* cycles the report groups the legs into, and what it replays them with.  *)
(***************************************************************************)
EXTENDS OtcSettlement, OtcSimulation, FiniteSetTheorems, SequenceTheorems,
        NaturalsInduction, WellFoundedInduction, TLAPS

-----------------------------------------------------------------------------
(* The naturals are well-founded.                                           *)
LEMMA LeastNatural ==
    ASSUME NEW S \in SUBSET Nat, S # {}
    PROVE  \E n \in S : \A m \in S : n <= m
<1>1. PICK n \in S : \A m \in S : <<m, n>> \notin OpToRel(<, Nat)
  BY WFMin, NatLessThanWellFounded, Zenon
<1>2. \A m \in S : ~(m < n)
  BY <1>1, Zenon DEF OpToRel
<1> QED
  BY <1>2

-----------------------------------------------------------------------------
(***************************************************************************)
(* The settlement.                                                         *)
(***************************************************************************)
(* A binary whose asset and amount no other of the account has.             *)
Unique(l) == \A b \in Bets \ {l} : ~SameBet(l, b)

(* Whose result may stand for a leg's.                                      *)
Acceptable(l, b) ==
    b = l \/ (SameBet(l, b) /\ ~(ticket[l].id /\ ticket[l].position # Nothing))

(* What makes the properties inductive: the position and the learned id are *)
(* of the leg's bet, nothing is known before the order, an answer is the    *)
(* result, and only a leg that has one sleeps.                              *)
Sound(l) ==
    /\ ticket[l].position # Nothing =>
         SameBet(l, ticket[l].position) /\ (ticket[l].id => ticket[l].position = l)
    /\ learned[l] # Nothing => SameBet(l, learned[l])
    /\ result[l] # Nothing => Acceptable(l, result[l])
    /\ answer[l] # Nothing => step[l] = "done" /\ answer[l] = result[l]
    /\ step[l] \in {"idle", "placing", "resolving"} =>
         result[l] = Nothing /\ ticket[l].position = Nothing
    /\ step[l] = "history" => l \notin noticed
    /\ step[l] = "sleeping" => result[l] # Nothing
    /\ l \in noticed /\ Unique(l) => result[l] = l

Tickets == [id : BOOLEAN, position : Bets \cup {Nothing}, hard : Nat]

SettlementTypes ==
    /\ tick \in Nat
    /\ nextAt \in [Legs -> NextTimes]
    /\ step \in [Legs -> Steps]
    /\ ticket \in [Legs -> Tickets]
    /\ learned \in [Legs -> Bets \cup {Nothing}]
    /\ result \in [Legs -> Bets \cup {Nothing}]
    /\ answer \in [Legs -> Bets \cup {Nothing}]
    /\ history \in Seq(Bets)

SettlementInv == SettlementTypes /\ \A l \in Legs : Sound(l)

(* A step that leaves a leg alone.                                          *)
LeftAlone(l) ==
    /\ bet' = bet
    /\ step'[l] = step[l] /\ ticket'[l] = ticket[l] /\ learned'[l] = learned[l]
    /\ result'[l] = result[l] /\ answer'[l] = answer[l]
    /\ l \in noticed' => l \in noticed

-----------------------------------------------------------------------------
LEMMA RecentAreBets ==
    ASSUME history \in Seq(Bets)
    PROVE  /\ RecentRows \in Seq(Bets)
           /\ \A i \in DOMAIN RecentRows : RecentRows[i] \in Bets
<1> DEFINE n == IF Len(history) < HistoryLimit THEN Len(history) ELSE HistoryLimit
<1>1. n \in Int /\ \A i \in 1..n : history[i] \in Bets
  BY SettlementAssumption
<1>2. SubSeq(history, 1, n) \in Seq(Bets)
  <2> HIDE DEF n
  <2> QED
    BY <1>1, SubSeqProperties
<1>3. RecentRows \in Seq(Bets)
  BY <1>2 DEF RecentRows
<1> QED
  BY <1>3

(* What a poll of the history finds is acceptable, and the order's own      *)
(* where it is in sight and no other has its bet.                           *)
LEMMA MatchedIsAcceptable ==
    ASSUME SettlementInv, NEW l \in Legs
    PROVE  /\ Matched(l) \in Bets \cup {Nothing}
           /\ Matched(l) # Nothing => Acceptable(l, Matched(l))
           /\ (\E i \in DOMAIN RecentRows : RecentRows[i] = l) /\ Unique(l) => Matched(l) = l
<1> DEFINE position == IF ticket[l].position # Nothing THEN ticket[l].position ELSE learned[l]
           Fits(i) == IF position # Nothing
                      THEN RecentRows[i] = position
                      ELSE (ticket[l].id /\ RecentRows[i] = l) \/ SameBet(l, RecentRows[i])
           fits == {i \in DOMAIN RecentRows : Fits(i)}
           first == CHOOSE i \in fits : \A j \in fits : i <= j
<1>0. Matched(l) = IF fits = {} THEN Nothing ELSE RecentRows[first]
  BY DEF Matched
<1>1. RecentRows \in Seq(Bets) /\ \A i \in DOMAIN RecentRows : RecentRows[i] \in Bets
  BY RecentAreBets DEF SettlementInv, SettlementTypes
<1>2. ASSUME fits # {} PROVE first \in fits
  <2>1. DOMAIN RecentRows = 1..Len(RecentRows) /\ Len(RecentRows) \in Nat
    BY <1>1
  <2>2. fits \in SUBSET Nat
    BY <2>1
  <2>3. \E i \in fits : \A j \in fits : i <= j
    <3> HIDE DEF fits
    <3> QED
      BY <1>2, <2>2, LeastNatural
  <2> HIDE DEF fits
  <2> QED
    BY <2>3
<1>3. Sound(l) /\ position \in Bets \cup {Nothing}
  BY DEF SettlementInv, SettlementTypes, Tickets
<1>4. l \in Bets /\ Nothing \notin Bets
  BY SettlementAssumption DEF Bets
<1>5. ASSUME NEW i \in fits PROVE RecentRows[i] \in Bets /\ Acceptable(l, RecentRows[i])
  <2>1. CASE ticket[l].position # Nothing
    BY <1>1, <1>3, <2>1 DEF Sound, Acceptable
  <2>2. CASE ticket[l].position = Nothing
    BY <1>1, <1>3, <2>2 DEF Sound, Acceptable
  <2> QED
    BY <2>1, <2>2
<1>6. ASSUME NEW i \in DOMAIN RecentRows, RecentRows[i] = l, Unique(l)
      PROVE  fits # {} /\ \A j \in fits : RecentRows[j] = l
  <2>1. \A b \in Bets : SameBet(l, b) => b = l
    BY <1>6 DEF Unique
  <2>2. position # Nothing => position = l
    BY <1>3, <2>1 DEF Sound
  <2>3. i \in fits
    BY <1>6, <2>2 DEF SameBet
  <2>4. ASSUME NEW j \in fits PROVE RecentRows[j] = l
    BY <1>1, <2>1, <2>2, <2>4
  <2> QED
    BY <2>3, <2>4
<1> HIDE DEF fits, first
<1> QED
  BY <1>0, <1>2, <1>4, <1>5, <1>6

-----------------------------------------------------------------------------
LEMMA InitSettlement == SettlementInit => SettlementInv
<1> SUFFICES ASSUME SettlementInit PROVE SettlementInv
  OBVIOUS
<1>1. history \in Seq(Bets)
  <2>1. PICK settled \in SUBSET Others : history \in [1..Cardinality(settled) -> settled]
    BY DEF SettlementInit
  <2>2. Cardinality(settled) \in Nat
    <3>1. IsFiniteSet(settled)
      BY SettlementAssumption, FS_Subset DEF Bets
    <3> QED
      BY <3>1, FS_CardinalityType
  <2>3. history \in [1..Cardinality(settled) -> Bets]
    BY <2>1 DEF Bets
  <2> HIDE DEF Bets
  <2> QED
    BY <2>2, <2>3
<1>2. SettlementTypes
  BY <1>1 DEF SettlementInit, SettlementTypes, NoTicket, Tickets, Steps
<1>3. ASSUME NEW l \in Legs PROVE Sound(l)
  BY DEF SettlementInit, Sound, NoTicket
<1> QED
  BY <1>2, <1>3 DEF SettlementInv

(* A leg that is left alone stays sound.                                    *)
LEMMA LeftAloneStaysSound ==
    ASSUME NEW l \in Legs, Sound(l), LeftAlone(l)
    PROVE  Sound(l)'
BY DEF Sound, LeftAlone, Acceptable, SameBet, Unique

(* The exchange and the clock.                                              *)
LEMMA WorldKeepsInv ==
    ASSUME SettlementInv, Exchange \/ PassTime \/ \E l \in Legs : ForgetSession(l)
    PROVE  SettlementInv'
<1>1. history' \in Seq(Bets)
  <2>1. CASE UNCHANGED history
    BY <2>1 DEF SettlementInv, SettlementTypes
  <2>2. CASE \E b \in Bets : Report(b)
    <3>1. PICK b \in Bets : history' = <<b>> \o history
      BY <2>2 DEF Report
    <3>2. <<b>> \in Seq(Bets) /\ history \in Seq(Bets)
      BY DEF SettlementInv, SettlementTypes
    <3> QED
      BY <3>1, <3>2, ConcatProperties
  <2> QED
    BY <2>1, <2>2 DEF Exchange, PassTime, ForgetSession, exchangeVars, OtherOpens, Accept,
       ListPosition, Decide
<1>2. /\ tick' \in Nat
      /\ UNCHANGED <<bet, nextAt, step, ticket, learned, result, answer, noticed>>
  BY DEF SettlementInv, SettlementTypes, Exchange, PassTime, ForgetSession
<1>3. SettlementTypes'
  BY <1>1, <1>2 DEF SettlementInv, SettlementTypes
<1>4. ASSUME NEW l \in Legs PROVE Sound(l)'
  BY <1>2, LeftAloneStaysSound DEF SettlementInv, LeftAlone
<1> QED
  BY <1>3, <1>4 DEF SettlementInv

-----------------------------------------------------------------------------
(* The steps of a leg, with what a step may change: the leg's own state.    *)
LEMMA MoveKeepsInv ==
    ASSUME SettlementInv, NEW l \in Legs, SettlementMoves(l),
           \A k \in Legs \ {l} : LeftAlone(k),
           UNCHANGED <<nextAt, history>>, tick' = tick,
           step' \in [Legs -> Steps], ticket' \in [Legs -> Tickets],
           learned' \in [Legs -> Bets \cup {Nothing}],
           result' \in [Legs -> Bets \cup {Nothing}],
           answer' \in [Legs -> Bets \cup {Nothing}],
           Sound(l)'
    PROVE  SettlementInv'
<1>1. SettlementTypes'
  BY DEF SettlementInv, SettlementTypes
<1>2. ASSUME NEW k \in Legs PROVE Sound(k)'
  BY LeftAloneStaysSound DEF SettlementInv
<1> QED
  BY <1>1, <1>2 DEF SettlementInv

LEMMA OpeningKeepsInv ==
    ASSUME SettlementInv, NEW l \in Legs,
           Prepare(l) \/ PlaceTrade(l) \/ ResolvePosition(l) \/ Buy(l)
    PROVE  SettlementInv'
<1> USE SettlementAssumption
<1>0. /\ SettlementTypes /\ Sound(l) /\ l \in Bets /\ Nothing \notin Bets
      /\ SettlementMoves(l)
  BY DEF SettlementInv, SettlementMoves, Bets
<1>1. CASE Prepare(l)
  <2>1. PICK s \in {"placing", "refused", "raised"} : step' = [step EXCEPT ![l] = s]
    BY <1>1 DEF Prepare, Goto
  <2>2. /\ step[l] = "idle"
        /\ UNCHANGED <<tick, bet, nextAt, ticket, learned,
                       result, answer, noticed, history>>
    BY <1>1 DEF Prepare, exchangeVars
  <2>3. step' \in [Legs -> Steps] /\ step'[l] = s /\ \A k \in Legs \ {l} : step'[k] = step[k]
    BY <1>0, <2>1 DEF SettlementTypes, Steps
  <2>4. Sound(l)'
    BY <1>0, <2>2, <2>3 DEF Sound, Acceptable, SameBet, Unique
  <2>5. \A k \in Legs \ {l} : LeftAlone(k)
    BY <2>2, <2>3 DEF LeftAlone
  <2> QED
    BY <1>0, <2>2, <2>3, <2>4, <2>5, MoveKeepsInv DEF SettlementTypes
<1>2. CASE PlaceTrade(l)
  <2>1. PICK s \in {"resolving", "refused", "raised"}, id \in BOOLEAN :
             /\ step' = [step EXCEPT ![l] = s]
             /\ ticket' \in {ticket, [ticket EXCEPT ![l].id = id]}
    BY <1>2 DEF PlaceTrade, Goto
  <2>2. /\ step[l] = "placing"
        /\ UNCHANGED <<tick, bet, nextAt, learned,
                       result, answer, noticed, history>>
    BY <1>2 DEF PlaceTrade, exchangeVars, Accept
  <2>3. step' \in [Legs -> Steps] /\ step'[l] = s /\ \A k \in Legs \ {l} : step'[k] = step[k]
    BY <1>0, <2>1 DEF SettlementTypes, Steps
  <2>4. /\ ticket' \in [Legs -> Tickets] /\ ticket'[l].position = ticket[l].position
        /\ \A k \in Legs \ {l} : ticket'[k] = ticket[k]
    <3>1. ticket[l] \in Tickets
      BY <1>0 DEF SettlementTypes
    <3>2. CASE ticket' = ticket
      BY <1>0, <3>2 DEF SettlementTypes
    <3>3. CASE ticket' = [ticket EXCEPT ![l].id = id]
      <4>1. ticket'[l] = [ticket[l] EXCEPT !.id = id]
        BY <1>0, <3>3 DEF SettlementTypes
      <4>2. ticket'[l] \in Tickets /\ ticket'[l].position = ticket[l].position
        BY <3>1, <4>1 DEF Tickets
      <4> QED
        BY <1>0, <3>3, <4>2 DEF SettlementTypes
    <3> QED
      BY <2>1, <3>2, <3>3
  <2>5. Sound(l)'
    BY <1>0, <2>2, <2>3, <2>4 DEF Sound, Acceptable, SameBet, Unique
  <2>6. \A k \in Legs \ {l} : LeftAlone(k)
    BY <2>2, <2>3, <2>4 DEF LeftAlone
  <2> QED
    BY <1>0, <2>2, <2>3, <2>4, <2>5, <2>6, MoveKeepsInv DEF SettlementTypes
<1>3. CASE ResolvePosition(l)
  <2>1. PICK p \in Bets \cup {Nothing}, s \in {"positions", "raised"} :
             /\ step' = [step EXCEPT ![l] = s]
             /\ p # Nothing => SameBet(l, p) /\ (ticket[l].id => p = l)
             /\ \/ ticket' = ticket
                \/ ticket' = [ticket EXCEPT ![l].hard = tick + Duration + Extra]
                \/ ticket' = [ticket EXCEPT ![l].position = p,
                                            ![l].hard = tick + Duration + Extra]
    <3>1. CASE Goto(l, "raised") /\ UNCHANGED ticket
      BY <3>1 DEF Goto
    <3>2. CASE /\ ticket' = [ticket EXCEPT ![l].hard = tick + Duration + Extra]
               /\ Goto(l, "positions")
      BY <3>2 DEF Goto
    <3>3. CASE \E p \in IF PositionsOf(l) = {} THEN {Nothing} ELSE PositionsOf(l) :
                 /\ ticket' = [ticket EXCEPT ![l].position = p,
                                             ![l].hard = tick + Duration + Extra]
                 /\ Goto(l, "positions")
      BY <3>3 DEF Goto, PositionsOf
    <3> QED
      BY <1>3, <3>1, <3>2, <3>3 DEF ResolvePosition
  <2>2. /\ step[l] = "resolving"
        /\ UNCHANGED <<tick, bet, nextAt, learned,
                       result, answer, noticed, history>>
    BY <1>3 DEF ResolvePosition, exchangeVars
  <2>3. step' \in [Legs -> Steps] /\ step'[l] = s /\ \A k \in Legs \ {l} : step'[k] = step[k]
    BY <1>0, <2>1 DEF SettlementTypes, Steps
  <2>4. /\ ticket' \in [Legs -> Tickets]
        /\ ticket'[l].id = ticket[l].id /\ ticket'[l].position \in {p, ticket[l].position}
        /\ \A k \in Legs \ {l} : ticket'[k] = ticket[k]
    <3>1. tick + Duration + Extra \in Nat
      BY <1>0 DEF SettlementTypes
    <3>2. ticket[l] \in Tickets
      BY <1>0 DEF SettlementTypes
    <3>3. CASE ticket' = ticket
      BY <1>0, <3>3 DEF SettlementTypes
    <3>4. CASE ticket' = [ticket EXCEPT ![l].hard = tick + Duration + Extra]
      <4>1. ticket'[l] = [ticket[l] EXCEPT !.hard = tick + Duration + Extra]
        BY <1>0, <3>4 DEF SettlementTypes
      <4>2. ticket'[l] \in Tickets /\ ticket'[l].id = ticket[l].id
            /\ ticket'[l].position = ticket[l].position
        BY <2>1, <3>1, <3>2, <4>1 DEF Tickets
      <4> QED
        BY <1>0, <3>4, <4>2 DEF SettlementTypes
    <3>5. CASE ticket' = [ticket EXCEPT ![l].position = p, ![l].hard = tick + Duration + Extra]
      <4>1. ticket'[l] = [ticket[l] EXCEPT !.position = p, !.hard = tick + Duration + Extra]
        BY <1>0, <3>5 DEF SettlementTypes
      <4>2. ticket'[l] \in Tickets /\ ticket'[l].id = ticket[l].id
            /\ ticket'[l].position = p
        BY <2>1, <3>1, <3>2, <4>1 DEF Tickets
      <4> QED
        BY <1>0, <3>5, <4>2 DEF SettlementTypes
    <3> QED
      BY <2>1, <3>3, <3>4, <3>5
  <2>5. Sound(l)'
    BY <1>0, <2>1, <2>2, <2>3, <2>4 DEF Sound, Acceptable, SameBet, Unique
  <2>6. \A k \in Legs \ {l} : LeftAlone(k)
    BY <2>2, <2>3, <2>4 DEF LeftAlone
  <2> QED
    BY <1>0, <2>2, <2>3, <2>4, <2>5, <2>6, MoveKeepsInv DEF SettlementTypes
<1>4. CASE Buy(l)
  <2>1. PICK s \in {"positions", "refused", "raised"} :
             /\ step' = [step EXCEPT ![l] = s]
             /\ \/ ticket' = ticket
                \/ ticket' = [ticket EXCEPT ![l] = [id |-> TRUE, position |-> Nothing,
                                                   hard |-> tick + Duration + Extra]]
    BY <1>4 DEF Buy, Goto
  <2>2. /\ step[l] = "idle"
        /\ UNCHANGED <<tick, bet, nextAt, learned,
                       result, answer, noticed, history>>
    BY <1>4 DEF Buy, exchangeVars, Accept
  <2>3. step' \in [Legs -> Steps] /\ step'[l] = s /\ \A k \in Legs \ {l} : step'[k] = step[k]
    BY <1>0, <2>1 DEF SettlementTypes, Steps
  <2>4. /\ ticket' \in [Legs -> Tickets]
        /\ ticket'[l].position \in {Nothing, ticket[l].position}
        /\ \A k \in Legs \ {l} : ticket'[k] = ticket[k]
    <3>1. tick + Duration + Extra \in Nat
      BY <1>0 DEF SettlementTypes
    <3>2. ticket[l] \in Tickets
      BY <1>0 DEF SettlementTypes
    <3>3. CASE ticket' = ticket
      BY <1>0, <3>3 DEF SettlementTypes
    <3>4. CASE ticket' = [ticket EXCEPT ![l] = [id |-> TRUE, position |-> Nothing,
                                               hard |-> tick + Duration + Extra]]
      <4>1. ticket'[l] = [id |-> TRUE, position |-> Nothing, hard |-> tick + Duration + Extra]
        BY <1>0, <3>4 DEF SettlementTypes
      <4>2. ticket'[l] \in Tickets /\ ticket'[l].position = Nothing
        BY <2>1, <3>1, <3>2, <4>1 DEF Tickets
      <4> QED
        BY <1>0, <3>4, <4>2 DEF SettlementTypes
    <3> QED
      BY <2>1, <3>3, <3>4
  <2>5. Sound(l)'
    BY <1>0, <2>2, <2>3, <2>4 DEF Sound, Acceptable, SameBet, Unique
  <2>6. \A k \in Legs \ {l} : LeftAlone(k)
    BY <2>2, <2>3, <2>4 DEF LeftAlone
  <2> QED
    BY <1>0, <2>2, <2>3, <2>4, <2>5, <2>6, MoveKeepsInv DEF SettlementTypes
<1> QED
  BY <1>1, <1>2, <1>3, <1>4

LEMMA PollKeepsInv ==
    ASSUME SettlementInv, NEW l \in Legs, PollPositions(l) \/ PollHistory(l) \/ PollLegacy(l)
    PROVE  SettlementInv'
<1> USE SettlementAssumption
<1>0. /\ SettlementTypes /\ Sound(l) /\ l \in Bets /\ Nothing \notin Bets
      /\ SettlementMoves(l)
  BY DEF SettlementInv, SettlementMoves, Bets
<1>1. CASE PollPositions(l)
  <2>1. PICK s \in {"clock", "history", "raised"}, b \in Bets :
             /\ step' = [step EXCEPT ![l] = s]
             /\ learned' = learned \/ (SameBet(l, b) /\ learned' = [learned EXCEPT ![l] = b])
    <3>1. CASE \E b \in Bets : /\ SameBet(l, b) /\ learned' = [learned EXCEPT ![l] = b]
                              /\ Goto(l, "clock")
      BY <3>1 DEF Goto
    <3>2. CASE learned' = learned /\ \E s \in {"clock", "history", "raised"} : Goto(l, s)
      BY <1>0, <3>2 DEF Goto
    <3> QED
      BY <1>1, <3>1, <3>2 DEF PollPositions
  <2>2. /\ step[l] = "positions" /\ noticed' = noticed \ {l}
        /\ UNCHANGED <<tick, bet, nextAt, ticket, result, answer, history>>
    BY <1>1 DEF PollPositions, exchangeVars
  <2>3. step' \in [Legs -> Steps] /\ step'[l] = s /\ \A k \in Legs \ {l} : step'[k] = step[k]
    BY <1>0, <2>1 DEF SettlementTypes, Steps
  <2>4. /\ learned' \in [Legs -> Bets \cup {Nothing}]
        /\ learned'[l] = learned[l] \/ (SameBet(l, b) /\ learned'[l] = b)
        /\ \A k \in Legs \ {l} : learned'[k] = learned[k]
    BY <1>0, <2>1 DEF SettlementTypes
  <2>5. Sound(l)'
    BY <1>0, <2>2, <2>3, <2>4 DEF Sound, Acceptable, SameBet, Unique
  <2>6. \A k \in Legs \ {l} : LeftAlone(k)
    BY <2>2, <2>3, <2>4 DEF LeftAlone
  <2> QED
    BY <1>0, <2>2, <2>3, <2>4, <2>5, <2>6, MoveKeepsInv DEF SettlementTypes
<1>2. CASE PollHistory(l)
  <2>1. PICK s \in {"clock", "raised"} : step' = [step EXCEPT ![l] = s]
    BY <1>2 DEF PollHistory, Goto
  <2>2. /\ step[l] = "history"
        /\ UNCHANGED <<tick, bet, nextAt, ticket, learned, answer, history>>
    BY <1>2 DEF PollHistory, exchangeVars
  <2>3. step' \in [Legs -> Steps] /\ step'[l] = s /\ \A k \in Legs \ {l} : step'[k] = step[k]
    BY <1>0, <2>1 DEF SettlementTypes, Steps
  <2>4. \/ result' = result /\ noticed' = noticed
        \/ /\ result' = [result EXCEPT ![l] = Matched(l)]
           /\ noticed' = IF \E i \in DOMAIN RecentRows : RecentRows[i] = l
                         THEN noticed \cup {l} ELSE noticed
    BY <1>2 DEF PollHistory
  <2>5. /\ Matched(l) \in Bets \cup {Nothing}
        /\ Matched(l) # Nothing => Acceptable(l, Matched(l))
        /\ (\E i \in DOMAIN RecentRows : RecentRows[i] = l) /\ Unique(l) => Matched(l) = l
    BY MatchedIsAcceptable
  <2>6. /\ result' \in [Legs -> Bets \cup {Nothing}]
        /\ result'[l] \in {result[l], Matched(l)}
        /\ \A k \in Legs \ {l} : result'[k] = result[k] /\ (k \in noticed' => k \in noticed)
        /\ l \in noticed' /\ Unique(l) => result'[l] = l
    BY <1>0, <2>2, <2>4, <2>5 DEF SettlementTypes, Sound
  <2>7. Sound(l)'
    BY <1>0, <2>2, <2>3, <2>5, <2>6 DEF Sound, Acceptable, SameBet, Unique
  <2>8. \A k \in Legs \ {l} : LeftAlone(k)
    BY <2>2, <2>3, <2>6 DEF LeftAlone
  <2> QED
    BY <1>0, <2>2, <2>3, <2>6, <2>7, <2>8, MoveKeepsInv DEF SettlementTypes
<1>3. CASE PollLegacy(l)
  <2>1. step' = [step EXCEPT ![l] = "clock"]
    BY <1>3 DEF PollLegacy, Goto
  <2>2. /\ step[l] = "positions"
        /\ UNCHANGED <<tick, bet, nextAt, ticket, learned, answer, history>>
    BY <1>3 DEF PollLegacy, exchangeVars
  <2>3. /\ step' \in [Legs -> Steps] /\ step'[l] = "clock"
        /\ \A k \in Legs \ {l} : step'[k] = step[k]
    BY <1>0, <2>1 DEF SettlementTypes, Steps
  <2>4. \/ result' = result /\ noticed' = noticed
        \/ result' = [result EXCEPT ![l] = l] /\ noticed' = noticed \cup {l}
    BY <1>3 DEF PollLegacy
  <2>5. /\ result' \in [Legs -> Bets \cup {Nothing}]
        /\ (result'[l] = result[l] /\ noticed' = noticed) \/ result'[l] = l
        /\ \A k \in Legs \ {l} : result'[k] = result[k] /\ (k \in noticed' => k \in noticed)
    BY <1>0, <2>4 DEF SettlementTypes
  <2>6. Sound(l)'
    BY <1>0, <2>2, <2>3, <2>5 DEF Sound, Acceptable, SameBet, Unique
  <2>7. \A k \in Legs \ {l} : LeftAlone(k)
    BY <2>2, <2>3, <2>5 DEF LeftAlone
  <2> QED
    BY <1>0, <2>2, <2>3, <2>5, <2>6, <2>7, MoveKeepsInv DEF SettlementTypes
<1> QED
  BY <1>1, <1>2, <1>3

LEMMA WaitKeepsInv ==
    ASSUME SettlementInv, NEW l \in Legs, LookAtClock(l) \/ WakeForNext(l)
    PROVE  SettlementInv'
<1>0. SettlementTypes /\ Sound(l) /\ SettlementMoves(l)
  BY DEF SettlementInv, SettlementMoves
<1>1. UNCHANGED <<tick, bet, nextAt, ticket, learned, result, noticed, history>>
  BY DEF LookAtClock, WakeForNext, exchangeVars
<1>2. PICK s \in {"sleeping", "done", "positions"} :
           /\ step' = [step EXCEPT ![l] = s]
           /\ s = "sleeping" => result[l] # Nothing
           /\ \/ answer' = answer
              \/ s = "done" /\ answer' = [answer EXCEPT ![l] = result[l]]
  BY DEF LookAtClock, WakeForNext, Goto
<1>3. step' \in [Legs -> Steps] /\ step'[l] = s /\ \A k \in Legs \ {l} : step'[k] = step[k]
  BY <1>0, <1>2 DEF SettlementTypes, Steps
<1>4. /\ answer' \in [Legs -> Bets \cup {Nothing}]
      /\ answer'[l] = answer[l] \/ (s = "done" /\ answer'[l] = result[l])
      /\ \A k \in Legs \ {l} : answer'[k] = answer[k]
  BY <1>0, <1>2 DEF SettlementTypes
<1>5. step[l] # "done"
  BY DEF LookAtClock, WakeForNext
<1>6. Sound(l)'
  BY <1>0, <1>1, <1>2, <1>3, <1>4, <1>5 DEF Sound, Acceptable, SameBet, Unique
<1>7. \A k \in Legs \ {l} : LeftAlone(k)
  BY <1>1, <1>3, <1>4 DEF LeftAlone
<1> QED
  BY <1>0, <1>1, <1>3, <1>4, <1>6, <1>7, MoveKeepsInv DEF SettlementTypes

LEMMA NextKeepsInv == SettlementInv /\ [SettlementNext]_settlementVars => SettlementInv'
<1> SUFFICES ASSUME SettlementInv, [SettlementNext]_settlementVars PROVE SettlementInv'
  OBVIOUS
<1>1. CASE \E l \in Legs : SettlementMoves(l)
  BY <1>1, OpeningKeepsInv, PollKeepsInv, WaitKeepsInv DEF SettlementMoves
<1>2. CASE Exchange \/ PassTime \/ \E l \in Legs : ForgetSession(l)
  BY <1>2, WorldKeepsInv
<1>3. CASE UNCHANGED settlementVars
  <2>1. UNCHANGED <<tick, bet, nextAt, step, ticket, learned, result, answer, noticed, history>>
    BY <1>3 DEF settlementVars
  <2>2. ASSUME NEW l \in Legs PROVE Sound(l)'
    BY <2>1, LeftAloneStaysSound DEF SettlementInv, LeftAlone
  <2>3. SettlementTypes'
    BY <2>1 DEF SettlementInv, SettlementTypes
  <2> QED
    BY <2>2, <2>3 DEF SettlementInv
<1> QED
  BY <1>1, <1>2, <1>3 DEF SettlementNext, SettlementQuiet

LEMMA SettlementInvariant == SettlementSpec => []SettlementInv
BY InitSettlement, NextKeepsInv, PTL DEF SettlementSpec

-----------------------------------------------------------------------------
(* A result belongs to its order, unless the order was not identified at    *)
(* its opening and one of the same asset and amount stood in for it         *)
(* (_poll_settlement_mcp_once of broker.py).                                *)
THEOREM ResultsAreOwn == SettlementSpec => []OwnResult
<1>1. SettlementInv => OwnResult
  BY DEF SettlementInv, Sound, OwnResult, Acceptable
<1> QED
  BY <1>1, SettlementInvariant, PTL

(* An order whose bet is like no other takes its own result from the first  *)
(* poll whose rows hold it, whatever failed before.                         *)
THEOREM VisibleResultsAreTaken == SettlementSpec => []VisibleResultIsTaken
<1>1. SettlementInv /\ noticed \subseteq Legs => VisibleResultIsTaken
  BY DEF SettlementInv, Sound, VisibleResultIsTaken, Unique
<1>2. SettlementInit => noticed \subseteq Legs
  BY DEF SettlementInit
<1>3. noticed \subseteq Legs /\ [SettlementNext]_settlementVars => (noticed \subseteq Legs)'
  <2> SUFFICES ASSUME noticed \subseteq Legs, [SettlementNext]_settlementVars
               PROVE  noticed' \subseteq Legs
    OBVIOUS
  <2>1. CASE \E l \in Legs : PollPositions(l) \/ PollHistory(l) \/ PollLegacy(l)
    BY <2>1 DEF PollPositions, PollHistory, PollLegacy
  <2>2. CASE noticed' = noticed
    BY <2>2
  <2> QED
    BY <2>1, <2>2 DEF SettlementNext, SettlementMoves, Prepare, PlaceTrade, ResolvePosition,
       Buy, LookAtClock, WakeForNext, ForgetSession, Exchange, PassTime, SettlementQuiet,
       settlementVars
<1> QED
  BY <1>1, <1>2, <1>3, SettlementInvariant, PTL DEF SettlementSpec

-----------------------------------------------------------------------------
(***************************************************************************)
(* Rounding.                                                               *)
(***************************************************************************)
LEMMA Division ==
    ASSUME NEW n \in Int, NEW d \in Nat \ {0}
    PROVE  /\ n \div d \in Int /\ n % d \in Int
           /\ n = (n \div d) * d + (n % d)
           /\ 0 <= n % d /\ n % d < d
<1>1. n = d * (n \div d) + (n % d)
  OBVIOUS
<1> QED
  BY <1>1

(* Off by half at most.                                                     *)
Nearest(r, n, d) == 2 * (r * d - n) <= d /\ 2 * (n - r * d) <= d

(* A rounded quotient is off by half at most.                              *)
LEMMA RoundsToNearest ==
    ASSUME NEW n \in Int, NEW d \in Nat \ {0}
    PROVE  RoundHalfEven(n, d) \in Int /\ Nearest(RoundHalfEven(n, d), n, d)
<1> DEFINE q == n \div d
           r == n % d
<1>1. q \in Int /\ r \in Int /\ n = q * d + r /\ 0 <= r /\ r < d
  BY Division
<1>2. RoundHalfEven(n, d) = IF 2 * r > d \/ (2 * r = d /\ q % 2 = 1) THEN q + 1 ELSE q
  BY DEF RoundHalfEven
<1> HIDE DEF q, r
<1>3. (q + 1) * d = q * d + d
  BY <1>1
<1>4. q * d \in Int
  BY <1>1
<1>5. CASE 2 * r > d \/ (2 * r = d /\ q % 2 = 1)
  <2>1. 2 * r >= d /\ RoundHalfEven(n, d) = q + 1
    BY <1>1, <1>2, <1>5
  <2> QED
    BY <2>1, <1>1, <1>3, <1>4 DEF Nearest
<1>6. CASE ~(2 * r > d \/ (2 * r = d /\ q % 2 = 1))
  <2>1. 2 * r <= d /\ RoundHalfEven(n, d) = q
    BY <1>1, <1>2, <1>6
  <2> QED
    BY <2>1, <1>1, <1>4 DEF Nearest
<1> QED
  BY <1>5, <1>6

(* Two numbers that are less than d apart when multiplied by it are one.    *)
LEMMA CloseMultiples ==
    ASSUME NEW a \in Int, NEW b \in Int, NEW d \in Nat \ {0},
           a * d - b * d < d, b * d - a * d < d
    PROVE  a = b
<1>1. a * d - b * d = (a - b) * d /\ b * d - a * d = (b - a) * d
  OBVIOUS
<1>2. \A k \in Int : k >= 1 => k * d >= d
  OBVIOUS
<1>3. ~(a - b >= 1)
  BY <1>1, <1>2
<1>4. ~(b - a >= 1)
  BY <1>1, <1>2
<1> QED
  BY <1>3, <1>4

(* So is a payoff in cents.                                                *)
LEMMA PayoffIsNearest ==
    ASSUME NEW stake \in Int, NEW payoff \in Int
    PROVE  /\ PayoffOf(stake, payoff) \in Int
           /\ Nearest(PayoffOf(stake, payoff), stake * payoff, 10000)
<1>1. stake * payoff \in Int /\ 10000 \in Nat \ {0}
  OBVIOUS
<1> QED
  BY <1>1, RoundsToNearest DEF PayoffOf

(* A payoff that is a whole number of ten thousandths is read off its win   *)
(* as exactly as the win needs: rounded again, it gives the same win,       *)
(* whatever the stake.                                                      *)
LEMMA PayoffIsRecovered ==
    ASSUME NEW stake \in Nat \ {0}, NEW payoff \in Nat,
           NEW win, win = PayoffOf(stake, payoff)
    PROVE  PayoffOf(stake, RoundHalfEven(win * 10000, stake)) = win
<1>1. PICK seen : seen = RoundHalfEven(win * 10000, stake)
  OBVIOUS
<1>2. win \in Int /\ Nearest(win, stake * payoff, 10000)
  BY PayoffIsNearest
<1>3. win * 10000 \in Int
  BY <1>2
<1>4. seen \in Int /\ Nearest(seen, win * 10000, stake)
  BY <1>1, <1>3, RoundsToNearest
<1>5. PICK again : again = PayoffOf(stake, seen)
  OBVIOUS
<1>6. again \in Int /\ Nearest(again, stake * seen, 10000)
  BY <1>4, <1>5, PayoffIsNearest
<1>7. /\ seen * stake \in Int /\ payoff * stake \in Int
      /\ payoff * stake = stake * payoff /\ stake * seen = seen * stake
  BY <1>4
<1>8. CASE stake < 10000
  <2>1. PICK product \in Int : product = seen * stake
    BY <1>7
  <2>2. 2 * (product - win * 10000) <= stake /\ 2 * (win * 10000 - product) <= stake
    <3>1. 2 * (seen * stake - win * 10000) <= stake /\ 2 * (win * 10000 - seen * stake) <= stake
      BY <1>4 DEF Nearest
    <3> QED
      BY <2>1, <3>1
  <2>3. 2 * (again * 10000 - product) <= 10000 /\ 2 * (product - again * 10000) <= 10000
    BY <1>6, <1>7, <2>1 DEF Nearest
  <2>4. again \in Int /\ win \in Int
    BY <1>2, <1>6
  <2>5. 20000 * (again - win) < 20000 /\ 20000 * (win - again) < 20000
    BY <2>1, <2>2, <2>3, <2>4, <1>8
  <2>6. again = win
    BY <2>4, <2>5
  <2> QED
    BY <2>6, <1>1, <1>5
<1>9. CASE stake = 10000
  <2>1. win = payoff
    <3>1. Nearest(win, 10000 * payoff, 10000)
      BY <1>2, <1>9
    <3> QED
      BY <3>1, <1>2 DEF Nearest
  <2>2. seen = payoff
    BY <2>1, <1>4, <1>9 DEF Nearest
  <2> QED
    BY <2>2, <1>1
<1>10. CASE stake > 10000
  <2>1. seen * stake - payoff * stake < stake /\ payoff * stake - seen * stake < stake
    BY <1>2, <1>4, <1>7, <1>10 DEF Nearest
  <2>2. seen = payoff
    BY <2>1, <1>4, CloseMultiples
  <2> QED
    BY <2>2, <1>1
<1> QED
  BY <1>8, <1>9, <1>10

(* A win that is worth a cent shows a payoff.                               *)
LEMMA PayoffIsPositive ==
    ASSUME NEW stake \in Nat \ {0}, NEW payoff \in Nat,
           NEW win, win = PayoffOf(stake, payoff), win > 0
    PROVE  RoundHalfEven(win * 10000, stake) \in Nat \ {0}
<1>1. PICK seen : seen = RoundHalfEven(win * 10000, stake)
  OBVIOUS
<1>2. win \in Int /\ Nearest(win, stake * payoff, 10000)
  BY PayoffIsNearest
<1>3. win * 10000 \in Int
  BY <1>2
<1>4. seen \in Int /\ Nearest(seen, win * 10000, stake)
  BY <1>1, <1>3, RoundsToNearest
<1>5. stake * payoff \in Int /\ seen * stake \in Int
  BY <1>4
<1>6. seen >= 1
  <2> SUFFICES ASSUME seen <= 0 PROVE FALSE
    BY <1>4
  <2>1. seen * stake <= 0
    BY <1>4
  <2>2. 20000 * win <= stake
    BY <2>1, <1>2, <1>4, <1>5 DEF Nearest
  <2>3. payoff >= 1
    <3> SUFFICES ASSUME payoff = 0 PROVE FALSE
      OBVIOUS
    <3>1. stake * payoff = 0
      OBVIOUS
    <3> QED
      BY <3>1, <1>2 DEF Nearest
  <2>4. stake * payoff >= stake
    BY <2>3
  <2> QED
    BY <2>2, <2>4, <1>2, <1>5 DEF Nearest
<1> QED
  BY <1>1, <1>4, <1>6

(* A win never pays less than nothing.                                      *)
LEMMA PayoffIsNatural ==
    ASSUME NEW stake \in Nat, NEW payoff \in Nat
    PROVE  PayoffOf(stake, payoff) \in Nat
<1>1. PICK win : win = PayoffOf(stake, payoff)
  OBVIOUS
<1>2. win \in Int /\ Nearest(win, stake * payoff, 10000)
  BY <1>1, PayoffIsNearest
<1>3. stake * payoff \in Nat
  OBVIOUS
<1>4. win \in Nat
  BY <1>2, <1>3 DEF Nearest
<1> QED
  BY <1>1, <1>4

(* A recovery stake is a stake, and wins back what it is for.               *)
LEMMA RecoveryWins ==
    ASSUME NEW lost \in Nat, NEW target \in Nat, NEW payoff \in Nat \ {0},
           NEW stake, stake = RecoveryStake(lost, target, payoff)
    PROVE  /\ stake \in Nat
           /\ PayoffOf(stake, payoff) >= lost + target
<1>1. PICK n : n = (lost + target) * 10000 + payoff - 1
  OBVIOUS
<1>2. n \in Int /\ n \in Nat
  BY <1>1
<1>3. stake = n \div payoff
  BY <1>1 DEF RecoveryStake, RoundUp
<1>4. /\ stake \in Int /\ n % payoff \in Int
      /\ n = stake * payoff + (n % payoff) /\ n % payoff < payoff
  BY <1>2, <1>3, Division
<1>5. stake * payoff \in Int
  BY <1>4
<1>6. stake * payoff >= (lost + target) * 10000
  BY <1>1, <1>4, <1>5
<1>7. stake >= 0
  <2> SUFFICES ASSUME stake <= -1 PROVE FALSE
    BY <1>4
  <2>1. stake * payoff <= -payoff
    BY <1>4
  <2> QED
    BY <2>1, <1>5, <1>6
<1>8. PICK win : win = PayoffOf(stake, payoff)
  OBVIOUS
<1>9. win \in Int /\ Nearest(win, stake * payoff, 10000)
  BY <1>4, <1>8, PayoffIsNearest
<1>10. win >= lost + target
  BY <1>5, <1>6, <1>9 DEF Nearest
<1> QED
  BY <1>4, <1>7, <1>8, <1>10

-----------------------------------------------------------------------------
(***************************************************************************)
(* The grouping of legs into cycles.                                       *)
(***************************************************************************)
(* The recursion of FoundIn.                                                *)
LEMMA FoundByIndex ==
    ASSUME NEW legs, Len(legs) \in Nat
    PROVE  \A n \in 0..Len(legs) :
             FoundIn(legs)[n] = IF n = 0 THEN [cycles |-> <<>>, current |-> <<>>]
                                ELSE TakeLeg(FoundIn(legs)[n - 1], legs[n])
<1> DEFINE size == Len(legs)
           Value(sofar, n) == IF n = 0 THEN [cycles |-> <<>>, current |-> <<>>]
                              ELSE TakeLeg(sofar[n - 1], legs[n])
           UpTo(n, sofar) == sofar = [k \in 0..n |-> Value(sofar, k)]
           Undefined == {n \in Nat : \A sofar : ~UpTo(n, sofar)}
<1>1. Undefined = {}
  <2> SUFFICES ASSUME Undefined # {} PROVE FALSE
    OBVIOUS
  <2>1. Undefined \in SUBSET Nat
    OBVIOUS
  <2> HIDE DEF Undefined
  <2>2. PICK n \in Undefined : \A m \in Undefined : n <= m
    BY <2>1, LeastNatural
  <2>3. n \in Nat
    BY <2>1
  <2>4. CASE n = 0
    <3> DEFINE first == [k \in 0..0 |-> [cycles |-> <<>>, current |-> <<>>]]
    <3>1. UpTo(0, first)
      <4>1. \A k \in 0..0 : k = 0
        OBVIOUS
      <4>2. [k \in 0..0 |-> Value(first, k)] = first
        BY <4>1
      <4> QED
        BY <4>2
    <3>2. \A sofar : ~UpTo(0, sofar)
      BY <2>2, <2>4 DEF Undefined
    <3> HIDE DEF UpTo
    <3> QED
      BY <3>1, <3>2
  <2>5. CASE n > 0
    <3>1. n - 1 \in Nat /\ n - 1 \notin Undefined
      BY <2>2, <2>3, <2>5
    <3>2. PICK before : UpTo(n - 1, before)
      BY <3>1 DEF Undefined
    <3> DEFINE sofar == [k \in 0..n |-> Value(before, k)]
    <3>3. \A k \in 0..(n - 1) : before[k] = Value(before, k)
      <4> HIDE DEF Value
      <4> QED
        BY <3>2
    <3>4. \A k \in 0..(n - 1) : sofar[k] = before[k]
      <4>1. \A k \in 0..(n - 1) : k \in 0..n
        BY <2>3
      <4> HIDE DEF Value
      <4> QED
        BY <3>3, <4>1
    <3>5. \A k \in 0..n : Value(sofar, k) = Value(before, k)
      <4> SUFFICES ASSUME NEW k \in 0..n PROVE Value(sofar, k) = Value(before, k)
        OBVIOUS
      <4>1. CASE k = 0
        BY <4>1 DEF Value
      <4>2. CASE k # 0
        <5>1. k - 1 \in 0..(n - 1)
          BY <2>3, <4>2
        <5>2. sofar[k - 1] = before[k - 1]
          BY <3>4, <5>1
        <5> HIDE DEF sofar
        <5> QED
          BY <5>2, Zenon DEF Value
      <4> QED
        BY <4>1, <4>2
    <3>6. UpTo(n, sofar)
      <4>1. [k \in 0..n |-> Value(sofar, k)] = [k \in 0..n |-> Value(before, k)]
        <5> HIDE DEF Value, sofar
        <5> QED
          BY <3>5
      <4> QED
        BY <4>1
    <3>7. ~UpTo(n, sofar)
      BY <2>2 DEF Undefined
    <3> QED
      BY <3>6, <3>7
  <2> QED
    BY <2>3, <2>4, <2>5
<1>3. \E sofar : UpTo(size, sofar)
  <2> HIDE DEF UpTo
  <2> QED
    BY <1>1
<1>4. FoundIn(legs) = CHOOSE sofar : UpTo(size, sofar)
  BY DEF FoundIn
<1>5. UpTo(size, FoundIn(legs))
  <2> HIDE DEF UpTo
  <2> QED
    BY <1>3, <1>4
<1>6. \A n \in 0..size : FoundIn(legs)[n] = Value(FoundIn(legs), n)
  <2> HIDE DEF Value
  <2> QED
    BY <1>5
<1> QED
  BY <1>6

(* The recursion of PartialSums.                                            *)
LEMMA SumsByIndex ==
    ASSUME NEW amounts, Len(amounts) \in Nat
    PROVE  \A n \in 0..Len(amounts) :
             PartialSums(amounts)[n] = IF n = 0 THEN 0
                                       ELSE PartialSums(amounts)[n - 1] + amounts[n]
<1> DEFINE size == Len(amounts)
           Value(sofar, n) == IF n = 0 THEN 0 ELSE sofar[n - 1] + amounts[n]
           UpTo(n, sofar) == sofar = [k \in 0..n |-> Value(sofar, k)]
           Undefined == {n \in Nat : \A sofar : ~UpTo(n, sofar)}
<1>1. Undefined = {}
  <2> SUFFICES ASSUME Undefined # {} PROVE FALSE
    OBVIOUS
  <2>1. Undefined \in SUBSET Nat
    OBVIOUS
  <2> HIDE DEF Undefined
  <2>2. PICK n \in Undefined : \A m \in Undefined : n <= m
    BY <2>1, LeastNatural
  <2>3. n \in Nat
    BY <2>1
  <2>4. CASE n = 0
    <3> DEFINE first == [k \in 0..0 |-> 0]
    <3>1. UpTo(0, first)
      <4>1. \A k \in 0..0 : k = 0
        OBVIOUS
      <4>2. [k \in 0..0 |-> Value(first, k)] = first
        BY <4>1
      <4> QED
        BY <4>2
    <3>2. \A sofar : ~UpTo(0, sofar)
      BY <2>2, <2>4 DEF Undefined
    <3> HIDE DEF UpTo
    <3> QED
      BY <3>1, <3>2
  <2>5. CASE n > 0
    <3>1. n - 1 \in Nat /\ n - 1 \notin Undefined
      BY <2>2, <2>3, <2>5
    <3>2. PICK before : UpTo(n - 1, before)
      BY <3>1 DEF Undefined
    <3> DEFINE sofar == [k \in 0..n |-> Value(before, k)]
    <3>3. \A k \in 0..(n - 1) : before[k] = Value(before, k)
      <4> HIDE DEF Value
      <4> QED
        BY <3>2
    <3>4. \A k \in 0..(n - 1) : sofar[k] = before[k]
      <4>1. \A k \in 0..(n - 1) : k \in 0..n
        BY <2>3
      <4> HIDE DEF Value
      <4> QED
        BY <3>3, <4>1
    <3>5. \A k \in 0..n : Value(sofar, k) = Value(before, k)
      <4> SUFFICES ASSUME NEW k \in 0..n PROVE Value(sofar, k) = Value(before, k)
        OBVIOUS
      <4>1. CASE k = 0
        BY <4>1 DEF Value
      <4>2. CASE k # 0
        <5>1. k - 1 \in 0..(n - 1)
          BY <2>3, <4>2
        <5>2. sofar[k - 1] = before[k - 1]
          BY <3>4, <5>1
        <5> HIDE DEF sofar
        <5> QED
          BY <5>2, Zenon DEF Value
      <4> QED
        BY <4>1, <4>2
    <3>6. UpTo(n, sofar)
      <4>1. [k \in 0..n |-> Value(sofar, k)] = [k \in 0..n |-> Value(before, k)]
        <5> HIDE DEF Value, sofar
        <5> QED
          BY <3>5
      <4> QED
        BY <4>1
    <3>7. ~UpTo(n, sofar)
      BY <2>2 DEF Undefined
    <3> QED
      BY <3>6, <3>7
  <2> QED
    BY <2>3, <2>4, <2>5
<1>3. \E sofar : UpTo(size, sofar)
  <2> HIDE DEF UpTo
  <2> QED
    BY <1>1
<1>4. PartialSums(amounts) = CHOOSE sofar : UpTo(size, sofar)
  BY DEF PartialSums
<1>5. UpTo(size, PartialSums(amounts))
  <2> HIDE DEF UpTo
  <2> QED
    BY <1>3, <1>4
<1>6. \A n \in 0..size : PartialSums(amounts)[n] = Value(PartialSums(amounts), n)
  <2> HIDE DEF Value
  <2> QED
    BY <1>5
<1> QED
  BY <1>6

(* A ladder from its entry on, lost at every rung but the last.            *)
Rungs(ladder) ==
    /\ Len(ladder) \in 1..3
    /\ \A i \in 1..Len(ladder) :
         ladder[i].level = i - 1 /\ ladder[i].pnl \in Int /\ (i < Len(ladder) => ladder[i].pnl < 0)

(* A ladder is built leg by leg.                                           *)
LEMMA ShortSequences ==
    ASSUME NEW S, NEW s \in Seq(S)
    PROVE  /\ Len(s) = 1 => s = <<s[1]>>
           /\ Len(s) = 2 => s = Append(<<s[1]>>, s[2])
           /\ Len(s) = 3 => s = Append(Append(<<s[1]>>, s[2]), s[3])
<1>1. CASE Len(s) = 1
  <2>1. s[1] \in S
    BY <1>1
  <2> QED
    BY <1>1, <2>1
<1>2. CASE Len(s) = 2
  <2>1. s[1] \in S /\ s[2] \in S
    BY <1>2, ElementOfSeq
  <2>2. Append(<<s[1]>>, s[2]) \in Seq(S) /\ Len(Append(<<s[1]>>, s[2])) = 2
    BY <2>1
  <2> QED
    BY <1>2, <2>1, <2>2, SeqEqual
<1>3. CASE Len(s) = 3
  <2>1. s[1] \in S /\ s[2] \in S /\ s[3] \in S
    BY <1>3
  <2>2. /\ Append(Append(<<s[1]>>, s[2]), s[3]) \in Seq(S)
        /\ Len(Append(Append(<<s[1]>>, s[2]), s[3])) = 3
    BY <2>1
  <2> QED
    BY <1>3, <2>1, <2>2, SeqEqual
<1> QED
  BY <1>1, <1>2, <1>3

(* So are the two cycles of a report.                                      *)
LEMMA TwoOfThem ==
    ASSUME NEW one, NEW two
    PROVE  Append(Append(<<>>, one), two) = <<one, two>>
<1> DEFINE S == {one, two}
           s == <<one, two>>
<1>1. s \in Seq(S) /\ Len(s) = 2 /\ s[1] = one /\ s[2] = two
  OBVIOUS
<1>2. s = Append(<<s[1]>>, s[2])
  BY <1>1, ShortSequences, Zenon
<1>3. Append(<<>>, one) = <<one>>
  OBVIOUS
<1> QED
  BY <1>1, <1>2, <1>3, Zenon

(* A ladder has one to three rungs.                                        *)
LEMMA RungsAreFew ==
    ASSUME NEW ladder, Rungs(ladder)
    PROVE  /\ Len(ladder) \in Nat /\ Len(ladder) >= 1 /\ Len(ladder) <= 3
           /\ Len(ladder) = 1 \/ Len(ladder) = 2 \/ Len(ladder) = 3
BY DEF Rungs

(* An entry files what was unfinished and opens a cycle.                   *)
LEMMA EntryTaken ==
    ASSUME NEW found, NEW leg, leg.level = 0
    PROVE  TakeLeg(found, leg) =
             IF Closes(leg) THEN [cycles |-> Append(Filed(found), <<leg>>), current |-> <<>>]
             ELSE [cycles |-> Filed(found), current |-> <<leg>>]
<1>1. ~(leg.level > 0)
  OBVIOUS
<1> QED
  BY <1>1, Zenon DEF TakeLeg

(* A protection goes to the cycle that is open.                            *)
LEMMA ProtectionTaken ==
    ASSUME NEW found, found.current # <<>>, NEW leg, leg.level \in {1, 2}
    PROVE  TakeLeg(found, leg) =
             IF Closes(leg)
             THEN [cycles |-> Append(found.cycles, Append(found.current, leg)), current |-> <<>>]
             ELSE [cycles |-> found.cycles, current |-> Append(found.current, leg)]
<1>1. leg.level # 0
  OBVIOUS
<1> QED
  BY <1>1, Zenon DEF TakeLeg

(* A cycle is filed once, closed or not.                                   *)
LEMMA FiledAfterClosing ==
    ASSUME NEW cycles, NEW cycle, cycle # <<>>
    PROVE  /\ Filed([cycles |-> cycles, current |-> <<>>]) = cycles
           /\ Filed([cycles |-> cycles, current |-> cycle]) = Append(cycles, cycle)
BY Zenon DEF Filed

(* What the loop holds after a whole ladder: the ladder as a cycle, or as   *)
(* the current one.                                                         *)
LEMMA LadderTaken ==
    ASSUME NEW S, NEW legs \in Seq(S), NEW ladder \in Seq(S), Rungs(ladder),
           NEW before \in Nat, before + Len(ladder) <= Len(legs),
           \A i \in 1..Len(ladder) : legs[before + i] = ladder[i]
    PROVE  Filed(FoundIn(legs)[before + Len(ladder)]) =
             Append(Filed(FoundIn(legs)[before]), ladder)
<1> DEFINE found(i) == FoundIn(legs)[before + i]
           closed == Filed(FoundIn(legs)[before])
           Half(cycle) == [cycles |-> closed, current |-> cycle]
           Full(cycle) == [cycles |-> Append(closed, cycle), current |-> <<>>]
<1>1. /\ Len(legs) \in Nat /\ Len(ladder) \in Nat /\ Len(ladder) >= 1 /\ Len(ladder) <= 3
      /\ Len(ladder) = 1 \/ Len(ladder) = 2 \/ Len(ladder) = 3
  BY RungsAreFew, LenProperties, Zenon
<1>2. \A i \in 1..Len(ladder) : found(i) = TakeLeg(found(i - 1), ladder[i])
  <2> SUFFICES ASSUME NEW i \in 1..Len(ladder)
               PROVE  found(i) = TakeLeg(found(i - 1), ladder[i])
    BY Zenon
  <2>1. /\ before + i \in 0..Len(legs) /\ before + i # 0 /\ legs[before + i] = ladder[i]
        /\ before + i - 1 = before + (i - 1)
    BY <1>1
  <2>2. FoundIn(legs)[before + i] = TakeLeg(FoundIn(legs)[before + i - 1], legs[before + i])
    BY <1>1, <2>1, FoundByIndex
  <2> QED
    BY <2>1, <2>2, Zenon
<1>3. \A i \in 1..Len(ladder) :
        ladder[i].level = i - 1 /\ ladder[i].pnl \in Int /\ (i < Len(ladder) => ladder[i].pnl < 0)
  BY DEF Rungs
<1>4. found(0) = FoundIn(legs)[before]
  BY DEF found
<1> HIDE DEF found
<1>5. found(1) = IF Closes(ladder[1]) THEN Full(<<ladder[1]>>) ELSE Half(<<ladder[1]>>)
  <2>1. 1 \in 1..Len(ladder) /\ 1 - 1 = 0
    BY <1>1
  <2>2. found(1) = TakeLeg(found(0), ladder[1])
    BY <1>2, <2>1
  <2>3. ladder[1].level = 0
    BY <1>3, <2>1
  <2> QED
    BY <1>4, <2>2, <2>3, EntryTaken, Zenon
<1> HIDE DEF closed
<1>6. \A cycle : cycle # <<>> => /\ Filed(Half(cycle)) = Append(closed, cycle)
                                 /\ Filed(Full(cycle)) = Append(closed, cycle)
  BY FiledAfterClosing, Zenon
<1>7. ladder # <<>>
  BY <1>1
<1>9. \A cycle, leg : cycle # <<>> /\ leg.level \in {1, 2} =>
        TakeLeg(Half(cycle), leg) =
          IF Closes(leg) THEN Full(Append(cycle, leg)) ELSE Half(Append(cycle, leg))
  <2> SUFFICES ASSUME NEW cycle, NEW leg, cycle # <<>>, leg.level \in {1, 2}
               PROVE  TakeLeg(Half(cycle), leg) =
                        IF Closes(leg) THEN Full(Append(cycle, leg)) ELSE Half(Append(cycle, leg))
    BY Zenon
  <2>1. Half(cycle).cycles = closed /\ Half(cycle).current = cycle
    BY Zenon
  <2>2. PICK half : half = Half(cycle)
    OBVIOUS
  <2>3. half.cycles = closed /\ half.current = cycle
    BY <2>1, <2>2, Zenon
  <2>4. TakeLeg(half, leg) =
          IF Closes(leg)
          THEN [cycles |-> Append(half.cycles, Append(half.current, leg)), current |-> <<>>]
          ELSE [cycles |-> half.cycles, current |-> Append(half.current, leg)]
    <3>1. half.current # <<>>
      BY <2>3, Zenon
    <3> QED
      BY <3>1, ProtectionTaken
  <2>5. TakeLeg(half, leg) =
          IF Closes(leg)
          THEN [cycles |-> Append(closed, Append(cycle, leg)), current |-> <<>>]
          ELSE [cycles |-> closed, current |-> Append(cycle, leg)]
    BY <2>3, <2>4, Zenon
  <2> QED
    BY <2>2, <2>5, Zenon
<1> HIDE DEF Half, Full
<1>8. found(Len(ladder)) \in {Half(ladder), Full(ladder)}
  <2>1. CASE Len(ladder) = 1
    <3>1. ladder = <<ladder[1]>>
      BY <2>1, ShortSequences
    <3> QED
      BY <1>5, <2>1, <3>1, Zenon
  <2>2. CASE Len(ladder) > 1
    <3>1. 1 \in 1..Len(ladder) /\ 2 \in 1..Len(ladder) /\ 2 - 1 = 1
      BY <1>1, <2>2
    <3>2. ~Closes(ladder[1])
      BY <1>1, <1>3, <2>2, <3>1 DEF Closes
    <3>3. found(1) = Half(<<ladder[1]>>)
      BY <1>5, <3>2, Zenon
    <3>4. found(2) = TakeLeg(found(1), ladder[2]) /\ ladder[2].level \in {1, 2}
      BY <1>2, <1>3, <3>1
    <3>5. PICK two : two = Append(<<ladder[1]>>, ladder[2])
      OBVIOUS
    <3>6. <<ladder[1]>> # <<>>
      OBVIOUS
    <3>7. found(2) = IF Closes(ladder[2]) THEN Full(two) ELSE Half(two)
      BY <1>9, <3>3, <3>4, <3>5, <3>6, Zenon
    <3>8. CASE Len(ladder) = 2
      <4>1. ladder = two
        BY <3>5, <3>8, ShortSequences, Zenon
      <4> QED
        BY <3>7, <3>8, <4>1, Zenon
    <3>9. CASE Len(ladder) = 3
      <4>1. 3 \in 1..Len(ladder) /\ 3 - 1 = 2
        BY <3>9
      <4>2. ~Closes(ladder[2])
        BY <1>3, <3>1, <3>9 DEF Closes
      <4>3. found(2) = Half(two)
        BY <3>7, <4>2, Zenon
      <4>4. found(3) = TakeLeg(found(2), ladder[3]) /\ ladder[3].level \in {1, 2}
        BY <1>2, <1>3, <4>1
      <4>5. PICK three : three = Append(two, ladder[3])
        OBVIOUS
      <4>6. two # <<>>
        <5>1. Append(<<ladder[1]>>, ladder[2]) # <<>>
          BY ONLY <3>1, <1>1, AppendProperties
        <5> QED
          BY <3>5, <5>1, Zenon
      <4>7. found(3) = IF Closes(ladder[3]) THEN Full(three) ELSE Half(three)
        BY <1>9, <4>3, <4>4, <4>5, <4>6, Zenon
      <4>8. ladder = three
        BY <3>5, <3>9, <4>5, ShortSequences, Zenon
      <4> QED
        BY <3>9, <4>7, <4>8, Zenon
    <3> QED
      BY <1>1, <2>2, <3>8, <3>9
  <2>3. Len(ladder) = 1 \/ Len(ladder) > 1
    <3>1. \A n \in Nat : n >= 1 => n = 1 \/ n > 1
      OBVIOUS
    <3> QED
      BY <1>1, <3>1, Zenon
  <2> QED
    BY <2>1, <2>2, <2>3, Zenon
<1> QED
  BY <1>6, <1>7, <1>8, Zenon DEF found, closed

(* Two ladders, one after the other, are two cycles.                        *)
LEMMA LaddersAreFound ==
    ASSUME NEW S, NEW one \in Seq(S), NEW two \in Seq(S), Rungs(one), Rungs(two)
    PROVE  GroupCycles(one \o two) = <<one, two>>
<1>1. PICK legs : legs = one \o two
  OBVIOUS
<1>2. /\ legs \in Seq(S) /\ Len(legs) = Len(one) + Len(two)
      /\ \A i \in 1..Len(one) + Len(two) :
           legs[i] = IF i <= Len(one) THEN one[i] ELSE two[i - Len(one)]
  BY <1>1, ConcatProperties
<1>3. Len(one) \in Nat \ {0} /\ Len(two) \in Nat \ {0} /\ Len(legs) \in Nat
  BY <1>2, RungsAreFew
<1>4. \A i \in 1..Len(one) : legs[0 + i] = one[i]
  BY <1>2, <1>3
<1>5. \A i \in 1..Len(two) : legs[Len(one) + i] = two[i]
  <2> SUFFICES ASSUME NEW i \in 1..Len(two) PROVE legs[Len(one) + i] = two[i]
    OBVIOUS
  <2>1. PICK k : k = Len(one) + i
    OBVIOUS
  <2>2. k \in 1..Len(one) + Len(two) /\ ~(k <= Len(one)) /\ k - Len(one) = i
    BY <1>3, <2>1
  <2> QED
    BY <1>2, <2>1, <2>2
<1>6. Filed(FoundIn(legs)[0]) = <<>>
  <2>1. FoundIn(legs)[0] = [cycles |-> <<>>, current |-> <<>>]
    BY <1>3, FoundByIndex
  <2> QED
    BY <2>1 DEF Filed
<1>7. Filed(FoundIn(legs)[Len(one)]) = Append(<<>>, one)
  <2>1. 0 \in Nat /\ 0 + Len(one) <= Len(legs) /\ 0 + Len(one) = Len(one)
    BY <1>2, <1>3
  <2>2. Filed(FoundIn(legs)[0 + Len(one)]) = Append(Filed(FoundIn(legs)[0]), one)
    BY <1>2, <1>4, <2>1, LadderTaken, Zenon
  <2> QED
    BY <1>6, <2>1, <2>2, Zenon
<1>8. Filed(FoundIn(legs)[Len(legs)]) = Append(Append(<<>>, one), two)
  <2>1. Len(one) \in Nat /\ Len(one) + Len(two) <= Len(legs)
    BY <1>2, <1>3
  <2>2. Filed(FoundIn(legs)[Len(one) + Len(two)]) = Append(Filed(FoundIn(legs)[Len(one)]), two)
    BY <1>2, <1>5, <2>1, LadderTaken, Zenon
  <2> QED
    BY <1>2, <1>7, <2>2, Zenon
<1> QED
  BY <1>1, <1>8, TwoOfThem, Zenon DEF GroupCycles

(* What a ladder stakes at a level.                                        *)
StakeAt(base, multiplier, level) == StakeForLevel(base, Gale(multiplier), level)

(* The legs a ladder leaves: none loses more than its stake, a win pays, an *)
(* entry is for the base stake.                                             *)
FairRows(base, payoff) ==
    {leg \in [ladder : Int, level : Nat, stake : Nat \ {0}, pnl : Int] :
        /\ leg.pnl >= -leg.stake
        /\ leg.pnl > 0 => leg.pnl = PayoffOf(leg.stake, payoff)
        /\ leg.level = 0 => leg.stake = base}

(* Those the report can meet.                                               *)
FairLegs(base, payoff) == {leg \in FairRows(base, payoff) : leg.level \in 0..2}

(* What the legs of one ladder are.                                         *)
Played(legs, start, base, multiplier, payoff) ==
    /\ legs \in Seq(FairRows(base, payoff))
    /\ Len(legs) \in Nat \ {0} /\ start \in Nat
    /\ \A i \in 1..Len(legs) :
         /\ legs[i].level = start + i - 1
         /\ legs[i].stake = StakeAt(base, multiplier, legs[i].level)
         /\ i < Len(legs) => legs[i].pnl = -legs[i].stake
         /\ legs[i].pnl \in {PayoffOf(legs[i].stake, payoff), 0, -legs[i].stake}

(* It is a stake at every level, and the base stake at the entry.          *)
LEMMA StakesAreNatural ==
    ASSUME NEW base \in BaseStakes, NEW multiplier \in Multipliers, NEW level \in Nat
    PROVE  /\ StakeAt(base, multiplier, level) \in Nat \ {0}
           /\ level = 0 => StakeAt(base, multiplier, level) = base
<1>1. StakeForLevel(base, Gale(multiplier), 0) = base
  BY DEF StakeForLevel
<1>2. CASE level = 0
  BY <1>1, <1>2, SimulationAssumption DEF StakeAt
<1>3. CASE level \in 1..MaxProtections
  BY <1>3, SimulationAssumption DEF StakeAt
<1>4. CASE level > MaxProtections
  <2>1. Least(level, MaxProtections) = MaxProtections
        /\ Least(MaxProtections, MaxProtections) = MaxProtections /\ ~(level <= 0)
    BY <1>4 DEF Least, MaxProtections
  <2>2. Gale(multiplier).max = MaxProtections
    BY DEF Gale
  <2>3. StakeForLevel(base, Gale(multiplier), level)
          = StakeForLevel(base, Gale(multiplier), MaxProtections)
    <3>1. ~(MaxProtections <= 0)
      BY DEF MaxProtections
    <3> QED
      BY <2>1, <2>2, <3>1, Zenon DEF StakeForLevel
  <2>4. MaxProtections \in 1..MaxProtections
    BY DEF MaxProtections
  <2> QED
    BY <1>4, <2>3, <2>4, SimulationAssumption DEF StakeAt, MaxProtections
<1> QED
  BY <1>2, <1>3, <1>4 DEF MaxProtections

(* A ladder has results, all losses but the last.                          *)
LEMMA LaddersHaveResults ==
    ASSUME NEW ladder \in Ladders
    PROVE  /\ ladder.start \in Nat
           /\ \E n \in Nat \ {0} :
                /\ ladder.results \in [1..n -> Results]
                /\ DOMAIN ladder.results = 1..n /\ Len(ladder.results) = n
                /\ \A i \in 1..(n - 1) : ladder.results[i] = "loss"
<1>1. /\ ladder.start \in 0..MaxPlayed
      /\ ladder.results \in UNION {[1..n -> Results] : n \in 1..(MaxPlayed + 1)}
      /\ \A i \in 1..(Len(ladder.results) - 1) : ladder.results[i] = "loss"
  BY DEF Ladders
<1>2. PICK n \in Nat \ {0} : ladder.results \in [1..n -> Results]
  BY <1>1, SimulationAssumption
<1>3. DOMAIN ladder.results = 1..n /\ n \in Nat
  BY <1>2
<1>4. Len(ladder.results) = n
  <2>1. ladder.results \in Seq(Results)
    BY <1>2, <1>3, SeqDef
  <2> QED
    BY <1>3, <2>1, LenProperties
<1>5. ladder.start \in Nat
  BY <1>1, SimulationAssumption
<1>6. \A i \in 1..(n - 1) : ladder.results[i] = "loss"
  BY <1>1, <1>4
<1> QED
  BY <1>2, <1>3, <1>4, <1>5, <1>6, Zenon

(* The rows that a ladder leaves are fair, and climb from its start.       *)
LEMMA LadderLegs ==
    ASSUME NEW base \in BaseStakes, NEW multiplier \in Multipliers, NEW payoff \in Payoffs,
           NEW ladder \in Ladders, NEW number \in Int
    PROVE  /\ Played(LegsOf(number, ladder, base, multiplier, payoff), ladder.start,
                     base, multiplier, payoff)
           /\ Len(LegsOf(number, ladder, base, multiplier, payoff)) = Len(ladder.results)
<1>1. PICK n \in Nat \ {0} : /\ ladder.results \in [1..n -> Results]
                             /\ DOMAIN ladder.results = 1..n /\ Len(ladder.results) = n
                             /\ \A i \in 1..(n - 1) : ladder.results[i] = "loss"
  BY LaddersHaveResults
<1>2. ladder.start \in Nat /\ payoff \in Nat
  BY LaddersHaveResults, SimulationAssumption
<1> DEFINE level(i) == ladder.start + i - 1
           stake(i) == StakeAt(base, multiplier, level(i))
           legOf(i) == [ladder |-> number, level |-> level(i), stake |-> stake(i),
                        pnl |-> PnlOf(ladder.results[i], stake(i), payoff)]
<1>3. PICK legs : legs = LegsOf(number, ladder, base, multiplier, payoff)
  OBVIOUS
<1>4. legs = [i \in 1..n |-> legOf(i)]
  BY <1>1, <1>3 DEF LegsOf, StakeAt
<1>5. \A i \in 1..n : level(i) \in Nat
  BY <1>1, <1>2
<1> HIDE DEF level
<1>6. \A i \in 1..n : /\ stake(i) \in Nat \ {0}
                      /\ level(i) = 0 => stake(i) = base
  BY <1>5, StakesAreNatural
<1>7. \A i \in 1..n : /\ PayoffOf(stake(i), payoff) \in Nat
                      /\ -stake(i) \in Int /\ -stake(i) < 0
  <2> SUFFICES ASSUME NEW i \in 1..n
               PROVE  /\ PayoffOf(stake(i), payoff) \in Nat
                      /\ -stake(i) \in Int /\ -stake(i) < 0
    OBVIOUS
  <2>1. PICK s : s = stake(i)
    OBVIOUS
  <2>2. s \in Nat \ {0}
    BY <1>6, <2>1
  <2> HIDE DEF stake
  <2>3. PayoffOf(s, payoff) \in Nat /\ -s \in Int /\ -s < 0
    <3>1. s \in Nat /\ -s \in Int /\ -s < 0
      BY <2>2
    <3>2. PayoffOf(s, payoff) \in Nat
      BY <1>2, <3>1, PayoffIsNatural, Zenon
    <3> QED
      BY <3>1, <3>2
  <2> QED
    BY <2>1, <2>3
<1> HIDE DEF stake
<1>8. \A i \in 1..n : ladder.results[i] \in Results
  BY <1>1
<1>9. \A i \in 1..n : legOf(i).pnl \in {PayoffOf(stake(i), payoff), 0, -stake(i)}
  BY <1>8 DEF PnlOf, Results
<1>10. \A i \in 1..n : i < n => legOf(i).pnl = -stake(i)
  <2> SUFFICES ASSUME NEW i \in 1..n, i < n PROVE legOf(i).pnl = -stake(i)
    OBVIOUS
  <2>1. i \in 1..(n - 1)
    OBVIOUS
  <2>2. ladder.results[i] = "loss"
    BY <1>1, <2>1
  <2> QED
    BY <2>2 DEF PnlOf
<1>11. \A i \in 1..n : legOf(i) \in FairRows(base, payoff)
  <2> SUFFICES ASSUME NEW i \in 1..n PROVE legOf(i) \in FairRows(base, payoff)
    OBVIOUS
  <2>1. PICK leg : leg = legOf(i)
    OBVIOUS
  <2>2. /\ leg = [ladder |-> number, level |-> level(i), stake |-> stake(i), pnl |-> leg.pnl]
        /\ leg.level = level(i) /\ leg.stake = stake(i)
    BY <2>1
  <2>3. leg.pnl \in {PayoffOf(stake(i), payoff), 0, -stake(i)}
    BY <1>9, <2>1
  <2> HIDE DEF legOf
  <2>4. /\ leg.pnl \in Int /\ leg.pnl >= -stake(i)
        /\ leg.pnl > 0 => leg.pnl = PayoffOf(stake(i), payoff)
    BY <1>6, <1>7, <2>3
  <2>5. leg \in FairRows(base, payoff)
    BY <1>5, <1>6, <2>2, <2>4 DEF FairRows
  <2> QED
    BY <2>1, <2>5
<1>15. \A i \in 1..n : legOf(i).level = level(i) /\ legOf(i).stake = stake(i)
  OBVIOUS
<1> HIDE DEF legOf
<1>12. legs \in [1..n -> FairRows(base, payoff)]
  BY <1>4, <1>11
<1>13. legs \in Seq(FairRows(base, payoff)) /\ Len(legs) = n
  <2>1. n \in Nat
    OBVIOUS
  <2>2. legs \in Seq(FairRows(base, payoff))
    BY <1>12, <2>1, SeqDef
  <2>3. DOMAIN legs = 1..n
    BY <1>12
  <2> QED
    BY <2>1, <2>2, <2>3, LenProperties
<1>14. \A i \in 1..n : legs[i] = legOf(i)
  BY <1>4
<1>18. \A i \in 1..n : legs[i].level = level(i) /\ legs[i].stake = stake(i)
  BY <1>14, <1>15
<1>16. \A i \in 1..n : /\ legs[i].level = ladder.start + i - 1
                       /\ legs[i].stake = StakeAt(base, multiplier, legs[i].level)
                       /\ i < n => legs[i].pnl = -legs[i].stake
                       /\ legs[i].pnl \in {PayoffOf(legs[i].stake, payoff), 0, -legs[i].stake}
  BY <1>9, <1>10, <1>14, <1>18, Zenon DEF level, stake
<1>17. Played(legs, ladder.start, base, multiplier, payoff)
  BY <1>2, <1>13, <1>16, Zenon DEF Played
<1> QED
  BY <1>1, <1>3, <1>13, <1>17, Zenon

(* Of legs that climb level by level the report lists the first ones.       *)
LEMMA ListedFirst ==
    ASSUME NEW S, NEW legs \in Seq(S), NEW first \in Nat,
           \A i \in 1..Len(legs) : legs[i].level = first + i - 1
    PROVE  \E k \in 0..Len(legs) :
             /\ \A i \in 1..Len(legs) : i <= k <=> first + i - 1 <= 2
             /\ Listed(legs) \in Seq({leg \in S : leg.level <= 2})
             /\ Len(Listed(legs)) = k /\ \A i \in 1..k : Listed(legs)[i] = legs[i]
<1>1. PICK n : n = Len(legs)
  OBVIOUS
<1>2. /\ n \in Nat /\ DOMAIN legs = 1..n
      /\ \A i \in 1..n : legs[i] \in S /\ legs[i].level = first + i - 1
  BY <1>1, LenProperties, ElementOfSeq
<1>3. PICK k : k = IF first + n <= 3 THEN n ELSE IF first <= 3 THEN 3 - first ELSE 0
  OBVIOUS
<1>4. k \in 0..n /\ k \in Nat /\ \A i \in 1..n : i <= k <=> first + i - 1 <= 2
  BY <1>2, <1>3
<1>5. {i \in DOMAIN legs : legs[i].level <= MaxProtections} = 1..k
  <2>1. \A i \in 1..n : legs[i].level <= MaxProtections <=> i <= k
    <3> SUFFICES ASSUME NEW i \in 1..n PROVE legs[i].level <= MaxProtections <=> i <= k
      OBVIOUS
    <3>1. legs[i].level = first + i - 1
      BY <1>2
    <3>2. i <= k <=> first + i - 1 <= 2
      BY <1>4
    <3> QED
      BY <3>1, <3>2 DEF MaxProtections
  <2>2. {i \in 1..n : legs[i].level <= MaxProtections} = {i \in 1..n : i <= k}
    BY <2>1, Zenon
  <2>3. {i \in 1..n : i <= k} = 1..k
    BY <1>2, <1>4
  <2> QED
    BY <1>2, <2>2, <2>3, Zenon
<1>6. Listed(legs) = [i \in 1..k |-> legs[i]]
  BY <1>5, Zenon DEF Listed, Restrict
<1>7. PICK few : few = {leg \in S : leg.level <= 2}
  OBVIOUS
<1>8. \A i \in 1..k : legs[i] \in few
  <2> SUFFICES ASSUME NEW i \in 1..k PROVE legs[i] \in few
    OBVIOUS
  <2>1. i \in 1..n /\ first + i - 1 <= 2
    BY <1>2, <1>4
  <2>2. legs[i] \in S /\ legs[i].level <= 2
    BY <1>2, <2>1
  <2> QED
    BY <1>7, <2>2, Zenon
<1>9. Listed(legs) \in [1..k -> few]
  BY <1>6, <1>8
<1>10. Listed(legs) \in Seq(few)
  BY <1>4, <1>9, SeqDef
<1>11. Len(Listed(legs)) = k
  <2>1. DOMAIN Listed(legs) = 1..k
    BY <1>9
  <2> QED
    BY <1>4, <1>10, <2>1, LenProperties
<1>12. \A i \in 1..k : Listed(legs)[i] = legs[i]
  BY <1>6
<1> QED
  BY <1>1, <1>4, <1>7, <1>10, <1>11, <1>12, Zenon

(* So it does of a part of a ladder.                                       *)
LEMMA ListedIsFair ==
    ASSUME NEW base, NEW payoff, NEW legs \in Seq(FairRows(base, payoff)), NEW first \in Nat,
           \A i \in 1..Len(legs) : legs[i].level = first + i - 1
    PROVE  Listed(legs) \in Seq(FairLegs(base, payoff))
<1>1. Listed(legs) \in Seq({leg \in FairRows(base, payoff) : leg.level <= 2})
  BY ListedFirst
<1>2. {leg \in FairRows(base, payoff) : leg.level <= 2} = FairLegs(base, payoff)
  <2>1. \A leg \in FairRows(base, payoff) : leg.level <= 2 <=> leg.level \in 0..2
    <3>1. \A leg \in FairRows(base, payoff) : leg.level \in Nat
      BY DEF FairRows
    <3> QED
      BY <3>1
  <2> QED
    BY <2>1, Zenon DEF FairLegs
<1> QED
  BY <1>1, <1>2

(* What a report that is not empty is about.                                *)
Reported(base, multiplier, payoff, target, one, two, first, second) ==
    /\ base \in BaseStakes /\ multiplier \in Multipliers
    /\ payoff \in Payoffs /\ target \in Targets
    /\ Played(one, first, base, multiplier, payoff)
    /\ Played(two, second, base, multiplier, payoff)
    /\ book.legs \in Seq(FairLegs(base, payoff))
    /\ book.played = <<one, two>>
    /\ book.apart => book.legs = Listed(one) \o Listed(two)
    /\ book.target = target /\ book.multiplier = multiplier

(* A report that is not empty is about two ladders.                        *)
LEMMA ReportOfLadders ==
    ASSUME SimulationInit, book # EmptyBook
    PROVE  \E base, multiplier, payoff, target, one, two, first, second :
             Reported(base, multiplier, payoff, target, one, two, first, second)
<1>1. book \in Books
  BY DEF SimulationInit
<1>2. PICK first \in Ladders :
        book \in {BookOf(first, second, cut, base, payoff, target, multiplier) :
                    second \in Ladders, cut \in 1..Len(first.results), base \in BaseStakes,
                    payoff \in Payoffs, target \in Targets, multiplier \in Multipliers}
  BY <1>1 DEF Books
<1>3. PICK second \in Ladders, cut \in 1..Len(first.results), base \in BaseStakes,
           payoff \in Payoffs, target \in Targets, multiplier \in Multipliers :
        book = BookOf(first, second, cut, base, payoff, target, multiplier)
  BY <1>2
<1>4. PICK one, two : /\ one = LegsOf(1, first, base, multiplier, payoff)
                      /\ two = LegsOf(2, second, base, multiplier, payoff)
  OBVIOUS
<1>5. /\ Played(one, first.start, base, multiplier, payoff)
      /\ Played(two, second.start, base, multiplier, payoff)
      /\ Len(one) = Len(first.results)
  <2>1. 1 \in Int /\ 2 \in Int
    OBVIOUS
  <2> QED
    BY <1>4, <2>1, LadderLegs, Zenon
<1>6. PICK S, T : S = FairRows(base, payoff) /\ T = FairLegs(base, payoff)
  OBVIOUS
<1>7. /\ one \in Seq(S) /\ two \in Seq(S) /\ Len(one) \in Nat /\ cut \in 1..Len(one)
      /\ first.start \in Nat /\ second.start \in Nat
      /\ \A i \in 1..Len(one) : one[i].level = first.start + i - 1
      /\ \A i \in 1..Len(two) : two[i].level = second.start + i - 1
  <2>1. /\ one \in Seq(S) /\ two \in Seq(S) /\ Len(one) \in Nat
        /\ first.start \in Nat /\ second.start \in Nat
        /\ \A i \in 1..Len(one) : one[i].level = first.start + i - 1
        /\ \A i \in 1..Len(two) : two[i].level = second.start + i - 1
    BY <1>5, <1>6 DEF Played
  <2>2. cut \in 1..Len(one)
    BY <1>5
  <2> QED
    BY <2>1, <2>2
<1>8. PICK head, tail : head = SubSeq(one, 1, cut) /\ tail = SubSeq(one, cut + 1, Len(one))
  OBVIOUS
<1>9. Listed(head) \in Seq(T)
  <2>1. \A i \in 1..cut : one[i] \in S
    BY <1>7, ElementOfSeq
  <2>2. head \in Seq(S) /\ Len(head) = cut /\ \A i \in 1..cut : head[i] = one[1 + i - 1]
    <3>1. 1 \in Int /\ cut \in Int /\ 1 <= cut /\ cut - 1 + 1 = cut
      BY <1>7
    <3> QED
      BY <1>8, <2>1, <3>1, SubSeqProperties
  <2>3. \A i \in 1..Len(head) : head[i].level = first.start + i - 1
    <3>1. \A i \in 1..cut : 1 + i - 1 = i /\ i \in 1..Len(one)
      BY <1>7
    <3> QED
      BY <1>7, <2>2, <3>1
  <2> QED
    BY <1>6, <1>7, <2>2, <2>3, ListedIsFair, Zenon
<1>10. Listed(tail) \in Seq(T)
  <2>1. \A i \in (cut + 1)..Len(one) : one[i] \in S
    BY <1>7, ElementOfSeq
  <2>2. PICK size : size = Len(one) - cut
    OBVIOUS
  <2>3. /\ size \in Nat /\ Len(one) - (cut + 1) + 1 = size /\ (cut + 1 <= Len(one) <=> size > 0)
        /\ cut + 1 \in Int /\ Len(one) \in Int
    BY <1>7, <2>2
  <2>4. /\ tail \in Seq(S) /\ Len(tail) = size
        /\ \A i \in 1..size : tail[i] = one[cut + 1 + i - 1]
    <3>1. /\ tail \in Seq(S)
          /\ Len(tail) = IF cut + 1 <= Len(one) THEN Len(one) - (cut + 1) + 1 ELSE 0
          /\ \A i \in 1..(Len(one) - (cut + 1) + 1) : tail[i] = one[cut + 1 + i - 1]
      BY <1>8, <2>1, <2>3, SubSeqProperties
    <3> QED
      BY <2>3, <3>1
  <2>5. \A i \in 1..Len(tail) : tail[i].level = (first.start + cut) + i - 1
    <3> SUFFICES ASSUME NEW i \in 1..size PROVE tail[i].level = (first.start + cut) + i - 1
      BY <2>4
    <3>1. PICK k, n, c, f : k = cut + 1 + i - 1 /\ n = Len(one) /\ c = cut /\ f = first.start
      OBVIOUS
    <3>2. n \in Nat /\ c \in 1..n /\ f \in Nat /\ i \in 1..(n - c) /\ k = c + 1 + i - 1
      BY <1>7, <2>2, <3>1
    <3>3. k \in 1..n /\ f + k - 1 = (f + c) + i - 1
      BY <3>2
    <3>4. one[k].level = f + k - 1 /\ tail[i] = one[k]
      BY <1>7, <2>4, <3>1, <3>3
    <3> QED
      BY <3>1, <3>3, <3>4
  <2>6. first.start + cut \in Nat
    BY <1>7
  <2> QED
    BY <1>6, <2>4, <2>5, <2>6, ListedIsFair, Zenon
<1>11. Listed(one) \in Seq(T) /\ Listed(two) \in Seq(T)
  BY <1>6, <1>7, ListedIsFair, Zenon
<1>12. Listed(head) \o Listed(two) \o Listed(tail) \in Seq(T)
  BY <1>9, <1>10, <1>11, ConcatProperties
<1>13. cut = Len(one) =>
         Listed(head) \o Listed(two) \o Listed(tail) = Listed(one) \o Listed(two)
  <2> SUFFICES ASSUME cut = Len(one)
               PROVE  Listed(head) \o Listed(two) \o Listed(tail) = Listed(one) \o Listed(two)
    OBVIOUS
  <2>1. head = one
    BY <1>7, <1>8, SubSeqFull
  <2>2. tail = <<>>
    BY <1>7, <1>8, SubSeqEmpty
  <2>3. Listed(tail) = <<>>
    <3>1. {i \in DOMAIN tail : tail[i].level <= MaxProtections} = {}
      BY <2>2
    <3>2. Listed(tail) = [i \in {} |-> tail[i]]
      BY <3>1, Zenon DEF Listed, Restrict
    <3> QED
      BY <3>2
  <2>4. Listed(one) \o Listed(two) \in Seq(T)
    BY <1>11, ConcatProperties
  <2> QED
    BY <2>1, <2>3, <2>4, ConcatEmptySeq
<1>14. /\ book.legs = Listed(head) \o Listed(two) \o Listed(tail) /\ book.played = <<one, two>>
       /\ book.apart = (cut = Len(one))
       /\ book.target = target /\ book.multiplier = multiplier
  BY <1>3, <1>4, <1>8, Zenon DEF BookOf
<1>15. Reported(base, multiplier, payoff, target, one, two, first.start, second.start)
  BY <1>5, <1>6, <1>13, <1>14, <1>12, Zenon DEF Reported
<1> QED
  BY <1>15, Zenon

(* What the report has of the ladders of a tidy book climbs from the entry. *)
LEMMA TidyRungs ==
    ASSUME NEW base \in BaseStakes, NEW multiplier \in Multipliers, NEW payoff \in Payoffs,
           NEW ladder, NEW start, Played(ladder, start, base, multiplier, payoff),
           ladder[1].level = 0
    PROVE  /\ Rungs(Listed(ladder))
           /\ Played(Listed(ladder), 0, base, multiplier, payoff)
<1>1. PICK n, part : n = Len(ladder) /\ part = Listed(ladder)
  OBVIOUS
<1>2. /\ n \in Nat \ {0} /\ start \in Nat /\ ladder \in Seq(FairRows(base, payoff))
      /\ \A i \in 1..n : /\ ladder[i].level = start + i - 1
                         /\ ladder[i].stake = StakeAt(base, multiplier, ladder[i].level)
                         /\ i < n => ladder[i].pnl = -ladder[i].stake
                         /\ ladder[i].pnl \in {PayoffOf(ladder[i].stake, payoff), 0,
                                              -ladder[i].stake}
  BY <1>1, Zenon DEF Played
<1>3. start = 0
  <2>1. 1 \in 1..n
    BY <1>2
  <2>2. ladder[1].level = start + 1 - 1
    BY <1>2, <2>1
  <2> QED
    BY <1>2, <2>2
<1>4. PICK few : few = {leg \in FairRows(base, payoff) : leg.level <= 2}
  OBVIOUS
<1>5. PICK k \in 0..n : /\ \A i \in 1..n : i <= k <=> start + i - 1 <= 2
                        /\ part \in Seq(few)
                        /\ Len(part) = k /\ \A i \in 1..k : part[i] = ladder[i]
  <2>1. \A i \in 1..Len(ladder) : ladder[i].level = start + i - 1
    BY <1>1, <1>2
  <2>2. PICK S : S = FairRows(base, payoff)
    OBVIOUS
  <2>3. ladder \in Seq(S) /\ start \in Nat /\ few = {leg \in S : leg.level <= 2}
    BY <1>2, <1>4, <2>2
  <2>4. \E k \in 0..Len(ladder) :
          /\ \A i \in 1..Len(ladder) : i <= k <=> start + i - 1 <= 2
          /\ part \in Seq(few)
          /\ Len(part) = k /\ \A i \in 1..k : part[i] = ladder[i]
    BY <1>1, <2>1, <2>3, ListedFirst
  <2> QED
    BY <1>1, <2>4
<1>6. k \in 1..3 /\ \A i \in 1..k : i \in 1..n /\ (i < k => i < n)
  <2>1. 1 \in 1..n /\ start + 1 - 1 <= 2
    BY <1>2, <1>3
  <2>2. 1 <= k
    BY <1>5, <2>1
  <2>3. ~(4 <= k)
    <3> SUFFICES ASSUME 4 <= k PROVE FALSE
      OBVIOUS
    <3>1. 4 \in 1..n /\ ~(start + 4 - 1 <= 2)
      BY <1>2, <1>3, <1>5
    <3> QED
      BY <1>5, <3>1
  <2> QED
    BY <1>2, <1>5, <2>2, <2>3
<1>7. \A i \in 1..k : ladder[i].pnl \in Int /\ ladder[i].stake \in Nat \ {0}
  <2>1. \A i \in 1..n : ladder[i] \in FairRows(base, payoff)
    BY <1>1, <1>2, ElementOfSeq, Zenon
  <2> QED
    BY <1>6, <2>1 DEF FairRows
<1>8. \A i \in 1..k : ladder[i].level = i - 1 /\ (i < k => ladder[i].pnl < 0)
  BY <1>2, <1>3, <1>6, <1>7
<1>9. Rungs(part)
  <2>1. \A i \in 1..k : part[i].level = i - 1 /\ part[i].pnl \in Int /\ (i < k => part[i].pnl < 0)
    BY <1>5, <1>7, <1>8
  <2> QED
    BY <1>5, <1>6, <2>1, Zenon DEF Rungs
<1>10. part \in Seq(FairRows(base, payoff))
  <2>1. \A i \in 1..k : part[i] \in FairRows(base, payoff)
    BY <1>4, <1>5, ElementOfSeq
  <2>2. DOMAIN part = 1..k /\ k \in Nat
    BY <1>5, LenProperties
  <2>3. part = [i \in 1..k |-> part[i]]
    <3>1. part = [i \in 1..Len(part) |-> part[i]]
      BY <1>5, LenProperties
    <3> QED
      BY <1>5, <3>1
  <2>4. part \in [1..k -> FairRows(base, payoff)]
    BY <2>1, <2>3
  <2> QED
    BY <2>2, <2>4, SeqDef
<1>11. Played(part, 0, base, multiplier, payoff)
  <2>1. \A i \in 1..k :
          /\ part[i].level = 0 + i - 1
          /\ part[i].stake = StakeAt(base, multiplier, part[i].level)
          /\ i < k => part[i].pnl = -part[i].stake
          /\ part[i].pnl \in {PayoffOf(part[i].stake, payoff), 0, -part[i].stake}
    <3> SUFFICES ASSUME NEW i \in 1..k
                 PROVE  /\ part[i].level = 0 + i - 1
                        /\ part[i].stake = StakeAt(base, multiplier, part[i].level)
                        /\ i < k => part[i].pnl = -part[i].stake
                        /\ part[i].pnl \in {PayoffOf(part[i].stake, payoff), 0, -part[i].stake}
      BY Zenon
    <3>1. part[i] = ladder[i] /\ i \in 1..n /\ (i < k => i < n)
      BY <1>5, <1>6
    <3>2. part[i].level = 0 + i - 1
      BY <1>8, <3>1
    <3> QED
      BY <1>2, <3>1, <3>2, Zenon
  <2>2. k \in Nat \ {0} /\ 0 \in Nat
    BY <1>6
  <2> QED
    BY <1>5, <1>10, <2>1, <2>2, Zenon DEF Played
<1> QED
  BY <1>1, <1>9, <1>11

(* Of a tidy book they are the cycles.                                     *)
LEMMA TidyCycles ==
    ASSUME NEW base, NEW multiplier, NEW payoff, NEW target, NEW one, NEW two,
           NEW first, NEW second,
           Reported(base, multiplier, payoff, target, one, two, first, second), Tidy
    PROVE  /\ Played(Listed(one), 0, base, multiplier, payoff) /\ Rungs(Listed(one))
           /\ Played(Listed(two), 0, base, multiplier, payoff) /\ Rungs(Listed(two))
           /\ GroupCycles(book.legs) = <<Listed(one), Listed(two)>>
<1>1. /\ base \in BaseStakes /\ multiplier \in Multipliers /\ payoff \in Payoffs
      /\ Played(one, first, base, multiplier, payoff)
      /\ Played(two, second, base, multiplier, payoff)
      /\ book.played = <<one, two>> /\ (book.apart => book.legs = Listed(one) \o Listed(two))
  BY Zenon DEF Reported
<1>2. book.apart /\ one[1].level = 0 /\ two[1].level = 0
  <2>1. book.apart /\ book.played[1][1].level = 0 /\ book.played[2][1].level = 0
    BY DEF Tidy
  <2> QED
    BY <1>1, <2>1
<1>3. /\ Played(Listed(one), 0, base, multiplier, payoff) /\ Rungs(Listed(one))
      /\ Played(Listed(two), 0, base, multiplier, payoff) /\ Rungs(Listed(two))
  BY <1>1, <1>2, TidyRungs, Zenon
<1>4. Listed(one) \in Seq(FairRows(base, payoff)) /\ Listed(two) \in Seq(FairRows(base, payoff))
  BY <1>3, Zenon DEF Played
<1> QED
  BY <1>1, <1>2, <1>3, <1>4, LaddersAreFound, Zenon

(* The report finds the ladders that were played, up to their second        *)
(* protection: whatever the stakes, the multiplier, the payoff, the number  *)
(* of protections, and whether a ladder was won, drawn, lost or cut short.  *)
THEOREM CyclesAreFound == SimulationSpec => []CyclesAreLadders
<1>1. SimulationInit => CyclesAreLadders
  <2> SUFFICES ASSUME SimulationInit, Tidy
               PROVE  GroupCycles(book.legs) = [i \in 1..2 |-> Listed(book.played[i])]
    BY DEF CyclesAreLadders
  <2>1. book # EmptyBook
    <3>1. EmptyBook.apart = FALSE
      BY DEF EmptyBook
    <3> QED
      BY <3>1, Zenon DEF Tidy
  <2>2. PICK base, multiplier, payoff, target, one, two, first, second :
          Reported(base, multiplier, payoff, target, one, two, first, second)
    BY <2>1, ReportOfLadders, Zenon
  <2>3. GroupCycles(book.legs) = <<Listed(one), Listed(two)>>
    BY <2>2, TidyCycles, Zenon
  <2>4. book.played = <<one, two>>
    BY <2>2, Zenon DEF Reported
  <2>5. [i \in 1..2 |-> Listed(book.played[i])] = <<Listed(one), Listed(two)>>
    <3>1. Listed(book.played[1]) = Listed(one) /\ Listed(book.played[2]) = Listed(two)
      BY <2>4
    <3> QED
      BY <3>1
  <2> QED
    BY <2>3, <2>5
<1>2. CyclesAreLadders /\ [UNCHANGED book]_book => CyclesAreLadders'
  BY DEF CyclesAreLadders, Tidy
<1> QED
  BY <1>1, <1>2, PTL DEF SimulationSpec

(* The sum of up to three amounts.                                         *)
LEMMA ShortSums ==
    ASSUME NEW amounts, NEW n \in 1..3, Len(amounts) = n, \A i \in 1..n : amounts[i] \in Int
    PROVE  /\ n = 1 => SumOf(amounts) = amounts[1]
           /\ n = 2 => SumOf(amounts) = amounts[1] + amounts[2]
           /\ n = 3 => SumOf(amounts) = amounts[1] + amounts[2] + amounts[3]
<1>1. PICK sums : sums = PartialSums(amounts)
  OBVIOUS
<1>2. \A k \in 0..n : sums[k] = IF k = 0 THEN 0 ELSE sums[k - 1] + amounts[k]
  <2>1. n \in Nat
    OBVIOUS
  <2> QED
    BY <1>1, <2>1, SumsByIndex, Zenon
<1>3. SumOf(amounts) = sums[n]
  BY <1>1 DEF SumOf
<1>4. sums[0] = 0 /\ sums[1] = amounts[1]
  BY <1>2
<1>5. n >= 2 => sums[2] = amounts[1] + amounts[2]
  BY <1>2, <1>4
<1>6. n = 3 => sums[3] = amounts[1] + amounts[2] + amounts[3]
  BY <1>2, <1>5
<1> QED
  BY <1>3, <1>4, <1>5, <1>6

(* Amount by amount, so in sum.                                             *)
LEMMA SumsCompare ==
    ASSUME NEW a, NEW b, Len(a) \in Nat, Len(b) = Len(a),
           \A i \in 1..Len(a) : a[i] \in Int /\ b[i] \in Int /\ a[i] >= -b[i]
    PROVE  SumOf(a) \in Int /\ SumOf(b) \in Int /\ SumOf(a) >= -SumOf(b)
<1>1. PICK n, one, two : n = Len(a) /\ one = PartialSums(a) /\ two = PartialSums(b)
  OBVIOUS
<1>2. /\ \A k \in 0..n : one[k] = IF k = 0 THEN 0 ELSE one[k - 1] + a[k]
      /\ \A k \in 0..n : two[k] = IF k = 0 THEN 0 ELSE two[k - 1] + b[k]
  BY <1>1, SumsByIndex, Zenon
<1>3. n \in Nat /\ \A i \in 1..n : a[i] \in Int /\ b[i] \in Int /\ a[i] >= -b[i]
  BY <1>1
<1> DEFINE Good(k) == one[k] \in Int /\ two[k] \in Int /\ one[k] >= -two[k]
           Odd == {k \in 0..n : ~Good(k)}
<1>4. Odd = {}
  <2> SUFFICES ASSUME Odd # {} PROVE FALSE
    OBVIOUS
  <2>1. Odd \in SUBSET Nat
    OBVIOUS
  <2>2. PICK k \in Odd : \A m \in Odd : k <= m
    <3> HIDE DEF Odd
    <3> QED
      BY <2>1, LeastNatural
  <2>3. k \in 0..n /\ ~Good(k)
    OBVIOUS
  <2>4. Good(0)
    BY <1>2, <1>3
  <2>5. k # 0
    BY <2>3, <2>4
  <2>6. k - 1 \in 0..n /\ ~(k <= k - 1)
    BY <1>3, <2>3, <2>5
  <2>7. Good(k - 1)
    BY <2>2, <2>6
  <2>8. one[k] = one[k - 1] + a[k] /\ two[k] = two[k - 1] + b[k]
    BY <1>2, <2>3, <2>5
  <2>9. a[k] \in Int /\ b[k] \in Int /\ a[k] >= -b[k]
    BY <1>3, <2>3, <2>5
  <2>10. PICK u, v, x, y : /\ u = one[k - 1] /\ v = two[k - 1] /\ x = a[k] /\ y = b[k]
    OBVIOUS
  <2>11. /\ u \in Int /\ v \in Int /\ x \in Int /\ y \in Int /\ u >= -v /\ x >= -y
         /\ one[k] = u + x /\ two[k] = v + y
    BY <2>7, <2>8, <2>9, <2>10
  <2>12. u + x \in Int /\ v + y \in Int /\ u + x >= -(v + y)
    BY <2>11
  <2>13. Good(k)
    BY <2>11, <2>12
  <2> QED
    BY <2>3, <2>13
<1>5. n \in 0..n
  BY <1>3
<1>6. Good(n)
  BY <1>4, <1>5
<1> QED
  BY <1>1, <1>6 DEF SumOf

(* The payoff that a leg shows, and a won ladder with its last one.         *)
PayoffSeen(leg) == RoundHalfEven(leg.pnl * 10000, leg.stake)

LEMMA ObservedOfWin ==
    ASSUME NEW cycle, NEW n \in 1..3, DOMAIN cycle = 1..n,
           \A i \in 1..n : cycle[i].pnl \in Int, cycle[n].pnl > 0,
           \A i \in 1..n : i < n => cycle[i].pnl < 0
    PROVE  ObservedPayoff(cycle) = PayoffSeen(cycle[n])
<1>1. {i \in DOMAIN cycle : cycle[i].pnl > 0} = {n}
  <2>1. \A i \in 1..n : cycle[i].pnl > 0 => i = n
    <3> SUFFICES ASSUME NEW i \in 1..n, i # n PROVE ~(cycle[i].pnl > 0)
      OBVIOUS
    <3>1. i < n
      OBVIOUS
    <3> QED
      BY <3>1
  <2>2. n \in 1..n
    OBVIOUS
  <2> QED
    BY <2>1, <2>2
<1>2. Min({n}) = n
  BY DEF Min
<1>3. PICK wins : wins = {i \in DOMAIN cycle : cycle[i].pnl > 0}
  OBVIOUS
<1>4. ObservedPayoff(cycle) = IF wins = {} THEN DefaultPayoff ELSE PayoffSeen(cycle[Min(wins)])
  BY <1>3 DEF ObservedPayoff, PayoffSeen
<1>5. wins # {} /\ Min(wins) = n
  BY <1>1, <1>2, <1>3
<1> QED
  BY <1>4, <1>5

(* A ladder that climbs from its entry.                                     *)
Climbs(cycle, n, base, multiplier, payoff) ==
    /\ n \in 1..3 /\ DOMAIN cycle = 1..n /\ Len(cycle) = n
    /\ \A i \in 1..n :
         /\ cycle[i].level = i - 1
         /\ cycle[i].stake = StakeAt(base, multiplier, i - 1)
         /\ cycle[i].stake \in Nat \ {0} /\ cycle[i].pnl \in Int
         /\ i < n => cycle[i].pnl = -cycle[i].stake
         /\ cycle[i].pnl > 0 => cycle[i].pnl = PayoffOf(cycle[i].stake, payoff)
         /\ cycle[i].pnl \in {0, -cycle[i].stake} \/ cycle[i].pnl > 0
    /\ cycle[1].stake = base

(* The rows of a short ladder that was played from its entry do.           *)
LEMMA LaddersClimb ==
    ASSUME NEW base \in BaseStakes, NEW multiplier \in Multipliers, NEW payoff \in Payoffs,
           NEW cycle, Played(cycle, 0, base, multiplier, payoff), Len(cycle) \in 1..3
    PROVE  \E n \in 1..3 : Climbs(cycle, n, base, multiplier, payoff)
<1>1. PICK n : n = Len(cycle)
  OBVIOUS
<1>2. /\ n \in 1..3 /\ cycle \in Seq(FairRows(base, payoff))
      /\ \A i \in 1..n :
           /\ cycle[i].level = 0 + i - 1
           /\ cycle[i].stake = StakeAt(base, multiplier, cycle[i].level)
           /\ i < n => cycle[i].pnl = -cycle[i].stake
           /\ cycle[i].pnl \in {PayoffOf(cycle[i].stake, payoff), 0, -cycle[i].stake}
  BY <1>1, Zenon DEF Played
<1>3. DOMAIN cycle = 1..n
  BY <1>1, <1>2, LenProperties, Zenon
<1>4. \A i \in 1..n : cycle[i] \in FairRows(base, payoff)
  BY <1>1, <1>2, ElementOfSeq, Zenon
<1>5. \A i \in 1..n : /\ cycle[i].stake \in Nat \ {0} /\ cycle[i].pnl \in Int
                      /\ cycle[i].pnl > 0 => cycle[i].pnl = PayoffOf(cycle[i].stake, payoff)
                      /\ cycle[i].level = 0 => cycle[i].stake = base
  BY <1>4 DEF FairRows
<1>6. \A i \in 1..n : cycle[i].level = i - 1
  <2> SUFFICES ASSUME NEW i \in 1..n PROVE cycle[i].level = i - 1
    OBVIOUS
  <2>1. cycle[i].level = 0 + i - 1 /\ i \in Int
    BY <1>2
  <2> QED
    BY <2>1
<1>7. cycle[1].stake = base
  BY <1>2, <1>5, <1>6
<1>8. payoff \in Nat
  BY SimulationAssumption
<1>9. \A i \in 1..n : cycle[i].pnl \in {0, -cycle[i].stake} \/ cycle[i].pnl > 0
  <2> SUFFICES ASSUME NEW i \in 1..n
               PROVE  cycle[i].pnl \in {0, -cycle[i].stake} \/ cycle[i].pnl > 0
    OBVIOUS
  <2>1. cycle[i].stake \in Nat
    BY <1>5
  <2>2. PayoffOf(cycle[i].stake, payoff) \in Nat
    BY <1>8, <2>1, PayoffIsNatural
  <2>3. cycle[i].pnl = PayoffOf(cycle[i].stake, payoff) => cycle[i].pnl = 0 \/ cycle[i].pnl > 0
    BY <2>2
  <2> QED
    BY <1>2, <2>3
<1> QED
  BY <1>1, <1>2, <1>3, <1>5, <1>6, <1>7, <1>9, Zenon DEF Climbs

(* What an ended ladder earned, leg by leg, and the payoff it shows.        *)
LEMMA EarnedByLadder ==
    ASSUME NEW base, NEW multiplier, NEW payoff \in Nat, NEW cycle, NEW n,
           Climbs(cycle, n, base, multiplier, payoff)
    PROVE  /\ n = 1 => RealPnl(cycle) = cycle[1].pnl
           /\ n = 2 => RealPnl(cycle) = cycle[1].pnl + cycle[2].pnl
           /\ n = 3 => RealPnl(cycle) = cycle[1].pnl + cycle[2].pnl + cycle[3].pnl
           /\ cycle[n].pnl > 0 =>
                /\ ObservedPayoff(cycle) \in Nat \ {0}
                /\ PayoffOf(cycle[n].stake, ObservedPayoff(cycle)) = cycle[n].pnl
<1>1. /\ n \in 1..3 /\ DOMAIN cycle = 1..n /\ Len(cycle) = n
      /\ \A i \in 1..n :
           /\ cycle[i].stake \in Nat \ {0} /\ cycle[i].pnl \in Int
           /\ i < n => cycle[i].pnl = -cycle[i].stake
           /\ cycle[i].pnl > 0 => cycle[i].pnl = PayoffOf(cycle[i].stake, payoff)
  BY DEF Climbs
<1>2. PICK pnls : pnls = [i \in DOMAIN cycle |-> cycle[i].pnl]
  OBVIOUS
<1>3. /\ pnls \in [1..n -> Int] /\ DOMAIN pnls = 1..n
      /\ \A i \in 1..n : pnls[i] \in Int /\ pnls[i] = cycle[i].pnl
  BY <1>1, <1>2
<1>4. Len(pnls) = n
  <2>1. n \in Nat
    BY <1>1
  <2>2. pnls \in Seq(Int)
    BY <1>3, <2>1, SeqDef
  <2> QED
    BY <1>3, <2>1, <2>2, LenProperties
<1>5. RealPnl(cycle) = SumOf(pnls)
  BY <1>2 DEF RealPnl
<1>6. /\ n = 1 => SumOf(pnls) = pnls[1]
      /\ n = 2 => SumOf(pnls) = pnls[1] + pnls[2]
      /\ n = 3 => SumOf(pnls) = pnls[1] + pnls[2] + pnls[3]
  BY <1>1, <1>3, <1>4, ShortSums
<1>7. /\ n = 1 => RealPnl(cycle) = cycle[1].pnl
      /\ n = 2 => RealPnl(cycle) = cycle[1].pnl + cycle[2].pnl
      /\ n = 3 => RealPnl(cycle) = cycle[1].pnl + cycle[2].pnl + cycle[3].pnl
  BY <1>1, <1>3, <1>5, <1>6
<1>8. ASSUME cycle[n].pnl > 0
      PROVE  /\ ObservedPayoff(cycle) \in Nat \ {0}
             /\ PayoffOf(cycle[n].stake, ObservedPayoff(cycle)) = cycle[n].pnl
  <2>1. n \in 1..n
    BY <1>1
  <2>2. \A i \in 1..n : i < n => cycle[i].pnl < 0
    BY <1>1
  <2>3. ObservedPayoff(cycle) = PayoffSeen(cycle[n])
    <3>1. \A i \in 1..n : cycle[i].pnl \in Int
      BY <1>1
    <3> QED
      BY <1>1, <1>8, <2>2, <3>1, ObservedOfWin, Zenon
  <2>4. cycle[n].stake \in Nat \ {0} /\ cycle[n].pnl = PayoffOf(cycle[n].stake, payoff)
    BY <1>1, <1>8, <2>1
  <2>5. RoundHalfEven(cycle[n].pnl * 10000, cycle[n].stake) \in Nat \ {0}
    BY <1>8, <2>4, PayoffIsPositive
  <2>6. PayoffOf(cycle[n].stake, RoundHalfEven(cycle[n].pnl * 10000, cycle[n].stake))
          = cycle[n].pnl
    BY <2>4, PayoffIsRecovered
  <2> QED
    BY <2>3, <2>5, <2>6 DEF PayoffSeen
<1> QED
  BY <1>7, <1>8

(* The outcome of a ladder is told by its last leg.                        *)
LEMMA OutcomeOfLadder ==
    ASSUME NEW base, NEW multiplier, NEW payoff, NEW cycle, NEW n,
           Climbs(cycle, n, base, multiplier, payoff)
    PROVE  /\ n = 1 => Outcome(cycle) = IF cycle[1].pnl > 0 THEN "win_l0" ELSE "incomplete"
           /\ n = 2 => Outcome(cycle) = IF cycle[2].pnl > 0 THEN "win_p1" ELSE "incomplete"
           /\ n = 3 => Outcome(cycle) = IF cycle[3].pnl > 0 THEN "win_p2" ELSE "loss_full"
<1>1. n \in 1..3 /\ Len(cycle) = n /\ \A i \in 1..n : cycle[i].level = i - 1
  BY DEF Climbs
<1>2. n \in 1..n /\ cycle[n].level = n - 1
  BY <1>1
<1> QED
  BY <1>1, <1>2 DEF Outcome

(* With the multiplier that was played a ladder whose outcome the report    *)
(* tells is replayed with the result it had.                                *)
LEMMA ReplayOfLadder ==
    ASSUME NEW base \in BaseStakes, NEW multiplier \in Multipliers, NEW payoff \in Nat,
           NEW cycle, NEW n, Climbs(cycle, n, base, multiplier, payoff),
           book.multiplier = multiplier, ~Unclassified(cycle)
    PROVE  Simulated("multiplier", cycle) = RealPnl(cycle)
<1>1. /\ n \in 1..3
      /\ \A i \in 1..n :
           /\ cycle[i].stake = StakeAt(base, multiplier, i - 1)
           /\ cycle[i].stake \in Nat \ {0} /\ cycle[i].pnl \in Int
           /\ i < n => cycle[i].pnl = -cycle[i].stake
           /\ cycle[i].pnl \in {0, -cycle[i].stake} \/ cycle[i].pnl > 0
      /\ cycle[1].stake = base
  BY Zenon DEF Climbs
<1>2. cycle[n].pnl # 0 /\ ~(n = 2 /\ cycle[n].pnl < 0)
  <2>1. Len(cycle) = n
    BY Zenon DEF Climbs
  <2> QED
    BY <2>1 DEF Unclassified
<1>3. PICK ladder, seen : /\ ladder = MultiplierLadder(base, multiplier)
                          /\ seen = ObservedPayoff(cycle)
  OBVIOUS
<1>4. ladder = [i \in 1..3 |-> StakeAt(base, multiplier, i - 1)]
  BY <1>3 DEF MultiplierLadder, MaxProtections, StakeAt
<1>5. \A i \in 1..3 : ladder[i] = StakeAt(base, multiplier, i - 1) /\ ladder[i] \in Nat \ {0}
  <2> SUFFICES ASSUME NEW i \in 1..3
               PROVE  ladder[i] = StakeAt(base, multiplier, i - 1) /\ ladder[i] \in Nat \ {0}
    OBVIOUS
  <2>1. i - 1 \in 0..2 /\ ladder[i] = StakeAt(base, multiplier, i - 1)
    BY <1>4
  <2> QED
    BY <2>1, StakesAreNatural
<1>6. \A i \in 1..n : ladder[i] = cycle[i].stake
  BY <1>1, <1>5
<1>7. Simulated("multiplier", cycle) = FromLadder(Outcome(cycle), ladder, seen)
  BY <1>1, <1>3 DEF Simulated, LadderOf
<1>8. /\ n = 1 => RealPnl(cycle) = cycle[1].pnl
      /\ n = 2 => RealPnl(cycle) = cycle[1].pnl + cycle[2].pnl
      /\ n = 3 => RealPnl(cycle) = cycle[1].pnl + cycle[2].pnl + cycle[3].pnl
      /\ cycle[n].pnl > 0 => PayoffOf(cycle[n].stake, seen) = cycle[n].pnl
  BY <1>3, EarnedByLadder
<1>9. CASE n = 1
  <2>1. ladder[1] = cycle[1].stake /\ cycle[1].stake \in Nat
        /\ (cycle[1].pnl > 0 \/ cycle[1].pnl = -cycle[1].stake)
    BY <1>1, <1>6, <1>9, <1>2
  <2>2. CASE cycle[1].pnl > 0
    <3>1. Outcome(cycle) = "win_l0"
      BY <1>9, <2>2, OutcomeOfLadder
    <3>2. FromLadder("win_l0", ladder, seen) = PayoffOf(ladder[1], seen)
      BY DEF FromLadder
    <3> QED
      BY <1>7, <1>8, <1>9, <2>1, <2>2, <3>1, <3>2
  <2>3. CASE ~(cycle[1].pnl > 0)
    <3>1. Outcome(cycle) = "incomplete"
      BY <1>9, <2>3, OutcomeOfLadder
    <3>2. FromLadder("incomplete", ladder, seen) = -ladder[1]
      BY DEF FromLadder
    <3> QED
      BY <1>7, <1>8, <1>9, <2>1, <2>3, <3>1, <3>2
  <2> QED
    BY <2>2, <2>3
<1>10. CASE n = 2
  <2>1. Outcome(cycle) = "win_p1" /\ cycle[2].pnl > 0
    <3>1. cycle[2].pnl > 0
      BY <1>1, <1>10, <1>2
    <3> QED
      BY <1>10, <3>1, OutcomeOfLadder
  <2>2. FromLadder("win_p1", ladder, seen) = PayoffOf(ladder[2], seen) - ladder[1]
    BY DEF FromLadder
  <2>3. ladder[1] = cycle[1].stake /\ ladder[2] = cycle[2].stake
        /\ cycle[1].pnl = -cycle[1].stake /\ cycle[1].stake \in Nat /\ cycle[2].pnl \in Int
    BY <1>1, <1>6, <1>10
  <2> QED
    BY <1>7, <1>8, <1>10, <2>1, <2>2, <2>3
<1>11. CASE n = 3
  <2>1. /\ ladder[1] = cycle[1].stake /\ ladder[2] = cycle[2].stake /\ ladder[3] = cycle[3].stake
        /\ cycle[1].pnl = -cycle[1].stake /\ cycle[2].pnl = -cycle[2].stake
        /\ cycle[1].stake \in Nat /\ cycle[2].stake \in Nat /\ cycle[3].stake \in Nat
        /\ cycle[3].pnl \in Int
        /\ cycle[3].pnl > 0 \/ cycle[3].pnl = -cycle[3].stake
    BY <1>1, <1>6, <1>11, <1>2
  <2>2. CASE cycle[3].pnl > 0
    <3>1. Outcome(cycle) = "win_p2"
      BY <1>11, <2>2, OutcomeOfLadder
    <3>2. FromLadder("win_p2", ladder, seen) = PayoffOf(ladder[3], seen) - ladder[1] - ladder[2]
      BY DEF FromLadder
    <3> QED
      BY <1>7, <1>8, <1>11, <2>1, <2>2, <3>1, <3>2
  <2>3. CASE ~(cycle[3].pnl > 0)
    <3>1. Outcome(cycle) = "loss_full"
      BY <1>11, <2>3, OutcomeOfLadder
    <3>2. FromLadder("loss_full", ladder, seen) = -SumOf(ladder)
      BY DEF FromLadder
    <3>3. Len(ladder) = 3 /\ \A i \in 1..3 : ladder[i] \in Int
      <4>1. ladder \in [1..3 -> Nat]
        BY <1>4, <1>5
      <4>2. ladder \in Seq(Nat)
        BY <4>1, SeqDef
      <4> QED
        BY <1>5, <4>1, <4>2, LenProperties
    <3>4. 3 \in 1..3
      OBVIOUS
    <3>5. SumOf(ladder) = ladder[1] + ladder[2] + ladder[3]
      BY <3>3, <3>4, ShortSums
    <3> QED
      BY <1>7, <1>8, <1>11, <2>1, <2>3, <3>1, <3>2, <3>5
  <2> QED
    BY <2>2, <2>3
<1> QED
  BY <1>1, <1>9, <1>10, <1>11

(* Recovery earns its target with every protection that wins.               *)
LEMMA RecoveryOfLadder ==
    ASSUME NEW base \in BaseStakes, NEW multiplier \in Multipliers, NEW payoff \in Nat,
           NEW target \in Nat, book.target = target,
           NEW cycle, NEW n, Climbs(cycle, n, base, multiplier, payoff),
           Outcome(cycle) \in {"win_p1", "win_p2"}
    PROVE  Simulated("recovery", cycle) >= target
<1>1. n \in 1..3 /\ cycle[1].stake = base /\ base \in Nat
  BY SimulationAssumption DEF Climbs
<1>2. PICK seen : seen = ObservedPayoff(cycle)
  OBVIOUS
<1>3. PICK p1 : p1 = RecoveryStake(base, target, seen)
  OBVIOUS
<1>4. PICK p2 : p2 = RecoveryStake(base + p1, target, seen)
  OBVIOUS
<1>5. \/ n = 2 /\ Outcome(cycle) = "win_p1" /\ cycle[n].pnl > 0
      \/ n = 3 /\ Outcome(cycle) = "win_p2" /\ cycle[n].pnl > 0
  <2>1. n = 1 \/ n = 2 \/ n = 3
    BY <1>1
  <2>2. n # 1
    BY OutcomeOfLadder
  <2>3. n = 2 => Outcome(cycle) = "win_p1" /\ cycle[2].pnl > 0
    BY OutcomeOfLadder
  <2>4. n = 3 => Outcome(cycle) = "win_p2" /\ cycle[3].pnl > 0
    BY OutcomeOfLadder
  <2>5. CASE n = 2
    BY <2>3, <2>5
  <2>6. CASE n = 3
    BY <2>4, <2>6
  <2> QED
    BY <2>1, <2>2, <2>5, <2>6
<1>6. seen \in Nat \ {0}
  BY <1>2, <1>5, EarnedByLadder
<1>7. p1 \in Nat /\ PayoffOf(p1, seen) >= base + target /\ PayoffOf(p1, seen) \in Nat
  BY <1>1, <1>3, <1>6, RecoveryWins, PayoffIsNatural
<1>8. p2 \in Nat /\ PayoffOf(p2, seen) >= base + p1 + target /\ PayoffOf(p2, seen) \in Nat
  <2>1. base + p1 \in Nat
    BY <1>1, <1>7
  <2> QED
    BY <1>4, <1>6, <2>1, RecoveryWins, PayoffIsNatural
<1>9. Simulated("recovery", cycle) = FromLadder(Outcome(cycle), <<base, p1, p2>>, seen)
  BY <1>1, <1>2, <1>3, <1>4 DEF Simulated, LadderOf, RecoveryLadder
<1>10. CASE Outcome(cycle) = "win_p1"
  <2>1. FromLadder("win_p1", <<base, p1, p2>>, seen) = PayoffOf(p1, seen) - base
    BY DEF FromLadder
  <2> QED
    BY <1>1, <1>7, <1>9, <1>10, <2>1
<1>11. CASE Outcome(cycle) = "win_p2"
  <2>1. FromLadder("win_p2", <<base, p1, p2>>, seen) = PayoffOf(p2, seen) - base - p1
    BY DEF FromLadder
  <2> QED
    BY <1>1, <1>7, <1>8, <1>9, <1>11, <2>1
<1> QED
  BY <1>10, <1>11

-----------------------------------------------------------------------------
(* What the report takes for a cycle: it opens with an entry.               *)
CyclesOf(S) == {cycle \in Seq(S) : cycle # <<>> /\ cycle[1].level = 0}

(* So are the cycles found so far, and the one that is open.               *)
Grouped(S, found) ==
    /\ found.cycles \in Seq(CyclesOf(S))
    /\ found.current = <<>> \/ found.current \in CyclesOf(S)

(* They are cycles when the last one is filed too.                         *)
LEMMA FiledCycles ==
    ASSUME NEW S, NEW found, Grouped(S, found)
    PROVE  Filed(found) \in Seq(CyclesOf(S))
<1>1. CASE found.current = <<>>
  BY <1>1, Zenon DEF Filed, Grouped
<1>2. CASE found.current # <<>>
  <2>1. found.current \in CyclesOf(S) /\ found.cycles \in Seq(CyclesOf(S))
    BY <1>2, Zenon DEF Grouped
  <2>2. Append(found.cycles, found.current) \in Seq(CyclesOf(S))
    BY <2>1, AppendProperties, Zenon
  <2> QED
    BY <1>2, <2>2, Zenon DEF Filed
<1> QED
  BY <1>1, <1>2

(* An entry is a cycle, and one leg more makes a longer one.               *)
LEMMA LongerCycles ==
    ASSUME NEW S, NEW leg \in S
    PROVE  /\ leg.level = 0 => <<leg>> \in CyclesOf(S)
           /\ \A cycle \in CyclesOf(S) : Append(cycle, leg) \in CyclesOf(S)
<1>1. leg.level = 0 => <<leg>> \in CyclesOf(S)
  BY DEF CyclesOf
<1>2. ASSUME NEW cycle \in CyclesOf(S) PROVE Append(cycle, leg) \in CyclesOf(S)
  <2>1. PICK longer : longer = Append(cycle, leg)
    OBVIOUS
  <2>2. cycle \in Seq(S) /\ cycle # <<>> /\ cycle[1].level = 0
    BY DEF CyclesOf
  <2>3. Len(cycle) \in Nat /\ Len(cycle) # 0
    BY <2>2, EmptySeq
  <2>4. 1 \in 1..Len(cycle)
    BY <2>3
  <2>5. longer \in Seq(S) /\ longer # <<>> /\ longer[1] = cycle[1]
    <3>1. /\ Append(cycle, leg) \in Seq(S) /\ Append(cycle, leg) # <<>>
          /\ \A i \in 1..Len(cycle) : Append(cycle, leg)[i] = cycle[i]
      BY <2>2, AppendProperties, Zenon
    <3> QED
      BY <2>1, <2>4, <3>1, Zenon
  <2>6. longer \in CyclesOf(S)
    BY <2>2, <2>5, Zenon DEF CyclesOf
  <2> QED
    BY <2>1, <2>6
<1> QED
  BY <1>1, <1>2

(* One more leg is grouped with the rest.                                  *)
LEMMA LegIsGrouped ==
    ASSUME NEW S, NEW leg \in S, leg.level \in 0..2, NEW found, Grouped(S, found)
    PROVE  Grouped(S, TakeLeg(found, leg))
<1>1. PICK next : next = TakeLeg(found, leg)
  OBVIOUS
<1>2. found.cycles \in Seq(CyclesOf(S)) /\ Filed(found) \in Seq(CyclesOf(S))
  BY FiledCycles, Zenon DEF Grouped
<1>3. CASE leg.level = 0
  <2>1. PICK cycle, more : cycle = <<leg>> /\ more = Append(Filed(found), cycle)
    OBVIOUS
  <2>2. cycle \in CyclesOf(S)
    BY <1>3, <2>1, LongerCycles, Zenon
  <2>3. more \in Seq(CyclesOf(S))
    BY <1>2, <2>1, <2>2, AppendProperties, Zenon
  <2>4. next = IF Closes(leg) THEN [cycles |-> more, current |-> <<>>]
               ELSE [cycles |-> Filed(found), current |-> cycle]
    BY <1>1, <1>3, <2>1, EntryTaken, Zenon
  <2>5. \/ next.cycles = more /\ next.current = <<>>
        \/ next.cycles = Filed(found) /\ next.current = cycle
    BY <2>4, Zenon
  <2> QED
    BY <1>1, <1>2, <2>2, <2>3, <2>5, Zenon DEF Grouped
<1>4. CASE leg.level # 0 /\ found.current = <<>>
  <2>1. leg.level > 0
    BY <1>4
  <2>2. next = found
    BY <1>1, <1>4, <2>1, Zenon DEF TakeLeg
  <2> QED
    BY <1>1, <2>2
<1>5. CASE leg.level # 0 /\ found.current # <<>>
  <2>1. found.current \in CyclesOf(S)
    BY <1>5, Zenon DEF Grouped
  <2>2. PICK cycle, more : /\ cycle = Append(found.current, leg)
                           /\ more = Append(found.cycles, cycle)
    OBVIOUS
  <2>3. cycle \in CyclesOf(S)
    BY <2>1, <2>2, LongerCycles, Zenon
  <2>4. more \in Seq(CyclesOf(S))
    BY <1>2, <2>2, <2>3, AppendProperties, Zenon
  <2>5. leg.level \in {1, 2}
    BY <1>5
  <2>6. next = IF Closes(leg) THEN [cycles |-> more, current |-> <<>>]
               ELSE [cycles |-> found.cycles, current |-> cycle]
    <3>1. TakeLeg(found, leg) =
             IF Closes(leg)
             THEN [cycles |-> Append(found.cycles, Append(found.current, leg)), current |-> <<>>]
             ELSE [cycles |-> found.cycles, current |-> Append(found.current, leg)]
      <4>1. found.current # <<>>
        BY <1>5
      <4> QED
        BY <2>5, <4>1, ProtectionTaken
    <3> QED
      BY <1>1, <2>2, <3>1, Zenon
  <2>7. \/ next.cycles = more /\ next.current = <<>>
        \/ next.cycles = found.cycles /\ next.current = cycle
    BY <2>6, Zenon
  <2> QED
    BY <1>1, <1>2, <2>3, <2>4, <2>7, Zenon DEF Grouped
<1> QED
  BY <1>3, <1>4, <1>5

(* Of whatever legs the history consists, the report groups them into       *)
(* cycles that open with an entry.                                          *)
LEMMA LegsAreGrouped ==
    ASSUME NEW S, \A leg \in S : leg.level \in 0..2, NEW legs \in Seq(S)
    PROVE  GroupCycles(legs) \in Seq(CyclesOf(S))
<1>1. PICK n, found : n = Len(legs) /\ found = FoundIn(legs)
  OBVIOUS
<1>2. n \in Nat /\ \A i \in 1..n : legs[i] \in S
  BY <1>1, ElementOfSeq
<1>3. \A i \in 0..n : found[i] = IF i = 0 THEN [cycles |-> <<>>, current |-> <<>>]
                                 ELSE TakeLeg(found[i - 1], legs[i])
  BY <1>1, <1>2, FoundByIndex, Zenon
<1> DEFINE Odd == {i \in 0..n : ~Grouped(S, found[i])}
<1>4. Odd = {}
  <2> SUFFICES ASSUME Odd # {} PROVE FALSE
    OBVIOUS
  <2>1. Odd \in SUBSET Nat
    OBVIOUS
  <2>2. PICK i \in Odd : \A m \in Odd : i <= m
    <3> HIDE DEF Odd
    <3> QED
      BY <2>1, LeastNatural
  <2>3. i \in 0..n /\ ~Grouped(S, found[i])
    OBVIOUS
  <2>4. i # 0
    <3> SUFFICES ASSUME i = 0 PROVE FALSE
      OBVIOUS
    <3>1. PICK start : start = [cycles |-> <<>>, current |-> <<>>]
      OBVIOUS
    <3>2. found[i] = start
      BY <1>3, <2>3, <3>1
    <3>3. start.cycles = <<>> /\ start.current = <<>> /\ <<>> \in Seq(CyclesOf(S))
      BY <3>1
    <3>4. Grouped(S, start)
      BY <3>3, Zenon DEF Grouped
    <3> QED
      BY <2>3, <3>2, <3>4
  <2>5. i - 1 \in 0..n /\ ~(i <= i - 1) /\ i \in 1..n
    BY <1>2, <2>3, <2>4
  <2>6. Grouped(S, found[i - 1])
    BY <2>2, <2>5
  <2>7. found[i] = TakeLeg(found[i - 1], legs[i])
    BY <1>3, <2>3, <2>4
  <2>8. legs[i] \in S /\ legs[i].level \in 0..2
    BY <1>2, <2>5
  <2>9. Grouped(S, TakeLeg(found[i - 1], legs[i]))
    BY <2>6, <2>8, LegIsGrouped, Zenon
  <2> QED
    BY <2>3, <2>7, <2>9
<1>5. n \in 0..n
  BY <1>2
<1>6. Grouped(S, found[n])
  BY <1>4, <1>5
<1> QED
  BY <1>1, <1>6, FiledCycles, Zenon DEF GroupCycles

-----------------------------------------------------------------------------
(* Replayed from a ladder of three stakes, a cycle never costs more.        *)
LEMMA LadderBounds ==
    ASSUME NEW outcome, NEW seen \in Nat, NEW ladder, Len(ladder) = 3,
           \A i \in 1..3 : ladder[i] \in Nat
    PROVE  /\ SumOf(ladder) \in Int /\ FromLadder(outcome, ladder, seen) \in Int
           /\ FromLadder(outcome, ladder, seen) >= -SumOf(ladder)
<1>1. PICK a, b, c : a = ladder[1] /\ b = ladder[2] /\ c = ladder[3]
  OBVIOUS
<1>2. a \in Nat /\ b \in Nat /\ c \in Nat
  BY <1>1
<1>3. SumOf(ladder) = a + b + c
  <2>1. 3 \in 1..3 /\ \A i \in 1..3 : ladder[i] \in Int
    OBVIOUS
  <2> QED
    BY <1>1, <2>1, ShortSums
<1>4. PICK x, y, z : x = PayoffOf(a, seen) /\ y = PayoffOf(b, seen) /\ z = PayoffOf(c, seen)
  OBVIOUS
<1>5. x \in Nat /\ y \in Nat /\ z \in Nat
  BY <1>2, <1>4, PayoffIsNatural, Zenon
<1>6. FromLadder(outcome, ladder, seen) \in {x, y - a, z - a - b, -SumOf(ladder), -a}
  BY <1>1, <1>4, Zenon DEF FromLadder
<1> QED
  BY <1>2, <1>3, <1>5, <1>6

(* The payoff a replay is played with is positive.                         *)
LEMMA SeenPayoff ==
    ASSUME NEW base, NEW payoff \in Nat, NEW cycle \in CyclesOf(FairLegs(base, payoff))
    PROVE  ObservedPayoff(cycle) \in Nat \ {0}
<1>1. PICK wins : wins = {i \in DOMAIN cycle : cycle[i].pnl > 0}
  OBVIOUS
<1>2. ObservedPayoff(cycle) = IF wins = {} THEN DefaultPayoff ELSE PayoffSeen(cycle[Min(wins)])
  BY <1>1 DEF ObservedPayoff, PayoffSeen
<1>3. CASE wins = {}
  BY <1>2, <1>3 DEF DefaultPayoff
<1>4. CASE wins # {}
  <2>1. cycle \in Seq(FairLegs(base, payoff))
    BY DEF CyclesOf
  <2>2. DOMAIN cycle = 1..Len(cycle) /\ Len(cycle) \in Nat
    BY <2>1, LenProperties
  <2>3. wins \in SUBSET Nat
    BY <1>1, <2>2
  <2>4. \E i \in wins : \A j \in wins : i <= j
    BY <1>4, <2>3, LeastNatural
  <2>5. Min(wins) \in wins
    BY <2>4, Zenon DEF Min
  <2>6. PICK i \in DOMAIN cycle : i = Min(wins) /\ cycle[i].pnl > 0
    BY <1>1, <2>5
  <2>7. cycle[i] \in FairLegs(base, payoff)
    BY <2>1, <2>2, ElementOfSeq
  <2>8. cycle[i].stake \in Nat \ {0} /\ cycle[i].pnl = PayoffOf(cycle[i].stake, payoff)
    BY <2>6, <2>7 DEF FairLegs, FairRows
  <2>9. PayoffSeen(cycle[i]) \in Nat \ {0}
    BY <2>6, <2>8, PayoffIsPositive DEF PayoffSeen
  <2> QED
    BY <1>2, <1>4, <2>6, <2>9
<1> QED
  BY <1>3, <1>4

(* The replay of a cycle, of whatever legs, costs at most its ladder.       *)
LEMMA CycleBounds ==
    ASSUME NEW base \in BaseStakes, NEW multiplier \in Multipliers, NEW payoff \in Nat,
           NEW target \in Nat, book.target = target, book.multiplier = multiplier,
           NEW cycle \in CyclesOf(FairLegs(base, payoff)),
           NEW strategy \in {"real", "no_gale", "multiplier", "recovery"}
    PROVE  /\ Simulated(strategy, cycle) \in Int /\ SumOf(LadderOf(strategy, cycle)) \in Int
           /\ Simulated(strategy, cycle) >= -SumOf(LadderOf(strategy, cycle))
<1>1. PICK n : n = Len(cycle)
  OBVIOUS
<1>2. /\ cycle \in Seq(FairLegs(base, payoff)) /\ cycle # <<>> /\ cycle[1].level = 0
      /\ n \in Nat /\ DOMAIN cycle = 1..n
  <2>1. cycle \in Seq(FairLegs(base, payoff)) /\ cycle # <<>> /\ cycle[1].level = 0
    BY DEF CyclesOf
  <2> QED
    BY <1>1, <2>1, LenProperties
<1>3. \A i \in 1..n : cycle[i] \in FairLegs(base, payoff)
  BY <1>1, <1>2, ElementOfSeq
<1>4. 1 \in 1..n
  <2>1. n # 0
    BY <1>1, <1>2, EmptySeq
  <2> QED
    BY <1>2, <2>1
<1>5. \A i \in 1..n : /\ cycle[i].stake \in Int /\ cycle[i].pnl \in Int
                      /\ cycle[i].pnl >= -cycle[i].stake
  BY <1>3 DEF FairLegs, FairRows
<1>6. cycle[1].stake = base
  BY <1>2, <1>3, <1>4 DEF FairLegs, FairRows
<1>7. base \in Nat
  BY SimulationAssumption
<1>8. PICK seen : seen = ObservedPayoff(cycle)
  OBVIOUS
<1>9. seen \in Nat \ {0} /\ seen \in Nat
  BY <1>8, SeenPayoff
<1>10. CASE strategy = "real"
  <2>1. PICK pnls, stakes : /\ pnls = [i \in DOMAIN cycle |-> cycle[i].pnl]
                            /\ stakes = [i \in DOMAIN cycle |-> cycle[i].stake]
    OBVIOUS
  <2>2. /\ pnls \in [1..n -> Int] /\ stakes \in [1..n -> Int]
        /\ \A i \in 1..n : pnls[i] = cycle[i].pnl /\ stakes[i] = cycle[i].stake
    BY <1>2, <1>5, <2>1
  <2>3. pnls \in Seq(Int) /\ stakes \in Seq(Int)
    BY <1>2, <2>2, SeqDef
  <2>4. Len(pnls) = n /\ Len(stakes) = n
    BY <1>2, <2>2, <2>3, LenProperties
  <2>5. \A i \in 1..n : pnls[i] \in Int /\ stakes[i] \in Int /\ pnls[i] >= -stakes[i]
    BY <1>5, <2>2
  <2>6. SumOf(pnls) \in Int /\ SumOf(stakes) \in Int /\ SumOf(pnls) >= -SumOf(stakes)
    BY <1>2, <2>4, <2>5, SumsCompare
  <2>7. Simulated(strategy, cycle) = SumOf(pnls) /\ LadderOf(strategy, cycle) = stakes
    BY <1>10, <2>1 DEF Simulated, LadderOf, RealPnl, Stakes
  <2> QED
    BY <2>6, <2>7
<1>11. CASE strategy = "no_gale"
  <2>1. PICK one : one = <<base>>
    OBVIOUS
  <2>2. Len(one) = 1 /\ one[1] = base /\ \A i \in 1..1 : one[i] \in Int
    BY <1>7, <2>1
  <2>3. SumOf(one) = base
    <3>1. 1 \in 1..3
      OBVIOUS
    <3> QED
      BY <2>2, <3>1, ShortSums
  <2>4. LadderOf(strategy, cycle) = one
    BY <1>6, <1>11, <2>1 DEF LadderOf
  <2>5. Simulated(strategy, cycle) \in {PayoffOf(base, seen), -base}
    BY <1>6, <1>8, <1>11 DEF Simulated
  <2>6. PayoffOf(base, seen) \in Nat
    BY <1>7, <1>9, PayoffIsNatural
  <2> QED
    BY <1>7, <2>3, <2>4, <2>5, <2>6
<1>12. CASE strategy = "multiplier"
  <2>1. PICK ladder : ladder = MultiplierLadder(base, multiplier)
    OBVIOUS
  <2>2. ladder = [i \in 1..3 |-> StakeAt(base, multiplier, i - 1)]
    BY <2>1 DEF MultiplierLadder, MaxProtections, StakeAt
  <2>3. \A i \in 1..3 : ladder[i] \in Nat
    <3> SUFFICES ASSUME NEW i \in 1..3 PROVE ladder[i] \in Nat
      OBVIOUS
    <3>1. i - 1 \in 0..2 /\ ladder[i] = StakeAt(base, multiplier, i - 1)
      BY <2>2
    <3> QED
      BY <3>1, StakesAreNatural
  <2>4. Len(ladder) = 3
    <3>1. ladder \in [1..3 -> Nat]
      BY <2>2, <2>3
    <3>2. ladder \in Seq(Nat)
      BY <3>1, SeqDef
    <3> QED
      BY <3>1, <3>2, LenProperties
  <2>5. /\ LadderOf(strategy, cycle) = ladder
        /\ Simulated(strategy, cycle) = FromLadder(Outcome(cycle), ladder, seen)
    BY <1>6, <1>8, <1>12, <2>1 DEF Simulated, LadderOf
  <2> QED
    BY <1>9, <2>3, <2>4, <2>5, LadderBounds
<1>13. CASE strategy = "recovery"
  <2>1. PICK p1 : p1 = RecoveryStake(base, target, seen)
    OBVIOUS
  <2>2. PICK p2 : p2 = RecoveryStake(base + p1, target, seen)
    OBVIOUS
  <2>3. p1 \in Nat
    BY <1>7, <1>9, <2>1, RecoveryWins
  <2>4. p2 \in Nat
    <3>1. base + p1 \in Nat
      BY <1>7, <2>3
    <3> QED
      BY <1>9, <2>2, <3>1, RecoveryWins
  <2>5. PICK ladder : ladder = <<base, p1, p2>>
    OBVIOUS
  <2>6. Len(ladder) = 3 /\ \A i \in 1..3 : ladder[i] \in Nat
    BY <1>7, <2>3, <2>4, <2>5
  <2>7. /\ LadderOf(strategy, cycle) = ladder
        /\ Simulated(strategy, cycle) = FromLadder(Outcome(cycle), ladder, seen)
    BY <1>6, <1>8, <1>13, <2>1, <2>2, <2>5 DEF Simulated, LadderOf, RecoveryLadder
  <2> QED
    BY <1>9, <2>6, <2>7, LadderBounds
<1> QED
  BY <1>10, <1>11, <1>12, <1>13

(* A sequence of integers that is not empty has a least one.                *)
LEMMA LeastOfMany ==
    ASSUME NEW n \in Nat \ {0}, NEW f, \A i \in 1..n : f[i] \in Int
    PROVE  \E k \in 1..n : \A i \in 1..n : f[k] <= f[i]
<1> DEFINE Good(m) == \E k \in 1..m : \A i \in 1..m : f[k] <= f[i]
           Odd == {m \in 1..n : ~Good(m)}
<1>1. Odd = {}
  <2> SUFFICES ASSUME Odd # {} PROVE FALSE
    OBVIOUS
  <2>1. Odd \in SUBSET Nat
    OBVIOUS
  <2>2. PICK m \in Odd : \A j \in Odd : m <= j
    <3> HIDE DEF Odd
    <3> QED
      BY <2>1, LeastNatural
  <2>3. m \in 1..n /\ ~Good(m)
    OBVIOUS
  <2>4. m # 1
    <3> SUFFICES ASSUME m = 1 PROVE FALSE
      OBVIOUS
    <3>1. 1 \in 1..1 /\ \A i \in 1..1 : f[1] <= f[i]
      OBVIOUS
    <3> QED
      BY <2>3, <3>1
  <2>5. m - 1 \in 1..n /\ ~(m <= m - 1)
    BY <2>3, <2>4
  <2>6. Good(m - 1)
    BY <2>2, <2>5
  <2>7. PICK k \in 1..(m - 1) : \A i \in 1..(m - 1) : f[k] <= f[i]
    BY <2>6
  <2>8. f[k] \in Int /\ f[m] \in Int /\ \A i \in 1..m : i \in 1..(m - 1) \/ i = m
    BY <2>3
  <2>9. CASE f[k] <= f[m]
    <3>1. \A i \in 1..m : f[k] <= f[i]
      <4> SUFFICES ASSUME NEW i \in 1..m PROVE f[k] <= f[i]
        OBVIOUS
      <4>1. f[i] \in Int
        BY <2>3
      <4>2. CASE i \in 1..(m - 1)
        <5>1. f[k] <= f[i]
          BY <2>7, <4>2
        <5> QED
          BY <2>8, <2>9, <4>1, <5>1
      <4> QED
        BY <2>8, <2>9, <4>2
    <3>2. k \in 1..m
      BY <2>3
    <3> QED
      BY <2>3, <3>1, <3>2
  <2>10. CASE ~(f[k] <= f[m])
    <3>1. \A i \in 1..m : f[m] <= f[i]
      <4> SUFFICES ASSUME NEW i \in 1..m PROVE f[m] <= f[i]
        OBVIOUS
      <4>1. f[i] \in Int
        BY <2>3
      <4>2. CASE i \in 1..(m - 1)
        <5>1. f[k] <= f[i]
          BY <2>7, <4>2
        <5> QED
          BY <2>8, <2>10, <4>1, <5>1
      <4>3. CASE i = m
        BY <2>8, <4>3
      <4> QED
        BY <2>8, <4>2, <4>3
    <3>2. m \in 1..m
      BY <2>3
    <3> QED
      BY <2>3, <3>1, <3>2
  <2> QED
    BY <2>9, <2>10
<1>2. n \in 1..n
  OBVIOUS
<1> QED
  BY <1>1, <1>2

(* What the report gives as the worst cycle and the greatest risk.          *)
LEMMA WorstIsOne ==
    ASSUME NEW n \in Nat \ {0}, NEW pnls, DOMAIN pnls = 1..n, \A i \in 1..n : pnls[i] \in Int
    PROVE  \E k \in 1..n : Min(ToSet(pnls)) = pnls[k]
<1>1. PICK S : S = {pnls[i] : i \in 1..n}
  OBVIOUS
<1>2. ToSet(pnls) = S
  BY <1>1 DEF ToSet
<1>3. \E x \in S : \A y \in S : x <= y
  <2>1. PICK k \in 1..n : \A i \in 1..n : pnls[k] <= pnls[i]
    BY LeastOfMany
  <2>2. pnls[k] \in S /\ \A y \in S : \E i \in 1..n : y = pnls[i]
    BY <1>1
  <2> QED
    BY <2>1, <2>2
<1>4. Min(S) \in S
  BY <1>3, Zenon DEF Min
<1> QED
  BY <1>1, <1>2, <1>4

(* The greatest risk is no less than any, nor than nothing.                *)
LEMMA RiskIsGreatest ==
    ASSUME NEW n \in Nat, NEW risks, DOMAIN risks = 1..n, \A i \in 1..n : risks[i] \in Int
    PROVE  /\ Max({0} \cup ToSet(risks)) \in Int /\ Max({0} \cup ToSet(risks)) >= 0
           /\ \A i \in 1..n : Max({0} \cup ToSet(risks)) >= risks[i]
<1>1. PICK S : S = {0} \cup {risks[i] : i \in 1..n}
  OBVIOUS
<1>2. {0} \cup ToSet(risks) = S
  BY <1>1 DEF ToSet
<1>3. S \in SUBSET Int
  BY <1>1
<1>4. \E x \in S : \A y \in S : x >= y
  <2>1. CASE n = 0
    BY <1>1, <2>1
  <2>2. CASE n # 0
    <3>1. PICK f : f = [i \in 1..n |-> -risks[i]]
      OBVIOUS
    <3>2. \A i \in 1..n : f[i] \in Int /\ f[i] = -risks[i]
      BY <3>1
    <3>3. PICK k \in 1..n : \A i \in 1..n : f[k] <= f[i]
      BY <2>2, <3>2, LeastOfMany
    <3>4. \A i \in 1..n : risks[k] >= risks[i]
      BY <3>2, <3>3
    <3>5. risks[k] \in S /\ 0 \in S /\ \A y \in S : y = 0 \/ \E i \in 1..n : y = risks[i]
      BY <1>1
    <3>6. CASE risks[k] >= 0
      BY <3>4, <3>5, <3>6
    <3>7. CASE ~(risks[k] >= 0)
      <4>1. \A i \in 1..n : 0 >= risks[i]
        BY <3>4, <3>7
      <4> QED
        BY <3>5, <4>1
    <3> QED
      BY <3>6, <3>7
  <2> QED
    BY <2>1, <2>2
<1>5. Max(S) \in S /\ \A y \in S : Max(S) >= y
  BY <1>4, Zenon DEF Max
<1>6. 0 \in S /\ \A i \in 1..n : risks[i] \in S
  BY <1>1
<1> QED
  BY <1>2, <1>3, <1>5, <1>6

(* No cycle loses more than the greatest risk, if each stays above its own. *)
LEMMA SummaryBounds ==
    ASSUME NEW strategy, NEW cycles, cycles = GroupCycles(book.legs),
           NEW n \in Nat, DOMAIN cycles = 1..n,
           \A i \in 1..n :
             /\ Simulated(strategy, cycles[i]) \in Int
             /\ SumOf(LadderOf(strategy, cycles[i])) \in Int
             /\ Simulated(strategy, cycles[i]) >= -SumOf(LadderOf(strategy, cycles[i]))
    PROVE  Summary(strategy).worst >= -Summary(strategy).risk
<1>1. PICK pnls, risks :
        /\ pnls = [i \in DOMAIN cycles |-> Simulated(strategy, cycles[i])]
        /\ risks = [i \in DOMAIN cycles |-> SumOf(LadderOf(strategy, cycles[i]))]
  OBVIOUS
<1>2. PICK worst, risk : /\ worst = (IF pnls = <<>> THEN 0 ELSE Min(ToSet(pnls)))
                         /\ risk = Max({0} \cup ToSet(risks))
  OBVIOUS
<1>3. Summary(strategy).worst = worst /\ Summary(strategy).risk = risk
  BY <1>1, <1>2 DEF Summary
<1>4. /\ DOMAIN pnls = 1..n /\ DOMAIN risks = 1..n
      /\ \A i \in 1..n : pnls[i] \in Int /\ risks[i] \in Int /\ pnls[i] >= -risks[i]
  BY <1>1
<1>5. risk \in Int /\ risk >= 0 /\ \A i \in 1..n : risk >= risks[i]
  BY <1>2, <1>4, RiskIsGreatest
<1>6. CASE pnls = <<>>
  BY <1>2, <1>3, <1>5, <1>6
<1>7. CASE pnls # <<>>
  <2>1. n # 0
    <3> SUFFICES ASSUME n = 0 PROVE FALSE
      OBVIOUS
    <3>1. DOMAIN pnls = {}
      BY <1>4
    <3>2. pnls = <<>>
      BY <1>1, <3>1
    <3> QED
      BY <1>7, <3>2
  <2>2. PICK k \in 1..n : worst = pnls[k]
    BY <1>2, <1>4, <1>7, <2>1, WorstIsOne
  <2>3. pnls[k] \in Int /\ risks[k] \in Int /\ pnls[k] >= -risks[k] /\ risk >= risks[k]
    BY <1>4, <1>5
  <2> QED
    BY <1>3, <1>5, <2>2, <2>3
<1> QED
  BY <1>6, <1>7

(* Of every book, the empty one and untidy ones included.                  *)
LEMMA ReportsAreBounded ==
    ASSUME SimulationInit, NEW strategy \in {"real", "no_gale", "multiplier", "recovery"}
    PROVE  Summary(strategy).worst >= -Summary(strategy).risk
<1>1. PICK cycles : cycles = GroupCycles(book.legs)
  OBVIOUS
<1>2. CASE book = EmptyBook
  <2>1. PICK legs : legs = book.legs
    OBVIOUS
  <2>2. legs = <<>> /\ Len(legs) = 0
    BY <1>2, <2>1 DEF EmptyBook
  <2>3. FoundIn(legs)[0] = [cycles |-> <<>>, current |-> <<>>]
    <3>1. Len(legs) \in Nat /\ 0 \in 0..Len(legs)
      BY <2>2
    <3> QED
      BY <3>1, FoundByIndex, Zenon
  <2>4. cycles = <<>>
    BY <1>1, <2>1, <2>2, <2>3 DEF GroupCycles, Filed
  <2>5. 0 \in Nat /\ DOMAIN cycles = 1..0 /\ \A i \in 1..0 : FALSE
    BY <2>4
  <2> QED
    BY <1>1, <2>5, SummaryBounds
<1>3. CASE book # EmptyBook
  <2>1. PICK base, multiplier, payoff, target, one, two, first, second :
          Reported(base, multiplier, payoff, target, one, two, first, second)
    BY <1>3, ReportOfLadders, Zenon
  <2>2. /\ base \in BaseStakes /\ multiplier \in Multipliers
        /\ payoff \in Payoffs /\ target \in Targets
        /\ book.legs \in Seq(FairLegs(base, payoff))
        /\ book.target = target /\ book.multiplier = multiplier
    BY <2>1, Zenon DEF Reported
  <2>3. payoff \in Nat /\ target \in Nat
    BY <2>2, SimulationAssumption
  <2>4. \A leg \in FairLegs(base, payoff) : leg.level \in 0..2
    BY DEF FairLegs, FairRows
  <2>5. cycles \in Seq(CyclesOf(FairLegs(base, payoff)))
    BY <1>1, <2>2, <2>4, LegsAreGrouped, Zenon
  <2>6. PICK n : n = Len(cycles)
    OBVIOUS
  <2>7. n \in Nat /\ DOMAIN cycles = 1..n
    BY <2>5, <2>6, LenProperties
  <2>8. \A i \in 1..n : cycles[i] \in CyclesOf(FairLegs(base, payoff))
    BY <2>5, <2>6, ElementOfSeq
  <2>9. \A i \in 1..n :
          /\ Simulated(strategy, cycles[i]) \in Int
          /\ SumOf(LadderOf(strategy, cycles[i])) \in Int
          /\ Simulated(strategy, cycles[i]) >= -SumOf(LadderOf(strategy, cycles[i]))
    BY <2>2, <2>3, <2>8, CycleBounds
  <2> QED
    BY <1>1, <2>7, <2>9, SummaryBounds
<1> QED
  BY <1>2, <1>3

(* The replay is true to the cycles it replays, to the cent, whatever the   *)
(* stakes, the multiplier, the payoff and the target are.  Left out are the *)
(* cycles the report cannot tell the outcome of: those that ended in a draw *)
(* or with a lost first protection.                                         *)
THEOREM ReplayHolds == SimulationSpec => []ReplayIsTrue
<1> DEFINE TrueCycle(cycle) ==
        /\ ~Unclassified(cycle) => Simulated("multiplier", cycle) = RealPnl(cycle)
        /\ Outcome(cycle) \in {"win_p1", "win_p2"}
             => Simulated("recovery", cycle) >= book.target
<1>1. ASSUME SimulationInit, Tidy
      PROVE  \A cycle \in ToSet(GroupCycles(book.legs)) : TrueCycle(cycle)
  <2>1. book # EmptyBook
    <3>1. EmptyBook.apart = FALSE
      BY DEF EmptyBook
    <3> QED
      BY <1>1, <3>1, Zenon DEF Tidy
  <2>2. PICK base, multiplier, payoff, target, one, two, first, second :
          Reported(base, multiplier, payoff, target, one, two, first, second)
    BY <1>1, <2>1, ReportOfLadders, Zenon
  <2>3. /\ base \in BaseStakes /\ multiplier \in Multipliers
        /\ payoff \in Payoffs /\ target \in Targets
        /\ Played(one, first, base, multiplier, payoff)
        /\ Played(two, second, base, multiplier, payoff)
        /\ book.target = target /\ book.multiplier = multiplier
    BY <2>2, Zenon DEF Reported
  <2>4. PICK left, right : left = Listed(one) /\ right = Listed(two)
    OBVIOUS
  <2>5. /\ Played(left, 0, base, multiplier, payoff) /\ Rungs(left)
        /\ Played(right, 0, base, multiplier, payoff) /\ Rungs(right)
        /\ GroupCycles(book.legs) = <<left, right>>
    <3>1. Tidy
      BY <1>1
    <3> QED
      BY <2>2, <2>4, <3>1, TidyCycles, Zenon
  <2>6. payoff \in Nat /\ target \in Nat
    BY <2>3, SimulationAssumption
  <2>7. ASSUME NEW cycle, Played(cycle, 0, base, multiplier, payoff), Rungs(cycle)
        PROVE  TrueCycle(cycle)
    <3>1. Len(cycle) \in 1..3
      BY <2>7, Zenon DEF Rungs
    <3>2. PICK n \in 1..3 : Climbs(cycle, n, base, multiplier, payoff)
      BY <2>3, <2>7, <3>1, LaddersClimb, Zenon
    <3>3. ~Unclassified(cycle) => Simulated("multiplier", cycle) = RealPnl(cycle)
      BY <2>3, <2>6, <3>2, ReplayOfLadder, Zenon
    <3>4. Outcome(cycle) \in {"win_p1", "win_p2"} => Simulated("recovery", cycle) >= target
      BY <2>3, <2>6, <3>2, RecoveryOfLadder, Zenon
    <3> QED
      BY <2>3, <3>3, <3>4
  <2>8. TrueCycle(left) /\ TrueCycle(right)
    BY <2>5, <2>7, Zenon
  <2> HIDE DEF TrueCycle
  <2>9. \A cycle \in ToSet(<<left, right>>) : cycle = left \/ cycle = right
    BY DEF ToSet
  <2> QED
    BY <2>5, <2>8, <2>9, Zenon
<1>2. ASSUME SimulationInit PROVE ReplayIsTrue
  BY <1>1, <1>2, ReportsAreBounded, Zenon DEF ReplayIsTrue
<1>3. ReplayIsTrue /\ [UNCHANGED book]_book => ReplayIsTrue'
  <2> SUFFICES ASSUME ReplayIsTrue, book' = book PROVE ReplayIsTrue'
    OBVIOUS
  <2>1. Tidy' = Tidy
    BY DEF Tidy
  <2>2. \A strategy, cycle : LadderOf(strategy, cycle)' = LadderOf(strategy, cycle)
    BY Zenon DEF LadderOf
  <2>3. \A strategy, cycle : Simulated(strategy, cycle)' = Simulated(strategy, cycle)
    BY Zenon DEF Simulated, LadderOf
  <2>4. \A strategy : Summary(strategy)' = Summary(strategy)
    <3> SUFFICES ASSUME NEW strategy PROVE Summary(strategy)' = Summary(strategy)
      OBVIOUS
    <3>1. PICK cycles : cycles = GroupCycles(book.legs)
      OBVIOUS
    <3>2. GroupCycles(book.legs)' = cycles
      BY <3>1
    <3>3. [i \in DOMAIN cycles |-> Simulated(strategy, cycles[i])'] =
          [i \in DOMAIN cycles |-> Simulated(strategy, cycles[i])]
      BY <2>3
    <3>4. [i \in DOMAIN cycles |-> SumOf(LadderOf(strategy, cycles[i]))'] =
          [i \in DOMAIN cycles |-> SumOf(LadderOf(strategy, cycles[i]))]
      BY <2>2
    <3> QED
      BY <3>1, <3>2, <3>3, <3>4 DEF Summary
  <2> QED
    BY <2>1, <2>3, <2>4, Zenon DEF ReplayIsTrue
<1> QED
  BY <1>2, <1>3, PTL DEF SimulationSpec
=============================================================================
