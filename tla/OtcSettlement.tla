--------------------------- MODULE OtcSettlement ---------------------------
(***************************************************************************)
(* How the OTC broker opens a binary option and learns its result: the     *)
(* instrument, the order, the position id, and the poll of positions and   *)
(* history until a deadline.                                               *)
(*                                                                         *)
(* otc/broker.py, otc/mcp_client.py, otc/iqoption_client.py and            *)
(* sleep_until of otc/schedule.py.  The exchange is external: it may       *)
(* accept what it answers with an error, and lists and reports as late as  *)
(* it likes.  The dry run is left out.                                     *)
(*                                                                         *)
(* The profit of a binary is represented by the binary itself, so that a   *)
(* result attributed to the wrong order shows.                             *)
(***************************************************************************)
EXTENDS Integers, Sequences, FiniteSets

CONSTANTS
    Legs,          \* the binaries opened here, each by the process of its sequence
    Others,        \* further binaries of the account: earlier ones and parallel ones
    Kinds,         \* pairs of an asset and an amount
    Duration,      \* of a binary, from the signal
    NextTimes,     \* when the next protection of a leg may be due, NoNext included
    NoNext,
    Offers,        \* the lists of windows get_instruments may answer with
    HistoryLimit,  \* rows of history in one answer
    Grace,         \* SETTLEMENT_GRACE_AFTER_DEADLINE_SECONDS
    Extra,         \* SETTLEMENT_MAX_EXTRA_SECONDS
    Transports,    \* of the installations considered: "mcp", "legacy"
    LastOpening,   \* bound: no leg begins later
    LastTick,      \* bound: the clock
    MaxCallFaults, \* bound: calls that fail
    Nothing        \* None

Bets == Legs \cup Others

ASSUME SettlementAssumption ==
    /\ IsFiniteSet(Bets) /\ Legs \cap Others = {}
    /\ Nothing \notin Bets
    /\ NextTimes \subseteq Nat \cup {NoNext} /\ NoNext \notin Nat
    /\ Duration \in Nat \ {0} /\ Grace \in Nat /\ Extra \in Nat
    /\ HistoryLimit \in Nat /\ MaxCallFaults \in Nat
    /\ LastOpening \in Nat /\ LastTick \in Nat
    /\ \A offer \in Offers : \A i \in DOMAIN offer :
           offer[i].deadline \in Nat /\ offer[i].expiration \in Nat

VARIABLES
    tick,       \* the clock
    bet,        \* the asset and the amount of each binary
    nextAt,     \* next_martingale_entry_at of each leg
    transport,  \* otc_transport()
    step,       \* where each leg stands in open_binary and wait_settlement
    ticket,     \* OtcSettlementContext: is the order id known, the position id, the hard deadline
    learned,    \* _mcp_open_position_ids of the leg's order
    result,     \* what a poll found
    answer,     \* what wait_settlement returned
    market,     \* the exchange's side of each binary
    expires,    \* when each binary is decided
    history,    \* the exchange's history, newest first
    session,    \* the MCP session of each leg's process
    callFaults, \* bound: calls that failed so far
    noticed     \* history: legs whose own row was in the history they last read

settlementVars == <<tick, bet, nextAt, transport, step, ticket, learned, result, answer,
                    market, expires, history, session, callFaults, noticed>>

exchangeVars == <<market, expires, history>>

Steps == {"idle", "placing", "resolving", "positions", "history", "clock",
          "sleeping", "done", "refused", "raised"}

NoTicket == [id |-> FALSE, position |-> Nothing, hard |-> 0]

SettlementTypeOK ==
    /\ tick \in Nat /\ bet \in [Bets -> Kinds] /\ nextAt \in [Legs -> NextTimes]
    /\ transport \in Transports
    /\ step \in [Legs -> Steps]
    /\ ticket \in [Legs -> [id : BOOLEAN, position : Bets \cup {Nothing}, hard : Nat]]
    /\ learned \in [Legs -> Bets \cup {Nothing}]
    /\ result \in [Legs -> Bets \cup {Nothing}]
    /\ answer \in [Legs -> Bets \cup {Nothing}]
    /\ market \in [Bets -> {"none", "accepted", "open", "decided", "reported"}]
    /\ expires \in [Bets -> Nat]
    /\ history \in Seq(Bets)
    /\ session \in [Legs -> {"none", "live", "forgotten"}]
    /\ callFaults \in 0..MaxCallFaults
    /\ noticed \subseteq Legs

(* Some of the other binaries are settled before.                           *)
SettlementInit ==
    /\ tick = 0 /\ bet \in [Bets -> Kinds] /\ nextAt \in [Legs -> NextTimes]
    /\ transport \in Transports
    /\ step = [l \in Legs |-> "idle"]
    /\ ticket = [l \in Legs |-> NoTicket]
    /\ learned = [l \in Legs |-> Nothing]
    /\ result = [l \in Legs |-> Nothing]
    /\ answer = [l \in Legs |-> Nothing]
    /\ \E settled \in SUBSET Others :
         /\ market = [b \in Bets |-> IF b \in settled THEN "reported" ELSE "none"]
         /\ history \in {h \in [1..Cardinality(settled) -> settled] :
                            \A i, j \in DOMAIN h : h[i] = h[j] => i = j}
    /\ expires = [b \in Bets |-> 0]
    /\ session = [l \in Legs |-> "none"]
    /\ callFaults = 0
    /\ noticed = {}

(* Same asset and same amount: what the broker compares when ids fail.      *)
SameBet(a, b) == bet[a] = bet[b]

Goto(l, s) == step' = [step EXCEPT ![l] = s]

-----------------------------------------------------------------------------
(* The client: _ensure_session and _post.  An id, once given by the server, *)
(* is sent with every later request of the process and never dropped, so a  *)
(* session the server has forgotten fails every call from then on.          *)
CallSucceeds(l) ==
    /\ session[l] # "forgotten"
    /\ session' = [session EXCEPT ![l] = "live"]
    /\ UNCHANGED callFaults

(* "exchange" is ExchangeError (a tool's error, a bad payload, a token      *)
(* refused); "http" a timeout or a status that httpx raises itself.         *)
CallFails(l, kind) ==
    \/ /\ callFaults < MaxCallFaults
       /\ callFaults' = callFaults + 1
       /\ session' \in {session, [session EXCEPT ![l] = "live"]}
    \/ /\ session[l] = "forgotten"
       /\ kind = "http"
       /\ UNCHANGED <<callFaults, session>>

(* The server's side of a session ends.                                     *)
ForgetSession(l) ==
    /\ session[l] = "live"
    /\ callFaults < MaxCallFaults
    /\ callFaults' = callFaults + 1
    /\ session' = [session EXCEPT ![l] = "forgotten"]
    /\ UNCHANGED <<tick, bet, nextAt, transport, step, ticket, learned, result, answer,
                   noticed>>
    /\ UNCHANGED exchangeVars

(* mcp_pick_instrument: the window of the right period that is still open   *)
(* and expires first; for want of one, any period, and a closed window.     *)
PickWindow(offer, now) ==
    LET right == SelectSeq(offer, LAMBDA w : w.period = Duration)
        candidates == IF right = <<>> THEN offer ELSE right
        open == SelectSeq(candidates, LAMBDA w : w.deadline > now)
    IN  IF open = <<>>
        THEN candidates[1]
        ELSE CHOOSE w \in {open[i] : i \in DOMAIN open} :
                \A i \in DOMAIN open : w.expiration <= open[i].expiration

-----------------------------------------------------------------------------
(* The exchange takes the order for a window, or does not.                  *)
Accept(l, expiration) ==
    /\ market' = [market EXCEPT ![l] = "accepted"]
    /\ expires' = [expires EXCEPT ![l] = expiration]
    /\ UNCHANGED history

(* fetch_mcp_balance, mcp_find_asset_id: without them nothing is ordered.   *)
Prepare(l) ==
    /\ step[l] = "idle" /\ transport = "mcp" /\ tick <= LastOpening
    /\ \/ CallSucceeds(l) /\ Goto(l, "placing")
       \/ CallFails(l, "exchange") /\ Goto(l, "refused")
       \/ CallFails(l, "http") /\ Goto(l, "raised")
    /\ UNCHANGED <<tick, bet, nextAt, transport, ticket, learned, result, answer, noticed>>
    /\ UNCHANGED exchangeVars

(* get_instruments and place_trade: the answer may lack an order id, and an *)
(* error may hide an order that was accepted.                               *)
PlaceTrade(l) ==
    /\ step[l] = "placing"
    /\ \/ \E offer \in Offers, id \in BOOLEAN :
            /\ offer # <<>>
            /\ CallSucceeds(l)
            /\ Accept(l, PickWindow(offer, tick).expiration)
            /\ ticket' = [ticket EXCEPT ![l].id = id]
            /\ Goto(l, "resolving")
       \/ /\ <<>> \in Offers
          /\ CallSucceeds(l) /\ Goto(l, "refused")
          /\ UNCHANGED ticket /\ UNCHANGED exchangeVars
       \/ \E kind \in {"exchange", "http"} :
            /\ CallFails(l, kind)
            /\ Goto(l, IF kind = "http" THEN "raised" ELSE "refused")
            /\ UNCHANGED ticket
            /\ \/ UNCHANGED exchangeVars
               \/ \E offer \in Offers \ {<<>>} :
                    Accept(l, PickWindow(offer, tick).expiration)
    /\ UNCHANGED <<tick, bet, nextAt, transport, learned, result, answer, noticed>>

Open(b) == market[b] = "open"

(* The positions list_positions could name first for this order: those of   *)
(* the same bet, and of the same order where its id is known.               *)
PositionsOf(l) == {b \in Bets : Open(b) /\ SameBet(l, b) /\ (ticket[l].id => b = l)}

(* _resolve_mcp_position_id, and the deadline at the head of wait_settlement. *)
ResolvePosition(l) ==
    /\ step[l] = "resolving"
    /\ \/ /\ CallSucceeds(l)
          /\ \E p \in IF PositionsOf(l) = {} THEN {Nothing} ELSE PositionsOf(l) :
               ticket' = [ticket EXCEPT ![l].position = p,
                                        ![l].hard = tick + Duration + Extra]
          /\ Goto(l, "positions")
       \/ /\ CallFails(l, "exchange")
          /\ ticket' = [ticket EXCEPT ![l].hard = tick + Duration + Extra]
          /\ Goto(l, "positions")
       \/ CallFails(l, "http") /\ Goto(l, "raised") /\ UNCHANGED ticket
    /\ UNCHANGED <<tick, bet, nextAt, transport, learned, result, answer, noticed>>
    /\ UNCHANGED exchangeVars

(* _open_binary_legacy: any exception of buy is raised.                     *)
Buy(l) ==
    /\ step[l] = "idle" /\ transport = "legacy" /\ tick <= LastOpening
    /\ \/ /\ Accept(l, tick + Duration)
          /\ ticket' = [ticket EXCEPT ![l] = [id |-> TRUE, position |-> Nothing,
                                              hard |-> tick + Duration + Extra]]
          /\ Goto(l, "positions")
          /\ UNCHANGED callFaults
       \/ /\ Goto(l, "refused")
          /\ UNCHANGED <<ticket, callFaults>> /\ UNCHANGED exchangeVars
       \/ /\ callFaults < MaxCallFaults /\ callFaults' = callFaults + 1
          /\ Goto(l, "raised")
          /\ Accept(l, tick + Duration) \/ UNCHANGED exchangeVars
          /\ UNCHANGED ticket
    /\ UNCHANGED <<tick, bet, nextAt, transport, learned, result, answer, session,
                   noticed>>

-----------------------------------------------------------------------------
(* _poll_settlement_mcp_once up to the history: while any open position is  *)
(* of the same bet its id is remembered and the result is awaited, also     *)
(* when the position is another order's.                                    *)
PollPositions(l) ==
    /\ step[l] = "positions" /\ transport = "mcp"
    /\ LET twins == {b \in Bets : Open(b) /\ SameBet(l, b)}
       IN  \/ /\ twins # {}
              /\ CallSucceeds(l)
              /\ \E b \in twins : learned' = [learned EXCEPT ![l] = b]
              /\ Goto(l, "clock")
           \/ twins = {} /\ CallSucceeds(l) /\ Goto(l, "history") /\ UNCHANGED learned
           \/ CallFails(l, "exchange") /\ Goto(l, "clock") /\ UNCHANGED learned
           \/ CallFails(l, "http") /\ Goto(l, "raised") /\ UNCHANGED learned
    /\ noticed' = noticed \ {l}
    /\ UNCHANGED <<tick, bet, nextAt, transport, ticket, result, answer>>
    /\ UNCHANGED exchangeVars

(* The rows of an answer to get_trade_history.                              *)
RecentRows == SubSeq(history, 1, IF Len(history) < HistoryLimit THEN Len(history)
                                                              ELSE HistoryLimit)

(* Mutants of Matched: an open twin's row is taken in spite of the position *)
(* id; a row is taken for its id alone.                                     *)
MatchedByBet(l) ==
    LET rows == SelectSeq(RecentRows, LAMBDA b : SameBet(l, b))
    IN  IF rows = <<>> THEN Nothing ELSE rows[1]
MatchedById(l) ==
    IF ticket[l].id /\ \E i \in DOMAIN RecentRows : RecentRows[i] = l THEN l ELSE Nothing

(* The row taken for the order: by position id if one is known, else the    *)
(* first that has the order's id or is of the same bet.                     *)
Matched(l) ==
    LET position == IF ticket[l].position # Nothing THEN ticket[l].position ELSE learned[l]
        fits == {i \in DOMAIN RecentRows :
                    IF position # Nothing
                    THEN RecentRows[i] = position
                    ELSE (ticket[l].id /\ RecentRows[i] = l) \/ SameBet(l, RecentRows[i])}
    IN  IF fits = {} THEN Nothing
        ELSE RecentRows[CHOOSE i \in fits : \A j \in fits : i <= j]

(* The rest of it: here no error is caught.                                 *)
PollHistory(l) ==
    /\ step[l] = "history"
    /\ \/ /\ CallSucceeds(l)
          /\ result' = [result EXCEPT ![l] = Matched(l)]
          /\ noticed' = IF \E i \in DOMAIN RecentRows : RecentRows[i] = l
                        THEN noticed \cup {l} ELSE noticed
          /\ Goto(l, "clock")
       \/ \E kind \in {"exchange", "http"} :
            CallFails(l, kind) /\ Goto(l, "raised") /\ UNCHANGED <<result, noticed>>
    /\ UNCHANGED <<tick, bet, nextAt, transport, ticket, learned, answer>>
    /\ UNCHANGED exchangeVars

(* _poll_settlement_legacy_once: errors read as no result yet.              *)
PollLegacy(l) ==
    /\ step[l] = "positions" /\ transport = "legacy"
    /\ \/ /\ market[l] = "reported"
          /\ result' = [result EXCEPT ![l] = l]
          /\ noticed' = noticed \cup {l}
          /\ UNCHANGED callFaults
       \/ market[l] # "reported" /\ UNCHANGED <<result, noticed, callFaults>>
       \/ /\ callFaults < MaxCallFaults /\ callFaults' = callFaults + 1
          /\ UNCHANGED <<result, noticed>>
    /\ Goto(l, "clock")
    /\ UNCHANGED <<tick, bet, nextAt, transport, ticket, learned, answer, session>>
    /\ UNCHANGED exchangeVars

(* Mutant of Expired: no hard deadline.                                     *)
ExpiredByNextOnly(l) == nextAt[l] # NoNext /\ tick >= nextAt[l] + Grace

(* wait_settlement gives up at the grace after the next leg's time or at the *)
(* hard deadline of the binary's duration, whichever comes first.           *)
Expired(l) ==
    \/ nextAt[l] # NoNext /\ tick >= nextAt[l] + Grace
    \/ tick >= ticket[l].hard

TooEarly(l) == nextAt[l] # NoNext /\ tick < nextAt[l]

(* The rest of the loop's body, after the clock was read.                   *)
LookAtClock(l) ==
    /\ step[l] = "clock"
    /\ \/ /\ result[l] # Nothing /\ TooEarly(l)
          /\ Goto(l, "sleeping") /\ UNCHANGED answer
       \/ /\ result[l] # Nothing /\ ~TooEarly(l)
          /\ Goto(l, "done") /\ answer' = [answer EXCEPT ![l] = result[l]]
       \/ /\ result[l] = Nothing /\ Expired(l)
          /\ Goto(l, "done") /\ UNCHANGED answer
       \/ /\ result[l] = Nothing /\ ~Expired(l)
          /\ Goto(l, "positions") /\ UNCHANGED answer
    /\ UNCHANGED <<tick, bet, nextAt, transport, ticket, learned, result, session,
                   callFaults, noticed>>
    /\ UNCHANGED exchangeVars

(* sleep_until: a coarse sleep, then polls of the clock.                    *)
WakeForNext(l) ==
    /\ step[l] = "sleeping" /\ ~TooEarly(l)
    /\ Goto(l, "done")
    /\ answer' = [answer EXCEPT ![l] = result[l]]
    /\ UNCHANGED <<tick, bet, nextAt, transport, ticket, learned, result, session,
                   callFaults, noticed>>
    /\ UNCHANGED exchangeVars

-----------------------------------------------------------------------------
(* The exchange: a binary is listed, decided and reported in its own time.  *)
ListPosition(b) == /\ market[b] = "accepted" /\ tick < expires[b]
                   /\ market' = [market EXCEPT ![b] = "open"] /\ UNCHANGED history

Decide(b) == /\ market[b] \in {"accepted", "open"} /\ tick >= expires[b]
             /\ market' = [market EXCEPT ![b] = "decided"] /\ UNCHANGED history

Report(b) == /\ market[b] = "decided"
             /\ market' = [market EXCEPT ![b] = "reported"]
             /\ history' = <<b>> \o history

(* Another process, or a person, opens a binary on the same account.        *)
OtherOpens(b) ==
    /\ b \in Others /\ market[b] = "none" /\ tick <= LastOpening
    /\ Accept(b, tick + Duration)

Exchange ==
    /\ \E b \in Bets :
         \/ OtherOpens(b)
         \/ (ListPosition(b) \/ Decide(b) \/ Report(b)) /\ UNCHANGED expires
    /\ UNCHANGED <<tick, bet, nextAt, transport, step, ticket, learned, result, answer,
                   session, callFaults, noticed>>

(* An opening is over, for the bound of the clock, by LastOpening.          *)
PassTime ==
    /\ tick < LastTick
    /\ tick >= LastOpening => \A l \in Legs : step[l] \notin {"placing", "resolving"}
    /\ tick' = tick + 1
    /\ UNCHANGED <<bet, nextAt, transport, step, ticket, learned, result, answer, session,
                   callFaults, noticed>>
    /\ UNCHANGED exchangeVars

SettlementMoves(l) ==
    \/ Prepare(l) \/ PlaceTrade(l) \/ ResolvePosition(l) \/ Buy(l)
    \/ PollPositions(l) \/ PollHistory(l) \/ PollLegacy(l)
    \/ LookAtClock(l) \/ WakeForNext(l)

(* Nothing is left to happen: the clock has reached its bound.              *)
SettlementQuiet ==
    /\ tick = LastTick
    /\ UNCHANGED settlementVars

SettlementNext ==
    \/ \E l \in Legs : SettlementMoves(l) \/ ForgetSession(l)
    \/ Exchange
    \/ PassTime
    \/ SettlementQuiet

SettlementSpec == SettlementInit /\ [][SettlementNext]_settlementVars

(* A process that waits goes on, and time passes.                           *)
SettlementFairSpec ==
    /\ SettlementSpec
    /\ \A l \in Legs : WF_settlementVars(SettlementMoves(l))
    /\ WF_settlementVars(PassTime)

-----------------------------------------------------------------------------
(* A result belongs to its order, unless the order was not identified at    *)
(* its opening and another of the same asset and amount stood in for it.    *)
OwnResult ==
    \A l \in Legs : answer[l] # Nothing =>
        \/ answer[l] = l
        \/ /\ SameBet(l, answer[l])
           /\ ~(ticket[l].id /\ ticket[l].position # Nothing)

(* An order whose bet is like no other takes its result as soon as a poll   *)
(* of the history holds it: ids that were missing at the opening, failed    *)
(* calls and forgotten sessions only delay the poll.                        *)
VisibleResultIsTaken ==
    \A l \in noticed :
        (\A b \in Bets \ {l} : ~SameBet(l, b)) => result[l] = l

(* An order that was begun is refused, fails or is settled in the end: the  *)
(* poll has an end whatever the exchange lists, reports or refuses.         *)
SettlementEnds ==
    \A l \in Legs : []<>(step[l] \in {"idle", "refused", "raised", "done"})
=============================================================================
