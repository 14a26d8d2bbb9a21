------------------------------ MODULE MCDesk ------------------------------
(***************************************************************************)
(* The parts of the desk around its executors, one at a time: the          *)
(* settlement of a binary, the intake of the signal room, the scan and its *)
(* throttle, the handler of the Tasso channel, the report on past ladders, *)
(* the reading of a chart, the score of a context.  They share no state,   *)
(* so "part", chosen initially, says which one moves; the others rest as   *)
(* they start.  The scan is two of them: the beat's scans, any of which    *)
(* may fail while the settings change, and the beat's with the panel's     *)
(* beside them, when none fails and nothing is saved.                      *)
(***************************************************************************)
EXTENDS OtcSettlement, OtcIntake, ScanScheduler, MCOtcSimulation, DivapDetection,
        ContextScore, TassoListener

CONSTANTS leg, other, twin, single, w1, w2, divap, fast, room, curto1, long1

VARIABLE part

Parts == {"settlement", "intake", "scan", "panel", "tasso", "simulation", "chart", "context"}

-----------------------------------------------------------------------------
(* One binary and another of the account, which may be its twin.            *)
MCOffers ==
    {<<>>,
     <<[period |-> 2, deadline |-> 1, expiration |-> 3],
       [period |-> 2, deadline |-> 1, expiration |-> 2]>>,
     <<[period |-> 1, deadline |-> 0, expiration |-> 1]>>}

(* A signal, a remark; the room and a group of the same tail.               *)
MCSignalText ==
    <<[says |-> "entrada", value |-> "none"], [says |-> "asset", value |-> "EURUSD"],
      [says |-> "direction", value |-> "CALL"]>>
MCSource == [form |-> "channel", tail |-> 1]
MCPosts ==
    {[chat |-> [form |-> "plain", tail |-> 1], text |-> MCSignalText],
     [chat |-> [form |-> "plain", tail |-> 1], text |-> SubSeq(MCSignalText, 2, 3)],
     [chat |-> [form |-> "group", tail |-> 1], text |-> MCSignalText]}

(* A profile listed twice, one with a shorter interval, one that no scan is *)
(* for.                                                                     *)
MCActiveChoices == {<<divap, fast, divap>>, <<room, fast>>}
MCRaisingChoices == {{}, {divap}, {fast}}
MCPairs == [p \in Profiles |-> <<"1h">>]
MCScanEvery == [p \in Profiles |-> IF p = fast THEN 1 ELSE 2]
MCMonitorEvery == [p \in Profiles |-> 1]

(* A keyboard of one button to a row, and one with two buttons in a row,    *)
(* whichever comes first.                                                   *)
MCKeyboards ==
    {[teaser |-> <<<<"details">>, <<"other">>>>, prompt |-> <<<<"refuse">>, <<"accept">>>>],
     [teaser |-> <<<<"other", "details">>>>, prompt |-> <<<<"refuse", "accept">>>>],
     [teaser |-> <<<<"other">>, <<"details">>>>, prompt |-> <<<<"accept", "refuse">>>>]}

MCCapChanges == {-3, 0, 3}
MCHighFrames == {<<5, 5>>, <<1, 2, 3, 4, 5>>, <<5, 4, 3, 2, 1>>, <<3, 3, 3, 3, 3, 3>>}

-----------------------------------------------------------------------------
(* Charts of seven candles on three levels, near a high price and over a    *)
(* range that is wide for a low one; and one that broadens both ways.       *)
MCPaths == {path \in [1..7 -> 0..3] :
                path[1] = 1 /\ path[7] \in {1, 3} /\ \A i \in 2..6 : path[i] # 3}
MCBroadening == <<2, 1, 2, 1, 0, 3, 1>>
MCScales == {<<2000, 1>>, <<30, 10>>}

(* Open, close, low and high of the last two candles about their level.     *)
MCPlain == <<-1, 1, -2, 2>>
MCDrop == <<1, -1, -2, 2>>
MCEndings ==
    {<<MCPlain, <<2, -2, -2, 2>>>>, <<MCDrop, <<-2, 2, -2, 2>>>>, <<MCDrop, <<1, 2, -2, 2>>>>,
     <<MCPlain, <<0, 0, -2, 2>>>>, <<MCPlain, MCDrop>>, <<MCPlain, <<-2, -1, -2, 2>>>>}

MCCandle(scale, level, shape, volume) ==
    LET price(offset) == scale[1] + scale[2] * (3 * level + offset)
    IN  [open |-> price(shape[1]), close |-> price(shape[2]), low |-> price(shape[3]),
         high |-> price(shape[4]), volume |-> volume]

(* The RSI rises with little volume, falls with much.                       *)
MCReadings ==
    {<<[i \in 1..7 |-> IF i <= 3 THEN 0 ELSE 1], 1>>,
     <<[i \in 1..7 |-> IF i <= 3 THEN 1 ELSE 0], 2>>}

(* It diverges from both sides of the broadening path.                      *)
MCBothWays == <<[i \in 1..7 |-> IF i \in {3, 5} THEN 1 ELSE 0], 2>>

MCChart(path, scale, ending, reading) ==
    [candles |-> [i \in 1..7 |-> MCCandle(scale, path[i],
                        IF i < 6 THEN MCPlain ELSE ending[i - 5],
                        IF i < 7 THEN 1 ELSE reading[2])],
     rsi |-> reading[1]]

MCShortChart ==
    [candles |-> <<MCCandle(<<30, 10>>, 0, MCPlain, 1)>>, rsi |-> <<NoRsi>>]

MCCharts ==
    {MCShortChart}
      \cup {MCChart(MCBroadening, scale, ending, MCBothWays) :
                scale \in MCScales, ending \in MCEndings}
      \cup {MCChart(path, scale, ending, reading) : path \in MCPaths, scale \in MCScales,
                ending \in MCEndings, reading \in MCReadings}

-----------------------------------------------------------------------------
SettlementRests == SettlementInit /\ bet = [b \in Bets |-> twin] /\ market[other] = "none"
                   /\ nextAt = [l \in Legs |-> NoNext] /\ transport = "mcp"
IntakeRests     == IntakeInit /\ listener.mode = "bot"
ScanRests       == \* a scan has just ended
    /\ active = <<room, fast>> /\ raising = {} /\ tasks = <<>> /\ scanFaults = 0
    /\ worker = [w \in Scanners |-> Resting] /\ alerts = [s \in Setups |-> <<>>]
    /\ lastScan = [p \in Profiles |-> IF p = fast THEN 0 ELSE Never] /\ lastAny = 0
    /\ lastMonitor = [p \in Profiles |-> Never]
BookRests       == book = EmptyBook
ChartRests      == chart = MCShortChart
ContextRests    ==
    situation = [direction |-> "buy", lowFrame |-> FALSE, fearGreed |-> Unavailable,
                 capChange |-> Unavailable, daily |-> Unavailable, weekly |-> Unavailable,
                 badNews |-> FALSE, strongDollar |-> FALSE]

DeskInit ==
    /\ part \in Parts
    /\ IF part = "settlement" THEN SettlementInit /\ bet[leg] = twin ELSE SettlementRests
    /\ IF part = "intake" THEN IntakeInit ELSE IntakeRests
    /\ IF part \in {"scan", "panel"} THEN ScanInit ELSE ScanRests
    /\ part = "panel" => raising = {}
    /\ TassoInit
    /\ IF part = "simulation" THEN SimulationInit ELSE BookRests
    /\ IF part = "chart" THEN DetectionInit ELSE ChartRests
    /\ IF part = "context" THEN ContextInit ELSE ContextRests

inputVars == <<book, chart, situation>>
deskVars == <<part, settlementVars, intakeVars, scanVars, tassoVars, inputVars>>

OnlySettlement ==
    part = "settlement" /\ UNCHANGED <<part, intakeVars, scanVars, tassoVars, inputVars>>
OnlyIntake ==
    part = "intake" /\ UNCHANGED <<part, settlementVars, scanVars, tassoVars, inputVars>>
OnlyScan ==
    part \in {"scan", "panel"} /\ UNCHANGED <<part, settlementVars, intakeVars, tassoVars, inputVars>>
OnlyTasso ==
    part = "tasso" /\ UNCHANGED <<part, settlementVars, intakeVars, scanVars, inputVars>>

DeskNext ==
    \/ OnlySettlement /\ SettlementNext
    \/ OnlyIntake /\ IntakeNext
    \/ /\ OnlyScan /\ ScanNext
       /\ IF part = "scan" THEN worker'[w2] = Resting
          ELSE active' = active /\ scanFaults' = scanFaults
    \/ OnlyTasso /\ TassoNext
    \/ part \in {"simulation", "chart", "context"} /\ UNCHANGED deskVars

(* A part's process goes on, and so does what drives it: as one part moves, *)
(* the fairness of a disjunction is that of each part's own specification.  *)
Proceeds(l, w) ==
    \/ OnlySettlement /\ SettlementMoves(l)
    \/ OnlyIntake /\ ListenerWorks
    \/ OnlyScan /\ (TakeTask(w) \/ ScanMoves(w))

IsDriven ==
    \/ OnlySettlement /\ PassTime
    \/ OnlyIntake /\ \E mode \in Modes : ListenerStarts(mode)
    \/ OnlyScan /\ Beat

DeskSpec ==
    /\ DeskInit /\ [][DeskNext]_deskVars
    /\ \A l \in Legs, w \in Workers : WF_deskVars(Proceeds(l, w))
    /\ WF_deskVars(IsDriven)
=============================================================================
