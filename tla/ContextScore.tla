---------------------------- MODULE ContextScore ----------------------------
(***************************************************************************)
(* The market context of a signal: what was collected, the score the rules *)
(* give it and the verdict (context/collector.py, htf_trend.py, scoring.py). *)
(*                                                                         *)
(* Every source may fail, which is Unavailable.  Prices are numbers of     *)
(* ticks.  The situation is chosen initially and nothing moves.            *)
(***************************************************************************)
EXTENDS Integers, Sequences, FiniteSets

CONSTANTS
    Unavailable,   \* None: the source failed
    Sentiments,    \* inputs: values of the fear and greed index
    CapChanges,    \* inputs: change of the market capitalisation, percent
    HighFrames     \* inputs: closes of the last daily and weekly candles

VARIABLE situation

FullTrend == 20     \* MIN_CANDLES_FULL
LeastTrend == 5     \* MIN_CANDLES_FALLBACK

SumFrom(series, from) ==
    LET total[i \in 0..Len(series)] ==
            IF i < from THEN 0 ELSE total[i - 1] + series[i]
    IN  total[Len(series)]

(* classify_trend_from_candles: the price against the long average, and the *)
(* short average against the long one.                                      *)
Trend(closes) ==
    LET long == IF Len(closes) < FullTrend THEN Len(closes) ELSE FullTrend
        sumLong == SumFrom(closes, Len(closes) - long + 1)
        sumShort == SumFrom(closes, Len(closes) - LeastTrend + 1)
        last == closes[Len(closes)]
    IN  IF Len(closes) < LeastTrend THEN "unknown"
        ELSE IF last * long > sumLong /\ sumShort * long >= sumLong * LeastTrend
             THEN "bullish"
        ELSE IF last * long < sumLong /\ sumShort * long <= sumLong * LeastTrend
             THEN "bearish" ELSE "sideways"

(* fetch_htf_trends: an ExchangeError leaves the timeframe unknown, any     *)
(* other exception leaves both so.                                          *)
TrendOf(closes) == IF closes = Unavailable THEN "unknown" ELSE Trend(closes)

(* What MarketContextCollector.collect may have gathered for a signal.      *)
Situations ==
    [direction : {"buy", "sell"}, lowFrame : BOOLEAN,
     fearGreed : Sentiments \cup {Unavailable},
     capChange : CapChanges \cup {Unavailable},
     daily : HighFrames \cup {Unavailable}, weekly : HighFrames \cup {Unavailable},
     badNews : BOOLEAN, strongDollar : BOOLEAN]

ContextInit == situation \in Situations

ContextSpec == ContextInit /\ [][UNCHANGED situation]_situation

-----------------------------------------------------------------------------
(* assess_market_context, one term per source.  A sell loses points in      *)
(* greed as a buy does, only fewer.                                         *)
FearGreedPoints(s) ==
    LET buy == s.direction = "buy"
        value == s.fearGreed
    IN  IF value = Unavailable THEN 0
        ELSE IF value <= 20 THEN (IF buy THEN 5 ELSE -10)
        ELSE IF value <= 35 THEN (IF buy THEN 3 ELSE -5)
        ELSE IF value >= 80 THEN (IF buy THEN -15 ELSE -5)
        ELSE IF value >= 65 THEN (IF buy THEN -8 ELSE -3) ELSE 0

GlobalPoints(s) ==
    IF s.capChange = Unavailable THEN 0
    ELSE IF s.capChange <= -3 THEN -10
    ELSE IF s.capChange >= 3 THEN (IF s.direction = "buy" THEN 5 ELSE -3) ELSE 0

With(direction) == IF direction = "buy" THEN "bullish" ELSE "bearish"
Against(direction) == IF direction = "buy" THEN "bearish" ELSE "bullish"

(* Mutant of HtfPoints: a conflict costs nothing.                           *)
HtfPointsForgiving(direction, trend) == IF trend = With(direction) THEN 8 ELSE 0

(* _apply_htf_alignment.                                                    *)
HtfPoints(direction, trend) ==
    IF trend = With(direction) THEN 8 ELSE IF trend = Against(direction) THEN -10 ELSE 0

LowFramePoints(s) ==
    IF s.lowFrame /\ TrendOf(s.daily) = Against(s.direction) THEN -12 ELSE 0

Clamp(score) == IF score < 0 THEN 0 ELSE IF score > 100 THEN 100 ELSE score

Score(s) ==
    Clamp(50 + FearGreedPoints(s) + GlobalPoints(s)
          + HtfPoints(s.direction, TrendOf(s.daily))
          + HtfPoints(s.direction, TrendOf(s.weekly))
          + LowFramePoints(s)
          + (IF s.badNews THEN -8 ELSE 0)
          + (IF s.strongDollar /\ s.direction = "buy" THEN -5 ELSE 0))

(* _score_to_verdict: bad news add nothing below 45.                        *)
Verdict(s) ==
    IF Score(s) >= 65 THEN "confirm" ELSE IF Score(s) >= 45 THEN "caution" ELSE "reject"

-----------------------------------------------------------------------------
(* A confirmed signal goes with a higher timeframe and against none: no sum *)
(* of the other terms makes up for a conflict or for two silent timeframes. *)
(* A sell needs both, as neither sentiment nor the market adds to it.       *)
ConfirmGoesWithTrend ==
    LET trends == {TrendOf(situation.daily), TrendOf(situation.weekly)}
        with == With(situation.direction)
    IN  Verdict(situation) = "confirm" =>
            /\ with \in trends /\ Against(situation.direction) \notin trends
            /\ situation.direction = "sell" => trends = {with}
=============================================================================
