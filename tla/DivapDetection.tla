--------------------------- MODULE DivapDetection ---------------------------
(***************************************************************************)
(* What the scanner reads in a chart: divergence, volume, Fibonacci zone,  *)
(* reversal pattern, and the signal they make                              *)
(* (detection/divap_scanner.py, divergence.py, indicators/patterns.py,     *)
(* fibonacci.py, volume.py).                                               *)
(*                                                                         *)
(* A price is a number of the symbol's ticks.  The RSI is external: a      *)
(* series as long as the candles, NoRsi where it is not defined.  The      *)
(* chart is chosen initially and nothing moves: the module is a function   *)
(* of it.                                                                  *)
(***************************************************************************)
EXTENDS Integers, Sequences, FiniteSets, SequencesExt

CONSTANTS
    Charts,          \* inputs: charts with prices in 1..MaxPrice
    MaxPrice, MaxRsi, NoRsi,
    MinCandles,      \* 25
    Lookback,        \* DIVERGENCE_LOOKBACK, 20
    SwingLookback,   \* 50
    VolumePeriod,    \* VOLUME_MA_PERIOD, 20
    MinDistance      \* between two pivots, 3

Prices == 1..MaxPrice

IsCandle(c) ==
    /\ {c.open, c.high, c.low, c.close} \subseteq Prices /\ c.volume \in Nat
    /\ c.low <= c.open /\ c.low <= c.close /\ c.open <= c.high /\ c.close <= c.high

ChartOK(c) ==
    /\ c.candles = [i \in 1..Len(c.candles) |-> c.candles[i]] /\ Len(c.candles) \in Nat \ {0}
    /\ \A i \in DOMAIN c.candles : IsCandle(c.candles[i])
    /\ c.rsi \in [DOMAIN c.candles -> 0..MaxRsi \cup {NoRsi}]

ASSUME DetectionAssumption ==
    /\ MaxPrice \in Nat \ {0} /\ MaxRsi \in Nat /\ NoRsi \notin 0..MaxRsi
    /\ MinCandles \in Nat /\ Lookback \in Nat
    /\ SwingLookback \in Nat \ {0} /\ VolumePeriod \in Nat \ {0} /\ MinDistance \in Nat
    /\ \A chart \in Charts : ChartOK(chart)

VARIABLE chart \* the candles, oldest first, and their RSI

DetectionInit == chart \in Charts

DetectionSpec == DetectionInit /\ [][UNCHANGED chart]_chart

-----------------------------------------------------------------------------
(* series[-n:], the whole of a shorter series.                              *)
LastOf(series, n) ==
    SubSeq(series, IF Len(series) > n THEN Len(series) - n + 1 ELSE 1, Len(series))

Current(candles) == candles[Len(candles)]
Previous(candles) == candles[Len(candles) - 1]

(* Where a series turns: down with Beyond as <, up with it as >.            *)
Turns(values, Beyond(_, _)) ==
    {i \in 2..(Len(values) - 1) :
        Beyond(values[i], values[i - 1]) /\ Beyond(values[i], values[i + 1])}

(* _find_swing_low_indices, _find_swing_high_indices: from the left, a turn *)
(* too near the last pivot kept is skipped.                                 *)
PivotsUpTo(turns, n) ==
    LET kept[i \in 0..n] ==
            IF i = 0 THEN <<>>
            ELSE LET before == kept[i - 1]
                 IN  IF /\ i \in turns
                        /\ before # <<>> => i - before[Len(before)] >= MinDistance
                     THEN Append(before, i) ELSE before
    IN  kept

(* _detect_bullish and _detect_bearish: the last two pivots, the price one  *)
(* way and the RSI the other.                                               *)
Diverges(values, rsi, Beyond(_, _)) ==
    LET pivots == PivotsUpTo(Turns(values, Beyond), Len(values))[Len(values)]
        i == pivots[Len(pivots) - 1]
        j == pivots[Len(pivots)]
    IN  /\ Len(pivots) >= 2
        /\ rsi[i] # NoRsi /\ rsi[j] # NoRsi
        /\ Beyond(values[j], values[i]) /\ Beyond(rsi[i], rsi[j])

DivergesUp(c) ==
    LET window == LastOf(c.candles, Lookback)
    IN  /\ Len(c.candles) >= Lookback
        /\ Diverges([i \in DOMAIN window |-> window[i].low], LastOf(c.rsi, Lookback), <)

DivergesDown(c) ==
    LET window == LastOf(c.candles, Lookback)
    IN  /\ Len(c.candles) >= Lookback
        /\ Diverges([i \in DOMAIN window |-> window[i].high], LastOf(c.rsi, Lookback), >)

(* detect_divergence: the bullish one is looked for first.                  *)
Divergence(c) ==
    IF DivergesUp(c) THEN "bullish" ELSE IF DivergesDown(c) THEN "bearish" ELSE "none"

-----------------------------------------------------------------------------
Upper(c) == IF c.open > c.close THEN c.open ELSE c.close
Lower(c) == IF c.open < c.close THEN c.open ELSE c.close
Body(c) == Upper(c) - Lower(c)
UpperWick(c) == c.high - Upper(c)
LowerWick(c) == Lower(c) - c.low

(* A long wick on one side of a small body, a short one on the other.       *)
Pinned(c, long, short) ==
    /\ c.high # c.low
    /\ long >= 2 * Body(c) /\ 2 * short <= Body(c)
    /\ 100 * Body(c) <= 35 * (c.high - c.low)

IsHammer(c) == Pinned(c, LowerWick(c), UpperWick(c))
IsShootingStar(c) == Pinned(c, UpperWick(c), LowerWick(c))

IsBullishEngulfing(prev, c) ==
    /\ prev.close < prev.open /\ c.close > c.open
    /\ c.open <= prev.close /\ c.close >= prev.open

(* Mutant of IsBearishEngulfing: the open compared with the wrong end.      *)
IsBearishEngulfingSlip(prev, c) ==
    /\ prev.close > prev.open /\ c.close < c.open
    /\ c.open >= prev.open /\ c.close <= prev.open

IsBearishEngulfing(prev, c) ==
    /\ prev.close > prev.open /\ c.close < c.open
    /\ c.open >= prev.close /\ c.close <= prev.open

IsHarami(prev, c) ==
    Upper(c) <= Upper(prev) /\ Lower(c) >= Lower(prev) /\ Body(c) < Body(prev)

(* detect_reversal_pattern.                                                 *)
Pattern(candles) ==
    LET prev == Previous(candles)
        c == Current(candles)
    IN  IF Len(candles) < 2 THEN "none"
        ELSE IF IsBullishEngulfing(prev, c) THEN "bullish_engulfing"
        ELSE IF IsBearishEngulfing(prev, c) THEN "bearish_engulfing"
        ELSE IF IsHammer(c) THEN "hammer"
        ELSE IF IsShootingStar(c) THEN "shooting_star"
        ELSE IF IsHarami(prev, c) THEN "harami" ELSE "none"

BullishPatterns == {"hammer", "bullish_engulfing", "harami"}
BearishPatterns == {"shooting_star", "bearish_engulfing", "harami"}

Total(volumes) == FoldLeft(+, 0, volumes)

(* is_volume_above_average: against the candles before the current one.     *)
VolumeConfirms(candles) ==
    LET before == LastOf(SubSeq(candles, 1, Len(candles) - 1), VolumePeriod)
        total == Total([i \in DOMAIN before |-> before[i].volume])
    IN  /\ Len(candles) > VolumePeriod
        /\ total # 0 /\ Current(candles).volume * VolumePeriod > total

-----------------------------------------------------------------------------
(* FIBO_TARGETS and levels in thousandths.                                  *)
Ratios == {618, 1000, 1618, 2000, 2618}

(* find_swing_points: the window ends with the current candle.              *)
SwingWindow(candles) == LastOf(candles, SwingLookback)

SwingLow(candles) ==
    LET lows == {SwingWindow(candles)[i].low : i \in DOMAIN SwingWindow(candles)}
    IN  CHOOSE low \in lows : \A other \in lows : low <= other

SwingHigh(candles) ==
    LET highs == {SwingWindow(candles)[i].high : i \in DOMAIN SwingWindow(candles)}
    IN  CHOOSE high \in highs : \A other \in highs : high >= other

(* calculate_extension_levels, up and down.                                 *)
LevelUp(low, high, ratio) == 1000 * high + (high - low) * ratio
LevelDown(low, high, ratio) == 1000 * low - (high - low) * ratio

(* find_nearest_extension_level: the distance is divided by the level, so   *)
(* that a negative level is near every price.                               *)
NearLevel(price, level) ==
    \/ level < 0
    \/ /\ level > 0
       /\ 1000 * (1000 * price - level) <= 3 * level
       /\ 1000 * (level - 1000 * price) <= 3 * level

(* price_at_extension_target.                                               *)
LevelsHit(price, low, high) ==
    {level \in {LevelUp(low, high, ratio) : ratio \in Ratios} \cup
               {LevelDown(low, high, ratio) : ratio \in Ratios} : NearLevel(price, level)}

FiboZone(candles) ==
    IF Len(candles) < 3 THEN {}
    ELSE LevelsHit(Current(candles).close, SwingLow(candles), SwingHigh(candles))

-----------------------------------------------------------------------------
Direction(c) == IF Divergence(c) = "bullish" THEN "buy" ELSE "sell"

Aligned(pattern, direction) ==
    pattern \in IF direction = "buy" THEN BullishPatterns ELSE BearishPatterns

Confluences(c) ==
    Cardinality({criterion \in {"divergence", "volume", "fibonacci", "pattern"} :
        CASE criterion = "divergence" -> Divergence(c) # "none"
          [] criterion = "volume"     -> VolumeConfirms(c.candles)
          [] criterion = "fibonacci"  -> FiboZone(c.candles) # {}
          [] criterion = "pattern"    -> Pattern(c.candles) # "none"})

(* resolve_confidence with MIN_CONFLUENCES_FOR_ALERT and                    *)
(* MIN_CONFLUENCES_HIGH_CONFIDENCE.                                         *)
Confidence(c) ==
    IF Divergence(c) = "none" \/ Confluences(c) < 3 THEN "none"
    ELSE IF Confluences(c) >= 4 THEN "high" ELSE "medium"

(* DIVAPScanner.scan: the direction of the signal, "none" without one.      *)
Signal(c) ==
    IF /\ Len(c.candles) >= MinCandles
       /\ c.rsi[Len(c.candles)] # NoRsi
       /\ Confidence(c) # "none"
       /\ Pattern(c.candles) # "none" => Aligned(Pattern(c.candles), Direction(c))
    THEN Direction(c) ELSE "none"

-----------------------------------------------------------------------------
(* The chart turned upside down, and what is read in it.                    *)
Flip(price) == MaxPrice + 1 - price

Mirror(c) ==
    [candles |-> [i \in DOMAIN c.candles |->
        [open   |-> Flip(c.candles[i].open), close |-> Flip(c.candles[i].close),
         high   |-> Flip(c.candles[i].low), low |-> Flip(c.candles[i].high),
         volume |-> c.candles[i].volume]],
     rsi |-> [i \in DOMAIN c.rsi |->
                 IF c.rsi[i] = NoRsi THEN NoRsi ELSE MaxRsi - c.rsi[i]]]

Opposite(reading) ==
    CASE reading = "buy"               -> "sell"
      [] reading = "sell"              -> "buy"
      [] reading = "bullish_engulfing" -> "bearish_engulfing"
      [] reading = "bearish_engulfing" -> "bullish_engulfing"
      [] reading = "hammer"            -> "shooting_star"
      [] reading = "shooting_star"     -> "hammer"
      [] OTHER                         -> reading

(* Buys and sells are held to the same rules: a chart turned upside down    *)
(* shows the opposite pattern, and gives the opposite signal where the      *)
(* Fibonacci criterion, which is relative to the price, does not decide.    *)
(* Only a chart that diverges both ways is a buy either way up.             *)
MirrorImage ==
    /\ Pattern(Mirror(chart).candles) = Opposite(Pattern(chart.candles))
    /\ VolumeConfirms(Mirror(chart).candles) = VolumeConfirms(chart.candles)
    /\ ~(DivergesUp(chart) /\ DivergesDown(chart))
         /\ Confluences(Mirror(chart)) = Confluences(chart)
            => Signal(Mirror(chart)) = Opposite(Signal(chart))
=============================================================================
