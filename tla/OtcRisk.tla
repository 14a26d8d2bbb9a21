------------------------------ MODULE OtcRisk ------------------------------
(***************************************************************************)
(* The pure risk arithmetic of the OTC profile: the martingale ladder      *)
(* (otc/martingale.py) and the daily stop decision (otc/guard.py).         *)
(*                                                                         *)
(* Money is an integer number of cents, a percentage an integer number of  *)
(* hundredths of the reference balance.  An absent Decimal (None) and a    *)
(* zero one are told apart nowhere in these functions, so 0 stands for     *)
(* both.  A PnL that is None is a result with known = FALSE.               *)
(***************************************************************************)
EXTENDS Integers, Sequences

Least(a, b) == IF a <= b THEN a ELSE b
Greatest(a, b) == IF a >= b THEN a ELSE b

(* Decimal.quantize(0.01) of n/d cents: the nearest integer, ties to even. *)
RoundHalfEven(n, d) ==
    LET q == n \div d
        r == n % d
    IN  IF 2 * r > d \/ (2 * r = d /\ q % 2 = 1) THEN q + 1 ELSE q

(* A martingale is [enabled, max, num, den]: multiplier num/den.           *)
StakeForLevel(base, mg, level) ==
    IF level <= 0
    THEN base
    ELSE LET l == Least(level, mg.max)
         IN  RoundHalfEven(base * mg.num ^ l, mg.den ^ l)

(* A signal's own maximum ([hasMax, maxAuto]) overrides the profile, even   *)
(* a profile whose martingale is switched off.                             *)
MaxAutoProtections(sig, mg) ==
    IF sig.hasMax THEN Greatest(0, sig.maxAuto)
    ELSE IF mg.enabled THEN Greatest(0, mg.max)
    ELSE 0

(* A settlement is [known, pnl]; None is known = FALSE.                     *)
NoPnl == [known |-> FALSE, pnl |-> 0]
Pnl(v) == [known |-> TRUE, pnl |-> v]
IsLossOrEven(res) == res.known /\ res.pnl <= 0    \* mutant of IsLoss
IsLoss(res) == res.known /\ res.pnl < 0
IsWin(res) == res.known /\ res.pnl > 0

(***************************************************************************)
(* decide_stop.  lim is [winOn, lossOn, winUsd, lossUsd, winPct, lossPct,  *)
(* goal, bankroll].  A fixed limit has priority over the percentage, and   *)
(* the daily goal serves only when neither is set.                         *)
(***************************************************************************)
PctApplies(pct, bankroll) == pct > 0 /\ bankroll > 0

WinLimitHit(pnl, lim) ==
    \/ lim.winUsd > 0 /\ pnl >= lim.winUsd
    \/ lim.winUsd <= 0 /\ PctApplies(lim.winPct, lim.bankroll)
       /\ 10000 * pnl >= lim.bankroll * lim.winPct
    \/ lim.winUsd <= 0 /\ ~PctApplies(lim.winPct, lim.bankroll)
       /\ lim.goal > 0 /\ pnl >= lim.goal

(* Mutant: the limit is compared with the gain, not with the loss.          *)
LossLimitWrongSign(pnl, lim) ==
    \/ lim.lossUsd > 0 /\ pnl >= lim.lossUsd
    \/ lim.lossUsd <= 0 /\ PctApplies(lim.lossPct, lim.bankroll)
       /\ 10000 * pnl >= lim.bankroll * lim.lossPct

LossLimitHit(pnl, lim) ==
    \/ lim.lossUsd > 0 /\ pnl <= -lim.lossUsd
    \/ lim.lossUsd <= 0 /\ PctApplies(lim.lossPct, lim.bankroll)
       /\ 10000 * pnl <= -(lim.bankroll * lim.lossPct)

StopReasons == {"stop_win", "stop_loss"}

DecideStop(pnl, lim) ==
    IF lim.winOn /\ WinLimitHit(pnl, lim) THEN "stop_win"
    ELSE IF lim.lossOn /\ LossLimitHit(pnl, lim) THEN "stop_loss"
    ELSE "none"
=============================================================================
