----------------------------- MODULE OtcStake -----------------------------
(***************************************************************************)
(* otc/stake.py and build_session_from_balance: the entry and the stops of *)
(* a day, from the reference balance and the settings.  Money in cents,    *)
(* percentages in hundredths of a percent; an absent setting is 0.         *)
(***************************************************************************)
EXTENDS OtcRisk

PROFILES == {"conservative", "moderate", "aggressive"}

RiskProfile(p) ==
    CASE p = "conservative" -> [stake |-> 75, loss |-> 200, win |-> 120, max |-> 100]
      [] p = "aggressive"   -> [stake |-> 250, loss |-> 500, win |-> 350, max |-> 300]
      [] OTHER              -> [stake |-> 150, loss |-> 300, win |-> 200, max |-> 200]

PctOf(amount, pct) == RoundHalfEven(amount * pct, 10000)

(* resolve_daily_base_stake: the floor has the last word; rounded last.     *)
DailyBaseStake(reference, pct, floor, ceiling) ==
    RoundHalfEven(Greatest(10000 * floor, Least(10000 * ceiling, reference * pct)), 10000)

DefaultStakeMin == 100

(* A settings row is [profile, pct, min, max, bankroll].                    *)
BuildSession(reference, cfg, source) ==
    LET profile == RiskProfile(cfg.profile)
        pct     == IF cfg.pct > 0 THEN cfg.pct ELSE profile.stake
        floor   == IF cfg.min # 0 THEN cfg.min ELSE DefaultStakeMin
        ceiling == IF cfg.max # 0 THEN cfg.max ELSE PctOf(reference, profile.max)
    IN  [reference |-> reference,
         base      |-> DailyBaseStake(reference, pct, floor, ceiling),
         win       |-> PctOf(reference, profile.win),
         loss      |-> PctOf(reference, profile.loss),
         source    |-> source]
=============================================================================
