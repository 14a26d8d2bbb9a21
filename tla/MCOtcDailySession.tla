------------------------- MODULE MCOtcDailySession -------------------------
(***************************************************************************)
(* A worker and the midnight task, over two days; an account of 220.00 or  *)
(* empty; settings with a bankroll of 300.00, or an aggressive profile     *)
(* without one.                                                            *)
(***************************************************************************)
EXTENDS OtcDailySession

CONSTANTS worker, beat

MCWorkers == {worker}
MCBeat == {beat}
MCDates == 1..2
MCBalances == {0, 22000}
MCSettings ==
    {[profile |-> "moderate", pct |-> 0, min |-> 0, max |-> 0, bankroll |-> 30000],
     [profile |-> "aggressive", pct |-> 0, min |-> 0, max |-> 0, bankroll |-> 0]}
=============================================================================
