-------------------------- MODULE MCOtcExecution --------------------------
(***************************************************************************)
(* Instances of OtcExecution.  Amounts are in units of 20 cents: stake     *)
(* 5.00 (or 4.00 from the YAML), multiplier 2.2, payout 80 %.              *)
(***************************************************************************)
EXTENDS OtcExecution, TLC

CONSTANTS s1, s2, s3

(***************************************************************************)
(* Ladder: s1 is scheduled, starts at protection 1 and asks for one more   *)
(* protection than the profile's maximum; s3 is entered by hand.           *)
(***************************************************************************)
LadderSignals == {s1, s3}
LadderImmediate == {s3}
LadderStart == s1 :> 1 @@ s3 :> 0
LadderProt == s1 :> 2 @@ s3 :> 1

(* Limits: three alike scheduled signals on two processes, one protection.  *)
LimitSignals == {s1, s2, s3}
LimitImmediate == {}
LimitStart == [s \in LimitSignals |-> 0]
LimitProt == [s \in LimitSignals |-> 1]
LimitSymmetry == Permutations(LimitSignals)

MCMartingale == [enabled |-> TRUE, max |-> 1, num |-> 22, den |-> 10]
MCLimits ==
    [winOn |-> TRUE, lossOn |-> TRUE, winUsd |-> 18, lossUsd |-> 20,
     winPct |-> 0, lossPct |-> 0, goal |-> 0, bankroll |-> 0]
=============================================================================
