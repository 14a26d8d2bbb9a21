---------------------------- MODULE MCTradeEntry ----------------------------
(***************************************************************************)
(* A small instance of TradeEntry: a scanned profile with two pairs and    *)
(* room for one trade, and a Tasso profile with one pair and room for two. *)
(***************************************************************************)
EXTENDS TradeEntry, TLC

ScanA == [pair |-> "a", profile |-> "divap", buy |-> TRUE, levels |-> TRUE, premium |-> FALSE]
ScanB == [ScanA EXCEPT !.pair = "b", !.buy = FALSE, !.premium = TRUE]
TassoA == [ScanA EXCEPT !.profile = "tasso", !.levels = FALSE]

EntrySignals == {ScanA, ScanB, TassoA}
EntryProfiles == {"divap", "tasso"}
EntryTasso == {"tasso"}
EntryCap == [f \in EntryProfiles |-> IF f = "divap" THEN 1 ELSE 2]
FewOtcRows == {0, 1}

(* What a worker remembers of an attempt that is over, or of a position it  *)
(* has not yet, is never read.                                              *)
Remembered(w) ==
    IF pc[w] = "idle" THEN <<>>
    ELSE IF pc[w] \in Holding THEN <<mine[w]>>
    ELSE <<mine[w].signal, mine[w].strict>>
Relevant == <<positions, goal, pc, [w \in Workers |-> Remembered(w)], late, faults>>

Alike == Permutations(Workers) \cup Permutations(Ids)
=============================================================================
