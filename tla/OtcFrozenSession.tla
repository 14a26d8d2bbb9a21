------------------------- MODULE OtcFrozenSession -------------------------
(***************************************************************************)
(* What a daily session promises: a day has no session, or one that is     *)
(* chosen once; every answer about a day, given by any process, is that    *)
(* one.                                                                    *)
(***************************************************************************)
CONSTANTS Dates, Sessions, NoSession

VARIABLES frozen, answers

Init == frozen = [d \in Dates |-> NoSession] /\ answers = {}

Freeze(d) ==
    /\ frozen[d] = NoSession
    /\ \E s \in Sessions : frozen' = [frozen EXCEPT ![d] = s]

Answer(d) == frozen'[d] # NoSession /\ answers' = answers \cup {<<d, frozen'[d]>>}

Next ==
    \E d \in Dates : (Freeze(d) \/ UNCHANGED frozen) /\ (Answer(d) \/ UNCHANGED answers)

Spec == Init /\ [][Next]_<<frozen, answers>>
=============================================================================
