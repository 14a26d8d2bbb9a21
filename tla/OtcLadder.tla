----------------------------- MODULE OtcLadder -----------------------------
(***************************************************************************)
(* What a martingale sequence promises, whoever runs it: the first leg is  *)
(* free, a protection is bought only after the leg before it was booked as *)
(* a loss, no level is bought twice, and a booked outcome is final.        *)
(***************************************************************************)
EXTENDS Naturals

CONSTANTS Signals, Levels, Start, Prot

VARIABLES placed, booked

Outcomes == {"loss", "even", "win"}

Init ==
    /\ placed = {}
    /\ booked = [k \in Signals \X Levels |-> "none"]

MayPlace(s, l) ==
    /\ l \in Start[s]..Prot[s]
    /\ <<s, l>> \notin placed
    /\ l # Start[s] => booked[<<s, l - 1>>] = "loss"

Place(s, l) ==
    /\ MayPlace(s, l)
    /\ placed' = placed \cup {<<s, l>>}
    /\ UNCHANGED booked

Book(s, l) ==
    /\ <<s, l>> \in placed
    /\ booked[<<s, l>>] = "none"
    /\ \E o \in Outcomes : booked' = [booked EXCEPT ![<<s, l>>] = o]
    /\ UNCHANGED placed

Next == \E s \in Signals, l \in Levels : Place(s, l) \/ Book(s, l)

Spec == Init /\ [][Next]_<<placed, booked>>
=============================================================================
