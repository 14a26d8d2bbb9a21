------------------------------ MODULE ScaleOut ------------------------------
(***************************************************************************)
(* What the monitor promises of one spot position: it is left in levels,   *)
(* taken in order, one equal part at each, its stop is raised to the entry *)
(* price after a given level, and once closed, with the PnL of the whole   *)
(* position, it never changes again, but for a sell of the channel, which  *)
(* two handlers may close from fills that differ.                          *)
(***************************************************************************)
EXTENDS Integers

CONSTANTS Quantity, Slip, NewStops

VARIABLES plan, status, remaining, taken, booked, stop

vars == <<plan, status, remaining, taken, booked, stop>>

(* A buy is left exactly as planned; a sell is bought back by its value in  *)
(* quote currency, so its quantities can be off by Slip at every exchange.  *)
Off == IF plan.buy THEN 0 ELSE Slip
Near(a, b) == a - b \in -Off..Off

Init ==
    /\ status = "open"
    /\ remaining = Quantity
    /\ taken = 0
    /\ booked = 0
    /\ stop = -1

(* A level before the last: one part of levels leaves, or all there is.     *)
Part ==
    LET part == Quantity \div plan.levels
    IN  IF part > remaining THEN remaining ELSE part

Take ==
    /\ status = "open"
    /\ taken + 1 < plan.levels
    /\ taken' = taken + 1
    /\ remaining' > 0
    /\ Near(remaining - remaining', Part)
    /\ UNCHANGED <<plan, status, booked, stop>>

(* The stop moves to the entry price after its level, or where the channel  *)
(* of the signal says.                                                      *)
MoveStop ==
    /\ status = "open"
    /\ \/ taken = plan.breakeven /\ taken > 0 /\ stop' = 0
       \/ plan.tasso /\ stop' \in NewStops
    /\ UNCHANGED <<plan, status, remaining, taken, booked>>

(* What the row of a closed trade says of levels and stop is not read again. *)
Close ==
    /\ status = "open"
    /\ status' = "closed"
    /\ Near(booked', Quantity)
    /\ remaining' = 0 /\ taken' = 0 /\ stop' = 0
    /\ UNCHANGED plan

(* The channel's listener and the monitor close the same sell: the later    *)
(* one books its own fill.                                                  *)
Rebook ==
    /\ status = "closed" /\ plan.tasso /\ ~plan.buy
    /\ Near(booked', Quantity)
    /\ UNCHANGED <<plan, status, remaining, taken, stop>>

Next == Take \/ MoveStop \/ Close \/ Rebook

Spec == Init /\ [][Next]_vars
=============================================================================
