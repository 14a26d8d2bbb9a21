------------------------- MODULE MCPositionMonitor -------------------------
(***************************************************************************)
(* Small instances of PositionMonitor: trades as the profiles open them.   *)
(***************************************************************************)
EXTENDS PositionMonitor, TLC

(* scalper and caixa_rapido: one target, time stop.  divap_ativo: levels,   *)
(* breakeven after the first.  tasso: levels, the channel moves the stop;   *)
(* a signal may name one level only, and may be a sell.                     *)
Single == [buy |-> TRUE, levels |-> 0, breakeven |-> 0, timeStop |-> TRUE, tasso |-> FALSE]
Ativo == [buy |-> TRUE, levels |-> 3, breakeven |-> 1, timeStop |-> FALSE, tasso |-> FALSE]
Tasso == [buy |-> TRUE, levels |-> 2, breakeven |-> 0, timeStop |-> FALSE, tasso |-> TRUE]
TassoSingle == [Tasso EXCEPT !.levels = 0]
TassoOne == [Tasso EXCEPT !.levels = 1]

Short(p) == [p EXCEPT !.buy = FALSE]
ExitPlans == {Single, Short(Single), Ativo, Short(Ativo), Tasso, Short(TassoOne)}
OnlyAtivo == {Ativo}
RacedPlans == {Ativo, Tasso, TassoSingle}

Stops == {-1, 1}

(* No step reads how much was sold, and no property of the race run does.   *)
Unsold == <<plan, row, orders, price, pc, mine, faults>>
Alike == Permutations(Monitors)
=============================================================================
