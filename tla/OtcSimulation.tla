--------------------------- MODULE OtcSimulation ---------------------------
(***************************************************************************)
(* The report on past ladders: closed legs are grouped into cycles, and    *)
(* each cycle is played again with other stakes (otc/simulation.py).       *)
(*                                                                         *)
(* Money is in cents, a payoff in ten thousandths of the stake.  The close *)
(* reason expiry is the level 0, expiry_p1 the level 1, and so on.  The    *)
(* rows are chosen initially and nothing moves: the module is a function   *)
(* of them.                                                                *)
(***************************************************************************)
EXTENDS OtcRisk, SequencesExt

CONSTANTS
    BaseStakes, Payoffs, Targets, \* inputs: base stakes, payoffs, recovery targets
    Multipliers,                  \* inputs: pairs of numerator and denominator
    MaxPlayed                     \* bound: the highest protection a signal asks for

MaxProtections == 2 \* of the report and of the configuration, not of a signal
DefaultPayoff == 8700

Gale(multiplier) == [enabled |-> TRUE, max |-> MaxProtections,
                     num |-> multiplier[1], den |-> multiplier[2]]

(* leg_from_row takes no leg without a stake.                               *)
ASSUME SimulationAssumption ==
    /\ BaseStakes \subseteq Nat \ {0} /\ Payoffs \subseteq Nat /\ Targets \subseteq Nat
    /\ MaxPlayed \in Nat
    /\ \A base \in BaseStakes, m \in Multipliers, level \in 1..MaxProtections :
         StakeForLevel(base, Gale(m), level) \in Nat \ {0}

VARIABLE book \* the legs in their closing order, and what the report is asked with

(* The ladders the executor plays: it starts at the level the signal names, *)
(* goes on after a loss only, to the last protection the signal asks for.   *)
Results == {"win", "draw", "loss"}
Ladders == {ladder \in [start : 0..MaxPlayed,
                        results : UNION {[1..n -> Results] : n \in 1..(MaxPlayed + 1)}] :
                /\ ladder.start + Len(ladder.results) <= MaxPlayed + 1
                /\ \A i \in 1..(Len(ladder.results) - 1) : ladder.results[i] = "loss"}

PayoffOf(stake, payoff) == RoundHalfEven(stake * payoff, 10000)

PnlOf(result, stake, payoff) ==
    CASE result = "win"  -> PayoffOf(stake, payoff)
      [] result = "draw" -> 0
      [] result = "loss" -> -stake

(* The rows one ladder leaves.                                              *)
LegsOf(n, ladder, base, multiplier, payoff) ==
    [i \in DOMAIN ladder.results |->
        LET level == ladder.start + i - 1
            stake == StakeForLevel(base, Gale(multiplier), level)
        IN  [ladder |-> n, level |-> level, stake |-> stake,
             pnl |-> PnlOf(ladder.results[i], stake, payoff)]]

(* list_otc_closed_legs asks for three close reasons: the legs above the    *)
(* second protection are not in the report.                                 *)
Listed(legs) == Restrict(legs, {i \in DOMAIN legs : legs[i].level <= MaxProtections})

(* Two ladders, the second after so many legs of the first.                 *)
BookOf(first, second, cut, base, payoff, target, multiplier) ==
    LET one == LegsOf(1, first, base, multiplier, payoff)
        two == LegsOf(2, second, base, multiplier, payoff)
    IN  [legs |-> Listed(SubSeq(one, 1, cut)) \o Listed(two)
                    \o Listed(SubSeq(one, cut + 1, Len(one))),
         played |-> <<one, two>>, apart |-> cut = Len(one),
         payoff |-> payoff, target |-> target, multiplier |-> multiplier]

Books ==
    UNION {{BookOf(first, second, cut, base, payoff, target, multiplier) :
                second \in Ladders, cut \in 1..Len(first.results), base \in BaseStakes,
                payoff \in Payoffs, target \in Targets, multiplier \in Multipliers} :
           first \in Ladders}

(* A day without a trade.                                                   *)
EmptyBook == [legs |-> <<>>, played |-> <<<<>>, <<>>>>, apart |-> FALSE,
              payoff |-> DefaultPayoff, target |-> 0, multiplier |-> <<2, 1>>]

SimulationInit == book \in {EmptyBook} \cup Books

SimulationSpec == SimulationInit /\ [][UNCHANGED book]_book

-----------------------------------------------------------------------------
(* group_otc_cycles: an entry opens a cycle and closes an unfinished one; a *)
(* protection without a cycle is dropped; a win and the last protection     *)
(* close.                                                                   *)
Closes(leg) == (leg.level < 2 /\ leg.pnl > 0) \/ leg.level = 2

(* Mutant of TakeLeg: an unfinished cycle swallows the next entry.          *)
TakeLegSwallows(found, leg) ==
    LET cycle == Append(found.current, leg)
    IN  IF leg.level > 0 /\ found.current = <<>> THEN found
        ELSE IF Closes(leg)
             THEN [cycles |-> Append(found.cycles, cycle), current |-> <<>>]
             ELSE [found EXCEPT !.current = cycle]

(* The cycles, an unfinished one included.                                  *)
Filed(found) ==
    IF found.current = <<>> THEN found.cycles ELSE Append(found.cycles, found.current)

TakeLeg(found, leg) ==
    LET before == IF leg.level = 0 THEN Filed(found) ELSE found.cycles
        cycle == IF leg.level = 0 THEN <<leg>> ELSE Append(found.current, leg)
    IN  IF leg.level > 0 /\ found.current = <<>> THEN found
        ELSE IF Closes(leg)
             THEN [cycles |-> Append(before, cycle), current |-> <<>>]
             ELSE [cycles |-> before, current |-> cycle]

(* What the first i legs were grouped into.                                 *)
FoundIn(legs) ==
    LET found[i \in 0..Len(legs)] ==
            IF i = 0 THEN [cycles |-> <<>>, current |-> <<>>] ELSE TakeLeg(found[i - 1], legs[i])
    IN  found

GroupCycles(legs) == Filed(FoundIn(legs)[Len(legs)])

(* classify_cycle_outcome.                                                  *)
Outcome(cycle) ==
    LET last == cycle[Len(cycle)]
    IN  IF Len(cycle) = 1
        THEN IF last.pnl > 0 THEN "win_l0" ELSE "incomplete"
        ELSE IF last.level = 2
             THEN IF last.pnl > 0 THEN "win_p2" ELSE "loss_full"
             ELSE IF last.level = 1 /\ last.pnl > 0 THEN "win_p1" ELSE "incomplete"

(* observed_payoff.                                                         *)
ObservedPayoff(cycle) ==
    LET wins == {i \in DOMAIN cycle : cycle[i].pnl > 0}
        first == cycle[Min(wins)]
    IN  IF wins = {} THEN DefaultPayoff ELSE RoundHalfEven(first.pnl * 10000, first.stake)

-----------------------------------------------------------------------------
MultiplierLadder(base, multiplier) ==
    [i \in 1..(MaxProtections + 1) |-> StakeForLevel(base, Gale(multiplier), i - 1)]

RoundUp(n, d) == (n + d - 1) \div d

RecoveryStake(lost, target, payoff) == RoundUp((lost + target) * 10000, payoff)

RecoveryLadder(base, payoff, target) ==
    LET p1 == RecoveryStake(base, target, payoff)
    IN  <<base, p1, RecoveryStake(base + p1, target, payoff)>>

(* The sums of the first i amounts.                                         *)
PartialSums(amounts) ==
    LET sum[i \in 0..Len(amounts)] == IF i = 0 THEN 0 ELSE sum[i - 1] + amounts[i]
    IN  sum

SumOf(amounts) == PartialSums(amounts)[Len(amounts)]
Stakes(legs) == [i \in DOMAIN legs |-> legs[i].stake]
RealPnl(cycle) == SumOf([i \in DOMAIN cycle |-> cycle[i].pnl])

LadderOf(strategy, cycle) ==
    CASE strategy = "real"       -> Stakes(cycle)
      [] strategy = "no_gale"    -> <<cycle[1].stake>>
      [] strategy = "multiplier" -> MultiplierLadder(cycle[1].stake, book.multiplier)
      [] strategy = "recovery"   -> RecoveryLadder(cycle[1].stake, ObservedPayoff(cycle),
                                                   book.target)

(* Mutant of FromLadder: the second protection forgets the first one's loss. *)
FromLadderForgets(outcome, ladder, payoff) ==
    CASE outcome = "win_l0"    -> PayoffOf(ladder[1], payoff)
      [] outcome = "win_p1"    -> PayoffOf(ladder[2], payoff) - ladder[1]
      [] outcome = "win_p2"    -> PayoffOf(ladder[3], payoff) - ladder[1]
      [] outcome = "loss_full" -> -SumOf(ladder)
      [] OTHER                 -> -ladder[1]

(* _simulate_from_ladder: an incomplete cycle costs its entry.              *)
FromLadder(outcome, ladder, payoff) ==
    CASE outcome = "win_l0"    -> PayoffOf(ladder[1], payoff)
      [] outcome = "win_p1"    -> PayoffOf(ladder[2], payoff) - ladder[1]
      [] outcome = "win_p2"    -> PayoffOf(ladder[3], payoff) - ladder[1] - ladder[2]
      [] outcome = "loss_full" -> -SumOf(ladder)
      [] OTHER                 -> -ladder[1]

(* simulate_cycle_pnl.                                                      *)
Simulated(strategy, cycle) ==
    LET outcome == Outcome(cycle)
        payoff == ObservedPayoff(cycle)
    IN  CASE strategy = "real"    -> RealPnl(cycle)
          [] strategy = "no_gale" -> IF outcome = "win_l0"
                                     THEN PayoffOf(cycle[1].stake, payoff)
                                     ELSE -cycle[1].stake
          [] OTHER -> FromLadder(outcome, LadderOf(strategy, cycle), payoff)

(* summarize_strategy.                                                      *)
Summary(strategy) ==
    LET cycles == GroupCycles(book.legs)
        pnls == [i \in DOMAIN cycles |-> Simulated(strategy, cycles[i])]
        risks == [i \in DOMAIN cycles |-> SumOf(LadderOf(strategy, cycles[i]))]
    IN  [total |-> SumOf(pnls), cycles |-> Len(cycles),
         worst |-> IF pnls = <<>> THEN 0 ELSE Min(ToSet(pnls)),
         risk  |-> Max({0} \cup ToSet(risks))]

-----------------------------------------------------------------------------
(* No ladder overlaps another in time or starts at a protection, which is   *)
(* dropped or taken for the end of an unfinished one.                       *)
Tidy == book.apart /\ \A i \in 1..2 : book.played[i][1].level = 0

(* Such ladders are the cycles of the report, in their order and each with  *)
(* all its legs up to the second protection: lost protections, draws,       *)
(* ladders a stop cut short and ladders that went on included.              *)
CyclesAreLadders ==
    Tidy => GroupCycles(book.legs) = [i \in 1..2 |-> Listed(book.played[i])]

(* The ladder ended in a draw, or lost its first protection and was not     *)
(* played any further.  The report has no outcome for it, and counts its    *)
(* entry as lost; a draw at the second protection counts as all lost.       *)
Unclassified(cycle) ==
    LET last == cycle[Len(cycle)]
    IN  last.pnl = 0 \/ (Len(cycle) = 2 /\ last.pnl < 0)

(* The replay is true to the history: with the multiplier that was played   *)
(* a cycle gives the result it had, unless it is one of those above;        *)
(* recovery earns its target with every protection that wins; no cycle, of  *)
(* whatever legs, loses more than the report's greatest risk.               *)
ReplayIsTrue ==
    /\ Tidy => \A cycle \in ToSet(GroupCycles(book.legs)) :
         /\ ~Unclassified(cycle) => Simulated("multiplier", cycle) = RealPnl(cycle)
         /\ Outcome(cycle) \in {"win_p1", "win_p2"}
              => Simulated("recovery", cycle) >= book.target
    /\ \A strategy \in {"real", "no_gale", "multiplier", "recovery"} :
         Summary(strategy).worst >= -Summary(strategy).risk

(* The report's last line: "Mesmos desfechos do histórico; apenas o tamanho *)
(* das apostas muda entre cenários".  With the stakes that were played a    *)
(* cycle without a draw then has the result it had.                         *)
SameOutcomes ==
    Tidy => \A cycle \in ToSet(GroupCycles(book.legs)) :
        (\A i \in DOMAIN cycle : cycle[i].pnl # 0)
            => Simulated("multiplier", cycle) = RealPnl(cycle)
=============================================================================
