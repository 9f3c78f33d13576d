-------------------------- MODULE MultiwayTerminal --------------------------
(***************************************************************************)
(* The settlement of a hand: side pots, refunds, rake and payouts           *)
(* (settle_multiway_terminal_fixed in src/src/games/multiway_fixed.cpp,    *)
(* and src/src/games/multiway_terminal.cpp in front of it).                *)
(*                                                                         *)
(* A vector of chips is a function from the seats 0 .. n-1.  A pot is      *)
(* named by its contribution cap, a strength is any integer.               *)
(***************************************************************************)
EXTENDS Integers, FiniteSets, FiniteSetsExt

CONSTANTS BasisPoints, RakeCap, NoFlopNoDrop   \* MultiwayRakePolicy

ASSUME RakeAssumption ==
  /\ BasisPoints \in 0 .. 10000
  /\ RakeCap \in Nat
  /\ NoFlopNoDrop \in BOOLEAN

\* The sum of a table of chips, by seat or by layer.
Sum(amounts) == MapThenSumSet(LAMBDA index : amounts[index], DOMAIN amounts)

-----------------------------------------------------------------------------
(* build_multiway_pot_layout: one layer for each distinct contribution.    *)

Levels(contributions) ==
  {contributions[seat] : seat \in DOMAIN contributions} \ {0}

Contributors(contributions, level) ==
  {seat \in DOMAIN contributions : contributions[seat] >= level}

\* As Eligible, but a seat must have paid more than the cap of the layer.
EligibleAboveCap(contributions, folded, level) ==
  {seat \in Contributors(contributions, level) :
     ~folded[seat] /\ contributions[seat] > level}

Eligible(contributions, folded, level) ==
  {seat \in Contributors(contributions, level) : ~folded[seat]}

PreviousLevel(contributions, level) ==
  Max({0} \cup {lower \in Levels(contributions) : lower < level})

LayerAmount(contributions, level) ==
  (level - PreviousLevel(contributions, level))
    * Cardinality(Contributors(contributions, level))

\* The layers that somebody else matched; the others are refunded.
Pots(contributions) ==
  {level \in Levels(contributions) :
     Cardinality(Contributors(contributions, level)) > 1}

Refunds(contributions) ==
  [seat \in DOMAIN contributions |->
     Sum([level \in {lone \in Levels(contributions) \ Pots(contributions) :
                       contributions[seat] >= lone} |->
            LayerAmount(contributions, level)])]

\* The settlement throws when nobody can claim a layer.
Unclaimed(contributions, folded) ==
  {level \in Pots(contributions) :
     Eligible(contributions, folded, level) = {}}

-----------------------------------------------------------------------------
(* The rake comes out of the pots in order, the lowest cap first.          *)

rake_for_contested_pot(contested, flop_seen) ==
  IF NoFlopNoDrop /\ ~flop_seen THEN 0
  ELSE Min({(contested * BasisPoints) \div 10000, RakeCap})

Contested(contributions, levels) ==
  Sum([level \in levels |-> LayerAmount(contributions, level)])

PotAfterRake(contributions, level, rake) ==
  LET earlier == {lower \in Pots(contributions) : lower < level}
      left == Max({0, rake - Contested(contributions, earlier)})
      amount == LayerAmount(contributions, level)
  IN amount - Min({amount, left})

-----------------------------------------------------------------------------
(* Each pot goes to the strongest eligible seats; odd chips go to the      *)
(* winners in seat order from odd_chip_first_seat.                         *)

\* As Winners, but a folded hand competes.
WinnersFoldedToo(contributions, folded, strengths, level) ==
  LET claimants == Contributors(contributions, level)
  IN {seat \in claimants :
        \A other \in claimants : strengths[other] <= strengths[seat]}

Winners(contributions, folded, strengths, level) ==
  LET eligible == Eligible(contributions, folded, level)
  IN {seat \in eligible :
        \A other \in eligible : strengths[other] <= strengths[seat]}

\* As Award, but the odd chips stay on the table.
AwardEvenly(seat, winners, amount, odd_chip_first_seat, seat_count) ==
  amount \div Cardinality(winners)

Award(seat, winners, amount, odd_chip_first_seat, seat_count) ==
  LET distance(s) == (s - odd_chip_first_seat + seat_count) % seat_count
      ahead == {s \in winners : distance(s) < distance(seat)}
      odd == Cardinality(ahead) < amount % Cardinality(winners)
  IN amount \div Cardinality(winners) + (IF odd THEN 1 ELSE 0)

\* settle_multiway_terminal_fixed for an input it accepts.
Settle(contributions, folded, strengths, odd_chip_first_seat, flop_seen) ==
  LET pots == Pots(contributions)
      count == Cardinality(DOMAIN contributions)
      rake == rake_for_contested_pot(Contested(contributions, pots), flop_seen)
      winners == [level \in pots |->
                    Winners(contributions, folded, strengths, level)]
      won(seat, level) == Award(seat, winners[level],
                                PotAfterRake(contributions, level, rake),
                                odd_chip_first_seat, count)
  IN [refunds |-> Refunds(contributions),
      payouts |-> [seat \in DOMAIN contributions |->
                     Sum([level \in {pot \in pots : seat \in winners[pot]} |->
                            won(seat, level)])],
      rake_taken |-> rake]

=============================================================================
