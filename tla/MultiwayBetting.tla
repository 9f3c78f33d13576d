--------------------------- MODULE MultiwayBetting ---------------------------
(***************************************************************************)
(* The betting of one multiway no-limit hand: MultiwayFixedState           *)
(* (src/src/games/multiway_fixed.cpp), which MultiwayState                 *)
(* (src/src/games/multiway_state.cpp) delegates every transition to.       *)
(*                                                                         *)
(* The variables are the fields of MultiwayFixedState.  all_in is not one  *)
(* of them: apply keeps all_in[seat] equal to stacks[seat] = 0.            *)
(* starting_stacks and the blinds are the MultiwayGameConfig of the hand.  *)
(* The labels Bet and Raise name one operation; legal_actions picks the    *)
(* label only.  Which seat opens a later street is the caller's choice.    *)
(* A hand that is over is settled by MultiwayTerminal.                     *)
(***************************************************************************)
EXTENDS MultiwayTerminal

CONSTANTS SeatCount,        \* seats at the table, two to six in the code
          SmallBlind, BigBlind,
          StartingStacks    \* the stack vectors a hand may start from

Seats == 0 .. SeatCount - 1

ASSUME TableAssumption ==
  /\ SeatCount \in Nat \ {0, 1}
  /\ SmallBlind \in Nat \ {0}
  /\ BigBlind \in Nat \ {0}
  /\ StartingStacks \subseteq [Seats -> Nat]

NoPlayer == -1
Preflop == 0
River == 3

VARIABLES starting_stacks, stacks, contributions, street_contributions,
          folded, may_raise, pending, has_acted, bet_faced_when_acted,
          current_player, last_aggressor, current_bet, last_full_raise_size,
          street

chips == <<starting_stacks, stacks, contributions, street_contributions>>
round == <<may_raise, pending, has_acted, bet_faced_when_acted,
           current_player, last_aggressor, current_bet, last_full_raise_size>>
vars == <<chips, folded, round, street>>

-----------------------------------------------------------------------------
(* Who is in the hand, who can still act, and who acts next.  The          *)
(* arguments are the fields of the state the code has built so far.        *)

Live(out) == {seat \in Seats : ~out[seat]}
Actionable(out, stack) == {seat \in Seats : ~out[seat] /\ stack[seat] > 0}
AtMostOne(S) == \A a, b \in S : a = b

\* The seats that are asked before `seat`, counting from the one after
\* `player`, which is -1 when the count starts at seat 0.
Offset(player, seat) ==
  IF seat > player THEN seat - player - 1
                   ELSE seat - player - 1 + SeatCount

SeatBefore(seat) == IF seat = 0 THEN SeatCount - 1 ELSE seat - 1

next_pending_after(waiting, player) ==
  IF waiting = {} THEN NoPlayer
  ELSE CHOOSE seat \in waiting :
         \A other \in waiting : Offset(player, seat) <= Offset(player, other)

\* As ActingSeat, but a lone seat with chips is never asked.
ActingSeatLoneSkipped(live, able, waiting, facing, next) ==
  IF AtMostOne(live) \/ AtMostOne(able) \/ waiting = {} THEN NoPlayer ELSE next

\* The seat refresh_round_completion leaves to act; `next` is the one found
\* by next_pending_after.
ActingSeat(live, able, waiting, facing, next) ==
  IF AtMostOne(live) THEN NoPlayer
  ELSE IF AtMostOne(able)
       THEN IF waiting \cap facing = {} THEN NoPlayer
            ELSE CHOOSE seat \in waiting \cap facing : TRUE
       ELSE IF waiting = {} THEN NoPlayer ELSE next

\* As SelectActor, but the end of the hand by folds leaves the flags alone.
SelectActorFlagsKept(player, pend, rights) ==
  LET able == Actionable(folded', stacks')
      waiting == {seat \in able : pend[seat]}
      facing == {seat \in Seats : street_contributions'[seat] < current_bet'}
  IN /\ current_player' = ActingSeat(Live(folded'), able, waiting, facing,
                                     next_pending_after(waiting, player))
     /\ pending' = pend
     /\ may_raise' = rights

\* The end of every transition: the next pending seat after `player`, then
\* refresh_round_completion on the new state.  Only the end of the hand by
\* folds clears the flags; `pend` and `rights` are the flags before it.
SelectActor(player, pend, rights) ==
  LET live == Live(folded')
      able == Actionable(folded', stacks')
      waiting == {seat \in able : pend[seat]}
      facing == {seat \in Seats : street_contributions'[seat] < current_bet'}
      over == AtMostOne(live)
  IN /\ current_player' = ActingSeat(live, able, waiting, facing,
                                     next_pending_after(waiting, player))
     /\ pending' = [seat \in Seats |-> pend[seat] /\ ~over]
     /\ may_raise' = [seat \in Seats |-> rights[seat] /\ ~over]

next_node_kind ==
  IF AtMostOne(Live(folded)) THEN "FoldTerminal"
  ELSE IF current_player # NoPlayer THEN "BettingDecision"
  ELSE IF AtMostOne(Actionable(folded, stacks)) /\ street # River
       THEN "BoardRunout"
  ELSE IF street = River THEN "ShowdownTerminal" ELSE "StreetTransition"

-----------------------------------------------------------------------------
(* The start of a hand.                                                    *)

\* make_initial_game_config: the blinds sit just before the first actor.  A
\* seat that cannot cover its blind posts what it has.
Posted(stack, first) ==
  [seat \in Seats |->
     LET due == IF seat = SeatBefore(first) THEN BigBlind
                ELSE IF seat = SeatBefore(SeatBefore(first))
                     THEN SmallBlind ELSE 0
     IN IF due <= stack[seat] THEN due ELSE stack[seat]]

IsHighest(high, amounts) ==
  /\ \E seat \in Seats : amounts[seat] = high
  /\ \A seat \in Seats : amounts[seat] <= high

\* make_multiway_fixed_state(config).
Init ==
  \E stack \in StartingStacks, first \in Seats :
    LET posted == Posted(stack, first)
        left == [seat \in Seats |-> stack[seat] - posted[seat]]
        nobody == [seat \in Seats |-> FALSE]
        able == Actionable(nobody, left)
    IN /\ starting_stacks = stack
       /\ stacks = left
       /\ contributions = posted
       /\ street_contributions = posted
       /\ folded = nobody
       /\ pending = [seat \in Seats |-> left[seat] > 0]
       /\ may_raise = pending
       /\ has_acted = nobody
       /\ bet_faced_when_acted = [seat \in Seats |-> 0]
       /\ current_bet \in {posted[seat] : seat \in Seats}
       /\ IsHighest(current_bet, posted)
       /\ current_player =
            ActingSeat(Seats, able, able,
                       {seat \in Seats : posted[seat] < current_bet},
                       next_pending_after(able, first - 1))
       /\ last_aggressor = NoPlayer
       /\ last_full_raise_size = BigBlind
       /\ street = Preflop

-----------------------------------------------------------------------------
(* apply.  `p` is the current player and ToCall what it must add.          *)

ToCall(p) == current_bet - street_contributions[p]
HasOpponent == ~AtMostOne(Actionable(folded, stacks))

\* As Pay, but the total forgets the streets before this one.
PayThisStreet(p, amount) ==
  /\ stacks' = [stacks EXCEPT ![p] = @ - amount]
  /\ street_contributions' = [street_contributions EXCEPT ![p] = @ + amount]
  /\ contributions' = [contributions EXCEPT ![p] = street_contributions'[p]]
  /\ UNCHANGED starting_stacks

\* The lambda pay of apply.
Pay(p, amount) ==
  /\ stacks' = [stacks EXCEPT ![p] = @ - amount]
  /\ contributions' = [contributions EXCEPT ![p] = @ + amount]
  /\ street_contributions' = [street_contributions EXCEPT ![p] = @ + amount]
  /\ UNCHANGED starting_stacks

\* The lambda acted of apply, then the choice of the next actor.
Acted(p) ==
  /\ has_acted' = [has_acted EXCEPT ![p] = TRUE]
  /\ bet_faced_when_acted' = [bet_faced_when_acted EXCEPT ![p] = current_bet]
  /\ UNCHANGED <<current_bet, last_full_raise_size, last_aggressor, street>>
  /\ SelectActor(p, [pending EXCEPT ![p] = FALSE],
                    [may_raise EXCEPT ![p] = FALSE])

Fold(p) ==
  /\ p = current_player
  /\ ToCall(p) > 0
  /\ folded' = [folded EXCEPT ![p] = TRUE]
  /\ UNCHANGED chips
  /\ Acted(p)

Check(p) ==
  /\ p = current_player
  /\ ToCall(p) <= 0
  /\ UNCHANGED <<chips, folded>>
  /\ Acted(p)

\* As Call, but a seat with too few chips pays the whole wager.
CallUncapped(p) ==
  /\ p = current_player
  /\ ToCall(p) > 0
  /\ Pay(p, ToCall(p))
  /\ UNCHANGED folded
  /\ Acted(p)

Call(p) ==
  /\ p = current_player
  /\ ToCall(p) > 0
  /\ Pay(p, IF ToCall(p) <= stacks[p] THEN ToCall(p) ELSE stacks[p])
  /\ UNCHANGED folded
  /\ Acted(p)

\* reset_pending_after_full_raise.
Reopened(p) == [seat \in Seats |->
  seat # p /\ seat \in Actionable(folded, stacks')]

\* refresh_raise_rights_after_short_raise: the pending flags.
StillPending(p, target) == [seat \in Seats |->
  IF seat = p THEN FALSE
  ELSE pending[seat] \/ (/\ seat \in Actionable(folded, stacks)
                         /\ street_contributions[seat] < target)]

\* As RightsAfterShortRaise, but what a seat has faced since it acted, short
\* raises added up, never counts.
RightsAfterLastRaiseOnly(p, target) == [seat \in Seats |->
  IF seat = p THEN FALSE
  ELSE IF seat \in Actionable(folded, stacks) THEN ~has_acted[seat]
       ELSE may_raise[seat]]

\* refresh_raise_rights_after_short_raise: the raise rights.
RightsAfterShortRaise(p, target) == [seat \in Seats |->
  IF seat = p THEN FALSE
  ELSE IF seat \in Actionable(folded, stacks)
       THEN \/ ~has_acted[seat]
            \/ target - bet_faced_when_acted[seat] >= last_full_raise_size
       ELSE may_raise[seat]]

IsFullRaise(target) == target - current_bet >= last_full_raise_size

\* What Bet, Raise and a raising AllIn share once the chips are paid.
RaiseTo(p, target) ==
  /\ current_bet' = target
  /\ last_aggressor' = p
  /\ has_acted' = [has_acted EXCEPT ![p] = TRUE]
  /\ bet_faced_when_acted' = [bet_faced_when_acted EXCEPT ![p] = target]
  /\ UNCHANGED <<folded, street>>
  /\ \/ /\ IsFullRaise(target)
        /\ last_full_raise_size' = target - current_bet
        /\ SelectActor(p, Reopened(p), Reopened(p))
     \/ /\ ~IsFullRaise(target)
        /\ UNCHANGED last_full_raise_size
        /\ SelectActor(p, StillPending(p, target),
                          RightsAfterShortRaise(p, target))

\* Bet and Raise: a target short of all-in, and never below a full raise.
Raise(p, target) ==
  /\ p = current_player
  /\ HasOpponent
  /\ may_raise[p]
  /\ street_contributions[p] + stacks[p] > current_bet + last_full_raise_size
  /\ target > current_bet
  /\ target < street_contributions[p] + stacks[p]
  /\ target - current_bet >= last_full_raise_size
  /\ Pay(p, target - street_contributions[p])
  /\ RaiseTo(p, target)

\* The menu offers AllIn only above the current bet, so it always raises.
AllIn(p) ==
  LET target == street_contributions[p] + stacks[p]
  IN /\ p = current_player
     /\ HasOpponent
     /\ may_raise[p]
     /\ target > current_bet
     /\ Pay(p, stacks[p])
     /\ RaiseTo(p, target)

\* As BeginNextStreet, but the same street may start again.
BeginAnyStreet(first) ==
  /\ next_node_kind = "StreetTransition"
  /\ street' \in {street, street + 1}
  /\ current_bet' = 0
  /\ last_full_raise_size' = BigBlind
  /\ last_aggressor' = NoPlayer
  /\ street_contributions' = [seat \in Seats |-> 0]
  /\ has_acted' = [seat \in Seats |-> FALSE]
  /\ bet_faced_when_acted' = [seat \in Seats |-> 0]
  /\ UNCHANGED <<starting_stacks, stacks, contributions, folded>>
  /\ LET able == [seat \in Seats |-> seat \in Actionable(folded, stacks)]
     IN SelectActor(first - 1, able, able)

BeginNextStreet(first) ==
  /\ next_node_kind = "StreetTransition"
  /\ street' = street + 1
  /\ current_bet' = 0
  /\ last_full_raise_size' = BigBlind
  /\ last_aggressor' = NoPlayer
  /\ street_contributions' = [seat \in Seats |-> 0]
  /\ has_acted' = [seat \in Seats |-> FALSE]
  /\ bet_faced_when_acted' = [seat \in Seats |-> 0]
  /\ UNCHANGED <<starting_stacks, stacks, contributions, folded>>
  /\ LET able == [seat \in Seats |-> seat \in Actionable(folded, stacks)]
     IN SelectActor(first - 1, able, able)

Next ==
  \/ \E p \in Seats : \/ Fold(p) \/ Check(p) \/ Call(p) \/ AllIn(p)
                      \/ \E target \in 1 .. street_contributions[p] + stacks[p] :
                           Raise(p, target)
  \/ \E first \in Seats : BeginNextStreet(first)

Spec == Init /\ [][Next]_vars

\* Whoever drives a hand answers every decision and deals every street.
FairSpec == Spec /\ WF_vars(Next)

-----------------------------------------------------------------------------
(* Properties.                                                             *)

\* The fields keep the types MultiwayFixedState declares, and no stack or
\* contribution is ever negative.
TypeOK ==
  /\ starting_stacks \in StartingStacks
  /\ stacks \in [Seats -> Nat]
  /\ contributions \in [Seats -> Nat]
  /\ street_contributions \in [Seats -> Nat]
  /\ folded \in [Seats -> BOOLEAN]
  /\ may_raise \in [Seats -> BOOLEAN]
  /\ pending \in [Seats -> BOOLEAN]
  /\ has_acted \in [Seats -> BOOLEAN]
  /\ bet_faced_when_acted \in [Seats -> Nat]
  /\ current_player \in Seats \cup {NoPlayer}
  /\ last_aggressor \in Seats \cup {NoPlayer}
  /\ current_bet \in Nat
  /\ last_full_raise_size \in Nat \ {0}
  /\ street \in Preflop .. River

\* No chip appears or disappears: at any point of the hand a seat's stack and
\* its contribution add up to what it started with.
ChipsConserved ==
  \A seat \in Seats :
    /\ stacks[seat] + contributions[seat] = starting_stacks[seat]
    /\ street_contributions[seat] <= contributions[seat]

\* The seat checks of MultiwayBettingSnapshot::validate, which decide whether
\* MultiwayState accepts the state a transition built: nobody facing a wager
\* is skipped, nobody who matched it is asked again, and a pending seat may
\* raise exactly when it has not acted or has since faced a full raise.
SeatsValid ==
  /\ IsHighest(current_bet, street_contributions)
  /\ \A seat \in Seats :
       /\ bet_faced_when_acted[seat] <= current_bet
       /\ may_raise[seat] => pending[seat]
       /\ pending[seat] => ~folded[seat] /\ stacks[seat] > 0
       /\ (seat \in Actionable(folded, stacks)
             /\ street_contributions[seat] < current_bet) => pending[seat]
       /\ pending[seat] =>
            /\ ~(has_acted[seat] /\ street_contributions[seat] = current_bet)
            /\ may_raise[seat] =
                 (\/ ~has_acted[seat]
                  \/ current_bet - bet_faced_when_acted[seat]
                       >= last_full_raise_size)
  /\ HasOpponent => \A seat \in Actionable(folded, stacks) :
                      has_acted[seat] \/ pending[seat]
  /\ current_player # NoPlayer => pending[current_player]

\* The last check of validate: a closed betting round leaves nobody pending.
ClosedRoundHasNoPending ==
  current_player = NoPlayer => \A seat \in Seats : ~pending[seat]

\* Whatever the stacks, the state apply returns passes the validator of
\* MultiwayBettingSnapshot, so MultiwayState::apply accepts every action that
\* legal_actions offers.
SnapshotValid == SeatsValid /\ ClosedRoundHasNoPending

\* The profile of MultiwayGameRules gives every seat the same stack; from such
\* a table no legal action leads to a snapshot that validate refuses.
SnapshotValidFromRules ==
  (\A a, b \in Seats : starting_stacks[a] = starting_stacks[b]) => SnapshotValid

\* When betting is closed with two or more seats left, every seat that still
\* has chips has put in as much as anybody: no seat sees the next card, or
\* the showdown, for less than the others paid.
ClosedRoundIsMatched ==
  (current_player = NoPlayer /\ ~AtMostOne(Live(folded))) =>
    \A seat \in Actionable(folded, stacks), other \in Live(folded) :
      contributions[other] <= contributions[seat]

HandOver ==
  next_node_kind \in {"FoldTerminal", "ShowdownTerminal", "BoardRunout"}

\* Every hand reaches a settlement: raises cannot go on for ever, no seat is
\* asked for ever, and a closed street is always followed by the next.
HandEnds == <>HandOver

-----------------------------------------------------------------------------
(* The hand is settled as MultiwayTerminalAdapter::resolve_terminal_impl   *)
(* does it: the contributions and the folds of the final betting state,    *)
(* and any strengths, are the input.                                       *)

\* Whether the flop was dealt when the hand is settled: the adapter looks at
\* the board, which is empty only if all folded before the flop, since a
\* runout is settled on five cards.
FlopSeen == ~(street = Preflop /\ next_node_kind = "FoldTerminal")

\* MultiwayTerminalAdapter::resolve_terminal_impl.
SettleHand(strengths, odd_chip_first_seat) ==
  Settle(contributions, folded, strengths, odd_chip_first_seat, FlopSeen)

-----------------------------------------------------------------------------
(* The reference: every chip above the table is a slice of its own.  Slice *)
(* k holds one chip of each seat that put in at least k; it goes back if   *)
(* it stands alone and is otherwise split evenly by the strongest seats    *)
(* still in the hand.  Shares are counted in parts of a chip, so that      *)
(* every split is exact.                                                   *)

PartsPerChip == 60    \* divisible by every number of winners up to six

InSlice(k) == {seat \in Seats : contributions[seat] >= k}

SliceWinners(k, strengths) ==
  LET claimants == {seat \in InSlice(k) : ~folded[seat]}
  IN {seat \in claimants :
        \A other \in claimants : strengths[other] <= strengths[seat]}

SlicesWon(seat, strengths) ==
  {k \in 1 .. contributions[seat] :
     Cardinality(InSlice(k)) > 1 /\ seat \in SliceWinners(k, strengths)}

FairParts(seat, strengths) ==
  Sum([k \in SlicesWon(seat, strengths) |->
         (Cardinality(InSlice(k)) * PartsPerChip)
           \div Cardinality(SliceWinners(k, strengths))])

\* The splits of this seat that may leave odd chips: one for each layer.
SharedLayers(seat, strengths) ==
  {InSlice(k) : k \in {won \in SlicesWon(seat, strengths) :
                         Cardinality(SliceWinners(won, strengths)) > 1}}

LoneSlices(seat) ==
  Cardinality({k \in 1 .. contributions[seat] : InSlice(k) = {seat}})

\* The showdowns that differ: an order of the live hands, ties included.  A
\* folded hand is as strong as any, and must not matter.
Showdowns ==
  {strengths \in [Seats -> 0 .. SeatCount - 1] :
     /\ \A seat \in Seats \ Live(folded) : strengths[seat] = SeatCount - 1
     /\ \A seat \in Live(folded) :
          strengths[seat] = 0 \/ \E other \in Live(folded) :
                                   strengths[other] = strengths[seat] - 1}

\* A hand that play can reach is never refused by the settlement: every
\* contested layer has a seat that has not folded to claim it.
EveryPotClaimed == HandOver => Unclaimed(contributions, folded) = {}

\* A finished hand is settled, and settling it creates and destroys no chip:
\* payouts, refunds and rake add up to what was put in, whoever wins and
\* wherever the odd chips go.
SettlementConserves ==
  /\ EveryPotClaimed
  /\ HandOver =>
    \A strengths \in Showdowns, odd \in Seats :
      LET result == SettleHand(strengths, odd)
      IN Sum(result.payouts) + Sum(result.refunds) + result.rake_taken
           = Sum(contributions)

\* Every seat is paid what the chip-by-chip division gives it: exactly its
\* unmatched chips back, at most one odd chip more or less for each layer it
\* shares, and less only by the rake.
SettlementMatchesSlices ==
  HandOver =>
    \A strengths \in Showdowns, odd \in Seats :
      LET result == SettleHand(strengths, odd)
      IN \A seat \in Seats :
           LET paid == PartsPerChip * result.payouts[seat]
               fair == FairParts(seat, strengths)
               slack == (PartsPerChip - 1)
                          * Cardinality(SharedLayers(seat, strengths))
           IN /\ result.refunds[seat] = LoneSlices(seat)
              /\ paid <= fair + slack
              /\ paid >= fair - slack - PartsPerChip * result.rake_taken

=============================================================================
