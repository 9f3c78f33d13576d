------------------------ MODULE MultiwayBettingProofs ------------------------
(***************************************************************************)
(* Theorems about MultiwayBetting, for every table size, blinds and        *)
(* stacks.                                                                 *)
(***************************************************************************)
EXTENDS MultiwayBetting, TLAPS, FiniteSetTheorems, NaturalsInduction,
        WellFoundedInduction

Flags == [Seats -> BOOLEAN]

(***************************************************************************)
(* Choosing the next actor.                                                *)
(***************************************************************************)

\* The walk around the table stops at a seat that is waiting, if there is one.
LEMMA NextPendingIsWaiting ==
  ASSUME NEW waiting \in SUBSET Seats, waiting # {},
         NEW player \in -1 .. SeatCount - 1
  PROVE  next_pending_after(waiting, player) \in waiting
PROOF
<1> DEFINE offsets == {Offset(player, seat) : seat \in waiting}
<1>1. \A seat \in waiting : Offset(player, seat) \in Nat
  BY TableAssumption DEF Offset, Seats
<1>2. offsets \in SUBSET Nat /\ offsets # {}
  BY <1>1
<1>3. \E least \in offsets : \A other \in offsets :
        ~(<<other, least>> \in OpToRel(<, Nat))
  BY <1>2, NatLessThanWellFounded, WFMin
<1>4. PICK seat \in waiting : \A other \in waiting :
        ~(<<Offset(player, other), Offset(player, seat)>> \in OpToRel(<, Nat))
  BY <1>3
<1>5. \A other \in waiting : Offset(player, seat) <= Offset(player, other)
  <2> SUFFICES ASSUME NEW other \in waiting
               PROVE  Offset(player, seat) <= Offset(player, other)
    OBVIOUS
  <2>1. Offset(player, seat) \in Nat /\ Offset(player, other) \in Nat
    BY <1>1
  <2>2. ~(Offset(player, other) < Offset(player, seat))
    BY <1>4, <2>1, Zenon DEF OpToRel
  <2> QED BY <2>1, <2>2
<1> QED BY <1>5 DEF next_pending_after

\* Whoever is left to act is waiting to.
LEMMA ActingSeatIsWaiting ==
  ASSUME NEW waiting \in SUBSET Seats, NEW live, NEW able, NEW facing,
         NEW player \in -1 .. SeatCount - 1
  PROVE  LET seat == ActingSeat(live, able, waiting, facing,
                                next_pending_after(waiting, player))
         IN seat = NoPlayer \/ seat \in waiting
PROOF BY NextPendingIsWaiting DEF ActingSeat

\* What every transition leaves: the flags it computed, or none at all when
\* the others have folded, and an actor that is pending.
LEMMA SelectedActor ==
  ASSUME NEW player \in -1 .. SeatCount - 1,
         NEW pend \in Flags, NEW rights \in Flags,
         SelectActor(player, pend, rights)
  PROVE  /\ pending' \in Flags /\ may_raise' \in Flags
         /\ current_player' \in Seats \cup {NoPlayer}
         /\ current_player' # NoPlayer => pending'[current_player']
         /\ \/ pending' = pend /\ may_raise' = rights
            \/ /\ AtMostOne(Live(folded'))
               /\ \A seat \in Seats : ~pending'[seat] /\ ~may_raise'[seat]
PROOF
<1> DEFINE live == Live(folded')
           able == Actionable(folded', stacks')
           waiting == {seat \in able : pend[seat]}
           facing == {seat \in Seats : street_contributions'[seat] < current_bet'}
           over == AtMostOne(live)
<1>1. /\ current_player' = ActingSeat(live, able, waiting, facing,
                                      next_pending_after(waiting, player))
      /\ pending' = [seat \in Seats |-> pend[seat] /\ ~over]
      /\ may_raise' = [seat \in Seats |-> rights[seat] /\ ~over]
  BY DEF SelectActor
<1>2. waiting \in SUBSET Seats
  BY DEF Actionable
<1>3. current_player' = NoPlayer \/ current_player' \in waiting
  BY <1>1, <1>2, ActingSeatIsWaiting
<1>4. CASE over
  <2>1. \A seat \in Seats : ~pending'[seat] /\ ~may_raise'[seat]
    BY <1>1, <1>4
  <2>2. current_player' = NoPlayer
    BY <1>1, <1>4 DEF ActingSeat
  <2>3. pending' \in Flags /\ may_raise' \in Flags
    BY <1>1, <1>4 DEF Flags
  <2> QED BY <2>1, <2>2, <2>3, <1>4
<1>5. CASE ~over
  <2>1. pending' = pend /\ may_raise' = rights
    BY <1>1, <1>5, Zenon DEF Flags
  <2>2. current_player' # NoPlayer => pending'[current_player']
    BY <2>1, <1>3
  <2>3. current_player' \in Seats \cup {NoPlayer}
    BY <1>2, <1>3
  <2> QED BY <2>1, <2>2, <2>3
<1> QED BY <1>4, <1>5

(***************************************************************************)
(* The inductive invariant.  SeatsValid needs one more fact: the wager of  *)
(* the street is held by a seat that has not folded.  Without it the last  *)
(* fold could leave the winner facing a bet, pending and unasked.          *)
(***************************************************************************)

WagerIsLive == \E seat \in Live(folded) : street_contributions[seat] = current_bet

IndInv == TypeOK /\ ChipsConserved /\ SeatsValid /\ WagerIsLive

\* The hand starts in the invariant.
LEMMA InitInv == Init => IndInv
PROOF
<1> SUFFICES ASSUME Init PROVE IndInv
  OBVIOUS
<1> USE TableAssumption
<1>1. PICK stack \in StartingStacks, first \in Seats :
        LET posted == Posted(stack, first)
            left == [seat \in Seats |-> stack[seat] - posted[seat]]
            nobody == [seat \in Seats |-> FALSE]
            able == Actionable(nobody, left)
        IN /\ starting_stacks = stack
           /\ stacks = left
           /\ contributions = posted
           /\ street_contributions = posted
           /\ folded = nobody
           /\ pending = [seat \in Seats |-> left[seat] > 0]
           /\ may_raise = pending
           /\ has_acted = nobody
           /\ bet_faced_when_acted = [seat \in Seats |-> 0]
           /\ current_bet \in {posted[seat] : seat \in Seats}
           /\ IsHighest(current_bet, posted)
           /\ current_player =
                ActingSeat(Seats, able, able,
                           {seat \in Seats : posted[seat] < current_bet},
                           next_pending_after(able, first - 1))
           /\ last_aggressor = NoPlayer
           /\ last_full_raise_size = BigBlind
           /\ street = Preflop
  BY DEF Init
<1> DEFINE posted == Posted(stack, first)
           able == Actionable(folded, stacks)
<1>2. stack \in [Seats -> Nat]
  OBVIOUS
<1>3. /\ posted \in [Seats -> Nat]
      /\ \A seat \in Seats : posted[seat] <= stack[seat]
  BY <1>2 DEF Posted
<1>4. /\ stacks \in [Seats -> Nat]
      /\ \A seat \in Seats : stacks[seat] + contributions[seat] = stack[seat]
  BY <1>1, <1>2, <1>3
<1>5. able \in SUBSET Seats
  BY DEF Actionable
<1>6. current_player = NoPlayer \/ current_player \in able
  <2>1. first - 1 \in -1 .. SeatCount - 1
    BY DEF Seats
  <2>2. current_player = ActingSeat(Seats, able, able,
                           {seat \in Seats : posted[seat] < current_bet},
                           next_pending_after(able, first - 1))
    BY <1>1
  <2> QED BY <2>1, <2>2, <1>5, ActingSeatIsWaiting
<1>7. current_bet \in Nat
  BY <1>1, <1>3
<1>8. \A seat \in Seats : pending[seat] = (stacks[seat] > 0)
  BY <1>1
<1>9. TypeOK
  <2>1. current_player \in Seats \cup {NoPlayer}
    BY <1>5, <1>6
  <2>2. pending \in [Seats -> BOOLEAN]
    BY <1>1
  <2> QED
    BY <1>1, <1>3, <1>4, <1>7, <2>1, <2>2 DEF TypeOK, Preflop, River
<1>10. ChipsConserved
  BY <1>1, <1>3, <1>4 DEF ChipsConserved
<1>11. WagerIsLive
  BY <1>1 DEF WagerIsLive, IsHighest, Live
<1>12. SeatsValid
  <2>1. current_player # NoPlayer => pending[current_player]
    BY <1>6, <1>8 DEF Actionable
  <2>2. IsHighest(current_bet, street_contributions)
    BY <1>1
  <2>3. \A seat \in Seats : bet_faced_when_acted[seat] <= current_bet
    BY <1>1, <1>7
  <2> QED
    BY <1>1, <1>8, <1>9, <2>1, <2>2, <2>3
    DEF SeatsValid, TypeOK, Actionable, HasOpponent
<1> QED BY <1>9, <1>10, <1>11, <1>12 DEF IndInv

(***************************************************************************)
(* The steps.                                                              *)
(***************************************************************************)

\* The seat to act is in the hand and has chips to act with.
LEMMA ActorCanAct ==
  ASSUME IndInv, NEW p \in Seats, p = current_player
  PROVE  /\ ~folded[p] /\ stacks[p] > 0 /\ pending[p]
         /\ p \in -1 .. SeatCount - 1
PROOF
<1>1. p # NoPlayer
  BY TableAssumption DEF Seats, NoPlayer
<1>2. pending[p]
  BY <1>1 DEF IndInv, SeatsValid
<1>3. ~folded[p] /\ stacks[p] > 0
  BY <1>2 DEF IndInv, SeatsValid
<1>4. p \in -1 .. SeatCount - 1
  BY TableAssumption DEF Seats
<1> QED BY <1>2, <1>3, <1>4

\* A fold, a check or a call leaves the other seats as they were and closes
\* the actor's turn; `paid` is what it put in.
LEMMA ActedInv ==
  ASSUME IndInv, NEW p \in Seats, p = current_player,
         NEW paid \in Nat, paid <= stacks[p], paid <= ToCall(p),
         Pay(p, paid), Acted(p),
         \/ folded' = folded /\ (paid = stacks[p] \/ paid = ToCall(p))
         \/ folded' = [folded EXCEPT ![p] = TRUE] /\ ToCall(p) > 0 /\ paid = 0
  PROVE  IndInv'
PROOF
<1> USE TableAssumption
<1> DEFINE pend == [pending EXCEPT ![p] = FALSE]
           rights == [may_raise EXCEPT ![p] = FALSE]
<1>1. TypeOK /\ ChipsConserved /\ SeatsValid /\ WagerIsLive
  BY DEF IndInv
<1>2. ~folded[p] /\ stacks[p] > 0 /\ p \in -1 .. SeatCount - 1
  BY ActorCanAct
<1>3. pend \in Flags /\ rights \in Flags
  BY <1>1, Zenon DEF TypeOK, Flags
<1>4. SelectActor(p, pend, rights)
  BY DEF Acted
<1>5. /\ pending' \in Flags /\ may_raise' \in Flags
      /\ current_player' \in Seats \cup {NoPlayer}
      /\ current_player' # NoPlayer => pending'[current_player']
      /\ \/ pending' = pend /\ may_raise' = rights
         \/ /\ AtMostOne(Live(folded'))
            /\ \A seat \in Seats : ~pending'[seat] /\ ~may_raise'[seat]
  BY <1>2, <1>3, <1>4, SelectedActor
<1>6. folded' \in Flags
  BY <1>1 DEF TypeOK, Flags
<1>7. /\ stacks' \in [Seats -> Nat]
      /\ contributions' \in [Seats -> Nat]
      /\ street_contributions' \in [Seats -> Nat]
  BY <1>1 DEF TypeOK, Pay
<1>8. TypeOK'
  <2>1. has_acted' \in [Seats -> BOOLEAN]
    BY <1>1 DEF Acted, TypeOK
  <2>2. bet_faced_when_acted' \in [Seats -> Nat]
    BY <1>1 DEF Acted, TypeOK
  <2> QED BY <1>1, <1>5, <1>6, <1>7, <2>1, <2>2 DEF TypeOK, Pay, Acted, Flags
<1>9. ChipsConserved'
  BY <1>1 DEF ChipsConserved, TypeOK, Pay
<1>10. WagerIsLive'
  <2>1. PICK seat \in Live(folded) : street_contributions[seat] = current_bet
    BY <1>1 DEF WagerIsLive
  <2>2. seat \in Seats /\ ~folded[seat]
    BY <2>1 DEF Live
  <2>3. CASE seat = p
    <3>1. ToCall(p) = 0 /\ paid = 0
      BY <1>1, <2>1, <2>3 DEF ToCall, TypeOK
    <3>2. folded' = folded
      BY <3>1
    <3> QED BY <1>1, <2>1, <2>2, <3>1, <3>2 DEF WagerIsLive, Live, Pay, Acted, TypeOK
  <2>4. CASE seat # p
    BY <1>1, <2>1, <2>2, <2>4 DEF WagerIsLive, Live, Pay, Acted, TypeOK
  <2> QED BY <2>3, <2>4
<1>11. IsHighest(current_bet', street_contributions')
  <2>1. \A seat \in Seats : street_contributions'[seat] <= current_bet'
    BY <1>1 DEF SeatsValid, IsHighest, Pay, Acted, ToCall, TypeOK
  <2>2. \E seat \in Seats : street_contributions'[seat] = current_bet'
    BY <1>10 DEF WagerIsLive, Live
  <2> QED BY <2>1, <2>2 DEF IsHighest
<1>12. SeatsValid'
  <2>1. \A seat \in Seats : bet_faced_when_acted'[seat] <= current_bet'
    <3>1. \A seat \in Seats : bet_faced_when_acted[seat] <= current_bet
      BY <1>1 DEF SeatsValid
    <3>2. current_bet' = current_bet /\ current_bet \in Nat
      BY <1>1 DEF Acted, TypeOK
    <3>3. bet_faced_when_acted' = [bet_faced_when_acted EXCEPT ![p] = current_bet]
      BY DEF Acted
    <3>4. bet_faced_when_acted \in [Seats -> Nat]
      BY <1>1 DEF TypeOK
    <3> QED BY <3>1, <3>2, <3>3, <3>4
  <2>2. /\ \A seat \in Seats : may_raise'[seat] => pending'[seat]
        /\ \A seat \in Seats : pending'[seat] => seat # p /\ pending[seat]
    <3>1. CASE pending' = pend /\ may_raise' = rights
      BY <1>1, <3>1 DEF SeatsValid, TypeOK
    <3>2. CASE \A seat \in Seats : ~pending'[seat] /\ ~may_raise'[seat]
      BY <3>2
    <3> QED BY <1>5, <3>1, <3>2
  <2>3. \A seat \in Seats : pending'[seat] => ~folded'[seat] /\ stacks'[seat] > 0
    BY <1>1, <2>2 DEF SeatsValid, Pay, TypeOK
  <2>4. Actionable(folded', stacks') \in SUBSET Actionable(folded, stacks)
    BY <1>1 DEF Actionable, Pay, TypeOK
  <2>5. p \in Actionable(folded', stacks') => street_contributions'[p] = current_bet'
    BY <1>1 DEF Actionable, Pay, Acted, ToCall, TypeOK
  <2>6. ASSUME NEW seat \in Actionable(folded', stacks'),
               street_contributions'[seat] < current_bet'
        PROVE  pending'[seat]
    <3>1. seat \in Seats /\ seat # p
      BY <1>7, <1>8, <2>5, <2>6 DEF Actionable, TypeOK
    <3>2. pending[seat]
      BY <1>1, <2>4, <2>6, <3>1 DEF SeatsValid, Pay, Acted, TypeOK
    <3>3. CASE pending' = pend
      BY <1>1, <3>1, <3>2, <3>3 DEF TypeOK
    <3>4. CASE AtMostOne(Live(folded'))
      BY <1>8, <1>10, <2>6, <3>4 DEF AtMostOne, WagerIsLive, Live, Actionable, TypeOK
    <3> QED BY <1>5, <3>3, <3>4
  <2>7. ASSUME NEW seat \in Seats, pending'[seat]
        PROVE  /\ ~(has_acted'[seat] /\ street_contributions'[seat] = current_bet')
               /\ may_raise'[seat] =
                    (\/ ~has_acted'[seat]
                     \/ current_bet' - bet_faced_when_acted'[seat]
                          >= last_full_raise_size')
    <3>1. seat # p /\ pending[seat] /\ may_raise'[seat] = may_raise[seat]
      BY <1>1, <1>5, <2>2, <2>7 DEF TypeOK
    <3> QED BY <1>1, <3>1 DEF SeatsValid, Pay, Acted, TypeOK
  <2>8. HasOpponent' => \A seat \in Actionable(folded', stacks') :
                          has_acted'[seat] \/ pending'[seat]
    <3> SUFFICES ASSUME HasOpponent', NEW seat \in Actionable(folded', stacks')
                 PROVE  has_acted'[seat] \/ pending'[seat]
      OBVIOUS
    <3>1. ~AtMostOne(Live(folded')) /\ HasOpponent
      BY <2>4 DEF HasOpponent, AtMostOne, Live, Actionable
    <3>2. pending' = pend
      BY <1>5, <3>1
    <3>3. has_acted[seat] \/ pending[seat]
      BY <1>1, <2>4, <3>1 DEF SeatsValid
    <3> QED BY <1>1, <3>2, <3>3 DEF Acted, TypeOK, Actionable
  <2> QED
    BY <1>5, <1>11, <2>1, <2>2, <2>3, <2>6, <2>7, <2>8 DEF SeatsValid
<1> QED BY <1>8, <1>9, <1>10, <1>12 DEF IndInv

\* A raise, short or full: every other seat with chips is asked again, and has
\* the right to raise exactly when the validator expects it.
LEMMA RaiseInv ==
  ASSUME IndInv, NEW p \in Seats, p = current_player, NEW target \in Nat,
         target > current_bet, target <= street_contributions[p] + stacks[p],
         Pay(p, target - street_contributions[p]), RaiseTo(p, target)
  PROVE  IndInv'
PROOF
<1> USE TableAssumption
<1>1. TypeOK /\ ChipsConserved /\ SeatsValid /\ WagerIsLive
  BY DEF IndInv
<1>2. ~folded[p] /\ stacks[p] > 0 /\ p \in -1 .. SeatCount - 1
  BY ActorCanAct
<1>3. street_contributions[p] <= current_bet
  BY <1>1 DEF SeatsValid, IsHighest
<1> DEFINE paid == target - street_contributions[p]
<1>4. paid \in Nat /\ paid <= stacks[p] /\ paid > 0
  BY <1>1, <1>3 DEF TypeOK
<1>5. /\ stacks' = [stacks EXCEPT ![p] = @ - paid]
      /\ contributions' = [contributions EXCEPT ![p] = @ + paid]
      /\ street_contributions' = [street_contributions EXCEPT ![p] = @ + paid]
      /\ starting_stacks' = starting_stacks
  BY DEF Pay
<1>6. /\ stacks' \in [Seats -> Nat]
      /\ contributions' \in [Seats -> Nat]
      /\ street_contributions' \in [Seats -> Nat]
      /\ street_contributions'[p] = target
      /\ \A seat \in Seats \ {p} :
           /\ stacks'[seat] = stacks[seat]
           /\ street_contributions'[seat] = street_contributions[seat]
  BY <1>1, <1>4, <1>5 DEF TypeOK
<1>7. /\ current_bet' = target /\ last_aggressor' = p
      /\ folded' = folded /\ street' = street
      /\ has_acted' = [has_acted EXCEPT ![p] = TRUE]
      /\ bet_faced_when_acted' = [bet_faced_when_acted EXCEPT ![p] = target]
  BY DEF RaiseTo
<1>8. \A seat \in Seats : street_contributions[seat] < target
                          /\ bet_faced_when_acted[seat] <= current_bet
  <2>1. \A seat \in Seats : bet_faced_when_acted[seat] <= current_bet
    BY <1>1 DEF SeatsValid
  <2>2. \A seat \in Seats : street_contributions[seat] <= current_bet
    BY <1>1 DEF SeatsValid, IsHighest
  <2>3. current_bet \in Nat /\ street_contributions \in [Seats -> Nat]
    BY <1>1 DEF TypeOK
  <2> QED BY <2>1, <2>2, <2>3
\* The flags the code computes, in one form for full and short raises.
<1>9. PICK pend \in Flags, rights \in Flags :
        /\ SelectActor(p, pend, rights)
        /\ last_full_raise_size' \in Nat \ {0}
        /\ \A seat \in Seats :
             /\ pend[seat] = (seat # p /\ seat \in Actionable(folded, stacks))
             /\ rights[seat] =
                  (/\ pend[seat]
                   /\ \/ ~has_acted[seat]
                      \/ target - bet_faced_when_acted[seat]
                           >= last_full_raise_size')
  <2>1. CASE IsFullRaise(target)
    <3>1. /\ SelectActor(p, Reopened(p), Reopened(p))
          /\ last_full_raise_size' = target - current_bet
      BY <2>1 DEF RaiseTo
    <3>2. Reopened(p) \in Flags
      BY DEF Reopened, Flags
    <3>3. last_full_raise_size' \in Nat \ {0}
      BY <1>1, <3>1 DEF TypeOK
    <3>4. \A seat \in Seats :
            Reopened(p)[seat] = (seat # p /\ seat \in Actionable(folded, stacks))
      BY <1>6 DEF Reopened, Actionable
    <3>5. \A seat \in Seats :
            target - bet_faced_when_acted[seat] >= last_full_raise_size'
      BY <1>1, <1>8, <3>1 DEF TypeOK
    <3> QED BY <3>1, <3>2, <3>3, <3>4, <3>5
  <2>2. CASE ~IsFullRaise(target)
    <3> DEFINE still == StillPending(p, target)
               rights == RightsAfterShortRaise(p, target)
    <3>1. /\ SelectActor(p, still, rights)
          /\ last_full_raise_size' = last_full_raise_size
      BY <2>2 DEF RaiseTo
    <3>2. still \in Flags
      BY <1>1 DEF StillPending, Flags, TypeOK
    <3>3. rights \in Flags
      BY <1>1 DEF RightsAfterShortRaise, Flags, TypeOK
    <3>4. last_full_raise_size' \in Nat \ {0}
      BY <1>1, <3>1 DEF TypeOK
    <3>5. \A seat \in Seats : /\ may_raise[seat] => pending[seat]
                              /\ pending[seat] => seat \in Actionable(folded, stacks)
      BY <1>1 DEF SeatsValid, Actionable
    <3>6. \A seat \in Seats :
            still[seat] = (seat # p /\ seat \in Actionable(folded, stacks))
      BY <1>1, <1>8, <3>5 DEF StillPending, TypeOK
    <3>7. \A seat \in Seats :
            rights[seat] =
              (/\ still[seat]
               /\ \/ ~has_acted[seat]
                  \/ target - bet_faced_when_acted[seat] >= last_full_raise_size')
      <4>1. \A seat \in Seats : rights[seat] =
                                  (still[seat]
                                   /\ (~has_acted[seat]
                                       \/ target - bet_faced_when_acted[seat] >= last_full_raise_size))
        BY <1>1, <3>5, <3>6 DEF RightsAfterShortRaise, TypeOK
      <4> HIDE DEF still, rights
      <4> QED BY <3>1, <4>1
    <3> HIDE DEF still, rights
    <3>8. \A seat \in Seats :
            /\ still[seat] = (seat # p /\ seat \in Actionable(folded, stacks))
            /\ rights[seat] =
                 (/\ still[seat]
                  /\ \/ ~has_acted[seat]
                     \/ target - bet_faced_when_acted[seat] >= last_full_raise_size')
      BY <3>6, <3>7, Zenon
    <3>9. SelectActor(p, still, rights)
      BY <3>1
    <3> QED BY <3>2, <3>3, <3>4, <3>8, <3>9, Zenon
  <2> QED BY <2>1, <2>2
<1>10. /\ pending' \in Flags /\ may_raise' \in Flags
       /\ current_player' \in Seats \cup {NoPlayer}
       /\ current_player' # NoPlayer => pending'[current_player']
       /\ \/ pending' = pend /\ may_raise' = rights
          \/ /\ AtMostOne(Live(folded'))
             /\ \A seat \in Seats : ~pending'[seat] /\ ~may_raise'[seat]
  BY <1>2, <1>9, SelectedActor
<1>11. TypeOK'
  <2>1. has_acted' \in [Seats -> BOOLEAN]
    BY <1>1, <1>7 DEF TypeOK
  <2>2. bet_faced_when_acted' \in [Seats -> Nat]
    BY <1>1, <1>7 DEF TypeOK
  <2> QED BY <1>1, <1>5, <1>6, <1>7, <1>9, <1>10, <2>1, <2>2 DEF TypeOK, Flags
<1>12. ChipsConserved'
  BY <1>1, <1>4, <1>5 DEF ChipsConserved, TypeOK
<1>13. WagerIsLive'
  BY <1>2, <1>6, <1>7 DEF WagerIsLive, Live
<1>14. SeatsValid'
  <2>1. IsHighest(current_bet', street_contributions')
    BY <1>1, <1>6, <1>7, <1>8 DEF IsHighest, TypeOK
  <2>2. \A seat \in Seats : bet_faced_when_acted'[seat] <= current_bet'
    BY <1>1, <1>7, <1>8 DEF TypeOK
  <2>3. \A seat \in Seats :
          /\ may_raise'[seat] => pending'[seat]
          /\ pending'[seat] => seat # p /\ seat \in Actionable(folded, stacks)
    BY <1>9, <1>10
  <2>4. \A seat \in Seats : pending'[seat] => ~folded'[seat] /\ stacks'[seat] > 0
    BY <1>6, <1>7, <2>3 DEF Actionable
  <2>5. ASSUME NEW seat \in Actionable(folded', stacks'),
               street_contributions'[seat] < current_bet'
        PROVE  pending'[seat]
    <3>1. seat \in Seats /\ seat # p /\ ~folded[seat]
      BY <1>1, <1>6, <1>7, <2>5 DEF Actionable, TypeOK
    <3>2. seat \in Actionable(folded, stacks)
      BY <1>6, <1>7, <2>5, <3>1 DEF Actionable
    <3>3. ~AtMostOne(Live(folded'))
      BY <1>2, <1>7, <3>1 DEF AtMostOne, Live
    <3> QED BY <1>9, <1>10, <3>1, <3>2, <3>3
  <2>6. ASSUME NEW seat \in Seats, pending'[seat]
        PROVE  /\ ~(has_acted'[seat] /\ street_contributions'[seat] = current_bet')
               /\ may_raise'[seat] =
                    (\/ ~has_acted'[seat]
                     \/ current_bet' - bet_faced_when_acted'[seat]
                          >= last_full_raise_size')
    <3>1. seat # p /\ pending' = pend /\ may_raise' = rights
      BY <1>10, <2>3, <2>6
    <3>2. /\ has_acted'[seat] = has_acted[seat]
          /\ bet_faced_when_acted'[seat] = bet_faced_when_acted[seat]
      BY <1>1, <1>7, <3>1 DEF TypeOK
    <3>3. ~(street_contributions'[seat] = current_bet')
      BY <1>1, <1>6, <1>7, <1>8, <3>1 DEF TypeOK
    <3>4. pend[seat]
      BY <2>6, <3>1
    <3>5. rights[seat] =
            (\/ ~has_acted[seat]
             \/ target - bet_faced_when_acted[seat] >= last_full_raise_size')
      BY <1>9, <3>4
    <3> QED BY <1>7, <3>1, <3>2, <3>3, <3>5
  <2>7. HasOpponent' => \A seat \in Actionable(folded', stacks') :
                          has_acted'[seat] \/ pending'[seat]
    <3> SUFFICES ASSUME HasOpponent', NEW seat \in Actionable(folded', stacks')
                 PROVE  has_acted'[seat] \/ pending'[seat]
      OBVIOUS
    <3>1. seat \in Seats
      BY DEF Actionable
    <3>2. CASE seat = p
      BY <1>1, <1>7, <3>2 DEF TypeOK
    <3>3. CASE seat # p
      <4>1. seat \in Actionable(folded, stacks)
        BY <1>6, <1>7, <3>1, <3>3 DEF Actionable
      <4>2. ~AtMostOne(Live(folded'))
        BY DEF HasOpponent, AtMostOne, Live, Actionable
      <4> QED BY <1>9, <1>10, <3>1, <3>3, <4>1, <4>2
    <3> QED BY <3>2, <3>3
  <2> QED
    BY <1>10, <2>1, <2>2, <2>3, <2>4, <2>5, <2>6, <2>7 DEF SeatsValid
<1> QED BY <1>11, <1>12, <1>13, <1>14 DEF IndInv

\* A new street asks every seat that has chips, with full rights.
LEMMA BeginNextStreetInv ==
  ASSUME IndInv, NEW first \in Seats, BeginNextStreet(first)
  PROVE  IndInv'
PROOF
<1> USE TableAssumption
<1> DEFINE able == [seat \in Seats |-> seat \in Actionable(folded, stacks)]
<1>1. TypeOK /\ ChipsConserved
  BY DEF IndInv
<1>2. /\ ~AtMostOne(Live(folded)) /\ street # River
      /\ street' = street + 1 /\ current_bet' = 0
      /\ last_full_raise_size' = BigBlind /\ last_aggressor' = NoPlayer
      /\ street_contributions' = [seat \in Seats |-> 0]
      /\ has_acted' = [seat \in Seats |-> FALSE]
      /\ bet_faced_when_acted' = [seat \in Seats |-> 0]
      /\ UNCHANGED <<starting_stacks, stacks, contributions, folded>>
      /\ SelectActor(first - 1, able, able)
  BY DEF BeginNextStreet, next_node_kind
<1>3. able \in Flags /\ first - 1 \in -1 .. SeatCount - 1
  BY DEF Flags, Seats
<1> HIDE DEF able
<1>4. /\ pending' \in Flags /\ may_raise' \in Flags
      /\ current_player' \in Seats \cup {NoPlayer}
      /\ current_player' # NoPlayer => pending'[current_player']
      /\ pending' = able /\ may_raise' = able
  BY <1>2, <1>3, SelectedActor
<1>5. TypeOK'
  BY <1>1, <1>2, <1>4 DEF TypeOK, Flags, Preflop, River
<1>6. ChipsConserved'
  BY <1>1, <1>2 DEF ChipsConserved, TypeOK
<1>7. WagerIsLive'
  BY <1>2 DEF WagerIsLive, AtMostOne, Live
<1>8. SeatsValid'
  <2>1. IsHighest(current_bet', street_contributions')
    BY <1>2, <1>7 DEF IsHighest, WagerIsLive, Live
  <2>2. \A seat \in Seats :
          pending'[seat] = (seat \in Actionable(folded', stacks'))
    BY <1>2, <1>4 DEF able
  <2>3. \A seat \in Seats :
          /\ bet_faced_when_acted'[seat] <= current_bet'
          /\ ~(street_contributions'[seat] < current_bet')
          /\ ~has_acted'[seat]
          /\ may_raise'[seat] = pending'[seat]
          /\ pending'[seat] => ~folded'[seat] /\ stacks'[seat] > 0
    <3>1. \A seat \in Seats :
            /\ bet_faced_when_acted'[seat] <= current_bet'
            /\ ~(street_contributions'[seat] < current_bet')
            /\ ~has_acted'[seat]
      BY <1>2
    <3>2. \A seat \in Seats : may_raise'[seat] = pending'[seat]
      BY <1>4, Zenon
    <3>3. \A seat \in Seats :
            pending'[seat] => ~folded'[seat] /\ stacks'[seat] > 0
      BY <2>2 DEF Actionable
    <3> QED BY <3>1, <3>2, <3>3
  <2>4. \A seat \in Actionable(folded', stacks') : seat \in Seats
    BY DEF Actionable
  <2> QED
    BY <1>4, <2>1, <2>2, <2>3, <2>4, Zenon DEF SeatsValid
<1> QED BY <1>5, <1>6, <1>7, <1>8 DEF IndInv

\* Every step of the hand keeps the invariant.
LEMMA NextInv == IndInv /\ [Next]_vars => IndInv'
PROOF
<1> SUFFICES ASSUME IndInv, [Next]_vars PROVE IndInv'
  OBVIOUS
<1> USE TableAssumption
<1>0. TypeOK /\ ChipsConserved /\ SeatsValid
  BY DEF IndInv
<1>1. ASSUME NEW p \in Seats, Fold(p) PROVE IndInv'
  <2>1. Pay(p, 0)
    BY <1>0, <1>1 DEF Fold, Pay, chips, TypeOK
  <2>2. 0 \in Nat /\ 0 <= stacks[p] /\ 0 <= ToCall(p)
    BY <1>0, <1>1 DEF Fold, TypeOK, ToCall
  <2>3. /\ p = current_player /\ ToCall(p) > 0 /\ Acted(p)
        /\ folded' = [folded EXCEPT ![p] = TRUE]
    BY <1>1 DEF Fold
  <2> QED BY <2>1, <2>2, <2>3, ActedInv
<1>2. ASSUME NEW p \in Seats, Check(p) PROVE IndInv'
  <2>1. Pay(p, 0)
    BY <1>0, <1>2 DEF Check, Pay, chips, TypeOK
  <2>2. ToCall(p) = 0
    BY <1>0, <1>2 DEF Check, ToCall, SeatsValid, IsHighest, TypeOK
  <2> QED BY <1>0, <1>2, <2>1, <2>2, ActedInv DEF Check, TypeOK
<1>3. ASSUME NEW p \in Seats, Call(p) PROVE IndInv'
  <2> DEFINE paid == IF ToCall(p) <= stacks[p] THEN ToCall(p) ELSE stacks[p]
  <2>1. /\ paid \in Nat /\ paid <= stacks[p] /\ paid <= ToCall(p)
        /\ paid = stacks[p] \/ paid = ToCall(p)
    BY <1>0, <1>3 DEF Call, ToCall, TypeOK
  <2>2. Pay(p, paid) /\ Acted(p) /\ folded' = folded /\ p = current_player
    BY <1>3 DEF Call
  <2> HIDE DEF paid
  <2> QED BY <2>1, <2>2, ActedInv
<1>4. ASSUME NEW p \in Seats, AllIn(p) PROVE IndInv'
  <2> DEFINE target == street_contributions[p] + stacks[p]
  <2>1. target \in Nat /\ target > current_bet /\ p = current_player
    BY <1>0, <1>4 DEF AllIn, TypeOK
  <2>2. target - street_contributions[p] = stacks[p]
    BY <1>0 DEF TypeOK
  <2>3. Pay(p, target - street_contributions[p]) /\ RaiseTo(p, target)
    BY <1>4, <2>2 DEF AllIn
  <2>4. target <= street_contributions[p] + stacks[p]
    BY <2>1
  <2> HIDE DEF target
  <2> QED BY <2>1, <2>3, <2>4, RaiseInv
<1>5. ASSUME NEW p \in Seats,
             NEW target \in 1 .. street_contributions[p] + stacks[p],
             Raise(p, target)
      PROVE  IndInv'
  <2>1. target \in Nat /\ target <= street_contributions[p] + stacks[p]
    BY <1>0 DEF TypeOK
  <2> QED BY <1>5, <2>1, RaiseInv DEF Raise
<1>6. ASSUME NEW first \in Seats, BeginNextStreet(first) PROVE IndInv'
  BY <1>6, BeginNextStreetInv
<1>7. CASE UNCHANGED vars
  BY <1>7 DEF vars, chips, round, IndInv, TypeOK, ChipsConserved, SeatsValid,
              WagerIsLive, HasOpponent
<1> QED BY <1>1, <1>2, <1>3, <1>4, <1>5, <1>6, <1>7 DEF Next

(***************************************************************************)
(* Closed rounds.  Two facts more are needed.  A round closes only when    *)
(* nobody is pending, or when the one seat with chips left faces nothing.  *)
(* And what the streets before put in still stands: nobody in the hand has *)
(* put more into them than a seat that still has chips.                    *)
(***************************************************************************)

ClosedRoundIsAnswered ==
  current_player = NoPlayer =>
    \A seat \in Seats : pending[seat] =>
      /\ ~AtMostOne(Live(folded)) /\ AtMostOne(Actionable(folded, stacks))
      /\ ~(street_contributions[seat] < current_bet)

EarlierStreets(seat) == contributions[seat] - street_contributions[seat]
EarlierStreetsMatched ==
  \A seat \in Actionable(folded, stacks), other \in Live(folded) :
    EarlierStreets(other) <= EarlierStreets(seat)

RoundInv == ClosedRoundIsAnswered /\ EarlierStreetsMatched

\* The choice of the next actor passes over no seat that is asked and can act.
LEMMA ActingSeatCloses ==
  ASSUME NEW waiting \in SUBSET Seats, NEW live, NEW able, NEW facing,
         NEW player \in -1 .. SeatCount - 1,
         ActingSeat(live, able, waiting, facing,
                    next_pending_after(waiting, player)) = NoPlayer
  PROVE  \/ AtMostOne(live) \/ waiting = {}
         \/ AtMostOne(able) /\ waiting \cap facing = {}
PROOF
<1>1. NoPlayer \notin Seats
  BY TableAssumption DEF Seats, NoPlayer
<1>2. waiting # {} => next_pending_after(waiting, player) \in Seats
  BY NextPendingIsWaiting
<1> QED BY <1>1, <1>2 DEF ActingSeat

\* Every transition that ends with the choice of an actor, and whose pending
\* seats can act, leaves a closed round answered.
LEMMA SelectedActorCloses ==
  ASSUME NEW player \in -1 .. SeatCount - 1,
         NEW pend \in Flags, NEW rights \in Flags,
         SelectActor(player, pend, rights), SeatsValid'
  PROVE  ClosedRoundIsAnswered'
PROOF
<1> DEFINE able == Actionable(folded', stacks')
           waiting == {seat \in able : pend[seat]}
           facing == {seat \in Seats : street_contributions'[seat] < current_bet'}
<1> SUFFICES ASSUME current_player' = NoPlayer, NEW seat \in Seats, pending'[seat]
             PROVE  /\ ~AtMostOne(Live(folded')) /\ AtMostOne(able)
                    /\ ~(street_contributions'[seat] < current_bet')
  BY DEF ClosedRoundIsAnswered
<1>1. pend[seat] /\ ~AtMostOne(Live(folded'))
  BY DEF SelectActor
<1>2. seat \in able
  BY DEF SeatsValid, Actionable
<1>3. seat \in waiting
  BY <1>1, <1>2
<1>4. waiting \in SUBSET Seats
  BY DEF Actionable
<1>5. ActingSeat(Live(folded'), able, waiting, facing,
                 next_pending_after(waiting, player)) = NoPlayer
  BY DEF SelectActor
<1>6. AtMostOne(able) /\ waiting \cap facing = {}
  BY <1>1, <1>3, <1>4, <1>5, ActingSeatCloses
<1> QED BY <1>1, <1>3, <1>6

\* A hand starts with the blinds as its only street.
LEMMA InitRound == Init => RoundInv
PROOF
<1> SUFFICES ASSUME Init PROVE RoundInv
  OBVIOUS
<1> USE TableAssumption
<1>0. IndInv
  BY InitInv
<1>1. PICK first \in Seats :
        LET able == Actionable(folded, stacks)
        IN /\ contributions = street_contributions
           /\ pending = [seat \in Seats |-> stacks[seat] > 0]
           /\ folded = [seat \in Seats |-> FALSE]
           /\ current_player =
                ActingSeat(Seats, able, able,
                           {seat \in Seats : street_contributions[seat] < current_bet},
                           next_pending_after(able, first - 1))
  BY DEF Init
<1> DEFINE able == Actionable(folded, stacks)
           facing == {seat \in Seats : street_contributions[seat] < current_bet}
<1>2. ClosedRoundIsAnswered
  <2> SUFFICES ASSUME current_player = NoPlayer, NEW seat \in Seats, pending[seat]
               PROVE  /\ ~AtMostOne(Live(folded)) /\ AtMostOne(able)
                      /\ ~(street_contributions[seat] < current_bet)
    BY DEF ClosedRoundIsAnswered
  <2>1. Live(folded) = Seats
    BY <1>1 DEF Live
  <2>2. ~AtMostOne(Seats)
    <3>1. 0 \in Seats /\ 1 \in Seats
      BY DEF Seats
    <3> QED BY <3>1 DEF AtMostOne
  <2>3. able \in SUBSET Seats /\ seat \in able
    BY <1>1 DEF Actionable
  <2>4. first - 1 \in -1 .. SeatCount - 1
    BY DEF Seats
  <2>5. ActingSeat(Seats, able, able, facing, next_pending_after(able, first - 1)) = NoPlayer
    BY <1>1
  <2>6. AtMostOne(able) /\ able \cap facing = {}
    BY <2>2, <2>3, <2>4, <2>5, ActingSeatCloses
  <2> QED BY <2>1, <2>2, <2>3, <2>6
<1>3. EarlierStreetsMatched
  BY <1>0, <1>1 DEF EarlierStreetsMatched, EarlierStreets, Actionable, Live, IndInv, TypeOK
<1> QED BY <1>2, <1>3 DEF RoundInv

\* When nobody is left to act, nobody in the hand has put in more than a seat
\* that still has chips.
LEMMA AnsweredIsMatched == IndInv /\ RoundInv => ClosedRoundIsMatched
PROOF
<1> SUFFICES ASSUME IndInv, RoundInv, current_player = NoPlayer,
                    ~AtMostOne(Live(folded)),
                    NEW seat \in Actionable(folded, stacks), NEW other \in Live(folded)
             PROVE  contributions[other] <= contributions[seat]
  BY DEF ClosedRoundIsMatched
<1>1. seat \in Seats /\ other \in Seats
  BY DEF Actionable, Live
<1>2. ~(street_contributions[seat] < current_bet)
  BY <1>1 DEF RoundInv, ClosedRoundIsAnswered, IndInv, SeatsValid
<1>3. street_contributions[other] <= current_bet
  BY <1>1 DEF IndInv, SeatsValid, IsHighest
<1>4. EarlierStreets(other) <= EarlierStreets(seat)
  BY DEF RoundInv, EarlierStreetsMatched
<1>5. /\ contributions \in [Seats -> Nat] /\ street_contributions \in [Seats -> Nat]
      /\ current_bet \in Nat
  BY DEF IndInv, TypeOK
<1> QED BY <1>1, <1>2, <1>3, <1>4, <1>5 DEF EarlierStreets

\* An action on a street changes no earlier street and brings nobody back.
LEMMA StreetStepRound ==
  ASSUME IndInv, IndInv', EarlierStreetsMatched,
         NEW p \in Seats, p = current_player, NEW paid \in Int, Pay(p, paid),
         folded' = folded \/ folded' = [folded EXCEPT ![p] = TRUE],
         NEW pend \in Flags, NEW rights \in Flags, SelectActor(p, pend, rights)
  PROVE  RoundInv'
PROOF
<1>1. stacks[p] > 0 /\ p \in -1 .. SeatCount - 1
  BY ActorCanAct
<1>2. ClosedRoundIsAnswered'
  BY <1>1, SelectedActorCloses DEF IndInv
<1>3. Live(folded') \subseteq Live(folded)
  BY DEF Live, IndInv, TypeOK
<1>4. Actionable(folded', stacks') \subseteq Actionable(folded, stacks)
  BY <1>1 DEF Actionable, Pay, IndInv, TypeOK
<1>5. \A seat \in Seats :
        contributions'[seat] - street_contributions'[seat]
        = contributions[seat] - street_contributions[seat]
  BY DEF Pay, IndInv, TypeOK
<1>6. \A seat \in Actionable(folded', stacks'), other \in Live(folded') :
        contributions'[other] - street_contributions'[other]
        <= contributions'[seat] - street_contributions'[seat]
  <2> SUFFICES ASSUME NEW seat \in Actionable(folded', stacks'), NEW other \in Live(folded')
               PROVE  contributions'[other] - street_contributions'[other]
                      <= contributions'[seat] - street_contributions'[seat]
    OBVIOUS
  <2>1. seat \in Seats /\ other \in Seats
    BY DEF Actionable, Live
  <2>2. EarlierStreets(other) <= EarlierStreets(seat)
    BY <1>3, <1>4 DEF EarlierStreetsMatched
  <2> QED BY <1>5, <2>1, <2>2 DEF EarlierStreets
<1> QED BY <1>2, <1>6 DEF RoundInv, EarlierStreetsMatched, EarlierStreets

\* Every step keeps closed rounds answered and earlier streets matched.
LEMMA NextRound == IndInv /\ IndInv' /\ RoundInv /\ [Next]_vars => RoundInv'
PROOF
<1> SUFFICES ASSUME IndInv, IndInv', RoundInv, [Next]_vars PROVE RoundInv'
  OBVIOUS
<1> USE TableAssumption
<1>0. TypeOK /\ EarlierStreetsMatched
  BY DEF IndInv, RoundInv
<1>1. ASSUME NEW p \in Seats, Fold(p) \/ Check(p) \/ Call(p) PROVE RoundInv'
  <2>1. PICK paid \in Int : Pay(p, paid)
    <3>1. CASE Fold(p) \/ Check(p)
      <4>1. Pay(p, 0)
        BY <1>0, <3>1 DEF Fold, Check, Pay, chips, TypeOK
      <4> QED BY <4>1
    <3>2. CASE Call(p)
      <4>1. /\ ToCall(p) \in Int /\ stacks[p] \in Int
        BY <1>0 DEF ToCall, TypeOK
      <4> QED BY <3>2, <4>1 DEF Call
    <3> QED BY <1>1, <3>1, <3>2
  <2>2. /\ p = current_player /\ Acted(p)
        /\ folded' = folded \/ folded' = [folded EXCEPT ![p] = TRUE]
    BY <1>1 DEF Fold, Check, Call
  <2>3. SelectActor(p, [pending EXCEPT ![p] = FALSE], [may_raise EXCEPT ![p] = FALSE])
    BY <2>2 DEF Acted
  <2>4. /\ [pending EXCEPT ![p] = FALSE] \in Flags
        /\ [may_raise EXCEPT ![p] = FALSE] \in Flags
    BY <1>0, Zenon DEF TypeOK, Flags
  <2> QED BY <1>0, <2>1, <2>2, <2>3, <2>4, StreetStepRound
<1>2. ASSUME NEW p \in Seats, NEW target \in Int, p = current_player,
             Pay(p, target - street_contributions[p]), RaiseTo(p, target)
      PROVE  RoundInv'
  <2>1. PICK pend \in Flags, rights \in Flags : SelectActor(p, pend, rights)
    <3>1. Reopened(p) \in Flags
      BY DEF Reopened, Flags
    <3>2. StillPending(p, target) \in Flags
      BY <1>0 DEF StillPending, Flags, TypeOK
    <3>3. RightsAfterShortRaise(p, target) \in Flags
      BY <1>0 DEF RightsAfterShortRaise, Flags, TypeOK
    <3> QED BY <1>2, <3>1, <3>2, <3>3 DEF RaiseTo
  <2>2. folded' = folded
    BY <1>2 DEF RaiseTo
  <2>3. target - street_contributions[p] \in Int
    BY <1>0 DEF TypeOK
  <2> QED BY <1>0, <1>2, <2>1, <2>2, <2>3, StreetStepRound
<1>3. ASSUME NEW p \in Seats, AllIn(p) PROVE RoundInv'
  <2> DEFINE target == street_contributions[p] + stacks[p]
  <2>1. target \in Int /\ stacks[p] = target - street_contributions[p]
    BY <1>0 DEF TypeOK
  <2> QED BY <1>2, <1>3, <2>1 DEF AllIn
<1>4. ASSUME NEW p \in Seats, NEW target \in 1 .. street_contributions[p] + stacks[p],
             Raise(p, target)
      PROVE  RoundInv'
  BY <1>2, <1>4 DEF Raise
<1>5. ASSUME NEW first \in Seats, BeginNextStreet(first) PROVE RoundInv'
  <2> DEFINE able == [seat \in Seats |-> seat \in Actionable(folded, stacks)]
  <2>1. SelectActor(first - 1, able, able)
    BY <1>5 DEF BeginNextStreet
  <2>2. able \in Flags /\ first - 1 \in -1 .. SeatCount - 1
    BY DEF Flags, Seats
  <2> HIDE DEF able
  <2>3. ClosedRoundIsAnswered'
    BY <2>1, <2>2, SelectedActorCloses DEF IndInv
  <2>4. current_player = NoPlayer /\ ~AtMostOne(Live(folded))
    BY <1>5 DEF BeginNextStreet, next_node_kind
  <2>5. \A seat \in Actionable(folded, stacks), other \in Live(folded) :
          contributions[other] <= contributions[seat]
    BY <2>4, AnsweredIsMatched DEF ClosedRoundIsMatched
  <2>6. /\ UNCHANGED <<stacks, contributions, folded>>
        /\ street_contributions' = [seat \in Seats |-> 0]
    BY <1>5 DEF BeginNextStreet
  <2>7. EarlierStreetsMatched'
    BY <1>0, <2>5, <2>6 DEF EarlierStreetsMatched, EarlierStreets, Actionable, Live, TypeOK
  <2> QED BY <2>3, <2>7 DEF RoundInv
<1>6. CASE UNCHANGED vars
  BY <1>6 DEF vars, chips, round, RoundInv, ClosedRoundIsAnswered,
              EarlierStreetsMatched, EarlierStreets
<1> QED BY <1>1, <1>3, <1>4, <1>5, <1>6 DEF Next

\* With equal stacks a lone seat with chips faces a wager, because whoever is
\* all in has put in more: so a closed round has nobody pending.
LEMMA EqualStacksClose ==
  ASSUME IndInv, RoundInv,
         \A a, b \in Seats : starting_stacks[a] = starting_stacks[b]
  PROVE  ClosedRoundHasNoPending
PROOF
<1> SUFFICES ASSUME current_player = NoPlayer, NEW seat \in Seats, pending[seat]
             PROVE  FALSE
  BY DEF ClosedRoundHasNoPending
<1>1. /\ ~AtMostOne(Live(folded)) /\ AtMostOne(Actionable(folded, stacks))
      /\ ~(street_contributions[seat] < current_bet)
  BY DEF RoundInv, ClosedRoundIsAnswered
<1>2. seat \in Actionable(folded, stacks) /\ stacks[seat] > 0
  BY DEF IndInv, SeatsValid, Actionable
<1>3. PICK other \in Live(folded) : other # seat
  BY <1>1 DEF AtMostOne
<1>4. other \in Seats /\ other \notin Actionable(folded, stacks)
  BY <1>1, <1>2, <1>3 DEF AtMostOne, Live
<1>5. stacks[other] = 0
  BY <1>3, <1>4 DEF Actionable, Live, IndInv, TypeOK
<1>6. contributions[seat] < contributions[other]
  BY <1>2, <1>4, <1>5 DEF IndInv, ChipsConserved, TypeOK
<1>7. contributions[other] <= contributions[seat]
  BY <1>1, <1>2, AnsweredIsMatched DEF ClosedRoundIsMatched
<1>8. contributions \in [Seats -> Nat]
  BY DEF IndInv, TypeOK
<1> QED BY <1>4, <1>6, <1>7, <1>8

(***************************************************************************)
(* Contested layers.  A pot is claimed because some seat still in the hand *)
(* has put in as much as anybody, folded seats included.  A fold could     *)
(* take that seat away, but whoever folds faces a wager; the seat holding  *)
(* it has chips on this street, so it matched every street before.         *)
(***************************************************************************)

StakersMatched ==
  \A seat, other \in Live(folded) :
    stacks[seat] > 0 \/ street_contributions[seat] > 0
      => EarlierStreets(other) <= EarlierStreets(seat)

TopIsLive ==
  \E seat \in Live(folded) : \A other \in Seats : contributions[other] <= contributions[seat]

ClaimInv == StakersMatched /\ TopIsLive

\* Nobody has folded when a hand starts, and the blinds are its only street.
LEMMA InitClaim == Init => ClaimInv
PROOF
<1> SUFFICES ASSUME Init PROVE ClaimInv
  OBVIOUS
<1>0. IndInv
  BY InitInv
<1>1. contributions = street_contributions /\ folded = [seat \in Seats |-> FALSE]
  BY DEF Init
<1>2. street_contributions \in [Seats -> Nat] /\ Live(folded) = Seats
  BY <1>0, <1>1 DEF IndInv, TypeOK, Live
<1>3. StakersMatched
  BY <1>1, <1>2 DEF StakersMatched, EarlierStreets
<1>4. TopIsLive
  BY <1>0, <1>1, <1>2 DEF TopIsLive, IndInv, SeatsValid, IsHighest
<1> QED BY <1>3, <1>4 DEF ClaimInv

\* An action takes no layer from everybody who could claim it.
LEMMA ActionClaim ==
  ASSUME IndInv, ClaimInv, NEW p \in Seats, p = current_player,
         NEW paid \in Nat, paid <= stacks[p], Pay(p, paid),
         \/ folded' = folded
         \/ folded' = [folded EXCEPT ![p] = TRUE] /\ paid = 0 /\ ToCall(p) > 0
  PROVE  ClaimInv'
PROOF
<1>0. /\ stacks \in [Seats -> Nat] /\ contributions \in [Seats -> Nat]
      /\ street_contributions \in [Seats -> Nat] /\ folded \in [Seats -> BOOLEAN]
      /\ current_bet \in Nat
  BY DEF IndInv, TypeOK
<1>1. stacks[p] > 0 /\ p \in Live(folded)
  BY ActorCanAct DEF Live, IndInv, SeatsValid
<1>2. \A seat \in Seats :
        /\ contributions'[seat] = IF seat = p THEN contributions[p] + paid ELSE contributions[seat]
        /\ street_contributions'[seat]
             = IF seat = p THEN street_contributions[p] + paid ELSE street_contributions[seat]
        /\ stacks'[seat] = IF seat = p THEN stacks[p] - paid ELSE stacks[seat]
  BY <1>0 DEF Pay
<1>3. Live(folded') \subseteq Live(folded) /\ Live(folded') \subseteq Seats
  BY <1>0 DEF Live
<1>4. StakersMatched'
  <2> SUFFICES ASSUME NEW seat \in Live(folded'), NEW other \in Live(folded'),
                      stacks'[seat] > 0 \/ street_contributions'[seat] > 0
               PROVE  contributions'[other] - street_contributions'[other]
                        <= contributions'[seat] - street_contributions'[seat]
    BY DEF StakersMatched, EarlierStreets
  <2>1. seat \in Seats /\ other \in Seats /\ seat \in Live(folded) /\ other \in Live(folded)
    BY <1>3
  <2>2. stacks[seat] > 0 \/ street_contributions[seat] > 0
    BY <1>0, <1>1, <1>2, <2>1
  <2>3. contributions[other] - street_contributions[other]
          <= contributions[seat] - street_contributions[seat]
    BY <2>1, <2>2 DEF ClaimInv, StakersMatched, EarlierStreets
  <2> QED BY <1>0, <1>2, <2>1, <2>3
<1>5. PICK top \in Live(folded) : \A other \in Seats : contributions[other] <= contributions[top]
  BY DEF ClaimInv, TopIsLive
<1>6. top \in Seats
  BY DEF Live
<1>7. TopIsLive'
  <2>1. CASE folded' = folded
    <3>1. CASE contributions[p] + paid <= contributions[top]
      <4>1. \A other \in Seats : contributions'[other] <= contributions'[top]
        BY <1>0, <1>2, <1>5, <1>6, <3>1
      <4> QED BY <2>1, <4>1 DEF TopIsLive
    <3>2. CASE contributions[top] < contributions[p] + paid
      <4>1. \A other \in Seats : contributions'[other] <= contributions'[p]
        BY <1>0, <1>2, <1>5, <1>6, <3>2
      <4> QED BY <1>1, <2>1, <4>1 DEF TopIsLive
    <3> QED BY <1>0, <1>6, <3>1, <3>2
  <2>2. CASE folded' = [folded EXCEPT ![p] = TRUE] /\ paid = 0 /\ ToCall(p) > 0
    <3>1. \A seat \in Seats : contributions'[seat] = contributions[seat]
      BY <1>0, <1>2, <2>2
    <3>2. \A seat \in Live(folded) : seat # p => seat \in Live(folded')
      BY <1>0, <2>2 DEF Live
    <3>3. PICK holder \in Live(folded) : street_contributions[holder] = current_bet
      BY DEF IndInv, WagerIsLive
    <3>4. holder \in Seats /\ street_contributions[p] < street_contributions[holder]
      BY <1>0, <2>2, <3>3 DEF ToCall, Live
    <3>5. EarlierStreets(p) <= EarlierStreets(holder)
      BY <1>0, <1>1, <3>3, <3>4 DEF ClaimInv, StakersMatched
    <3>6. contributions[p] <= contributions[holder] /\ holder # p
      BY <1>0, <3>4, <3>5 DEF EarlierStreets
    <3>7. CASE top = p
      <4>1. \A other \in Seats : contributions[other] <= contributions[holder]
        BY <1>0, <1>5, <3>4, <3>6, <3>7
      <4> QED BY <3>1, <3>2, <3>3, <3>4, <3>6, <4>1 DEF TopIsLive
    <3>8. CASE top # p
      BY <1>5, <1>6, <3>1, <3>2, <3>8 DEF TopIsLive
    <3> QED BY <3>7, <3>8
  <2> QED BY <2>1, <2>2
<1> QED BY <1>4, <1>7 DEF ClaimInv

\* Every step keeps a claimant of the largest contribution.
LEMMA NextClaim == IndInv /\ RoundInv /\ ClaimInv /\ [Next]_vars => ClaimInv'
PROOF
<1> SUFFICES ASSUME IndInv, RoundInv, ClaimInv, [Next]_vars PROVE ClaimInv'
  OBVIOUS
<1>0. /\ stacks \in [Seats -> Nat] /\ contributions \in [Seats -> Nat]
      /\ street_contributions \in [Seats -> Nat] /\ current_bet \in Nat
  BY DEF IndInv, TypeOK
<1>1. ASSUME NEW p \in Seats, Fold(p) \/ Check(p) PROVE ClaimInv'
  <2>1. Pay(p, 0) /\ 0 \in Nat /\ 0 <= stacks[p] /\ p = current_player
    BY <1>0, <1>1 DEF Fold, Check, Pay, chips
  <2>2. \/ folded' = folded
        \/ folded' = [folded EXCEPT ![p] = TRUE] /\ 0 = 0 /\ ToCall(p) > 0
    BY <1>1 DEF Fold, Check
  <2> QED BY <2>1, <2>2, ActionClaim
<1>2. ASSUME NEW p \in Seats, Call(p) PROVE ClaimInv'
  <2> DEFINE paid == IF ToCall(p) <= stacks[p] THEN ToCall(p) ELSE stacks[p]
  <2>1. paid \in Nat /\ paid <= stacks[p]
    BY <1>0, <1>2 DEF Call, ToCall
  <2>2. Pay(p, paid) /\ folded' = folded /\ p = current_player
    BY <1>2 DEF Call
  <2> HIDE DEF paid
  <2> QED BY <2>1, <2>2, ActionClaim
<1>3. ASSUME NEW p \in Seats, AllIn(p) PROVE ClaimInv'
  <2>1. Pay(p, stacks[p]) /\ folded' = folded /\ p = current_player
    BY <1>3 DEF AllIn, RaiseTo
  <2>2. stacks[p] \in Nat /\ stacks[p] <= stacks[p]
    BY <1>0
  <2> QED BY <2>1, <2>2, ActionClaim
<1>4. ASSUME NEW p \in Seats, NEW target \in 1 .. street_contributions[p] + stacks[p],
             Raise(p, target)
      PROVE  ClaimInv'
  <2> DEFINE paid == target - street_contributions[p]
  <2>1. Pay(p, paid) /\ folded' = folded /\ p = current_player /\ target > current_bet
    BY <1>4 DEF Raise, RaiseTo
  <2>2. street_contributions[p] <= current_bet
    BY DEF IndInv, SeatsValid, IsHighest
  <2>3. paid \in Nat /\ paid <= stacks[p]
    BY <1>0, <2>1, <2>2
  <2> HIDE DEF paid
  <2> QED BY <2>1, <2>3, ActionClaim
<1>5. ASSUME NEW first \in Seats, BeginNextStreet(first) PROVE ClaimInv'
  <2>1. current_player = NoPlayer /\ ~AtMostOne(Live(folded))
    BY <1>5 DEF BeginNextStreet, next_node_kind
  <2>2. \A seat \in Actionable(folded, stacks), other \in Live(folded) :
          contributions[other] <= contributions[seat]
    BY <2>1, AnsweredIsMatched DEF ClosedRoundIsMatched
  <2>3. /\ UNCHANGED <<stacks, contributions, folded>>
        /\ street_contributions' = [seat \in Seats |-> 0]
    BY <1>5 DEF BeginNextStreet
  <2>4. StakersMatched'
    BY <1>0, <2>2, <2>3 DEF StakersMatched, EarlierStreets, Actionable, Live
  <2>5. TopIsLive'
    BY <2>3 DEF TopIsLive, ClaimInv
  <2> QED BY <2>4, <2>5 DEF ClaimInv
<1>6. CASE UNCHANGED vars
  BY <1>6 DEF vars, chips, round, ClaimInv, StakersMatched, TopIsLive, EarlierStreets
<1> QED BY <1>1, <1>2, <1>3, <1>4, <1>5, <1>6 DEF Next

\* The claimant of the largest contribution claims every layer.
LEMMA TopClaims == IndInv /\ ClaimInv => Unclaimed(contributions, folded) = {}
PROOF
<1> SUFFICES ASSUME IndInv, ClaimInv, NEW level \in Pots(contributions)
             PROVE  Eligible(contributions, folded, level) # {}
  BY DEF Unclaimed
<1>1. contributions \in [Seats -> Nat] /\ DOMAIN contributions = Seats
  BY DEF IndInv, TypeOK
<1>2. PICK top \in Live(folded) : \A other \in Seats : contributions[other] <= contributions[top]
  BY DEF ClaimInv, TopIsLive
<1>3. PICK seat \in Seats : contributions[seat] = level
  BY <1>1 DEF Pots, Levels
<1>4. top \in Seats /\ ~folded[top] /\ contributions[top] >= level
  BY <1>1, <1>2, <1>3 DEF Live
<1> QED BY <1>1, <1>4 DEF Eligible, Contributors

(***************************************************************************)
(* Induction over naturals and over finite sets, for a set of good cases.  *)
(***************************************************************************)

\* What holds of 0 and of n + 1 when of n holds of every natural number.
LEMMA ByNaturals ==
  ASSUME NEW Proved, 0 \in Proved,
         \A n \in Nat : n \in Proved => n + 1 \in Proved
  PROVE  \A n \in Nat : n \in Proved
PROOF
<1> DEFINE Bad == Nat \ Proved
<1>1. CASE Bad = {}
  BY <1>1
<1>2. CASE Bad # {}
  <2>1. \E least \in Bad : \A other \in Bad : ~(<<other, least>> \in OpToRel(<, Nat))
    <3>1. Bad \in SUBSET Nat
      OBVIOUS
    <3> HIDE DEF Bad
    <3> QED BY <1>2, <3>1, NatLessThanWellFounded, WFMin
  <2>2. PICK least \in Bad : \A other \in Bad : ~(<<other, least>> \in OpToRel(<, Nat))
    BY <2>1
  <2>3. least \in Nat /\ least \notin Proved /\ least # 0
    OBVIOUS
  <2>4. least - 1 \in Nat /\ (least - 1) + 1 = least /\ least - 1 < least
    BY <2>3
  <2>5. least - 1 \notin Bad
    BY <2>2, <2>3, <2>4, Zenon DEF OpToRel
  <2>6. least - 1 \in Proved
    BY <2>4, <2>5
  <2>7. least \in Proved
    BY <2>4, <2>6
  <2> QED BY <2>3, <2>7
<1> QED BY <1>1, <1>2

\* Subsets of a finite set, and how they are counted.
LEMMA FiniteParts ==
  ASSUME NEW D, IsFiniteSet(D), NEW s \in SUBSET D
  PROVE  /\ IsFiniteSet(s) /\ Cardinality(s) \in Nat
         /\ Cardinality(s) = 0 <=> s = {}
         /\ \A x \in s : Cardinality(s \ {x}) = Cardinality(s) - 1
         /\ Cardinality(s) <= Cardinality(D)
PROOF
<1>1. IsFiniteSet(s) /\ Cardinality(s) <= Cardinality(D)
  BY FS_Subset
<1>2. Cardinality(s) \in Nat
  BY <1>1, FS_CardinalityType
<1>3. Cardinality(s) = 0 <=> s = {}
  BY <1>1, FS_EmptySet
<1>4. \A x \in s : Cardinality(s \ {x}) = Cardinality(s) - 1
  BY <1>1, FS_RemoveElement
<1> QED BY <1>1, <1>2, <1>3, <1>4

\* What holds of {} and of s when of s without any one element holds of
\* every subset of a finite set.
LEMMA ByFiniteParts ==
  ASSUME NEW D, IsFiniteSet(D), NEW Proved, {} \in Proved,
         \A s \in SUBSET D : s # {} /\ (\A x \in s : s \ {x} \in Proved) => s \in Proved
  PROVE  \A s \in SUBSET D : s \in Proved
PROOF
<1> DEFINE Upto == {n \in Nat : \A s \in SUBSET D : Cardinality(s) = n => s \in Proved}
<1>1. 0 \in Upto
  BY FiniteParts
<1>2. ASSUME NEW n \in Nat, n \in Upto PROVE n + 1 \in Upto
  <2> SUFFICES ASSUME NEW s \in SUBSET D, Cardinality(s) = n + 1
               PROVE  s \in Proved
    OBVIOUS
  <2>1. s # {}
    BY FiniteParts
  <2>2. ASSUME NEW x \in s PROVE s \ {x} \in Proved
    <3>1. Cardinality(s \ {x}) = n
      BY FiniteParts
    <3>2. s \ {x} \in SUBSET D
      OBVIOUS
    <3> QED BY <1>2, <3>1, <3>2
  <2> QED BY <2>1, <2>2
<1> HIDE DEF Upto
<1>3. \A n \in Nat : n \in Upto
  BY <1>1, <1>2, ByNaturals
<1> QED BY <1>3, FiniteParts DEF Upto

(***************************************************************************)
(* Sum is a recursive function of the subsets of its domain.               *)
(***************************************************************************)

Chosen(s) == CHOOSE x \in s : TRUE

Summed(g, F) ==
  F = [s \in SUBSET DOMAIN g |->
         IF s = {} THEN 0 ELSE g[Chosen(s)] + F[s \ {Chosen(s)}]]

\* The definition of Sum, with its recursive function in sight.
LEMMA SumUnfolded ==
  ASSUME NEW g
  PROVE  Sum(g) = (CHOOSE F : Summed(g, F))[DOMAIN g]
PROOF BY Zenon DEF Sum, MapThenSumSet, MapThenFoldSet, Summed, Chosen

Smaller(D, n) == {s \in SUBSET D : Cardinality(s) <= n}

SummedTo(g, n, F) ==
  F = [s \in Smaller(DOMAIN g, n) |->
         IF s = {} THEN 0 ELSE g[Chosen(s)] + F[s \ {Chosen(s)}]]

\* A table summed over the subsets of n elements is summed over those of n + 1.
LEMMA SummedFurther ==
  ASSUME NEW g, IsFiniteSet(DOMAIN g), NEW n \in Nat, NEW F, SummedTo(g, n, F)
  PROVE  \E G : SummedTo(g, n + 1, G)
PROOF
<1> DEFINE D == DOMAIN g
           step(H, s) == IF s = {} THEN 0 ELSE g[Chosen(s)] + H[s \ {Chosen(s)}]
           G == [s \in Smaller(D, n + 1) |-> IF s \in Smaller(D, n) THEN F[s] ELSE step(F, s)]
<1>1. \A s \in Smaller(D, n) : F[s] = step(F, s)
  <2>1. F = [s \in Smaller(D, n) |-> step(F, s)]
    BY Zenon DEF SummedTo
  <2> QED BY <2>1, Zenon
<1>2. \A s \in Smaller(D, n + 1) : G[s] = IF s \in Smaller(D, n) THEN F[s] ELSE step(F, s)
  BY Zenon
<1>3. G = [s \in Smaller(D, n + 1) |-> G[s]]
  BY Zenon
<1>4. \A s \in Smaller(D, n) : s \in Smaller(D, n + 1)
  BY FiniteParts DEF Smaller
<1> HIDE DEF G
<1>5. ASSUME NEW s \in Smaller(D, n + 1) PROVE G[s] = step(G, s)
  <2>1. G[s] = step(F, s)
    BY <1>1, <1>2
  <2>2. CASE s # {}
    <3>1. Chosen(s) \in s
      BY <2>2 DEF Chosen
    <3>2. s \ {Chosen(s)} \in Smaller(D, n)
      BY <3>1, FiniteParts DEF Smaller
    <3>3. G[s \ {Chosen(s)}] = F[s \ {Chosen(s)}]
      BY <1>2, <1>4, <3>2
    <3> QED BY <2>1, <2>2, <3>3
  <2> QED BY <2>1, <2>2
<1>6. G = [s \in Smaller(D, n + 1) |-> step(G, s)]
  BY <1>3, <1>5, Zenon
<1>7. SummedTo(g, n + 1, G)
  BY <1>6, Zenon DEF SummedTo
<1> QED BY <1>7

\* There is a function that sums a finite table.
LEMMA SummedExists ==
  ASSUME NEW g, IsFiniteSet(DOMAIN g)
  PROVE  \E F : Summed(g, F)
PROOF
<1> DEFINE D == DOMAIN g
           Reached == {n \in Nat : \E F : SummedTo(g, n, F)}
<1>1. 0 \in Reached
  <2> DEFINE F == [s \in Smaller(D, 0) |-> 0]
  <2>1. \A s \in Smaller(D, 0) : s = {}
    BY FiniteParts DEF Smaller
  <2>2. F = [s \in Smaller(D, 0) |-> IF s = {} THEN 0 ELSE g[Chosen(s)] + F[s \ {Chosen(s)}]]
    BY <2>1
  <2> HIDE DEF F
  <2>3. SummedTo(g, 0, F)
    BY <2>2, Zenon DEF SummedTo
  <2> QED BY <2>3
<1>2. ASSUME NEW n \in Nat, n \in Reached PROVE n + 1 \in Reached
  BY <1>2, SummedFurther
<1> HIDE DEF Reached
<1>3. \A n \in Nat : n \in Reached
  BY <1>1, <1>2, ByNaturals
<1>4. Cardinality(D) \in Nat
  BY FS_CardinalityType
<1>5. PICK F : SummedTo(g, Cardinality(D), F)
  BY <1>3, <1>4 DEF Reached
<1>6. Smaller(D, Cardinality(D)) = SUBSET D
  BY FiniteParts DEF Smaller
<1>7. Summed(g, F)
  BY <1>5, <1>6, Zenon DEF SummedTo, Summed
<1> QED BY <1>7

\* The equation of that function.
LEMMA SummedStep ==
  ASSUME NEW a, NEW A, Summed(a, A)
  PROVE  A = [t \in SUBSET DOMAIN a |->
                IF t = {} THEN 0 ELSE a[Chosen(t)] + A[t \ {Chosen(t)}]]
PROOF BY Zenon DEF Summed

SumsByTerms(a, A) ==
  \A s \in SUBSET DOMAIN a :
    s # {} => A[s] = a[Chosen(s)] + A[s \ {Chosen(s)}]

\* The same equation, one subset at a time.
LEMMA SummedByTerms ==
  ASSUME NEW a, NEW A, Summed(a, A)
  PROVE  A[{}] = 0 /\ SumsByTerms(a, A)
PROOF
<1> DEFINE e(t) == IF t = {} THEN 0 ELSE a[Chosen(t)] + A[t \ {Chosen(t)}]
<1>1. A = [t \in SUBSET DOMAIN a |-> e(t)]
  BY SummedStep
<1>2. \A s \in SUBSET DOMAIN a : A[s] = e(s)
  BY <1>1, Zenon
<1>3. A[{}] = 0
  BY <1>2
<1>4. SumsByTerms(a, A)
  BY <1>2 DEF SumsByTerms
<1> QED BY <1>3, <1>4

\* The element that is taken out first is one.
LEMMA ChosenIn ==
  ASSUME NEW s, s # {}
  PROVE  Chosen(s) \in s
PROOF BY DEF Chosen

\* Sums of tables that agree on a set agree there.
LEMMA SummedAgree ==
  ASSUME NEW g, NEW h, NEW F, NEW H, Summed(g, F), Summed(h, H),
         NEW D, IsFiniteSet(D), D \subseteq DOMAIN g, D \subseteq DOMAIN h,
         \A x \in D : g[x] = h[x]
  PROVE  F[D] = H[D]
PROOF
<1>1. F[{}] = 0 /\ H[{}] = 0
  BY SummedByTerms
<1>2. SumsByTerms(g, F) /\ SumsByTerms(h, H)
  BY SummedByTerms
<1> DEFINE Agree == {s \in SUBSET D : F[s] = H[s]}
<1>4. {} \in Agree
  BY <1>1
<1>5. ASSUME NEW s \in SUBSET D, s # {}, \A x \in s : s \ {x} \in Agree
      PROVE  s \in Agree
  <2>1. Chosen(s) \in s
    BY <1>5, ChosenIn
  <2>2. F[s \ {Chosen(s)}] = H[s \ {Chosen(s)}]
    BY <1>5, <2>1
  <2>3. g[Chosen(s)] = h[Chosen(s)]
    BY <2>1
  <2>4. F[s] = g[Chosen(s)] + F[s \ {Chosen(s)}] /\ H[s] = h[Chosen(s)] + H[s \ {Chosen(s)}]
    <3>1. s \subseteq DOMAIN g /\ s \subseteq DOMAIN h /\ s # {}
      BY <1>5
    <3>2. F[s] = g[Chosen(s)] + F[s \ {Chosen(s)}]
      BY <1>2, <3>1 DEF SumsByTerms
    <3>3. H[s] = h[Chosen(s)] + H[s \ {Chosen(s)}]
      BY <1>2, <3>1 DEF SumsByTerms
    <3> QED BY <3>2, <3>3
  <2> QED BY <2>2, <2>3, <2>4
<1> HIDE DEF Agree
<1>6. \A s \in SUBSET D : s \in Agree
  BY <1>4, <1>5, ByFiniteParts
<1> QED BY <1>6 DEF Agree

\* Sum is given by any function that sums the table.
LEMMA SumIs ==
  ASSUME NEW g, IsFiniteSet(DOMAIN g), NEW F, Summed(g, F)
  PROVE  Sum(g) = F[DOMAIN g]
PROOF
<1> DEFINE chosen == CHOOSE G : Summed(g, G)
<1>1. Summed(g, chosen)
  BY Zenon
<1>2. Sum(g) = chosen[DOMAIN g]
  BY SumUnfolded
<1> HIDE DEF chosen
<1>3. chosen[DOMAIN g] = F[DOMAIN g]
  BY <1>1, SummedAgree
<1> QED BY <1>2, <1>3


(***************************************************************************)
(* What the proofs below use of sums.                                      *)
(***************************************************************************)

SumOn(g, s) == Sum([x \in s |-> g[x]])

\* So is the sum over a part of the table.
LEMMA SumOnIs ==
  ASSUME NEW D, IsFiniteSet(D), NEW g \in [D -> Int], NEW F, Summed(g, F),
         NEW s \in SUBSET D
  PROVE  SumOn(g, s) = F[s]
PROOF
<1> DEFINE h == [x \in s |-> g[x]]
<1>1. DOMAIN h = s /\ IsFiniteSet(s) /\ \A x \in s : h[x] = g[x]
  BY FiniteParts
<1>2. DOMAIN g = D
  OBVIOUS
<1>3. SumOn(g, s) = Sum(h)
  BY DEF SumOn
<1> HIDE DEF h
<1>4. PICK H : Summed(h, H)
  BY <1>1, SummedExists
<1>5. Sum(h) = H[s]
  BY <1>1, <1>4, SumIs
<1>6. H[s] = F[s]
  BY <1>1, <1>2, <1>4, SummedAgree
<1> QED BY <1>3, <1>5, <1>6

\* A sum of integers is one, and any of its terms can be taken out.
LEMMA SummedType ==
  ASSUME NEW D, IsFiniteSet(D), NEW g \in [D -> Int], NEW F, Summed(g, F)
  PROVE  \A s \in SUBSET D : F[s] \in Int
PROOF
<1>1. DOMAIN g = D
  OBVIOUS
<1>2. F[{}] = 0 /\ SumsByTerms(g, F)
  BY SummedByTerms
<1> DEFINE Typed == {s \in SUBSET D : F[s] \in Int}
<1>3. {} \in Typed
  BY <1>2
<1>4. ASSUME NEW s \in SUBSET D, s # {}, \A x \in s : s \ {x} \in Typed
      PROVE  s \in Typed
  <2>1. Chosen(s) \in s
    BY <1>4, ChosenIn
  <2>2. F[s] = g[Chosen(s)] + F[s \ {Chosen(s)}]
    <3>1. s \subseteq DOMAIN g /\ s # {}
      BY <1>1, <1>4
    <3> QED BY <1>2, <3>1 DEF SumsByTerms
  <2>3. F[s \ {Chosen(s)}] \in Int /\ g[Chosen(s)] \in Int
    BY <1>4, <2>1
  <2> QED BY <2>2, <2>3
<1> HIDE DEF Typed
<1>5. \A s \in SUBSET D : s \in Typed
  BY <1>3, <1>4, ByFiniteParts
<1> QED BY <1>5 DEF Typed

\* Any element may be taken out first.
LEMMA SummedTerm ==
  ASSUME NEW D, IsFiniteSet(D), NEW g \in [D -> Int], NEW F, Summed(g, F)
  PROVE  \A s \in SUBSET D : \A x \in s : F[s] = g[x] + F[s \ {x}]
PROOF
<1>1. DOMAIN g = D
  OBVIOUS
<1>2. SumsByTerms(g, F)
  BY SummedByTerms
<1> DEFINE Fine == {s \in SUBSET D : \A x \in s : F[s] = g[x] + F[s \ {x}]}
<1>3. {} \in Fine
  OBVIOUS
<1>4. ASSUME NEW s \in SUBSET D, s # {}, \A x \in s : s \ {x} \in Fine
      PROVE  s \in Fine
  <2>1. PICK c \in s : F[s] = g[c] + F[s \ {c}]
    <3>1. Chosen(s) \in s
      BY <1>4, ChosenIn
    <3>2. s \subseteq DOMAIN g /\ s # {}
      BY <1>1, <1>4
    <3>3. F[s] = g[Chosen(s)] + F[s \ {Chosen(s)}]
      BY <1>2, <3>2 DEF SumsByTerms
    <3> QED BY <3>1, <3>3
  <2>2. ASSUME NEW x \in s, x # c PROVE F[s] = g[x] + F[s \ {x}]
    <3> DEFINE t == s \ {c, x}
    <3>1. x \in s \ {c} /\ c \in s \ {x} /\ t \in SUBSET D
      BY <2>2
    <3>2. (s \ {c}) \ {x} = t /\ (s \ {x}) \ {c} = t
      OBVIOUS
    <3> HIDE DEF t
    <3>3. F[s \ {c}] = g[x] + F[t]
      BY <1>4, <3>1, <3>2
    <3>4. F[s \ {x}] = g[c] + F[t]
      BY <1>4, <3>1, <3>2
    <3>5. g[x] \in Int /\ g[c] \in Int
      OBVIOUS
    <3>6. F[t] \in Int
      BY <3>1, SummedType
    <3> QED BY <2>1, <3>3, <3>4, <3>5, <3>6
  <2> QED BY <2>1, <2>2
<1> HIDE DEF Fine
<1>5. \A s \in SUBSET D : s \in Fine
  BY <1>3, <1>4, ByFiniteParts
<1> QED BY <1>5 DEF Fine

\* What a sum is: nought for nothing, and one term more for one element more.
LEMMA SumFacts ==
  ASSUME NEW D, IsFiniteSet(D), NEW g \in [D -> Int], NEW s \in SUBSET D
  PROVE  /\ SumOn(g, s) \in Int
         /\ SumOn(g, {}) = 0
         /\ \A x \in s : SumOn(g, s) = g[x] + SumOn(g, s \ {x})
PROOF
<1>1. DOMAIN g = D
  OBVIOUS
<1>2. PICK F : Summed(g, F)
  BY <1>1, SummedExists
<1>3. \A t \in SUBSET D : SumOn(g, t) = F[t]
  BY <1>2, SumOnIs
<1>4. F[{}] = 0
  BY <1>2, SummedByTerms
<1>5. \A t \in SUBSET D : F[t] \in Int
  BY <1>2, SummedType, Zenon
<1>7. \A t \in SUBSET D : \A x \in t : F[t] = g[x] + F[t \ {x}]
  <2> SUFFICES ASSUME NEW t \in SUBSET D, NEW x \in t PROVE F[t] = g[x] + F[t \ {x}]
    OBVIOUS
  <2> QED BY <1>2, SummedTerm
<1>6. {} \in SUBSET D /\ \A x \in s : s \ {x} \in SUBSET D
  OBVIOUS
<1> QED BY <1>3, <1>4, <1>5, <1>6, <1>7

Table(g, D) == g \in [D -> Int]

\* The last of these facts, for one element.
LEMMA SumTerm ==
  ASSUME NEW D, IsFiniteSet(D), NEW g, Table(g, D), NEW s, s \subseteq D, NEW x, x \in s
  PROVE  SumOn(g, s) = g[x] + SumOn(g, s \ {x})
PROOF
<1>1. g \in [D -> Int] /\ s \in SUBSET D
  BY DEF Table
<1> QED BY <1>1, SumFacts

\* Sum is the sum over the whole domain.
LEMMA SumWhole ==
  ASSUME NEW D, NEW g \in [D -> Int]
  PROVE  Sum(g) = SumOn(g, D)
PROOF
<1>1. g = [x \in D |-> g[x]]
  OBVIOUS
<1> QED BY <1>1 DEF SumOn

\* Sums add up.
LEMMA SumAdds ==
  ASSUME NEW D, IsFiniteSet(D), NEW f \in [D -> Int], NEW g \in [D -> Int],
         NEW h \in [D -> Int], NEW s \in SUBSET D,
         \A x \in s : h[x] = f[x] + g[x]
  PROVE  SumOn(h, s) = SumOn(f, s) + SumOn(g, s)
PROOF
<1> DEFINE Adds == {t \in SUBSET s : SumOn(h, t) = SumOn(f, t) + SumOn(g, t)}
<1>0. IsFiniteSet(s)
  BY FiniteParts
<1>1. {} \in Adds
  BY SumFacts
<1>2. ASSUME NEW t \in SUBSET s, t # {}, \A x \in t : t \ {x} \in Adds
      PROVE  t \in Adds
  <2>1. PICK x \in t : TRUE
    BY <1>2
  <2>2. t \in SUBSET D /\ t \ {x} \in SUBSET D
    OBVIOUS
  <2>3. /\ SumOn(f, t) = f[x] + SumOn(f, t \ {x})
        /\ SumOn(g, t) = g[x] + SumOn(g, t \ {x})
        /\ SumOn(h, t) = h[x] + SumOn(h, t \ {x})
    BY <2>2, SumFacts
  <2>4. SumOn(f, t \ {x}) \in Int /\ SumOn(g, t \ {x}) \in Int
    BY <2>2, SumFacts
  <2>5. SumOn(h, t \ {x}) = SumOn(f, t \ {x}) + SumOn(g, t \ {x})
    BY <1>2
  <2>6. f[x] \in Int /\ g[x] \in Int /\ h[x] = f[x] + g[x]
    OBVIOUS
  <2> QED BY <2>3, <2>4, <2>5, <2>6
<1> HIDE DEF Adds
<1>3. \A t \in SUBSET s : t \in Adds
  BY <1>0, <1>1, <1>2, ByFiniteParts
<1> QED BY <1>3 DEF Adds

\* Tables that agree have the same sum.
LEMMA SumSame ==
  ASSUME NEW f, NEW g, NEW s, \A x \in s : f[x] = g[x]
  PROVE  SumOn(f, s) = SumOn(g, s)
PROOF
<1>1. [x \in s |-> f[x]] = [x \in s |-> g[x]]
  OBVIOUS
<1> QED BY <1>1 DEF SumOn

\* The same number for every element of a set.
LEMMA SumConstant ==
  ASSUME NEW D, IsFiniteSet(D), NEW k \in Int, NEW f \in [D -> Int], NEW s \in SUBSET D,
         \A x \in s : f[x] = k
  PROVE  SumOn(f, s) = k * Cardinality(s)
PROOF
<1> DEFINE Counts == {t \in SUBSET s : SumOn(f, t) = k * Cardinality(t)}
<1>0. IsFiniteSet(s)
  BY FiniteParts
<1>1. {} \in Counts
  BY SumFacts, FS_EmptySet
<1>2. ASSUME NEW t \in SUBSET s, t # {}, \A x \in t : t \ {x} \in Counts
      PROVE  t \in Counts
  <2>1. PICK x \in t : TRUE
    BY <1>2
  <2>2. t \in SUBSET D /\ t \ {x} \in SUBSET D
    OBVIOUS
  <2>3. SumOn(f, t) = k + SumOn(f, t \ {x})
    BY <2>2, SumFacts
  <2>4. SumOn(f, t \ {x}) = k * Cardinality(t \ {x})
    BY <1>2
  <2>5. Cardinality(t \ {x}) = Cardinality(t) - 1 /\ Cardinality(t) \in Nat
    BY <2>2, FiniteParts
  <2>6. \A n \in Nat : k + k * (n - 1) = k * n
    OBVIOUS
  <2> QED BY <2>3, <2>4, <2>5, <2>6
<1> HIDE DEF Counts
<1>3. \A t \in SUBSET s : t \in Counts
  BY <1>0, <1>1, <1>2, ByFiniteParts
<1> QED BY <1>3 DEF Counts

\* Sums add up over the whole domain.
LEMMA SumAddsWhole ==
  ASSUME NEW D, IsFiniteSet(D), NEW f \in [D -> Int], NEW g \in [D -> Int],
         NEW h \in [D -> Int], \A x \in D : h[x] = f[x] + g[x]
  PROVE  SumOn(h, D) = SumOn(f, D) + SumOn(g, D)
PROOF
<1>1. D \in SUBSET D
  OBVIOUS
<1> QED BY <1>1, SumAdds

\* And so does the same number, taken for each.
LEMMA SumConstantWhole ==
  ASSUME NEW D, IsFiniteSet(D), NEW k \in Int, NEW f \in [D -> Int],
         \A x \in D : f[x] = k
  PROVE  SumOn(f, D) = k * Cardinality(D)
PROOF
<1>1. D \in SUBSET D
  OBVIOUS
<1> QED BY <1>1, SumConstant

\* What is nought outside a set is summed over the set.
LEMMA SumOutside ==
  ASSUME NEW D, IsFiniteSet(D), NEW f \in [D -> Int], NEW s \in SUBSET D,
         \A x \in D \ s : f[x] = 0
  PROVE  SumOn(f, D) = SumOn(f, s)
PROOF
<1> DEFINE Kept == {t \in SUBSET D : SumOn(f, t) = SumOn(f, t \cap s)}
<1>1. {} \in Kept
  OBVIOUS
<1>2. ASSUME NEW t \in SUBSET D, t # {}, \A x \in t : t \ {x} \in Kept
      PROVE  t \in Kept
  <2>1. PICK x \in t : TRUE
    BY <1>2
  <2>2. t \in SUBSET D /\ t \ {x} \in SUBSET D /\ t \cap s \in SUBSET D
    OBVIOUS
  <2>3. SumOn(f, t) = f[x] + SumOn(f, t \ {x}) /\ SumOn(f, t \ {x}) \in Int
    BY <2>2, SumFacts
  <2>4. SumOn(f, t \ {x}) = SumOn(f, (t \ {x}) \cap s)
    BY <1>2
  <2>5. CASE x \in s
    <3>1. (t \ {x}) \cap s = (t \cap s) \ {x} /\ x \in t \cap s
      BY <2>5
    <3>2. SumOn(f, t \cap s) = f[x] + SumOn(f, (t \cap s) \ {x})
      BY <2>2, <3>1, SumFacts
    <3> QED BY <2>3, <2>4, <3>1, <3>2
  <2>6. CASE x \notin s
    <3>1. (t \ {x}) \cap s = t \cap s /\ f[x] = 0
      BY <2>6
    <3>2. SumOn(f, t) = SumOn(f, t \ {x})
      BY <2>3, <3>1
    <3> QED BY <2>4, <3>1, <3>2
  <2> QED BY <2>5, <2>6
<1> HIDE DEF Kept
<1>3. \A t \in SUBSET D : t \in Kept
  BY <1>1, <1>2, ByFiniteParts
<1>4. D \in SUBSET D /\ D \cap s = s
  OBVIOUS
<1> QED BY <1>3, <1>4 DEF Kept

\* The same, of a table.
LEMMA TableOutside ==
  ASSUME NEW D, IsFiniteSet(D), NEW f, Table(f, D), NEW s, s \subseteq D,
         \A x \in D \ s : f[x] = 0
  PROVE  SumOn(f, D) = SumOn(f, s)
PROOF
<1>1. f \in [D -> Int] /\ s \in SUBSET D
  BY DEF Table
<1> QED BY <1>1, SumOutside

\* Counting with ones, or with any k.
LEMMA SumWhere ==
  ASSUME NEW D, IsFiniteSet(D), NEW k \in Int, NEW f \in [D -> Int], NEW s \in SUBSET D,
         \A x \in D : f[x] = IF x \in s THEN k ELSE 0
  PROVE  SumOn(f, D) = k * Cardinality(s)
PROOF
<1>1. SumOn(f, D) = SumOn(f, s)
  BY SumOutside
<1>2. \A x \in s : f[x] = k
  OBVIOUS
<1>3. SumOn(f, s) = k * Cardinality(s)
  BY <1>2, SumConstant
<1> QED BY <1>1, <1>3

\* One term of the sum of a column.
LEMMA ColumnTerm ==
  ASSUME NEW D, IsFiniteSet(D), NEW f, NEW e, \A d \in D : f[d][e] \in Int,
         NEW t \in SUBSET D, NEW x \in t
  PROVE  SumOn([d \in D |-> f[d][e]], t)
           = f[x][e] + SumOn([d \in D |-> f[d][e]], t \ {x})
PROOF
<1> DEFINE line == [d \in D |-> f[d][e]]
<1>1. Table(line, D) /\ line[x] = f[x][e]
  BY DEF Table
<1> HIDE DEF line
<1>2. SumOn(line, t) = line[x] + SumOn(line, t \ {x})
  BY <1>1, SumTerm
<1>3. SumOn(line, t) = f[x][e] + SumOn(line, t \ {x})
  BY <1>1, <1>2
<1> QED BY <1>3 DEF line

\* The sums of the rows and of the columns of a table.
Crossed(rows, columns, f, D, E) ==
  /\ f \in [D -> [E -> Int]] /\ rows \in [D -> Int] /\ columns \in [E -> Int]
  /\ \A d \in D : rows[d] = SumOn(f[d], E)
  /\ \A e \in E : columns[e] = SumOn([d \in D |-> f[d][e]], D)

\* A table of two indices may be summed by row or by column.
LEMMA SumByColumn ==
  ASSUME NEW D, IsFiniteSet(D), NEW E, IsFiniteSet(E), NEW f, NEW rows, NEW columns,
         Crossed(rows, columns, f, D, E)
  PROVE  SumOn(rows, D) = SumOn(columns, E)
PROOF
<1> SUFFICES ASSUME f \in [D -> [E -> Int]], rows \in [D -> Int], columns \in [E -> Int],
                    \A d \in D : rows[d] = SumOn(f[d], E),
                    \A e \in E : columns[e] = SumOn([d \in D |-> f[d][e]], D)
             PROVE  SumOn(rows, D) = SumOn(columns, E)
  BY DEF Crossed
<1> DEFINE column(e) == [d \in D |-> f[d][e]]
           part(t) == [e \in E |-> SumOn(column(e), t)]
           Same == {t \in SUBSET D : SumOn(rows, t) = SumOn(part(t), E)}
<1>0. \A e \in E : column(e) \in [D -> Int]
  OBVIOUS
<1>1. \A t \in SUBSET D : part(t) \in [E -> Int]
  <2> HIDE DEF column
  <2> QED BY <1>0, SumFacts
<1>2. {} \in Same
  <2>1. \A e \in E : part({})[e] = 0
    <3> HIDE DEF column
    <3> QED BY <1>0, SumFacts
  <2>2. part({}) \in [E -> Int]
    BY <1>1
  <2> HIDE DEF part
  <2>3. SumOn(part({}), E) = 0 * Cardinality(E)
    BY <2>1, <2>2, SumConstant
  <2>4. Cardinality(E) \in Nat /\ \A n \in Nat : 0 * n = 0
    BY FS_CardinalityType
  <2>5. SumOn(rows, {}) = 0
    BY SumFacts
  <2> QED BY <2>3, <2>4, <2>5
<1>3. ASSUME NEW t \in SUBSET D, t # {}, \A x \in t : t \ {x} \in Same
      PROVE  t \in Same
  <2>1. PICK x \in t : TRUE
    BY <1>3
  <2>2. t \ {x} \in SUBSET D /\ x \in D /\ f[x] \in [E -> Int]
    OBVIOUS
  <2>3. SumOn(rows, t) = SumOn(f[x], E) + SumOn(part(t \ {x}), E)
    <3>1. SumOn(rows, t) = rows[x] + SumOn(rows, t \ {x})
      BY SumFacts
    <3>2. SumOn(rows, t \ {x}) = SumOn(part(t \ {x}), E)
      BY <1>3
    <3>3. rows[x] = SumOn(f[x], E)
      BY <2>2
    <3>4. SumOn(rows, t) = SumOn(f[x], E) + SumOn(rows, t \ {x})
      BY <3>1, <3>3, Zenon
    <3> HIDE DEF part
    <3> QED BY <3>2, <3>4, Zenon
  <2>4. ASSUME NEW e \in E PROVE part(t)[e] = f[x][e] + part(t \ {x})[e]
    <3>1. \A d \in D : f[d][e] \in Int
      OBVIOUS
    <3>2. SumOn(column(e), t) = f[x][e] + SumOn(column(e), t \ {x})
      BY <3>1, ColumnTerm
    <3>3. part(t)[e] = SumOn(column(e), t) /\ part(t \ {x})[e] = SumOn(column(e), t \ {x})
      BY Zenon
    <3> HIDE DEF column, part
    <3> QED BY <3>2, <3>3, Zenon
  <2>5. part(t) \in [E -> Int] /\ part(t \ {x}) \in [E -> Int]
    BY <1>1, <2>2
  <2>6. SumOn(part(t), E) = SumOn(f[x], E) + SumOn(part(t \ {x}), E)
    <3> DEFINE whole == part(t)
               rest == part(t \ {x})
    <3>1. whole \in [E -> Int] /\ rest \in [E -> Int] /\ E \in SUBSET E
      BY <2>5
    <3>2. \A e \in E : whole[e] = f[x][e] + rest[e]
      BY <2>4
    <3> HIDE DEF whole, rest
    <3>3. SumOn(whole, E) = SumOn(f[x], E) + SumOn(rest, E)
      BY <2>2, <3>1, <3>2, SumAdds
    <3> QED BY <3>3 DEF whole, rest
  <2> QED BY <2>3, <2>6
<1> HIDE DEF Same
<1>4. \A t \in SUBSET D : t \in Same
  BY <1>2, <1>3, ByFiniteParts
<1>5. SumOn(rows, D) = SumOn(part(D), E)
  BY <1>4 DEF Same
<1>6. \A e \in E : part(D)[e] = columns[e]
  OBVIOUS
<1> HIDE DEF part
<1>7. SumOn(part(D), E) = SumOn(columns, E)
  BY <1>6, SumSame
<1> QED BY <1>5, <1>7

(***************************************************************************)
(* The highest and the lowest of finitely many.                            *)
(***************************************************************************)

\* A finite set of integers has a highest element.
LEMMA MaxIs ==
  ASSUME NEW S \in SUBSET Int, IsFiniteSet(S), S # {}
  PROVE  /\ Max(S) \in S
         /\ \A y \in S : y <= Max(S)
PROOF
<1> DEFINE Bounded == {s \in SUBSET S : s # {} => \E x \in s : \A y \in s : y <= x}
<1>1. {} \in Bounded
  OBVIOUS
<1>2. ASSUME NEW s \in SUBSET S, s # {}, \A x \in s : s \ {x} \in Bounded
      PROVE  s \in Bounded
  <2>1. PICK x \in s : TRUE
    BY <1>2
  <2>2. CASE s \ {x} = {}
    <3>1. \A y \in s : y <= x
      BY <2>2
    <3> QED BY <3>1
  <2>3. CASE s \ {x} # {}
    <3>1. PICK z \in s \ {x} : \A y \in s \ {x} : y <= z
      BY <1>2, <2>3
    <3>2. x \in Int /\ z \in Int /\ \A y \in s : y \in Int
      OBVIOUS
    <3>3. CASE z <= x
      <4>1. \A y \in s : y <= x
        BY <3>1, <3>2, <3>3
      <4> QED BY <4>1
    <3>4. CASE ~(z <= x)
      <4>1. \A y \in s : y <= z
        BY <3>1, <3>2, <3>4
      <4> QED BY <3>1, <4>1
    <3> QED BY <3>3, <3>4
  <2> QED BY <2>2, <2>3
<1> HIDE DEF Bounded
<1>3. S \in Bounded
  BY <1>1, <1>2, ByFiniteParts
<1>4. \E x \in S : \A y \in S : x >= y
  BY <1>3 DEF Bounded
<1>5. Max(S) \in S /\ \A y \in S : Max(S) >= y
  BY <1>4 DEF Max
<1> QED BY <1>5

\* The higher and the lower of two.
LEMMA TwoOf ==
  ASSUME NEW a \in Int, NEW b \in Int
  PROVE  /\ Max({a, b}) = IF a >= b THEN a ELSE b
         /\ Min({a, b}) = IF a <= b THEN a ELSE b
PROOF
<1>1. \E x \in {a, b} : \A y \in {a, b} : x >= y
  OBVIOUS
<1>2. Max({a, b}) \in {a, b} /\ \A y \in {a, b} : Max({a, b}) >= y
  BY <1>1 DEF Max
<1>3. \E x \in {a, b} : \A y \in {a, b} : x <= y
  OBVIOUS
<1>4. Min({a, b}) \in {a, b} /\ \A y \in {a, b} : Min({a, b}) <= y
  BY <1>3 DEF Min
<1> QED BY <1>2, <1>4

(***************************************************************************)
(* The odd chips: r of the winners have fewer than r winners before them.  *)
(***************************************************************************)

Before(W, key, d) == {s \in W : key[s] < key[d]}
FirstOf(W, key, r) == {d \in W : Cardinality(Before(W, key, d)) < r}

\* When r of the winners are first, r + 1 of them are among the first r + 1.
LEMMA FirstGrows ==
  ASSUME NEW W, IsFiniteSet(W), NEW key \in [W -> Nat],
         \A a, b \in W : key[a] = key[b] => a = b,
         NEW r \in Nat, r < Cardinality(W), Cardinality(FirstOf(W, key, r)) = r
  PROVE  Cardinality(FirstOf(W, key, r + 1)) = r + 1
PROOF
<1> DEFINE early == FirstOf(W, key, r)
           ahead(d) == Before(W, key, d)
           rest == W \ early
<1>1. early \in SUBSET W /\ \A d \in W : ahead(d) \in SUBSET W
  BY DEF FirstOf, Before
<1>2. \A d \in W : IsFiniteSet(ahead(d)) /\ Cardinality(ahead(d)) \in Nat
  BY <1>1, FiniteParts
<1>3. \E m \in rest : \A d \in rest : key[m] <= key[d]
  <2> DEFINE keys == {key[d] : d \in rest}
  <2>1. rest # {}
    BY <1>1
  <2>2. keys \in SUBSET Nat /\ keys # {}
    BY <2>1
  <2> HIDE DEF keys
  <2>3. PICK k \in keys : \A y \in keys : ~(<<y, k>> \in OpToRel(<, Nat))
    BY <2>2, NatLessThanWellFounded, WFMin
  <2>4. \A y \in keys : k <= y
    <3> SUFFICES ASSUME NEW y \in keys PROVE k <= y
      OBVIOUS
    <3>1. y \in Nat /\ k \in Nat
      BY <2>2
    <3>2. ~(y < k)
      BY <2>3, <3>1, Zenon DEF OpToRel
    <3> QED BY <3>1, <3>2
  <2> QED BY <2>4 DEF keys
<1>4. PICK m \in rest : \A d \in rest : key[m] <= key[d]
  BY <1>3
<1>5. m \in W /\ m \notin early /\ key[m] \in Nat /\ \A d \in W : key[d] \in Nat
  OBVIOUS
<1>6. Cardinality(ahead(m)) >= r
  BY <1>2, <1>5 DEF FirstOf
<1>7. ahead(m) \subseteq early
  BY <1>4, <1>5 DEF Before
<1>8. ASSUME NEW s \in early PROVE s \in ahead(m)
  <2>1. s \in W /\ s # m /\ key[s] # key[m]
    BY <1>1, <1>5
  <2>2. ASSUME key[m] < key[s] PROVE FALSE
    <3>1. ahead(m) \subseteq ahead(s)
      BY <1>5, <2>1, <2>2 DEF Before
    <3>2. Cardinality(ahead(m)) <= Cardinality(ahead(s))
      BY <1>2, <2>1, <3>1, FS_Subset
    <3>3. Cardinality(ahead(s)) < r
      BY DEF FirstOf
    <3> QED BY <1>2, <1>5, <1>6, <2>1, <3>2, <3>3
  <2>3. key[s] < key[m]
    BY <1>5, <2>1, <2>2
  <2> QED BY <2>1, <2>3 DEF Before
<1>9. ahead(m) = early
  BY <1>7, <1>8
<1>10. Cardinality(ahead(m)) = r
  BY <1>9
<1>11. FirstOf(W, key, r + 1) = early \cup {m}
  <2>1. ASSUME NEW d \in early PROVE d \in FirstOf(W, key, r + 1)
    <3>1. d \in W /\ Cardinality(ahead(d)) < r
      BY DEF FirstOf
    <3>2. Cardinality(ahead(d)) < r + 1
      BY <1>2, <3>1
    <3> QED BY <3>1, <3>2 DEF FirstOf
  <2>2. m \in FirstOf(W, key, r + 1)
    BY <1>5, <1>10 DEF FirstOf
  <2>3. ASSUME NEW d \in FirstOf(W, key, r + 1), d \notin early, d # m PROVE FALSE
    <3>1. d \in W /\ Cardinality(ahead(d)) < r + 1
      BY DEF FirstOf
    <3>2. key[m] < key[d]
      <4>1. d \in rest
        BY <2>3, <3>1
      <4>2. key[m] <= key[d] /\ key[m] # key[d]
        BY <1>4, <1>5, <2>3, <3>1, <4>1
      <4> QED BY <1>5, <3>1, <4>2
    <3>3. early \cup {m} \subseteq ahead(d)
      BY <1>5, <1>9, <3>1, <3>2 DEF Before
    <3>4. Cardinality(early \cup {m}) = r + 1
      <4>1. IsFiniteSet(early)
        BY <1>1, FiniteParts
      <4> QED BY <1>5, <4>1, FS_AddElement
    <3>5. r + 1 <= Cardinality(ahead(d))
      BY <1>2, <3>1, <3>3, <3>4, FS_Subset
    <3> QED BY <1>2, <3>1, <3>5
  <2>4. FirstOf(W, key, r + 1) \subseteq W
    BY DEF FirstOf
  <2> QED BY <2>1, <2>2, <2>3, <2>4
<1>12. IsFiniteSet(early)
  BY <1>1, FiniteParts
<1> QED BY <1>5, <1>11, <1>12, FS_AddElement

\* Exactly r of the winners have fewer than r before them.
LEMMA FirstCount ==
  ASSUME NEW W, IsFiniteSet(W), NEW key \in [W -> Nat],
         \A a, b \in W : key[a] = key[b] => a = b,
         NEW r \in Nat, r <= Cardinality(W)
  PROVE  Cardinality(FirstOf(W, key, r)) = r
PROOF
<1> DEFINE Counted == {n \in Nat : n <= Cardinality(W) => Cardinality(FirstOf(W, key, n)) = n}
<1>0. Cardinality(W) \in Nat
  BY FS_CardinalityType
<1>1. 0 \in Counted
  <2>1. \A d \in W : Cardinality(Before(W, key, d)) \in Nat
    <3>1. \A d \in W : Before(W, key, d) \in SUBSET W
      BY DEF Before
    <3> QED BY <3>1, FiniteParts
  <2>2. FirstOf(W, key, 0) = {}
    BY <2>1 DEF FirstOf
  <2> QED BY <2>2, FS_EmptySet
<1>2. ASSUME NEW n \in Nat, n \in Counted PROVE n + 1 \in Counted
  <2> SUFFICES ASSUME n + 1 <= Cardinality(W)
               PROVE  Cardinality(FirstOf(W, key, n + 1)) = n + 1
    OBVIOUS
  <2>1. n < Cardinality(W)
    BY <1>0
  <2>2. Cardinality(FirstOf(W, key, n)) = n
    BY <1>0, <1>2, <2>1
  <2> QED BY <2>1, <2>2, FirstGrows
<1> HIDE DEF Counted
<1>3. \A n \in Nat : n \in Counted
  BY <1>1, <1>2, ByNaturals
<1> QED BY <1>3 DEF Counted

\* So r odd chips go to r winners.
LEMMA OddChips ==
  ASSUME NEW W, IsFiniteSet(W), NEW key \in [W -> Nat],
         \A a, b \in W : key[a] = key[b] => a = b,
         NEW r \in Nat, r <= Cardinality(W), NEW extra \in [W -> Int],
         \A d \in W : extra[d] = IF d \in FirstOf(W, key, r) THEN 1 ELSE 0
  PROVE  SumOn(extra, W) = r
PROOF
<1> DEFINE early == FirstOf(W, key, r)
<1>1. Cardinality(early) = r
  BY FirstCount
<1>2. early \in SUBSET W /\ \A d \in W : extra[d] = IF d \in early THEN 1 ELSE 0
  BY DEF FirstOf
<1> HIDE DEF early
<1>3. SumOn(extra, W) = 1 * Cardinality(early)
  BY <1>2, SumWhere
<1> QED BY <1>1, <1>3

(***************************************************************************)
(* A pot is awarded whole.                                                 *)
(***************************************************************************)

\* Quotient and remainder.
LEMMA Division ==
  ASSUME NEW a \in Nat, NEW n \in Nat \ {0}
  PROVE  /\ a \div n \in Nat /\ a % n \in 0 .. n - 1
         /\ (a \div n) * n + (a % n) = a
PROOF
<1> DEFINE q == a \div n
           r == a % n
<1>1. q \in Nat /\ r \in 0 .. n - 1
  OBVIOUS
<1>2. r = a - n * q
  BY SMT
<1> HIDE DEF q, r
<1>3. q * n = n * q /\ n * q \in Int
  BY <1>1
<1>4. q * n + r = a
  BY <1>1, <1>2, <1>3
<1> QED BY <1>1, <1>4 DEF q, r

\* The remainder of what is less than twice the divisor.
LEMMA SmallRemainder ==
  ASSUME NEW n \in Nat \ {0}, NEW a \in 0 .. 2 * n - 1
  PROVE  a % n = IF a < n THEN a ELSE a - n
PROOF OBVIOUS

\* No two seats are equally far from the seat the odd chips start at.
LEMMA Distances ==
  ASSUME NEW odd \in Seats
  PROVE  /\ \A s \in Seats : (s - odd + SeatCount) % SeatCount \in Nat
         /\ \A a, b \in Seats :
              (a - odd + SeatCount) % SeatCount = (b - odd + SeatCount) % SeatCount => a = b
PROOF
<1> DEFINE n == SeatCount
<1>1. n \in Nat \ {0}
  BY TableAssumption
<1>2. \A s \in Seats : s \in Int /\ s - odd + n \in 0 .. 2 * n - 1
  BY TableAssumption DEF Seats
<1>3. \A s \in Seats : (s - odd + n) % n = IF s - odd + n < n THEN s - odd + n ELSE s - odd
  <2> SUFFICES ASSUME NEW s \in Seats
               PROVE  (s - odd + n) % n = IF s - odd + n < n THEN s - odd + n ELSE s - odd
    OBVIOUS
  <2> DEFINE d == s - odd + n
  <2>1. d \in 0 .. 2 * n - 1 /\ d - n = s - odd
    BY <1>1, <1>2
  <2> HIDE DEF n, d
  <2>2. d % n = IF d < n THEN d ELSE d - n
    BY <1>1, <2>1, SmallRemainder
  <2> QED BY <2>1, <2>2 DEF d
<1>4. \A s \in Seats : s < n /\ 0 <= s
  BY TableAssumption DEF Seats
<1>5. odd \in Int /\ odd < n /\ 0 <= odd
  BY <1>2, <1>4
<1> HIDE DEF n
<1>6. \A s \in Seats : (s - odd + n) % n \in Nat
  BY <1>1, <1>2, <1>3, <1>4, <1>5
<1>7. ASSUME NEW a \in Seats, NEW b \in Seats, (a - odd + n) % n = (b - odd + n) % n
      PROVE  a = b
  BY <1>1, <1>2, <1>3, <1>4, <1>5, <1>7
<1> QED BY <1>6, <1>7 DEF n

\* The awards of a pot add up to the pot: award_pot loses no odd chip.
LEMMA AwardsAddUp ==
  ASSUME NEW W \in SUBSET Seats, W # {}, NEW amount \in Nat, NEW odd \in Seats,
         NEW won \in [Seats -> Int],
         \A d \in W : won[d] = Award(d, W, amount, odd, SeatCount)
  PROVE  SumOn(won, W) = amount
PROOF
<1> DEFINE key == [s \in W |-> (s - odd + SeatCount) % SeatCount]
           size == Cardinality(W)
           left == amount % size
           evenly == [d \in W |-> amount \div size]
           extra == [d \in W |-> IF d \in FirstOf(W, key, left) THEN 1 ELSE 0]
           mine == [d \in W |-> won[d]]
<1>1. IsFiniteSet(W) /\ size \in Nat \ {0}
  <2>1. IsFiniteSet(Seats)
    BY TableAssumption, FS_Interval DEF Seats
  <2> QED BY <2>1, FiniteParts
<1>2. key \in [W -> Nat]
  BY Distances
<1>3. \A a, b \in W : key[a] = key[b] => a = b
  BY Distances
<1>4. amount \div size \in Nat /\ left \in 0 .. size - 1 /\ (amount \div size) * size + left = amount
  <2> HIDE DEF size
  <2> QED BY <1>1, Division
<1>5. \A d \in W : mine[d] = evenly[d] + extra[d]
  <2> SUFFICES ASSUME NEW d \in W PROVE won[d] = amount \div size + extra[d]
    OBVIOUS
  <2>1. Before(W, key, d) = {s \in W : (s - odd + SeatCount) % SeatCount < (d - odd + SeatCount) % SeatCount}
    BY DEF Before
  <2>2. won[d] = amount \div size
          + (IF Cardinality({s \in W : (s - odd + SeatCount) % SeatCount < (d - odd + SeatCount) % SeatCount}) < left THEN 1 ELSE 0)
    BY DEF Award
  <2>3. extra[d] = IF Cardinality(Before(W, key, d)) < left THEN 1 ELSE 0
    BY DEF FirstOf
  <2> QED BY <2>1, <2>2, <2>3
<1>6. evenly \in [W -> Int] /\ extra \in [W -> Int] /\ mine \in [W -> Int]
  BY <1>4
<1>7. SumOn(evenly, W) = (amount \div size) * size
  <2>1. \A d \in W : evenly[d] = amount \div size
    OBVIOUS
  <2> DEFINE k == amount \div size
  <2>2. k \in Int /\ \A d \in W : evenly[d] = k
    BY <1>4, <2>1
  <2> HIDE DEF evenly, k
  <2>3. SumOn(evenly, W) = k * Cardinality(W)
    BY <1>1, <1>6, <2>2, SumConstantWhole
  <2> QED BY <2>3 DEF k
<1>8. SumOn(extra, W) = left
  <2>1. left \in Nat /\ left <= Cardinality(W)
    BY <1>1, <1>4
  <2>2. extra \in [W -> Int] /\ \A d \in W : extra[d] = IF d \in FirstOf(W, key, left) THEN 1 ELSE 0
    OBVIOUS
  <2> HIDE DEF extra, left, key, size
  <2> QED BY <1>1, <1>2, <1>3, <2>1, <2>2, OddChips
<1>9. SumOn(mine, W) = SumOn(evenly, W) + SumOn(extra, W)
  <2> HIDE DEF mine, evenly, extra
  <2> QED BY <1>1, <1>5, <1>6, SumAddsWhole
<1>10. SumOn(won, W) = SumOn(mine, W)
  BY SumSame
<1> HIDE DEF mine, evenly, extra, left, size
<1> QED BY <1>4, <1>7, <1>8, <1>9, <1>10

(***************************************************************************)
(* Shares of many pots: what the seats receive is what the pots give.      *)
(***************************************************************************)

\* Pot e gives v[e][d] to each of its members d.
Shared(received, given, member, v, D, E) ==
  /\ member \in [E -> SUBSET D] /\ v \in [E -> [D -> Int]]
  /\ received \in [D -> Int] /\ given \in [E -> Int]
  /\ \A d \in D : received[d] = Sum([e \in {k \in E : d \in member[k]} |-> v[e][d]])
  /\ \A e \in E : given[e] = SumOn(v[e], member[e])

\* What the members receive is what the pots give.
LEMMA SharesAddUp ==
  ASSUME NEW D, IsFiniteSet(D), NEW E, IsFiniteSet(E),
         NEW member, NEW v, NEW received, NEW given,
         Shared(received, given, member, v, D, E)
  PROVE  SumOn(received, D) = SumOn(given, E)
PROOF
<1> SUFFICES ASSUME member \in [E -> SUBSET D], v \in [E -> [D -> Int]],
                    received \in [D -> Int], given \in [E -> Int],
                    \A d \in D : received[d]
                      = Sum([e \in {k \in E : d \in member[k]} |-> v[e][d]]),
                    \A e \in E : given[e] = SumOn(v[e], member[e])
             PROVE  SumOn(received, D) = SumOn(given, E)
  BY DEF Shared
<1> DEFINE f == [d \in D |-> [e \in E |-> IF d \in member[e] THEN v[e][d] ELSE 0]]
           column(e) == [d \in D |-> f[d][e]]
<1>1. f \in [D -> [E -> Int]]
  OBVIOUS
<1>2. ASSUME NEW d \in D PROVE received[d] = SumOn(f[d], E)
  <2> DEFINE mine == {k \in E : d \in member[k]}
             row == f[d]
  <2>1. row \in [E -> Int] /\ mine \in SUBSET E /\ \A e \in E \ mine : row[e] = 0
    OBVIOUS
  <2>2. \A e \in mine : row[e] = v[e][d]
    OBVIOUS
  <2>3. received[d] = Sum([e \in mine |-> v[e][d]])
    OBVIOUS
  <2> HIDE DEF row, mine
  <2>4. SumOn(row, E) = SumOn(row, mine)
    <3>1. Table(row, E) /\ mine \subseteq E /\ \A e \in E \ mine : row[e] = 0
      BY <2>1 DEF Table
    <3> QED BY <3>1, TableOutside
  <2>5. [e \in mine |-> v[e][d]] = [e \in mine |-> row[e]]
    BY <2>2
  <2>6. received[d] = SumOn(row, mine)
    BY <2>3, <2>5 DEF SumOn
  <2> QED BY <2>4, <2>6 DEF row
<1>3. ASSUME NEW e \in E PROVE given[e] = SumOn(column(e), D)
  <2> DEFINE line == column(e)
             values == v[e]
             s == member[e]
  <2>1. line \in [D -> Int] /\ s \in SUBSET D /\ \A d \in D \ s : line[d] = 0
    OBVIOUS
  <2>2. \A d \in s : line[d] = values[d]
    OBVIOUS
  <2>3. given[e] = SumOn(values, s)
    OBVIOUS
  <2> HIDE DEF line, values, s
  <2>4. SumOn(line, D) = SumOn(line, s)
    BY <2>1, SumOutside
  <2>5. SumOn(line, s) = SumOn(values, s)
    BY <2>2, SumSame
  <2> QED BY <2>3, <2>4, <2>5 DEF line
<1> HIDE DEF f
<1>4. \A e \in E : given[e] = SumOn([d \in D |-> f[d][e]], D)
  <2> HIDE DEF column
  <2> QED BY <1>3 DEF column
<1>5. \A d \in D : received[d] = SumOn(f[d], E)
  BY <1>2
<1>6. Crossed(received, given, f, D, E)
  BY <1>1, <1>4, <1>5 DEF Crossed
<1> QED BY <1>6, SumByColumn

\* A sum is the sum of its parts.
LEMMA SumSplits ==
  ASSUME NEW D, IsFiniteSet(D), NEW f \in [D -> Int], NEW s \in SUBSET D
  PROVE  SumOn(f, D) = SumOn(f, s) + SumOn(f, D \ s)
PROOF
<1> DEFINE inside == [x \in D |-> IF x \in s THEN f[x] ELSE 0]
           outside == [x \in D |-> IF x \in s THEN 0 ELSE f[x]]
           t == D \ s
<1>1. inside \in [D -> Int] /\ outside \in [D -> Int] /\ t \in SUBSET D
  OBVIOUS
<1>2. \A x \in D : f[x] = inside[x] + outside[x]
  OBVIOUS
<1>3. (\A x \in D \ s : inside[x] = 0) /\ \A x \in s : inside[x] = f[x]
  OBVIOUS
<1>4. (\A x \in D \ t : outside[x] = 0) /\ \A x \in t : outside[x] = f[x]
  OBVIOUS
<1> HIDE DEF inside, outside, t
<1>5. SumOn(f, D) = SumOn(inside, D) + SumOn(outside, D)
  BY <1>1, <1>2, SumAddsWhole
<1>6. SumOn(inside, D) = SumOn(inside, s) /\ SumOn(outside, D) = SumOn(outside, t)
  BY <1>1, <1>3, <1>4, SumOutside
<1>7. SumOn(inside, s) = SumOn(f, s)
  BY <1>3, SumSame
<1>8. SumOn(outside, t) = SumOn(f, t)
  BY <1>4, SumSame
<1> QED BY <1>5, <1>6, <1>7, <1>8 DEF t

(***************************************************************************)
(* The layers from the lowest up.                                          *)
(***************************************************************************)

Below(s, level) == {lower \in s : lower < level}

\* What a seat has put in is the height of the layers up to its own.
LEMMA LayersReach ==
  ASSUME NEW L, IsFiniteSet(L), \A level \in L : level \in Nat /\ level # 0,
         NEW height \in [L -> Int],
         \A level \in L : height[level] = level - Max({0} \cup Below(L, level)),
         NEW s \in SUBSET L, \A level \in s : Below(L, level) \subseteq s
  PROVE  SumOn(height, s) = Max({0} \cup s)
PROOF
<1> DEFINE Reached == {t \in SUBSET L : (\A level \in t : Below(L, level) \subseteq t)
                                          => SumOn(height, t) = Max({0} \cup t)}
<1>1. {} \in Reached
  <2>1. SumOn(height, {}) = 0
    BY SumFacts
  <2>2. {0} \cup {} = {0, 0}
    OBVIOUS
  <2>3. Max({0, 0}) = 0
    BY TwoOf
  <2> QED BY <2>1, <2>2, <2>3
<1>2. ASSUME NEW t \in SUBSET L, t # {}, \A x \in t : t \ {x} \in Reached
      PROVE  t \in Reached
  <2> SUFFICES ASSUME \A level \in t : Below(L, level) \subseteq t
               PROVE  SumOn(height, t) = Max({0} \cup t)
    OBVIOUS
  <2> DEFINE top == Max({0} \cup t)
             rest == t \ {top}
  <2>1. IsFiniteSet(t) /\ {0} \cup t \in SUBSET Int /\ {0} \cup t # {}
    BY FiniteParts
  <2>2. IsFiniteSet({0} \cup t)
    BY <2>1, FS_AddElement
  <2>3. top \in {0} \cup t /\ \A y \in {0} \cup t : y <= top
    BY <2>1, <2>2, MaxIs
  <2> HIDE DEF top
  <2>4. top \in t /\ \A y \in t : y <= top
    BY <1>2, <2>3
  <2>5. Below(L, top) = rest
    <3>1. Below(L, top) \subseteq t
      BY <2>4
    <3> QED BY <2>4, <3>1 DEF Below
  <2>6. \A level \in rest : Below(L, level) \subseteq rest
    <3> SUFFICES ASSUME NEW level \in rest, NEW k \in Below(L, level) PROVE k \in rest
      OBVIOUS
    <3>1. k \in t /\ k < level /\ level <= top /\ k \in Nat /\ level \in Nat /\ top \in Nat
      BY <2>4 DEF Below
    <3> QED BY <3>1
  <2>7. SumOn(height, rest) = Max({0} \cup rest)
    BY <1>2, <2>4, <2>6
  <2>8. height[top] = top - Max({0} \cup rest)
    BY <2>4, <2>5
  <2>9. SumOn(height, t) = height[top] + SumOn(height, rest)
    BY <2>4, SumFacts
  <2>10. top \in Int /\ SumOn(height, rest) \in Int
    <3>1. rest \in SUBSET L
      OBVIOUS
    <3> HIDE DEF rest
    <3> QED BY <2>4, <3>1, SumFacts
  <2> HIDE DEF rest
  <2>11. SumOn(height, t) = top
    BY <2>7, <2>8, <2>9, <2>10
  <2> QED BY <2>11 DEF top
<1> HIDE DEF Reached
<1>3. \A t \in SUBSET L : t \in Reached
  BY <1>1, <1>2, ByFiniteParts
<1> QED BY <1>3 DEF Reached

(***************************************************************************)
(* The rake runs down the pots.                                            *)
(***************************************************************************)

AfterRake(amount, taken, rake) ==
  amount - Min({amount, Max({0, rake - taken})})

\* A pot pays of the rake what the pots before it left to pay.
LEMMA RakeRunsDown ==
  ASSUME NEW a \in Nat, NEW taken \in Nat, NEW rake \in Nat
  PROVE  /\ AfterRake(a, taken, rake) \in 0 .. a
         /\ AfterRake(a, taken, rake) + (taken - Min({taken, rake}))
              = (a + taken) - Min({a + taken, rake})
PROOF
<1>1. Max({0, rake - taken}) = IF 0 >= rake - taken THEN 0 ELSE rake - taken
  BY TwoOf
<1> DEFINE m == Max({0, rake - taken})
<1>2. m \in Nat
  BY <1>1
<1> HIDE DEF m
<1>3. Min({a, m}) = IF a <= m THEN a ELSE m
  BY <1>2, TwoOf
<1>4. Min({taken, rake}) = IF taken <= rake THEN taken ELSE rake
  BY TwoOf
<1>5. Min({a + taken, rake}) = IF a + taken <= rake THEN a + taken ELSE rake
  BY TwoOf
<1> QED BY <1>1, <1>2, <1>3, <1>4, <1>5 DEF AfterRake, m

\* The lower of two natural numbers.
LEMMA LesserOf ==
  ASSUME NEW a \in Nat, NEW b \in Nat
  PROVE  (a <= b => Min({a, b}) = a) /\ (b <= a => Min({a, b}) = b)
PROOF
<1>1. Min({a, b}) = IF a <= b THEN a ELSE b
  BY TwoOf
<1> QED BY <1>1

\* Pots raked from the lowest up lose exactly the rake between them.
LEMMA PotsAfterRake ==
  ASSUME NEW L, IsFiniteSet(L), \A level \in L : level \in Nat,
         NEW amount \in [L -> Int], \A level \in L : amount[level] \in Nat,
         NEW rake \in Nat,
         NEW left \in [L -> Int],
         \A level \in L :
           left[level] = AfterRake(amount[level], SumOn(amount, Below(L, level)), rake),
         SumOn(amount, L) \in Nat, rake <= SumOn(amount, L)
  PROVE  SumOn(left, L) = SumOn(amount, L) - rake
PROOF
<1>0. amount \in [L -> Int] /\ \A t \in SUBSET L : SumOn(amount, t) \in Nat
  <2>1. amount \in [L -> Int]
    OBVIOUS
  <2> DEFINE Natural == {t \in SUBSET L : SumOn(amount, t) \in Nat}
  <2>2. {} \in Natural
    BY <2>1, SumFacts
  <2>3. ASSUME NEW t \in SUBSET L, t # {}, \A x \in t : t \ {x} \in Natural
        PROVE  t \in Natural
    <3>1. PICK x \in t : TRUE
      BY <2>3
    <3>2. SumOn(amount, t) = amount[x] + SumOn(amount, t \ {x})
      BY <2>1, SumFacts
    <3>3. amount[x] \in Nat /\ SumOn(amount, t \ {x}) \in Nat
      BY <2>3
    <3> QED BY <3>2, <3>3
  <2> HIDE DEF Natural
  <2>4. \A t \in SUBSET L : t \in Natural
    BY <2>2, <2>3, ByFiniteParts
  <2> QED BY <2>1, <2>4 DEF Natural
<1> DEFINE Raked == {t \in SUBSET L :
             (\A level \in t : Below(L, level) \subseteq t)
               => SumOn(left, t) = SumOn(amount, t) - Min({SumOn(amount, t), rake})}
<1>1. {} \in Raked
  <2>1. SumOn(amount, {}) = 0 /\ SumOn(left, {}) = 0
    BY <1>0, SumFacts
  <2>2. Min({0, rake}) = 0
    BY LesserOf
  <2> QED BY <2>1, <2>2
<1>2. ASSUME NEW t \in SUBSET L, t # {}, \A x \in t : t \ {x} \in Raked
      PROVE  t \in Raked
  <2> SUFFICES ASSUME \A level \in t : Below(L, level) \subseteq t
               PROVE  SumOn(left, t) = SumOn(amount, t) - Min({SumOn(amount, t), rake})
    OBVIOUS
  <2>1. IsFiniteSet(t) /\ t \in SUBSET Int
    BY FiniteParts
  <2> DEFINE top == Max(t)
             rest == t \ {top}
  <2>2. top \in t /\ \A y \in t : y <= top
    BY <1>2, <2>1, MaxIs
  <2> HIDE DEF top
  <2>3. Below(L, top) = rest
    <3>1. Below(L, top) \subseteq t
      BY <2>2
    <3> QED BY <2>2, <3>1 DEF Below
  <2>4. \A level \in rest : Below(L, level) \subseteq rest
    <3> SUFFICES ASSUME NEW level \in rest, NEW k \in Below(L, level) PROVE k \in rest
      OBVIOUS
    <3>1. k \in t /\ k < level /\ level <= top /\ k \in Nat /\ level \in Nat /\ top \in Nat
      BY <2>2 DEF Below
    <3> QED BY <3>1
  <2>5. rest \in SUBSET L /\ rest \in Raked
    BY <1>2, <2>2
  <2>6. SumOn(left, rest) = SumOn(amount, rest) - Min({SumOn(amount, rest), rake})
    BY <2>4, <2>5
  <2>7. left[top] = AfterRake(amount[top], SumOn(amount, rest), rake)
    BY <2>2, <2>3
  <2>8. SumOn(left, t) = left[top] + SumOn(left, rest)
    BY <2>2, SumFacts
  <2>9. SumOn(amount, t) = amount[top] + SumOn(amount, rest)
    <3>1. \A x \in t : SumOn(amount, t) = amount[x] + SumOn(amount, t \ {x})
      BY SumFacts
    <3> QED BY <2>2, <3>1
  <2>10. amount[top] \in Nat /\ SumOn(amount, rest) \in Nat
    BY <1>0, <2>2, <2>5
  <2> HIDE DEF rest
  <2> DEFINE a == amount[top]
             taken == SumOn(amount, rest)
  <2>11. AfterRake(a, taken, rake) + (taken - Min({taken, rake}))
              = (a + taken) - Min({a + taken, rake})
    BY <2>10, RakeRunsDown
  <2> QED BY <2>6, <2>7, <2>8, <2>9, <2>11
<1> HIDE DEF Raked
<1>3. \A t \in SUBSET L : t \in Raked
  BY <1>1, <1>2, ByFiniteParts
<1>4. \A level \in L : Below(L, level) \subseteq L
  BY DEF Below
<1>5. SumOn(left, L) = SumOn(amount, L) - Min({SumOn(amount, L), rake})
  BY <1>3, <1>4 DEF Raked
<1>6. Min({SumOn(amount, L), rake}) = rake
  BY LesserOf
<1> QED BY <1>5, <1>6

(***************************************************************************)
(* The rake never exceeds what it is taken from.                           *)
(***************************************************************************)

\* A share of at most 10000 basis points is no more than the whole.
LEMMA ProportionBounded ==
  ASSUME NEW x \in Nat, NEW k \in Nat, k <= 10000
  PROVE  (x * k) \div 10000 \in Nat /\ (x * k) \div 10000 <= x
PROOF
<1> DEFINE p == x * k
<1>1. p \in Nat /\ p <= x * 10000
  OBVIOUS
<1> HIDE DEF p
<1>2. p \div 10000 \in Nat /\ p \div 10000 <= x
  BY <1>1
<1> QED BY <1>2 DEF p

\* The rake never exceeds the contested chips.
LEMMA RakeBounded ==
  ASSUME NEW x \in Nat, NEW flop
  PROVE  /\ rake_for_contested_pot(x, flop) \in Nat
         /\ rake_for_contested_pot(x, flop) <= x
PROOF
<1> DEFINE share == (x * BasisPoints) \div 10000
<1>1. share \in Nat /\ share <= x
  <2>1. BasisPoints \in Nat /\ BasisPoints <= 10000
    BY RakeAssumption
  <2> QED BY <2>1, ProportionBounded
<1>2. rake_for_contested_pot(x, flop)
        = IF NoFlopNoDrop /\ ~flop THEN 0 ELSE Min({share, RakeCap})
  BY DEF rake_for_contested_pot
<1> HIDE DEF share
<1>3. Min({share, RakeCap}) \in {share, RakeCap} /\ Min({share, RakeCap}) <= share
  BY <1>1, RakeAssumption, TwoOf
<1> QED BY <1>1, <1>2, <1>3, RakeAssumption

(***************************************************************************)
(* The layers of a table of contributions.                                 *)
(***************************************************************************)

Chips(c) == c \in [Seats -> Nat]

LayerAmounts(c) == [level \in Levels(c) |-> LayerAmount(c, level)]

\* The seats of the table.
LEMMA SeatsFinite == IsFiniteSet(Seats) /\ Cardinality(Seats) = SeatCount
PROOF
<1>1. 0 \in Int /\ SeatCount - 1 \in Int /\ SeatCount \in Nat /\ SeatCount >= 1
  BY TableAssumption
<1> QED BY <1>1, FS_Interval DEF Seats

\* A finite table has finitely many values.
LEMMA ImageFinite ==
  ASSUME NEW D, IsFiniteSet(D), NEW f
  PROVE  IsFiniteSet({f[x] : x \in D})
PROOF
<1> DEFINE Fine == {s \in SUBSET D : IsFiniteSet({f[x] : x \in s})}
<1>1. {} \in Fine
  BY FS_EmptySet
<1>2. ASSUME NEW s \in SUBSET D, s # {}, \A x \in s : s \ {x} \in Fine
      PROVE  s \in Fine
  <2>1. PICK x \in s : TRUE
    BY <1>2
  <2>2. IsFiniteSet({f[y] : y \in s \ {x}})
    BY <1>2
  <2>3. {f[y] : y \in s} = {f[y] : y \in s \ {x}} \cup {f[x]}
    OBVIOUS
  <2>4. IsFiniteSet({f[y] : y \in s \ {x}} \cup {f[x]})
    <3> DEFINE others == {f[y] : y \in s \ {x}}
               mine == f[x]
    <3>1. IsFiniteSet(others)
      BY <2>2
    <3> HIDE DEF others, mine
    <3>2. IsFiniteSet(others \cup {mine})
      BY <3>1, FS_AddElement
    <3> QED BY <3>2 DEF others, mine
  <2> QED BY <2>3, <2>4
<1> HIDE DEF Fine
<1>3. \A s \in SUBSET D : s \in Fine
  BY <1>1, <1>2, ByFiniteParts
<1> QED BY <1>3 DEF Fine

\* The layers are the contributions that are not nought.
LEMMA LayersAre ==
  ASSUME NEW c, Chips(c)
  PROVE  /\ IsFiniteSet(Levels(c))
         /\ \A level \in Levels(c) : level \in Nat /\ level # 0
         /\ \A seat \in Seats : c[seat] # 0 => c[seat] \in Levels(c)
         /\ \A level \in Levels(c) : \E seat \in Seats : c[seat] = level
PROOF
<1>1. DOMAIN c = Seats /\ \A seat \in Seats : c[seat] \in Nat
  BY DEF Chips
<1>2. Levels(c) = {c[seat] : seat \in Seats} \ {0}
  BY <1>1 DEF Levels
<1>3. IsFiniteSet({c[seat] : seat \in Seats})
  BY SeatsFinite, ImageFinite
<1>4. IsFiniteSet(Levels(c))
  BY <1>2, <1>3, FS_Subset
<1>5. \A level \in Levels(c) : level \in Nat /\ level # 0
  BY <1>1, <1>2
<1> QED BY <1>1, <1>2, <1>4, <1>5

Height(c, level) == level - PreviousLevel(c, level)

\* A layer is a height of chips under each of its contributors.
LEMMA ALayer ==
  ASSUME NEW c, Chips(c), NEW level \in Levels(c)
  PROVE  /\ Contributors(c, level) = {seat \in Seats : c[seat] >= level}
         /\ PreviousLevel(c, level) = Max({0} \cup Below(Levels(c), level))
         /\ Height(c, level) \in Nat
         /\ Cardinality(Contributors(c, level)) \in Nat
         /\ Cardinality(Contributors(c, level)) # 0
         /\ LayerAmount(c, level) = Height(c, level) * Cardinality(Contributors(c, level))
         /\ LayerAmount(c, level) \in Nat
PROOF
<1>1. DOMAIN c = Seats /\ \A seat \in Seats : c[seat] \in Nat
  BY DEF Chips
<1>2. Contributors(c, level) = {seat \in Seats : c[seat] >= level}
  BY <1>1 DEF Contributors
<1>3. PreviousLevel(c, level) = Max({0} \cup Below(Levels(c), level))
  BY DEF PreviousLevel, Below
<1> DEFINE under == {0} \cup Below(Levels(c), level)
<1>4. level \in Nat /\ level # 0
  BY LayersAre
<1>5. under \in SUBSET Int /\ IsFiniteSet(under) /\ under # {}
  <2>1. Below(Levels(c), level) \in SUBSET Levels(c)
    BY DEF Below
  <2>2. IsFiniteSet(Below(Levels(c), level))
    BY <2>1, LayersAre, FS_Subset
  <2>3. IsFiniteSet(under)
    BY <2>2, FS_AddElement
  <2>4. \A k \in Levels(c) : k \in Nat
    BY LayersAre
  <2> QED BY <2>1, <2>3, <2>4
<1>6. \A k \in under : k \in Nat /\ k < level
  <2>1. \A k \in Levels(c) : k \in Nat
    BY LayersAre
  <2> QED BY <1>4, <2>1 DEF Below
<1> HIDE DEF under
<1>7. Max(under) \in Nat /\ Max(under) < level
  BY <1>5, <1>6, MaxIs
<1>8. Height(c, level) \in Nat
  BY <1>3, <1>4, <1>7 DEF Height, under
<1>9. Cardinality(Contributors(c, level)) \in Nat /\ Cardinality(Contributors(c, level)) # 0
  <2>1. Contributors(c, level) \in SUBSET Seats
    BY <1>2
  <2>2. Contributors(c, level) # {}
    <3>1. PICK seat \in Seats : c[seat] = level
      BY LayersAre
    <3> QED BY <1>2, <1>4, <3>1
  <2> QED BY <2>1, <2>2, SeatsFinite, FiniteParts
<1>10. LayerAmount(c, level) = Height(c, level) * Cardinality(Contributors(c, level))
  BY DEF LayerAmount, Height
<1> DEFINE h == Height(c, level)
           n == Cardinality(Contributors(c, level))
<1>11. h * n \in Nat
  <2>1. h \in Nat /\ n \in Nat
    BY <1>8, <1>9
  <2> HIDE DEF h, n
  <2> QED BY <2>1
<1> QED BY <1>2, <1>3, <1>8, <1>9, <1>10, <1>11


\* The same, for every layer.
LEMMA LayerFacts ==
  ASSUME NEW c, Chips(c)
  PROVE  \A level \in Levels(c) :
           /\ Contributors(c, level) \in SUBSET Seats
           /\ Height(c, level) \in Int /\ LayerAmount(c, level) \in Nat
           /\ LayerAmount(c, level) \in Int
           /\ Cardinality(Contributors(c, level)) \in Nat
           /\ LayerAmount(c, level) = Height(c, level) * Cardinality(Contributors(c, level))
           /\ Cardinality(Contributors(c, level)) # 0
PROOF
<1> SUFFICES ASSUME NEW level \in Levels(c)
             PROVE  /\ Contributors(c, level) \in SUBSET Seats
                    /\ Height(c, level) \in Int /\ LayerAmount(c, level) \in Nat
                    /\ LayerAmount(c, level) \in Int
                    /\ Cardinality(Contributors(c, level)) \in Nat
                    /\ LayerAmount(c, level)
                         = Height(c, level) * Cardinality(Contributors(c, level))
                    /\ Cardinality(Contributors(c, level)) # 0
  OBVIOUS
<1>1. Contributors(c, level) \in SUBSET Seats
  BY ALayer
<1>2. Height(c, level) \in Nat
  BY ALayer
<1>3. LayerAmount(c, level) \in Nat
  BY ALayer
<1>4. Cardinality(Contributors(c, level)) \in Nat
      /\ Cardinality(Contributors(c, level)) # 0
  BY ALayer
<1>5. LayerAmount(c, level) = Height(c, level) * Cardinality(Contributors(c, level))
  BY ALayer, Zenon
<1> QED BY <1>1, <1>2, <1>3, <1>4, <1>5

\* What the seats put in is what the layers hold.
LEMMA ContributionsByLayer ==
  ASSUME NEW c, Chips(c)
  PROVE  SumOn(c, Seats) = SumOn(LayerAmounts(c), Levels(c))
PROOF
<1> DEFINE L == Levels(c)
           member == [level \in L |-> Contributors(c, level)]
           v == [level \in L |-> [seat \in Seats |-> Height(c, level)]]
           given == LayerAmounts(c)
           height == [level \in L |-> Height(c, level)]
<1>1. IsFiniteSet(L) /\ (\A level \in L : level \in Nat /\ level # 0)
  BY LayersAre
<1>2. member \in [L -> SUBSET Seats] /\ v \in [L -> [Seats -> Int]]
        /\ height \in [L -> Int]
  <2>1. \A level \in L : Contributors(c, level) \in SUBSET Seats /\ Height(c, level) \in Int
    BY LayerFacts
  <2> QED BY <2>1
<1>3. c \in [Seats -> Int] /\ given \in [L -> Int]
  <2>1. \A level \in L : LayerAmount(c, level) \in Int
    BY LayerFacts
  <2> QED BY <2>1 DEF LayerAmounts, Chips
<1>4. ASSUME NEW seat \in Seats
      PROVE  c[seat] = Sum([level \in {k \in L : seat \in member[k]} |-> v[level][seat]])
  <2> DEFINE mine == {k \in L : k <= c[seat]}
  <2>1. {k \in L : seat \in member[k]} = mine
    <3>1. \A k \in L : Contributors(c, k) = {s \in Seats : c[s] >= k}
      BY ALayer
    <3> QED BY <3>1
  <2>2. [level \in mine |-> v[level][seat]] = [level \in mine |-> height[level]]
    OBVIOUS
  <2>3. c[seat] \in Nat /\ (c[seat] # 0 => c[seat] \in L)
    BY LayersAre DEF Chips
  <2>4. \A level \in L : height[level] = level - Max({0} \cup Below(L, level))
    BY ALayer DEF Height
  <2>5. mine \in SUBSET L /\ \A level \in mine : Below(L, level) \subseteq mine
    BY <1>1, <2>3 DEF Below
  <2>6. SumOn(height, mine) = Max({0} \cup mine)
    <3> HIDE DEF L, height, mine
    <3> QED BY <1>1, <1>2, <2>4, <2>5, LayersReach
  <2>7. Max({0} \cup mine) = c[seat]
    <3>1. {0} \cup mine \in SUBSET Int /\ IsFiniteSet({0} \cup mine) /\ {0} \cup mine # {}
      <4>1. IsFiniteSet(mine)
        BY <1>1, <2>5, FiniteParts
      <4>2. IsFiniteSet({0} \cup mine)
        <5> HIDE DEF mine
        <5> QED BY <4>1, FS_AddElement
      <4> QED BY <1>1, <4>2
    <3>2. c[seat] \in {0} \cup mine /\ \A k \in {0} \cup mine : k <= c[seat] /\ k \in Nat
      BY <1>1, <2>3
    <3> DEFINE s == {0} \cup mine
    <3> HIDE DEF s
    <3>3. Max(s) \in s /\ \A y \in s : y <= Max(s)
      BY <3>1, MaxIs DEF s
    <3>4. c[seat] \in s /\ \A k \in s : k <= c[seat] /\ k \in Nat
      BY <3>2 DEF s
    <3> DEFINE top == Max(s)
               mychips == c[seat]
    <3>5. top \in Nat /\ mychips \in Nat /\ top <= mychips /\ mychips <= top
      BY <2>3, <3>3, <3>4
    <3> HIDE DEF top, mychips
    <3>6. top = mychips
      BY <3>5
    <3> QED BY <3>6 DEF s, top, mychips
  <2>8. c[seat] = SumOn(height, mine)
    BY <2>6, <2>7
  <2> HIDE DEF mine, height, v, member
  <2> QED BY <2>1, <2>2, <2>8 DEF SumOn
<1>5. ASSUME NEW level \in L
      PROVE  given[level] = SumOn(v[level], member[level])
  <2> DEFINE line == v[level]
             s == member[level]
             h == Height(c, level)
  <2>1. line \in [Seats -> Int] /\ s \in SUBSET Seats /\ \A x \in s : line[x] = h
    BY <1>2
  <2>2. h \in Int /\ given[level] = h * Cardinality(s)
    BY LayerFacts DEF LayerAmounts
  <2> HIDE DEF line, s, h
  <2>3. SumOn(line, s) = h * Cardinality(s)
    BY <2>1, <2>2, SeatsFinite, SumConstant
  <2> QED BY <2>2, <2>3 DEF line, s
<1>6. Shared(c, given, member, v, Seats, L)
  <2> HIDE DEF given, member, v, L, height
  <2> QED BY <1>2, <1>3, <1>4, <1>5 DEF Shared
<1> HIDE DEF given, member, v, L
<1>7. SumOn(c, Seats) = SumOn(given, L)
  BY <1>1, <1>6, SeatsFinite, SharesAddUp
<1> QED BY <1>7 DEF given, L

\* What is refunded is what the uncontested layers hold.
LEMMA RefundsByLayer ==
  ASSUME NEW c, Chips(c)
  PROVE  SumOn(Refunds(c), Seats) = SumOn(LayerAmounts(c), Levels(c) \ Pots(c))
PROOF
<1> DEFINE E == Levels(c) \ Pots(c)
           member == [level \in E |-> Contributors(c, level)]
           v == [level \in E |-> [seat \in Seats |-> LayerAmount(c, level)]]
           given == [level \in E |-> LayerAmount(c, level)]
<1>1. IsFiniteSet(E) /\ \A level \in E : level \in Levels(c)
  <2>1. E \in SUBSET Levels(c) /\ IsFiniteSet(Levels(c))
    BY LayersAre
  <2> QED BY <2>1, FiniteParts
<1>2. member \in [E -> SUBSET Seats] /\ v \in [E -> [Seats -> Int]] /\ given \in [E -> Int]
  <2>1. \A level \in E : Contributors(c, level) \in SUBSET Seats /\ LayerAmount(c, level) \in Int
    BY <1>1, LayerFacts
  <2> QED BY <2>1
<1>3. ASSUME NEW seat \in Seats
      PROVE  Refunds(c)[seat] = Sum([level \in {k \in E : seat \in member[k]} |-> v[level][seat]])
  <2> DEFINE mine == {lone \in E : c[seat] >= lone}
  <2>1. {k \in E : seat \in member[k]} = mine
    <3>1. \A k \in E : Contributors(c, k) = {s \in Seats : c[s] >= k}
      BY <1>1, ALayer
    <3> QED BY <3>1
  <2>2. [level \in mine |-> v[level][seat]] = [level \in mine |-> LayerAmount(c, level)]
    OBVIOUS
  <2>3. Refunds(c)[seat] = Sum([level \in mine |-> LayerAmount(c, level)])
    BY Zenon DEF Refunds, Chips
  <2> HIDE DEF mine, v, member, E
  <2> QED BY <2>1, <2>2, <2>3
<1>4. Refunds(c) \in [Seats -> Int]
  <2>1. ASSUME NEW seat \in Seats PROVE Refunds(c)[seat] \in Int
    <3> DEFINE mine == {k \in E : seat \in member[k]}
               row == [level \in E |-> v[level][seat]]
    <3>1. [level \in mine |-> v[level][seat]] = [level \in mine |-> row[level]]
      OBVIOUS
    <3>2. Refunds(c)[seat] = SumOn(row, mine)
      BY <1>3, <3>1 DEF SumOn
    <3>3. row \in [E -> Int] /\ mine \in SUBSET E
      BY <1>2
    <3> HIDE DEF row, mine, E
    <3>4. SumOn(row, mine) \in Int
      BY <1>1, <3>3, SumFacts
    <3> QED BY <3>2, <3>4
  <2>2. Refunds(c) = [seat \in Seats |-> Refunds(c)[seat]]
    BY DEF Refunds, Chips
  <2> QED BY <2>1, <2>2
<1>5. ASSUME NEW level \in E
      PROVE  given[level] = SumOn(v[level], member[level])
  <2> DEFINE line == v[level]
             s == member[level]
             a == LayerAmount(c, level)
  <2>1. line \in [Seats -> Int] /\ s \in SUBSET Seats /\ \A x \in s : line[x] = a
    BY <1>2
  <2>2. a \in Int /\ given[level] = a
    BY <1>1, LayerFacts
  <2>3. Cardinality(s) = 1
    <3>1. ~(Cardinality(Contributors(c, level)) > 1)
      BY DEF Pots
    <3> QED BY <1>1, <3>1, LayerFacts
  <2> HIDE DEF line, s, a
  <2>4. SumOn(line, s) = a * Cardinality(s)
    BY <2>1, <2>2, SeatsFinite, SumConstant
  <2>5. SumOn(line, s) = a
    BY <2>2, <2>3, <2>4
  <2> QED BY <2>2, <2>5 DEF line, s
<1>6. Shared(Refunds(c), given, member, v, Seats, E)
  <2> HIDE DEF given, member, v, E
  <2> QED BY <1>2, <1>3, <1>4, <1>5 DEF Shared
<1>7. \A level \in E : given[level] = LayerAmounts(c)[level]
  BY DEF LayerAmounts
<1> HIDE DEF given, member, v, E
<1>8. SumOn(Refunds(c), Seats) = SumOn(given, E)
  BY <1>1, <1>6, SeatsFinite, SharesAddUp
<1>9. SumOn(given, E) = SumOn(LayerAmounts(c), E)
  BY <1>7, SumSame
<1> QED BY <1>8, <1>9 DEF E

RakeOf(c, flop) == rake_for_contested_pot(Contested(c, Pots(c)), flop)
PotsLeft(c, rake) == [level \in Pots(c) |-> PotAfterRake(c, level, rake)]
IsHand(c, out, strengths) ==
  /\ Chips(c) /\ out \in [Seats -> BOOLEAN] /\ strengths \in [Seats -> Int]
  /\ Unclaimed(c, out) = {}

\* The pots are layers.
LEMMA PotsAre ==
  ASSUME NEW c, Chips(c)
  PROVE  /\ IsFiniteSet(Pots(c)) /\ Pots(c) \in SUBSET Levels(c)
         /\ \A level \in Pots(c) : level \in Nat
PROOF
<1>1. Pots(c) \in SUBSET Levels(c)
  BY DEF Pots
<1>2. IsFiniteSet(Levels(c)) /\ \A level \in Levels(c) : level \in Nat
  BY LayersAre
<1>3. IsFiniteSet(Pots(c))
  BY <1>1, <1>2, FiniteParts
<1> QED BY <1>1, <1>2, <1>3

\* A sum of natural numbers is one.
LEMMA SumNatural ==
  ASSUME NEW D, IsFiniteSet(D), NEW g \in [D -> Int], NEW s \in SUBSET D,
         \A x \in s : g[x] \in Nat
  PROVE  SumOn(g, s) \in Nat
PROOF
<1> DEFINE Natural == {t \in SUBSET s : SumOn(g, t) \in Nat}
<1>0. IsFiniteSet(s)
  BY FiniteParts
<1>1. {} \in Natural
  BY SumFacts
<1>2. ASSUME NEW t \in SUBSET s, t # {}, \A x \in t : t \ {x} \in Natural
      PROVE  t \in Natural
  <2>1. PICK x \in t : TRUE
    BY <1>2
  <2>2. t \in SUBSET D
    OBVIOUS
  <2>3. SumOn(g, t) = g[x] + SumOn(g, t \ {x})
    BY <2>2, SumFacts
  <2>4. g[x] \in Nat /\ SumOn(g, t \ {x}) \in Nat
    BY <1>2
  <2> QED BY <2>3, <2>4
<1> HIDE DEF Natural
<1>3. \A t \in SUBSET s : t \in Natural
  BY <1>0, <1>1, <1>2, ByFiniteParts
<1> QED BY <1>3 DEF Natural

\* The contested chips are those of the layers.
LEMMA ContestedIs ==
  ASSUME NEW c, Chips(c), NEW levels \in SUBSET Levels(c)
  PROVE  /\ Contested(c, levels) = SumOn(LayerAmounts(c), levels)
         /\ Contested(c, levels) \in Nat
PROOF
<1> DEFINE g == LayerAmounts(c)
           L == Levels(c)
<1>1. \A level \in L : LayerAmount(c, level) \in Nat
  BY LayerFacts
<1>2. \A level \in L : g[level] = LayerAmount(c, level)
  BY DEF LayerAmounts
<1>3. [level \in levels |-> LayerAmount(c, level)] = [level \in levels |-> g[level]]
  BY <1>2
<1>4. Contested(c, levels) = SumOn(g, levels)
  BY <1>3 DEF Contested, SumOn
<1>5. g \in [L -> Int]
  BY <1>1 DEF LayerAmounts
<1>6. IsFiniteSet(L)
  BY LayersAre
<1>7. \A level \in L : g[level] \in Nat
  BY <1>1, <1>2
<1> HIDE DEF g, L
<1>8. levels \in SUBSET L
  BY DEF L
<1>9. SumOn(g, levels) \in Nat
  BY <1>5, <1>6, <1>7, <1>8, SumNatural
<1> QED BY <1>4, <1>9 DEF g

\* What the rake leaves of a pot.
LEMMA APotLeft ==
  ASSUME NEW c, Chips(c), NEW rake \in Nat, NEW level \in Pots(c)
  PROVE  /\ PotAfterRake(c, level, rake)
              = AfterRake(LayerAmount(c, level),
                          SumOn(LayerAmounts(c), Below(Pots(c), level)), rake)
         /\ PotAfterRake(c, level, rake) \in Nat
PROOF
<1> DEFINE earlier == Below(Pots(c), level)
           amount == LayerAmount(c, level)
           taken == Contested(c, earlier)
<1>1. earlier \in SUBSET Levels(c)
  BY PotsAre DEF Below
<1>2. taken \in Nat /\ taken = SumOn(LayerAmounts(c), earlier)
  <2> HIDE DEF earlier
  <2> QED BY <1>1, ContestedIs
<1>3. amount \in Nat
  <2>1. level \in Levels(c)
    BY PotsAre
  <2> QED BY <2>1, LayerFacts
<1>4. PotAfterRake(c, level, rake) = AfterRake(amount, taken, rake)
  BY DEF PotAfterRake, AfterRake, Below
<1> HIDE DEF amount, taken, earlier
<1>5. AfterRake(amount, taken, rake) \in 0 .. amount
  BY <1>2, <1>3, RakeRunsDown
<1>6. AfterRake(amount, taken, rake) \in Nat
  BY <1>3, <1>5
<1>7. PotAfterRake(c, level, rake) = AfterRake(amount, SumOn(LayerAmounts(c), earlier), rake)
  BY <1>2, <1>4
<1> QED BY <1>4, <1>6, <1>7 DEF amount, earlier

\* The pots hold what they held, less the rake.
LEMMA PotsByRake ==
  ASSUME NEW c, Chips(c), NEW flop
  PROVE  /\ RakeOf(c, flop) \in Nat
         /\ SumOn(PotsLeft(c, RakeOf(c, flop)), Pots(c))
              = SumOn(LayerAmounts(c), Pots(c)) - RakeOf(c, flop)
PROOF
<1> DEFINE L == Pots(c)
           rake == RakeOf(c, flop)
           g == LayerAmounts(c)
           amount == [level \in L |-> LayerAmount(c, level)]
           left == PotsLeft(c, rake)
           total == SumOn(g, L)
<1>1. IsFiniteSet(L) /\ L \in SUBSET Levels(c) /\ \A level \in L : level \in Nat
  BY PotsAre
<1>2. total \in Nat /\ Contested(c, L) = total
  BY <1>1, ContestedIs
<1>3. rake \in Nat /\ rake <= total
  <2> HIDE DEF total
  <2>1. rake_for_contested_pot(total, flop) \in Nat
        /\ rake_for_contested_pot(total, flop) <= total
    BY <1>2, RakeBounded
  <2> QED BY <1>2, <2>1 DEF RakeOf
<1>4. \A level \in L : LayerAmount(c, level) \in Nat
  BY <1>1, LayerFacts
<1>5. amount \in [L -> Int] /\ \A level \in L : amount[level] \in Nat
  BY <1>4
<1>6. \A level \in L : amount[level] = g[level]
  BY <1>1 DEF LayerAmounts
<1>7. \A t \in SUBSET L : SumOn(amount, t) = SumOn(g, t)
  <2> SUFFICES ASSUME NEW t \in SUBSET L PROVE SumOn(amount, t) = SumOn(g, t)
    OBVIOUS
  <2>1. \A level \in t : amount[level] = g[level]
    BY <1>6
  <2> HIDE DEF amount, g, L
  <2> QED BY <2>1, SumSame
<1>8. ASSUME NEW level \in L
      PROVE  /\ left[level] \in Int
             /\ left[level] = AfterRake(amount[level], SumOn(amount, Below(L, level)), rake)
  <2>1. left[level] = PotAfterRake(c, level, rake)
    BY DEF PotsLeft
  <2>2. Below(L, level) \in SUBSET L
    BY DEF Below
  <2>3. SumOn(amount, Below(L, level)) = SumOn(g, Below(L, level))
    BY <1>7, <2>2
  <2>4. amount[level] = LayerAmount(c, level)
    OBVIOUS
  <2> HIDE DEF rake, amount, left
  <2>5. PotAfterRake(c, level, rake) = AfterRake(LayerAmount(c, level), SumOn(g, Below(L, level)), rake)
    BY <1>3, APotLeft
  <2>6. PotAfterRake(c, level, rake) \in Nat
    BY <1>3, APotLeft
  <2> QED BY <2>1, <2>3, <2>4, <2>5, <2>6
<1>9. left = [level \in L |-> left[level]]
  BY DEF PotsLeft
<1>10. left \in [L -> Int]
  <2> HIDE DEF left, L
  <2> QED BY <1>8, <1>9
<1>11. SumOn(amount, L) = total
  BY <1>7
<1> HIDE DEF amount, left, rake, total, L
<1>12. SumOn(amount, L) \in Nat /\ rake <= SumOn(amount, L)
  BY <1>2, <1>3, <1>11
<1>13. SumOn(left, L) = SumOn(amount, L) - rake
  BY <1>1, <1>3, <1>5, <1>8, <1>10, <1>12, PotsAfterRake
<1> QED BY <1>3, <1>11, <1>13 DEF left, rake, total, L

\* A pot that is claimed is won.
LEMMA WinnersAre ==
  ASSUME NEW c, NEW out, NEW strengths, IsHand(c, out, strengths),
         NEW level \in Pots(c)
  PROVE  /\ Winners(c, out, strengths, level) \in SUBSET Seats
         /\ Winners(c, out, strengths, level) # {}
PROOF
<1> DEFINE eligible == Eligible(c, out, level)
           values == {strengths[s] : s \in eligible}
<1>1. eligible # {}
  BY DEF IsHand, Unclaimed
<1>2. eligible \in SUBSET Seats
  BY DEF Eligible, Contributors, IsHand, Chips
<1>3. IsFiniteSet(eligible)
  BY <1>2, SeatsFinite, FiniteParts
<1>4. IsFiniteSet(values)
  <2> HIDE DEF eligible
  <2> QED BY <1>3, ImageFinite
<1>5. values \in SUBSET Int /\ values # {}
  <2> HIDE DEF eligible
  <2> QED BY <1>1, <1>2 DEF IsHand
<1>6. PICK top \in values : \A y \in values : y <= top
  <2> HIDE DEF values
  <2> QED BY <1>4, <1>5, MaxIs
<1> HIDE DEF eligible
<1>7. PICK s \in eligible : strengths[s] = top
  BY <1>6
<1>8. \A other \in eligible : strengths[other] <= strengths[s]
  BY <1>6, <1>7
<1>9. Winners(c, out, strengths, level)
        = {seat \in eligible : \A other \in eligible : strengths[other] <= strengths[seat]}
  BY DEF Winners, eligible
<1> QED BY <1>2, <1>7, <1>8, <1>9

\* An award is a number of chips.
LEMMA AwardType ==
  ASSUME NEW W \in SUBSET Seats, W # {}, NEW amount \in Nat, NEW odd, NEW d, NEW n
  PROVE  Award(d, W, amount, odd, n) \in Int
PROOF
<1> DEFINE size == Cardinality(W)
<1>1. size \in Nat \ {0}
  BY SeatsFinite, FiniteParts
<1> HIDE DEF size
<1>2. amount \div size \in Int
  BY <1>1
<1>3. \A e : (IF e THEN 1 ELSE 0) \in Int
  OBVIOUS
<1> QED BY <1>2, <1>3 DEF Award, size

Payouts(c, out, strengths, odd, flop) ==
  Settle(c, out, strengths, odd, flop).payouts

\* What the seats win is what the pots hold after the rake.
LEMMA PayoutsByPot ==
  ASSUME NEW c, NEW out, NEW strengths, IsHand(c, out, strengths),
         NEW odd \in Seats, NEW flop
  PROVE  /\ Payouts(c, out, strengths, odd, flop) \in [Seats -> Int]
         /\ SumOn(Payouts(c, out, strengths, odd, flop), Seats)
              = SumOn(PotsLeft(c, RakeOf(c, flop)), Pots(c))
PROOF
<1> DEFINE P == Pots(c)
           rake == RakeOf(c, flop)
           given == PotsLeft(c, rake)
           winners == [level \in P |-> Winners(c, out, strengths, level)]
           v == [level \in P |-> [seat \in Seats |->
                   Award(seat, winners[level], PotAfterRake(c, level, rake), odd, SeatCount)]]
           received == Payouts(c, out, strengths, odd, flop)
<1>0. Chips(c) /\ DOMAIN c = Seats
  BY DEF IsHand, Chips
<1>1. IsFiniteSet(P)
  BY <1>0, PotsAre
<1>2. \A level \in P : winners[level] \in SUBSET Seats /\ winners[level] # {}
  BY WinnersAre
<1>3. rake \in Nat
  BY <1>0, PotsByRake
<1>4. \A level \in P : PotAfterRake(c, level, rake) \in Nat
  <2> HIDE DEF rake
  <2> QED BY <1>0, <1>3, APotLeft
<1>5. winners \in [P -> SUBSET Seats]
  BY <1>2
<1>6. v \in [P -> [Seats -> Int]]
  <2>1. \A level \in P, seat \in Seats :
          Award(seat, winners[level], PotAfterRake(c, level, rake), odd, SeatCount) \in Int
    <3> HIDE DEF winners, rake, P
    <3> QED BY <1>2, <1>4, AwardType
  <2> HIDE DEF winners, rake, P
  <2> QED BY <2>1
<1>7. given \in [P -> Int]
  <2> HIDE DEF rake
  <2> QED BY <1>4 DEF PotsLeft
<1>8. ASSUME NEW seat \in Seats
      PROVE  received[seat] = Sum([level \in {k \in P : seat \in winners[k]} |-> v[level][seat]])
  <2> DEFINE mine == {k \in P : seat \in winners[k]}
             a(level) == Award(seat, winners[level], PotAfterRake(c, level, rake), odd, SeatCount)
  <2>1. received[seat] = Sum([level \in mine |-> a(level)])
    BY <1>0, SeatsFinite, Zenon DEF Payouts, Settle, RakeOf
  <2>2. \A level \in mine : v[level][seat] = a(level)
    <3> HIDE DEF a
    <3> QED BY DEF a
  <2> HIDE DEF a, v, mine
  <2>3. [level \in mine |-> a(level)] = [level \in mine |-> v[level][seat]]
    BY <2>2
  <2> QED BY <2>1, <2>3 DEF mine
<1>9. received = [seat \in Seats |-> received[seat]]
  BY <1>0 DEF Payouts, Settle
<1>10. \A seat \in Seats : received[seat] \in Int
  <2> SUFFICES ASSUME NEW seat \in Seats PROVE received[seat] \in Int
    OBVIOUS
  <2> DEFINE mine == {k \in P : seat \in winners[k]}
             row == [level \in P |-> v[level][seat]]
  <2> HIDE DEF v, received, winners, P
  <2>1. [level \in mine |-> v[level][seat]] = [level \in mine |-> row[level]]
    OBVIOUS
  <2>2. received[seat] = SumOn(row, mine)
    BY <1>8, <2>1 DEF SumOn
  <2>3. row \in [P -> Int] /\ mine \in SUBSET P
    BY <1>6
  <2> HIDE DEF row, mine
  <2>4. SumOn(row, mine) \in Int
    BY <1>1, <2>3, SumFacts
  <2> QED BY <2>2, <2>4
<1>11. received \in [Seats -> Int]
  <2> HIDE DEF received
  <2> QED BY <1>9, <1>10
<1>12. ASSUME NEW level \in P
       PROVE  given[level] = SumOn(v[level], winners[level])
  <2> DEFINE line == v[level]
             W == winners[level]
             amount == PotAfterRake(c, level, rake)
  <2>1. W \in SUBSET Seats /\ W # {} /\ amount \in Nat /\ line \in [Seats -> Int]
    <3> HIDE DEF v, winners, rake, P
    <3> QED BY <1>2, <1>4, <1>6
  <2>2. \A d \in W : line[d] = Award(d, W, amount, odd, SeatCount)
    <3>1. \A d \in Seats : line[d] = Award(d, W, amount, odd, SeatCount)
      <4> HIDE DEF winners, rake, P
      <4> QED OBVIOUS
    <3> HIDE DEF line, W, amount
    <3> QED BY <2>1, <3>1
  <2>3. given[level] = amount
    BY DEF PotsLeft
  <2> HIDE DEF line, W, amount
  <2>4. SumOn(line, W) = amount
    BY <2>1, <2>2, AwardsAddUp
  <2> QED BY <2>3, <2>4 DEF line, W
<1> HIDE DEF received, given, winners, v, P
<1>13. Shared(received, given, winners, v, Seats, P)
  BY <1>5, <1>6, <1>7, <1>8, <1>11, <1>12 DEF Shared
<1>14. SumOn(received, Seats) = SumOn(given, P)
  BY <1>1, <1>13, SeatsFinite, SharesAddUp
<1> QED BY <1>11, <1>14 DEF received, given, P

\* A settlement creates and destroys no chip.
LEMMA SettleAddsUp ==
  ASSUME NEW c, NEW out, NEW strengths, IsHand(c, out, strengths),
         NEW odd \in Seats, NEW flop
  PROVE  LET result == Settle(c, out, strengths, odd, flop)
         IN Sum(result.payouts) + Sum(result.refunds) + result.rake_taken = Sum(c)
PROOF
<1> DEFINE won == Payouts(c, out, strengths, odd, flop)
           back == Refunds(c)
           rake == RakeOf(c, flop)
           L == Levels(c)
           P == Pots(c)
           held == LayerAmounts(c)
<1>0. Chips(c) /\ c \in [Seats -> Int]
  BY DEF IsHand, Chips
<1>1. won \in [Seats -> Int] /\ SumOn(won, Seats) = SumOn(PotsLeft(c, rake), P)
  BY PayoutsByPot
<1>2. rake \in Nat /\ SumOn(PotsLeft(c, rake), P) = SumOn(held, P) - rake
  BY <1>0, PotsByRake
<1>3. SumOn(back, Seats) = SumOn(held, L \ P)
  BY <1>0, RefundsByLayer
<1>4. SumOn(c, Seats) = SumOn(held, L)
  BY <1>0, ContributionsByLayer
<1>5. held \in [L -> Int] /\ IsFiniteSet(L) /\ P \in SUBSET L
  <2>1. \A level \in L : LayerAmount(c, level) \in Int
    BY <1>0, LayerFacts
  <2> QED BY <1>0, <2>1, LayersAre, PotsAre DEF LayerAmounts
<1>6. Sum(back) = SumOn(back, Seats)
  <2>1. DOMAIN back = Seats /\ back = [seat \in Seats |-> back[seat]]
    BY <1>0 DEF Refunds, Chips
  <2> QED BY <2>1 DEF SumOn
<1>7. LET result == Settle(c, out, strengths, odd, flop)
      IN result.payouts = won /\ result.refunds = back /\ result.rake_taken = rake
  BY DEF Payouts, Settle, RakeOf
<1> HIDE DEF won, back, rake, L, P, held
<1>8. SumOn(held, L) = SumOn(held, P) + SumOn(held, L \ P)
  BY <1>5, SumSplits
<1>9. SumOn(held, P) \in Int /\ SumOn(held, L \ P) \in Int
  <2>1. L \ P \in SUBSET L
    OBVIOUS
  <2> QED BY <1>5, <2>1, SumFacts
<1>10. Sum(won) = SumOn(won, Seats) /\ Sum(c) = SumOn(c, Seats)
  BY <1>0, <1>1, SumWhole
<1>11. Sum(won) + Sum(back) + rake = Sum(c)
  BY <1>1, <1>2, <1>3, <1>4, <1>6, <1>8, <1>9, <1>10
<1> QED BY <1>7, <1>11

(***************************************************************************)
(* The theorems.                                                           *)
(***************************************************************************)

\* The invariant holds throughout every hand.
THEOREM Invariance == Spec => []IndInv
PROOF BY InitInv, NextInv, PTL DEF Spec

\* No stack, contribution or wager of MultiwayFixedState is ever negative or
\* otherwise outside its type, for every table and every stack vector.
THEOREM TypeCorrect == Spec => []TypeOK
PROOF
<1>1. IndInv => TypeOK
  BY DEF IndInv
<1> QED BY <1>1, Invariance, PTL

\* No chip appears or disappears while a hand is played: pay moves chips from
\* a stack to a contribution and nothing else touches either.
THEOREM ChipsKept == Spec => []ChipsConserved
PROOF
<1>1. IndInv => ChipsConserved
  BY DEF IndInv
<1> QED BY <1>1, Invariance, PTL

\* Every state that apply and begin_next_street build passes the seat checks
\* of MultiwayBettingSnapshot::validate: turns and raise rights are right for
\* any number of seats and any stacks, after any mix of full and short raises.
THEOREM SeatsAlwaysValid == Spec => []SeatsValid
PROOF
<1>1. IndInv => SeatsValid
  BY DEF IndInv
<1> QED BY <1>1, Invariance, PTL

\* Closed rounds stay answered, and earlier streets matched, for ever.
THEOREM RoundInvariance == Spec => []RoundInv
PROOF BY InitRound, Invariance, NextRound, PTL DEF Spec

\* No seat with chips sees the next card, or the showdown, for less than
\* another seat paid: what refresh_round_completion calls a closed round is
\* one, whatever the stacks and however the seats ran out of chips.
THEOREM ClosedRoundsMatched == Spec => []ClosedRoundIsMatched
PROOF BY AnsweredIsMatched, Invariance, RoundInvariance, PTL

\* With the equal stacks of the rules profile MultiwayState::apply accepts
\* every state that a legal action leads to, for any number of seats.
THEOREM RulesSnapshotsValid == Spec => []SnapshotValidFromRules
PROOF
<1>1. IndInv /\ RoundInv => SnapshotValidFromRules
  BY EqualStacksClose DEF SnapshotValidFromRules, SnapshotValid, IndInv
<1> QED BY <1>1, Invariance, RoundInvariance, PTL

\* Some seat in the hand has always put in as much as any seat has.
THEOREM ClaimInvariance == Spec => []ClaimInv
PROOF BY InitClaim, Invariance, RoundInvariance, NextClaim, PTL DEF Spec

\* settle_multiway_terminal_fixed never throws for want of a claimant: every
\* contested layer of a hand that play can reach has a seat that has not
\* folded, for any number of seats, any stacks and any line of betting.
THEOREM PotsClaimed == Spec => []EveryPotClaimed
PROOF
<1>1. IndInv /\ ClaimInv => EveryPotClaimed
  BY TopClaims DEF EveryPotClaimed
<1> QED BY <1>1, Invariance, ClaimInvariance, PTL

\* A finished hand is settled, and no chip is created or destroyed, for any
\* number of side pots, any rake policy, any ties and any odd chips.
THEOREM SettlementConservation == Spec => []SettlementConserves
PROOF
<1>1. ASSUME IndInv, ClaimInv PROVE SettlementConserves
  <2>0. EveryPotClaimed
    BY <1>1, TopClaims DEF EveryPotClaimed
  <2> SUFFICES ASSUME NEW strengths \in Showdowns, NEW odd \in Seats
               PROVE  LET result == SettleHand(strengths, odd)
                      IN Sum(result.payouts) + Sum(result.refunds) + result.rake_taken
                           = Sum(contributions)
    BY <2>0 DEF SettlementConserves
  <2>1. strengths \in [Seats -> Int]
    BY TableAssumption DEF Showdowns
  <2>2. IsHand(contributions, folded, strengths)
    BY <1>1, <2>1, TopClaims DEF IsHand, Chips, IndInv, TypeOK
  <2> QED BY <2>2, SettleAddsUp DEF SettleHand
<1> QED BY <1>1, Invariance, ClaimInvariance, PTL

=============================================================================
