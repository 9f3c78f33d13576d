------------------------------ MODULE HunlRules ------------------------------
(* The heads-up no-limit game: the configuration, the betting state, the menu   *)
(* of legal actions and the step of a state by an action or a card.  A state is *)
(* a value; fractions and multipliers are pairs <<numerator, denominator>>.     *)
EXTENDS Integers, Sequences, SequencesExt, FiniteSetsExt

Players == 0 .. 1
Pair(first, second) == [p \in Players |-> IF p = 0 THEN first ELSE second]
Total(pair) == pair[0] + pair[1]

Preflop == 0
Flop == 1
Turn == 2
River == 3
Showdown == 4
\* expected_board_size_for_street, cards_to_deal.
BoardSize(street) == CASE street = 0 -> 0 [] street = 1 -> 3 [] street = 2 -> 4 [] OTHER -> 5
CardsToDeal(street) == IF street = Flop THEN 3 ELSE 1

ACTION_FOLD == 0
ACTION_CHECK == 1
ACTION_CALL == 2
ACTION_ALL_IN == 13
BET_ACTION_IDS == 3 .. 7
RAISE_ACTION_IDS == 8 .. 12
HISTORY_CODE_ALL_IN == 4
MaxHistoryCodes == 48
MaxRaisesPerStreet == 10

-----------------------------------------------------------------------------
(* The configuration. *)

\* HUNLConfig::validate.
Validate(c) ==
  /\ c.stack > 0 /\ c.bb > 0 /\ c.sb \in 0 .. c.bb /\ c.ante >= 0 /\ c.pot >= 0
  /\ \A p \in Players : c.contributions[p] >= 0
  /\ c.sb + c.ante <= c.stack /\ c.bb + c.ante <= c.stack
  /\ c.min_bet > 0 /\ c.force >= 0
  /\ c.preflop_cap <= MaxRaisesPerStreet /\ c.postflop_cap <= MaxRaisesPerStreet
  /\ Len(c.board) = BoardSize(c.street) /\ Cardinality(ToSet(c.board)) = Len(c.board)
  /\ c.holes[0] \cap c.holes[1] = {} /\ (c.holes[0] \cup c.holes[1]) \cap ToSet(c.board) = {}
  /\ IF c.street = Preflop
     THEN \/ c.contributions = Pair(0, 0) /\ c.pot = 0
          \/ c.contributions = Pair(c.sb + c.ante, c.bb + c.ante) /\ c.pot = c.sb + c.bb + 2 * c.ante
     ELSE Total(c.contributions) \in {0, c.pot}

-----------------------------------------------------------------------------
(* The first state. *)

EmptyState ==
  [board |-> <<>>, street |-> Preflop, contributions |-> Pair(0, 0), stacks |-> Pair(0, 0),
   street_history |-> <<>>, aggressor |-> -1, raises |-> 0, to_call |-> 0, cur_player |-> -1,
   folded |-> Pair(FALSE, FALSE), all_in |-> Pair(FALSE, FALSE), completed |-> <<>>, codes |-> <<>>,
   pending |-> 0, dealt |-> FALSE]

\* HUNLState::initial_preflop: the blinds are a raise of the big blind.
InitialPreflop(c) ==
  LET posted == Pair(Max({c.sb + c.ante, c.contributions[0]}), Max({c.bb + c.ante, c.contributions[1]}))
      stacks == [p \in Players |-> c.stack - posted[p]] IN
  [EmptyState EXCEPT !.contributions = posted, !.stacks = stacks, !.aggressor = 1, !.raises = 1,
                     !.to_call = posted[1] - posted[0], !.dealt = c.dealt,
                     !.cur_player = IF c.dealt THEN 0 ELSE -1,
                     !.all_in = [p \in Players |-> stacks[p] = 0]]
\* HUNLState::initial: a start after the flop, where contributions may differ.
InitialPostflop(c) ==
  LET behind == IF c.contributions[0] < c.contributions[1] THEN 0 ELSE 1
      to_call == c.contributions[1 - behind] - c.contributions[behind] IN
  [EmptyState EXCEPT !.board = c.board, !.street = c.street, !.contributions = c.contributions,
                     !.stacks = Pair(c.stack, c.stack), !.dealt = c.dealt, !.to_call = to_call,
                     !.aggressor = IF to_call > 0 THEN 1 - behind ELSE -1,
                     !.raises = IF to_call > 0 THEN 1 ELSE 0,
                     !.cur_player = IF c.dealt THEN behind ELSE -1]
Initial(c) == IF c.street = Preflop THEN InitialPreflop(c) ELSE InitialPostflop(c)

\* clone_with_hole_cards, of a root without private cards.
CloneWithHoleCards(s) ==
  [s EXCEPT !.dealt = TRUE,
            !.cur_player = IF s.cur_player >= 0 THEN @
                           ELSE IF s.street = Preflop \/ s.contributions[0] < s.contributions[1] THEN 0 ELSE 1]

-----------------------------------------------------------------------------
(* The menu. *)

\* python_round_positive: half to even.
PythonRound(numerator, denominator) ==
  LET floor == numerator \div denominator
      rest == 2 * (numerator % denominator) IN
  IF rest < denominator \/ (rest = denominator /\ floor % 2 = 0) THEN floor ELSE floor + 1

\* action_context: the pot, with what was in it before the start.
Pot(c, s) == Total(s.contributions) + c.pot - Total(c.contributions)
UpToFive(menu) == SubSeq(menu, 1, Min({5, Len(menu)}))
\* bet_menu: the flop, the turn and the river may each have a menu of their own, which may be empty.
BetMenu(c, s) ==
  UpToFive(IF s.street \in DOMAIN c.street_bets THEN c.street_bets[s.street] ELSE c.bets)
RaiseMenu(c) == UpToFive(c.raise_xs)
RaiseCap(c, s) == IF s.street = Preflop THEN c.preflop_cap ELSE c.postflop_cap
StackRemaining(s) == s.stacks[s.cur_player]

\* should_include_all_in with the stack-to-pot ratio.
ShouldIncludeAllIn(c, s) ==
  LET effective == Min({s.stacks[0], s.stacks[1]}) IN
  \/ c.include_all_in
  \/ /\ c.spr # <<>>
     /\ IF Pot(c, s) <= 0 THEN effective = 0 ELSE effective * c.spr[2] <= c.spr[1] * Pot(c, s)

BetAmount(c, s, fraction) ==
  Max({PythonRound(Pot(c, s) * fraction[1], fraction[2]), c.min_bet * c.bb})
\* From the mover's own contribution (mutant: the raise may not reach the minimum).
RaiseToOwn(c, s, multiplier) ==
  LET own == s.contributions[s.cur_player] IN
  Max({PythonRound(own * multiplier[1], multiplier[2]), own + Max({s.to_call, c.bb})})
RaiseTo(c, s, multiplier) ==
  LET aggressor == s.contributions[Max({s.aggressor, 0})] IN
  Max({PythonRound(aggressor * multiplier[1], multiplier[2]), aggressor + Max({s.to_call, c.bb})})

\* Equal amounts are listed twice (mutant: no list of seen amounts).
FirstOfEachRepeats(amounts, fitting) ==
  SelectSeq([i \in 1 .. Len(amounts) |-> i], LAMBDA i : amounts[i] \in fitting)
\* The entries of a menu whose amount fits, the first of equal ones.
FirstOfEach(amounts, fitting) ==
  SelectSeq([i \in 1 .. Len(amounts) |-> i],
            LAMBDA i : amounts[i] \in fitting /\ \A j \in 1 .. i - 1 : amounts[j] # amounts[i])

EnumerateBets(c, s) ==
  LET stack == StackRemaining(s)
      amounts == [i \in 1 .. Len(BetMenu(c, s)) |-> BetAmount(c, s, BetMenu(c, s)[i])]
      menu == FirstOfEach(amounts, {a \in ToSet(amounts) : a < stack /\ stack - a > c.force * c.bb}) IN
  [i \in 1 .. Len(menu) |-> 2 + menu[i]]
EnumerateRaises(c, s) ==
  LET own == s.contributions[s.cur_player]
      stack == StackRemaining(s)
      targets == [i \in 1 .. Len(RaiseMenu(c)) |-> RaiseTo(c, s, RaiseMenu(c)[i])]
      menu == FirstOfEach(targets, {t \in ToSet(targets) :
                t < own + stack /\ stack - (t - own) > c.force * c.bb}) IN
  [i \in 1 .. Len(menu) |-> 7 + menu[i]]

IsTerminal(s) == s.folded[0] \/ s.folded[1] \/ s.street = Showdown

\* legal_actions, enumerate_legal_actions.
LegalActions(c, s) ==
  LET facing == s.to_call > 0
      open == /\ s.raises < RaiseCap(c, s)
              /\ \/ c.lead \/ facing \/ s.street # Flop \/ s.cur_player # 1
                 \/ s.codes # <<>> \/ s.aggressor >= 0 IN
  IF IsTerminal(s) \/ s.cur_player = -1 \/ StackRemaining(s) <= 0 THEN <<>>
  ELSE (IF facing THEN <<ACTION_FOLD, ACTION_CALL>> ELSE <<ACTION_CHECK>>)
       \o (IF ~open THEN <<>> ELSE IF facing THEN EnumerateRaises(c, s) ELSE EnumerateBets(c, s))
       \o (IF open /\ ShouldIncludeAllIn(c, s) /\ StackRemaining(s) > s.to_call
           THEN <<ACTION_ALL_IN>> ELSE <<>>)

-----------------------------------------------------------------------------
(* The step of a state. *)

\* A call of the small blind ends the round (mutant: no option of the big blind).
StreetCompleteLimp(before, action, after) ==
  /\ action # ACTION_FOLD /\ after.to_call <= 0
  /\ \/ action \in {ACTION_ALL_IN, ACTION_CALL} /\ before.to_call > 0
     \/ action = ACTION_CHECK /\ before.aggressor = -1 /\ Len(after.street_history) >= 2
     \/ action = ACTION_CHECK /\ before.street = Preflop /\ before.cur_player = 1 /\ before.raises = 1
\* street_complete.
StreetComplete(before, action, after) ==
  LET limp == /\ before.street = Preflop /\ before.aggressor = 1 - before.cur_player
              /\ before.raises = 1 /\ before.cur_player = 0 IN
  /\ action # ACTION_FOLD /\ after.to_call <= 0
  /\ \/ action = ACTION_ALL_IN /\ before.to_call > 0
     \/ action = ACTION_CHECK /\ before.aggressor = -1 /\ Len(after.street_history) >= 2
     \/ /\ action = ACTION_CHECK /\ before.street = Preflop /\ before.cur_player = 1
        /\ before.aggressor = 1 /\ before.raises = 1
     \/ action = ACTION_CALL /\ ~limp

\* begin_street_transition: with a seat all in the board is dealt card by card.
BeginStreetTransition(s) ==
  LET closed == [s EXCEPT !.completed = Append(@, s.codes), !.codes = <<>>, !.cur_player = -1]
      reset == [closed EXCEPT !.street_history = <<>>, !.aggressor = -1, !.raises = 0, !.to_call = 0] IN
  IF s.street = River THEN [closed EXCEPT !.street = Showdown]
  ELSE IF s.all_in[0] \/ s.all_in[1] THEN [reset EXCEPT !.pending = 1]
  ELSE [reset EXCEPT !.street = @ + 1, !.pending = CardsToDeal(s.street + 1)]

\* Chips of the mover up to an amount; a bet or raise leaves the difference to call.
Pays(s, pay) ==
  LET p == s.cur_player IN
  [s EXCEPT !.contributions[p] = @ + pay, !.stacks[p] = @ - pay,
            !.all_in[p] = @ \/ s.stacks[p] = pay]
Wagers(s, pay) ==
  LET p == s.cur_player
      paid == Pays(s, pay) IN
  [paid EXCEPT !.to_call = Max({paid.contributions[p] - paid.contributions[1 - p], 0}),
               !.aggressor = p, !.raises = @ + 1]

\* What the action puts into the pot, with its history code.
Act(c, s, action) ==
  LET p == s.cur_player
      stack == s.stacks[p]
      bet == Min({BetAmount(c, s, BetMenu(c, s)[action - 2]), stack})
      target == Min({RaiseTo(c, s, RaiseMenu(c)[action - 7]), s.contributions[p] + stack})
      moved ==
        CASE action = ACTION_FOLD -> [s EXCEPT !.folded[p] = TRUE]
          [] action = ACTION_CHECK -> s
          [] action = ACTION_CALL -> [Pays(s, Min({s.to_call, stack})) EXCEPT !.to_call = 0]
          [] action = ACTION_ALL_IN -> Wagers(s, stack)
          [] action \in BET_ACTION_IDS -> Wagers(s, bet)
          [] action \in RAISE_ACTION_IDS -> Wagers(s, target - s.contributions[p])
      code ==
        CASE action = ACTION_FOLD -> 1
          [] action = ACTION_CHECK -> 2
          [] action = ACTION_CALL -> 3
          [] action = ACTION_ALL_IN -> HISTORY_CODE_ALL_IN
          [] action \in BET_ACTION_IDS -> -bet
          [] action \in RAISE_ACTION_IDS -> target + HISTORY_CODE_ALL_IN IN
  [moved EXCEPT !.street_history = Append(@, action), !.codes = Append(@, code)]

\* What an opponent without chips cannot match goes back to the mover.
Refunded(s, p) ==
  LET refund == Max({s.contributions[p] - s.contributions[1 - p], 0}) IN
  [s EXCEPT !.contributions[p] = @ - refund, !.stacks[p] = @ + refund,
            !.all_in[p] = IF refund > 0 THEN FALSE ELSE @, !.to_call = 0]

AfterAct(s, action, moved) ==
  LET p == s.cur_player IN
  IF action = ACTION_FOLD THEN [moved EXCEPT !.cur_player = -1]
  ELSE IF StreetComplete(s, action, moved) THEN BeginStreetTransition(moved)
  ELSE IF moved.all_in[1 - p] THEN BeginStreetTransition(Refunded(moved, p))
  ELSE [moved EXCEPT !.cur_player = 1 - p]
ApplyPlayer(c, s, action) == AfterAct(s, action, Act(c, s, action))

\* chance_outcomes, apply_chance, after_board_dealt.
ChanceOutcomes(c, s) ==
  IF s.cur_player # -1 \/ IsTerminal(s) \/ ~s.dealt THEN {}
  ELSE c.deck \ (c.holes[0] \cup c.holes[1] \cup ToSet(s.board))
AfterBoardDealt(s) ==
  IF s.all_in[0] \/ s.all_in[1]
  THEN IF Len(s.board) >= 5 THEN [s EXCEPT !.street = Showdown, !.cur_player = -1]
       ELSE [s EXCEPT !.cur_player = -1, !.pending = 1]
  ELSE [s EXCEPT !.cur_player = 1]
ApplyChance(s, card) ==
  LET next == [s EXCEPT !.board = Append(@, card), !.pending = Max({@ - 1, 0})] IN
  IF next.pending > 0 THEN next ELSE AfterBoardDealt(next)

-----------------------------------------------------------------------------
(* Results and keys. *)

\* utility in half chips; winner 2 is a tie.
Utility(c, s, winner) ==
  LET spent == [p \in Players |-> s.contributions[p] - c.contributions[p]]
      pot == c.pot + Total(spent) IN
  [p \in Players |->
     IF winner = 2 THEN pot - 2 * spent[p]
     ELSE IF p = winner THEN 2 * (pot - spent[p]) ELSE -2 * spent[p]]
Winners(s) == IF s.folded[0] THEN {1} ELSE IF s.folded[1] THEN {0} ELSE {0, 1, 2}

\* infoset_encoding: the board sorted, the codes street by street.
InfosetKey(c, s, p) ==
  [hole |-> c.holes[p], board |-> ToSet(s.board), street |-> s.street,
   history |-> s.completed \o (IF s.codes = <<>> THEN <<>> ELSE <<s.codes>>)]
=============================================================================
