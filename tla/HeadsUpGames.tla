---------------------------- MODULE HeadsUpGames ----------------------------
(* Hands of the heads-up games: no-limit hold'em from any configuration to its    *)
(* end, and Kuhn and Leduc poker, the states of kuhn.cpp and leduc.cpp.           *)
EXTENDS HunlRules

CONSTANT Configs
VARIABLES cfg, st, kuhn, leduc

-----------------------------------------------------------------------------
(* No-limit hold'em. *)

HunlInit == cfg \in {c \in Configs : Validate(c)} /\ st = Initial(cfg)

Clone == ~st.dealt /\ st' = CloneWithHoleCards(st) /\ UNCHANGED cfg
PlayerActs ==
  /\ st.dealt
  /\ \E action \in ToSet(LegalActions(cfg, st)) : st' = ApplyPlayer(cfg, st, action)
  /\ UNCHANGED cfg
\* Cards are alike to the betting: one of them is dealt.
Chance ==
  /\ st.pending > 0 /\ ChanceOutcomes(cfg, st) # {}
  /\ st' = ApplyChance(st, Min(ChanceOutcomes(cfg, st))) /\ UNCHANGED cfg

HunlNext == Clone \/ PlayerActs \/ Chance

-----------------------------------------------------------------------------
Behind(p) == IF cfg.street = Preflop THEN cfg.stack ELSE cfg.stack + cfg.contributions[p]
EqualStacks == Behind(0) = Behind(1)
\* The small blind and the ante are the whole stack: the first player cannot act.
BlindIsStack == cfg.street = Preflop /\ cfg.sb + cfg.ante = cfg.stack
Decision(s) == s.dealt /\ ~IsTerminal(s) /\ s.cur_player # -1
NoMoveFromBlind == BlindIsStack /\ Decision(st) /\ LegalActions(cfg, st) = <<>>

\* What one history code adds to the contributions, read back.
Decode(codes, start) ==
  LET Step(contributions, i) ==
        LET code == codes[i][2]
            p == codes[i][1]
            top == Max({contributions[0], contributions[1]}) IN
        CASE code \in {1, 2} -> contributions
          [] code = 3 -> [contributions EXCEPT ![p] = Min({top, Behind(p)})]
          [] code = 4 -> [contributions EXCEPT ![p] = Behind(p)]
          [] code < 0 -> [contributions EXCEPT ![p] = @ - code]
          [] OTHER -> [contributions EXCEPT ![p] = code - 4] IN
  FoldSeq(LAMBDA i, contributions : Step(contributions, i), start,
          Reverse([i \in 1 .. Len(codes) |-> i]))
\* Who made the moves of a street: the players alternate from the first actor.
WithPlayers(codes, first) == [i \in 1 .. Len(codes) |-> <<(first + i - 1) % 2, codes[i]>>]
History ==
  LET streets == st.completed \o <<st.codes>>
      Opener(i) == IF i > 1 THEN 1
                   ELSE IF cfg.street = Preflop \/ cfg.contributions[0] < cfg.contributions[1] THEN 0 ELSE 1 IN
  FlattenSeq([i \in 1 .. Len(streets) |-> WithPlayers(streets[i], Opener(i))])

\* No two actions of a menu have one effect, and raises are full ones.
Distinct(menu, child) ==
  \A i \in DOMAIN menu :
    /\ \A j \in DOMAIN menu : i # j => <<child[i].contributions, child[i].folded>> # <<child[j].contributions, child[j].folded>>
    /\ menu[i] \in RAISE_ACTION_IDS =>
         Max({child[i].contributions[0], child[i].contributions[1]})
           >= Max({st.contributions[0], st.contributions[1]}) + Max({cfg.bb, st.to_call})
\* No chip is lost; a player to act faces exactly the difference and has an action, and
\* raises are full ones; streets end only after both have acted; an
\* uncontested pot and a showdown pay out what was put in.  Between equal stacks the
\* menu has no two actions of one effect, the money at showdown is matched, and the history
\* codes, which fit their array, determine the chips.
HunlSound ==
  /\ \A p \in Players : st.stacks[p] >= 0 /\ st.contributions[p] + st.stacks[p] = Behind(p)
  /\ Decision(st) /\ ~BlindIsStack =>
       LET menu == LegalActions(cfg, st) IN
       /\ menu # <<>> /\ Len(st.board) = BoardSize(st.street) /\ st.pending = 0
       /\ st.to_call = Max({0, st.contributions[1 - st.cur_player] - st.contributions[st.cur_player]})
       /\ EqualStacks => Distinct(menu, [i \in 1 .. Len(menu) |-> ApplyPlayer(cfg, st, menu[i])])
  /\ ~st.all_in[0] /\ ~st.all_in[1] =>
       \A i \in 1 .. Len(st.completed) : Len(st.completed[i]) >= 2 \/ cfg.contributions[0] # cfg.contributions[1]
  /\ IsTerminal(st) =>
       /\ st.street = Showdown => Len(st.board) = 5
       /\ st.street = Showdown /\ EqualStacks => st.contributions[0] = st.contributions[1]
       /\ \A winner \in Winners(st) :
            /\ Total(Utility(cfg, st, winner)) = 2 * cfg.pot
            /\ \A p \in Players : Utility(cfg, st, winner)[p] >= -2 * Behind(p)
  /\ EqualStacks => Decode(History, Initial(cfg).contributions) = st.contributions
  /\ Len(FlattenSeq(st.completed)) + Len(st.codes) <= MaxHistoryCodes /\ Len(st.completed) <= 4

-----------------------------------------------------------------------------
(* Kuhn and Leduc. *)

Seats == {0, 1}
Ranks == 11 .. 13

-----------------------------------------------------------------------------
(* Kuhn. *)

PASS == 0
BET == 1
KuhnInitial == [cards |-> <<-1, -1>>, history |-> <<>>, chance_phase |-> 0]

KuhnIsTerminal(s) ==
  s.chance_phase = 2
  /\ s.history \in {<<PASS, PASS>>, <<BET, PASS>>, <<BET, BET>>, <<PASS, BET, PASS>>, <<PASS, BET, BET>>}

\* The payoff of player 0; player 1 receives the opposite.
KuhnPayoff(s) ==
  LET showdown == IF s.cards[1] > s.cards[2] THEN 1 ELSE -1 IN
  CASE s.history = <<PASS, PASS>> -> showdown
    [] s.history = <<BET, PASS>> -> 1
    [] s.history \in {<<BET, BET>>, <<PASS, BET, BET>>} -> 2 * showdown
    [] s.history = <<PASS, BET, PASS>> -> -1
KuhnCurrentPlayer(s) == IF s.chance_phase < 2 THEN -1 ELSE Len(s.history) % 2
KuhnChanceOutcomes(s) == IF s.chance_phase >= 2 THEN {} ELSE Ranks \ ToSet(s.cards)
KuhnLegalActions(s) == IF s.chance_phase < 2 \/ KuhnIsTerminal(s) THEN {} ELSE {PASS, BET}
KuhnNextState(s, action) ==
  IF s.chance_phase < 2
  THEN [s EXCEPT !.cards[s.chance_phase + 1] = action, !.chance_phase = @ + 1]
  ELSE [s EXCEPT !.history = Append(@, action)]

KuhnStep ==
  /\ \E action \in KuhnChanceOutcomes(kuhn) \cup KuhnLegalActions(kuhn) : kuhn' = KuhnNextState(kuhn, action)
  /\ UNCHANGED leduc

-----------------------------------------------------------------------------
(* Leduc. *)

FOLD == 0
CALL == 1
RAISE == 2
MAX_RAISES == 2
LeducInitial ==
  [private_cards |-> <<>>, public_card |-> 0, history |-> <<<<>>, <<>>>>, ante |-> [p \in Seats |-> 1],
   folded |-> {}, round_num |-> 1, num_raises |-> 0, num_calls |-> 0, stakes |-> 1, cur_player |-> -1]

\* round_complete: everyone has called since the last raise.
RoundComplete(s) ==
  LET remaining == 2 - Cardinality(s.folded) IN
  s.num_calls = IF s.num_raises = 0 THEN remaining ELSE remaining - 1
LeducIsTerminal(s) == s.folded # {} \/ (s.round_num = 2 /\ RoundComplete(s))

\* utility: the loser's chips change hands.
LeducUtility(s) ==
  LET card == [p \in Seats |-> s.private_cards[p + 1]]
      Wins(p) == [q \in Seats |-> IF q = p THEN s.ante[1 - p] ELSE -s.ante[1 - p]]
      pairs == {p \in Seats : card[p] = s.public_card} IN
  IF s.folded # {} THEN Wins(IF 0 \in s.folded THEN 1 ELSE 0)
  ELSE IF Cardinality(pairs) = 1 THEN Wins(CHOOSE p \in pairs : TRUE)
  ELSE IF card[0] = card[1] THEN [p \in Seats |-> 0]
  ELSE Wins(IF card[0] > card[1] THEN 0 ELSE 1)

\* The copies of a rank left in the deck of six.
Remaining(s, rank) ==
  2 - Cardinality({i \in 1 .. Len(s.private_cards) : s.private_cards[i] = rank})
    - (IF s.public_card = rank THEN 1 ELSE 0)
LeducChanceOutcomes(s) ==
  IF s.cur_player # -1 \/ LeducIsTerminal(s) THEN {} ELSE {rank \in Ranks : Remaining(s, rank) > 0}
LeducLegalActions(s) ==
  IF LeducIsTerminal(s) \/ s.cur_player = -1 THEN {}
  ELSE {CALL} \cup {a \in {FOLD} : s.stakes > s.ante[s.cur_player]}
              \cup {a \in {RAISE} : s.num_raises < MAX_RAISES}

FirstNonFolded(folded) == IF folded = Seats THEN -1 ELSE Min(Seats \ folded)
NextPlayer(player, folded) ==
  IF 1 - player \notin folded THEN 1 - player ELSE IF player \notin folded THEN player ELSE -1

ApplyLeducChance(s, card) ==
  IF Len(s.private_cards) < 2
  THEN [s EXCEPT !.private_cards = Append(@, card), !.cur_player = IF Len(s.private_cards) = 1 THEN 0 ELSE -1]
  ELSE [s EXCEPT !.public_card = card, !.round_num = 2, !.num_raises = 0, !.num_calls = 0,
                 !.cur_player = FirstNonFolded(s.folded)]
\* A raise keeps the calls made before it (mutant).
RaisedKeepingCalls(s) ==
  LET stakes == s.stakes + (IF s.round_num = 1 THEN 2 ELSE 4) IN
  [s EXCEPT !.stakes = stakes, !.ante[s.cur_player] = stakes, !.num_raises = @ + 1]
Raised(s) ==
  LET stakes == s.stakes + (IF s.round_num = 1 THEN 2 ELSE 4) IN
  [s EXCEPT !.stakes = stakes, !.ante[s.cur_player] = stakes, !.num_raises = @ + 1, !.num_calls = 0]
ApplyLeducPlayer(s, action) ==
  LET moved == CASE action = FOLD -> [s EXCEPT !.folded = @ \cup {s.cur_player}]
                 [] action = CALL -> [s EXCEPT !.ante[s.cur_player] = s.stakes, !.num_calls = @ + 1]
                 [] action = RAISE -> Raised(s)
      next == [moved EXCEPT !.history[s.round_num] = Append(@, action)] IN
  [next EXCEPT !.cur_player =
     IF next.folded # {} \/ RoundComplete(next) THEN -1 ELSE NextPlayer(s.cur_player, next.folded)]
LeducInfosetKey(s, player) ==
  IF s.public_card = 0 THEN <<s.private_cards[player + 1], s.history[1]>>
  ELSE <<s.private_cards[player + 1], s.history[1], s.public_card, s.history[2]>>

LeducChance ==
  /\ \E card \in LeducChanceOutcomes(leduc) : leduc' = ApplyLeducChance(leduc, card)
  /\ UNCHANGED kuhn
LeducPlayer ==
  /\ \E action \in LeducLegalActions(leduc) : leduc' = ApplyLeducPlayer(leduc, action)
  /\ UNCHANGED kuhn

SmallInit == kuhn = KuhnInitial /\ leduc = LeducInitial
SmallNext == KuhnStep \/ LeducChance \/ LeducPlayer

-----------------------------------------------------------------------------
(* References, computed from the cards and the action strings alone. *)

\* The chips in play after the first n actions of a round.
Level(h, round, n) ==
  1 + 2 * Cardinality({i \in 1 .. (IF round = 1 THEN n ELSE Len(h[1])) : h[1][i] = RAISE})
    + 4 * Cardinality({i \in 1 .. (IF round = 2 THEN n ELSE 0) : h[2][i] = RAISE})
\* What a player has paid: the level of his last call or raise.
Paid(h, p) ==
  Max({1} \cup UNION {{Level(h, r, n) : n \in {i \in 1 .. Len(h[r]) : (i - 1) % 2 = p /\ h[r][i] # FOLD}}
                      : r \in {1, 2}})
Strength(s, p) == s.private_cards[p + 1] + (IF s.private_cards[p + 1] = s.public_card THEN 100 ELSE 0)
\* The menu a player expects from his infoset key.
MenuOfKey(key) ==
  LET round == IF Len(key) = 2 THEN key[2] ELSE key[4] IN
  {CALL} \cup {a \in {FOLD} : round # <<>> /\ Last(round) = RAISE}
         \cup {a \in {RAISE} : Cardinality({i \in 1 .. Len(round) : round[i] = RAISE}) < MAX_RAISES}

\* Kuhn: the bettor or the higher card takes what the other has paid.
KuhnSound ==
  KuhnIsTerminal(kuhn) =>
    LET bets == Cardinality({i \in 1 .. Len(kuhn.history) : kuhn.history[i] = BET})
        folded == bets = 1 IN
    KuhnPayoff(kuhn) = (IF bets = 2 THEN 2 ELSE 1) *
      (IF (IF folded THEN KuhnCurrentPlayer(kuhn) = 0 ELSE kuhn.cards[1] > kuhn.cards[2]) THEN 1 ELSE -1)

\* Leduc: what the state says each player has paid is what the betting strings say, both
\* have paid the same when the public card is dealt or the hands are shown, the deck is
\* never overdrawn, the menu is what the infoset key tells its owner, and the winner of
\* the hand receives what the loser has paid.
LeducSound ==
  /\ \A p \in Seats : leduc.ante[p] = Paid(leduc.history, p)
  /\ leduc.folded = {} /\ leduc.cur_player = -1 => leduc.ante[0] = leduc.ante[1]
  /\ \A rank \in Ranks : Remaining(leduc, rank) >= 0
  /\ leduc.cur_player \in Seats =>
       LeducLegalActions(leduc) = MenuOfKey(LeducInfosetKey(leduc, leduc.cur_player))
  /\ LeducIsTerminal(leduc) =>
       LET value == LeducUtility(leduc)
           loser == IF leduc.folded # {} THEN CHOOSE p \in leduc.folded : TRUE
                    ELSE IF Strength(leduc, 0) < Strength(leduc, 1) THEN 0 ELSE 1
           tied == leduc.folded = {} /\ leduc.private_cards[1] = leduc.private_cards[2] IN
       /\ value[0] + value[1] = 0
       /\ value[loser] = (IF tied THEN 0 ELSE -Paid(leduc.history, loser))
=============================================================================
