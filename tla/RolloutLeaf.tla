------------------------------ MODULE RolloutLeaf ------------------------------
(* The rollout leaf (multiway_rollout_leaf.cpp): the value of a leaf under each of   *)
(* four fixed continuation policies, averaged over a batch of seeds, with a bounded  *)
(* cache and diagnostics that calls share.  MultiwayFixedState is a tree of betting  *)
(* states (its transitions are MultiwayBetting's), the settlement MultiwayTerminal's.*)
(* The random numbers of a seed are a sequence of draws u / Grain in [0, 1).         *)
EXTENDS Fractions, FiniteSetsExt, SequencesExt, TLC

CONSTANTS Leaves,      \* Set of records: the tree, the cards and the calls of a leaf evaluator
          Grain,       \* Equally likely values of one random draw
          MaxCalls     \* Evaluations of one behaviour

VARIABLES leaf,
          cache,       \* MultiwayContinuationCache: key -> profile
          diagnostics, \* MultiwayContinuationDiagnostics
          calls        \* The calls that have returned, with the profile computed or found

rolloutVars == <<leaf, cache, diagnostics, calls>>

Policies == <<"Blueprint", "FoldBiased", "CallBiased", "RaiseBiased">>
NaN == <<>>
BoardCards == 5
Preflop == 0
Node(n) == leaf.node[n]
Seats(n) == DOMAIN Node(n).contributions
Terminal(points, cap, no_drop) ==
  INSTANCE MultiwayTerminal WITH BasisPoints <- points, RakeCap <- cap, NoFlopNoDrop <- no_drop

-----------------------------------------------------------------------------
(* MultiwayFixedContinuationPolicy *)

is_target(policy, action) ==
  CASE policy = "Blueprint" -> FALSE
    [] policy = "FoldBiased" -> action = "Fold"
    [] policy = "CallBiased" -> action \in {"Check", "Call"}
    [] policy = "RaiseBiased" -> action \in {"Bet", "Raise", "AllIn"}
Weights(policy, menu, bias) ==
  [i \in DOMAIN menu |-> IF is_target(policy, menu[i].action) THEN Times(menu[i].blueprint, bias) ELSE menu[i].blueprint]
InUnit(x) == ~Less(x, Zero) /\ ~Less(One, x)
Applies(policy, menu, bias) ==
  /\ Less(Zero, bias) /\ \A i \in DOMAIN menu : InUnit(menu[i].blueprint)
  /\ Less(Zero, SumQ(Weights(policy, menu, bias)))
\* apply: the last action takes what the others leave.
apply(policy, menu, bias) ==
  LET w == Weights(policy, menu, bias)
      total == SumQ(w)
      first == [i \in 1 .. Len(menu) - 1 |-> Over(w[i], total)]
  IN Append(first, Minus(One, SumQ(first)))
\* evaluate_leaf of the one-step evaluator, whose provider gives the value of every action.
evaluate_leaf(policy, menu, values, bias) ==
  IF ~Applies(policy, menu, bias) THEN NaN
  ELSE Over(Dot(Weights(policy, menu, bias), values), SumQ(Weights(policy, menu, bias)))

-----------------------------------------------------------------------------
(* One rollout.  w is where it stands: the betting state, the board, the draws       *)
(* used, and the counters and flags that the seeds of a policy share.                *)

\* Strength::evaluate_7 is outside this model: any function of the seven cards.
Strength(hole, board) == (7 * Max(hole) + SumSet(Range(board)) + Min(hole) * Max(Range(board))) % 11

settle_bySize(n, board, holes, input) ==             \* (mutant: the flop counts as seen once the board is dealt)
  LET r == input.rake
      result == Terminal(r.points, r.cap, r.no_drop)!Settle(Node(n).contributions, Node(n).folded,
                  [s \in Seats(n) |-> Strength(holes[s], board)], input.odd_chip_first_seat, Len(board) >= 3)
  IN [s \in Seats(n) |-> result.payouts[s] + result.refunds[s] - Node(n).contributions[s]]
settle(n, board, holes, input) ==
  LET r == input.rake
      result == Terminal(r.points, r.cap, r.no_drop)!Settle(Node(n).contributions, Node(n).folded,
                  [s \in Seats(n) |-> Strength(holes[s], board)], input.odd_chip_first_seat, Node(n).street # Preflop)
  IN [s \in Seats(n) |-> result.payouts[s] + result.refunds[s] - Node(n).contributions[s]]

mark_used(board, holes) == Range(board) \cup UNION Range(holes)
RECURSIVE Listing(_)
Listing(S) == IF S = {} THEN <<>> ELSE LET x == CHOOSE x \in S : TRUE IN <<x>> \o Listing(S \ {x})
RECURSIVE Nth(_, _)
Nth(cards, k) == IF k = 0 THEN Min(cards) ELSE Nth(cards \ {Min(cards)}, k - 1)
Draw(c, seed, at) == c.seeds[seed][at]
next_unused_card(unused, u) == Nth(unused, (u * Cardinality(unused)) \div Grain)
\* Seeded cards up to `size`; too small a deck makes the rollout invalid.
RECURSIVE DealTo(_, _, _, _, _)
DealTo(c, w, seed, holes, size) ==
  LET unused == leaf.deck \ mark_used(w.board, holes)
  IN IF Len(w.board) >= size THEN w
     ELSE IF unused = {} THEN [w EXCEPT !.ok = FALSE]
     ELSE DealTo(c, [w EXCEPT !.board = Append(@, next_unused_card(unused, Draw(c, seed, w.at))), !.at = @ + 1], seed, holes, size)
Seeded(w, from) == [w EXCEPT !.seeded = @ \/ Len(w.board) > Len(from.board)]

RunoutCount(count, missing) ==
  IF missing = 0 THEN 1 ELSE IF missing = 1 THEN count ELSE (count * (count - 1)) \div 2
RECURSIVE SumOver(_, _, _, _, _, _)
SumOver(n, board, holes, input, traverser, rest) ==
  IF rest = {} THEN 0
  ELSE LET some == CHOOSE s \in rest : TRUE
       IN settle(n, board \o Listing(some), holes, input)[traverser]
            + SumOver(n, board, holes, input, traverser, rest \ {some})
ExactRunouts_ordered(cards, missing) ==              \* (mutant: the second card starts at the first of the deck)
  {s \in SUBSET cards : s # {} /\ Cardinality(s) <= missing}
ExactRunouts(cards, missing) == {s \in SUBSET cards : Cardinality(s) = missing}
exact_all_in_value(w, holes, input, traverser, max_runouts) ==
  LET missing == BoardCards - Len(w.board)
      cards == leaf.deck \ mark_used(w.board, holes)
      runouts == RunoutCount(Cardinality(cards), missing)
  IN IF missing > 2 \/ runouts = 0 \/ runouts > max_runouts THEN NaN
     ELSE Q(SumOver(w.node, w.board, holes, input, traverser, ExactRunouts(cards, missing)), runouts)

SelectedAction(policy, u) ==
  LET below == {i \in DOMAIN policy : Less(<<u, Grain>>, SumQ(SubSeq(policy, 1, i)))}
  IN IF below = {} THEN Len(policy) ELSE Min(below)

action_is_legal(n, choice) == <<choice.action, choice.target>> \in DOMAIN Node(n).kids
valid_menu(n, menu) ==
  /\ Len(menu) \in 1 .. 8
  /\ \A i \in DOMAIN menu :
       /\ action_is_legal(n, menu[i]) /\ ~Less(menu[i].blueprint, Zero)
       /\ \A j \in 1 .. i - 1 : <<menu[j].action, menu[j].target>> # <<menu[i].action, menu[i].target>>
  /\ Less(Zero, SumQ([i \in DOMAIN menu |-> menu[i].blueprint]))

Invalid(w) == [value |-> NaN, w |-> w]
\* The board is completed from the seed and the hand settled.
SettleSeeded(c, w, input, traverser, seed, flagged) ==
  LET full == DealTo(c, w, seed, input.holes, BoardCards)
  IN IF ~full.ok THEN Invalid(full)
     ELSE [value |-> <<settle(w.node, full.board, input.holes, input)[traverser], 1>>,
           w |-> IF flagged THEN Seeded(full, w) ELSE full]
RECURSIVE one_rollout(_, _, _, _, _, _)
one_rollout(c, w, input, policy, traverser, seed) ==
  LET n == Node(w.node)
      capped == [w EXCEPT !.capped = TRUE]
      exact == exact_all_in_value(w, input.holes, input, traverser, c.max_exact_runouts)
      dealt == DealTo(c, w, seed, input.holes, Len(w.board) + (IF n.street = Preflop THEN 3 ELSE 1))
      legal == valid_menu(w.node, n.menu) /\ Applies(policy, n.menu, c.bias)
      picked == n.menu[SelectedAction(apply(policy, n.menu, c.bias), Draw(c, seed, w.at))]
  IN CASE n.kind = "FoldTerminal" -> SettleSeeded(c, w, input, traverser, seed, FALSE)
       [] n.kind = "ShowdownTerminal" -> SettleSeeded(c, w, input, traverser, seed, TRUE)
       [] n.kind = "BoardRunout" /\ exact # NaN ->
            [value |-> exact, w |-> [w EXCEPT !.exact = TRUE,
               !.runouts = @ + RunoutCount(Cardinality(leaf.deck \ mark_used(w.board, input.holes)), BoardCards - Len(w.board))]]
       [] n.kind = "BoardRunout" /\ exact = NaN -> SettleSeeded(c, capped, input, traverser, seed, TRUE)
       [] n.kind = "StreetTransition" ->
            IF ~dealt.ok THEN Invalid(dealt)
            ELSE one_rollout(c, [Seeded(dealt, w) EXCEPT !.node = n.kids[<<"Deal", 0>>]], input, policy, traverser, seed)
       [] n.kind = "BettingDecision" /\ w.actions >= c.max_betting_actions -> SettleSeeded(c, capped, input, traverser, seed, TRUE)
       [] n.kind = "BettingDecision" /\ w.actions < c.max_betting_actions ->
            IF ~legal THEN Invalid(w)
            ELSE one_rollout(c, [w EXCEPT !.node = n.kids[<<picked.action, picked.target>>], !.at = @ + 1, !.actions = @ + 1],
                             input, policy, traverser, seed)

-----------------------------------------------------------------------------
(* evaluate_multiway_rollout_profiles *)

valid_input(input) ==
  LET n == Node(input.node)
      cards == input.board \o FlattenSeq([s \in 1 .. Len(input.dealt) |-> input.dealt[s]])
  IN /\ n.consistent                                 \* the fields of MultiwayFixedState::validate
     /\ Cardinality(Seats(input.node)) \in 2 .. 6 /\ input.odd_chip_first_seat \in Seats(input.node)
     /\ \E s \in Seats(input.node) : ~n.folded[s]
     /\ Len(input.board) = <<0, 3, 4, 5>>[n.street + 1]
     /\ IF input.rake.points = 0 THEN input.rake.cap = 0 /\ input.rake.no_drop
        ELSE input.rake.points <= 10000 /\ input.rake.cap > 0
     /\ Range(cards) \subseteq leaf.deck /\ IsInjective(cards)
\* The provider's input for a request, with the hands as sets by seat.
Input(r) ==
  LET i == leaf.inputs[r.hands] IN
  i @@ [node |-> r.state, holes |-> [s \in Seats(r.state) |-> Range(i.dealt[s + 1])]]

Start(input) == [node |-> input.node, board |-> input.board, at |-> 1, ok |-> TRUE, actions |-> 0, runouts |-> 0,
                 capped |-> FALSE, exact |-> FALSE, seeded |-> FALSE]
Again(w, input) == [w EXCEPT !.node = input.node, !.board = input.board, !.at = 1]
\* The seeds of one policy from `seed` on; the counters and flags run through them.
RECURSIVE PolicyFrom(_, _, _, _, _, _, _), PolicyAfter(_, _, _, _, _, _, _)
PolicyFrom(c, w, input, policy, traverser, seed, total) ==
  IF seed > Len(c.seeds) THEN [value |-> Over(total, <<Len(c.seeds), 1>>), w |-> w]
  ELSE PolicyAfter(c, one_rollout(c, Again(w, input), input, policy, traverser, seed), input, policy, traverser, seed, total)
PolicyAfter(c, run, input, policy, traverser, seed, total) ==
  IF run.value = NaN THEN run
  ELSE PolicyFrom(c, run.w, input, policy, traverser, seed + 1, Plus(total, run.value))
NextStatus_last(status, capped) == IF capped THEN "CappedFallback" ELSE "Complete"  \* (mutant: the last policy decides)
NextStatus(status, capped) == IF capped THEN "CappedFallback" ELSE status
RunoutMode(exact, seeded) ==
  IF exact /\ seeded THEN "Mixed" ELSE IF exact THEN "Exact" ELSE IF seeded THEN "Seeded" ELSE "None"
NoProfile == [ok |-> FALSE, values |-> <<>>, status |-> "InvalidContext", mode |-> "None", seed_count |-> 0, runouts |-> 0, actions |-> 0]
RECURSIVE ProfileFrom(_, _, _, _, _, _), ProfileAfter(_, _, _, _, _, _)
ProfileFrom(c, input, traverser, p, flags, out) ==
  IF p > Len(Policies) THEN [out EXCEPT !.mode = RunoutMode(flags.exact, flags.seeded)]
  ELSE ProfileAfter(c, input, traverser, p,
         PolicyFrom(c, [Start(input) EXCEPT !.exact = flags.exact, !.seeded = flags.seeded], input, Policies[p], traverser, 1, Zero), out)
ProfileAfter(c, input, traverser, p, run, out) ==
  IF run.value = NaN THEN NoProfile
  ELSE ProfileFrom(c, input, traverser, p + 1, [exact |-> run.w.exact, seeded |-> run.w.seeded],
         [out EXCEPT !.values = Append(@, run.value), !.actions = run.w.actions, !.runouts = run.w.runouts,
                     !.status = NextStatus(@, run.w.capped)])
ValidContext(c) == c.seeds # <<>> /\ c.max_betting_actions > 0 /\ c.max_exact_runouts > 0 /\ Less(Zero, c.bias)
\* The part that is computed when nothing is cached.
Profile(r, c) ==
  IF ~ValidContext(c) \/ ~valid_input(Input(r)) THEN NoProfile
  ELSE ProfileFrom(c, Input(r), r.traverser, 1, [exact |-> FALSE, seeded |-> FALSE],
         [NoProfile EXCEPT !.ok = TRUE, !.status = "Complete", !.seed_count = Len(c.seeds)])

-----------------------------------------------------------------------------
(* MultiwayContinuationCache: sorted by key in the code, which only find sees. *)

make_cache_key_unbiased(r, c) ==                     \* (mutant: the bias factor is not part of the key)
  [state |-> r.state, traverser |-> r.traverser, hands |-> r.hands, seeds |-> c.seeds, bias |-> One,
   max_betting_actions |-> c.max_betting_actions, max_exact_runouts |-> c.max_exact_runouts]
make_cache_key(r, c) ==
  [state |-> r.state, traverser |-> r.traverser, hands |-> r.hands, seeds |-> c.seeds, bias |-> c.bias,
   max_betting_actions |-> c.max_betting_actions, max_exact_runouts |-> c.max_exact_runouts]
\* A direct caller has no public state, and without private identity nothing may be reused.
Cacheable(r, c) == c.cached /\ ~r.direct /\ ValidContext(c)
same_context(a, b) == [a EXCEPT !.seeds = <<>>] = [b EXCEPT !.seeds = <<>>] /\ Len(a.seeds) = Len(b.seeds)
try_insert(key, value) ==
  IF key \notin DOMAIN cache /\ Cardinality(DOMAIN cache) >= leaf.capacity THEN cache
  ELSE cache @@ (key :> value)

-----------------------------------------------------------------------------
(* The diagnostics.  means and variances run over the four policies. *)

Fresh == [leaf_count |-> 0, invalid_count |-> 0, capped_count |-> 0, sample_count |-> 0, cache_hits |-> 0, cache_misses |-> 0,
          cache_bypasses |-> 0, rejections |-> 0, pairs |-> 0, mode |-> "None",
          means |-> [p \in 1 .. 4 |-> Zero], variances |-> [p \in 1 .. 4 |-> Zero]]
Toward(mean, x, count) == Plus(mean, Over(Minus(x, mean), <<count, 1>>))
record_success_all(d, result) ==                     \* (mutant: invalid leaves count in the mean)
  [d EXCEPT !.sample_count = @ + result.seed_count, !.capped_count = @ + (IF result.status = "CappedFallback" THEN 1 ELSE 0),
            !.mode = IF d.leaf_count - d.invalid_count = 1 \/ @ = result.mode THEN result.mode ELSE "Mixed",
            !.means = [p \in 1 .. 4 |-> Toward(@[p], result.values[p], d.leaf_count)]]
record_success(d, result) ==
  [d EXCEPT !.sample_count = @ + result.seed_count, !.capped_count = @ + (IF result.status = "CappedFallback" THEN 1 ELSE 0),
            !.mode = IF d.leaf_count - d.invalid_count = 1 \/ @ = result.mode THEN result.mode ELSE "Mixed",
            !.means = [p \in 1 .. 4 |-> Toward(@[p], result.values[p], d.leaf_count - d.invalid_count)]]
Squared(x, y) == LET e == Minus(x, y) IN Over(Times(e, e), <<2, 1>>)
\* Every cached profile of the same context under other seeds is a pair.
RECURSIVE record_repeated_seed_variance(_, _, _)
record_repeated_seed_variance(d, value, others) ==
  IF others = {} THEN d
  ELSE LET other == CHOOSE k \in others : TRUE
       IN record_repeated_seed_variance(
            [d EXCEPT !.pairs = @ + 1,
                      !.variances = [p \in 1 .. 4 |-> Toward(@[p], Squared(value.values[p], cache[other].values[p]), d.pairs + 1)]],
            value, others \ {other})

-----------------------------------------------------------------------------
selected_policy(r, c) == IF r.direct THEN c.selected ELSE r.policy
Returned(r, c, profile) ==
  IF ~profile.ok THEN NaN ELSE profile.values[CHOOSE p \in 1 .. 4 : Policies[p] = selected_policy(r, c)]

RolloutInit ==
  /\ leaf \in Leaves
  /\ cache = <<>> /\ diagnostics = Fresh /\ calls = <<>>
\* A profile found or computed, what is counted for it and what is kept of it.
Evaluated(r, c, key, cacheable, hit, profile) ==
  LET counted == [diagnostics EXCEPT !.leaf_count = @ + 1,
                    !.cache_hits = @ + (IF hit THEN 1 ELSE 0), !.cache_misses = @ + (IF cacheable /\ ~hit THEN 1 ELSE 0),
                    !.cache_bypasses = @ + (IF ~cacheable /\ ValidContext(c) THEN 1 ELSE 0)]
      others == {k \in DOMAIN cache : same_context(k, key) /\ k # key}
      paired == IF cacheable /\ ~hit THEN record_repeated_seed_variance(counted, profile, others) ELSE counted
      after == IF cacheable /\ ~hit THEN try_insert(key, profile) ELSE cache
  IN /\ calls' = Append(calls, [request |-> r, context |-> c, profile |-> profile, value |-> Returned(r, c, profile), hit |-> hit])
     /\ IF ~profile.ok
        THEN diagnostics' = [counted EXCEPT !.invalid_count = @ + 1] /\ UNCHANGED cache
        ELSE /\ cache' = after
             /\ diagnostics' = record_success(
                  IF cacheable /\ key \notin DOMAIN after THEN [paired EXCEPT !.rejections = @ + 1] ELSE paired, profile)
     /\ UNCHANGED leaf
\* evaluate_multiway_rollout_leaf.
Evaluate(r, c) ==
  LET key == make_cache_key(r, c)
      cacheable == Cacheable(r, c)
      hit == cacheable /\ key \in DOMAIN cache
  IN /\ Len(calls) < MaxCalls
     /\ Evaluated(r, c, key, cacheable, hit, IF hit THEN cache[key] ELSE Profile(r, c))
RolloutOver == Len(calls) = MaxCalls
RolloutNext == \E r \in leaf.requests, c \in leaf.contexts : Evaluate(r, c)

-----------------------------------------------------------------------------
(* What a rollout should be worth: the expectation over every card and action. *)

\* The hand that ended at n with `board` out, averaged over the boards it may get.
\* The flop was seen if it was out when the betting ended.
Worth(n, board, input, traverser) ==
  LET cards == leaf.deck \ (Range(board) \cup UNION Range(input.holes))
      ends == Listing({s \in SUBSET cards : Cardinality(s) = BoardCards - Len(board)})
      paid == Node(n).contributions
      r == input.rake
      final(i) == Terminal(r.points, r.cap, r.no_drop)!Settle(paid, Node(n).folded,
        [s \in Seats(n) |-> Strength(input.holes[s], board \o Listing(ends[i]))], input.odd_chip_first_seat, Len(board) >= 3)
  IN SumQ([i \in DOMAIN ends |-> LET f == final(i) IN <<f.payouts[traverser] + f.refunds[traverser] - paid[traverser], Len(ends)>>])
RECURSIVE Expected(_, _, _, _, _, _)
Expected(c, n, board, input, policy, traverser) ==
  LET deal == Listing(leaf.deck \ (Range(board) \cup UNION Range(input.holes)))
      menu == Node(n).menu
      next(choice) == Node(n).kids[<<choice.action, choice.target>>]
      weight == Weights(policy, menu, c.bias)
  IN CASE Node(n).kind = "StreetTransition" ->
            Over(SumQ([i \in DOMAIN deal |-> Expected(c, Node(n).kids[<<"Deal", 0>>], Append(board, deal[i]), input, policy, traverser)]),
                 <<Len(deal), 1>>)
       [] Node(n).kind = "BettingDecision" ->
            Over(Dot(weight, [i \in DOMAIN menu |-> Expected(c, next(menu[i]), board, input, policy, traverser)]), SumQ(weight))
       [] OTHER -> Worth(n, board, input, traverser)
Alone(c, seed) == [c EXCEPT !.seeds = <<seed>>]
Uncapped(c) == [c EXCEPT !.max_betting_actions = 99]

\* The mean of a rollout over the random numbers that follow `drawn`; past those that tell the
\* rollouts of the leaf apart, and past the last one used, they are 0.
RECURSIVE MeanRollout(_, _, _, _, _)
MeanRollout(c, input, policy, traverser, drawn) ==
  LET run == one_rollout(Alone(c, drawn \o <<0, 0, 0, 0, 0>>), Start(input), input, policy, traverser, 1)
  IN IF Len(drawn) = leaf.draws \/ run.w.at <= Len(drawn) + 1 THEN run.value
     ELSE Over(SumQ([u \in 1 .. Grain |-> MeanRollout(c, input, policy, traverser, Append(drawn, u - 1))]), <<Grain, 1>>)
\* Over all random numbers a rollout is worth what play by the policy is worth on average:
\* no card is dealt twice or left out, exact and seeded run-outs agree, and the hand is raked
\* as at the end of the betting.
Unbiased ==
  \A r \in leaf.requests, c \in {Uncapped(Alone(d, <<>>)) : d \in leaf.contexts}, p \in 1 .. 4 :
    LET input == Input(r)
    IN ~r.direct /\ valid_input(input) =>
         MeanRollout(c, input, Policies[p], r.traverser, <<>>) = Expected(c, r.state, input.board, input, Policies[p], r.traverser)
\* A profile that is not marked as capped is the mean of its seeds evaluated one by one without
\* the limit on betting actions: what one seed uses up never changes another unnoticed.
IsMeanOf(whole, one) ==
  whole.status = "Complete" =>
    \A p \in 1 .. 4 : whole.values[p] = Over(SumQ([s \in DOMAIN one |-> one[s].values[p]]), <<Len(one), 1>>)
CompleteIsMean ==
  \A r \in leaf.requests, c \in leaf.contexts :
    IsMeanOf(Profile(r, c), [s \in DOMAIN c.seeds |-> Profile(r, Uncapped(Alone(c, c.seeds[s])))])
\* The one-step evaluator weighs the actions as apply does.
OneStepAgrees ==
  \A n \in DOMAIN leaf.node, c \in leaf.contexts, p \in 1 .. 4 :
    LET menu == Node(n).menu
        values == [i \in DOMAIN menu |-> <<i * i, 3>>]
    IN menu # <<>> /\ Applies(Policies[p], menu, c.bias) =>
         evaluate_leaf(Policies[p], menu, values, c.bias) = Dot(apply(Policies[p], menu, c.bias), values)

\* What a call finds in the cache is the profile that it would have computed.
CacheCoherent ==
  calls # <<>> => LET call == Last(calls) IN call.hit => call.profile = Profile(call.request, call.context)
\* The diagnostics are those of the calls made: each call is counted once, the means are the
\* means over the valid calls, and with no entry refused the variances are over the pairs cached.
DiagnosticsAgree ==
  LET d == diagnostics
      valid == SelectSeq(calls, LAMBDA call : call.profile.ok)
      pairs == Listing({{a, b} : a, b \in DOMAIN cache} \ {{a} : a \in DOMAIN cache})
      alike == SelectSeq(pairs, LAMBDA pair : \A a, b \in pair : same_context(a, b))
      half(pair, p) == LET a == CHOOSE k \in pair : TRUE
                           b == CHOOSE k \in pair : k # a IN Squared(cache[a].values[p], cache[b].values[p])
  IN /\ d.leaf_count = Len(calls) /\ d.leaf_count - d.invalid_count = Len(valid)
     /\ d.cache_hits + d.cache_misses + d.cache_bypasses <= d.leaf_count
     /\ Cardinality(DOMAIN cache) <= leaf.capacity
     /\ valid # <<>> => \A p \in 1 .. 4 :
          d.means[p] = Over(SumQ([i \in DOMAIN valid |-> valid[i].profile.values[p]]), <<Len(valid), 1>>)
     /\ d.rejections = 0 /\ alike # <<>> => \A p \in 1 .. 4 :
          d.variances[p] = Over(SumQ([i \in DOMAIN alike |-> half(alike[i], p)]), <<Len(alike), 1>>)
\* A rollout leaf is worth what its policy is worth, whatever was cached before, and its
\* diagnostics say what was evaluated.
RolloutSound ==
  /\ calls = <<>> => Unbiased /\ CompleteIsMean /\ OneStepAgrees
  /\ CacheCoherent /\ DiagnosticsAgree
==============================================================================
