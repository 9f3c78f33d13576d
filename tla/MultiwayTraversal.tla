--------------------------- MODULE MultiwayTraversal ---------------------------
(* MultiwayRootExternalSamplingTraversal::run (multiway_root_traversal.cpp) over   *)
(* the terminal adapter's board chance: one trajectory deals the private cards,     *)
(* samples the opponents and the board, tries every action of the traverser, and    *)
(* leaves its deltas, discoveries and continuation updates in the streams of its    *)
(* worker.  At the end of a batch the continuation streams are merged into the      *)
(* selector.  A random choice is taken from a tape, so that a trajectory is a       *)
(* function of its tape; numbers are exact.                                         *)
EXTENDS Fractions, FiniteSetsExt, SequencesExt, TLC

CONSTANTS Games,       \* Set of records: the tree, the deals, the tables and the options of a search
          MaxRuns      \* Trajectories of a batch

VARIABLES game,
          table,       \* What the coordinator has admitted directly: [states, rows]
          streams,     \* The streams of each worker
          selector,    \* Continuation regrets: key -> sequence over the policies
          ran          \* [pc, count, runs]: runs are the accepted ones, with what they had to leave

traversalVars == <<game, table, streams, selector, ran>>

-----------------------------------------------------------------------------
(* The game: a public state is a betting node with the cards dealt since the root. *)

Node(s) == game.node[s.node]
Players == 1 .. game.players
IsDecision(s) == Node(s).kind = "decision"
IsTerminal(s) == Node(s).kind \in {"fold", "showdown"}
RootState == [node |-> 1, board |-> {}]
ChildOf(s, a) == [node |-> Node(s).kids[a], board |-> s.board]
SameRootStreet(s) == Node(s).street = game.node[1].street
Preflop == 0
Flop == 1
River == 3

\* Board cards of a street, counted from the root's board.
board_card_count(street) == <<0, 3, 4, 5>>[street + 1]
BoardSize(s) == board_card_count(game.node[1].street) + Cardinality(s.board)

\* sample_validated_public_board_chance: outcome, counted from 0, of the cards in order.
choose_two(n) == (n * (n - 1)) \div 2
choose_three(n) == (n * (n - 1) * (n - 2)) \div 6
RECURSIVE Ascending(_)
Ascending(cards) == IF cards = {} THEN <<>> ELSE <<Min(cards)>> \o Ascending(cards \ {Min(cards)})
Available(board, holes) == Ascending(game.deck \ (board \cup UNION Range(holes)))
CardsToDeal(street, size) == IF street = Preflop /\ size = 0 THEN 3 ELSE 1
OutcomeCount(count, cards) == IF cards = 3 THEN choose_three(count) ELSE count
RECURSIVE FirstFrom(_, _, _), SecondFrom(_, _, _)
FirstFrom(count, first, outcome) ==
  IF first + 2 < count /\ outcome >= choose_two(count - first - 1)
  THEN FirstFrom(count, first + 1, outcome - choose_two(count - first - 1)) ELSE <<first, outcome>>
SecondFrom(count, second, outcome) ==
  IF second + 1 < count /\ outcome >= count - second - 1
  THEN SecondFrom(count, second + 1, outcome - (count - second - 1)) ELSE <<second, outcome>>
DealtCards_atFirst(available, cards, outcome) ==     \* (mutant: the second card may be the first)
  LET first == FirstFrom(Len(available), 0, outcome)
      second == SecondFrom(Len(available), first[1], first[2])
  IN IF cards = 1 THEN {available[outcome + 1]}
     ELSE {available[i + 1] : i \in {first[1], second[1], second[1] + 1 + second[2]}}
DealtCards(available, cards, outcome) ==
  LET first == FirstFrom(Len(available), 0, outcome)
      second == SecondFrom(Len(available), first[1] + 1, first[2])
  IN IF cards = 1 THEN {available[outcome + 1]}
     ELSE {available[i + 1] : i \in {first[1], second[1], second[1] + 1 + second[2]}}
\* canonical_board_chance_edges: every set of that many cards, equally likely.
CanonicalDeals(available, cards) == {d \in SUBSET Range(available) : Cardinality(d) = cards}

\* The 13 pairs, the 78 suited and the 78 offsuit classes; ranks are 2 .. 14.
preflop_class(r1, s1, r2, s2) ==
  LET high == 14 - Max({r1, r2})
      low == 14 - Min({r1, r2})
      pair == high * 12 - (high * (high - 1)) \div 2 + (low - high - 1)
  IN IF high = low THEN high ELSE (IF s1 = s2 THEN 13 ELSE 91) + pair

\* resolve_admitted_terminal_value; how the pot is settled is MultiwayTerminal's.
Strength(hole, board) == (7 * Max(hole) + SumSet(board) + Min(hole) * Cardinality(board)) % 11
TerminalValue(s, deal, player) ==
  LET n == Node(s)
      best == Max({Strength(deal.hole[p], s.board) : p \in n.live})
      winners == IF n.kind = "fold" THEN n.live ELSE {p \in n.live : Strength(deal.hole[p], s.board) = best}
      pot == SumQ([p \in Players |-> <<n.paid[p], 1>>])
  IN Minus(IF player \in winners THEN Over(pot, <<Cardinality(winners), 1>>) ELSE Zero, <<n.paid[player], 1>>)

-----------------------------------------------------------------------------
(* The context of a trajectory.  A trajectory that asks for more draws than its tape *)
(* has stops with the choices in needs.                                              *)

Context(deal, traverser, trajectory, tape, st, capacity) ==
  [deal |-> deal, traverser |-> traverser, trajectory |-> trajectory, tape |-> tape, needs |-> {}, weight |-> One,
   reach |-> [p \in Players |-> One], chance |-> One, sampling |-> One, sequence |-> 0, accepted |-> TRUE, thrown |-> FALSE,
   out |-> st, capacity |-> capacity, rows |-> table.rows, states |-> table.states, selector |-> selector]
EmptyStreams ==
  [deltas |-> <<>>, continuation |-> <<>>, states |-> <<>>, rows |-> <<>>, terminal |-> 0, leaf |-> 0, missing |-> 0, full |-> {}]
Stopped(c) == c.thrown \/ c.needs # {}
Returns(value, c) == [value |-> value, c |-> c]
Throw(c) == Returns(Zero, [c EXCEPT !.thrown = TRUE])
Refuse(c) == [c EXCEPT !.accepted = FALSE]
Full(c, which) == [Refuse(c) EXCEPT !.out.full = @ \cup {which}]

\* try_append_public_state, or the admission by the coordinator.
admit_public_state(c, s, parent) ==
  IF ~game.discovery THEN [c EXCEPT !.states = @ \cup {s}]
  ELSE IF Len(c.out.states) >= c.capacity.states THEN Full(c, "states")
  ELSE [c EXCEPT !.out.states = Append(@, [state |-> s, parent |-> parent])]
HasRow(c, s) == s.node \in DOMAIN game.regrets \/ s \in c.rows
\* try_append_row, or the admission by the coordinator.
admit_infoset_row(c, s) ==
  IF ~game.discovery THEN [c EXCEPT !.rows = @ \cup {s}]
  ELSE IF Len(c.out.rows) >= c.capacity.rows THEN Full(c, "rows")
  ELSE [c EXCEPT !.out.rows = Append(@, s)]

-----------------------------------------------------------------------------
(* MultiwayFixedContinuationSelector *)

Key(s, actor, bucket) == [state |-> s, actor |-> actor, street |-> Node(s).street, bucket |-> bucket]
ValidKey(key) == key.street \in Flop .. River
Positive(x) == Larger(Zero, x)
Matched(regrets, otherwise) ==
  LET positive == [a \in DOMAIN regrets |-> Positive(regrets[a])]
      total == SumQ(positive)
  IN IF Less(Zero, total) THEN [a \in DOMAIN regrets |-> Over(positive[a], total)] ELSE otherwise
Only(k, count) == [i \in 1 .. count |-> IF i = k THEN One ELSE Zero]
strategy(rows, key, count) ==
  IF ~ValidKey(key) THEN Only(1, count)
  ELSE IF key \in DOMAIN rows THEN Matched(rows[key], Only(game.policy, count)) ELSE Only(game.policy, count)
update_regrets_weighted(rows, key, mixture, values, weight) ==
  LET old == IF key \in DOMAIN rows THEN rows[key] ELSE [k \in DOMAIN values |-> Zero]
      node_value == Dot(mixture, values)
  IN (key :> [k \in DOMAIN values |-> Plus(old[k], Times(Minus(values[k], node_value), weight))]) @@ rows
delta_less(x, y) == x.trajectory < y.trajectory \/ (x.trajectory = y.trajectory /\ x.sequence < y.sequence)
IsFixedOrder(s) == \A i \in 1 .. Len(s) - 1 : ~delta_less(s[i + 1], s[i])
\* The heads of the streams, the first of the least ones next.
NextWorker(heads) ==
  Min({w \in DOMAIN heads : heads[w] # <<>> /\ \A v \in DOMAIN heads : heads[v] # <<>> => ~delta_less(heads[v][1], heads[w][1])})
Advanced_all(heads, w) == [v \in DOMAIN heads |-> IF heads[v] = <<>> THEN <<>> ELSE Tail(heads[v])]   \* (mutant: every cursor moves)
Advanced(heads, w) == [heads EXCEPT ![w] = Tail(@)]
RECURSIVE merge_worker_streams(_, _)
merge_worker_streams(rows, heads) ==
  IF \A w \in DOMAIN heads : heads[w] = <<>> THEN rows
  ELSE LET w == NextWorker(heads)
           d == Head(heads[w])
       IN merge_worker_streams(update_regrets_weighted(rows, d.key, d.mixture, d.values, d.weight), Advanced(heads, w))

-----------------------------------------------------------------------------
(* The strategy of a decision *)

\* hole_index, the root's bucket, or the class of the hand; a class is a one-element set.
Bucket(s, hole) ==
  IF game.exact /\ SameRootStreet(s) THEN hole
  ELSE IF s = RootState THEN {game.root_bucket} ELSE {Max(hole) % 2}
Zeros(count) == [a \in 1 .. count |-> Zero]
UniformOf(count) == [a \in 1 .. count |-> Q(1, count)]
RegretsAt(s, bucket) ==
  IF s.node \in DOMAIN game.regrets THEN game.regrets[s.node][1 + (Max(bucket) % 2)] ELSE Zeros(Len(Node(s).kids))
actions_below_regret(c, s, bucket) ==
  {a \in DOMAIN Node(s).kids : HasRow(c, s) /\ Less(RegretsAt(s, bucket)[a], game.pruning.regret)}

\* The blueprint is asked only where a row of another player is admitted.
BlueprintAsked(c, s) == HasRow(c, s) /\ Node(s).actor # c.traverser /\ game.blueprint # <<>>
BlueprintHit(c, s) == BlueprintAsked(c, s) /\ s.node \in DOMAIN game.blueprint
select_decision_strategy(c, s, bucket) ==
  LET count == Len(Node(s).kids)
  IN IF ~HasRow(c, s) THEN UniformOf(count)
     ELSE IF BlueprintHit(c, s) THEN game.blueprint[s.node]
     ELSE Matched(RegretsAt(s, bucket), UniformOf(count))

recovery_batch ==
  /\ game.pruning.enabled /\ game.batch > game.pruning.warmup /\ game.pruning.interval # 0
  /\ game.batch % game.pruning.interval = 0
should_explore_action(below, terminal, river) ==
  /\ game.pruning.enabled /\ game.batch > game.pruning.warmup /\ ~terminal /\ ~river
  /\ recovery_batch \/ below
Prunes(c, s) ==
  /\ game.pruning.enabled /\ game.batch > game.pruning.warmup /\ ~recovery_batch
  /\ Node(s).actor # c.traverser /\ Node(s).street # River
\* lucky: the actions whose draw is below the exploration probability.
adjust_decision_strategy_for_pruning(c, s, bucket, sigma) ==
  LET explore == game.pruning.explore
      below == actions_below_regret(c, s, bucket)
      terminal(a) == IsTerminal(ChildOf(s, a))
      random(a) == ~terminal(a) /\ a \notin below /\ <<s.node, a>> \in game.lucky
      rare(a) == ~Less(game.pruning.probability, sigma[a])
      adjusted == [a \in DOMAIN sigma |->
        IF should_explore_action(a \in below \/ rare(a) \/ random(a), terminal(a), Node(s).street = River)
        THEN Over(explore, <<Len(sigma), 1>>)
        ELSE IF terminal(a) THEN sigma[a] ELSE Times(sigma[a], Minus(One, explore))]
      total == SumQ(adjusted)
  IN IF ~Prunes(c, s) THEN sigma
     ELSE IF Less(Zero, total) THEN [a \in DOMAIN sigma |-> Over(adjusted[a], total)] ELSE adjusted
StrategyAt(c, s, bucket) ==
  adjust_decision_strategy_for_pruning(c, s, bucket, select_decision_strategy(c, s, bucket))

\* sample_action: an action without probability only where none has any.
sample_action(sigma) ==
  LET likely == {a \in DOMAIN sigma : Less(Zero, sigma[a])} IN IF likely = {} THEN {Len(sigma)} ELSE likely
Draw(c, weights) ==
  IF c.tape = <<>> THEN [c EXCEPT !.needs = sample_action(weights)]
  ELSE [c EXCEPT !.tape = Tail(@), !.weight = Times(@, weights[Head(c.tape)])]

-----------------------------------------------------------------------------
(* Leaves and deltas *)

OthersReach(c) == ProductQ([p \in Players |-> IF p = c.traverser THEN One ELSE c.reach[p]])
SamplingReach(c) == Times(c.deal.proposal, c.sampling)
ImportanceWeight_public(c) ==      \* (mutant: the private deal is not divided out)
  Over(Times(Times(c.deal.chance, c.chance), OthersReach(c)), c.sampling)
ImportanceWeight(c) == Over(Times(Times(c.deal.chance, c.chance), OthersReach(c)), SamplingReach(c))

\* What the evaluator answers for a policy depends on the hand of the traverser.
LeafValues(s, deal, traverser) ==
  [k \in DOMAIN Node(s).leaf |-> Plus(Node(s).leaf[k], <<Max(deal.hole[traverser]) + SumSet(s.board), 1>>)]
AppendContinuation(c, key, mixture, values) ==
  LET d == [key |-> key, mixture |-> mixture, values |-> values, trajectory |-> c.trajectory,
            sequence |-> c.sequence, weight |-> ImportanceWeight(c)]
  IN IF Len(c.out.continuation) >= c.capacity.continuation THEN Full([c EXCEPT !.sequence = @ + 1], "continuation")
     ELSE IF ~ValidKey(key) THEN Refuse([c EXCEPT !.sequence = @ + 1])
     ELSE [c EXCEPT !.sequence = @ + 1, !.out.continuation = Append(@, d)]
Appended(value, c) == Returns(IF c.accepted THEN value ELSE Zero, c)
LeafValue(c, s, actor, key, values, mixture) ==
  LET value == Dot(mixture, values)
  IN IF s.node \in game.undefined THEN Throw(c)
     ELSE IF game.selector = "none" THEN Returns(values[1], c)
     ELSE IF actor # c.traverser THEN Returns(value, c)
     ELSE IF game.selector = "stream" THEN Appended(value, AppendContinuation(c, key, mixture, values))
     ELSE IF ~ValidKey(key) THEN Throw(c)
     ELSE Returns(value, [c EXCEPT !.selector = update_regrets_weighted(@, key, mixture, values, ImportanceWeight(c))])
evaluate_leaf(c, s) ==
  LET actor == IF IsDecision(s) THEN Node(s).actor ELSE c.traverser
      key == Key(s, actor, {Max(c.deal.hole[actor]) % 2})
      values == LeafValues(s, c.deal, c.traverser)
  IN LeafValue([c EXCEPT !.out.leaf = @ + 1], s, actor, key, values, strategy(c.selector, key, Len(values)))

append_infoset_update_noalloc(c, s, bucket, sigma, values) ==
  LET node_value == Dot(sigma, values)
      importance == ImportanceWeight(c)
      average == Over(c.reach[c.traverser], SamplingReach(c))
      delta(a) == [state |-> s, bucket |-> bucket, action |-> a, trajectory |-> c.trajectory,
                   regret |-> Times(importance, Minus(values[a], node_value)),
                   sum |-> Times(Times(average, sigma[a]), game.weight)]
  IN IF c.capacity.deltas - Len(c.out.deltas) < Len(sigma) THEN Returns(Zero, Full(c, "deltas"))
     ELSE Returns(node_value, [c EXCEPT !.out.deltas = @ \o [a \in DOMAIN sigma |-> delta(a)]])

-----------------------------------------------------------------------------
(* The traversal *)

RECURSIVE traverse_decision(_, _, _, _), traverse_public_chance(_, _, _, _), evaluate_decision_action(_, _, _, _, _),
          ActionsFrom(_, _, _, _, _, _), ActionsAfter(_, _, _, _, _, _, _), evaluate_decision_actions(_, _, _, _, _, _),
          BelowChance(_, _, _, _)

evaluate_decision_action(c0, s, depth, chance_depth, a) ==
  LET child == ChildOf(s, a)
      c == admit_public_state(c0, child, s)
      kind == Node(child).kind
  IN CASE IsTerminal(child) -> Returns(TerminalValue(child, c.deal, c.traverser), [c EXCEPT !.out.terminal = @ + 1])
       [] kind = "decision" /\ depth + 1 < game.max_decision_depth -> traverse_decision(c, child, depth + 1, chance_depth)
       [] kind = "runout" \/ (kind = "transition" /\ chance_depth < game.max_public_chance_depth) ->
            traverse_public_chance(c, child, depth + 1, chance_depth)
       [] OTHER -> evaluate_leaf(c, child)

\* The traverser's actions from the a-th on: the values so far, and where the loop stopped.
ActionsFrom(c, s, depth, chance_depth, sigma, a) ==
  IF a > Len(sigma) THEN [values |-> <<>>, c |-> c]
  ELSE LET child == evaluate_decision_action([c EXCEPT !.reach[c.traverser] = Times(@, sigma[a])], s, depth, chance_depth, a)
       IN ActionsAfter(child, c.reach[c.traverser], s, depth, chance_depth, sigma, a)
ActionsAfter(child, saved, s, depth, chance_depth, sigma, a) ==
  LET c == [child.c EXCEPT !.reach[child.c.traverser] = saved]
      rest == ActionsFrom(c, s, depth, chance_depth, sigma, a + 1)
  IN IF Stopped(c) \/ ~c.accepted THEN [values |-> <<>>, c |-> c]
     ELSE [values |-> <<child.value>> \o rest.values, c |-> rest.c]

SampledReach_sampling(c, actor, p) ==      \* (mutant: only the sampling reach is raised)
  [c EXCEPT !.sampling = Times(@, p)]
SampledReach(c, actor, p) == [c EXCEPT !.reach[actor] = Times(@, p), !.sampling = Times(@, p)]
\* A sampled branch returns its value and takes its factors back out of the reaches.
Restored(child, before) ==
  Returns(child.value, [child.c EXCEPT !.reach = before.reach, !.chance = before.chance, !.sampling = before.sampling])
\* The end of the traverser's loop over the actions.
Decided(own, s, bucket, sigma) ==
  IF Stopped(own.c) \/ ~own.c.accepted THEN Returns(Zero, own.c)
  ELSE append_infoset_update_noalloc(own.c, s, bucket, sigma, own.values)

traverse_decision(c0, s, depth, chance_depth) ==
  LET bucket == Bucket(s, c0.deal.hole[Node(s).actor])
      c1 == IF HasRow(c0, s) THEN c0 ELSE admit_infoset_row(c0, s)
      c2 == IF BlueprintAsked(c0, s) /\ ~BlueprintHit(c0, s) THEN [c1 EXCEPT !.out.missing = @ + 1] ELSE c1
  IN IF ~c0.accepted THEN Returns(Zero, c0)
     ELSE IF ~c1.accepted THEN Returns(Zero, c1)
     ELSE evaluate_decision_actions(c2, s, depth, chance_depth, bucket, StrategyAt(c0, s, bucket))
evaluate_decision_actions(c, s, depth, chance_depth, bucket, sigma) ==
  LET actor == Node(s).actor
      drawn == Draw(c, sigma)
      a == Head(c.tape)
      child == evaluate_decision_action(SampledReach(drawn, actor, sigma[a]), s, depth, chance_depth, a)
  IN IF actor = c.traverser THEN Decided(ActionsFrom(c, s, depth, chance_depth, sigma, 1), s, bucket, sigma)
     ELSE IF Stopped(drawn) THEN Returns(Zero, drawn)
     ELSE IF sigma[a] = Zero THEN Throw(drawn)
     ELSE Restored(child, c)

\* After the cards are dealt: the end of a runout, or the next state.
BelowChance(c, s, depth, chance_depth) ==
  LET next == ChildOf(s, 1)
      admitted == admit_public_state(c, next, s)
  IN CASE Node(s).kind = "runout" /\ BoardSize(s) = 5 -> Returns(TerminalValue(s, c.deal, c.traverser), [c EXCEPT !.out.terminal = @ + 1])
       [] Node(s).kind = "runout" -> traverse_public_chance(c, s, depth, chance_depth)
       [] depth < game.max_decision_depth -> traverse_decision(admitted, next, depth, chance_depth)
       [] OTHER -> evaluate_leaf(admitted, next)
traverse_public_chance(c0, s, depth, chance_depth) ==
  LET available == Available(s.board, c0.deal.hole)
      cards == CardsToDeal(Node(s).street, BoardSize(s))
      count == OutcomeCount(Len(available), cards)
      drawn == Draw(c0, UniformOf(count))
      dealt == [s EXCEPT !.board = @ \cup DealtCards(available, cards, Head(c0.tape) - 1)]
      c == [drawn EXCEPT !.chance = Times(@, Q(1, count)), !.sampling = Times(@, Q(1, count))]
  IN IF Stopped(drawn) THEN Returns(Zero, drawn)
     ELSE Restored(BelowChance(admit_public_state(c, dealt, s), dealt, depth, chance_depth + 1), c0)

\* A whole trajectory without the rewinding at its end.
Walk(deal, traverser, trajectory, tape, st, capacity) ==
  traverse_decision(Context(deal, traverser, trajectory, tape, st, capacity), RootState, 0, 0).c
Unbounded == [deltas |-> 99, continuation |-> 99, states |-> 99, rows |-> 99]
WholeWalk(deal, traverser, trajectory, tape) == Walk(deal, traverser, trajectory, tape, EmptyStreams, Unbounded)

\* The tapes with which a trajectory runs to its end, with that end.
RECURSIVE Endings(_, _, _, _), EndingsAfter(_, _, _, _, _)
Endings(deal, traverser, trajectory, tape) ==
  EndingsAfter(deal, traverser, trajectory, tape, WholeWalk(deal, traverser, trajectory, tape))
EndingsAfter(deal, traverser, trajectory, tape, c) ==
  IF c.needs = {} THEN {[tape |-> tape, c |-> c]}
  ELSE UNION {Endings(deal, traverser, trajectory, Append(tape, a)) : a \in c.needs}

-----------------------------------------------------------------------------
(* A batch *)

TraversalInit ==
  /\ game \in Games
  /\ table = [states |-> {RootState}, rows |-> {}]
  /\ streams = [w \in 1 .. game.workers |-> EmptyStreams]
  /\ selector = game.continuation
  /\ ran = [pc |-> "run", count |-> 0, runs |-> <<>>]

Rewound_deltas(before, out) ==      \* (mutant: the continuation updates are left)
  [before EXCEPT !.full = out.full, !.continuation = out.continuation]
\* What a refused trajectory leaves: the streams rewound, the overflow marks, and the visits
\* that were counted by the coordinator.
Rewound(before, out) ==
  IF game.discovery THEN [before EXCEPT !.full = out.full]
  ELSE [before EXCEPT !.full = out.full, !.terminal = out.terminal, !.leaf = out.leaf, !.missing = out.missing]

Traverser == (ran.count % game.players) + 1
\* One worker runs the next trajectory; the traverser goes round the seats.
Ran(w, c, whole) ==
  LET next == [ran EXCEPT !.count = @ + 1]
  IN /\ streams' = [streams EXCEPT ![w] = IF c.thrown \/ c.accepted THEN c.out ELSE Rewound(@, c.out)]
     /\ table' = [states |-> c.states, rows |-> c.rows]
     /\ selector' = c.selector
     /\ ran' = IF c.thrown THEN [next EXCEPT !.pc = "thrown"]
               ELSE IF c.accepted THEN [next EXCEPT !.runs = Append(@, [worker |-> w, out |-> whole.out])]
               ELSE next
Run(w, deal) ==
  /\ ran.pc = "run" /\ ran.count < MaxRuns
  /\ \E end \in Endings(deal, Traverser, ran.count + 1, <<>>) :
       Ran(w, Walk(deal, Traverser, ran.count + 1, end.tape, streams[w], game.capacity), end.c)
  /\ UNCHANGED game

MergeContinuations ==
  /\ ran.pc = "run" /\ ran.count = MaxRuns
  /\ \A w \in DOMAIN streams : IsFixedOrder(streams[w].continuation)
  /\ selector' = merge_worker_streams(selector, [w \in DOMAIN streams |-> streams[w].continuation])
  /\ ran' = [ran EXCEPT !.pc = "merged"]
  /\ UNCHANGED <<game, table, streams>>

TraversalNext == MergeContinuations \/ \E w \in DOMAIN streams, deal \in Range(game.deals) : Run(w, deal)
TraversalOver == ran.pc # "run"

-----------------------------------------------------------------------------
(* What a trajectory estimates: the counterfactual regrets and the reach-weighted     *)
(* strategies over all histories of a deal, computed without sampling.                *)

Term(cell, regret, sum) == [cell |-> cell, regret |-> regret, sum |-> sum]
Joined(parts) == FlattenSeq(parts)
RECURSIVE Listed(_)
Listed(set) == IF set = {} THEN <<>> ELSE LET x == CHOOSE x \in set : TRUE IN <<x>> \o Listed(set \ {x})
RECURSIVE Exact(_, _, _, _, _, _), ExactBelow(_, _, _, _, _, _), ExactChance(_, _, _, _, _, _)
ExactLeaf(c, s, cf, own) ==
  LET actor == IF IsDecision(s) THEN Node(s).actor ELSE c.traverser
      key == Key(s, actor, {Max(c.deal.hole[actor]) % 2})
      values == LeafValues(s, c.deal, c.traverser)
      mixture == IF game.selector = "none" THEN Only(1, Len(values)) ELSE strategy(c.selector, key, Len(values))
      value == Dot(mixture, values)
  IN [value |-> value, terms |-> IF game.selector # "stream" \/ actor # c.traverser THEN <<>>
        ELSE [k \in DOMAIN values |-> Term(<<s, key.bucket, k + 10>>, Times(cf, Minus(values[k], value)), Zero)]]
ExactBelow(c, s, depth, chance_depth, cf, own) ==
  CASE IsTerminal(s) -> [value |-> TerminalValue(s, c.deal, c.traverser), terms |-> <<>>]
    [] IsDecision(s) /\ depth < game.max_decision_depth -> Exact(c, s, depth, chance_depth, cf, own)
    [] Node(s).kind = "runout" \/ (Node(s).kind = "transition" /\ chance_depth < game.max_public_chance_depth) ->
         ExactChance(c, s, depth, chance_depth, cf, own)
    [] OTHER -> ExactLeaf(c, s, cf, own)
ExactTerms(s, bucket, sigma, below, value, cf, own) ==
  Joined([a \in DOMAIN sigma |-> below[a].terms])
  \o [a \in DOMAIN sigma |-> Term(<<s, bucket, a>>, Times(cf, Minus(below[a].value, value)), Times(Times(own, sigma[a]), game.weight))]
ExactDecision(s, bucket, sigma, below, mine, cf, own) ==
  LET value == Dot(sigma, [a \in DOMAIN sigma |-> below[a].value])
  IN [value |-> value, terms |-> IF mine THEN ExactTerms(s, bucket, sigma, below, value, cf, own)
                                 ELSE Joined([a \in DOMAIN sigma |-> below[a].terms])]
Exact(c, s, depth, chance_depth, cf, own) ==
  LET actor == Node(s).actor
      bucket == Bucket(s, c.deal.hole[actor])
      sigma == StrategyAt(c, s, bucket)
      mine == actor = c.traverser
      below == [a \in DOMAIN sigma |->
        IF ~mine /\ sigma[a] = Zero THEN [value |-> Zero, terms |-> <<>>]
        ELSE ExactBelow(c, ChildOf(s, a), depth + 1, chance_depth, IF mine THEN cf ELSE Times(cf, sigma[a]),
                        IF mine THEN Times(own, sigma[a]) ELSE own)]
  IN ExactDecision(s, bucket, sigma, below, mine, cf, own)
ExactOutcome(c, s, depth, chance_depth, cf, own) ==
  CASE Node(s).kind = "runout" /\ BoardSize(s) = 5 -> [value |-> TerminalValue(s, c.deal, c.traverser), terms |-> <<>>]
    [] Node(s).kind = "runout" -> ExactChance(c, s, depth, chance_depth + 1, cf, own)
    [] OTHER -> ExactBelow(c, ChildOf(s, 1), depth, chance_depth + 1, cf, own)
RECURSIVE ExactOver(_, _, _, _, _, _, _, _)
Mixed(p, first, rest) == [value |-> Plus(Times(p, first.value), rest.value), terms |-> first.terms \o rest.terms]
ExactOver(c, s, depth, chance_depth, cf, own, p, deals) ==
  IF deals = <<>> THEN [value |-> Zero, terms |-> <<>>]
  ELSE Mixed(p, ExactOutcome(c, [s EXCEPT !.board = @ \cup Head(deals)], depth, chance_depth, Times(cf, p), own),
                ExactOver(c, s, depth, chance_depth, cf, own, p, Tail(deals)))
ExactChance(c, s, depth, chance_depth, cf, own) ==
  LET deals == CanonicalDeals(Available(s.board, c.deal.hole),
                              IF Node(s).kind = "transition" THEN CardsToDeal(Node(s).street, BoardSize(s)) ELSE 1)
  IN ExactOver(c, s, depth, chance_depth, cf, own, Q(1, Cardinality(deals)), Listed(deals))

Scaled(weight, terms) == [i \in DOMAIN terms |-> Term(terms[i].cell, Times(weight, terms[i].regret), Times(weight, terms[i].sum))]
SumsOf(terms, cell) ==
  LET at == SelectSeq(terms, LAMBDA t : t.cell = cell)
  IN <<SumQ([i \in DOMAIN at |-> at[i].regret]), SumQ([i \in DOMAIN at |-> at[i].sum])>>
TermsOf(out) ==
  [i \in DOMAIN out.deltas |->
     Term(<<out.deltas[i].state, out.deltas[i].bucket, out.deltas[i].action>>, out.deltas[i].regret, out.deltas[i].sum)]
  \o Joined([i \in DOMAIN out.continuation |->
       LET d == out.continuation[i]
       IN [k \in DOMAIN d.values |-> Term(<<d.key.state, d.key.bucket, k + 10>>,
                                          Times(d.weight, Minus(d.values[k], Dot(d.mixture, d.values))), Zero)]])
ExpectedTerms(deal, endings) ==
  Joined([i \in DOMAIN endings |-> Scaled(Times(deal.proposal, endings[i].weight), TermsOf(endings[i].out))])

\* Over the draws of a trajectory, the deltas add up to the regret of every infoset against the
\* strategies that are played, weighted by what chance and the others do, and to the strategy
\* weighted by the traverser's own reach; so do the updates of the continuation regrets.
SameSums(sampled, exact) ==
  \A cell \in {t.cell : t \in Range(exact)} \cup {t.cell : t \in Range(sampled)} : SumsOf(sampled, cell) = SumsOf(exact, cell)
AddUp(deal, endings, exact) ==
  (\A e \in Range(endings) : e.accepted /\ ~e.thrown) => SameSums(ExpectedTerms(deal, endings), exact)
Unbiased(deal, traverser) ==
  LET ends == Listed(Endings(deal, traverser, 1, <<>>))
  IN AddUp(deal, [i \in DOMAIN ends |-> ends[i].c],
           Exact(Context(deal, traverser, 1, <<>>, EmptyStreams, Unbounded), RootState, 0, 0, deal.chance, One).terms)
\* The sampled outcomes are the canonical ones, each once, and the classes of hands are 169.
OutcomesCanonical ==
  /\ \A count \in 3 .. 7 : \A cards \in {1, 3} :
       LET available == [i \in 1 .. count |-> 2 * i]
           outcomes == 0 .. OutcomeCount(count, cards) - 1
       IN /\ {DealtCards(available, cards, o) : o \in outcomes} = CanonicalDeals(available, cards)
          /\ Cardinality(CanonicalDeals(available, cards)) = Cardinality(outcomes)
  /\ LET hand == {<<r1, r2, suited>> \in (2 .. 14) \X (2 .. 14) \X BOOLEAN : r1 >= r2 /\ (suited => r1 # r2)}
         class(h) == preflop_class(h[1], 1, h[2], IF h[3] THEN 1 ELSE 2)
     IN /\ {class(h) : h \in hand} = 0 .. 168 /\ Cardinality(hand) = 169
        /\ \A h \in hand : preflop_class(h[2], 2, h[1], IF h[3] THEN 2 ELSE 1) = class(h)

RunsOf(w) == SelectSeq(ran.runs, LAMBDA r : r.worker = w)
Left(w, Field(_)) == Joined([i \in DOMAIN RunsOf(w) |-> Field(RunsOf(w)[i].out)])
\* The streams hold what the accepted trajectories found, each of them whole.
StreamsWhole ==
  \A w \in DOMAIN streams :
    /\ streams[w].deltas = Left(w, LAMBDA o : o.deltas)
    /\ streams[w].continuation = Left(w, LAMBDA o : o.continuation)
    /\ streams[w].states = Left(w, LAMBDA o : o.states)
    /\ streams[w].rows = Left(w, LAMBDA o : o.rows)
    /\ game.discovery => streams[w].terminal = FoldLeft(LAMBDA x, r : x + r.out.terminal, 0, RunsOf(w))
\* A discovered state comes after its parent, a row after its state, and a delta has its row.
DiscoveryCloses ==
  \A w \in DOMAIN streams :
    LET found(k) == {RootState} \cup table.states \cup {streams[w].states[i].state : i \in 1 .. k}
        all == found(Len(streams[w].states))
    IN /\ \A k \in DOMAIN streams[w].states : streams[w].states[k].parent \in found(k - 1)
       /\ Range(streams[w].rows) \subseteq all
       /\ \A d \in Range(streams[w].deltas) :
            d.state \in all /\ (HasRow(table, d.state) \/ d.state \in Range(streams[w].rows))
\* Merged, the workers' updates are those of one worker that ran the trajectories in order; in
\* exact arithmetic none is lost or repeated (the order itself only matters for rounding).
MergedInOrder ==
  ran.pc = "merged" =>
    selector = (IF game.selector # "stream" THEN selector
                ELSE merge_worker_streams(game.continuation, <<Joined([i \in DOMAIN ran.runs |-> ran.runs[i].out.continuation])>>))

TraversalSound ==
  /\ ran.pc = "run" => StreamsWhole /\ DiscoveryCloses
  /\ MergedInOrder
  /\ ran.count = 0 => OutcomesCanonical /\ \A deal \in Range(game.deals), t \in Players : Unbiased(deal, t)
=============================================================================
