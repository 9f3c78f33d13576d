----------------------------- MODULE FlatSampling -----------------------------
(* One trajectory of HUNLFlatMCCFR: the traversal kernels of                     *)
(* hunl_flat_mccfr.cpp, the strategies they read, and the rows of deltas and the *)
(* baselines they write into a worker's scratch.                                 *)
(*                                                                               *)
(* A game is a tree of numbered nodes with a table of regrets and strategy sums. *)
(* The random generator is a tape that holds the draw of every node, so that a   *)
(* kernel is a function of the tape and its expectation is a sum over all tapes. *)
(* The recursive kernels are operators that thread the scratch through the       *)
(* calls, the scratch arrays the code shares between nested calls included.  The *)
(* iterative external kernel is the state machine of this module: one step is    *)
(* one turn of its loop.                                                         *)
EXTENDS Fractions, FiniteSetsExt, TLC

CONSTANTS Games,    \* Set of records [node, regret, sum, buckets, baseline]
          AsEpsilon, AsTau, AsBeta

VARIABLES context,      \* The game, the traverser, the tape and the reach at the root
          frames,       \* scratch.external_frames up to stack_size
          last_value, scratch

flatVars == <<context, frames, last_value, scratch>>

-----------------------------------------------------------------------------
(* The solve graph and the tables *)

Node(c, n) == c.game.node[n]
Infosets(game) == DOMAIN game.regret
BucketCount(c, I) == Len(c.game.regret[I])
ActionCount(c, I) == Len(c.game.regret[I][1])
MaxActions(c) == Max({ActionCount(c, I) : I \in Infosets(c.game)})

\* graph.max_depth: the edges of the longest path.
RECURSIVE DepthBelow(_, _)
DepthBelow(c, n) ==
  IF Node(c, n).kids = <<>> THEN 0
  ELSE 1 + Max({DepthBelow(c, Node(c, n).kids[i]) : i \in DOMAIN Node(c, n).kids})
MaxDepth(c) == DepthBelow(c, 1)

row_value_index_swapped(c, I, bucket, action) ==     \* (mutant: the stride of the other axis)
  IF c.layout = "InfosetActionHand" THEN (action - 1) * ActionCount(c, I) + bucket
                                    ELSE (bucket - 1) * ActionCount(c, I) + action
\* row_value_index: where the value of a bucket and an action lies in a row.
row_value_index(c, I, bucket, action) ==
  IF c.layout = "InfosetActionHand" THEN (action - 1) * BucketCount(c, I) + bucket
                                    ELSE (bucket - 1) * ActionCount(c, I) + action
can_use_dense_validation(c) == ~c.sparse /\ c.layout = "InfosetActionHand"

\* Regret matching on one bucket: the positive regrets over their sum, or uniform.
fill_current_strategy_bucket(c, I, bucket) ==
  LET regret == c.game.regret[I][bucket]
      positive == [a \in DOMAIN regret |-> IF regret[a] > 0 THEN <<regret[a], 1>> ELSE Zero]
      total == SumQ(positive)
  IN [a \in DOMAIN regret |-> IF total = Zero THEN Q(1, Len(regret)) ELSE Over(positive[a], total)]
fill_average_action_probabilities(c, I) ==
  [a \in 1 .. ActionCount(c, I) |->
     Over(SumQ([b \in 1 .. BucketCount(c, I) |-> fill_current_strategy_bucket(c, I, b)[a]]),
          <<BucketCount(c, I), 1>>)]
fill_average_strategy_sum_values(c, I) ==
  [a \in 1 .. ActionCount(c, I) |->
     Over(SumQ([b \in 1 .. BucketCount(c, I) |-> <<c.game.sum[I][b][a], 1>>]), <<BucketCount(c, I), 1>>)]
\* The probability with which average-strategy sampling looks at each action.
fill_average_strategy_sampling_probabilities(c, I) ==
  LET sums == fill_average_strategy_sum_values(c, I)
      denominator == Plus(AsBeta, SumQ(sums))
  IN [a \in DOMAIN sums |->
        Smaller(One, Larger(AsEpsilon,
          IF denominator = Zero THEN One ELSE Over(Plus(AsBeta, Times(AsTau, sums[a])), denominator)))]

\* compute_current_strategy_rows and rebuild_average_policy_cache: what a batch reads.
compute_current_strategy_rows(c) ==
  [I \in Infosets(c.game) |-> [b \in 1 .. BucketCount(c, I) |-> fill_current_strategy_bucket(c, I, b)]]
rebuild_average_policy_cache(c) ==
  [I \in Infosets(c.game) |-> [average |-> fill_average_action_probabilities(c, I),
                               sampling |-> fill_average_strategy_sampling_probabilities(c, I)]]
Average(c, n) == c.cache[Node(c, n).infoset].average
Current(c, n, bucket) == c.current[Node(c, n).infoset][bucket]

-----------------------------------------------------------------------------
(* The draws: an index, and at an average-strategy node the set of actions drawn *)
(* and the one that is forced when the set is empty.                             *)

IsOwn(c, n) == Node(c, n).player = c.player
Indices(s) == 1 .. Len(s)
IsExpanded(c, n) ==
  /\ Node(c, n).type = "Decision"
  /\ c.mode \in {"Exact", "PublicChance"} \/ (c.mode = "External" /\ IsOwn(c, n))
IsAverageSampled(c, n) == Node(c, n).type = "Decision" /\ c.mode = "AverageStrategy" /\ IsOwn(c, n)
NoDraw == <<{}, 0>>
Draws(c, n) ==
  IF Node(c, n).type = "Terminal" \/ IsExpanded(c, n) \/ (Node(c, n).type = "Chance" /\ c.mode = "Exact")
  THEN {NoDraw}
  ELSE ({{}} \X Indices(Node(c, n).kids))
       \cup (IF IsAverageSampled(c, n) THEN (SUBSET Indices(Node(c, n).kids) \ {{}}) \X {0} ELSE {})
\* The probability of a draw: sample_chance_child, sample_weighted_prefix, bernoulli.
sample_chance_child(c, n, index) == Over(Node(c, n).probability[index], SumQ(Node(c, n).probability))
sample_weighted_prefix(weights, index) ==
  IF SumQ(weights) = Zero THEN IF index = 1 THEN One ELSE Zero ELSE Over(weights[index], SumQ(weights))
Bernoulli(rho, drawn) ==
  ProductQ([a \in DOMAIN rho |-> IF a \in drawn THEN rho[a] ELSE Minus(One, rho[a])])
DrawProbability(c, n, draw) ==
  IF draw = NoDraw THEN One
  ELSE IF Node(c, n).type = "Chance" THEN sample_chance_child(c, n, draw[2])
  ELSE IF IsAverageSampled(c, n)
       THEN LET rho == c.cache[Node(c, n).infoset].sampling
            IN Times(Bernoulli(rho, draw[1]), IF draw[1] = {} THEN sample_weighted_prefix(rho, draw[2]) ELSE One)
       ELSE sample_weighted_prefix(Average(c, n), draw[2])

-----------------------------------------------------------------------------
(* A worker's scratch *)

\* WorkerScratch::prepare: the arrays every node of a trajectory shares.
prepare(c) == [action_values |-> [a \in 1 .. MaxActions(c) |-> Zero],
               frame_values |-> [d \in 1 .. MaxDepth(c) + 1 |-> [a \in 1 .. MaxActions(c) |-> Zero]],
               rows |-> <<>>, observed |-> <<>>]
ensure_row(c, s, I) ==
  IF I \in DOMAIN s.rows THEN s
  ELSE LET zeros == [k \in 1 .. BucketCount(c, I) * ActionCount(c, I) |-> Zero]
       IN [s EXCEPT !.rows = @ @@ (I :> [regret |-> zeros, strategy |-> zeros])]

\* delta[bucket][action] added to a row at the places row_value_index gives.
AddToRow(c, I, row, delta) ==
  LET cells(k) == {x \in (1 .. BucketCount(c, I)) \X (1 .. ActionCount(c, I)) :
                     row_value_index(c, I, x[1], x[2]) = k}
  IN [k \in DOMAIN row |-> Plus(row[k], FoldSet(LAMBDA x, sum : Plus(delta[x[1]][x[2]], sum), Zero, cells(k)))]
\* What a visit of node n adds to its row: the reach-weighted strategy of every bucket,
\* and, for the traverser, the regrets under the values of its actions.
WriteStrategy(c, s0, n) ==
  LET I == Node(c, n).infoset
      s == ensure_row(c, s0, I)
      own_reach == c.p[Node(c, n).player]
  IN [s EXCEPT !.rows[I].strategy =
        AddToRow(c, I, @, [b \in 1 .. BucketCount(c, I) |->
                             [a \in 1 .. ActionCount(c, I) |-> Times(own_reach, Current(c, n, b)[a])]])]
node_value(c, n, bucket, values) == Dot(Current(c, n, bucket), values)
WriteRegret(c, s, n, values) ==
  LET I == Node(c, n).infoset
      opponent_reach == c.p[1 - c.player]
  IN [s EXCEPT !.rows[I].regret =
        AddToRow(c, I, @, [b \in 1 .. BucketCount(c, I) |->
                             [a \in 1 .. ActionCount(c, I) |->
                                Times(opponent_reach, Minus(values[a], node_value(c, n, b, values)))]])]
ReturnValue(c, n, values) == Dot(Average(c, n), values)

\* The moving averages that reduce the variance, and what a visit adds to them.
variance_reduction_enabled(c) == c.vr
infoset_action_baseline(c, I, action) ==
  IF variance_reduction_enabled(c) THEN c.game.baseline[I][action] ELSE Zero
node_action_baseline(c, n, action) ==
  IF variance_reduction_enabled(c) THEN c.game.chance_baseline[n][action] ELSE Zero
Observe(c, s, key, action, sample) ==
  LET old == IF <<key, action>> \in DOMAIN s.observed THEN s.observed[<<key, action>>] ELSE <<Zero, 0>>
  IN IF ~variance_reduction_enabled(c) THEN s
     ELSE [s EXCEPT !.observed = (<<key, action>> :> <<Plus(old[1], sample), old[2] + 1>>) @@ @]
observe_infoset_action_baseline(c, s, n, action, sample) ==
  Observe(c, s, <<"infoset", Node(c, n).infoset>>, action, sample)
observe_node_action_baseline(c, s, n, action, sample) == Observe(c, s, <<"node", n>>, action, sample)

Returned(value, s) == [value |-> value, s |-> s]
ChildContext(c, n, action) == [c EXCEPT !.p[Node(c, n).player] = Times(@, Average(c, n)[action])]
\* The first entries of a shared array, those of the actions of n.
OfActions(c, n, array) == [a \in Indices(Node(c, n).kids) |-> array[a]]

-----------------------------------------------------------------------------
(* The recursive kernels.  traverse is the call through context.traverse_impl.   *)

RECURSIVE traverse(_, _, _)
RECURSIVE ExpandFrom(_, _, _, _)
RECURSIVE ExpandSampled(_, _, _, _)

\* The traverser's action values are kept in the scratch while the children are walked,
\* and a decision below writes its own into the same array.
ExpandFrom(c, n, s, action) ==
  IF action > Len(Node(c, n).kids) THEN s
  ELSE LET r == traverse(ChildContext(c, n, action), Node(c, n).kids[action], s)
       IN ExpandFrom(c, n, [r.s EXCEPT !.action_values[action] = r.value], action + 1)
WriteExpanded(c, n, s) ==
  LET values == OfActions(c, n, s.action_values)
      written == WriteStrategy(c, s, n)
  IN Returned(ReturnValue(c, n, values), IF IsOwn(c, n) THEN WriteRegret(c, written, n, values) ELSE written)
traverse_full_expansion_decision_dense_validation(c, n, s) == WriteExpanded(c, n, ExpandFrom(c, n, s, 1))
traverse_full_expansion_decision_generic(c, n, s) == WriteExpanded(c, n, ExpandFrom(c, n, s, 1))
traverse_full_expansion_decision(c, n, s) ==
  IF can_use_dense_validation(c) THEN traverse_full_expansion_decision_dense_validation(c, n, s)
                                 ELSE traverse_full_expansion_decision_generic(c, n, s)

Corrected_once(weights, baseline, index, value) == Minus(value, baseline[index])    \* (mutant: not added back)
\* The value of a sampled child, its baseline replaced by the expected one.
Corrected(weights, baseline, index, value) == Plus(Minus(value, baseline[index]), Dot(weights, baseline))
SampleOpponent(c, n, s, vr) ==
  LET index == c.tape[n][2]
      r == traverse(ChildContext(c, n, index), Node(c, n).kids[index], WriteStrategy(c, s, n))
      baseline == [a \in Indices(Node(c, n).kids) |-> infoset_action_baseline(c, Node(c, n).infoset, a)]
  IN IF ~vr THEN r
     ELSE Returned(Corrected(Average(c, n), baseline, index, r.value),
                   observe_infoset_action_baseline(c, r.s, n, index, r.value))
traverse_opponent_sampled_decision_dense_validation(c, n, s, vr) == SampleOpponent(c, n, s, vr)
traverse_opponent_sampled_decision_generic(c, n, s, vr) == SampleOpponent(c, n, s, vr)
traverse_opponent_sampled_decision(c, n, s, vr) ==
  IF can_use_dense_validation(c) THEN traverse_opponent_sampled_decision_dense_validation(c, n, s, vr)
                                 ELSE traverse_opponent_sampled_decision_generic(c, n, s, vr)

\* Average-strategy sampling.  Each action is drawn by itself; when none is, one is forced.
SampledActions(draw) == IF draw[1] = {} THEN {draw[2]} ELSE draw[1]
InclusionProbability_drawn(rho, action) == rho[action]    \* (mutant: the forced action is not accounted for)
\* The probability that an action is looked at: drawn, or forced because nothing was.
InclusionProbability(rho, action) ==
  LET none == ProductQ([a \in DOMAIN rho |-> Minus(One, rho[a])])
      raised == IF SumQ(rho) = Zero THEN rho[action]
                ELSE Smaller(One, Plus(rho[action], Times(none, Over(rho[action], SumQ(rho)))))
  IN Larger(raised, AsEpsilon)
ExpandSampled(c, n, s, action) ==
  IF action > Len(Node(c, n).kids) THEN s
  ELSE IF action \notin SampledActions(c.tape[n]) THEN ExpandSampled(c, n, s, action + 1)
  ELSE LET r == traverse(ChildContext(c, n, action), Node(c, n).kids[action], s)
           included == InclusionProbability(c.cache[Node(c, n).infoset].sampling, action)
           baseline == infoset_action_baseline(c, Node(c, n).infoset, action)
           value == IF c.vr THEN Plus(baseline, Over(Minus(r.value, baseline), included)) ELSE Over(r.value, included)
       IN ExpandSampled(c, n, [observe_infoset_action_baseline(c, r.s, n, action, r.value)
                               EXCEPT !.action_values[action] = value], action + 1)
traverse_average_strategy_decision(c, n, s) ==
  LET cleared == [WriteStrategy(c, s, n) EXCEPT
                    !.action_values = [a \in DOMAIN @ |-> IF a \in Indices(Node(c, n).kids) THEN Zero ELSE @[a]]]
      expanded == ExpandSampled(c, n, cleared, 1)
      values == OfActions(c, n, expanded.action_values)
  IN Returned(ReturnValue(c, n, values), WriteRegret(c, expanded, n, values))

SampledChance(c, n, s) == traverse(c, Node(c, n).kids[c.tape[n][2]], s)
CorrectedChance(c, n, s) ==
  LET r == SampledChance(c, n, s)
      baseline == [i \in Indices(Node(c, n).kids) |-> node_action_baseline(c, n, i)]
  IN Returned(Corrected(Node(c, n).probability, baseline, c.tape[n][2], r.value),
              observe_node_action_baseline(c, r.s, n, c.tape[n][2], r.value))
RECURSIVE ExactChance(_, _, _, _)
ExactChance(c, n, s, i) ==
  IF i > Len(Node(c, n).kids) THEN Returned(Zero, s)
  ELSE LET r == traverse(c, Node(c, n).kids[i], s)
           rest == ExactChance(c, n, r.s, i + 1)
       IN Returned(Plus(Times(Node(c, n).probability[i], r.value), rest.value), rest.s)

IsTerminal(c, n) == Node(c, n).type = "Terminal"
Utility(c, n, s) == Returned(<<Node(c, n).utility[c.player], 1>>, s)
traverse_exact(c, n, s) ==
  IF IsTerminal(c, n) THEN Utility(c, n, s)
  ELSE IF Node(c, n).type = "Chance" THEN ExactChance(c, n, s, 1) ELSE traverse_full_expansion_decision(c, n, s)
traverse_public_chance(c, n, s) ==
  IF IsTerminal(c, n) THEN Utility(c, n, s)
  ELSE IF Node(c, n).type = "Chance" THEN SampledChance(c, n, s) ELSE traverse_full_expansion_decision(c, n, s)
traverse_public_chance_vr(c, n, s) ==
  IF IsTerminal(c, n) THEN Utility(c, n, s)
  ELSE IF Node(c, n).type = "Chance" THEN CorrectedChance(c, n, s) ELSE traverse_full_expansion_decision(c, n, s)
traverse_external(c, n, s) ==
  IF IsTerminal(c, n) THEN Utility(c, n, s)
  ELSE IF Node(c, n).type = "Chance" THEN SampledChance(c, n, s)
  ELSE IF IsOwn(c, n) THEN traverse_full_expansion_decision(c, n, s)
                      ELSE traverse_opponent_sampled_decision(c, n, s, FALSE)
traverse_external_vr(c, n, s) ==
  IF IsTerminal(c, n) THEN Utility(c, n, s)
  ELSE IF Node(c, n).type = "Chance" THEN CorrectedChance(c, n, s)
  ELSE IF IsOwn(c, n) THEN traverse_full_expansion_decision(c, n, s)
                      ELSE traverse_opponent_sampled_decision(c, n, s, TRUE)
traverse_average_strategy(c, n, s) ==
  IF IsTerminal(c, n) THEN Utility(c, n, s)
  ELSE IF Node(c, n).type = "Chance" THEN SampledChance(c, n, s)
  ELSE IF IsOwn(c, n) THEN traverse_average_strategy_decision(c, n, s)
                      ELSE traverse_opponent_sampled_decision(c, n, s, FALSE)
traverse_average_strategy_vr(c, n, s) ==
  IF IsTerminal(c, n) THEN Utility(c, n, s)
  ELSE IF Node(c, n).type = "Chance" THEN CorrectedChance(c, n, s)
  ELSE IF IsOwn(c, n) THEN traverse_average_strategy_decision(c, n, s)
                      ELSE traverse_opponent_sampled_decision(c, n, s, TRUE)
traverse(c, n, s) ==
  CASE c.mode = "Exact" -> traverse_exact(c, n, s)
    [] c.mode = "PublicChance" -> IF c.vr THEN traverse_public_chance_vr(c, n, s) ELSE traverse_public_chance(c, n, s)
    [] c.mode = "External" -> IF c.vr THEN traverse_external_vr(c, n, s) ELSE traverse_external(c, n, s)
    [] c.mode = "AverageStrategy" ->
         IF c.vr THEN traverse_average_strategy_vr(c, n, s) ELSE traverse_average_strategy(c, n, s)

-----------------------------------------------------------------------------
(* The iterative external kernel: a frame per node on the path *)

Frame(n, p) == [node |-> n, child |-> 0, stage |-> "Enter", p |-> p]
Top == frames[Len(frames)]
Below == SubSeq(frames, 1, Len(frames) - 1)
TopNode == Node(context, Top.node)
\* The context of the frame on top: the reach is the frame's.
AtTop == [context EXCEPT !.p = Top.p]
PushChild(frame, action) ==
  frames' = Append(Append(Below, frame), Frame(TopNode.kids[action], ChildContext(AtTop, Top.node, action).p))

EnterTerminal ==
  /\ frames # <<>> /\ Top.stage = "Enter" /\ TopNode.type = "Terminal"
  /\ last_value' = <<TopNode.utility[context.player], 1>>
  /\ frames' = Below /\ UNCHANGED <<context, scratch>>
EnterChance ==
  /\ frames # <<>> /\ Top.stage = "Enter" /\ TopNode.type = "Chance"
  /\ frames' = Append(Append(Below, [Top EXCEPT !.stage = "ResumeAfterChanceChild"]),
                      Frame(TopNode.kids[context.tape[Top.node][2]], Top.p))
  /\ UNCHANGED <<context, last_value, scratch>>
EnterOpponent ==
  /\ frames # <<>> /\ Top.stage = "Enter" /\ TopNode.type = "Decision" /\ ~IsOwn(context, Top.node)
  /\ scratch' = WriteStrategy(AtTop, scratch, Top.node)
  /\ PushChild([Top EXCEPT !.stage = "ResumeAfterOpponentChild"], context.tape[Top.node][2])
  /\ UNCHANGED <<context, last_value>>
EnterTraverser ==
  /\ frames # <<>> /\ Top.stage = "Enter" /\ TopNode.type = "Decision" /\ IsOwn(context, Top.node)
  /\ PushChild([Top EXCEPT !.stage = "ResumeAfterTraversingChild"], 1)
  /\ UNCHANGED <<context, last_value, scratch>>
ResumeAfterSampledChild ==
  /\ frames # <<>> /\ Top.stage \in {"ResumeAfterChanceChild", "ResumeAfterOpponentChild"}
  /\ frames' = Below /\ UNCHANGED <<context, last_value, scratch>>

Stored_shared == [scratch EXCEPT !.frame_values[1][Top.child + 1] = last_value]    \* (mutant: one array for all depths)
\* The value of the child that returned goes to the array of this depth; then the next
\* child is entered, or, after the last, the row is written.
Stored == [scratch EXCEPT !.frame_values[Len(frames)][Top.child + 1] = last_value]
ResumeAfterTraversingChild ==
  /\ frames # <<>> /\ Top.stage = "ResumeAfterTraversingChild"
  /\ LET advanced == [Top EXCEPT !.child = @ + 1]
         values == OfActions(context, Top.node, Stored.frame_values[Len(frames)])
     IN IF advanced.child < Len(TopNode.kids)
        THEN /\ scratch' = Stored /\ PushChild(advanced, advanced.child + 1)
             /\ UNCHANGED <<context, last_value>>
        ELSE /\ scratch' = WriteRegret(AtTop, WriteStrategy(AtTop, Stored, Top.node), Top.node, values)
             /\ last_value' = ReturnValue(context, Top.node, values)
             /\ frames' = Below /\ UNCHANGED context

\* execute_worker_batch on one trajectory with a recursive kernel.
RunRecursive ==
  /\ context.kernel = "recursive" /\ frames # <<>>
  /\ LET r == traverse(context, 1, scratch) IN last_value' = r.value /\ scratch' = r.s
  /\ frames' = <<>> /\ UNCHANGED context
LoopTurn ==
  /\ context.kernel = "iterative"
  /\ \/ EnterTerminal \/ EnterChance \/ EnterOpponent \/ EnterTraverser
     \/ ResumeAfterSampledChild \/ ResumeAfterTraversingChild

-----------------------------------------------------------------------------
(* Export: the strategy sums of a bucket over their total, uniform where there are none *)

StrategySumRow(c, I) ==
  AddToRow(c, I, [k \in 1 .. BucketCount(c, I) * ActionCount(c, I) |-> Zero],
           [b \in 1 .. BucketCount(c, I) |-> [a \in 1 .. ActionCount(c, I) |-> <<c.game.sum[I][b][a], 1>>]])
Normalised(values) ==
  [a \in DOMAIN values |-> IF SumQ(values) = Zero THEN Q(1, Len(values)) ELSE Over(values[a], SumQ(values))]
ReadBucket(c, I, bucket) ==
  [a \in 1 .. ActionCount(c, I) |-> StrategySumRow(c, I)[row_value_index(c, I, bucket, a)]]
\* One row per infoset, bucket after bucket whatever the layout of the table.
export_average_strategy(c, I) ==
  LET values(bucket) ==
        IF c.sparse THEN ReadBucket(c, I, bucket)
        ELSE [a \in 1 .. ActionCount(c, I) |->
                StrategySumRow(c, I)[IF c.layout = "InfosetActionHand"
                                     THEN (a - 1) * BucketCount(c, I) + bucket
                                     ELSE (bucket - 1) * ActionCount(c, I) + a]]
  IN [k \in 1 .. BucketCount(c, I) * ActionCount(c, I) |->
        Normalised(values(1 + (k - 1) \div ActionCount(c, I)))[1 + ((k - 1) % ActionCount(c, I))]]
\* The same in the layout of the table.
export_average_strategy_table(c, I) ==
  AddToRow(c, I, [k \in 1 .. BucketCount(c, I) * ActionCount(c, I) |-> Zero],
           [b \in 1 .. BucketCount(c, I) |-> Normalised(ReadBucket(c, I, b))])
\* A root without an infoset, and a bucket the root does not have, export as uniform.
export_root_average_strategy(c, bucket) ==
  LET I == Node(c, 1).infoset
      uniform == [a \in Indices(Node(c, 1).kids) |-> Q(1, Len(Node(c, 1).kids))]
  IN IF Node(c, 1).type # "Decision" THEN <<>>
     ELSE IF bucket > BucketCount(c, I) THEN uniform
     ELSE Normalised(ReadBucket(c, I, bucket))

-----------------------------------------------------------------------------
(* Configurations *)

RECURSIVE TapesUpTo(_, _)
TapesUpTo(c, n) ==
  IF n = 0 THEN {<<>>} ELSE {Append(tape, draw) : tape \in TapesUpTo(c, n - 1), draw \in Draws(c, n)}
Tapes(c) == TapesUpTo(c, Len(c.game.node))

\* The nodes below n, n included.
RECURSIVE Subtree(_, _)
Subtree(c, n) == {n} \cup UNION {Subtree(c, Node(c, n).kids[i]) : i \in DOMAIN Node(c, n).kids}
\* A decision that keeps its values in the shared array has another one below an action
\* that is walked after its first value is there.
Writes(c, n) == IsExpanded(c, n) \/ IsAverageSampled(c, n)
Nested(c, first) ==
  \E n \in Subtree(c, 1) : Writes(c, n) /\ \E i \in first .. Len(Node(c, n).kids) :
    \E m \in Subtree(c, Node(c, n).kids[i]) : Writes(c, m)

can_use_iterative_external_dense_traversal(c) == c.mode = "External" /\ ~c.vr /\ can_use_dense_validation(c)
\* An average-strategy decision keeps its draws in shared arrays as well: only games in
\* which no decision of the traverser follows another are sampled that way here.
Contexts ==
  {c \in {[game |-> game, player |-> player, mode |-> mode, vr |-> vr, layout |-> layout, sparse |-> sparse,
           kernel |-> kernel, p |-> (0 :> One @@ 1 :> One), tape |-> <<>>, current |-> <<>>, cache |-> <<>>] :
            game \in Games, player \in 0 .. 1, mode \in {"Exact", "PublicChance", "External", "AverageStrategy"},
            vr \in BOOLEAN, layout \in {"InfosetActionHand", "InfosetHandAction"}, sparse \in BOOLEAN,
            kernel \in {"recursive", "iterative", "expectation"}} :
     /\ c.kernel = "iterative" => can_use_iterative_external_dense_traversal(c)
     /\ c.kernel = "expectation" => can_use_dense_validation(c)
     /\ c.mode = "Exact" => ~c.vr /\ c.kernel # "expectation"
     /\ c.mode = "AverageStrategy" => ~Nested(c, 1)
     /\ c.sparse => c.layout = "InfosetActionHand"}
WithCaches(c) == [c EXCEPT !.current = compute_current_strategy_rows(c), !.cache = rebuild_average_policy_cache(c)]

FlatInit ==
  /\ \E c \in Contexts : LET ready == WithCaches(c) IN
       \E tape \in IF c.kernel = "expectation" THEN {<<>>} ELSE Tapes(ready) :
         context = [ready EXCEPT !.tape = tape]
  /\ frames = (IF context.kernel = "expectation" THEN <<>> ELSE <<Frame(1, context.p)>>)
  /\ last_value = Zero
  /\ scratch = prepare(context)
FlatNext == RunRecursive \/ LoopTurn

-----------------------------------------------------------------------------
(* The reference: every node has values of its own *)

RECURSIVE ValueOf(_, _)
RECURSIVE ActionValue(_, _, _)
ValueOf(c, n) ==
  LET kids == Node(c, n).kids
      drawn == c.tape[n][2]
  IN CASE Node(c, n).type = "Terminal" -> <<Node(c, n).utility[c.player], 1>>
       [] Node(c, n).type = "Chance" /\ c.mode = "Exact" ->
            Dot(Node(c, n).probability, [i \in Indices(kids) |-> ValueOf(c, kids[i])])
       [] Node(c, n).type = "Chance" /\ c.mode # "Exact" ->
            IF c.vr THEN Plus(ValueOf(c, kids[drawn]),
                              SumQ([i \in Indices(kids) |->
                                Times(Minus(Node(c, n).probability[i], IF i = drawn THEN One ELSE Zero),
                                      c.game.chance_baseline[n][i])]))
            ELSE ValueOf(c, kids[drawn])
       [] Writes(c, n) -> Dot(Average(c, n), [a \in Indices(kids) |-> ActionValue(c, n, a)])
       [] Node(c, n).type = "Decision" /\ ~Writes(c, n) ->
            IF c.vr THEN Plus(ValueOf(c, kids[drawn]),
                              SumQ([a \in Indices(kids) |->
                                Times(Minus(Average(c, n)[a], IF a = drawn THEN One ELSE Zero),
                                      c.game.baseline[Node(c, n).infoset][a])]))
            ELSE ValueOf(c, kids[drawn])
ActionValue(c, n, a) ==
  LET value == ValueOf(c, Node(c, n).kids[a])
      rho == c.cache[Node(c, n).infoset].sampling
      baseline == c.game.baseline[Node(c, n).infoset][a]
      none == ProductQ([b \in DOMAIN rho |-> Minus(One, rho[b])])
      chance == Times(rho[a], Plus(One, Over(none, SumQ(rho))))     \* of being drawn or forced
  IN IF IsExpanded(c, n) THEN value
     ELSE IF a \notin SampledActions(c.tape[n]) THEN Zero
     ELSE IF c.vr THEN Plus(baseline, Over(Minus(value, baseline), chance)) ELSE Over(value, chance)

\* The nodes a trajectory visits, and the reach of a player at one of them.
RECURSIVE VisitedFrom(_, _, _)
VisitedFrom(c, n, p) ==
  LET kids == Node(c, n).kids
      taken == IF Writes(c, n) THEN IF IsExpanded(c, n) THEN Indices(kids) ELSE SampledActions(c.tape[n])
               ELSE IF Node(c, n).type = "Chance" /\ c.mode = "Exact" THEN Indices(kids)
               ELSE IF kids = <<>> THEN {} ELSE {c.tape[n][2]}
      reach(i) == IF Node(c, n).type = "Chance" THEN p
                  ELSE [p EXCEPT ![Node(c, n).player] = Times(@, Average(c, n)[i])]
  IN {<<n, p>>} \cup UNION {VisitedFrom(c, kids[i], reach(i)) : i \in taken}
VisitsOf(c, I) == {v \in VisitedFrom(c, 1, c.p) : Node(c, v[1]).type = "Decision" /\ Node(c, v[1]).infoset = I}
ExpectedStrategy(c, I, b, a) ==
  FoldSet(LAMBDA v, sum : Plus(sum, Times(v[2][Node(c, v[1]).player], Current(c, v[1], b)[a])), Zero, VisitsOf(c, I))
ExpectedRegret(c, I, b, a) ==
  LET gain(n) == Minus(ActionValue(c, n, a),
                       Dot(Current(c, n, b), [x \in Indices(Node(c, n).kids) |-> ActionValue(c, n, x)]))
  IN FoldSet(LAMBDA v, sum : Plus(sum, Times(v[2][1 - c.player], gain(v[1]))), Zero,
             {v \in VisitsOf(c, I) : IsOwn(c, v[1])})

\* What a finished trajectory leaves behind.
CellOf(c, I, row, b, a) ==
  row[IF c.layout = "InfosetActionHand" THEN (a - 1) * BucketCount(c, I) + b ELSE (b - 1) * ActionCount(c, I) + a]
TrajectoryRight(c) ==
  /\ last_value = ValueOf(c, 1)
  /\ DOMAIN scratch.rows = {I \in Infosets(c.game) : VisitsOf(c, I) # {}}
  /\ \A I \in DOMAIN scratch.rows : \A b \in 1 .. BucketCount(c, I), a \in 1 .. ActionCount(c, I) :
       /\ CellOf(c, I, scratch.rows[I].strategy, b, a) = ExpectedStrategy(c, I, b, a)
       /\ CellOf(c, I, scratch.rows[I].regret, b, a) = ExpectedRegret(c, I, b, a)
\* The values returned over all tapes, weighted by their probability, are the value of the
\* game under the average policy.
RECURSIVE Expectation(_, _)
Expectation(c, tape) ==
  LET n == Len(tape) + 1 IN
  IF n > Len(c.game.node) THEN traverse([c EXCEPT !.tape = tape], 1, prepare(c)).value
  ELSE FoldSet(LAMBDA draw, sum : Plus(sum, Times(DrawProbability(c, n, draw), Expectation(c, Append(tape, draw)))),
               Zero, Draws(c, n))
Unbiased(c) ==
  Expectation(c, <<>>) = ValueOf([c EXCEPT !.mode = "Exact", !.tape = [n \in DOMAIN c.game.node |-> NoDraw]], 1)

\* The three exports give every bucket the shares of its own strategy sums.
ExportsAgree(c) ==
  \A I \in Infosets(c.game) : \A b \in 1 .. BucketCount(c, I) :
    LET sums == c.game.sum[I][b]
        share == Normalised([a \in DOMAIN sums |-> <<sums[a], 1>>])
    IN /\ \A a \in DOMAIN sums : /\ export_average_strategy(c, I)[(b - 1) * Len(sums) + a] = share[a]
                                 /\ CellOf(c, I, export_average_strategy_table(c, I), b, a) = share[a]
       /\ I = Node(c, 1).infoset => export_root_average_strategy(c, b) = share

\* A trajectory of the iterative kernel writes, whatever the game, what its definition says,
\* within the frames it has; a recursive one does where no decision it expands lies below
\* a later action of another.  And every sampler is unbiased: with baselines of any value,
\* except average-strategy sampling, which leaves out the baseline of an action it skips.
FlatSamplingSound ==
  /\ Len(frames) <= MaxDepth(context) + 1
  /\ (context.kernel # "expectation" /\ frames = <<>> /\ (context.kernel = "iterative" \/ ~Nested(context, 2)))
       => TrajectoryRight(context)
  /\ (context.kernel = "expectation" /\ ~Nested(context, 2) /\ ~(context.mode = "AverageStrategy" /\ context.vr))
       => Unbiased(context)
  /\ (frames = <<>> /\ context.mode = "Exact") => ExportsAgree(context)
=============================================================================
