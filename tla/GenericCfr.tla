------------------------------ MODULE GenericCfr ------------------------------
(* DCFRSolver::solve (solver/generic/dcfr.hpp): iterations that discount the      *)
(* tables and traverse the game once for each player, then the average strategy,  *)
(* its value and its exploitability, with the best responses of solver.hpp and    *)
(* exploit.cpp.  A step is one loop turn of solve: one discounting, one traversal *)
(* or one group of a round of a best response.  Numbers are exact.                *)
EXTENDS Fractions, FiniteSetsExt, SequencesExt, TLC

CONSTANTS Games,           \* Set of records [node, locked, deals]; a node's key is a sequence
          MaxIterations

VARIABLES game,
          solver,    \* [pc, iteration, target, player, average, value, gap]
          table,     \* infosets_: [rows, regret, strategy, iteration], rows key -> [offset, count, last]
          br,        \* [best_action, previous, pending, rounds] of constrained_best_response_value
          before     \* The table before the last traversal

genericVars == <<game, solver, table, br, before>>

-----------------------------------------------------------------------------
(* Game states *)

Node(n) == game.node[n]
IsTerminal(n) == Node(n).type = "Terminal"
IsChance(n) == Node(n).type = "Chance"
Kids(n) == Node(n).kids
Decisions(player) == {n \in DOMAIN game.node : Node(n).type = "Decision" /\ Node(n).player = player}
Keys(player) == {Node(n).key : n \in Decisions(player)}
ActionCount(key) == Len(Kids(CHOOSE n \in DOMAIN game.node : Node(n).key = key))
UniformOf(count) == [a \in 1 .. count |-> Q(1, count)]

-----------------------------------------------------------------------------
(* InfosetAccumTable: the rows are slices of two arenas, which move when they grow. *)

EmptyTable == [rows |-> <<>>, regret |-> <<>>, strategy |-> <<>>, iteration |-> 0]
ensure(t, key, count) ==
  IF key \in DOMAIN t.rows THEN t
  ELSE [t EXCEPT !.rows = (key :> [offset |-> Len(t.regret), count |-> count, last |-> t.iteration]) @@ @,
                 !.regret = @ \o [a \in 1 .. count |-> Zero], !.strategy = @ \o [a \in 1 .. count |-> Zero]]
\* A view points into the arenas as they are when it is taken; what is written through it after
\* they have moved is lost.
View(t, key) == [base |-> Len(t.regret), offset |-> t.rows[key].offset]
Slice(arena, row) == [a \in 1 .. row.count |-> arena[row.offset + a]]
RegretsOf(t, key) == Slice(t.regret, t.rows[key])
SumsOf(t, key) == Slice(t.strategy, t.rows[key])
Added(arena, view, delta) ==
  IF view.base # Len(arena) THEN arena
  ELSE [i \in DOMAIN arena |->
         IF i - view.offset \in DOMAIN delta THEN Plus(arena[i], delta[i - view.offset]) ELSE arena[i]]

\* alpha = gamma = 1 and beta = 0.
dcfr_iteration_scales(t) == [positive |-> Q(t, t + 1), negative |-> Q(1, 2), strategy |-> Q(t, t + 1)]
DiscountedBy(x, scales) == Times(x, IF x[1] > 0 THEN scales.positive ELSE IF x[1] < 0 THEN scales.negative ELSE One)
\* The iterations of every arena place that are still to be applied.
Due_fromStart(t, i, target) == 1 .. target     \* (mutant: a row starts with no discount behind it)
Due(t, i, target) ==
  LET row == CHOOSE row \in {t.rows[key] : key \in DOMAIN t.rows} : i \in row.offset + 1 .. row.offset + row.count
  IN row.last + 1 .. target
RECURSIVE DiscountFrom(_, _, _)
DiscountFrom(x, iteration, target) ==
  IF iteration > target THEN x
  ELSE DiscountFrom(DiscountedBy(x, dcfr_iteration_scales(iteration)), iteration + 1, target)
begin_dcfr_iteration(t, target) ==
  IF target = t.iteration THEN t
  ELSE [rows |-> [key \in DOMAIN t.rows |-> [t.rows[key] EXCEPT !.last = target]],
        regret |-> [i \in DOMAIN t.regret |-> DiscountFrom(t.regret[i], Min(Due(t, i, target) \cup {target + 1}), target)],
        strategy |-> [i \in DOMAIN t.strategy |->
          Times(t.strategy[i], ProductQ(SetToSeq({dcfr_iteration_scales(k).strategy : k \in Due(t, i, target)})))],
        iteration |-> target]

normalize_strategy(regrets) ==
  LET positive == [a \in DOMAIN regrets |-> Larger(Zero, regrets[a])]
      total == SumQ(positive)
  IN [a \in DOMAIN regrets |-> IF total = Zero THEN Q(1, Len(regrets)) ELSE Over(positive[a], total)]
normalize_or_uniform(values) ==
  LET total == SumQ(values)
  IN [a \in DOMAIN values |-> IF Less(Zero, total) THEN Over(values[a], total) ELSE Q(1, Len(values))]

\* lookup_infoset_id stores a locked strategy when its length fits; one of another length is ignored.
IsLocked(key, count) == key \in DOMAIN game.locked /\ Len(game.locked[key]) = count

-----------------------------------------------------------------------------
(* DCFRSolver::cfr: c is [player, reach, chance]; the table is threaded through the children. *)

Result(value, t) == [value |-> value, t |-> t]
StrategyAt(t, key) ==
  IF IsLocked(key, t.rows[key].count) THEN game.locked[key] ELSE normalize_strategy(RegretsOf(t, key))
RegretView_kept(t, view, key) == view     \* (mutant: the view taken before the children is used)
\* The children may have activated infosets, so the row is looked up again.
RegretView(t, view, key) == View(t, key)

RECURSIVE cfr(_, _, _), ChanceFrom(_, _, _, _), ActionsFrom(_, _, _, _, _)
ChanceFrom(c, n, t, i) ==
  IF i > Len(Kids(n)) THEN Result(Zero, t)
  ELSE LET p == Node(n).probability[i]
           child == cfr([c EXCEPT !.chance = Times(@, p)], Kids(n)[i], t)
           rest == ChanceFrom(c, n, child.t, i + 1)
       IN Result(Plus(Times(p, child.value), rest.value), rest.t)
\* The values of the actions from i on, and the table after them.
ActionsFrom(c, n, t, strategy, i) ==
  IF i > Len(Kids(n)) THEN Result(<<>>, t)
  ELSE LET child == cfr([c EXCEPT !.reach[Node(n).player] = Times(@, strategy[i])], Kids(n)[i], t)
           rest == ActionsFrom(c, n, child.t, strategy, i + 1)
       IN Result(<<child.value>> \o rest.value, rest.t)
Weighted(weight, values) == [a \in DOMAIN values |-> Times(weight, values[a])]
\* The value of a node, and the regrets of its actions where the player may move them.
AfterActions(c, n, key, view, strategy, below) ==
  LET node_value == Dot(strategy, below.value)
      gains == [a \in DOMAIN strategy |-> Minus(below.value[a], node_value)]
  IN Result(node_value,
       IF Node(n).player = c.player /\ ~IsLocked(key, Len(Kids(n)))
       THEN [below.t EXCEPT !.regret =
              Added(@, RegretView(below.t, view, key), Weighted(Times(c.chance, c.reach[1 - c.player]), gains))]
       ELSE below.t)
cfr(c, n, t0) ==
  LET key == Node(n).key
      own == Node(n).player = c.player
      t1 == ensure(t0, key, Len(Kids(n)))
      view == View(t1, key)
      strategy == StrategyAt(t1, key)
      t2 == IF own THEN [t1 EXCEPT !.strategy = Added(@, view, Weighted(Times(c.chance, c.reach[c.player]), strategy))] ELSE t1
  IN IF IsTerminal(n) THEN Result(Node(n).utility[c.player + 1], t0)
     ELSE IF IsChance(n) THEN ChanceFrom(c, n, t0, 1)
     ELSE AfterActions(c, n, key, view, strategy, ActionsFrom(c, n, t2, strategy, 1))

build_average_strategy(t) ==
  [key \in DOMAIN t.rows |->
    IF IsLocked(key, t.rows[key].count) THEN game.locked[key] ELSE normalize_or_uniform(SumsOf(t, key))]

-----------------------------------------------------------------------------
(* The value of a profile, and best responses to it *)

\* strategy_for_infoset: a strategy of the right length, or the uniform one.
strategy_for_infoset(profile, key, count) ==
  IF key \in DOMAIN profile /\ Len(profile[key]) = count THEN profile[key] ELSE UniformOf(count)
WeightsAt(profile, n) ==
  IF IsChance(n) THEN Node(n).probability ELSE strategy_for_infoset(profile, Node(n).key, Len(Kids(n)))
RECURSIVE profile_values(_, _, _)
profile_values(profile, n, player) ==
  IF IsTerminal(n) THEN Node(n).utility[player + 1]
  ELSE Dot(WeightsAt(profile, n), [i \in DOMAIN Kids(n) |-> profile_values(profile, Kids(n)[i], player)])
expected_value(profile, n, player) == profile_values(profile, n, player)

\* constrained_br_state_value, br_state_value: the responder plays best_action, or its first action.
RECURSIVE br_state_value(_, _, _, _)
br_state_value(profile, best_action, n, player) ==
  LET key == Node(n).key
      value(i) == br_state_value(profile, best_action, Kids(n)[i], player)
  IN IF IsTerminal(n) THEN Node(n).utility[player + 1]
     ELSE IF ~IsChance(n) /\ Node(n).player = player
     THEN value(IF key \in DOMAIN best_action THEN best_action[key] ELSE 1)
     ELSE Dot(WeightsAt(profile, n), [i \in DOMAIN Kids(n) |-> value(i)])
\* collect_infosets: the counterfactual reach of a node, over the edges that are not the responder's.
RECURSIVE collect_infosets(_, _, _, _)
collect_infosets(profile, n, reach, player) ==
  LET own == ~IsChance(n) /\ Node(n).player = player
      below(i) == collect_infosets(profile, Kids(n)[i], IF own THEN reach ELSE Times(reach, WeightsAt(profile, n)[i]), player)
  IN IF IsTerminal(n) THEN {}
     ELSE (IF own THEN {[node |-> n, reach |-> reach]} ELSE {}) \cup UNION {below(i) : i \in DOMAIN Kids(n)}
collect_br_infosets(profile, n, reach, player) == collect_infosets(profile, n, reach, player)
constrained_br_state_value(profile, best_action, n, player) == br_state_value(profile, best_action, n, player)
Entries(profile, roots, player) == UNION {collect_infosets(profile, root.node, root.reach, player) : root \in roots}
GroupValue(profile, best_action, entries, action, player) ==
  LET seq == SetToSeq(entries)
  IN SumQ([i \in DOMAIN seq |-> Times(seq[i].reach,
             br_state_value(profile, best_action, Kids(seq[i].node)[action], player))])
\* The first of the best actions of a group.
BestOf(profile, best_action, entries, player) ==
  LET count == Len(Kids((CHOOSE e \in entries : TRUE).node))
      value == [a \in 1 .. count |-> GroupValue(profile, best_action, entries, a, player)]
  IN Min({a \in 1 .. count : \A b \in 1 .. count : ~Less(value[a], value[b])})

-----------------------------------------------------------------------------
(* exploit.cpp evaluates an undealt heads-up root by its deals, each with the same weight. *)

DealRoots == {[node |-> game.deals[i].root, reach |-> Q(1, Len(game.deals))] : i \in DOMAIN game.deals}
\* BettingTree is built from the first deal, and its nodes stand for the same nodes of the others.
SameNode(n, deal) == n + game.deals[deal].root - game.deals[1].root
terminal_utility(n, deal, player) == Node(SameNode(n, deal)).utility[player + 1]
\* The suffix of a flat node is the key of the first deal, its hole cards included.
FlatKey(n, deal) == <<game.deals[deal].hole[Node(n).player + 1]>> \o Node(n).key
RECURSIVE flat_expected_value(_, _, _, _)
flat_expected_value(profile, n, deal, player) ==
  IF IsTerminal(n) THEN terminal_utility(n, deal, player)
  ELSE Dot(IF IsChance(n) THEN Node(n).probability ELSE strategy_for_infoset(profile, FlatKey(n, deal), Len(Kids(n))),
           [i \in DOMAIN Kids(n) |-> flat_expected_value(profile, Kids(n)[i], deal, player)])
compute_restricted_game_value(profile, player) ==
  SumQ([i \in DOMAIN game.deals |-> Times(Q(1, Len(game.deals)), flat_expected_value(profile, game.deals[1].root, i, player))])

\* Rounds over the groups, in some order, until one changes nothing.
RECURSIVE AfterRound(_, _, _, _, _), Settled(_, _, _, _)
AfterRound(profile, entries, best_action, keys, player) ==
  IF keys = {} THEN best_action
  ELSE LET key == CHOOSE key \in keys : TRUE
           best == BestOf(profile, best_action, {e \in entries : Node(e.node).key = key}, player)
       IN AfterRound(profile, entries, (key :> best) @@ best_action, keys \ {key}, player)
Settled(profile, entries, best_action, player) ==
  LET next == AfterRound(profile, entries, best_action, {Node(e.node).key : e \in entries}, player)
  IN IF next = best_action THEN best_action ELSE Settled(profile, entries, next, player)
ResponseValue(profile, roots, player) ==
  LET best_action == Settled(profile, Entries(profile, roots, player), <<>>, player)
      seq == SetToSeq(roots)
  IN SumQ([i \in DOMAIN seq |-> Times(seq[i].reach, br_state_value(profile, best_action, seq[i].node, player))])
best_response_value(profile, player) == ResponseValue(profile, {[node |-> 1, reach |-> One]}, player)
chance_enum_best_response_value(profile, player) == ResponseValue(profile, DealRoots, player)
\* The value of the profile for the first player and the mean gap, of a dealt and of an undealt root.
compute_exploitability_and_value(profile) ==
  LET value(player) == IF game.deals = <<>> THEN expected_value(profile, 1, player)
                       ELSE compute_restricted_game_value(profile, player)
      best(player) == IF game.deals = <<>> THEN best_response_value(profile, player)
                      ELSE chance_enum_best_response_value(profile, player)
  IN [game_value |-> value(0),
      exploitability |-> Times(Q(1, 2), Plus(Minus(best(0), value(0)), Minus(best(1), value(1))))]

-----------------------------------------------------------------------------
(* solve() *)

StartAt(pc) ==
  /\ \E target \in 0 .. MaxIterations :
       solver = [pc |-> pc, iteration |-> 0, target |-> target, player |-> 0, average |-> <<>>,
                 value |-> <<Zero, Zero>>, gap |-> <<>>]
  /\ table = EmptyTable /\ before = EmptyTable
  /\ br = [best_action |-> <<>>, previous |-> <<>>, pending |-> {}, rounds |-> 0]
GenericInit == game \in Games /\ StartAt("iterate")

BeginIteration ==
  /\ solver.pc = "iterate" /\ solver.iteration < solver.target
  /\ table' = begin_dcfr_iteration(table, solver.iteration + 1)
  /\ solver' = [solver EXCEPT !.pc = "traverse", !.iteration = @ + 1, !.player = 0]
  /\ UNCHANGED <<game, br, before>>
Traverse ==
  /\ solver.pc = "traverse"
  /\ table' = cfr([player |-> solver.player, reach |-> 0 :> One @@ 1 :> One, chance |-> One], 1, table).t
  /\ before' = table
  /\ solver' = [solver EXCEPT !.pc = IF solver.player = 0 THEN "traverse" ELSE "iterate", !.player = 1 - @]
  /\ UNCHANGED <<game, br>>
StartResponse(average, player) ==
  [best_action |-> <<>>, previous |-> <<>>, rounds |-> 0,
   pending |-> {Node(e.node).key : e \in collect_br_infosets(average, 1, One, player)}]
Finished ==
  LET average == build_average_strategy(table)
  IN /\ solver' = [solver EXCEPT !.pc = "respond", !.player = 0, !.average = average,
                     !.value = <<profile_values(average, 1, 0), profile_values(average, 1, 1)>>]
     /\ br' = StartResponse(average, 0)
     /\ UNCHANGED <<game, table, before>>
Finish == solver.pc = "iterate" /\ solver.iteration = solver.target /\ Finished

\* The rounds of constrained_best_response_value: the groups are an unordered map.
Group(key) == {e \in collect_br_infosets(solver.average, 1, One, solver.player) : Node(e.node).key = key}
RespondAt(key) ==
  /\ solver.pc = "respond" /\ key \in br.pending
  /\ br' = [br EXCEPT !.pending = @ \ {key},
              !.best_action = (key :> BestOf(solver.average, br.best_action, Group(key), solver.player)) @@ @]
  /\ UNCHANGED <<game, solver, table, before>>
EndRound_once ==     \* (mutant: the first round is taken as final)
  /\ solver.pc = "respond" /\ br.pending = {}
  /\ LET gap == Minus(constrained_br_state_value(solver.average, br.best_action, 1, solver.player), solver.value[solver.player + 1])
     IN solver' = [solver EXCEPT !.gap = Append(@, gap), !.player = 1, !.pc = IF solver.player = 0 THEN "respond" ELSE "done"]
  /\ br' = StartResponse(solver.average, 1)
  /\ UNCHANGED <<game, table, before>>
EndRound ==
  /\ solver.pc = "respond" /\ br.pending = {}
  /\ IF br.best_action # br.previous
     THEN /\ br' = [br EXCEPT !.previous = br.best_action, !.pending = DOMAIN br.best_action, !.rounds = @ + 1]
          /\ UNCHANGED solver
     ELSE /\ LET gap == Minus(constrained_br_state_value(solver.average, br.best_action, 1, solver.player), solver.value[solver.player + 1])
             IN solver' = [solver EXCEPT !.gap = Append(@, gap), !.player = 1, !.pc = IF solver.player = 0 THEN "respond" ELSE "done"]
          /\ br' = StartResponse(solver.average, 1)
  /\ UNCHANGED <<game, table, before>>
GenericNext == BeginIteration \/ Traverse \/ Finish \/ (\E key \in br.pending : RespondAt(key)) \/ EndRound

-----------------------------------------------------------------------------
(* Reference definitions, by the histories of the game *)

Parent(n) == CHOOSE m \in DOMAIN game.node : \E i \in DOMAIN Kids(m) : Kids(m)[i] = n
EdgeWeight(profile, n) ==
  LET m == Parent(n) IN WeightsAt(profile, m)[CHOOSE i \in DOMAIN Kids(m) : Kids(m)[i] = n]
\* The probability of going from one node to another, over the edges of the given actors (2 is chance).
RECURSIVE Reach(_, _, _, _)
Reach(profile, top, n, actors) ==
  IF n = top THEN One
  ELSE Times(Reach(profile, top, Parent(n), actors),
             IF Node(Parent(n)).player \in actors THEN EdgeWeight(profile, n) ELSE One)
RECURSIVE IsBelow(_, _)
IsBelow(n, top) == n = top \/ (n # 1 /\ IsBelow(Parent(n), top))
ValueBelow(profile, top, player) ==
  LET ends == SetToSeq({n \in DOMAIN game.node : IsTerminal(n) /\ IsBelow(n, top)})
  IN SumQ([i \in DOMAIN ends |-> Times(Reach(profile, top, ends[i], 0 .. 2), Node(ends[i]).utility[player + 1])])
\* No infoset of the player has two nodes, so that a traversal reads the table as it found it.
SingleFor(player) == Cardinality(Keys(player)) = Cardinality(Decisions(player))
Current(key) ==
  IF IsLocked(key, ActionCount(key)) THEN game.locked[key]
  ELSE IF key \in DOMAIN before.rows THEN normalize_strategy(RegretsOf(before, key)) ELSE UniformOf(ActionCount(key))
CurrentProfile == [key \in Keys(0) \cup Keys(1) |-> Current(key)]
Old(arena, key, count) == IF key \in DOMAIN before.rows THEN Slice(arena, before.rows[key]) ELSE [a \in 1 .. count |-> Zero]
\* What the last traversal added, for the player it was for.
TraversalExact(player) ==
  \A n \in Decisions(player) :
    LET key == Node(n).key
        count == Len(Kids(n))
        sigma == CurrentProfile
        external == Reach(sigma, 1, n, {2, 1 - player})
        own == Reach(sigma, 1, n, {2, player})
        gain(a) == Minus(ValueBelow(sigma, Kids(n)[a], player), ValueBelow(sigma, n, player))
    IN \A a \in 1 .. count :
         /\ RegretsOf(table, key)[a] = Plus(Old(before.regret, key, count)[a],
              IF IsLocked(key, count) THEN Zero ELSE Times(external, gain(a)))
         /\ SumsOf(table, key)[a] = Plus(Old(before.strategy, key, count)[a], Times(own, sigma[key][a]))
LastTraversed == IF solver.pc = "traverse" THEN 0 ELSE 1
\* The discounts a row has had: the strategy sum of a player that always reaches its infoset, and
\* whose rows were all made in the first iteration, is 1 + (1/2) .. weighted by the iterations.
RootSums ==
  \A n \in DOMAIN game.node : \A player \in 0 .. 1 :
    (Node(n).type = "Decision" /\ Node(n).player = player /\ SingleFor(player) /\ solver.iteration > 0
       /\ Reach(<<>>, 1, n, {player}) = One) =>
      SumQ(SumsOf(table, Node(n).key)) =
        Times(Reach(<<>>, 1, n, {2}),
              SumQ([k \in 1 .. solver.iteration |->
                      ProductQ([j \in 1 .. solver.iteration - k |-> dcfr_iteration_scales(k + j).strategy])]))
PureResponses(player) == [Keys(player) -> 1 .. 3]
BestPure(player) ==
  LET fits(r) == \A key \in Keys(player) : r[key] <= ActionCount(key)
      value(r) == br_state_value(solver.average, r, 1, player)
  IN CHOOSE v \in {value(r) : r \in {r \in PureResponses(player) : fits(r)}} :
       \A r \in PureResponses(player) : fits(r) => ~Less(v, value(r))
\* A traversal adds the counterfactual regrets and the reach-weighted strategies of its player;
\* the table is discounted once for every iteration; the response found is a best one whatever the
\* order of the groups, after at most one round more than there are infosets; and the ways
\* to value and to exploit a profile agree (that by deals values uniform play: no key of the flat
\* tree is one of the profile).
GenericSound ==
  /\ (before # table /\ solver.pc \in {"traverse", "iterate"} /\ solver.player = 1 - LastTraversed /\ SingleFor(LastTraversed)
        /\ table.iteration = before.iteration) => TraversalExact(LastTraversed)
  /\ (solver.pc = "iterate" => RootSums)
  /\ (solver.pc = "respond" => br.rounds <= Cardinality(Keys(solver.player)) + 1)
  /\ (solver.pc \in {"respond", "done"}) =>
       /\ \A player \in 0 .. 1 : solver.value[player + 1] = ValueBelow(solver.average, 1, player)
       /\ \A k \in DOMAIN solver.gap : solver.gap[k] = Minus(BestPure(k - 1), solver.value[k]) /\ ~Less(solver.gap[k], Zero)
       /\ solver.pc = "done" =>
            LET output == compute_exploitability_and_value(solver.average)
                value(player) == IF game.deals = <<>> THEN solver.value[player + 1] ELSE ValueBelow(<<>>, 1, player)
            IN /\ output.game_value = value(0)
               /\ output.exploitability =
                    Times(Q(1, 2), Plus(Minus(BestPure(0), value(0)), Minus(BestPure(1), value(1))))
       /\ game.deals # <<>> =>
            \A player \in 0 .. 1 :
              {Node(e.node).key : e \in Entries(solver.average, DealRoots, player)} = Keys(player)
=============================================================================
