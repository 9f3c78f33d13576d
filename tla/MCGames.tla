------------------------------- MODULE MCGames -------------------------------
(* The games on small instances: a multiway hand, a heads-up hand, the solve    *)
(* graph of a heads-up game, Kuhn and Leduc, the generic solvers on trees of up  *)
(* to 12 nodes, batches of the multiway search, its rollout leaves and the       *)
(* generation of its buckets.  One behaviour plays one of them; the variables    *)
(* y1, ... hold its state.                                                       *)
EXTENDS MultiwayBetting, Sequences, TLC

\* Every seat of the multiway hand starts with one of a few stack sizes.
CONSTANT StackSizes
MCStartingStacks == [Seats -> StackSizes]

VARIABLES component, y1, y2, y3, y4, y5, y6, y7, y8
Off == [off |-> TRUE]

-----------------------------------------------------------------------------
(* Heads-up configurations: stacks of 2 to 12 chips, a deck of 9 to 11 cards.   *)

Pair(a, b) == 0 :> a @@ 1 :> b
Half == <<1, 2>>
Base == [stack |-> 12, sb |-> 1, bb |-> 2, ante |-> 0, pot |-> 0, contributions |-> Pair(0, 0),
  street |-> 0, board |-> <<>>, deck |-> 1 .. 9, holes |-> Pair({1, 2}, {3, 4}), dealt |-> TRUE,
  preflop_cap |-> 4, postflop_cap |-> 2, bets |-> <<Half, <<1, 1>>>>, street_bets |-> <<>>,
  raise_xs |-> <<<<3, 2>>, <<2, 1>>, <<3, 1>>>>, include_all_in |-> TRUE, spr |-> <<>>, force |-> 0,
  min_bet |-> 1, lead |-> TRUE, depth_limit |-> 0, bucketed |-> FALSE, class |-> [c \in 1 .. 11 |-> c \div 3]]
From(base, where, behind, pot, c0, c1) ==
  [base EXCEPT !.street = where, !.stack = behind, !.pot = pot, !.contributions = Pair(c0, c1),
               !.board = [i \in 1 .. (IF where = 0 THEN 0 ELSE where + 2) |-> 4 + i]]
PlayConfigs ==
  {Base, [Base EXCEPT !.sb = 2], [Base EXCEPT !.stack = 2], [Base EXCEPT !.stack = 2, !.sb = 2],
   [Base EXCEPT !.dealt = FALSE, !.ante = 1, !.include_all_in = FALSE, !.spr = <<1, 1>>],
   [Base EXCEPT !.contributions = Pair(1, 2), !.pot = 3, !.lead = FALSE, !.force = 1],
   From(Base, 1, 9, 4, 2, 2), From(Base, 2, 12, 5, 0, 0),
   [From(Base, 2, 12, 6, 1, 5) EXCEPT !.dealt = FALSE], From(Base, 3, 12, 6, 4, 2), From(Base, 3, 12, 6, 1, 2),
   [From(Base, 1, 12, 6, 3, 3) EXCEPT !.street_bets = 1 :> <<<<3, 4>>>> @@ 2 :> <<>>, !.lead = FALSE, !.min_bet = 2]}
Small == [Base EXCEPT !.stack = 8, !.deck = 1 .. 10, !.raise_xs = <<<<2, 1>>, <<3, 1>>>>]
GraphConfigs ==
  {From(Small, 3, 8, 4, 2, 2), [Small EXCEPT !.depth_limit = 4], [From(Small, 1, 2, 4, 2, 2) EXCEPT !.bets = <<>>],
   [From(Small, 2, 3, 4, 2, 2) EXCEPT !.postflop_cap = 1, !.bets = <<Half>>, !.deck = 1 .. 11, !.bucketed = TRUE],
   [From(Small, 2, 3, 4, 0, 0) EXCEPT !.postflop_cap = 1, !.bets = <<Half>>]}

Heads == INSTANCE HeadsUpGames WITH
  Configs <- PlayConfigs, cfg <- y1, st <- y2, kuhn <- y3, leduc <- y4
Graph == INSTANCE HunlGraph WITH
  Configs <- GraphConfigs, Chunks <- 4, cfg <- y1, graph <- y2, stack <- y3, order <- y4

-----------------------------------------------------------------------------
(* Game trees for the generic solvers, with the strategies that are locked.     *)

End(u, v) == [type |-> "Terminal", player |-> 3, key |-> <<>>, kids |-> <<>>, probability |-> <<>>,
              utility |-> <<<<u, 1>>, <<v, 1>>>>]
Chance(kids, p) == [type |-> "Chance", player |-> 2, key |-> <<>>, kids |-> kids, probability |-> p, utility |-> <<>>]
Choice(seat, key, kids) ==
  [type |-> "Decision", player |-> seat, key |-> key, kids |-> kids, probability |-> <<>>, utility |-> <<>>]
\* Two deals, of which the second player sees nothing.
Dealt ==
  [node |-> <<Chance(<<2, 7>>, <<Half, Half>>),
     Choice(0, <<1, 1>>, <<3, 4>>), End(1, -1), Choice(1, <<9, 2>>, <<5, 6>>), End(1, -1), End(2, -2),
     Choice(0, <<2, 1>>, <<8, 9>>), End(-1, 1), Choice(1, <<9, 2>>, <<10, 11>>), End(1, -1), End(-2, 2)>>,
   locked |-> <<>>, deals |-> <<[root |-> 2, hole |-> <<1, 9>>], [root |-> 7, hole |-> <<2, 9>>]>>]
\* The first player acts twice on a path, with an answer and a card between.
Twice ==
  [node |-> <<Choice(0, <<0, 1>>, <<2, 3, 4>>), End(1, 1), Choice(1, <<0, 2>>, <<5, 6>>), End(0, 3),
     Chance(<<7, 8>>, <<<<1, 3>>, <<2, 3>>>>), Choice(0, <<0, 3>>, <<9, 10>>), End(0, 0), Choice(0, <<0, 4>>, <<11, 12>>),
     End(2, 0), End(4, -1), End(-5, 6), End(3, 2)>>,
   locked |-> <<>>, deals |-> <<>>]
Locked == [Twice EXCEPT !.locked = (<<0, 2>> :> <<<<1, 4>>, <<3, 4>>>>) @@ (<<0, 1>> :> <<Half, Half>>)]
SolvePlan(workers, multiplier, baseline, force, failures) ==
  [workers |-> workers, multiplier |-> multiplier, baseline |-> baseline, force |-> force, failures |-> failures]
SolvePlans == {SolvePlan(1, 1, 1, FALSE, 0), SolvePlan(1, 1, 1, TRUE, 0), SolvePlan(2, 1, 1, FALSE, 1), SolvePlan(2, 8, 4, TRUE, 0)}
Solve == INSTANCE ParallelDcfr WITH
  Games <- {Dealt, Twice, Locked}, MaxIterations <- 2, Plans <- SolvePlans,
  game <- y1, solver <- y2, table <- y3, br <- y4, before <- y5, plan <- y6, pool <- y7, worker <- y8

-----------------------------------------------------------------------------
(* Searches of a river, a turn and a preflop root, for two and three players.    *)

Bet(seat, where, kids) == [kind |-> "decision", actor |-> seat, street |-> where, kids |-> kids, paid |-> <<>>, live |-> {},
                           leaf |-> <<<<2, 1>>, <<-1, 1>>>>]
Folded(where, winner, paid) == [kind |-> "fold", actor |-> 0, street |-> where, kids |-> <<>>, paid |-> paid, live |-> {winner}, leaf |-> <<>>]
Show(where, live, paid) == [kind |-> "showdown", actor |-> 0, street |-> where, kids |-> <<>>, paid |-> paid, live |-> live, leaf |-> <<>>]
Deal(where, what, kids, paid) == [kind |-> what, actor |-> 0, street |-> where, kids |-> kids, paid |-> paid, live |-> {1, 2},
                                  leaf |-> <<<<1, 1>>, <<3, 1>>>>]
Both == {1, 2}
\* A turn on which the second player may bet or close the street.
TurnTree ==
  <<Bet(1, 2, <<2, 3>>), Bet(2, 2, <<4, 5>>), Bet(2, 2, <<6, 7>>), Deal(2, "transition", <<8>>, <<1, 1>>),
    Bet(1, 2, <<9, 10>>), Folded(2, 1, <<2, 1>>), Deal(2, "runout", <<>>, <<4, 4>>), Bet(2, 3, <<11, 12>>),
    Folded(2, 2, <<1, 2>>), Deal(2, "runout", <<>>, <<3, 3>>), Show(3, Both, <<1, 1>>), Bet(1, 3, <<13, 14>>),
    Folded(3, 2, <<1, 3>>), Show(3, Both, <<3, 3>>)>>
Hands(chance, proposal, holes) == [chance |-> chance, proposal |-> proposal, hole |-> holes]
NoPruning == [enabled |-> FALSE, warmup |-> 0, interval |-> 0, explore |-> <<0, 1>>, probability |-> <<0, 1>>, regret |-> <<0, 1>>]
Ample == [deltas |-> 50, continuation |-> 20, states |-> 60, rows |-> 40]
Turn ==
  [node |-> TurnTree, players |-> 2, deck |-> 1 .. 6, workers |-> 1,
   deals |-> <<Hands(<<1, 3>>, Half, <<{1, 4}, {2, 3}>>), Hands(<<2, 3>>, Half, <<{2, 5}, {1, 3}>>)>>,
   regrets |-> 1 :> <<<<<<1, 1>>, <<2, 1>>>>, <<<<-1, 1>>, <<3, 1>>>>>> @@ 2 :> <<<<<<1, 1>>, <<3, 1>>>>, <<<<-2, 1>>, <<-1, 1>>>>>>
               @@ 8 :> <<<<<<2, 1>>, <<1, 1>>>>, <<<<2, 1>>, <<2, 1>>>>>>,
   blueprint |-> <<>>, exact |-> TRUE, root_bucket |-> 0, max_decision_depth |-> 9, max_public_chance_depth |-> 2,
   discovery |-> TRUE, selector |-> "none", policy |-> 1, continuation |-> <<>>, pruning |-> NoPruning, batch |-> 3,
   lucky |-> {}, capacity |-> Ample, undefined |-> {}, weight |-> <<2, 1>>]
TurnPruned == [NoPruning EXCEPT !.enabled = TRUE, !.warmup = 1, !.explore = <<1, 4>>, !.regret = <<-1, 2>>]
OneDeal(g) == [g EXCEPT !.deals = <<Hands(<<1, 3>>, <<2, 3>>, <<{1, 4}, {2, 3}>>)>>]
Pruned == [OneDeal(Turn) EXCEPT !.pruning = TurnPruned, !.lucky = {<<3, 2>>}, !.regrets = @ @@ 3 :> <<<<<<1, 1>>, <<1, 1>>>>, <<<<0, 1>>, <<1, 1>>>>>>,
                                !.blueprint = 3 :> <<<<2, 5>>, <<3, 5>>>> @@ 8 :> <<<<1, 1>>, <<0, 1>>>>]
\* Every action of node 2 is below the threshold, and none is explored.
Starved == [OneDeal(Turn) EXCEPT !.pruning = [TurnPruned EXCEPT !.explore = <<0, 1>>]]
Recovering == [Pruned EXCEPT !.pruning.interval = 3]
\* Leaves at the second decision and at the end of the street, with continuation regrets.
Shallow == [OneDeal(Turn) EXCEPT !.max_decision_depth = 2, !.max_public_chance_depth = 0, !.selector = "stream", !.policy = 2, !.workers = 2,
              !.capacity = [deltas |-> 4, continuation |-> 1, states |-> 9, rows |-> 3]]
Roomy == [Shallow EXCEPT !.capacity = [deltas |-> 8, continuation |-> 3, states |-> 8, rows |-> 4], !.max_decision_depth = 3]
Direct == [Shallow EXCEPT !.discovery = FALSE, !.selector = "direct", !.capacity.deltas = 5, !.regrets = <<>>, !.max_decision_depth = 3,
                          !.blueprint = 2 :> <<<<1, 4>>, <<3, 4>>>>, !.exact = FALSE]
Broken == [Shallow EXCEPT !.undefined = {5}, !.capacity = Ample]
\* A flop of three cards, and a leaf before it.
PreflopTree ==
  <<Bet(1, 0, <<2, 3>>), Folded(0, 2, <<1, 2>>), Deal(0, "transition", <<4>>, <<2, 2>>), Bet(2, 1, <<5, 6>>), Folded(1, 1, <<2, 2>>),
    Deal(1, "transition", <<7>>, <<2, 2>>), Bet(2, 2, <<5, 5>>)>>
PreflopRoot == [OneDeal(Turn) EXCEPT !.node = PreflopTree, !.deck = 1 .. 8, !.regrets = <<>>, !.exact = FALSE,
                  !.selector = "stream", !.max_public_chance_depth = 1, !.capacity.rows = 3, !.workers = 2]
NoKey == [PreflopRoot EXCEPT !.max_public_chance_depth = 0]
RunOut == [PreflopRoot EXCEPT !.deck = 1 .. 9, !.capacity = Ample, !.workers = 1, !.node =
  <<Bet(1, 0, <<2, 3>>), Folded(0, 2, <<1, 2>>), Bet(2, 0, <<4, 5>>), Folded(0, 1, <<4, 2>>), Deal(0, "runout", <<>>, <<4, 4>>)>>]
\* Three players on a river.
RiverTree ==
  <<Bet(1, 3, <<2, 3>>), Bet(2, 3, <<4, 5>>), Bet(3, 3, <<6, 7>>), Bet(3, 3, <<7, 8>>), Show(3, {1, 2}, <<2, 2, 1>>),
    Folded(3, 3, <<1, 1, 1>>), Show(3, {1, 2, 3}, <<2, 2, 2>>), Show(3, {2, 3}, <<1, 3, 3>>)>>
Three == [Turn EXCEPT !.node = RiverTree, !.players = 3, !.exact = FALSE, !.regrets = @ @@ 3 :> <<<<<<1, 1>>, <<1, 2>>>>, <<<<0, 1>>, <<1, 1>>>>>>,
            !.deals = <<Hands(<<1, 2>>, <<1, 3>>, <<{1, 4}, {2, 3}, {5, 6}>>), Hands(<<1, 4>>, Half, <<{2, 4}, {1, 6}, {5, 3}>>)>>,
            !.capacity.deltas = 7, !.workers = 2]
TraversalGames == {Turn, Pruned, Starved, Recovering, Shallow, Roomy, Direct, Broken, PreflopRoot, NoKey, RunOut, Three}
Search == INSTANCE MultiwayTraversal WITH
  Games <- TraversalGames, MaxRuns <- 2, game <- y1, table <- y2, streams <- y3, selector <- y4, ran <- y5

-----------------------------------------------------------------------------
(* Leaves on a turn, on a flop and before the flop, with decks of 14, 10 and 9 cards. *)

Line(seats) == [s \in 0 .. Len(seats) - 1 |-> seats[s + 1]]
Spot(kind, where, paid, out, menu, kids) ==
  [kind |-> kind, street |-> where, contributions |-> Line(paid), folded |-> Line(out), menu |-> menu, kids |-> kids, consistent |-> TRUE]
Playing == <<FALSE, FALSE>>
Option(action, target, p) == [action |-> action, target |-> target, blueprint |-> p]
\* A turn: fold or call a bet, then check or bet all the chips on the river.
RollTree ==
  <<Spot("BettingDecision", 2, <<2, 4>>, Playing, <<Option("Fold", 2, Half), Option("Call", 2, Half)>>, <<"Fold", 2>> :> 2 @@ <<"Call", 2>> :> 3),
    Spot("FoldTerminal", 2, <<2, 4>>, <<TRUE, FALSE>>, <<>>, <<>>),
    Spot("StreetTransition", 2, <<4, 4>>, Playing, <<>>, <<"Deal", 0>> :> 4),
    Spot("BettingDecision", 3, <<4, 4>>, Playing, <<Option("AllIn", 5, Half), Option("Check", 0, Half)>>, <<"AllIn", 5>> :> 5 @@ <<"Check", 0>> :> 6),
    Spot("BettingDecision", 3, <<9, 4>>, Playing, <<Option("Fold", 0, Half), Option("Call", 0, Half)>>, <<"Fold", 0>> :> 7 @@ <<"Call", 0>> :> 8),
    Spot("BettingDecision", 3, <<4, 4>>, Playing, <<Option("Check", 0, <<1, 1>>)>>, <<"Check", 0>> :> 9),
    Spot("FoldTerminal", 3, <<9, 4>>, <<FALSE, TRUE>>, <<>>, <<>>),
    Spot("ShowdownTerminal", 3, <<9, 9>>, Playing, <<>>, <<>>),
    Spot("ShowdownTerminal", 3, <<4, 4>>, Playing, <<>>, <<>>)>>
Free == [points |-> 0, cap |-> 0, no_drop |-> TRUE]
Raked == [points |-> 2500, cap |-> 2, no_drop |-> TRUE]
Dealing(dealt, board, rake) == [dealt |-> dealt, board |-> board, rake |-> rake, odd_chip_first_seat |-> 1]
Ask(n, traverser, hands, policy, direct) == [state |-> n, traverser |-> traverser, hands |-> hands, policy |-> policy, direct |-> direct]
With(seeds, bias, actions, runouts, cached) ==
  [seeds |-> seeds, bias |-> <<bias, 1>>, max_betting_actions |-> actions, max_exact_runouts |-> runouts, selected |-> "CallBiased", cached |-> cached]
SeedA == <<<<1, 1, 4, 2>>, <<3, 5, 0, 1>>>>
SeedB == <<<<5, 2, 3, 4>>, <<4, 3, 1, 0>>>>
TurnLeaf ==
  [node |-> RollTree, deck |-> 0 .. 13, draws |-> 4, capacity |-> 3,
   inputs |-> <<Dealing(<<<<0, 5>>, <<2, 9>>>>, <<1, 3, 4, 6>>, Raked), Dealing(<<<<0, 5>>, <<2, 3>>>>, <<1, 3, 4, 6>>, Free)>>,
   requests |-> {Ask(1, 0, 1, "FoldBiased", FALSE), Ask(1, 1, 1, "RaiseBiased", FALSE), Ask(1, 0, 2, "Blueprint", FALSE)},
   contexts |-> {With(SeedA, 5, 4, 9, TRUE), With(SeedB, 5, 4, 9, TRUE), With(SeedA, 1, 4, 9, TRUE), With(SeedA, 5, 2, 9, FALSE)}]
\* A flop: fold, or an all-in that is run out by two of three cards.
FlopLeaf ==
  [TurnLeaf EXCEPT !.node =
     <<Spot("BettingDecision", 1, <<2, 6>>, Playing, <<Option("Fold", 2, Half), Option("Call", 2, Half)>>, <<"Fold", 2>> :> 2 @@ <<"Call", 2>> :> 3),
       Spot("FoldTerminal", 1, <<2, 6>>, <<TRUE, FALSE>>, <<>>, <<>>), Spot("BoardRunout", 1, <<5, 6>>, Playing, <<>>, <<>>)>>,
     !.deck = 0 .. 9, !.draws = 3, !.inputs = <<Dealing(<<<<0, 5>>, <<2, 9>>>>, <<1, 3, 4>>, Raked)>>, !.capacity = 1,
     !.requests = {Ask(1, 0, 1, "FoldBiased", FALSE), Ask(1, 1, 1, "Blueprint", TRUE)},
     !.contexts = {With(SeedA, 2, 4, 9, TRUE), With(SeedB, 2, 4, 9, TRUE), With(SeedA, 2, 4, 2, TRUE)}]
\* All-in before the flop, with five cards left for the board.
AllInLeaf ==
  [FlopLeaf EXCEPT !.node =
     <<Spot("BoardRunout", 0, <<6, 6>>, Playing, <<>>, <<>>), [Spot("FoldTerminal", 0, <<2, 2>>, <<TRUE, TRUE>>, <<>>, <<>>) EXCEPT !.consistent = FALSE]>>, !.deck = 0 .. 8, !.draws = 1,
     !.inputs = <<Dealing(<<<<0, 5>>, <<2, 8>>>>, <<>>, Raked)>>, !.requests = {Ask(1, 1, 1, "Blueprint", FALSE), Ask(2, 0, 1, "Blueprint", FALSE)},
     !.contexts = {With(<<<<0, 1, 2, 3, 4>>>>, 5, 4, 9, TRUE), With(<<>>, 5, 4, 9, TRUE)}]
Rollout == INSTANCE RolloutLeaf WITH
  Leaves <- {TurnLeaf, FlopLeaf, AllInLeaf}, Grain <- 6, MaxCalls <- 3, leaf <- y1, cache <- y2, diagnostics <- y3, calls <- y4

-----------------------------------------------------------------------------
(* Bucket generation: up to four chunks of two tables for one or two workers, with *)
(* whole chunks and with a short last one, which the serialized kind may misread.  *)

Job(kind, requested, detected, queue, begin, end) ==
  [kind |-> kind, requested |-> requested, detected |-> detected, queue |-> queue, begin |-> begin, end |-> end, size |-> 2]
Generate == INSTANCE BucketGeneration WITH
  Plans <- {Job("object", 3, 2, 1, 1, 8), Job("object", 1, 2, 0, 0, 5), Job("object", 2, 2, 0, 3, 3),
            Job("serialized", 2, 4, 2, 0, 8), Job("serialized", 2, 4, 2, 0, 5), Job("serialized", 1, 0, 0, 3, 3)},
  MaxFailures <- 1, plan <- y1, shared <- y2, worker <- y3, main <- y4, failures <- y5
ASSUME PlansAssumption == Generate!PlansValid

-----------------------------------------------------------------------------
slots == <<y1, y2, y3, y4, y5, y6, y7, y8>>
more == <<y5, y6, y7, y8>>
MoreOff == y5 = Off /\ y6 = Off /\ y7 = Off /\ y8 = Off
allVars == <<component, vars, slots>>

\* The table is set for all of them, and only the multiway hand plays on.
MCInit ==
  \/ component = "multiway" /\ Init /\ y1 = Off /\ y2 = Off /\ y3 = Off /\ y4 = Off /\ MoreOff
  \/ /\ Init /\ starting_stacks = [seat \in Seats |-> Max(StackSizes)] /\ current_player = 0
     /\ \/ component = "hunl" /\ Heads!HunlInit /\ y3 = Off /\ y4 = Off /\ MoreOff
        \/ component = "graph" /\ Graph!GraphInit /\ MoreOff
        \/ component \in {"kuhn", "leduc"} /\ Heads!SmallInit /\ y1 = Off /\ y2 = Off /\ MoreOff
        \/ component = "solve" /\ Solve!ParallelInit
        \/ component = "search" /\ Search!TraversalInit /\ y6 = Off /\ y7 = Off /\ y8 = Off
        \/ component = "rollout" /\ Rollout!RolloutInit /\ MoreOff
        \/ component = "generation" /\ Generate!GenerationInit /\ y6 = Off /\ y7 = Off /\ y8 = Off
\* Where the hands and the calls end.  Two ends are none: a hand whose blinds are the whole stack
\* asks a player who has no action, and the serialized generation that misread the count of its short
\* last chunk sleeps for ever.
Over ==
  CASE component = "multiway" -> HandOver
    [] component = "hunl" -> Heads!IsTerminal(y2) \/ Heads!NoMoveFromBlind
    [] component = "graph" -> y4.pc = "done"
    [] component = "kuhn" -> Heads!KuhnIsTerminal(y3)
    [] component = "leduc" -> Heads!LeducIsTerminal(y4)
    [] component = "solve" -> Solve!SolveOver
    [] component = "search" -> Search!TraversalOver
    [] component = "rollout" -> Rollout!RolloutOver
    [] component = "generation" -> Generate!GenerationOver \/ (Generate!Misread /\ ~Generate!NeverStuck)
MCNext ==
  \/ component = "multiway" /\ Next /\ UNCHANGED <<component, slots>>
  \/ component = "hunl" /\ Heads!HunlNext /\ UNCHANGED <<component, vars, y3, y4, more>>
  \/ component = "graph" /\ Graph!GraphNext /\ UNCHANGED <<component, vars, more>>
  \/ component = "kuhn" /\ Heads!KuhnStep /\ UNCHANGED <<component, vars, y1, y2, more>>
  \/ component = "leduc" /\ (Heads!LeducChance \/ Heads!LeducPlayer) /\ UNCHANGED <<component, vars, y1, y2, more>>
  \/ component = "solve" /\ Solve!ParallelNext /\ UNCHANGED <<component, vars>>
  \/ component = "search" /\ Search!TraversalNext /\ UNCHANGED <<component, vars, y6, y7, y8>>
  \/ component = "rollout" /\ Rollout!RolloutNext /\ UNCHANGED <<component, vars, more>>
  \/ component = "generation" /\ Generate!GenerationNext /\ UNCHANGED <<component, vars, y6, y7, y8>>
  \/ Over /\ UNCHANGED allVars
\* Some thread of a call can run: its only one, which waits for nothing, until it is over (the building
\* of a graph, a search, a leaf), or one of the caller and the workers of a solve that are not asleep.
Calls == component \in {"graph", "solve", "search", "rollout"}
Runs == Calls /\ IF component = "solve" THEN Solve!SomeThreadRuns ELSE ~Over
\* While a step can be taken, one is taken: whoever acts in a game acts, and a thread that can run
\* runs.  Threads that all sleep take none.  For the calls Runs stands for ENABLED MCNext.
MCSpec ==
  /\ MCInit /\ [][MCNext]_allVars /\ WF_allVars(~Calls /\ MCNext)
  /\ []<>~Runs \/ []<><<Calls>>_allVars

\* The multiway hands alone.
MultiwaySpec == component = "multiway" /\ MCInit /\ [][MCNext]_allVars

-----------------------------------------------------------------------------
\* The heads-up rules, the solve graph built over them, and the two small games agree
\* with what their histories and cards alone determine; the generic solvers add to their tables
\* what the histories contribute, whatever the workers do, and measure their result exactly.
\* The trajectories of a search estimate the counterfactual regrets without bias and leave whole
\* streams, and a rollout leaf is worth what its policy is worth, cached or not.  Bucket tables are
\* published once each and in order by however many workers.  A multiway hand pays every seat
\* what the division of its pots chip by chip does.
GamesSound ==
  /\ component = "multiway" => SettlementMatchesSlices
  /\ component = "hunl" => Heads!HunlSound
  /\ component = "graph" => Graph!GraphSound
  /\ component = "kuhn" => Heads!KuhnSound
  /\ component = "leduc" => Heads!LeducSound
  /\ component = "solve" => Solve!ParallelSound
  /\ component = "search" => Search!TraversalSound
  /\ component = "rollout" => Rollout!RolloutSound
  /\ component = "generation" => Generate!GenerationSound
\* Every hand of every game reaches its end: betting cannot go on for ever, and no player or
\* dealer is left without a move before it, but for the first player of a heads-up hand whose blinds
\* are the whole stack.  Every graph is finished, every solve returns or throws, every batch of a search
\* and every generation of buckets ends: no thread waits for a phase or a chunk that never comes, but for
\* the caller of a serialized generation that has misread the count of its short last chunk.
GamesEnd == <>Over
=============================================================================
