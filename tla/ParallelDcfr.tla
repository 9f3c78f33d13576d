----------------------------- MODULE ParallelDcfr -----------------------------
(* solve_generic and ParallelDCFRSolver::solve (parallel_dcfr.cpp).  The game is  *)
(* cut into the subtrees of a frontier; in every phase (an iteration and a player) *)
(* a pool of workers takes batches of subtrees, each worker traverses them with a  *)
(* snapshot of the strategies into a table of its own, and the caller adds those   *)
(* tables to the canonical one.  The serial solver and the end of solve are those  *)
(* of GenericCfr.  A thread that waits on pool.cv is awake when it has still to    *)
(* test its condition.                                                             *)
EXTENDS GenericCfr

CONSTANTS Plans     \* Set of [workers, multiplier, baseline, force, failures]

VARIABLES plan,      \* The arguments of solve_generic
          pool,      \* WorkerPoolState, with the frontier and the batches of the solve
          worker     \* Each worker thread: [pc, seen, player, strategy, batch]

parallelVars == <<genericVars, plan, pool, worker>>

-----------------------------------------------------------------------------
(* The plan *)

child_count(n) == Len(Kids(n))
AtLeastOne(x) == Max({1, x})
should_use_parallel_solver(p, branches) ==
  p.workers > 1 /\ branches >= Max({2, (p.workers * AtLeastOne(p.multiplier)) \div 2})
RECURSIVE estimate_subtree_weight(_, _)
estimate_subtree_weight(n, depth) ==
  FoldLeft(LAMBDA x, y : x + y, AtLeastOne(child_count(n)),
           IF depth = 0 THEN <<>>
           ELSE [i \in DOMAIN Kids(n) |-> estimate_subtree_weight(Kids(n)[i], depth - 1)])

make_partition_plan(branches, requested) ==
  LET workers == AtLeastOne(Min({requested, branches}))
      width(w) == branches \div workers + (IF w <= branches % workers THEN 1 ELSE 0)
      begin(w) == FoldLeft(LAMBDA x, y : x + y, 0, [v \in 1 .. w - 1 |-> width(v)])
  IN [worker_count |-> workers, items |-> [w \in 1 .. workers |-> <<begin(w), begin(w) + width(w)>>]]
validate_plan(p) ==
  /\ p.worker_count > 0 /\ p.items # <<>> /\ Len(p.items) = p.worker_count
  /\ \A w \in DOMAIN p.items : p.items[w][1] < p.items[w][2]

effective_frontier_multiplier(p, workers) ==
  LET branches == AtLeastOne(child_count(1))
      wanted == Max({AtLeastOne(p.multiplier), p.baseline})
      effective == IF branches >= workers * 3 THEN Min({wanted, 2})
                   ELSE IF branches >= workers * 2 THEN Min({wanted, 3})
                   ELSE IF branches <= workers THEN Max({wanted, p.baseline + 2}) ELSE wanted
  IN IF workers <= 1 THEN 1 ELSE Max({1, Min({16, effective})})
frontier_seed_target(workers, multiplier) == AtLeastOne(workers * multiplier)

Seed(n, reach) == [node |-> n, reach |-> reach, weight |-> 0]
SeedsBelow_flat(seed) ==     \* (mutant: the probability of the outcome is dropped)
  [i \in DOMAIN Kids(seed.node) |-> Seed(Kids(seed.node)[i], seed.reach)]
\* The children of a seed; an action does not change the reach.
SeedsBelow(seed) ==
  [i \in DOMAIN Kids(seed.node) |->
    Seed(Kids(seed.node)[i], IF IsChance(seed.node) THEN Times(seed.reach, Node(seed.node).probability[i]) ELSE seed.reach)]
\* The first seed with the most children is replaced by them, until there are enough.
RECURSIVE Expanded(_, _)
Expanded(seeds, target) ==
  LET most == Max({child_count(seeds[i].node) : i \in DOMAIN seeds})
      best == Min({i \in DOMAIN seeds : child_count(seeds[i].node) = most})
  IN IF Len(seeds) >= target \/ most <= 1 THEN seeds
     ELSE Expanded(RemoveAt(seeds, best) \o SeedsBelow(seeds[best]), target)
Heavier(x, y) == x.weight > y.weight
build_frontier(target) ==
  LET seeds == IF IsTerminal(1) THEN <<Seed(1, One)>> ELSE Expanded(SeedsBelow(Seed(1, One)), target)
  IN SortSeq([i \in DOMAIN seeds |-> [seeds[i] EXCEPT !.weight = estimate_subtree_weight(seeds[i].node, 2)]], Heavier)

\* A batch with too few seeds comes before a filled one, then the lighter one.
Lighter(x, y, min_batch_size) ==
  LET filled(b) == IF Len(b.seeds) < min_batch_size THEN 0 ELSE 1
  IN filled(x) < filled(y) \/ (filled(x) = filled(y) /\ x.weight < y.weight)
RECURSIVE Placed(_, _, _, _)
Placed(seeds, k, batches, min_batch_size) ==
  LET best == Min({b \in DOMAIN batches : \A c \in DOMAIN batches : ~Lighter(batches[c], batches[b], min_batch_size)})
  IN IF k > Len(seeds) THEN batches
     ELSE Placed(seeds, k + 1,
            [batches EXCEPT ![best] = [seeds |-> Append(@.seeds, k), weight |-> @.weight + seeds[k].weight]], min_batch_size)
make_work_batches(seeds, workers, multiplier) ==
  LET count == AtLeastOne(Min({Len(seeds), workers * 2}))
      filled == Placed(seeds, 1, [b \in 1 .. count |-> [seeds |-> <<>>, weight |-> 0]], AtLeastOne(multiplier \div 2))
      used == SelectSeq(filled, LAMBDA b : b.seeds # <<>>)
  IN SortSeq(used, Heavier)

-----------------------------------------------------------------------------
(* The traversal of a subtree into a worker's table, by the snapshot *)

NoRows == <<>>
EnsureRow(rows, key, count) ==
  IF key \in DOMAIN rows THEN rows
  ELSE (key :> [regret |-> [a \in 1 .. count |-> Zero], strategy |-> [a \in 1 .. count |-> Zero]]) @@ rows
PlusAll(x, y) == [a \in DOMAIN x |-> Plus(x[a], y[a])]
build_strategy_snapshot(t) == [key \in DOMAIN t.rows |-> normalize_strategy(RegretsOf(t, key))]
LocalStrategy(snapshot, key, count) ==
  IF IsLocked(key, count) THEN game.locked[key] ELSE strategy_for_infoset(snapshot, key, count)

\* c is [player, reach, chance, strategy].
RECURSIVE SeedCfr(_, _, _), SeedKids(_, _, _, _, _)
SeedKids(c, n, rows, weights, i) ==
  IF i > Len(Kids(n)) THEN [value |-> <<>>, rows |-> rows]
  ELSE LET below == IF IsChance(n) THEN [c EXCEPT !.chance = Times(@, weights[i])]
                    ELSE [c EXCEPT !.reach[Node(n).player] = Times(@, weights[i])]
           child == SeedCfr(below, Kids(n)[i], rows)
           rest == SeedKids(c, n, child.rows, weights, i + 1)
       IN [value |-> <<child.value>> \o rest.value, rows |-> rest.rows]
SeedCfr(c, n, rows0) ==
  LET key == Node(n).key
      count == Len(Kids(n))
      own == Node(n).player = c.player
      weights == IF IsChance(n) THEN Node(n).probability ELSE LocalStrategy(c.strategy, key, count)
      rows1 == IF IsChance(n) THEN rows0 ELSE EnsureRow(rows0, key, count)
      rows2 == IF own THEN [rows1 EXCEPT ![key].strategy = PlusAll(@, Weighted(Times(c.chance, c.reach[c.player]), weights))] ELSE rows1
      below == SeedKids(c, n, rows2, weights, 1)
      value == Dot(weights, below.value)
      gains == [a \in 1 .. count |-> Minus(below.value[a], value)]
  IN IF IsTerminal(n) THEN [value |-> Node(n).utility[c.player + 1], rows |-> rows0]
     ELSE [value |-> value,
           rows |-> IF own /\ ~IsLocked(key, count)
                    THEN [below.rows EXCEPT ![key].regret = PlusAll(@, Weighted(Times(c.chance, c.reach[1 - c.player]), gains))]
                    ELSE below.rows]
RECURSIVE SeedsCfr(_, _, _, _)
SeedsCfr(seeds, player, snapshot, rows) ==
  IF seeds = <<>> THEN rows
  ELSE LET c == [player |-> player, reach |-> 0 :> One @@ 1 :> One, chance |-> Head(seeds).reach, strategy |-> snapshot]
       IN SeedsCfr(Tail(seeds), player, snapshot, SeedCfr(c, Head(seeds).node, rows).rows)

RECURSIVE merge_worker_state(_, _, _)
merge_worker_state(t, rows, keys) ==
  IF keys = {} THEN t
  ELSE LET key == CHOOSE key \in keys : TRUE
           there == ensure(t, key, Len(rows[key].regret))
       IN merge_worker_state(
            [there EXCEPT !.regret = Added(@, View(there, key), rows[key].regret),
                          !.strategy = Added(@, View(there, key), rows[key].strategy)], rows, keys \ {key})
RECURSIVE MergedTo(_, _, _)
MergedTo(t, results, w) ==
  IF w > Len(results) THEN t ELSE MergedTo(merge_worker_state(t, results[w], DOMAIN results[w]), results, w + 1)

-----------------------------------------------------------------------------
(* solve *)

Caller == 0
Threads == 1 .. pool.workers
Everyone == 0 .. pool.workers
IdlePool ==
  [workers |-> 0, frontier |-> <<>>, batches |-> <<>>, phase |-> 0, completed |-> 0, next_batch |-> 1, player |-> 0,
   stop |-> FALSE, strategy |-> <<>>, results |-> <<>>, error |-> FALSE, awake |-> {}, failures |-> 0]
StartedWorkers(count) ==
  IF count = 1 THEN <<>>
  ELSE [w \in 1 .. count |-> [pc |-> "wait", seen |-> 0, phase |-> 0, player |-> 0, strategy |-> <<>>, batch |-> 0]]

\* solve_generic; the heads-up entry may force the parallel solver.
ParallelInit ==
  /\ game \in Games /\ plan \in Plans
  /\ StartAt(IF plan.force \/ should_use_parallel_solver(plan, AtLeastOne(child_count(1))) THEN "plan" ELSE "iterate")
  /\ pool = IdlePool /\ worker = <<>>

ReadyPlan ==
  LET made == make_partition_plan(AtLeastOne(child_count(1)), plan.workers)
      multiplier == effective_frontier_multiplier(plan, made.worker_count)
      seeds == build_frontier(frontier_seed_target(made.worker_count, multiplier))
  IN /\ solver.pc = "plan" /\ validate_plan(made)
     /\ pool' = [IdlePool EXCEPT !.workers = made.worker_count, !.frontier = seeds,
                   !.batches = make_work_batches(seeds, made.worker_count, multiplier),
                   !.results = [w \in 1 .. made.worker_count |-> NoRows], !.awake = 0 .. made.worker_count,
                   !.failures = plan.failures]
     /\ worker' = StartedWorkers(made.worker_count)
     /\ solver' = [solver EXCEPT !.pc = "merged", !.player = 1]
     /\ UNCHANGED <<game, table, br, before, plan>>
Stopped(p) == [p EXCEPT !.stop = TRUE, !.awake = Everyone]
NextPhase ==
  /\ solver.pc = "merged"
  /\ IF solver.player = 0
     THEN solver' = [solver EXCEPT !.pc = "publish", !.player = 1] /\ UNCHANGED <<table, pool>>
     ELSE IF solver.iteration < solver.target
     THEN /\ table' = begin_dcfr_iteration(table, solver.iteration + 1)
          /\ solver' = [solver EXCEPT !.pc = "publish", !.player = 0, !.iteration = @ + 1]
          /\ UNCHANGED pool
     ELSE /\ pool' = Stopped(pool)
          /\ solver' = [solver EXCEPT !.pc = "join"]
          /\ UNCHANGED table
  /\ UNCHANGED <<game, br, before, plan, worker>>
\* With one worker the children of the root are traversed by the caller.
SoloPhase ==
  /\ solver.pc = "publish" /\ pool.workers = 1
  /\ LET rows == SeedsCfr(SeedsBelow(Seed(1, One)), solver.player, build_strategy_snapshot(table), NoRows)
     IN table' = merge_worker_state(table, rows, DOMAIN rows)
  /\ before' = table
  /\ solver' = [solver EXCEPT !.pc = "merged"]
  /\ UNCHANGED <<game, br, plan, pool, worker>>
Publish_keepsCursor ==     \* (mutant: the batch cursor is not put back)
  /\ solver.pc = "publish" /\ pool.workers > 1
  /\ pool' = [pool EXCEPT !.player = solver.player, !.strategy = build_strategy_snapshot(table), !.completed = 0,
                          !.error = FALSE, !.phase = @ + 1, !.awake = Everyone]
  /\ before' = table
  /\ solver' = [solver EXCEPT !.pc = "wait"]
  /\ UNCHANGED <<game, table, br, plan, worker>>
Publish ==
  /\ solver.pc = "publish" /\ pool.workers > 1
  /\ pool' = [pool EXCEPT !.player = solver.player, !.strategy = build_strategy_snapshot(table), !.completed = 0,
                          !.next_batch = 1, !.error = FALSE, !.phase = @ + 1, !.awake = Everyone]
  /\ before' = table
  /\ solver' = [solver EXCEPT !.pc = "wait"]
  /\ UNCHANGED <<game, table, br, plan, worker>>
CallerTest ==
  /\ solver.pc = "wait" /\ Caller \in pool.awake
  /\ IF pool.error
     THEN solver' = [solver EXCEPT !.pc = "join_error"] /\ pool' = Stopped(pool)
     ELSE IF pool.completed = pool.workers
     THEN solver' = [solver EXCEPT !.pc = "merge"] /\ UNCHANGED pool
     ELSE pool' = [pool EXCEPT !.awake = @ \ {Caller}] /\ UNCHANGED solver
  /\ UNCHANGED <<game, table, br, before, plan, worker>>
MergeWorkers ==
  /\ solver.pc = "merge"
  /\ table' = MergedTo(table, pool.results, 1)
  /\ pool' = [pool EXCEPT !.results = [w \in DOMAIN @ |-> NoRows]]
  /\ solver' = [solver EXCEPT !.pc = "merged"]
  /\ UNCHANGED <<game, br, before, plan, worker>>
JoinWorkers ==
  /\ solver.pc \in {"join", "join_error"} /\ \A w \in DOMAIN worker : worker[w].pc = "gone"
  /\ solver' = [solver EXCEPT !.pc = IF solver.pc = "join" THEN "finish" ELSE "thrown"]
  /\ UNCHANGED <<game, table, br, before, plan, pool, worker>>

ParallelFinish == solver.pc = "finish" /\ Finished /\ UNCHANGED <<plan, pool, worker>>

-----------------------------------------------------------------------------
(* worker_fn *)

WorkerTest(w) ==
  /\ worker[w].pc = "wait" /\ w \in pool.awake
  /\ IF pool.stop
     THEN worker' = [worker EXCEPT ![w].pc = "gone"] /\ UNCHANGED pool
     ELSE IF pool.phase # worker[w].seen
     THEN /\ worker' = [worker EXCEPT ![w] = [@ EXCEPT !.pc = "take", !.phase = pool.phase, !.player = pool.player,
                                                       !.strategy = pool.strategy]]
          /\ pool' = [pool EXCEPT !.results[w] = NoRows]
     ELSE pool' = [pool EXCEPT !.awake = @ \ {w}] /\ UNCHANGED worker
TakeBatch(w) ==
  /\ worker[w].pc = "take"
  /\ pool' = [pool EXCEPT !.next_batch = @ + 1]
  /\ worker' = [worker EXCEPT ![w] = [@ EXCEPT !.batch = pool.next_batch,
                  !.pc = IF pool.next_batch > Len(pool.batches) THEN "published" ELSE "run"]]
RunBatch(w) ==
  /\ worker[w].pc = "run"
  /\ LET indices == pool.batches[worker[w].batch].seeds
         seeds == [i \in DOMAIN indices |-> pool.frontier[indices[i]]]
     IN pool' = [pool EXCEPT !.results[w] = SeedsCfr(seeds, worker[w].player, worker[w].strategy, @)]
  /\ worker' = [worker EXCEPT ![w].pc = "take"]
BatchThrows(w) ==
  /\ worker[w].pc = "run" /\ pool.failures > 0
  /\ pool' = [pool EXCEPT !.error = TRUE, !.failures = @ - 1]
  /\ worker' = [worker EXCEPT ![w].pc = "failed"]
\* The worker that completes the phase, or that failed, notifies; every worker tests its own condition again.
Report_silent(w) ==     \* (mutant: a failed worker does not notify)
  /\ worker[w].pc \in {"published", "failed"}
  /\ LET completed == pool.completed + (IF worker[w].pc = "published" THEN 1 ELSE 0)
     IN pool' = [pool EXCEPT !.completed = completed,
                   !.awake = IF worker[w].pc = "published" /\ completed = pool.workers THEN Everyone ELSE @ \cup {w}]
  /\ worker' = [worker EXCEPT ![w] = [@ EXCEPT !.pc = "wait", !.seen = worker[w].phase]]
Report(w) ==
  /\ worker[w].pc \in {"published", "failed"}
  /\ LET completed == pool.completed + (IF worker[w].pc = "published" THEN 1 ELSE 0)
     IN pool' = [pool EXCEPT !.completed = completed,
                   !.awake = IF worker[w].pc = "failed" \/ completed = pool.workers THEN Everyone ELSE @ \cup {w}]
  /\ worker' = [worker EXCEPT ![w] = [@ EXCEPT !.pc = "wait", !.seen = worker[w].phase]]
WorkerStep(w) ==
  /\ WorkerTest(w) \/ TakeBatch(w) \/ RunBatch(w) \/ BatchThrows(w) \/ Report(w)
  /\ UNCHANGED <<game, solver, table, br, before, plan>>

ParallelNext ==
  \/ ReadyPlan \/ NextPhase \/ SoloPhase \/ Publish \/ CallerTest \/ MergeWorkers \/ JoinWorkers \/ ParallelFinish
  \/ \E w \in DOMAIN worker : WorkerStep(w)
  \/ (GenericNext /\ UNCHANGED <<plan, pool, worker>>)

-----------------------------------------------------------------------------
(* What the parallel solver promises *)

\* Every end of the game is below one seed, whose reach is the chance reach of its root.
FrontierCovers ==
  /\ \A n \in {n \in DOMAIN game.node : IsTerminal(n)} :
       Cardinality({i \in DOMAIN pool.frontier : IsBelow(n, pool.frontier[i].node)}) = 1
  /\ \A i \in DOMAIN pool.frontier : pool.frontier[i].reach = Reach(<<>>, 1, pool.frontier[i].node, {2})
\* The batches hold every seed once, none is empty, and there are at most two for each worker.
BatchesPartition ==
  /\ \A i \in DOMAIN pool.frontier :
       Cardinality({<<b, k>> \in (DOMAIN pool.batches) \X (1 .. Len(pool.frontier)) :
                     k \in DOMAIN pool.batches[b].seeds /\ pool.batches[b].seeds[k] = i}) = 1
  /\ \A b \in DOMAIN pool.batches : pool.batches[b].seeds # <<>>
  /\ Len(pool.batches) <= 2 * pool.workers
SeedsOfPhase == ToSet(IF pool.workers = 1 THEN SeedsBelow(Seed(1, One)) ELSE pool.frontier)
\* A phase adds what every history below the frontier contributes under the strategies before it,
\* whichever worker took which batch.
PhaseExact(player) ==
  \A key \in Keys(player) :
    LET count == ActionCount(key)
        sigma == CurrentProfile
        places == SetToSeq({<<seed, n>> \in SeedsOfPhase \X Decisions(player) : Node(n).key = key /\ IsBelow(n, seed.node)})
        top(i) == places[i][1]
        at(i) == places[i][2]
        gain(i, a) == Minus(ValueBelow(sigma, Kids(at(i))[a], player), ValueBelow(sigma, at(i), player))
        regret(a) == SumQ([i \in DOMAIN places |->
          Times(Times(top(i).reach, Reach(sigma, top(i).node, at(i), {2, 1 - player})), gain(i, a))])
        share == SumQ([i \in DOMAIN places |-> Times(top(i).reach, Reach(sigma, top(i).node, at(i), {2, player}))])
    IN places # <<>> =>
         \A a \in 1 .. count :
           /\ RegretsOf(table, key)[a] = Plus(Old(before.regret, key, count)[a], IF IsLocked(key, count) THEN Zero ELSE regret(a))
           /\ SumsOf(table, key)[a] = Plus(Old(before.strategy, key, count)[a], Times(share, sigma[key][a]))
SolveOver == solver.pc \in {"done", "thrown"}
\* A thread runs unless it is over, waits on pool.cv asleep, or joins a worker that is there.
CallerRuns ==
  /\ ~SolveOver
  /\ solver.pc = "wait" => Caller \in pool.awake
  /\ solver.pc \in {"join", "join_error"} => \A w \in DOMAIN worker : worker[w].pc = "gone"
WorkerRuns(w) == worker[w].pc # "gone" /\ (worker[w].pc = "wait" => w \in pool.awake)
SomeThreadRuns == CallerRuns \/ \E w \in DOMAIN worker : WorkerRuns(w)
\* Some thread can always go on until the caller has left.
NeverStuck == SolveOver \/ SomeThreadRuns
ParallelSound ==
  /\ GenericSound
  /\ solver.pc = "plan" =>
       LET made == make_partition_plan(AtLeastOne(child_count(1)), plan.workers)
       IN validate_plan(made) /\ made.items[Len(made.items)][2] = AtLeastOne(child_count(1))
  /\ pool.frontier # <<>> /\ solver.pc = "merged" => FrontierCovers /\ BatchesPartition
  /\ (solver.pc = "merged" /\ solver.iteration > 0) => PhaseExact(solver.player)
  /\ solver.pc \in {"wait", "merge", "join_error", "thrown"} => table = before
  /\ solver.pc \in {"finish", "thrown"} => \A w \in DOMAIN worker : worker[w].pc = "gone"
  /\ NeverStuck
=============================================================================
