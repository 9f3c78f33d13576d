------------------------------- MODULE FlatDcfr -------------------------------
(* HUNLFlatDCFR: an iteration is a sequence of stages (hunl_flat_pipeline.cpp),  *)
(* every stage is run by a pool of workers on ranges of infosets, nodes, buckets *)
(* or of the nodes of one depth, and the calling thread waits for all of them    *)
(* before it goes on (hunl_flat_dcfr.cpp, hunl_flat_state.cpp).                  *)
(*                                                                               *)
(* A worker handles one item of its range at a time, so that the workers of a    *)
(* stage interleave between items.  Numbers are exact.                           *)
EXTENDS Fractions, FiniteSetsExt, SequencesExt, TLC

CONSTANT Configs          \* Set of records [game, layout, workers, iterations, failures]

VARIABLES config,
          plan,      \* parallel_plan_ and pipeline_: the stages with the items of every worker
          data,      \* The tables and the buffers all workers share
          scratch,   \* Worker -> its buffers of a reach stage
          pool,      \* What the mutex of the pool guards
          workers,   \* Worker -> [pc, seen, command, next]
          caller,    \* [pc, stage, next]: the calling thread, its stage and item
          ghost      \* The tables at the start of the iteration, and whether a call has failed

dcfrVars == <<config, plan, data, scratch, pool, workers, caller, ghost>>

-----------------------------------------------------------------------------
(* The graph: nodes in depth slices, and the shapes of the infosets *)

Game == config.game
Nodes == DOMAIN Game.node
Infosets == DOMAIN Game.prior            \* Infoset -> the prior weight of each bucket
Workers == 0 .. config.workers - 1
Meta(n) == Game.node[n]
BucketCount(I) == Len(Game.prior[I])
ActionCount(I) == Len(Meta(Game.nodes_of[I][1]).kids)
IsTerminal(n) == Meta(n).type = "Terminal"

\* HUNLFlatInfosetTable: rows of value_count values, and bucket_offset into the bucket buffers.
value_index(I, bucket, action) ==
  IF config.layout = "InfosetHandAction" THEN (bucket - 1) * ActionCount(I) + action
                                         ELSE (action - 1) * BucketCount(I) + bucket
RowOf(I) == [k \in 1 .. BucketCount(I) * ActionCount(I) |-> Zero]
bucket_offset(I) == FoldSet(LAMBDA J, sum : BucketCount(J) + sum, 0, 1 .. I - 1)
TotalBuckets == bucket_offset(Len(Game.prior) + 1)
prior_bucket_weight(I, bucket) == Game.prior[I][bucket]

-----------------------------------------------------------------------------
(* Which worker handles what *)

HalfOpen(begin, end) == [begin |-> begin, end |-> end]
partition_range_floor(total, count, w) ==     \* (mutant: the remainder is left out)
  HalfOpen(w * (total \div count), (w + 1) * (total \div count))
\* partition_range: blocks of total / workers items, the first ones one item longer.
partition_range(total, count, w) ==
  LET before(v) == v * (total \div count) + Min({v, total % count})
  IN HalfOpen(before(w), before(w + 1))

estimated_backward_cost(n) ==
  CASE IsTerminal(n) -> 1
    [] Meta(n).type = "Chance" -> Max({1, Len(Meta(n).kids)})
    [] OTHER -> Max({1, Len(Meta(n).kids) * BucketCount(Meta(n).infoset)})

\* partition_depth_slice_by_cost: a worker takes nodes until its share of the remaining cost
\* is reached, and leaves a node for each of the workers after it.
RECURSIVE TakeUntil(_, _, _, _, _, _)
TakeUntil(costs, begin, cursor, assigned, target, others) ==
  IF \/ cursor = Len(costs)
     \/ Len(costs) - cursor = others /\ cursor > begin
     \/ assigned > 0 /\ assigned + costs[cursor + 1] - target > Max({0, target - assigned})
  THEN cursor
  ELSE TakeUntil(costs, begin, cursor + 1, assigned + costs[cursor + 1], target, others)
CostOf(costs, begin, end) == FoldSet(LAMBDA i, sum : costs[i] + sum, 0, begin + 1 .. end)
RECURSIVE partition_by_cost(_, _, _, _)
partition_by_cost(costs, w, count, begin) ==
  LET remaining == CostOf(costs, begin, Len(costs))
      end == IF w = count - 1 THEN Len(costs)
             ELSE TakeUntil(costs, begin, begin, 0, (remaining + count - w - 1) \div (count - w), count - w - 1)
  IN IF w = count THEN <<>> ELSE <<HalfOpen(begin, end)>> \o partition_by_cost(costs, w + 1, count, end)
partition_depth_slice_by_cost(depth, w) ==
  partition_by_cost([i \in DOMAIN Game.slices[depth] |-> estimated_backward_cost(Game.slices[depth][i])],
                    0, config.workers, 0)[w + 1]

\* HUNLFlatParallelPlan::build: the items of a command for worker w, in order.
Items(command, w) ==
  LET within(range, from) == [k \in 1 .. range.end - range.begin |-> from[range.begin + k]]
      infosets == partition_range(Len(Game.prior), config.workers, w)
      buckets == IF infosets.begin = infosets.end THEN HalfOpen(0, 0)
                 ELSE HalfOpen(bucket_offset(infosets.begin + 1), bucket_offset(infosets.end + 1))
      next == Game.slices[command.depth + 1]
  IN CASE command.name \in {"ReachSeed", "BackwardDepth"} ->
            within(partition_depth_slice_by_cost(command.depth, w), Game.slices[command.depth])
       [] command.name = "ReachReduceNodes" -> within(partition_range(Len(next), config.workers, w), next)
       [] command.name = "ReachReduceBuckets" -> within(buckets, [b \in 1 .. TotalBuckets |-> b])
       [] command.name = "ShowdownEquity" ->
            within(partition_range(Len(Game.node), config.workers, w), [n \in Nodes |-> n])
       [] OTHER -> within(infosets, [I \in Infosets |-> I])

\* HUNLFlatPipeline::run_iteration: the stages of an iteration.  The graph has no depth-limited
\* nodes (validate_flat_solver_graph), so that stage is left out as optional.
Command(name, depth) == [name |-> name, depth |-> depth]
ReachStages(depth) ==
  <<Command("ReachSeed", depth)>>
  \o (IF depth < Len(Game.slices) THEN <<Command("ReachReduceNodes", depth)>> ELSE <<>>)
  \o <<Command("ReachReduceBuckets", depth)>>
BackwardStages == [k \in 1 .. Len(Game.slices) |-> Command("BackwardDepth", Len(Game.slices) + 1 - k)]
Stages ==
  <<Command("Discount", 0), Command("Strategy", 0)>>
  \o FlattenSeq([depth \in 1 .. Len(Game.slices) |-> ReachStages(depth)])
  \o <<Command("NormalizeBucketReach", 0), Command("ShowdownEquity", 0)>> \o BackwardStages
  \o <<Command("Regret", 0), Command("AverageStrategy", 0)>>

-----------------------------------------------------------------------------
(* What a stage does to one item; d is the shared data, s the worker's scratch. *)

\* dcfr_iteration_scales with alpha = gamma = 1 and beta = 0.
dcfr_iteration_scales(t) == [positive |-> Q(t, t + 1), negative |-> Q(1, 2), strategy |-> Q(t, t + 1)]
discount_values(x, scales) ==
  Times(x, IF x[1] > 0 THEN scales.positive ELSE IF x[1] < 0 THEN scales.negative ELSE One)
\* for_each_u32_after: the scales of every iteration after the last discount, multiplied.
ScalesAfter(last, target) ==
  LET product(scale(_)) == ProductQ([k \in 1 .. target - last |-> scale(dcfr_iteration_scales(last + k))])
  IN [positive |-> product(LAMBDA x : x.positive), negative |-> product(LAMBDA x : x.negative),
      strategy |-> product(LAMBDA x : x.strategy)]
worker_discount_stage(d, I) ==
  LET scales == ScalesAfter(d.last[I], d.iterations + 1)
  IN IF d.last[I] >= d.iterations + 1 THEN d
     ELSE [d EXCEPT !.regret[I] = [k \in DOMAIN @ |-> discount_values(@[k], scales)],
                    !.strategy[I] = [k \in DOMAIN @ |-> Times(@[k], scales.strategy)],
                    !.last[I] = d.iterations + 1]

\* Regret matching of one bucket, at the places the layout gives.
RegretMatching(d, I, bucket) ==
  LET positive == [a \in 1 .. ActionCount(I) |-> Larger(Zero, d.regret[I][value_index(I, bucket, a)])]
      total == SumQ(positive)
  IN [a \in DOMAIN positive |-> IF total = Zero THEN Q(1, ActionCount(I)) ELSE Over(positive[a], total)]
Cells(I) == (1 .. BucketCount(I)) \X (1 .. ActionCount(I))
CellAt(I, k) == CHOOSE cell \in Cells(I) : value_index(I, cell[1], cell[2]) = k
worker_strategy_stage(d, I) ==
  [d EXCEPT !.current[I] = [k \in DOMAIN @ |-> RegretMatching(d, I, CellAt(I, k)[1])[CellAt(I, k)[2]]]]

EmptyScratch == [reach |-> [n \in Nodes |-> <<Zero, Zero, Zero>>], bucket |-> [b \in 1 .. TotalBuckets |-> Zero],
                 dirty_nodes |-> {}, dirty_buckets |-> {}]
\* The masses a node sends along its edges, added to the scratch of its children; what was zero
\* before is marked dirty.
AddReach(s, kids, mass(_)) ==
  LET into(n, i) == SumQ([k \in DOMAIN kids |-> IF kids[k] = n THEN mass(k)[i] ELSE Zero])
      children == {kids[k] : k \in DOMAIN kids}
  IN [s EXCEPT !.dirty_nodes = @ \cup {n \in children : s.reach[n] = <<Zero, Zero, Zero>>},
               !.reach = [n \in DOMAIN @ |-> IF n \in children THEN [i \in 1 .. 3 |-> Plus(@[n][i], into(n, i))] ELSE @[n]]]
AddBuckets(s, I, mass) ==
  LET range == bucket_offset(I) + 1 .. bucket_offset(I + 1)
  IN [s EXCEPT !.dirty_buckets = @ \cup {b \in range : s.bucket[b] = Zero},
               !.bucket = [b \in DOMAIN @ |-> IF b \in range THEN Plus(@[b], mass[b - bucket_offset(I)]) ELSE @[b]]]
\* The probability of an action, averaged over the buckets with the given weights.
ActionMass(d, I, weights, action) ==
  Dot(weights, [b \in 1 .. BucketCount(I) |-> d.current[I][value_index(I, b, action)]])
worker_reach_seed_depth(d, s, n) ==
  LET meta == Meta(n)
      reach == d.reach[n]
      acting == reach[meta.player + 1]
      prior == [b \in 1 .. BucketCount(meta.infoset) |-> Times(acting, prior_bucket_weight(meta.infoset, b))]
      toOutcome(i) == <<reach[1], reach[2], Times(reach[3], meta.probability[i])>>
      toAction(i) == [reach EXCEPT ![meta.player + 1] = ActionMass(d, meta.infoset, prior, i)]
  IN IF (reach[1] = Zero /\ reach[2] = Zero) \/ reach[3] = Zero \/ meta.kids = <<>> THEN s
     ELSE IF meta.type = "Chance"
     THEN AddReach(s, meta.kids, toOutcome)
     ELSE IF acting = Zero THEN s
     ELSE AddReach(AddBuckets(s, meta.infoset, prior), meta.kids, toAction)

OverWorkers(value) == SumQ([w \in 1 .. config.workers |-> value[w - 1]])
worker_reach_reduce_nodes_depth(d, n) ==
  [d EXCEPT !.reach[n] = [i \in 1 .. 3 |-> Plus(@[i], OverWorkers([w \in Workers |-> scratch[w].reach[n][i]]))]]
worker_reach_reduce_buckets_depth(d, b) ==
  [d EXCEPT !.bucket[b] = Plus(@, OverWorkers([w \in Workers |-> scratch[w].bucket[b]]))]

BucketsOf(d, I) == [b \in 1 .. BucketCount(I) |-> d.bucket[bucket_offset(I) + b]]
Normalized(d, I) == [b \in 1 .. BucketCount(I) |-> d.norm[bucket_offset(I) + b]]
worker_normalize_bucket_reach_stage(d, I) ==
  LET total == SumQ(BucketsOf(d, I))
  IN [d EXCEPT !.norm = [b \in DOMAIN @ |->
        IF b \notin bucket_offset(I) + 1 .. bucket_offset(I + 1) THEN @[b]
        ELSE IF total = Zero THEN prior_bucket_weight(I, b - bucket_offset(I)) ELSE Over(d.bucket[b], total)]]
worker_showdown_equity_stage(d, n) == IF IsTerminal(n) THEN [d EXCEPT !.terminal[n] = Meta(n).utility] ELSE d

worker_backward_depth(d, n) ==
  LET meta == Meta(n)
      values == [i \in DOMAIN meta.kids |-> d.value[meta.kids[i]]]
      weights == [i \in DOMAIN meta.kids |->
                    IF meta.type = "Chance" THEN meta.probability[i]
                    ELSE ActionMass(d, meta.infoset, Normalized(d, meta.infoset), i)]
  IN IF IsTerminal(n) THEN [d EXCEPT !.value[n] = d.terminal[n]]
     ELSE [d EXCEPT !.action_value[n] = values, !.value[n] = Dot(values, weights)]

\* Both updates read the values and the reaches of the first node of the infoset only, and
\* the regrets of either player are those of player 0's values.
FirstNode(I) == Game.nodes_of[I][1]
OwnPlayer(I) == Meta(FirstNode(I)).player
worker_regret_stage(d, I) ==
  LET n == FirstNode(I)
      cf_reach == Times(d.reach[n][3], d.reach[n][2 - OwnPlayer(I)])
      delta(bucket, a) == Times(Times(cf_reach, Normalized(d, I)[bucket]), Minus(d.action_value[n][a], d.value[n]))
  IN [d EXCEPT !.regret[I] = [k \in DOMAIN @ |-> Plus(@[k], delta(CellAt(I, k)[1], CellAt(I, k)[2]))]]
worker_average_strategy_stage(d, I) ==
  LET n == FirstNode(I)
      own_reach == Times(d.reach[n][3], d.reach[n][OwnPlayer(I) + 1])
  IN [d EXCEPT !.strategy[I] = [k \in DOMAIN @ |->
        Plus(@[k], Times(Times(own_reach, Normalized(d, I)[CellAt(I, k)[1]]), d.current[I][k]))]]

execute_stage_command(command, d, item) ==
  CASE command.name = "Discount" -> worker_discount_stage(d, item)
    [] command.name = "Strategy" -> worker_strategy_stage(d, item)
    [] command.name = "ReachReduceNodes" -> worker_reach_reduce_nodes_depth(d, item)
    [] command.name = "ReachReduceBuckets" -> worker_reach_reduce_buckets_depth(d, item)
    [] command.name = "NormalizeBucketReach" -> worker_normalize_bucket_reach_stage(d, item)
    [] command.name = "ShowdownEquity" -> worker_showdown_equity_stage(d, item)
    [] command.name = "BackwardDepth" -> worker_backward_depth(d, item)
    [] command.name = "Regret" -> worker_regret_stage(d, item)
    [] command.name = "AverageStrategy" -> worker_average_strategy_stage(d, item)
    [] OTHER -> d

Execute(command, w, item) ==
  IF command.name = "ReachSeed"
  THEN scratch' = [scratch EXCEPT ![w] = worker_reach_seed_depth(data, @, item)] /\ UNCHANGED data
  ELSE data' = execute_stage_command(command, data, item) /\ UNCHANGED scratch

-----------------------------------------------------------------------------
(* The calling thread *)

Buffers == [reach |-> [n \in Nodes |-> <<Zero, Zero, Zero>>], bucket |-> [b \in 1 .. TotalBuckets |-> Zero],
            norm |-> [b \in 1 .. TotalBuckets |-> Zero], terminal |-> [n \in Nodes |-> Zero],
            value |-> [n \in Nodes |-> Zero], action_value |-> [n \in Nodes |-> [i \in DOMAIN Meta(n).kids |-> Zero]]]
Rows == [I \in Infosets |-> RowOf(I)]
DcfrInit ==
  /\ config \in Configs
  /\ plan = [k \in DOMAIN Stages |->
       [command |-> Stages[k], items |-> [w \in Workers |-> Items(Stages[k], w)]]]
  /\ data = [regret |-> Rows, strategy |-> Rows, current |-> Rows, last |-> [I \in Infosets |-> 0], iterations |-> 0] @@ Buffers
  /\ scratch = [w \in Workers |-> EmptyScratch]
  /\ pool = [generation |-> 0, completed |-> 0, error |-> FALSE, stop |-> FALSE, failures |-> 0, command |-> 1]
  /\ workers = [w \in Workers |-> [pc |-> "check", seen |-> 0, command |-> 1, next |-> 1]]
  /\ caller = [pc |-> "idle", stage |-> 1, next |-> 1]
  /\ ghost = [before |-> data, failed |-> FALSE]

run_iteration ==
  /\ caller.pc = "idle" /\ data.iterations < config.iterations
  /\ caller' = [pc |-> "stage", stage |-> 1, next |-> 1]
  /\ ghost' = [ghost EXCEPT !.before = data]
  /\ UNCHANGED <<config, plan, data, scratch, pool, workers>>

\* What the caller does before a stage: it clears the buffers of the stages that begin.
forward_reach_start(d) ==
  [d EXCEPT !.reach = [n \in Nodes |-> IF n = 1 THEN <<One, One, One>> ELSE <<Zero, Zero, Zero>>],
            !.bucket = [b \in DOMAIN @ |-> Zero]]
backward_start(d) ==
  [d EXCEPT !.value = Buffers.value, !.action_value = Buffers.action_value]
PreparedFor(command) ==
  CASE command = Command("ReachSeed", 1) -> forward_reach_start(data)
    [] command = Command("BackwardDepth", Len(Game.slices)) -> backward_start(data)
    [] OTHER -> data
\* What it does after a stage: the scratch the reductions have read is cleared by its dirty lists.
ClearNodes_kept(s) ==     \* (mutant: only the list is cleared)
  [s EXCEPT !.dirty_nodes = {}]
ClearNodes(s) ==
  [s EXCEPT !.reach = [n \in DOMAIN @ |-> IF n \in s.dirty_nodes THEN <<Zero, Zero, Zero>> ELSE @[n]], !.dirty_nodes = {}]
ClearBuckets(s) ==
  [s EXCEPT !.bucket = [b \in DOMAIN @ |-> IF b \in s.dirty_buckets THEN Zero ELSE @[b]], !.dirty_buckets = {}]
ScratchAfter(command, s) ==
  CASE command.name = "ReachReduceNodes" -> ClearNodes(s)
    [] command.name = "ReachReduceBuckets" -> ClearBuckets(s)
    [] OTHER -> s
Stage == plan[caller.stage].command
StageOver ==
  /\ scratch' = [w \in Workers |-> ScratchAfter(Stage, scratch[w])]
  /\ IF caller.stage = Len(plan)
     THEN caller' = [pc |-> "idle", stage |-> 1, next |-> 1] /\ data' = [data EXCEPT !.iterations = @ + 1]
     ELSE caller' = [pc |-> "stage", stage |-> caller.stage + 1, next |-> 1] /\ UNCHANGED data

\* run_stage_workers: one worker means that the caller runs the stage itself.
StartInline ==
  /\ caller.pc = "stage" /\ config.workers = 1
  /\ data' = PreparedFor(Stage)
  /\ caller' = [caller EXCEPT !.pc = "inline", !.next = 1]
  /\ UNCHANGED <<config, plan, scratch, pool, workers, ghost>>
InlineItem ==
  /\ caller.pc = "inline" /\ caller.next <= Len(plan[caller.stage].items[0])
  /\ Execute(Stage, 0, plan[caller.stage].items[0][caller.next])
  /\ caller' = [caller EXCEPT !.next = @ + 1]
  /\ UNCHANGED <<config, plan, pool, workers, ghost>>
InlineOver ==
  /\ caller.pc = "inline" /\ caller.next > Len(plan[caller.stage].items[0])
  /\ StageOver
  /\ UNCHANGED <<config, plan, pool, workers, ghost>>

\* WorkerPool::run_stage
Publish ==
  /\ caller.pc = "stage" /\ config.workers > 1
  /\ data' = PreparedFor(Stage)
  /\ pool' = [pool EXCEPT !.command = caller.stage, !.error = FALSE, !.completed = 0, !.generation = @ + 1]
  /\ caller' = [caller EXCEPT !.pc = "notify"]
  /\ UNCHANGED <<config, plan, scratch, workers, ghost>>
Woken == [w \in Workers |-> IF workers[w].pc = "asleep" THEN [workers[w] EXCEPT !.pc = "check"] ELSE workers[w]]
Notify ==
  /\ caller.pc = "notify"
  /\ workers' = Woken
  /\ caller' = [caller EXCEPT !.pc = "wait"]
  /\ UNCHANGED <<config, plan, data, scratch, pool, ghost>>
Wait_any ==     \* (mutant: any worker that has finished ends the wait)
  /\ caller.pc = "wait"
  /\ IF pool.completed = 0 THEN caller' = [caller EXCEPT !.pc = "asleep"] /\ UNCHANGED <<data, scratch, ghost>>
     ELSE IF pool.error
     THEN /\ caller' = [pc |-> "idle", stage |-> 1, next |-> 1] /\ ghost' = [ghost EXCEPT !.failed = TRUE]
          /\ UNCHANGED <<data, scratch>>
     ELSE StageOver /\ UNCHANGED ghost
  /\ UNCHANGED <<config, plan, pool, workers>>
\* An error of a stage is thrown out of run_iteration with the buffers as they are.
Wait ==
  /\ caller.pc = "wait"
  /\ IF pool.completed # config.workers THEN caller' = [caller EXCEPT !.pc = "asleep"] /\ UNCHANGED <<data, scratch, ghost>>
     ELSE IF pool.error
     THEN /\ caller' = [pc |-> "idle", stage |-> 1, next |-> 1] /\ ghost' = [ghost EXCEPT !.failed = TRUE]
          /\ UNCHANGED <<data, scratch>>
     ELSE StageOver /\ UNCHANGED ghost
  /\ UNCHANGED <<config, plan, pool, workers>>

\* WorkerPool::~WorkerPool
Destroy ==
  /\ caller.pc = "idle"
  /\ pool' = [pool EXCEPT !.stop = TRUE]
  /\ caller' = [caller EXCEPT !.pc = "stopping"]
  /\ UNCHANGED <<config, plan, data, scratch, workers, ghost>>
NotifyStop ==
  /\ caller.pc = "stopping"
  /\ workers' = Woken
  /\ caller' = [caller EXCEPT !.pc = "joining"]
  /\ UNCHANGED <<config, plan, data, scratch, pool, ghost>>
Join ==
  /\ caller.pc = "joining" /\ \A w \in Workers : workers[w].pc = "left"
  /\ caller' = [caller EXCEPT !.pc = "destroyed"]
  /\ UNCHANGED <<config, plan, data, scratch, pool, workers, ghost>>

-----------------------------------------------------------------------------
(* WorkerPool::worker_loop *)

WorkerChecks(w) ==
  /\ workers[w].pc = "check"
  /\ workers' = [workers EXCEPT ![w] =
       IF pool.stop THEN [@ EXCEPT !.pc = "left"]
       ELSE IF pool.generation # @.seen
            THEN [pc |-> "run", seen |-> pool.generation, command |-> pool.command, next |-> 1]
            ELSE [@ EXCEPT !.pc = "asleep"]]
  /\ UNCHANGED <<config, plan, data, scratch, pool, caller, ghost>>
ItemsOf(w) == plan[workers[w].command].items[w]
WorkerItem(w) ==
  LET command == plan[workers[w].command].command
      all == ItemsOf(w)
  IN /\ workers[w].pc = "run" /\ workers[w].next <= Len(all)
     /\ Execute(command, w, all[workers[w].next])
     /\ workers' = [workers EXCEPT ![w].next = @ + 1]
     /\ UNCHANGED <<config, plan, pool, caller, ghost>>
Counted(error) == [pool EXCEPT !.completed = @ + 1, !.error = @ \/ error, !.failures = IF error THEN @ + 1 ELSE @]
WorkerCounts_unlessError(w) ==     \* (mutant: a worker that has thrown does not count itself)
  /\ workers[w].pc = "run" /\ workers[w].next > Len(ItemsOf(w))
  /\ \/ pool' = Counted(FALSE)
     \/ pool.failures < config.failures /\ pool' = [Counted(TRUE) EXCEPT !.completed = pool.completed]
  /\ caller' = IF pool'.completed = config.workers /\ caller.pc = "asleep" THEN [caller EXCEPT !.pc = "wait"] ELSE caller
  /\ workers' = [workers EXCEPT ![w].pc = "check"]
  /\ UNCHANGED <<config, plan, data, scratch, ghost>>
\* The last worker wakes the caller.  What may throw is the profiling of a stage, after its work.
WorkerCounts(w) ==
  /\ workers[w].pc = "run" /\ workers[w].next > Len(ItemsOf(w))
  /\ pool' = Counted(FALSE) \/ (pool.failures < config.failures /\ pool' = Counted(TRUE))
  /\ caller' = IF pool'.completed = config.workers /\ caller.pc = "asleep" THEN [caller EXCEPT !.pc = "wait"] ELSE caller
  /\ workers' = [workers EXCEPT ![w].pc = "check"]
  /\ UNCHANGED <<config, plan, data, scratch, ghost>>

Calls == run_iteration \/ Destroy
CallerStep == StartInline \/ InlineItem \/ InlineOver \/ Publish \/ Notify \/ Wait \/ NotifyStop \/ Join
WorkerStep(w) == w \in Workers /\ (WorkerChecks(w) \/ WorkerItem(w) \/ WorkerCounts(w))
DcfrNext == Calls \/ CallerStep \/ \E w \in Workers : WorkerStep(w)
\* ENABLED CallerStep and ENABLED WorkerStep(w): the pc alone decides.
CallerCan ==
  \/ caller.pc \in {"stage", "inline", "notify", "wait", "stopping"}
  \/ caller.pc = "joining" /\ \A w \in Workers : workers[w].pc = "left"
WorkerCan(w) == w \in Workers /\ workers[w].pc \in {"check", "run"}

-----------------------------------------------------------------------------
(* The exports *)

NormalizedRow(values) ==
  LET total == SumQ(values) IN [a \in DOMAIN values |-> IF Less(Zero, total) THEN Over(values[a], total) ELSE Q(1, Len(values))]
\* export_average_strategy reads the rows bucket by bucket under the layout that stores them
\* action by action, and the other way round.
export_average_strategy(I, bucket) ==
  NormalizedRow([a \in 1 .. ActionCount(I) |->
    data.strategy[I][IF config.layout = "InfosetActionHand" THEN (bucket - 1) * ActionCount(I) + a
                                                            ELSE (a - 1) * BucketCount(I) + bucket]])
export_average_strategy_table(I, bucket) ==
  NormalizedRow([a \in 1 .. ActionCount(I) |-> data.strategy[I][value_index(I, bucket, a)]])

-----------------------------------------------------------------------------
(* What an iteration leaves, from the tables it started with: equations over the *)
(* whole graph, which is acyclic, so that they have one solution.                *)

Before(I, bucket, action) == ghost.before.regret[I][value_index(I, bucket, action)]
Scales == dcfr_iteration_scales(ghost.before.iterations + 1)
StrategyExact ==
  \A I \in Infosets : \A bucket \in 1 .. BucketCount(I) :
    [a \in 1 .. ActionCount(I) |-> data.current[I][value_index(I, bucket, a)]]
      = NormalizedRow([a \in 1 .. ActionCount(I) |-> Larger(Zero, discount_values(Before(I, bucket, a), Scales))])
Blend(I, action) ==
  SumQ([b \in 1 .. BucketCount(I) |-> Times(Game.prior[I][b], data.current[I][value_index(I, b, action)])])
EdgesInto(n) ==
  SetToSeq({e \in Nodes \X (1 .. 3) : e[2] \in DOMAIN Meta(e[1]).kids /\ Meta(e[1]).kids[e[2]] = n})
Along(e, i) ==
  LET m == Meta(e[1])
      r == data.reach[e[1]]
      dead == r[3] = Zero \/ (r[1] = Zero /\ r[2] = Zero) \/ (m.type = "Decision" /\ r[m.player + 1] = Zero)
  IN IF dead THEN Zero
     ELSE IF m.type = "Chance" /\ i = 3 THEN Times(r[3], m.probability[e[2]])
     ELSE IF m.type = "Decision" /\ i = m.player + 1 THEN Times(r[i], Blend(m.infoset, e[2]))
     ELSE r[i]
ReachExact ==
  \A n \in Nodes, i \in 1 .. 3 :
    data.reach[n][i] = IF n = 1 THEN One ELSE SumQ([k \in DOMAIN EdgesInto(n) |-> Along(EdgesInto(n)[k], i)])
ValueExact ==
  \A n \in Nodes :
    data.value[n] = IF IsTerminal(n) THEN Meta(n).utility
                    ELSE SumQ([i \in DOMAIN Meta(n).kids |-> Times(data.value[Meta(n).kids[i]],
                           IF Meta(n).type = "Chance" THEN Meta(n).probability[i] ELSE Blend(Meta(n).infoset, i))])
TablesExact ==
  \A I \in Infosets : \A cell \in Cells(I) :
    LET n == FirstNode(I)
        k == value_index(I, cell[1], cell[2])
        weight(seat) == Times(Times(data.reach[n][3], data.reach[n][seat + 1]), Game.prior[I][cell[1]])
        gain == Minus(data.value[Meta(n).kids[cell[2]]], data.value[n])
    IN /\ data.regret[I][k] = Plus(discount_values(Before(I, cell[1], cell[2]), Scales), Times(weight(1 - OwnPlayer(I)), gain))
       /\ data.strategy[I][k] = Plus(Times(ghost.before.strategy[I][k], Scales.strategy), Times(weight(OwnPlayer(I)), data.current[I][k]))

\* The ranges of every stage are a partition of what the stage has to do.
PlanSound ==
  \A k \in DOMAIN plan :
    LET all == FlattenSeq([w \in 1 .. config.workers |-> plan[k].items[w - 1]])
        command == plan[k].command
    IN /\ \A i, j \in DOMAIN all : i < j => all[i] # all[j]
       /\ command.name \in {"ReachSeed", "BackwardDepth"} => all = Game.slices[command.depth]
       /\ command.name = "ReachReduceBuckets" => Len(all) = TotalBuckets
       /\ command.name = "ShowdownEquity" => Len(all) = Len(Game.node)
       /\ command.name \in {"Discount", "Strategy", "Regret", "AverageStrategy"} => Len(all) = Len(Game.prior)
\* As long as no call has failed, an iteration leaves the tables a sequential pass over the
\* graph leaves, however its stages were divided and its workers interleaved, and the scratch
\* clean for the next one.
IterationExact ==
  (caller.pc = "idle" /\ data.iterations > 0 /\ ~ghost.failed) =>
    /\ StrategyExact /\ ReachExact /\ ValueExact /\ TablesExact
    /\ \A w \in Workers : scratch[w] = EmptyScratch
    /\ \A I \in Infosets, bucket \in 1 .. 2 : bucket <= BucketCount(I) =>
         /\ SumQ(export_average_strategy_table(I, bucket)) = One
         /\ BucketCount(I) = 1 => export_average_strategy(I, bucket) = export_average_strategy_table(I, bucket)
\* A stage is over only when every worker has run it, and none is still writing.
StageIsBarrier ==
  caller.pc \in {"idle", "stage", "stopping"} => \A w \in Workers : workers[w].pc # "run"
DcfrSound == (caller.pc = "idle" => PlanSound) /\ IterationExact /\ StageIsBarrier
\* Between the start of a call, or of the destructor, and its end.
DcfrBusy == caller.pc \notin {"idle", "destroyed"}
=============================================================================
