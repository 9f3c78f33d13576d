----------------------------- MODULE FlatWorkers -----------------------------
(* The worker pool of HUNLFlatMCCFR: how the iterations of                       *)
(* hunl_flat_mccfr.cpp are cut into sub-batches of trajectories, how a sub-batch *)
(* is handed to the workers by a generation number, and how their deltas are     *)
(* discounted and merged.  The coordinator is worker 0.                          *)
(*                                                                               *)
(* What a trajectory adds is abstracted to its identity: a row of the table      *)
(* holds, for every trajectory merged into it, how often it was merged, the      *)
(* strategy snapshot it was sampled with and the discounts applied to it since.  *)
EXTENDS Integers, Sequences, FiniteSets, FiniteSetsExt, TLC

CONSTANTS WorkerCount, Traversals, BatchSize, PlayerCount, Rows,
          Stride,          \* snapshot_stride_batches
          CallBatches,     \* The batches of one run_batches call
          MaxIterations, MaxFailures

VARIABLES config,     \* [discounting, sparse]
          table,      \* Row -> [exists, last, entries]; last is last_discount_iter
          progress,   \* Iterations, player, trajectory and snapshot of the solver
          pool,       \* What worker_mutex_ guards
          workers,    \* Worker -> [pc, observed, job]
          scratch,    \* Worker -> [dirty, snapshot]: the trajectories and rows of its deltas
          caller      \* The call in progress and its result

poolVars == <<config, table, progress, pool, workers, scratch, caller>>

Workers == 0 .. WorkerCount - 1
Helpers == Workers \ {0}
EmptyScratch == [trajectories |-> {}, snapshot |-> 0]
\* The rows a trajectory reaches: a fixed function of the seed and its identity.
Reaches(t) == {r \in Rows : r = 0 \/ (t.iteration % 2 = 1 /\ t.id # t.player)}

-----------------------------------------------------------------------------
(* Sub-batches *)

partition_deterministic_all(count, w) == [begin |-> 0, end |-> count]     \* (mutant: every worker runs them all)
\* HUNLSampledScheduler::partition_deterministic: the range of worker w.
partition_deterministic(count, w) ==
  LET used == IF count < WorkerCount THEN count ELSE WorkerCount
      base == count \div used
      remainder == count % used
      begin == w * base + (IF w < remainder THEN w ELSE remainder)
  IN IF w < used THEN [begin |-> begin, end |-> begin + base + (IF w < remainder THEN 1 ELSE 0)]
                 ELSE [begin |-> count, end |-> count]

TypeOK ==
  /\ progress.iterations \in 0 .. MaxIterations
  /\ progress.player \in 0 .. PlayerCount - 1
  /\ progress.trajectory_begin \in 0 .. Traversals
  /\ \A w \in Workers : workers[w].pc \in {"check", "asleep", "run", "left"}

FlatPoolInit ==
  /\ config \in [discounting : BOOLEAN, sparse : BOOLEAN]
  /\ table = [r \in Rows |-> [exists |-> ~config.sparse, last |-> 0, entries |-> <<>>]]
  /\ progress = [iterations |-> 0, in_progress |-> FALSE, target |-> 0, player |-> 0, trajectory_begin |-> 0,
                 ready |-> FALSE, snapshot |-> 0, dispatched |-> 0, merged |-> 0, seen |-> 0]
  /\ pool = [generation |-> 0, completed |-> 0, exception |-> FALSE, shutdown |-> FALSE, job |-> <<>>, failures |-> 0]
  /\ workers = [w \in Workers |-> [pc |-> "check", observed |-> 0, job |-> <<>>]]
  /\ scratch = [w \in Workers |-> EmptyScratch]
  /\ caller = [pc |-> "idle", kind |-> "none", left |-> 0, count |-> 0, failed |-> FALSE,
               batches |-> 0, snapshots |-> <<>>, merge |-> 0]

-----------------------------------------------------------------------------
(* The calls *)

CanStart == caller.pc = "idle" /\ progress.iterations < MaxIterations
\* run_iteration, run_batches and run_until all loop over run_next_player_subbatch.
run_iteration ==
  /\ CanStart
  /\ caller' = [caller EXCEPT !.pc = "next", !.kind = "iteration", !.batches = 0, !.snapshots = <<>>]
  /\ UNCHANGED <<config, table, progress, pool, workers, scratch>>
run_batches(n) ==
  /\ CanStart
  /\ caller' = [caller EXCEPT !.pc = "next", !.kind = "batches", !.left = n, !.batches = 0, !.snapshots = <<>>]
  /\ UNCHANGED <<config, table, progress, pool, workers, scratch>>
Snapshot(timed_out) == [batches |-> caller.batches, timed_out |-> timed_out, merged |-> progress.merged]
\* The deadline may have passed already, before any sub-batch was run.
run_until ==
  /\ CanStart
  /\ caller' = [caller EXCEPT !.pc = "deadline", !.kind = "until", !.batches = 0, !.snapshots = <<>>]
  /\ UNCHANGED <<config, table, progress, pool, workers, scratch>>
BeforeDeadline ==
  /\ caller.pc = "deadline" /\ progress.iterations < MaxIterations
  /\ caller' = [caller EXCEPT !.pc = "next"]
  /\ UNCHANGED <<config, table, progress, pool, workers, scratch>>
DeadlinePassed ==
  /\ caller.pc = "deadline"
  /\ caller' = [caller EXCEPT !.pc = "idle",
       !.snapshots = IF @ = <<>> THEN <<Snapshot(TRUE)>> ELSE [@ EXCEPT ![Len(@)].timed_out = TRUE]]
  /\ UNCHANGED <<config, table, progress, pool, workers, scratch>>

\* The table as the strategy computation sees it: how many trajectories have reached it.
begin_player_batch(p) == [p EXCEPT !.snapshot = @ + 1, !.dispatched = 0, !.ready = TRUE, !.seen = p.merged]
StartedIteration(p) ==
  IF p.in_progress THEN p
  ELSE [p EXCEPT !.in_progress = TRUE, !.target = p.iterations + 1, !.player = 0, !.trajectory_begin = 0, !.ready = FALSE]
ReadyProgress_once ==     \* (mutant: the snapshot of the first player serves the second)
  LET p == StartedIteration(progress) IN IF p.ready \/ p.player > 0 THEN p ELSE begin_player_batch(p)
ReadyProgress ==
  LET p == StartedIteration(progress) IN IF p.ready THEN p ELSE begin_player_batch(p)

\* run_next_player_subbatch up to the notification of the workers.
Dispatch ==
  /\ caller.pc = "next"
  /\ LET p == ReadyProgress
         count == Min({BatchSize, Traversals - p.trajectory_begin})
     IN /\ progress' = [p EXCEPT !.dispatched = p.snapshot]
        /\ caller' = [caller EXCEPT !.pc = IF WorkerCount > 1 THEN "notify" ELSE "own", !.count = count, !.failed = FALSE]
        /\ pool' = [pool EXCEPT !.completed = 0, !.exception = FALSE, !.generation = @ + 1,
             !.job = [iteration |-> p.target, player |-> p.player, begin |-> p.trajectory_begin, count |-> count]]
  /\ UNCHANGED <<config, table, workers, scratch>>
Woken(ws) == [w \in Workers |-> IF ws[w].pc = "asleep" THEN [ws[w] EXCEPT !.pc = "check"] ELSE ws[w]]
NotifyWorkers ==
  /\ caller.pc = "notify"
  /\ workers' = Woken(workers)
  /\ caller' = [caller EXCEPT !.pc = "own"]
  /\ UNCHANGED <<config, table, progress, pool, scratch>>

-----------------------------------------------------------------------------
(* Executing a sub-batch *)

\* execute_worker_batch: the trajectories of a range, sampled with the current snapshot.
Executed(w, job) ==
  LET range == partition_deterministic(job.count, w)
  IN [trajectories |-> {[iteration |-> job.iteration, player |-> job.player, id |-> job.begin + i] :
                          i \in range.begin .. range.end - 1},
      snapshot |-> progress.seen]
execute_worker_batch(w, job) == scratch' = [scratch EXCEPT ![w] = Executed(w, job)]
\* A trajectory throws: the scratch keeps what was written before.
CanFail == pool.failures < MaxFailures

CoordinatorRuns ==
  /\ caller.pc = "own"
  /\ execute_worker_batch(0, pool.job)
  /\ \/ caller' = [caller EXCEPT !.pc = "done"] /\ UNCHANGED pool
     \/ /\ CanFail /\ caller' = [caller EXCEPT !.pc = "done", !.failed = TRUE]
        /\ pool' = [pool EXCEPT !.failures = @ + 1]
  /\ UNCHANGED <<config, table, progress, workers>>

\* worker_loop: the predicate is read under the mutex, and the worker sleeps while it is false.
WorkerChecks(w) ==
  /\ w \in Helpers /\ workers[w].pc = "check"
  /\ workers' = [workers EXCEPT ![w] =
       IF pool.shutdown THEN [@ EXCEPT !.pc = "left"]
       ELSE IF pool.generation # @.observed
            THEN [@ EXCEPT !.pc = "run", !.observed = pool.generation, !.job = pool.job]
            ELSE [@ EXCEPT !.pc = "asleep"]]
  /\ UNCHANGED <<config, table, progress, pool, scratch, caller>>
WokenCaller == IF caller.pc = "asleep" THEN [caller EXCEPT !.pc = "done"] ELSE caller
WorkerRuns(w) ==
  /\ w \in Helpers /\ workers[w].pc = "run"
  /\ execute_worker_batch(w, workers[w].job)
  /\ pool' = [pool EXCEPT !.completed = @ + 1]
  /\ caller' = IF pool.completed + 1 = WorkerCount - 1 THEN WokenCaller ELSE caller
  /\ workers' = [workers EXCEPT ![w].pc = "check"]
  /\ UNCHANGED <<config, table, progress>>
WorkerFails_silent(w) ==     \* (mutant: a failed worker does not notify)
  /\ w \in Helpers /\ workers[w].pc = "run" /\ CanFail
  /\ execute_worker_batch(w, workers[w].job)
  /\ pool' = [pool EXCEPT !.completed = @ + 1, !.exception = TRUE, !.failures = @ + 1]
  /\ workers' = [workers EXCEPT ![w].pc = "check"]
  /\ UNCHANGED <<config, table, progress, caller>>
WorkerFails(w) ==
  /\ w \in Helpers /\ workers[w].pc = "run" /\ CanFail
  /\ execute_worker_batch(w, workers[w].job)
  /\ pool' = [pool EXCEPT !.completed = @ + 1, !.exception = TRUE, !.failures = @ + 1]
  /\ caller' = WokenCaller
  /\ workers' = [workers EXCEPT ![w].pc = "check"]
  /\ UNCHANGED <<config, table, progress>>

\* The coordinator waits for the helpers, then discards everything or starts to merge.
Cleared == [w \in Workers |-> EmptyScratch]
CoordinatorWaits ==
  /\ caller.pc = "done"
  /\ IF pool.completed # WorkerCount - 1
     THEN caller' = [caller EXCEPT !.pc = "asleep"] /\ UNCHANGED scratch
     ELSE IF caller.failed \/ pool.exception
     THEN caller' = [caller EXCEPT !.pc = "idle", !.kind = "none"] /\ scratch' = Cleared
     ELSE caller' = [caller EXCEPT !.pc = "merge", !.merge = 0] /\ UNCHANGED scratch
  /\ UNCHANGED <<config, table, progress, pool, workers>>

-----------------------------------------------------------------------------
(* Merging *)

DirtyRows(s) == UNION {Reaches(t) : t \in s.trajectories}
Discounted_last(row, target) ==     \* (mutant: only the discount of the target iteration)
  IF row.last >= target THEN row
  ELSE [row EXCEPT !.last = target,
          !.entries = [t \in DOMAIN @ |-> [@[t] EXCEPT !.discounts = Append(@, target)]]]
\* Every entry of a row takes the discounts of the iterations after last_discount_iter.
Discounted(row, target) ==
  IF row.last >= target THEN row
  ELSE [row EXCEPT !.last = target,
          !.entries = [t \in DOMAIN @ |-> [@[t] EXCEPT !.discounts = @ \o [k \in 1 .. target - row.last |-> row.last + k]]]]
discount_dense_infoset_row(row, target) == Discounted(row, target)
\* A sparse row that does not exist yet is not discounted: it begins with no discount on record.
discount_sparse_infoset_row(row, target) == IF row.exists THEN Discounted(row, target) ELSE row
apply_discount_if_enabled(s, target) ==
  [r \in Rows |-> IF ~config.discounting \/ r \notin DirtyRows(s) THEN table[r]
                  ELSE IF config.sparse THEN discount_sparse_infoset_row(table[r], target)
                  ELSE discount_dense_infoset_row(table[r], target)]
\* merge_worker_rows: the deltas of every dirty row are added, a sparse row is created.
WithEntry(entries, t, snapshot) ==
  IF t \in DOMAIN entries THEN [entries EXCEPT ![t].times = @ + 1]
  ELSE entries @@ (t :> [times |-> 1, snapshot |-> snapshot, discounts |-> <<>>])
merge_worker_rows(rows, s) ==
  [r \in Rows |->
     IF r \notin DirtyRows(s) THEN rows[r]
     ELSE [rows[r] EXCEPT !.exists = TRUE,
             !.entries = FoldSet(LAMBDA t, entries : WithEntry(entries, t, s.snapshot), @,
                                 {t \in s.trajectories : r \in Reaches(t)})]]
MergeWorker ==
  /\ caller.pc = "merge" /\ caller.merge < WorkerCount
  /\ LET s == scratch[caller.merge]
     IN /\ table' = merge_worker_rows(apply_discount_if_enabled(s, progress.target), s)
        /\ progress' = [progress EXCEPT !.merged = @ + Cardinality(s.trajectories)]
  /\ caller' = [caller EXCEPT !.merge = @ + 1]
  /\ UNCHANGED <<config, pool, workers, scratch>>

\* The rest of run_next_player_subbatch, and the loop of the call it serves.
Advanced(p, count) ==
  LET begin == p.trajectory_begin + count
  IN IF begin < Traversals THEN [p EXCEPT !.trajectory_begin = begin]
     ELSE IF p.player + 1 < PlayerCount
          THEN [p EXCEPT !.player = @ + 1, !.trajectory_begin = 0, !.ready = FALSE]
          ELSE [p EXCEPT !.iterations = p.target, !.in_progress = FALSE, !.ready = FALSE, !.trajectory_begin = begin]
AfterSubbatch(p) ==
  LET batches == caller.batches + 1
      taken == [batches |-> batches, timed_out |-> FALSE, merged |-> p.merged]
  IN CASE caller.kind = "iteration" -> [caller EXCEPT !.pc = IF p.in_progress THEN "next" ELSE "idle"]
       [] caller.kind = "batches" ->
            [caller EXCEPT !.left = @ - 1,
                           !.pc = IF caller.left > 1 /\ p.iterations < MaxIterations THEN "next" ELSE "idle"]
       [] caller.kind = "until" ->
            [caller EXCEPT !.pc = "deadline", !.batches = batches,
                           !.snapshots = IF batches % Stride = 0 THEN Append(@, taken) ELSE @]
FinishSubbatch ==
  /\ caller.pc = "merge" /\ caller.merge = WorkerCount
  /\ progress' = Advanced(progress, caller.count)
  /\ caller' = AfterSubbatch(progress')
  /\ UNCHANGED <<config, table, pool, workers, scratch>>

-----------------------------------------------------------------------------
(* Destruction *)

Shutdown ==
  /\ caller.pc = "idle"
  /\ pool' = [pool EXCEPT !.shutdown = TRUE]
  /\ caller' = [caller EXCEPT !.pc = "shutdown"]
  /\ UNCHANGED <<config, table, progress, workers, scratch>>
NotifyShutdown ==
  /\ caller.pc = "shutdown"
  /\ workers' = Woken(workers)
  /\ caller' = [caller EXCEPT !.pc = "join"]
  /\ UNCHANGED <<config, table, progress, pool, scratch>>
Join ==
  /\ caller.pc = "join" /\ \A w \in Helpers : workers[w].pc = "left"
  /\ caller' = [caller EXCEPT !.pc = "destroyed"]
  /\ UNCHANGED <<config, table, progress, pool, workers, scratch>>

Call == run_iteration \/ run_batches(CallBatches) \/ run_until
Coordinate ==
  \/ BeforeDeadline \/ DeadlinePassed \/ Dispatch \/ NotifyWorkers \/ CoordinatorRuns \/ CoordinatorWaits
  \/ MergeWorker \/ FinishSubbatch \/ NotifyShutdown \/ Join
Work(w) == WorkerChecks(w) \/ WorkerRuns(w) \/ WorkerFails(w)
FlatPoolNext == Call \/ Shutdown \/ Coordinate \/ \E w \in Helpers : Work(w)

-----------------------------------------------------------------------------
(* Properties *)

\* The trajectories of the sub-batches that were completed.
Completed ==
  {t \in [iteration : 1 .. MaxIterations, player : 0 .. PlayerCount - 1, id : 0 .. Traversals - 1] :
     \/ t.iteration <= progress.iterations
     \/ /\ progress.in_progress /\ t.iteration = progress.target
        /\ t.player < progress.player \/ (t.player = progress.player /\ t.id < progress.trajectory_begin)}
\* Between two calls, and whatever failed and was retried, the table is the one a single
\* worker would have: every trajectory of the completed sub-batches is in each row it
\* reaches exactly once, sampled with the strategy as it stood when the turn of its
\* player began, and discounted once for every later iteration up to the row's last.
MergedOnce ==
  caller.pc \in {"idle", "next", "deadline"} =>
    /\ progress.merged = Cardinality(Completed)
    /\ \A r \in Rows :
         /\ DOMAIN table[r].entries = {t \in Completed : r \in Reaches(t)}
         /\ \A t \in DOMAIN table[r].entries :
              LET entry == table[r].entries[t] IN
              /\ entry.times = 1
              /\ entry.snapshot = ((t.iteration - 1) * PlayerCount + t.player) * Traversals
              /\ (config.discounting /\ ~config.sparse) =>
                   entry.discounts = [k \in 1 .. table[r].last - t.iteration |-> t.iteration + k]
              /\ ~config.discounting => entry.discounts = <<>>
\* A deadline call ends with a snapshot of its own, the last one marked as timed out.
DeadlineSnapshot ==
  (caller.pc = "idle" /\ caller.kind = "until") =>
    /\ Len(caller.snapshots) = Max({1, caller.batches \div Stride})
    /\ caller.snapshots[Len(caller.snapshots)].timed_out
    /\ \A i \in 1 .. Len(caller.snapshots) - 1 : ~caller.snapshots[i].timed_out
FlatPoolSound == TypeOK /\ MergedOnce /\ DeadlineSnapshot
\* Between the start of a call, or of the destructor, and its end.
FlatPoolBusy == caller.pc \notin {"idle", "destroyed"}
=============================================================================
