----------------------------- MODULE BatchRunner -----------------------------
(***************************************************************************)
(* MultiwayRootBatchRunner (multiway_batch_runner.cpp): a pool of worker   *)
(* threads that lives as long as the runner, and the thread that calls     *)
(* run().  The caller prepares a batch, dispatches it under pool_mutex_,   *)
(* notifies the workers that take part, waits on completion_cv_ for all of *)
(* them, and then merges their streams or gives the batch up.              *)
(*                                                                         *)
(* A critical section that reads and writes only what the mutex protects   *)
(* is one step.  The caller's wait is not: its predicate reads the atomic  *)
(* completed_workers_, which workers change without the mutex, so testing  *)
(* the predicate and blocking are two steps with the mutex held between.   *)
(*                                                                         *)
(* A trajectory's deltas are represented by its id; delta_less orders the  *)
(* deltas of one cell by trajectory.                                       *)
(***************************************************************************)
EXTENDS Integers, Sequences, FiniteSets, Functions

CONSTANTS
  WorkerCount,        \* worker_count_
  ChunkSize,          \* dynamic_chunk_size_
  Modes,              \* the scheduler modes a runner may be built with
  TrajectoryCounts,   \* the batch sizes the callers ask for
  MaxBatches          \* bound on the batches of one behaviour

ASSUME RunnerAssumption ==
  /\ WorkerCount \in Nat \ {0}
  /\ ChunkSize \in Nat \ {0}
  /\ Modes \subseteq {"Fixed", "StaticBlock", "Dynamic"}
  /\ TrajectoryCounts \subseteq Nat
  /\ \E most \in TrajectoryCounts : \A count \in TrajectoryCounts : count <= most
  /\ MaxBatches \in Nat

Workers == 0 .. WorkerCount - 1

VARIABLES
  mode,        \* scheduler_mode_, fixed at construction
  mutex,       \* pool_mutex_: "free", or held by the caller across steps
  stop,        \* stop_workers_
  active,      \* batch_active_
  generation,  \* batch_generation_
  batch,       \* active_first_trajectory_id_, active_trajectory_count_, active_batch_count_
  completed,   \* completed_workers_
  nextChunk,   \* next_dynamic_chunk_
  cancelled,   \* cancelled_
  error,       \* worker_error_ is set
  expired,     \* the deadline of the batch has passed
  caller,      \* the thread of run() and of the destructor
  context,     \* BatchRunContext of the run() in progress
  notified,    \* loop index of the notifications
  partition,   \* worker_batches_
  worker,      \* where each worker thread is
  observed,    \* observed_generation of each worker
  job,         \* a worker's copy of batch
  range,       \* the range a worker processes
  local,       \* local_id
  scratch,     \* worker_scratch_
  cursors,     \* merge_stream_cursors_
  taken,       \* the deltas that the merge in progress has applied
  merged       \* the batches of which the coordinator has merged deltas

pool == <<stop, active, generation, batch>>
atomics == <<completed, nextChunk, cancelled>>
callerVars == <<caller, context, notified, partition>>
workerVars == <<worker, observed, job, range, local>>
tables == <<cursors, taken, merged>>
vars == <<mode, mutex, pool, atomics, error, expired, callerVars, workerVars,
          scratch, tables>>

-----------------------------------------------------------------------------
(* MultiwayScheduler (multiway_scheduler.cpp): how the trajectories           *)
(* 0 .. count - 1 of a batch are divided among the workers.  A range is the   *)
(* strided half-open interval of MultiwayTrajectoryRange.                     *)

Least(a, b) == IF a < b THEN a ELSE b

TrajectoryRange(begin, end, stride) == [begin |-> begin, end |-> end, stride |-> stride]

EmptyRange == TrajectoryRange(0, 0, 1)

\* How many workers take part in a batch: one even when there is nothing to do.
BatchCount(count, workers) == IF count = 0 THEN 1 ELSE Least(count, workers)

\* partition_round_robin_into: worker w takes w, w + n, w + 2n, ...
RoundRobin(count, workers) ==
  LET n == BatchCount(count, workers)
  IN  [w \in 0 .. n - 1 |-> IF count = 0 THEN EmptyRange ELSE TrajectoryRange(w, count, n)]

\* partition_deterministic_into: contiguous blocks, the first `remainder` of
\* them one trajectory longer.
StaticBlock(count, workers) ==
  LET n == BatchCount(count, workers)
      remainder == count % n
      BlockBegin(w) == w * (count \div n) + Least(w, remainder)
  IN  [w \in 0 .. n - 1 |-> TrajectoryRange(BlockBegin(w), BlockBegin(w + 1), 1)]

\* dynamic_chunk_count and dynamic_chunk_range.
DynamicChunkCount(count, size) == count \div size + (IF count % size = 0 THEN 0 ELSE 1)

\* A chunk that starts one trajectory early, a plausible slip in the bound.
DynamicChunkRangeOverlapping(count, chunk, size) ==
  LET begin == Least(count, IF chunk = 0 THEN 0 ELSE chunk * size - 1)
  IN  TrajectoryRange(begin, begin + Least(count - begin, size), 1)

DynamicChunkRange(count, chunk, size) ==
  LET begin == Least(count, chunk * size)
  IN  TrajectoryRange(begin, begin + Least(count - begin, size), 1)

-----------------------------------------------------------------------------
Batch(first, count) ==
  [first |-> first, count |-> count, workers |-> BatchCount(count, WorkerCount)]

NoBatch == [first |-> 0, count |-> 0, workers |-> 0]

\* WorkerScratch::reset.
EmptyScratch == [stream |-> <<>>, attempted |-> 0, accepted |-> 0, discarded |-> 0]

Init ==
  /\ mode \in Modes
  /\ mutex = "free"
  /\ stop = FALSE /\ active = FALSE /\ generation = 0 /\ batch = NoBatch
  /\ completed = 0 /\ nextChunk = 0 /\ cancelled = FALSE
  /\ error = FALSE /\ expired = FALSE
  /\ caller = "idle" /\ context = NoBatch /\ notified = 0
  /\ partition = [w \in Workers |-> EmptyRange]
  /\ worker = [w \in Workers |-> "ready"]
  /\ observed = [w \in Workers |-> 0]
  /\ job = [w \in Workers |-> NoBatch]
  /\ range = [w \in Workers |-> EmptyRange]
  /\ local = [w \in Workers |-> 0]
  /\ scratch = [w \in Workers |-> EmptyScratch]
  /\ cursors = [w \in Workers |-> 1] /\ taken = <<>> /\ merged = <<>>
-----------------------------------------------------------------------------
(***************************************************************************)
(* The thread that calls run().                                            *)
(***************************************************************************)

\* A worker outside a static partition keeps the range of an earlier batch.
Partitioned(count) ==
  LET blocks == CASE mode = "Fixed" -> RoundRobin(count, WorkerCount)
                  [] mode = "StaticBlock" -> StaticBlock(count, WorkerCount)
                  [] mode = "Dynamic" -> partition
  IN  [w \in Workers |-> IF w \in DOMAIN blocks THEN blocks[w] ELSE partition[w]]

\* The ids a caller passes are its own; each batch has fresh ones here, so that
\* the deltas of one batch can be told from another's.
MaxCount == CHOOSE n \in TrajectoryCounts : \A m \in TrajectoryCounts : m <= n

PrepareBatchRun(count) ==
  /\ caller = "idle"
  /\ generation < MaxBatches
  /\ context' = Batch(generation * MaxCount, count)
  /\ partition' = Partitioned(count)
  /\ scratch' = [w \in Workers |-> EmptyScratch]
  /\ caller' = "prepared"
  /\ UNCHANGED <<mode, mutex, pool, atomics, error, expired, notified, workerVars, tables>>

\* The code throws when a batch is active; RunnerReusable says it never is.
DispatchBatch ==
  /\ caller = "prepared"
  /\ mutex = "free"
  /\ ~ active
  /\ active' = TRUE
  /\ generation' = generation + 1
  /\ batch' = context
  /\ completed' = 0 /\ nextChunk' = 0 /\ cancelled' = FALSE
  /\ error' = FALSE
  /\ caller' = "notifying"
  /\ UNCHANGED <<mode, mutex, stop, expired, context, notified, partition, workerVars, scratch, tables>>

\* notify_one on the worker's own condition variable.
Wake(w) == worker' = [worker EXCEPT ![w] = IF @ = "waiting" THEN "ready" ELSE @]

\* The last worker of the batch is forgotten.
NotifyAllButLast ==
  /\ caller = "notifying"
  /\ IF notified + 1 < context.workers
     THEN Wake(notified) /\ notified' = notified + 1 /\ UNCHANGED caller
     ELSE caller' = "awaiting" /\ notified' = 0 /\ UNCHANGED worker
  /\ UNCHANGED <<mode, mutex, pool, atomics, error, expired, context, partition,
                 observed, job, range, local, scratch, tables>>

NotifyWorker ==
  /\ caller = "notifying"
  /\ IF notified < context.workers
     THEN Wake(notified) /\ notified' = notified + 1 /\ UNCHANGED caller
     ELSE caller' = "awaiting" /\ notified' = 0 /\ UNCHANGED worker
  /\ UNCHANGED <<mode, mutex, pool, atomics, error, expired, context, partition,
                 observed, job, range, local, scratch, tables>>

\* completion_cv_.wait: the predicate is false with the mutex held ...
TestCompletion ==
  /\ caller = "awaiting"
  /\ mutex = "free"
  /\ completed # batch.workers
  /\ mutex' = "caller"
  /\ caller' = "blocking"
  /\ UNCHANGED <<mode, pool, atomics, error, expired, context, notified, partition,
                 workerVars, scratch, tables>>

\* ... and only then does the wait release the mutex and block.
BlockOnCompletion ==
  /\ caller = "blocking"
  /\ mutex' = "free"
  /\ caller' = "blocked"
  /\ UNCHANGED <<mode, pool, atomics, error, expired, context, notified, partition,
                 workerVars, scratch, tables>>

\* batch_active_ survives an exception.
LeaveWaitActiveOnError ==
  /\ caller = "awaiting"
  /\ mutex = "free"
  /\ completed = batch.workers
  /\ active' = error
  /\ caller' = IF error THEN "idle" ELSE "collecting"
  /\ expired' = FALSE
  /\ UNCHANGED <<mode, mutex, stop, generation, batch, atomics, error, context,
                 notified, partition, workerVars, scratch, tables>>

\* The predicate holds: the batch is over, with its deadline, and a worker's
\* exception leaves run().
LeaveWait ==
  /\ caller = "awaiting"
  /\ mutex = "free"
  /\ completed = batch.workers
  /\ active' = FALSE
  /\ caller' = IF error THEN "idle" ELSE "collecting"
  /\ expired' = FALSE
  /\ UNCHANGED <<mode, mutex, stop, generation, batch, atomics, error, context,
                 notified, partition, workerVars, scratch, tables>>

\* assemble_worker_result: a cancelled batch, and one with a trajectory that was
\* discarded or never finished, is not merged.
Clean ==
  /\ ~ cancelled
  /\ \A w \in Workers : /\ scratch[w].discarded = 0
                        /\ scratch[w].attempted = scratch[w].accepted

AssembleWorkerResult ==
  /\ caller = "collecting"
  /\ caller' = IF Clean THEN "merging" ELSE "idle"
  /\ UNCHANGED <<mode, mutex, pool, atomics, error, expired, context, notified, partition,
                 workerVars, scratch, tables>>

\* admit_discovery: the coordinator may refuse what the workers discovered.
AdmissionThrows ==
  /\ caller = "merging"
  /\ caller' = "idle"
  /\ UNCHANGED <<mode, mutex, pool, atomics, error, expired, context, notified, partition,
                 workerVars, scratch, tables>>

IsFixedOrder(stream) == \A i \in 1 .. Len(stream) - 1 : stream[i] <= stream[i + 1]

\* merge_batch_deltas; the coordinator refuses a stream that is out of order.
MergeBatchDeltas ==
  /\ caller = "merging"
  /\ caller' = IF \A w \in Workers : IsFixedOrder(scratch[w].stream) THEN "taking" ELSE "idle"
  /\ UNCHANGED <<mode, mutex, pool, atomics, error, expired, context, notified, partition,
                 workerVars, scratch, tables>>

\* The streams that are not used up, and the head of one.
Left == {w \in Workers : cursors[w] <= Len(scratch[w].stream)}
HeadOf(w) == scratch[w].stream[cursors[w]]

\* The least head is next, the lower worker's first among equals.
IsNext(w) ==
  \A v \in Left \ {w} : HeadOf(w) < HeadOf(v) \/ (HeadOf(w) = HeadOf(v) /\ w < v)

Repeated(w) == taken # <<>> /\ taken[Len(taken)] = HeadOf(w)

\* merge_worker_stream_cells: the tables take the next delta.
TakeDelta(w) ==
  /\ caller = "taking"
  /\ w \in Left /\ IsNext(w) /\ ~ Repeated(w)
  /\ taken' = Append(taken, HeadOf(w))
  /\ cursors' = [cursors EXCEPT ![w] = @ + 1]
  /\ UNCHANGED <<mode, mutex, pool, atomics, error, expired, callerVars, workerVars,
                 scratch, merged>>

\* The merge is over: every delta is taken, or the same trajectory comes twice
\* and an exception leaves what the tables have taken.
EndMerge ==
  /\ caller = "taking"
  /\ Left = {} \/ \E w \in Left : IsNext(w) /\ Repeated(w)
  /\ merged' = Append(merged, [batch |-> context, deltas |-> taken])
  /\ taken' = <<>>
  /\ cursors' = [w \in Workers |-> 1]
  /\ caller' = "idle"
  /\ UNCHANGED <<mode, mutex, pool, atomics, error, expired, context, notified, partition,
                 workerVars, scratch>>

\* The destructor sets the flag, notifies and joins.
Destroy ==
  /\ caller = "idle"
  /\ mutex = "free"
  /\ stop' = TRUE
  /\ caller' = "stopping"
  /\ UNCHANGED <<mode, mutex, active, generation, batch, atomics, error, expired, context,
                 notified, partition, workerVars, scratch, tables>>

\* Only the workers of the last batch are told to stop.
NotifyStopLastBatch ==
  /\ caller = "stopping"
  /\ IF notified < batch.workers
     THEN Wake(notified) /\ notified' = notified + 1 /\ UNCHANGED caller
     ELSE caller' = "joining" /\ notified' = 0 /\ UNCHANGED worker
  /\ UNCHANGED <<mode, mutex, pool, atomics, error, expired, context, partition,
                 observed, job, range, local, scratch, tables>>

NotifyStop ==
  /\ caller = "stopping"
  /\ IF notified < WorkerCount
     THEN Wake(notified) /\ notified' = notified + 1 /\ UNCHANGED caller
     ELSE caller' = "joining" /\ notified' = 0 /\ UNCHANGED worker
  /\ UNCHANGED <<mode, mutex, pool, atomics, error, expired, context, partition,
                 observed, job, range, local, scratch, tables>>

Join ==
  /\ caller = "joining"
  /\ \A w \in Workers : worker[w] = "returned"
  /\ caller' = "destroyed"
  /\ UNCHANGED <<mode, mutex, pool, atomics, error, expired, context, notified, partition,
                 workerVars, scratch, tables>>
-----------------------------------------------------------------------------
(***************************************************************************)
(* A worker thread: worker_loop.                                           *)
(***************************************************************************)
WorkReady(w) == active /\ generation # observed[w]

\* The wait's predicate is false: block until notified.
BlockOnWork(w) ==
  /\ worker[w] = "ready"
  /\ mutex = "free"
  /\ ~ stop /\ ~ WorkReady(w)
  /\ worker' = [worker EXCEPT ![w] = "waiting"]
  /\ UNCHANGED <<mode, mutex, pool, atomics, error, expired, callerVars, observed, job,
                 range, local, scratch, tables>>

ReturnOnStop(w) ==
  /\ worker[w] = "ready"
  /\ mutex = "free"
  /\ stop
  /\ worker' = [worker EXCEPT ![w] = "returned"]
  /\ UNCHANGED <<mode, mutex, pool, atomics, error, expired, callerVars, observed, job,
                 range, local, scratch, tables>>

StartBatch(w) ==
  /\ job' = [job EXCEPT ![w] = batch]
  /\ range' = [range EXCEPT ![w] = partition[w]]
  /\ local' = [local EXCEPT ![w] = partition[w].begin]
  /\ worker' = [worker EXCEPT ![w] = IF mode = "Dynamic" THEN "claiming" ELSE "running"]

\* A worker that takes no part in the batch runs through it as well.
ObserveBatchUncounted(w) ==
  /\ worker[w] = "ready"
  /\ mutex = "free"
  /\ ~ stop /\ WorkReady(w)
  /\ observed' = [observed EXCEPT ![w] = generation]
  /\ StartBatch(w)
  /\ UNCHANGED <<mode, mutex, pool, atomics, error, expired, callerVars, scratch, tables>>

\* The predicate holds: copy the batch; only the first batch_count workers act.
ObserveBatch(w) ==
  /\ worker[w] = "ready"
  /\ mutex = "free"
  /\ ~ stop /\ WorkReady(w)
  /\ observed' = [observed EXCEPT ![w] = generation]
  /\ IF w < batch.workers THEN StartBatch(w) ELSE UNCHANGED <<worker, job, range, local>>
  /\ UNCHANGED <<mode, mutex, pool, atomics, error, expired, callerVars, scratch, tables>>

\* Dynamic: take the next chunk, unless the batch is cancelled or none is left.
ClaimChunk(w) ==
  /\ worker[w] = "claiming"
  /\ IF cancelled
     THEN worker' = [worker EXCEPT ![w] = "sorting"] /\ UNCHANGED <<nextChunk, range, local>>
     ELSE LET chunks == DynamicChunkCount(job[w].count, ChunkSize)
              claimed == DynamicChunkRange(job[w].count, nextChunk, ChunkSize)
          IN  /\ nextChunk' = nextChunk + 1
              /\ IF nextChunk >= chunks
                 THEN worker' = [worker EXCEPT ![w] = "sorting"] /\ UNCHANGED <<range, local>>
                 ELSE /\ worker' = [worker EXCEPT ![w] = "running"]
                      /\ range' = [range EXCEPT ![w] = claimed]
                      /\ local' = [local EXCEPT ![w] = claimed.begin]
  /\ UNCHANGED <<mode, mutex, pool, completed, cancelled, error, expired, callerVars,
                 observed, job, scratch, tables>>

\* cancelled_ is polled at every eighth offset of a range, the deadline always.
Interrupted(w) ==
  \/ (local[w] - range[w].begin) % 8 = 0 /\ cancelled
  \/ expired

AfterRange(w) == worker' = [worker EXCEPT ![w] = IF mode = "Dynamic" THEN "claiming" ELSE "sorting"]

EndRange(w) ==
  /\ worker[w] = "running"
  /\ local[w] >= range[w].end
  /\ AfterRange(w)
  /\ UNCHANGED <<mode, mutex, pool, atomics, error, expired, callerVars, observed, job,
                 range, local, scratch, tables>>

CancelRange(w) ==
  /\ worker[w] = "running"
  /\ local[w] < range[w].end
  /\ Interrupted(w)
  /\ cancelled' = TRUE
  /\ AfterRange(w)
  /\ UNCHANGED <<mode, mutex, pool, completed, nextChunk, error, expired, callerVars,
                 observed, job, range, local, scratch, tables>>

TrajectoryId(w) == job[w].first + local[w]

\* A trajectory is accepted, or discarded with its deltas rewound.
RunTrajectory(w, accepted) ==
  /\ worker[w] = "running"
  /\ local[w] < range[w].end
  /\ ~ Interrupted(w)
  /\ scratch' = [scratch EXCEPT ![w] =
       [stream |-> IF accepted THEN Append(@.stream, TrajectoryId(w)) ELSE @.stream,
        attempted |-> @.attempted + 1,
        accepted |-> IF accepted THEN @.accepted + 1 ELSE @.accepted,
        discarded |-> IF accepted THEN @.discarded ELSE @.discarded + 1]]
  /\ local' = [local EXCEPT ![w] = @ + range[w].stride]
  /\ UNCHANGED <<mode, mutex, pool, atomics, error, expired, callerVars, worker, observed,
                 job, range, tables>>

\* The traversal throws; what it had already appended stays in the stream.
TrajectoryThrows(w) ==
  /\ worker[w] = "running"
  /\ local[w] < range[w].end
  /\ ~ Interrupted(w)
  /\ \E left \in {<<>>, <<TrajectoryId(w)>>} :
       scratch' = [scratch EXCEPT ![w].attempted = @ + 1, ![w].stream = @ \o left]
  /\ cancelled' = TRUE
  /\ worker' = [worker EXCEPT ![w] = "throwing"]
  /\ UNCHANGED <<mode, mutex, pool, completed, nextChunk, error, expired, callerVars,
                 observed, job, range, local, tables>>

\* The first exception is kept.
RecordError(w) ==
  /\ worker[w] = "throwing"
  /\ mutex = "free"
  /\ error' = TRUE
  /\ worker' = [worker EXCEPT ![w] = "failed"]
  /\ UNCHANGED <<mode, mutex, pool, atomics, expired, callerVars, observed, job, range,
                 local, scratch, tables>>

\* sort_fixed_order: the same deltas, in order.
Sorted(stream) ==
  {t \in {[i \in DOMAIN stream |-> stream[p[i]]] :
             p \in Bijection(DOMAIN stream, DOMAIN stream)} : IsFixedOrder(t)}

\* The streams are sorted, unless the worker threw; then completed_workers_ is
\* counted up without the mutex, and the last worker notifies next.  What the
\* worker had copied of the batch goes out of scope.
Complete(w) ==
  /\ worker[w] \in {"sorting", "failed"}
  /\ \E stream \in IF worker[w] = "sorting" THEN Sorted(scratch[w].stream)
                                            ELSE {scratch[w].stream} :
       scratch' = [scratch EXCEPT ![w].stream = stream]
  /\ job' = [job EXCEPT ![w] = NoBatch]
  /\ range' = [range EXCEPT ![w] = EmptyRange]
  /\ local' = [local EXCEPT ![w] = 0]
  /\ completed' = completed + 1
  /\ worker' = [worker EXCEPT ![w] = IF completed + 1 = job[w].workers THEN "last" ELSE "ready"]
  /\ UNCHANGED <<mode, mutex, pool, nextChunk, cancelled, error, expired, callerVars,
                 observed, tables>>

\* The caller takes a wake-up for the end of the batch.
NotifyCompletionEndsWait(w) ==
  /\ worker[w] = "last"
  /\ caller' = IF caller = "blocked" THEN "collecting" ELSE caller
  /\ active' = IF caller = "blocked" THEN FALSE ELSE active
  /\ worker' = [worker EXCEPT ![w] = "ready"]
  /\ UNCHANGED <<mode, mutex, stop, generation, batch, atomics, error, expired, context,
                 notified, partition, observed, job, range, local, scratch, tables>>

\* completion_cv_.notify_one: heard only by a caller that is already blocked.
NotifyCompletion(w) ==
  /\ worker[w] = "last"
  /\ caller' = IF caller = "blocked" THEN "awaiting" ELSE caller
  /\ worker' = [worker EXCEPT ![w] = "ready"]
  /\ UNCHANGED <<mode, mutex, pool, atomics, error, expired, context, notified, partition,
                 observed, job, range, local, scratch, tables>>
-----------------------------------------------------------------------------
(***************************************************************************)
(* What the environment does.                                              *)
(***************************************************************************)
DeadlinePasses ==
  /\ active /\ ~ expired
  /\ expired' = TRUE
  /\ UNCHANGED <<mode, mutex, pool, atomics, error, callerVars, workerVars, scratch, tables>>

\* A condition variable may wake a waiting thread without a notification.
SpuriousWorkerWake(w) ==
  /\ worker[w] = "waiting"
  /\ Wake(w)
  /\ UNCHANGED <<mode, mutex, pool, atomics, error, expired, callerVars, observed, job,
                 range, local, scratch, tables>>

SpuriousCallerWake ==
  /\ caller = "blocked"
  /\ caller' = "awaiting"
  /\ UNCHANGED <<mode, mutex, pool, atomics, error, expired, context, notified, partition,
                 workerVars, scratch, tables>>

Run == \E count \in TrajectoryCounts : PrepareBatchRun(count)

CallerStep ==
  \/ DispatchBatch \/ NotifyWorker \/ TestCompletion \/ BlockOnCompletion \/ LeaveWait
  \/ AssembleWorkerResult \/ AdmissionThrows \/ MergeBatchDeltas
  \/ (\E w \in Workers : TakeDelta(w)) \/ EndMerge \/ NotifyStop \/ Join

\* The steps for which a worker must acquire the mutex, and the others.
LockedStep(w) == BlockOnWork(w) \/ ReturnOnStop(w) \/ ObserveBatch(w) \/ RecordError(w)

FreeStep(w) ==
  \/ ClaimChunk(w) \/ EndRange(w) \/ CancelRange(w)
  \/ \E accepted \in BOOLEAN : RunTrajectory(w, accepted)
  \/ TrajectoryThrows(w) \/ Complete(w) \/ NotifyCompletion(w)

Next ==
  \/ Run \/ Destroy \/ CallerStep
  \/ \E w \in Workers : LockedStep(w) \/ FreeStep(w) \/ SpuriousWorkerWake(w)
  \/ DeadlinePasses \/ SpuriousCallerWake

Spec == Init /\ [][Next]_vars

\* Every thread that can run is scheduled, and a mutex that is free again and
\* again is granted to a worker that asks for it.  Nothing obliges the caller to
\* run or to destroy, a deadline to pass or a thread to wake up unnotified.
FairSpec ==
  /\ Spec
  /\ WF_vars(CallerStep)
  /\ \A w \in Workers : SF_vars(LockedStep(w)) /\ WF_vars(FreeStep(w))
-----------------------------------------------------------------------------
TypeOK ==
  /\ mode \in Modes
  /\ mutex \in {"free", "caller"}
  /\ {stop, active, cancelled, error, expired} \subseteq BOOLEAN
  /\ generation \in 0 .. MaxBatches
  /\ completed \in 0 .. batch.workers
  /\ nextChunk \in 0 .. MaxCount + WorkerCount
  /\ caller \in {"idle", "prepared", "notifying", "awaiting", "blocking", "blocked",
                 "collecting", "merging", "taking", "stopping", "joining", "destroyed"}
  /\ notified \in 0 .. WorkerCount
  /\ worker \in [Workers -> {"ready", "waiting", "claiming", "running", "throwing",
                             "sorting", "failed", "last", "returned"}]
  /\ observed \in [Workers -> 0 .. MaxBatches]
  /\ \A w \in Workers : scratch[w].stream \in Seq(0 .. MaxCount * MaxBatches)

\* Workers that write to their scratch.
Working == {w \in Workers : worker[w] \in {"claiming", "running", "throwing", "sorting", "failed"}}

\* What the tables take is whole batches, every trajectory once and in order of
\* its id, under every scheduler mode: nothing of a cancelled or failed batch,
\* nothing left over from an earlier one, the same sequence however the
\* trajectories were divided among the workers, and no merge that meets a
\* trajectory twice and stops half-way.
MergedIsWholeBatch ==
  \A i \in DOMAIN merged :
    LET b == merged[i].batch
    IN  merged[i].deltas = [k \in 1 .. b.count |-> b.first + k - 1]

\* The caller resets, collects and merges the workers' scratch only while no
\* worker is writing to its own: a notification of an earlier batch, or a
\* spurious wake-up, does not end the wait early, and no worker is still busy
\* with a batch that is over.
ScratchNotShared ==
  caller \in {"idle", "prepared", "collecting", "merging", "taking"} => Working = {}

\* After a batch that was merged, cancelled, refused or thrown out of, run()
\* accepts another one: dispatch_batch never throws for a single caller.
RunnerReusable == caller \in {"idle", "prepared"} => ~ active

\* Every worker that takes part in a batch finishes it: no notification of a
\* worker is lost, whenever the worker blocks.
WorkersFinish == active ~> completed = batch.workers

\* run() returns once it has dispatched a batch.
BatchReturns == active ~> ~ active
=============================================================================
