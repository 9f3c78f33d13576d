----------------------------- MODULE TrainingRun -----------------------------
(* The train workflow: an invocation opens or resumes a session, runs batches   *)
(* in chunks of checkpoint_interval, transforms the regrets by the schedule,    *)
(* saves a checkpoint after every chunk and exports.  Gates, batches, commits   *)
(* and saves may throw and the process may stop; a later invocation resumes.    *)
(* The tables are the sequence of operations applied to them.                   *)
EXTENDS Naturals, Sequences, FiniteSetsExt

CONSTANTS
  Schedule,          \* [discount, prune, warmup, recovery, window]: batches, 0 for never
  PerBatch,          \* trajectories_per_batch
  Seed,              \* deterministic_seed
  CheckpointInterval,
  StageGate,         \* trajectories that need --authorize-50m
  Names,             \* checkpoint paths
  MaxBatches,        \* bound: batches of an invocation
  MaxInvocations     \* bound: processes

VARIABLES
  backend,           \* "memory" or "external"
  store,             \* tables in the external store
  files,             \* path -> checkpoint
  run,               \* the invocation: [pc, resume, target, batches, authorized, remaining, chunk]
  trainer,           \* [batches, trajectories, tables, baseline, phase]
  invocations

vars == <<backend, store, files, run, trainer, invocations>>

\* A workflow whose capacities are resolved.
TrainingAssumption ==
  /\ Schedule \in [discount : Nat, prune : Nat, warmup : Nat, recovery : Nat, window : Nat]
  /\ PerBatch \in Nat \ {0} /\ CheckpointInterval \in Nat \ {0}
  /\ Seed \in Nat /\ StageGate \in Nat /\ MaxBatches \in Nat

NoPath == "none"
NoCheckpoint == [batches |-> 0, trajectories |-> 0, tables |-> <<>>, baseline |-> 0, saved |-> FALSE]
Stopped == [pc |-> "stopped", resume |-> NoPath, target |-> NoPath, batches |-> 0,
            authorized |-> FALSE, remaining |-> 0, chunk |-> 0]
NewTrainer == [batches |-> 0, trajectories |-> 0, tables |-> <<>>, baseline |-> 0, phase |-> 0]

-----------------------------------------------------------------------------
(* The iteration schedule. *)

Due(batch, interval) == interval # 0 /\ batch % interval = 0

\* The first trajectory of every invocation is 0 (mutant: the count is not used).
BatchOpFromZero(batches, trajectories) ==
  [op |-> "batch", first |-> 0, seed |-> Seed + batches, weight |-> batches + 1]
\* What the batch runner is asked to do (linear_iteration_weighting).
BatchOp(batches, trajectories) ==
  [op |-> "batch", first |-> trajectories, seed |-> Seed + batches, weight |-> batches + 1]
Op(name) == [op |-> name, first |-> 0, seed |-> 0, weight |-> 0]

\* The regrets are discounted again when they recover (mutant: no recovery batches).
TransformOpsAlways(batches) ==
  LET discount_due == Due(batches, Schedule.discount)
      pruning_due == batches > Schedule.warmup /\ Due(batches - Schedule.warmup, Schedule.prune) IN
  IF pruning_due /\ discount_due THEN <<Op("scale_and_prune")>>
  ELSE IF pruning_due THEN <<Op("prune")>>
  ELSE IF discount_due THEN <<Op("scale")>> ELSE <<>>
\* Discounting and pruning after a counted batch.
TransformOps(batches) ==
  LET discount_due == Due(batches, Schedule.discount)
      pruning_batch == batches - Schedule.warmup
      pruning_due == batches > Schedule.warmup /\ Due(pruning_batch, Schedule.prune)
      recovery == Due(pruning_batch, Schedule.recovery) IN
  IF pruning_due
  THEN IF ~recovery /\ discount_due THEN <<Op("scale_and_prune")>>
       ELSE IF ~recovery THEN <<Op("prune")>>
       ELSE IF discount_due THEN <<Op("scale")>> ELSE <<>>
  ELSE IF discount_due THEN <<Op("scale")>> ELSE <<>>

-----------------------------------------------------------------------------
(* Memory phases: a snapshot is recorded once each, in the order of the phases. *)

AfterWorkerPool == 7   \* snapshots taken by the time the session exists
Disabled == 20         \* no snapshots: a run without batches
AfterColdBatch == 7
AfterSteadyBatch == 8
BeforeCheckpoint == 9
BeforeExport == 11
InOrder(count, phase) == count \in {phase, Disabled}
Recorded(count, phases) == IF count = Disabled THEN count ELSE count + phases

\* Steady state needs a second batch (mutant: a run of one batch has none).
BatchPhasesStrict(count, batches) ==
  IF count = AfterColdBatch THEN count + 1
  ELSE IF count = AfterSteadyBatch /\ batches >= run.batches THEN count + 1 ELSE count
\* The snapshots of a batch: cold, and steady once max_batches is reached.
BatchPhases(count, batches) ==
  LET cold == IF count = AfterColdBatch THEN count + 1 ELSE count IN
  IF cold = AfterSteadyBatch /\ batches >= run.batches THEN cold + 1 ELSE cold

-----------------------------------------------------------------------------
(* Starting. *)

Init ==
  /\ backend \in {"memory", "external"}
  /\ store = <<>> /\ files = [name \in Names |-> NoCheckpoint]
  /\ run = Stopped /\ trainer = NewTrainer /\ invocations = 0

CheckpointPath == IF run.target = NoPath THEN run.resume ELSE run.target
\* The gate looks at this invocation only (mutant: trajectories of the checkpoint are not counted).
ReachesStageFromZero(starting, batches) == batches * PerBatch >= StageGate
\* reaches_50m: by division, since the product may overflow.
ReachesStage(starting, batches) ==
  \/ starting >= StageGate
  \/ LET left == StageGate - starting IN
     \/ batches > left \div PerBatch
     \/ batches = left \div PerBatch /\ left % PerBatch = 0

\* A request that passes the checks of the arguments.
Accepted(request) ==
  LET path == IF request.target = NoPath THEN request.resume ELSE request.target IN
  /\ request.resume # NoPath => files[request.resume].saved
  /\ request.batches = 0 => request.resume # NoPath /\ path # request.resume

\* A new process.  A fresh external run is given a fresh directory.
Start ==
  /\ run.pc = "stopped" /\ invocations < MaxInvocations
  /\ \E batches \in 0 .. MaxBatches, resume, target \in Names \cup {NoPath}, authorized \in BOOLEAN :
       LET request == [Stopped EXCEPT !.resume = resume, !.target = target, !.batches = batches,
                                      !.authorized = authorized, !.remaining = batches] IN
       /\ Accepted(request)
       /\ run' = [request EXCEPT !.pc = IF backend = "external" /\ resume # NoPath
                                        THEN "restore" ELSE "session"]
       /\ resume = NoPath /\ ReachesStage(0, batches) => authorized
       /\ LET fresh == backend = "external" /\ resume = NoPath IN
          /\ store' = IF fresh THEN <<>> ELSE store
          /\ files' = IF fresh THEN [name \in Names |-> NoCheckpoint] ELSE files
  /\ trainer' = NewTrainer /\ invocations' = invocations + 1
  /\ UNCHANGED backend

\* The exception is logged, a failure report is written and the process ends.
Throws == run' = Stopped /\ UNCHANGED <<backend, files, trainer, invocations>>
Fails == Throws /\ UNCHANGED store
To(pc) == run' = [run EXCEPT !.pc = pc]

\* The store keeps what it has (mutant: the checkpoint is not restored).
RestoreKeepsStore ==
  /\ run.pc = "restore" /\ To("session")
  /\ UNCHANGED <<backend, store, files, trainer, invocations>>
\* restore_multiway_external_checkpoint, before the session opens the store.
Restore ==
  /\ run.pc = "restore"
  /\ \/ To("session") /\ store' = files[run.resume].tables
        /\ UNCHANGED <<backend, files, trainer, invocations>>
     \/ Fails

\* Counters only (mutant: the late-window baseline is not resumed).
ResumedTrainerBare(checkpoint) ==
  [NewTrainer EXCEPT !.batches = checkpoint.batches, !.trajectories = checkpoint.trajectories,
                     !.tables = IF backend = "memory" THEN checkpoint.tables ELSE store]
\* resume_from_checkpoint, resume_from_external_checkpoint.
ResumedTrainer(checkpoint) ==
  [NewTrainer EXCEPT !.batches = checkpoint.batches, !.trajectories = checkpoint.trajectories,
                     !.baseline = checkpoint.baseline,
                     !.tables = IF backend = "memory" THEN checkpoint.tables ELSE store]

\* The session is built over the store, resumed and passes the stage gate.
Session ==
  LET opened == IF run.resume # NoPath THEN ResumedTrainer(files[run.resume])
                ELSE [NewTrainer EXCEPT !.tables = IF backend = "external" THEN store ELSE <<>>]
      phase == IF run.batches = 0 THEN Disabled ELSE AfterWorkerPool IN
  /\ run.pc = "session"
  /\ \/ /\ To(IF run.batches = 0 THEN "save" ELSE "chunk")
        /\ ReachesStage(opened.trajectories, run.batches) => run.authorized
        /\ trainer' = [opened EXCEPT !.phase = phase]
        /\ UNCHANGED <<backend, store, files, invocations>>
     \/ Fails

-----------------------------------------------------------------------------
(* The loop. *)

\* run_batches for the next checkpoint_interval batches.
Chunk ==
  /\ run.pc = "chunk"
  /\ run' = [run EXCEPT !.pc = "batch", !.chunk = Min({run.remaining, CheckpointInterval})]
  /\ UNCHANGED <<backend, store, files, trainer, invocations>>

\* Tables after an operation; the external backend commits it to the store.
Applied(ops) ==
  /\ trainer'.tables = trainer.tables \o ops
  /\ store' = IF backend = "external" THEN store \o ops ELSE store
\* A commit that throws may have published its batch.
CommitThrows(ops) ==
  /\ store' \in IF backend = "external" THEN {store, store \o ops} ELSE {store}
  /\ Throws

\* The baseline is taken again (mutant: an existing baseline is not kept).
BaselineAgain(number) == IF number >= Schedule.window THEN number ELSE trainer.baseline
\* The late window opens before its first batch.
Baseline(number) ==
  IF Schedule.window # 0 /\ number = Schedule.window /\ trainer.baseline = 0
  THEN number ELSE trainer.baseline

\* The guards, the baseline, the batch and its count; a batch that is not clean
\* or a guard that blocks it throws.
RunBatch ==
  LET ops == <<BatchOp(trainer.batches, trainer.trajectories)>> IN
  /\ run.pc = "batch"
  /\ \/ /\ trainer' = [trainer EXCEPT
             !.batches = @ + 1, !.trajectories = @ + PerBatch, !.tables = @ \o ops,
             !.baseline = Baseline(trainer.batches + 1)]
        /\ Applied(ops) /\ To("transform")
        /\ UNCHANGED <<backend, files, invocations>>
     \/ CommitThrows(ops)

\* Discount and pruning.
Transform ==
  LET ops == TransformOps(trainer.batches) IN
  /\ run.pc = "transform"
  /\ \/ trainer' = [trainer EXCEPT !.tables = @ \o ops] /\ Applied(ops) /\ To("after")
        /\ UNCHANGED <<backend, files, invocations>>
     \/ CommitThrows(ops)

\* The working-set gate after the batch, its snapshots and the progress callback.
AfterBatch ==
  /\ run.pc = "after"
  /\ \/ /\ trainer' = [trainer EXCEPT !.phase = BatchPhases(@, trainer.batches)]
        /\ run' = [run EXCEPT !.chunk = @ - 1,
                              !.pc = IF run.chunk > 1 THEN "batch" ELSE "chunk_end"]
        /\ UNCHANGED <<backend, store, files, invocations>>
     \/ Fails

\* The chunk is counted when it is complete.
ChunkEnd ==
  LET left == run.remaining - Min({run.remaining, CheckpointInterval}) IN
  /\ run.pc = "chunk_end"
  /\ run' = [run EXCEPT !.remaining = left,
                        !.pc = IF CheckpointPath # NoPath THEN "save"
                               ELSE IF left # 0 THEN "chunk" ELSE "export"]
  /\ UNCHANGED <<backend, store, files, trainer, invocations>>

\* The counters at the start of the batch (mutant: one batch is run twice after a resume).
CheckpointOfBehind ==
  [batches |-> trainer.batches - 1, trajectories |-> trainer.trajectories, tables |-> trainer.tables,
   baseline |-> trainer.baseline, saved |-> TRUE]
CheckpointOf ==
  [batches |-> trainer.batches, trajectories |-> trainer.trajectories, tables |-> trainer.tables,
   baseline |-> trainer.baseline, saved |-> TRUE]

\* save_checkpoint_atomic, save_external_checkpoint_atomic: gates, the lease, the
\* file; the last save of an invocation records its two snapshots.
Save ==
  LET last == run.remaining = 0 IN
  /\ run.pc = "save"
  /\ \/ /\ last => InOrder(trainer.phase, BeforeCheckpoint)
        /\ files' = [files EXCEPT ![CheckpointPath] = CheckpointOf]
        /\ trainer' = IF last THEN [trainer EXCEPT !.phase = Recorded(@, 2)] ELSE trainer
        /\ To(IF last THEN "export" ELSE "chunk")
        /\ UNCHANGED <<backend, store, invocations>>
     \/ last /\ ~InOrder(trainer.phase, BeforeCheckpoint) /\ To("phase_error")
        /\ UNCHANGED <<backend, store, files, trainer, invocations>>
     \/ Fails

\* The coverage gate, the snapshots that no save recorded, the export and the report.
Export ==
  LET phase == IF CheckpointPath = NoPath THEN Recorded(trainer.phase, 2) ELSE trainer.phase IN
  /\ run.pc = "export"
  /\ \/ /\ CheckpointPath = NoPath => InOrder(trainer.phase, BeforeCheckpoint)
        /\ InOrder(phase, BeforeExport)
        /\ trainer' = [trainer EXCEPT !.phase = Recorded(phase, 2)] /\ To("exported")
        /\ UNCHANGED <<backend, store, files, invocations>>
     \/ ~InOrder(phase, BeforeExport) /\ To("phase_error")
        /\ UNCHANGED <<backend, store, files, trainer, invocations>>
     \/ Fails

\* The process exits, or stops anywhere.
Exit ==
  /\ run.pc # "stopped"
  /\ run' = Stopped /\ UNCHANGED <<backend, store, files, trainer, invocations>>

TrainingInit == Init
TrainingNext ==
  \/ Start \/ Restore \/ Session \/ Chunk \/ RunBatch \/ Transform \/ AfterBatch
  \/ ChunkEnd \/ Save \/ Export \/ Exit

-----------------------------------------------------------------------------
(* The uninterrupted run, by the meaning of the schedule. *)

ReferenceTransform(batch) ==
  LET discounted == Schedule.discount # 0 /\ \E k \in 1 .. batch : batch = k * Schedule.discount
      pruned == /\ Schedule.prune # 0
                /\ \E k \in 1 .. batch : batch = Schedule.warmup + k * Schedule.prune
                /\ ~(Schedule.recovery # 0
                     /\ \E k \in 1 .. batch : batch = Schedule.warmup + k * Schedule.recovery) IN
  IF discounted /\ pruned THEN <<Op("scale_and_prune")>>
  ELSE IF pruned THEN <<Op("prune")>> ELSE IF discounted THEN <<Op("scale")>> ELSE <<>>
ReferenceBatch(batch) ==
  <<[op |-> "batch", first |-> (batch - 1) * PerBatch, seed |-> Seed + batch - 1, weight |-> batch]>>
Reference(batches) ==
  LET after[n \in 0 .. batches] ==
        IF n = 0 THEN <<>> ELSE after[n - 1] \o ReferenceBatch(n) \o ReferenceTransform(n)
  IN  after[batches]

IsReference(state) ==
  /\ state.tables = Reference(state.batches)
  /\ state.trajectories = state.batches * PerBatch
  /\ state.baseline = IF Schedule.window # 0 /\ state.batches >= Schedule.window
                      THEN Schedule.window ELSE 0

\* However often the process fails, stops and resumes, the tables and every
\* checkpoint are those of the uninterrupted run, no batch of an unauthorized
\* invocation reaches the stage, and the snapshots of a run are in order.
TrainingSound ==
  /\ \A name \in Names : files[name].saved => IsReference(files[name])
  /\ run.pc \in {"chunk", "after", "chunk_end", "save", "export", "exported"} => IsReference(trainer)
  /\ run.pc \in {"chunk", "after", "save", "export", "exported"} /\ ~run.authorized =>
       trainer.trajectories < StageGate
  /\ run.pc # "phase_error"
  /\ run.pc = "exported" => trainer.phase \in {13, Disabled}
=============================================================================
