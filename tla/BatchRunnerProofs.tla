-------------------------- MODULE BatchRunnerProofs --------------------------
(***************************************************************************)
(* Theorems about BatchRunner, for every number of workers, chunk size,    *)
(* scheduler mode and batch size.                                          *)
(*                                                                         *)
(* The first argument counts: completed_workers_ is the number of workers  *)
(* that have seen the present generation and are through with it, so when  *)
(* it reaches the batch's worker count nobody is left at work - whatever   *)
(* woke the caller.                                                        *)
(*                                                                         *)
(* The second argument shares out the batch: what a worker has run and     *)
(* what it still has to run is its share.  The shares are disjoint, and    *)
(* together they are the batch (a static partition) or the chunks claimed  *)
(* so far (Dynamic).  When the count says that nobody is left at work, the *)
(* streams are therefore the batch, and a merge that always takes the      *)
(* least head takes first, first + 1, ... to the end.                      *)
(***************************************************************************)
EXTENDS BatchRunner, TLAPS, FiniteSetTheorems, WellFoundedInduction

AtWork == {"claiming", "running", "throwing", "sorting", "failed"}

\* The workers that take part in the present batch, and those of them that
\* have counted themselves.
Party == {w \in Workers : w < batch.workers}

Done == {w \in Party : observed[w] = generation /\ worker[w] \notin AtWork}

\* The states of the caller in which a batch is dispatched and not over.
Dispatched == {"notifying", "awaiting", "blocking", "blocked"}

CountTypes ==
  /\ generation \in Nat
  /\ completed \in Nat
  /\ batch.workers \in 0 .. WorkerCount
  /\ context.workers \in 0 .. WorkerCount
  /\ observed \in [Workers -> Nat]
  /\ DOMAIN worker = Workers
  /\ DOMAIN job = Workers

\* Nobody has seen a generation that is not yet dispatched.
ObservedPast == \A w \in Workers : observed[w] <= generation

\* A worker at work is one of the present batch's and has its copy.
WorkOfPresentBatch ==
  \A w \in Workers : worker[w] \in AtWork =>
    w \in Party /\ observed[w] = generation /\ job[w] = batch

CompletedCountsDone == completed = Cardinality(Done)

ActiveWhileDispatched == active <=> caller \in Dispatched

NobodyAtWorkOutside == ~ active => \A w \in Workers : worker[w] \notin AtWork

IndInv ==
  /\ CountTypes
  /\ ObservedPast
  /\ WorkOfPresentBatch
  /\ CompletedCountsDone
  /\ ActiveWhileDispatched
  /\ NobodyAtWorkOutside

-----------------------------------------------------------------------------
\* The workers, and any part of them, can be counted.
LEMMA WorkersFinite == IsFiniteSet(Workers)
PROOF BY FS_Interval, RunnerAssumption DEF Workers

LEMMA DoneFinite == IsFiniteSet(Done)
PROOF BY WorkersFinite, FS_Subset DEF Done, Party

\* A batch never asks for more workers than the pool has.
LEMMA BatchFits ==
  ASSUME NEW first, NEW count \in Nat
  PROVE  Batch(first, count).workers \in 0 .. WorkerCount
PROOF BY RunnerAssumption DEF Batch, BatchCount, Least

\* The first batch.workers workers take part.
LEMMA PartySize ==
  ASSUME CountTypes
  PROVE  IsFiniteSet(Party) /\ Cardinality(Party) = batch.workers
PROOF
<1>1. Party = 0 .. batch.workers - 1
  BY RunnerAssumption DEF Party, Workers, CountTypes
<1> DEFINE n == batch.workers
<1>2. n \in Nat
  BY RunnerAssumption DEF CountTypes
<1> HIDE DEF n
<1>3. /\ IsFiniteSet(0 .. n - 1)
      /\ Cardinality(0 .. n - 1) = IF 0 > n - 1 THEN 0 ELSE n - 1 - 0 + 1
  BY <1>2, FS_Interval
<1>4. Cardinality(0 .. n - 1) = n
  BY <1>2, <1>3
<1> QED BY <1>1, <1>3, <1>4 DEF n

\* As many workers have counted themselves as take part: nobody is at work.
LEMMA AllDone ==
  ASSUME CountTypes, WorkOfPresentBatch, CompletedCountsDone,
         completed = batch.workers
  PROVE  Done = Party /\ \A w \in Workers : worker[w] \notin AtWork
PROOF
<1>1. Done \subseteq Party
  BY DEF Done
<1>2. Done = Party
  BY <1>1, PartySize, FS_Subset DEF CompletedCountsDone
<1> QED BY <1>2 DEF Done, WorkOfPresentBatch

-----------------------------------------------------------------------------
\* The steps that neither move a worker into or out of its work nor begin or
\* end a batch: what the invariant speaks of stays as it is.
LEMMA QuietStep ==
  ASSUME IndInv,
         UNCHANGED <<generation, completed, batch, observed, active, job>>,
         context'.workers \in 0 .. WorkerCount,
         DOMAIN worker' = Workers,
         \A w \in Workers : worker'[w] \in AtWork <=> worker[w] \in AtWork,
         caller' \in Dispatched <=> caller \in Dispatched
  PROVE  IndInv'
PROOF
<1>1. Party' = Party
  BY DEF Party
<1>2. Done' = Done
  BY <1>1 DEF Done, Party
<1>3. CountTypes' /\ ObservedPast'
  BY DEF IndInv, CountTypes, ObservedPast
<1>4. WorkOfPresentBatch'
  BY <1>1 DEF IndInv, WorkOfPresentBatch
<1>5. CompletedCountsDone'
  BY <1>2 DEF IndInv, CompletedCountsDone
<1>6. ActiveWhileDispatched' /\ NobodyAtWorkOutside'
  BY DEF IndInv, ActiveWhileDispatched, NobodyAtWorkOutside
<1> QED BY <1>3, <1>4, <1>5, <1>6 DEF IndInv

\* The invariant holds when the runner is built.
LEMMA InitIndInv ==
  ASSUME Init
  PROVE  IndInv
PROOF
<1>1. Done = {}
  BY DEF Init, Done, Party, NoBatch
<1>2. Cardinality(Done) = 0
  BY <1>1, FS_EmptySet
<1>3. CountTypes /\ ObservedPast
  BY RunnerAssumption DEF Init, CountTypes, ObservedPast, NoBatch
<1> QED
  BY <1>2, <1>3 DEF Init, IndInv, WorkOfPresentBatch, CompletedCountsDone,
     ActiveWhileDispatched, NobodyAtWorkOutside, AtWork, Dispatched

\* The caller's steps.
LEMMA CallerKeepsIndInv ==
  ASSUME IndInv, Run \/ Destroy \/ CallerStep
  PROVE  IndInv'
PROOF
<1>1. CASE Run
  <2>1. PICK count \in TrajectoryCounts : PrepareBatchRun(count)
    BY <1>1 DEF Run
  <2>2. count \in Nat
    BY RunnerAssumption
  <2>3. context'.workers \in 0 .. WorkerCount
    BY <2>1, <2>2, BatchFits DEF PrepareBatchRun
  <2>4. UNCHANGED <<generation, completed, batch, observed, active, job, worker>>
    BY <2>1 DEF PrepareBatchRun, pool, atomics, workerVars
  <2>5. caller \notin Dispatched /\ caller' \notin Dispatched
    BY <2>1 DEF PrepareBatchRun, Dispatched
  <2> QED BY <2>3, <2>4, <2>5, QuietStep DEF IndInv, CountTypes
<1>2. CASE Destroy
  BY <1>2, QuietStep
     DEF Destroy, atomics, workerVars, Dispatched, IndInv, CountTypes
<1>3. CASE DispatchBatch
  <2>1. /\ ~ active /\ active'
        /\ generation' = generation + 1
        /\ completed' = 0
        /\ batch' = context
        /\ caller' = "notifying"
        /\ UNCHANGED <<observed, job, worker, context>>
    BY <1>3 DEF DispatchBatch, workerVars
  <2>2. \A w \in Workers : observed[w] \in Nat /\ observed[w] < generation'
    BY <2>1 DEF IndInv, CountTypes, ObservedPast
  <2>3. \A w \in Workers : worker'[w] \notin AtWork
    BY <2>1 DEF IndInv, NobodyAtWorkOutside
  <2>4. Done' = {}
    BY <2>1, <2>2 DEF Done, Party, IndInv, CountTypes
  <2>5. Cardinality(Done') = 0
    BY <2>4, FS_EmptySet
  <2>6. CompletedCountsDone'
    BY <2>1, <2>5 DEF CompletedCountsDone
  <2>7. CountTypes' /\ ObservedPast'
    BY <2>1, <2>2 DEF IndInv, CountTypes, ObservedPast
  <2>8. WorkOfPresentBatch' /\ NobodyAtWorkOutside'
    BY <2>3 DEF WorkOfPresentBatch, NobodyAtWorkOutside
  <2>9. ActiveWhileDispatched'
    BY <2>1 DEF ActiveWhileDispatched, Dispatched
  <2> QED BY <2>6, <2>7, <2>8, <2>9 DEF IndInv
<1>4. CASE NotifyWorker
  <2>1. \A w \in Workers : worker'[w] \in AtWork <=> worker[w] \in AtWork
    BY <1>4 DEF NotifyWorker, Wake, AtWork, IndInv, CountTypes
  <2>2. DOMAIN worker' = Workers
    BY <1>4 DEF NotifyWorker, Wake, IndInv, CountTypes
  <2> QED
    BY <1>4, <2>1, <2>2, QuietStep
       DEF NotifyWorker, pool, atomics, Dispatched, IndInv, CountTypes
<1>5. CASE TestCompletion
  BY <1>5, QuietStep
     DEF TestCompletion, pool, atomics, workerVars, Dispatched, IndInv, CountTypes
<1>6. CASE BlockOnCompletion
  BY <1>6, QuietStep
     DEF BlockOnCompletion, pool, atomics, workerVars, Dispatched, IndInv, CountTypes
<1>7. CASE LeaveWait
  <2>1. \A w \in Workers : worker[w] \notin AtWork
    BY <1>7, AllDone DEF IndInv, LeaveWait
  <2>2. /\ ~ active' /\ caller' \notin Dispatched
        /\ UNCHANGED <<generation, completed, batch, context, observed, job, worker>>
    BY <1>7 DEF LeaveWait, atomics, workerVars, Dispatched
  <2>3. Party' = Party
    BY <2>2 DEF Party
  <2>4. Done' = Done
    BY <2>2, <2>3 DEF Done
  <2> QED
    BY <2>1, <2>2, <2>3, <2>4
       DEF IndInv, CountTypes, ObservedPast, WorkOfPresentBatch, CompletedCountsDone,
           ActiveWhileDispatched, NobodyAtWorkOutside
<1>8. CASE AssembleWorkerResult
  BY <1>8, QuietStep
     DEF AssembleWorkerResult, pool, atomics, workerVars, Dispatched, IndInv, CountTypes
<1>9. CASE AdmissionThrows
  BY <1>9, QuietStep
     DEF AdmissionThrows, pool, atomics, workerVars, Dispatched, IndInv, CountTypes
<1>10. CASE MergeBatchDeltas
  BY <1>10, QuietStep
     DEF MergeBatchDeltas, pool, atomics, workerVars, Dispatched, IndInv, CountTypes
<1>11. CASE NotifyStop
  <2>1. \A w \in Workers : worker'[w] \in AtWork <=> worker[w] \in AtWork
    BY <1>11 DEF NotifyStop, Wake, AtWork, IndInv, CountTypes
  <2>2. DOMAIN worker' = Workers
    BY <1>11 DEF NotifyStop, Wake, IndInv, CountTypes
  <2> QED
    BY <1>11, <2>1, <2>2, QuietStep
       DEF NotifyStop, pool, atomics, Dispatched, IndInv, CountTypes
<1>12. CASE Join
  BY <1>12, QuietStep
     DEF Join, pool, atomics, workerVars, Dispatched, IndInv, CountTypes
<1>13. ASSUME NEW w \in Workers, TakeDelta(w)
       PROVE  IndInv'
  BY <1>13, QuietStep
     DEF TakeDelta, pool, atomics, callerVars, workerVars, Dispatched, IndInv, CountTypes
<1>14. CASE EndMerge
  BY <1>14, QuietStep
     DEF EndMerge, pool, atomics, workerVars, Dispatched, IndInv, CountTypes
<1> QED
  BY <1>1, <1>2, <1>3, <1>4, <1>5, <1>6, <1>7, <1>8, <1>9, <1>10, <1>11, <1>12, <1>13, <1>14
     DEF CallerStep

\* A worker's steps under the mutex.
LEMMA LockedStepKeepsIndInv ==
  ASSUME IndInv, NEW w \in Workers, LockedStep(w)
  PROVE  IndInv'
PROOF
<1>1. CASE BlockOnWork(w)
  <2>1. \A v \in Workers : worker'[v] \in AtWork <=> worker[v] \in AtWork
    BY <1>1 DEF BlockOnWork, AtWork, IndInv, CountTypes
  <2>2. DOMAIN worker' = Workers
    BY <1>1 DEF BlockOnWork, IndInv, CountTypes
  <2> QED
    BY <1>1, <2>1, <2>2, QuietStep
       DEF BlockOnWork, pool, atomics, callerVars, Dispatched, IndInv, CountTypes
<1>2. CASE ReturnOnStop(w)
  <2>1. \A v \in Workers : worker'[v] \in AtWork <=> worker[v] \in AtWork
    BY <1>2 DEF ReturnOnStop, AtWork, IndInv, CountTypes
  <2>2. DOMAIN worker' = Workers
    BY <1>2 DEF ReturnOnStop, IndInv, CountTypes
  <2> QED
    BY <1>2, <2>1, <2>2, QuietStep
       DEF ReturnOnStop, pool, atomics, callerVars, Dispatched, IndInv, CountTypes
<1>3. CASE ObserveBatch(w)
  <2>1. /\ worker[w] = "ready" /\ active /\ observed[w] # generation
        /\ observed' = [observed EXCEPT ![w] = generation]
        /\ UNCHANGED <<generation, completed, batch, active, caller, context>>
    BY <1>3 DEF ObserveBatch, WorkReady, pool, atomics, callerVars
  <2>2. \/ /\ w < batch.workers
           /\ worker'[w] \in AtWork /\ job'[w] = batch
           /\ DOMAIN worker' = Workers
           /\ \A v \in Workers \ {w} : worker'[v] = worker[v] /\ job'[v] = job[v]
        \/ ~ (w < batch.workers) /\ worker' = worker /\ job' = job
    <3>1. CASE w < batch.workers
      <4>1. /\ job' = [job EXCEPT ![w] = batch]
            /\ worker' = [worker EXCEPT ![w] = IF mode = "Dynamic" THEN "claiming" ELSE "running"]
        BY <1>3, <3>1 DEF ObserveBatch, StartBatch
      <4>2. DOMAIN job = Workers
        BY DEF IndInv, CountTypes
      <4> QED BY <3>1, <4>1, <4>2 DEF AtWork, IndInv, CountTypes
    <3>2. CASE ~ (w < batch.workers)
      BY <1>3, <3>2 DEF ObserveBatch
    <3> QED BY <3>1, <3>2
  <2>3. Party' = Party
    BY <2>1 DEF Party
  <2>4. CountTypes' /\ ObservedPast'
    <3>1. DOMAIN worker' = Workers /\ DOMAIN job' = Workers
      BY <1>3 DEF ObserveBatch, StartBatch, IndInv, CountTypes
    <3> QED BY <2>1, <3>1 DEF IndInv, CountTypes, ObservedPast
  <2>5. worker[w] \notin AtWork
    BY <2>1 DEF AtWork
  <2>6. Done' = Done
    <3>1. w \notin Done
      BY <2>1 DEF Done
    <3>2. w \notin Done'
      BY <2>2, <2>3 DEF Done, Party
    <3>3. \A v \in Party \ {w} : v \in Done' <=> v \in Done
      BY <2>1, <2>2, <2>3 DEF Done, Party, IndInv, CountTypes
    <3>4. Done \subseteq Party /\ Done' \subseteq Party
      BY <2>3 DEF Done
    <3> QED BY <3>1, <3>2, <3>3, <3>4
  <2>7. CompletedCountsDone'
    BY <2>1, <2>6 DEF IndInv, CompletedCountsDone
  <2>8. WorkOfPresentBatch'
    <3> SUFFICES ASSUME NEW v \in Workers, worker'[v] \in AtWork
                 PROVE  v \in Party' /\ observed'[v] = generation' /\ job'[v] = batch'
      BY DEF WorkOfPresentBatch
    <3>1. CASE v = w
      BY <2>1, <2>2, <2>3, <2>5, <3>1 DEF Party, IndInv, CountTypes
    <3>2. CASE v # w
      <4>1. worker[v] = worker'[v] /\ job'[v] = job[v] /\ observed'[v] = observed[v]
        BY <2>1, <2>2, <3>2 DEF IndInv, CountTypes
      <4> QED BY <2>1, <2>3, <4>1 DEF IndInv, WorkOfPresentBatch
    <3> QED BY <3>1, <3>2
  <2>9. ActiveWhileDispatched' /\ NobodyAtWorkOutside'
    BY <2>1 DEF IndInv, ActiveWhileDispatched, NobodyAtWorkOutside
  <2> QED BY <2>4, <2>7, <2>8, <2>9 DEF IndInv
<1>4. CASE RecordError(w)
  <2>1. \A v \in Workers : worker'[v] \in AtWork <=> worker[v] \in AtWork
    BY <1>4 DEF RecordError, AtWork, IndInv, CountTypes
  <2>2. DOMAIN worker' = Workers
    BY <1>4 DEF RecordError, IndInv, CountTypes
  <2> QED
    BY <1>4, <2>1, <2>2, QuietStep
       DEF RecordError, pool, atomics, callerVars, Dispatched, IndInv, CountTypes
<1> QED BY <1>1, <1>2, <1>3, <1>4 DEF LockedStep

\* A worker's steps outside the mutex.
LEMMA FreeStepKeepsIndInv ==
  ASSUME IndInv, NEW w \in Workers, FreeStep(w)
  PROVE  IndInv'
PROOF
<1>1. CASE ClaimChunk(w)
  <2>1. \A v \in Workers : worker'[v] \in AtWork <=> worker[v] \in AtWork
    BY <1>1 DEF ClaimChunk, AtWork, IndInv, CountTypes
  <2>2. DOMAIN worker' = Workers
    BY <1>1 DEF ClaimChunk, IndInv, CountTypes
  <2> QED
    BY <1>1, <2>1, <2>2, QuietStep
       DEF ClaimChunk, pool, atomics, callerVars, Dispatched, IndInv, CountTypes
<1>2. CASE EndRange(w)
  <2>1. \A v \in Workers : worker'[v] \in AtWork <=> worker[v] \in AtWork
    BY <1>2 DEF EndRange, AfterRange, AtWork, IndInv, CountTypes
  <2>2. DOMAIN worker' = Workers
    BY <1>2 DEF EndRange, AfterRange, IndInv, CountTypes
  <2> QED
    BY <1>2, <2>1, <2>2, QuietStep
       DEF EndRange, pool, atomics, callerVars, Dispatched, IndInv, CountTypes
<1>3. CASE CancelRange(w)
  <2>1. \A v \in Workers : worker'[v] \in AtWork <=> worker[v] \in AtWork
    BY <1>3 DEF CancelRange, AfterRange, AtWork, IndInv, CountTypes
  <2>2. DOMAIN worker' = Workers
    BY <1>3 DEF CancelRange, AfterRange, IndInv, CountTypes
  <2> QED
    BY <1>3, <2>1, <2>2, QuietStep
       DEF CancelRange, pool, atomics, callerVars, Dispatched, IndInv, CountTypes
<1>4. CASE \E accepted \in BOOLEAN : RunTrajectory(w, accepted)
  <2>1. UNCHANGED <<generation, completed, batch, observed, active, job, worker, caller, context>>
    BY <1>4 DEF RunTrajectory, pool, atomics, callerVars
  <2> QED BY <2>1, QuietStep DEF IndInv, CountTypes
<1>5. CASE TrajectoryThrows(w)
  <2>1. \A v \in Workers : worker'[v] \in AtWork <=> worker[v] \in AtWork
    BY <1>5 DEF TrajectoryThrows, AtWork, IndInv, CountTypes
  <2>2. DOMAIN worker' = Workers
    BY <1>5 DEF TrajectoryThrows, IndInv, CountTypes
  <2> QED
    BY <1>5, <2>1, <2>2, QuietStep
       DEF TrajectoryThrows, pool, atomics, callerVars, Dispatched, IndInv, CountTypes
<1>6. CASE Complete(w)
  <2>1. /\ worker[w] \in AtWork
        /\ completed' = completed + 1
        /\ worker' = [worker EXCEPT ![w] = IF completed + 1 = job[w].workers THEN "last" ELSE "ready"]
        /\ job' = [job EXCEPT ![w] = NoBatch]
        /\ UNCHANGED <<generation, batch, observed, active, caller, context>>
    BY <1>6 DEF Complete, AtWork, pool, callerVars
  <2>2. /\ worker'[w] \notin AtWork
        /\ DOMAIN worker' = Workers /\ DOMAIN job' = Workers
        /\ \A v \in Workers \ {w} : worker'[v] = worker[v] /\ job'[v] = job[v]
    BY <2>1 DEF AtWork, IndInv, CountTypes
  <2>3. Party' = Party
    BY <2>1 DEF Party
  <2>4. w \in Party /\ observed[w] = generation
    BY <2>1 DEF IndInv, WorkOfPresentBatch
  <2>5. w \notin Done
    BY <2>1 DEF Done
  <2>6. Done' = Done \cup {w}
    <3>1. \A v \in Party \ {w} : v \in Done' <=> v \in Done
      BY <2>1, <2>2, <2>3 DEF Done, Party
    <3>2. w \in Done'
      BY <2>1, <2>2, <2>3, <2>4 DEF Done
    <3>3. Done \subseteq Party /\ Done' \subseteq Party
      BY <2>3 DEF Done
    <3> QED BY <2>4, <3>1, <3>2, <3>3
  <2>7. CompletedCountsDone'
    <3>1. Cardinality(Done \cup {w}) = Cardinality(Done) + 1
      BY <2>5, DoneFinite, FS_AddElement
    <3> QED BY <2>1, <2>6, <3>1 DEF IndInv, CompletedCountsDone
  <2>8. CountTypes' /\ ObservedPast'
    BY <2>1, <2>2 DEF IndInv, CountTypes, ObservedPast
  <2>9. WorkOfPresentBatch'
    BY <2>1, <2>2, <2>3 DEF IndInv, WorkOfPresentBatch
  <2>10. ActiveWhileDispatched' /\ NobodyAtWorkOutside'
    BY <2>1, <2>2 DEF IndInv, ActiveWhileDispatched, NobodyAtWorkOutside
  <2> QED BY <2>7, <2>8, <2>9, <2>10 DEF IndInv
<1>7. CASE NotifyCompletion(w)
  <2>1. \A v \in Workers : worker'[v] \in AtWork <=> worker[v] \in AtWork
    BY <1>7 DEF NotifyCompletion, AtWork, IndInv, CountTypes
  <2>2. DOMAIN worker' = Workers
    BY <1>7 DEF NotifyCompletion, IndInv, CountTypes
  <2> QED
    BY <1>7, <2>1, <2>2, QuietStep
       DEF NotifyCompletion, pool, atomics, callerVars, Dispatched, IndInv, CountTypes
<1> QED BY <1>1, <1>2, <1>3, <1>4, <1>5, <1>6, <1>7 DEF FreeStep

\* What the environment does: a deadline, and wake-ups nobody asked for.
LEMMA EnvironmentKeepsIndInv ==
  ASSUME IndInv,
         DeadlinePasses \/ SpuriousCallerWake \/ \E w \in Workers : SpuriousWorkerWake(w)
  PROVE  IndInv'
PROOF
<1>1. CASE DeadlinePasses
  BY <1>1, QuietStep
     DEF DeadlinePasses, pool, atomics, callerVars, workerVars, Dispatched, IndInv, CountTypes
<1>2. CASE SpuriousCallerWake
  BY <1>2, QuietStep
     DEF SpuriousCallerWake, pool, atomics, workerVars, Dispatched, IndInv, CountTypes
<1>3. ASSUME NEW w \in Workers, SpuriousWorkerWake(w)
      PROVE  IndInv'
  <2>1. \A v \in Workers : worker'[v] \in AtWork <=> worker[v] \in AtWork
    BY <1>3 DEF SpuriousWorkerWake, Wake, AtWork, IndInv, CountTypes
  <2>2. DOMAIN worker' = Workers
    BY <1>3 DEF SpuriousWorkerWake, Wake, IndInv, CountTypes
  <2> QED
    BY <1>3, <2>1, <2>2, QuietStep
       DEF SpuriousWorkerWake, pool, atomics, callerVars, Dispatched, IndInv, CountTypes
<1> QED BY <1>1, <1>2, <1>3

\* A step that changes nothing.
LEMMA StutterKeepsIndInv ==
  ASSUME IndInv, UNCHANGED vars
  PROVE  IndInv'
PROOF
  BY QuietStep DEF vars, pool, atomics, callerVars, workerVars, IndInv, CountTypes
-----------------------------------------------------------------------------
\* The counting argument is an invariant of the runner: at every step of every
\* thread completed_workers_ is the number of workers through with the present
\* generation, and whoever is at work is at work on that generation.
THEOREM Invariance == Spec => []IndInv
PROOF
<1>1. Init => IndInv
  BY InitIndInv
<1>2. IndInv /\ [Next]_vars => IndInv'
  BY CallerKeepsIndInv, LockedStepKeepsIndInv, FreeStepKeepsIndInv,
     EnvironmentKeepsIndInv, StutterKeepsIndInv DEF Next
<1> QED BY <1>1, <1>2, PTL DEF Spec

\* wait_for_batch_workers returns only when every worker of the batch is
\* through, so run() resets, reads and merges the scratch alone: for every
\* number of workers, under every interleaving, with stale notifications and
\* spurious wake-ups.
THEOREM ScratchNeverShared == Spec => []ScratchNotShared
PROOF
<1>1. IndInv => ScratchNotShared
  BY DEF IndInv, ActiveWhileDispatched, NobodyAtWorkOutside, ScratchNotShared, Working,
     AtWork, Dispatched
<1> QED BY <1>1, Invariance, PTL

\* However a batch ended, dispatch_batch finds no batch active and accepts the
\* next one.
THEOREM AlwaysReusable == Spec => []RunnerReusable
PROOF
<1>1. IndInv => RunnerReusable
  BY DEF IndInv, ActiveWhileDispatched, RunnerReusable, Dispatched
<1> QED BY <1>1, Invariance, PTL

-----------------------------------------------------------------------------
(***************************************************************************)
(* The scheduler: what each partition gives to each worker.                *)
(***************************************************************************)
\* A MultiwayTrajectoryRange; a stride is never zero.
Ranges == [begin : Nat, end : Nat, stride : Nat \ {0}]

\* The trajectories begin, begin + stride, ... before end.
Span(begin, end, stride) == {i \in Nat : i < end /\ \E k \in Nat : i = begin + k * stride}

\* A range that has ended holds no trajectory.
LEMMA SpanEmpty ==
  ASSUME NEW b \in Nat, NEW e \in Nat, NEW s \in Nat, b >= e
  PROVE  Span(b, e, s) = {}
PROOF
<1> SUFFICES ASSUME NEW i \in Nat, i < e, NEW k \in Nat, i = b + k * s PROVE FALSE
  BY DEF Span
<1>1. k * s \in Nat
  OBVIOUS
<1> QED BY <1>1

\* A range is its first trajectory and the range one stride further.
LEMMA SpanStep ==
  ASSUME NEW b \in Nat, NEW e \in Nat, NEW s \in Nat \ {0}, b < e
  PROVE  /\ Span(b, e, s) = {b} \cup Span(b + s, e, s)
         /\ b \notin Span(b + s, e, s)
PROOF
<1>1. b \in Span(b, e, s)
  <2>1. b = b + 0 * s
    OBVIOUS
  <2> QED BY <2>1 DEF Span
<1>2. ASSUME NEW i \in Span(b + s, e, s)
      PROVE  i \in Span(b, e, s) /\ i # b
  <2>1. PICK k \in Nat : i = (b + s) + k * s
    BY <1>2 DEF Span
  <2>2. k * s \in Nat /\ (k + 1) * s = k * s + s
    OBVIOUS
  <2>3. i = b + (k + 1) * s /\ i # b
    BY <2>1, <2>2
  <2> QED BY <1>2, <2>3 DEF Span
<1>3. ASSUME NEW i \in Span(b, e, s), i # b
      PROVE  i \in Span(b + s, e, s)
  <2>1. PICK k \in Nat : i = b + k * s
    BY <1>3 DEF Span
  <2>2. k # 0
    BY <1>3, <2>1
  <2>3. k - 1 \in Nat /\ k * s = (k - 1) * s + s /\ (k - 1) * s \in Nat
    BY <2>2
  <2>4. i = (b + s) + (k - 1) * s
    BY <2>1, <2>3
  <2> QED BY <1>3, <2>3, <2>4 DEF Span
<1> QED BY <1>1, <1>2, <1>3

\* A range of stride one is an interval.
LEMMA SpanOne ==
  ASSUME NEW b \in Nat, NEW e \in Nat
  PROVE  Span(b, e, 1) = {i \in Nat : b <= i /\ i < e}
PROOF
<1>1. ASSUME NEW i \in Nat, b <= i PROVE i - b \in Nat /\ i = b + (i - b) * 1
  BY <1>1
<1>2. ASSUME NEW i \in Nat, NEW k \in Nat, i = b + k * 1 PROVE b <= i
  BY <1>2
<1> QED BY <1>1, <1>2 DEF Span

\* A division of `count` trajectories
Divides(ranges, workers, count) ==
  /\ \A w \in 0 .. workers - 1 : ranges[w] \in Ranges /\ ranges[w].end <= count
  /\ \A i \in 0 .. count - 1 : \E w \in 0 .. workers - 1 :
       i \in Span(ranges[w].begin, ranges[w].end, ranges[w].stride)
  /\ \A v, w \in 0 .. workers - 1 : v # w =>
       Span(ranges[v].begin, ranges[v].end, ranges[v].stride)
         \cap Span(ranges[w].begin, ranges[w].end, ranges[w].stride) = {}

\* Multiples of n are n apart.
LEMMA Multiples ==
  ASSUME NEW j \in Nat, NEW k \in Nat, NEW n \in Nat, j < k
  PROVE  j * n + n <= k * n
PROOF
<1>1. PICK d \in Nat : k = j + 1 + d
  <2>1. k - j - 1 \in Nat /\ k = j + 1 + (k - j - 1)
    OBVIOUS
  <2> QED BY <2>1
<1>2. k * n = j * n + n + d * n /\ d * n \in Nat
  BY <1>1
<1> QED BY <1>2

\* partition_round_robin_into: the ranges are disjoint, and every trajectory of
\* the batch is in one of them, for any batch size and any number of workers.
THEOREM RoundRobinDivides ==
  ASSUME NEW count \in Nat, NEW workers \in Nat \ {0}
  PROVE  Divides(RoundRobin(count, workers), BatchCount(count, workers), count)
PROOF
<1> DEFINE n == BatchCount(count, workers)
           ranges == RoundRobin(count, workers)
<1>1. n \in Nat \ {0} /\ (count # 0 => n <= count)
  BY DEF BatchCount, Least
<1>2. CASE count = 0
  <2>1. n = 1 /\ ranges[0] = EmptyRange
    BY <1>2 DEF BatchCount, RoundRobin
  <2>2. 0 .. n - 1 = {0} /\ 0 .. count - 1 = {}
    BY <1>2, <2>1
  <2> QED BY <1>2, <2>1, <2>2 DEF Divides, EmptyRange, TrajectoryRange, Ranges
<1>3. CASE count # 0
  <2>1. \A w \in 0 .. n - 1 : ranges[w] = [begin |-> w, end |-> count, stride |-> n]
    BY <1>3 DEF RoundRobin, TrajectoryRange
  <2> HIDE DEF ranges, n
  <2>2. ASSUME NEW i \in 0 .. count - 1
        PROVE  \E w \in 0 .. n - 1 : i \in Span(w, count, n)
    <3>1. i % n \in 0 .. n - 1 /\ i \div n \in Nat /\ i = (i % n) + (i \div n) * n
      BY <1>1, <2>2
    <3> QED BY <2>2, <3>1 DEF Span
  <2>3. ASSUME NEW v \in 0 .. n - 1, NEW w \in 0 .. n - 1, v # w,
               NEW i \in Span(v, count, n), i \in Span(w, count, n)
        PROVE  FALSE
    <3>1. PICK j \in Nat : i = v + j * n
      BY <2>3 DEF Span
    <3>2. PICK k \in Nat : i = w + k * n
      BY <2>3 DEF Span
    <3>3. j * n \in Nat /\ k * n \in Nat
      BY <1>1
    <3>4. CASE j < k
      BY <1>1, <3>1, <3>2, <3>3, <3>4, Multiples
    <3>5. CASE k < j
      BY <1>1, <3>1, <3>2, <3>3, <3>5, Multiples
    <3>6. CASE j = k
      BY <2>3, <3>1, <3>2, <3>3, <3>6
    <3> QED BY <3>4, <3>5, <3>6
  <2>4. ASSUME NEW w \in 0 .. n - 1
        PROVE  ranges[w] \in Ranges /\ ranges[w].end <= count
    <3>1. ranges[w] = [begin |-> w, end |-> count, stride |-> n]
      BY <2>1
    <3>2. w \in Nat /\ n \in Nat \ {0}
      BY <1>1
    <3> QED BY <3>1, <3>2 DEF Ranges
  <2>5. ASSUME NEW w \in 0 .. n - 1
        PROVE  Span(ranges[w].begin, ranges[w].end, ranges[w].stride) = Span(w, count, n)
    <3>1. ranges[w] = [begin |-> w, end |-> count, stride |-> n]
      BY <2>1
    <3>2. ranges[w].begin = w /\ ranges[w].end = count /\ ranges[w].stride = n
      BY <3>1
    <3> QED BY <3>2
  <2>6. Divides(ranges, n, count)
    BY <2>2, <2>3, <2>4, <2>5 DEF Divides
  <2> QED BY <2>6 DEF n, ranges
<1> QED BY <1>2, <1>3

\* A set of naturals has a least element.
LEMMA NatMin ==
  ASSUME NEW T, T \subseteq Nat, T # {}
  PROVE  \E x \in T : \A y \in T : x <= y
PROOF
<1> DEFINE R == {ss \in Nat \X Nat : ss[1] < ss[2]}
<1>1. IsWellFoundedOn(R, Nat)
  BY NatLessThanWellFounded DEF OpToRel
<1>2. \A x, y \in Nat : y < x => <<y, x>> \in R
  OBVIOUS
<1> HIDE DEF R
<1>3. \E x \in T : \A y \in T : ~ (<<y, x>> \in R)
  BY <1>1, WFMin, Zenon
<1>4. PICK x \in T : \A y \in T : ~ (<<y, x>> \in R)
  BY <1>3
<1>5. ASSUME NEW y \in T PROVE x <= y
  <2>1. x \in Nat /\ y \in Nat
    OBVIOUS
  <2>2. ~ (y < x)
    BY <1>2, <1>4, <2>1, Zenon
  <2> QED BY <2>1, <2>2
<1> QED BY <1>5

\* What the quotient and the remainder are.
LEMMA Quotient ==
  ASSUME NEW i \in Nat, NEW n \in Nat \ {0}
  PROVE  i \div n \in Nat /\ i % n \in 0 .. n - 1 /\ i = (i \div n) * n + (i % n)
PROOF OBVIOUS

\* partition_deterministic_into: so are the contiguous blocks, with the longer
\* blocks first.
THEOREM StaticBlockDivides ==
  ASSUME NEW count \in Nat, NEW workers \in Nat \ {0}
  PROVE  Divides(StaticBlock(count, workers), BatchCount(count, workers), count)
PROOF
<1> DEFINE n == BatchCount(count, workers)
           q == count \div n
           r == count % n
           B(w) == w * q + Least(w, r)
           ranges == StaticBlock(count, workers)
<1>1. n \in Nat \ {0}
  BY DEF BatchCount, Least
<1>2. \A w \in 0 .. n - 1 : ranges[w] = [begin |-> B(w), end |-> B(w + 1), stride |-> 1]
  BY DEF StaticBlock, TrajectoryRange
<1> HIDE DEF ranges, n
<1>3. q \in Nat /\ r \in 0 .. n - 1 /\ count = q * n + r
  BY <1>1, Quotient
<1> HIDE DEF q, r
<1>4. \A w \in Nat : B(w) \in Nat
  BY <1>3 DEF Least
<1>5. B(0) = 0 /\ B(n) = count
  BY <1>1, <1>3 DEF Least
<1>6. ASSUME NEW v \in Nat, NEW w \in Nat, v < w
      PROVE  B(v + 1) <= B(w)
  <2>1. v * q + q <= w * q
    BY <1>3, <1>6, Multiples
  <2>2. (v + 1) * q = v * q + q /\ v * q \in Nat /\ w * q \in Nat
    BY <1>3
  <2>3. Least(v + 1, r) <= Least(w, r) /\ Least(v + 1, r) \in Nat /\ Least(w, r) \in Nat
    BY <1>1, <1>3, <1>6 DEF Least
  <2>4. B(v + 1) = (v * q + q) + Least(v + 1, r) /\ B(w) = w * q + Least(w, r)
    BY <2>2
  <2> HIDE DEF B
  <2> QED BY <1>3, <2>1, <2>2, <2>3, <2>4
<1>7. \A w \in Nat : B(w) <= B(w + 1)
  <2> SUFFICES ASSUME NEW w \in Nat PROVE B(w) <= B(w + 1)
    OBVIOUS
  <2>1. (w + 1) * q = w * q + q /\ w * q \in Nat
    BY <1>3
  <2>2. Least(w, r) <= Least(w + 1, r) /\ Least(w + 1, r) \in Nat /\ Least(w, r) \in Nat
    BY <1>1, <1>3 DEF Least
  <2> QED BY <1>3, <2>1, <2>2
<1> HIDE DEF B
<1>8. ASSUME NEW w \in 0 .. n - 1
      PROVE  /\ ranges[w] \in Ranges /\ ranges[w].end <= count
             /\ Span(ranges[w].begin, ranges[w].end, ranges[w].stride)
                  = {i \in Nat : B(w) <= i /\ i < B(w + 1)}
  <2>1. w \in Nat /\ w < n /\ B(w) \in Nat /\ B(w + 1) \in Nat
    BY <1>1, <1>4
  <2>2. B(w + 1) <= count
    BY <1>1, <1>5, <1>6, <2>1
  <2>3. ranges[w] = [begin |-> B(w), end |-> B(w + 1), stride |-> 1]
    BY <1>2
  <2>4. ranges[w].begin = B(w) /\ ranges[w].end = B(w + 1) /\ ranges[w].stride = 1
    BY <2>3
  <2>5. Span(B(w), B(w + 1), 1) = {i \in Nat : B(w) <= i /\ i < B(w + 1)}
    BY <2>1, SpanOne
  <2>6. ranges[w] \in Ranges
    BY <2>1, <2>3 DEF Ranges
  <2> QED BY <2>2, <2>4, <2>5, <2>6
<1>9. ASSUME NEW i \in 0 .. count - 1
      PROVE  \E w \in 0 .. n - 1 : B(w) <= i /\ i < B(w + 1)
  <2> DEFINE S == {w \in Nat : i < B(w + 1)}
  <2>1. n - 1 \in S
    BY <1>1, <1>5
  <2>2. PICK w \in S : \A v \in S : w <= v
    BY <2>1, NatMin
  <2>3. w \in 0 .. n - 1
    BY <1>1, <2>1, <2>2
  <2>4. CASE w = 0
    BY <1>5, <2>2, <2>3, <2>4
  <2>5. CASE w # 0
    <3>1. w - 1 \in Nat /\ w - 1 \notin S
      BY <2>2, <2>3, <2>5
    <3>2. ~ (i < B((w - 1) + 1))
      BY <3>1
    <3>3. (w - 1) + 1 = w
      BY <2>3
    <3>4. B(w) <= i
      BY <1>4, <2>3, <3>2, <3>3
    <3> QED BY <2>2, <2>3, <3>4
  <2> QED BY <2>4, <2>5
<1>10. ASSUME NEW v \in 0 .. n - 1, NEW w \in 0 .. n - 1, v < w,
              NEW i \in Nat, i < B(v + 1), B(w) <= i
       PROVE  FALSE
  BY <1>1, <1>4, <1>6, <1>10
<1>11. ASSUME NEW v \in 0 .. n - 1, NEW w \in 0 .. n - 1, v # w
       PROVE  Span(ranges[v].begin, ranges[v].end, ranges[v].stride)
                \cap Span(ranges[w].begin, ranges[w].end, ranges[w].stride) = {}
  <2> SUFFICES ASSUME NEW i \in Nat, B(v) <= i, i < B(v + 1), B(w) <= i, i < B(w + 1)
               PROVE  FALSE
    BY <1>8
  <2>1. v < w \/ w < v
    BY <1>1, <1>11
  <2> QED BY <2>1, <1>10
<1>12. Divides(ranges, n, count)
  BY <1>8, <1>9, <1>11 DEF Divides
<1> QED BY <1>12 DEF ranges, n

\* dynamic_chunk_count: the chunks cover the batch, and no chunk is empty.
LEMMA ChunksCover ==
  ASSUME NEW count \in Nat, NEW size \in Nat \ {0}, NEW k \in Nat
  PROVE  /\ DynamicChunkCount(count, size) \in 0 .. count
         /\ k * size \in Nat
         /\ k >= DynamicChunkCount(count, size) <=> k * size >= count
PROOF
<1> DEFINE q == count \div size
           r == count % size
<1>1. q \in Nat /\ r \in 0 .. size - 1 /\ count = q * size + r
  BY Quotient
<1>2. DynamicChunkCount(count, size) = q + (IF r = 0 THEN 0 ELSE 1)
  BY DEF DynamicChunkCount
<1> HIDE DEF q, r
<1>3. q * size \in Nat /\ k * size \in Nat
  BY <1>1
<1>4. q <= q * size
  <2>1. CASE q = 0
    BY <2>1, <1>3
  <2>2. CASE q # 0
    <3>1. size - 1 \in Nat /\ q * size = q + q * (size - 1) /\ q * (size - 1) \in Nat
      BY <1>1
    <3> QED BY <1>1, <3>1
  <2> QED BY <2>1, <2>2
<1>5. CASE k < q
  <2>1. k * size + size <= q * size
    BY <1>1, <1>5, Multiples
  <2> QED BY <1>1, <1>2, <1>3, <1>4, <1>5, <2>1
<1>6. CASE q < k
  <2>1. q * size + size <= k * size
    BY <1>1, <1>6, Multiples
  <2> QED BY <1>1, <1>2, <1>3, <1>4, <1>6, <2>1
<1>7. CASE k = q
  BY <1>1, <1>2, <1>3, <1>4, <1>7
<1> QED BY <1>1, <1>5, <1>6, <1>7

\* dynamic_chunk_range of a chunk that is left: from the end of the one before,
\* up to the end of the batch at most.
LEMMA NextChunkRange ==
  ASSUME NEW count \in Nat, NEW size \in Nat \ {0}, NEW k \in Nat, k * size < count
  PROVE  DynamicChunkRange(count, k, size)
           = [begin |-> k * size, end |-> Least(count, (k + 1) * size), stride |-> 1]
PROOF
<1>1. k * size \in Nat /\ (k + 1) * size = k * size + size
  OBVIOUS
<1> DEFINE b == k * size
<1>2. Least(count, b) = b
  BY <1>1 DEF Least
<1>3. b + Least(count - b, size) = Least(count, b + size)
  BY <1>1 DEF Least
<1> QED BY <1>1, <1>2, <1>3 DEF DynamicChunkRange, TrajectoryRange

\* A range of local ids, moved to the ids of its batch.
LEMMA SpanShift ==
  ASSUME NEW f \in Nat, NEW b \in Nat, NEW e \in Nat, NEW s \in Nat, NEW i \in Int
  PROVE  i \in Span(f + b, f + e, s) <=> i - f \in Span(b, e, s)
PROOF
<1>1. \A k \in Nat : k * s \in Nat
  OBVIOUS
<1>2. ASSUME i \in Span(f + b, f + e, s)
      PROVE  i - f \in Span(b, e, s)
  <2>1. PICK k \in Nat : i = (f + b) + k * s
    BY <1>2 DEF Span
  <2>2. i - f = b + k * s /\ i - f \in Nat /\ i - f < e
    BY <1>1, <1>2, <2>1 DEF Span
  <2> QED BY <2>2 DEF Span
<1>3. ASSUME i - f \in Span(b, e, s)
      PROVE  i \in Span(f + b, f + e, s)
  <2>1. PICK k \in Nat : i - f = b + k * s
    BY <1>3 DEF Span
  <2>2. i = (f + b) + k * s /\ i \in Nat /\ i < f + e
    BY <1>1, <1>3, <2>1 DEF Span
  <2> QED BY <2>2 DEF Span
<1> QED BY <1>2, <1>3

-----------------------------------------------------------------------------
(***************************************************************************)
(* What the caller has set up, and what a worker has copied.               *)
(***************************************************************************)
\* The states of the caller from the dispatch of a batch to the end of its merge,
\* and all states of the caller and of a worker.
InBatch == Dispatched \cup {"collecting", "merging", "taking"}

CallerStates == Dispatched \cup {"idle", "prepared", "collecting", "merging", "taking",
                                 "stopping", "joining", "destroyed"}

WorkerStates == AtWork \cup {"ready", "waiting", "last", "returned"}

\* What a batch may be.
Batches == [first : Nat, count : 0 .. MaxCount, workers : 0 .. WorkerCount]

\* What the caller has set up.
CallerInv ==
  /\ mode \in Modes
  /\ mutex \in {"free", "caller"}
  /\ stop \in BOOLEAN /\ active \in BOOLEAN /\ cancelled \in BOOLEAN
  /\ error \in BOOLEAN /\ expired \in BOOLEAN
  /\ generation \in 0 .. MaxBatches
  /\ caller \in CallerStates
  /\ notified \in 0 .. WorkerCount
  /\ batch \in Batches
  /\ context \in Batches
  /\ partition \in [Workers -> Ranges]
  /\ caller = "prepared" => generation < MaxBatches /\ context.first = generation * MaxCount
  /\ caller \in InBatch =>
       generation > 0 /\ context = batch /\ batch.first = (generation - 1) * MaxCount
  /\ caller \in InBatch \cup {"prepared"} =>
       /\ context.workers = BatchCount(context.count, WorkerCount)
       /\ mode # "Dynamic" => Divides(partition, context.workers, context.count)

\* What a worker has copied.
WorkerInv ==
  /\ worker \in [Workers -> WorkerStates]
  /\ job \in [Workers -> Batches]
  /\ range \in [Workers -> Ranges]
  /\ local \in [Workers -> Nat]
  /\ nextChunk \in Nat
  /\ \A w \in Workers :
       /\ worker[w] \in {"throwing", "failed"} => cancelled
       /\ worker[w] = "claiming" => mode = "Dynamic"
       /\ worker[w] = "running" => range[w].end <= batch.count

\* The ids of all the batches.
Ids == 0 .. MaxCount * MaxBatches

\* What a worker scratch may be, and that a batch is prepared with empty streams.
Scratches == [stream : Seq(Ids), attempted : Nat, accepted : Nat, discarded : Nat]

ScratchInv ==
  /\ scratch \in [Workers -> Scratches]
  /\ caller = "prepared" => \A w \in Workers : scratch[w].stream = <<>>

\* The largest batch a caller asks for.
LEMMA MaxCountIsMax ==
  MaxCount \in TrajectoryCounts /\ MaxCount \in Nat /\ \A count \in TrajectoryCounts : count <= MaxCount
PROOF
<1>1. \E n \in TrajectoryCounts : \A m \in TrajectoryCounts : m <= n
  BY RunnerAssumption
<1>2. MaxCount \in TrajectoryCounts /\ \A m \in TrajectoryCounts : m <= MaxCount
  BY <1>1 DEF MaxCount
<1> QED BY <1>2, RunnerAssumption

\* Workers are numbered.
LEMMA WorkersNat == \A w \in Workers : w \in Nat /\ w < WorkerCount
PROOF BY RunnerAssumption DEF Workers

\* A worker at work has the present batch's data, and the caller waits for it.
LEMMA WorkFacts ==
  ASSUME IndInv, NEW w \in Workers, worker[w] \in AtWork
  PROVE  caller \in Dispatched /\ w \in Party /\ observed[w] = generation /\ job[w] = batch
PROOF
  BY DEF IndInv, WorkOfPresentBatch, NobodyAtWorkOutside, ActiveWhileDispatched

\* A runner that was just built.
LEMMA InitCallerInv == ASSUME Init PROVE CallerInv
PROOF
<1>1. NoBatch \in Batches /\ EmptyRange \in Ranges
  BY MaxCountIsMax, RunnerAssumption DEF NoBatch, Batches, EmptyRange, TrajectoryRange, Ranges
<1>2. caller = "idle" /\ caller \in CallerStates /\ caller \notin InBatch
  BY DEF Init, CallerStates, InBatch, Dispatched
<1>3. partition \in [Workers -> Ranges]
  BY <1>1 DEF Init
<1>4. 0 \in 0 .. MaxBatches /\ 0 \in 0 .. WorkerCount
  BY RunnerAssumption
<1> QED
  BY <1>1, <1>2, <1>3, <1>4 DEF Init, CallerInv

\* A static partition divides the batch among the workers that take part.
LEMMA PartitionedDivides ==
  ASSUME CallerInv, NEW count \in TrajectoryCounts
  PROVE  /\ Partitioned(count) \in [Workers -> Ranges]
         /\ mode # "Dynamic" =>
              Divides(Partitioned(count), BatchCount(count, WorkerCount), count)
PROOF
<1> DEFINE n == BatchCount(count, WorkerCount)
<1>1. count \in Nat /\ WorkerCount \in Nat \ {0}
  BY RunnerAssumption
<1>2. n \in 1 .. WorkerCount
  BY <1>1 DEF BatchCount, Least
<1>3. \A w \in 0 .. n - 1 : w \in Workers
  BY <1>1, <1>2 DEF Workers
<1>4. ASSUME NEW blocks, DOMAIN blocks = 0 .. n - 1, Divides(blocks, n, count),
             Partitioned(count) = [w \in Workers |-> IF w \in DOMAIN blocks THEN blocks[w] ELSE partition[w]]
      PROVE  Partitioned(count) \in [Workers -> Ranges] /\ Divides(Partitioned(count), n, count)
  <2> DEFINE P == Partitioned(count)
  <2>1. \A w \in 0 .. n - 1 : P[w] = blocks[w]
    BY <1>3, <1>4
  <2>2. \A w \in Workers : P[w] \in Ranges
    <3> SUFFICES ASSUME NEW w \in Workers PROVE P[w] \in Ranges
      OBVIOUS
    <3>1. CASE w \in 0 .. n - 1
      BY <1>4, <2>1, <3>1 DEF Divides
    <3>2. CASE w \notin 0 .. n - 1
      BY <1>4, <3>2 DEF CallerInv
    <3> QED BY <3>1, <3>2
  <2>3. P \in [Workers -> Ranges]
    <3>1. P = [w \in Workers |-> P[w]]
      BY <1>4
    <3> HIDE DEF P
    <3> QED BY <2>2, <3>1
  <2> HIDE DEF P, n
  <2>4. Divides(P, n, count)
    BY <1>4, <2>1 DEF Divides
  <2> QED BY <2>3, <2>4 DEF P
<1>5. CASE mode = "Fixed"
  <2>1. DOMAIN RoundRobin(count, WorkerCount) = 0 .. n - 1
    BY DEF RoundRobin
  <2>2. Divides(RoundRobin(count, WorkerCount), n, count)
    BY <1>1, RoundRobinDivides
  <2>3. Partitioned(count) = [w \in Workers |->
          IF w \in DOMAIN RoundRobin(count, WorkerCount) THEN RoundRobin(count, WorkerCount)[w] ELSE partition[w]]
    BY <1>5 DEF Partitioned
  <2> HIDE DEF n
  <2>4. Partitioned(count) \in [Workers -> Ranges] /\ Divides(Partitioned(count), n, count)
    BY <1>4, <2>1, <2>2, <2>3
  <2> QED BY <2>4 DEF n
<1>6. CASE mode = "StaticBlock"
  <2>1. DOMAIN StaticBlock(count, WorkerCount) = 0 .. n - 1
    BY DEF StaticBlock
  <2>2. Divides(StaticBlock(count, WorkerCount), n, count)
    BY <1>1, StaticBlockDivides
  <2>3. Partitioned(count) = [w \in Workers |->
          IF w \in DOMAIN StaticBlock(count, WorkerCount) THEN StaticBlock(count, WorkerCount)[w] ELSE partition[w]]
    BY <1>6 DEF Partitioned
  <2> HIDE DEF n
  <2>4. Partitioned(count) \in [Workers -> Ranges] /\ Divides(Partitioned(count), n, count)
    BY <1>4, <2>1, <2>2, <2>3
  <2> QED BY <2>4 DEF n
<1>7. CASE mode = "Dynamic"
  <2>1. Partitioned(count) = [w \in Workers |-> partition[w]]
    BY <1>7 DEF Partitioned
  <2> QED BY <1>7, <2>1 DEF CallerInv
<1> QED BY <1>5, <1>6, <1>7, RunnerAssumption DEF CallerInv

\* The steps that leave the batch and its partition alone.
LEMMA CallerFrame ==
  ASSUME CallerInv,
         UNCHANGED <<mode, generation, batch, context, partition>>,
         mutex' \in {"free", "caller"},
         stop' \in BOOLEAN, active' \in BOOLEAN, cancelled' \in BOOLEAN,
         error' \in BOOLEAN, expired' \in BOOLEAN,
         caller' \in CallerStates,
         caller' = "prepared" => caller = "prepared",
         caller' \in InBatch => caller \in InBatch,
         notified' \in 0 .. WorkerCount
  PROVE  CallerInv'
PROOF
<1>1. batch \in Batches /\ context \in Batches /\ partition \in [Workers -> Ranges]
  BY DEF CallerInv
<1>2. caller' \in InBatch \cup {"prepared"} => caller \in InBatch \cup {"prepared"}
  OBVIOUS
<1> QED BY <1>1, <1>2 DEF CallerInv

\* The steps of the workers leave the caller alone but for a wake-up.
LEMMA WorkerStepKeepsCallerInv ==
  ASSUME CallerInv, NEW w \in Workers,
         LockedStep(w) \/ FreeStep(w) \/ SpuriousWorkerWake(w)
  PROVE  CallerInv'
PROOF
<1>1. /\ UNCHANGED <<mode, mutex, stop, generation, batch, expired, context, notified, partition>>
      /\ active' = active
      /\ caller' = caller \/ (caller = "blocked" /\ caller' = "awaiting")
      /\ (cancelled' = cancelled \/ cancelled' = TRUE) /\ (error' = error \/ error' = TRUE)
  <2>1. CASE LockedStep(w)
    BY <2>1 DEF LockedStep, BlockOnWork, ReturnOnStop, ObserveBatch, RecordError, pool,
       atomics, callerVars
  <2>2. CASE ClaimChunk(w) \/ EndRange(w) \/ CancelRange(w)
    BY <2>2 DEF ClaimChunk, EndRange, CancelRange, pool, atomics, callerVars
  <2>3. CASE TrajectoryThrows(w) \/ Complete(w) \/ NotifyCompletion(w)
    BY <2>3 DEF TrajectoryThrows, Complete, NotifyCompletion, pool, atomics, callerVars
  <2>4. CASE \E accepted \in BOOLEAN : RunTrajectory(w, accepted)
    BY <2>4 DEF RunTrajectory, pool, atomics, callerVars
  <2>5. CASE SpuriousWorkerWake(w)
    BY <2>5 DEF SpuriousWorkerWake, pool, atomics, callerVars
  <2> QED BY <2>1, <2>2, <2>3, <2>4, <2>5 DEF FreeStep
<1>2. caller' \in CallerStates /\ (caller' \in InBatch => caller \in InBatch)
      /\ (caller' = "prepared" => caller = "prepared")
  BY <1>1 DEF CallerInv, CallerStates, InBatch, Dispatched
<1>3. /\ mutex' \in {"free", "caller"} /\ notified' \in 0 .. WorkerCount
      /\ stop' \in BOOLEAN /\ active' \in BOOLEAN /\ cancelled' \in BOOLEAN
      /\ error' \in BOOLEAN /\ expired' \in BOOLEAN
  BY <1>1 DEF CallerInv
<1> QED BY <1>1, <1>2, <1>3, CallerFrame

\* What the environment does.
LEMMA EnvironmentKeepsCallerInv ==
  ASSUME CallerInv, DeadlinePasses \/ SpuriousCallerWake \/ UNCHANGED vars
  PROVE  CallerInv'
PROOF
<1>1. /\ UNCHANGED <<mode, mutex, stop, active, generation, batch, cancelled, error, context,
                     notified, partition>>
      /\ caller' = caller \/ (caller = "blocked" /\ caller' = "awaiting")
      /\ (expired' = expired \/ expired' = TRUE)
  BY DEF DeadlinePasses, SpuriousCallerWake, vars, pool, atomics, callerVars
<1>2. caller' \in CallerStates /\ (caller' \in InBatch => caller \in InBatch)
      /\ (caller' = "prepared" => caller = "prepared")
  BY <1>1 DEF CallerInv, CallerStates, InBatch, Dispatched
<1>3. /\ mutex' \in {"free", "caller"} /\ notified' \in 0 .. WorkerCount
      /\ stop' \in BOOLEAN /\ active' \in BOOLEAN /\ cancelled' \in BOOLEAN
      /\ error' \in BOOLEAN /\ expired' \in BOOLEAN
  BY <1>1 DEF CallerInv
<1> QED BY <1>1, <1>2, <1>3, CallerFrame

\* The caller's steps.
LEMMA CallerKeepsCallerInv ==
  ASSUME CallerInv, Run \/ Destroy \/ CallerStep
  PROVE  CallerInv'
PROOF
<1>1. ASSUME NEW count \in TrajectoryCounts, PrepareBatchRun(count)
      PROVE  CallerInv'
  <2>1. /\ caller = "idle" /\ generation < MaxBatches
        /\ context' = Batch(generation * MaxCount, count)
        /\ partition' = Partitioned(count)
        /\ caller' = "prepared"
        /\ UNCHANGED <<mode, mutex, stop, active, generation, batch, cancelled, error, expired, notified>>
    BY <1>1 DEF PrepareBatchRun, pool, atomics
  <2>2. count \in 0 .. MaxCount
    BY MaxCountIsMax, RunnerAssumption
  <2>3. generation * MaxCount \in Nat
    BY MaxCountIsMax, RunnerAssumption DEF CallerInv
  <2>4. /\ context' \in Batches
        /\ context'.first = generation * MaxCount /\ context'.count = count
        /\ context'.workers = BatchCount(count, WorkerCount)
    <3>1. BatchCount(count, WorkerCount) \in 0 .. WorkerCount
      BY <2>2, RunnerAssumption DEF BatchCount, Least
    <3>2. context' = [first |-> generation * MaxCount, count |-> count,
                      workers |-> BatchCount(count, WorkerCount)]
      BY <2>1 DEF Batch
    <3> QED BY <2>2, <2>3, <3>1, <3>2 DEF Batches
  <2>5. partition' \in [Workers -> Ranges]
        /\ (mode # "Dynamic" => Divides(partition', context'.workers, context'.count))
    BY <2>1, <2>4, PartitionedDivides
  <2>6. caller' \in CallerStates /\ caller' \notin InBatch
    BY <2>1 DEF CallerStates, InBatch, Dispatched
  <2>7. generation' < MaxBatches /\ context'.first = generation' * MaxCount
    BY <2>1, <2>4
  <2>8. context'.workers = BatchCount(context'.count, WorkerCount)
    BY <2>4
  <2>9. mode' # "Dynamic" => Divides(partition', context'.workers, context'.count)
    BY <2>1, <2>5
  <2>10. /\ mode' \in Modes /\ mutex' \in {"free", "caller"}
         /\ stop' \in BOOLEAN /\ active' \in BOOLEAN /\ cancelled' \in BOOLEAN
         /\ error' \in BOOLEAN /\ expired' \in BOOLEAN
         /\ generation' \in 0 .. MaxBatches /\ notified' \in 0 .. WorkerCount
         /\ batch' \in Batches
    BY <2>1 DEF CallerInv
  <2> QED BY <2>4, <2>5, <2>6, <2>7, <2>8, <2>9, <2>10 DEF CallerInv
<1>2. CASE DispatchBatch
  <2>1. /\ caller = "prepared" /\ caller' = "notifying"
        /\ active' = TRUE /\ generation' = generation + 1
        /\ batch' = context /\ cancelled' = FALSE /\ error' = FALSE
        /\ UNCHANGED <<mode, mutex, stop, expired, context, notified, partition>>
    BY <1>2 DEF DispatchBatch
  <2>2. /\ generation \in 0 .. MaxBatches /\ generation < MaxBatches
        /\ context.first = generation * MaxCount
        /\ context.workers = BatchCount(context.count, WorkerCount)
        /\ mode # "Dynamic" => Divides(partition, context.workers, context.count)
    BY <2>1 DEF CallerInv
  <2>3. generation' \in 0 .. MaxBatches /\ generation' > 0 /\ generation' - 1 = generation
    BY <2>1, <2>2, RunnerAssumption
  <2>4. batch'.first = (generation' - 1) * MaxCount
    BY <2>1, <2>2, <2>3
  <2>5. caller' \in CallerStates /\ caller' # "prepared"
    BY <2>1 DEF CallerStates, Dispatched
  <2>6. /\ mode' \in Modes /\ mutex' \in {"free", "caller"}
        /\ stop' \in BOOLEAN /\ active' \in BOOLEAN /\ cancelled' \in BOOLEAN
        /\ error' \in BOOLEAN /\ expired' \in BOOLEAN
        /\ notified' \in 0 .. WorkerCount
        /\ batch' \in Batches /\ context' \in Batches /\ partition' \in [Workers -> Ranges]
    BY <2>1 DEF CallerInv
  <2>7. context' = batch' /\ context'.workers = BatchCount(context'.count, WorkerCount)
        /\ (mode' # "Dynamic" => Divides(partition', context'.workers, context'.count))
    BY <2>1, <2>2
  <2> QED BY <2>3, <2>4, <2>5, <2>6, <2>7 DEF CallerInv
<1>3. CASE NotifyWorker \/ NotifyStop
  <2>1. context.workers \in 0 .. WorkerCount /\ notified \in 0 .. WorkerCount
    BY DEF CallerInv, Batches
  <2>2. notified' \in 0 .. WorkerCount
    BY <1>3, <2>1, RunnerAssumption DEF NotifyWorker, NotifyStop
  <2>3. /\ UNCHANGED <<mode, mutex, stop, active, generation, batch, cancelled, error, expired,
                       context, partition>>
        /\ \/ caller = "notifying" /\ caller' \in {"notifying", "awaiting"}
           \/ caller = "stopping" /\ caller' \in {"stopping", "joining"}
    BY <1>3 DEF NotifyWorker, NotifyStop, pool, atomics
  <2>4. caller' \in CallerStates /\ (caller' \in InBatch => caller \in InBatch)
        /\ (caller' = "prepared" => caller = "prepared")
    BY <2>3 DEF CallerStates, InBatch, Dispatched
  <2>5. /\ mutex' \in {"free", "caller"}
        /\ stop' \in BOOLEAN /\ active' \in BOOLEAN /\ cancelled' \in BOOLEAN
        /\ error' \in BOOLEAN /\ expired' \in BOOLEAN
    BY <2>3 DEF CallerInv
  <2> QED BY <2>2, <2>3, <2>4, <2>5, CallerFrame
<1>4. CASE TestCompletion \/ BlockOnCompletion \/ LeaveWait \/ AssembleWorkerResult \/ AdmissionThrows
           \/ MergeBatchDeltas \/ EndMerge \/ Join \/ Destroy \/ \E w \in Workers : TakeDelta(w)
  <2>1. /\ UNCHANGED <<mode, generation, batch, cancelled, error, context, notified, partition>>
        /\ mutex' \in {mutex, "free", "caller"}
        /\ (stop' = stop \/ stop' = TRUE) /\ (active' = active \/ active' = FALSE) /\ (expired' = expired \/ expired' = FALSE)
    BY <1>4 DEF TestCompletion, BlockOnCompletion, LeaveWait, AssembleWorkerResult,
       AdmissionThrows, MergeBatchDeltas, EndMerge, Join, Destroy, TakeDelta, pool, atomics, callerVars
  <2>2. \/ caller \in InBatch /\ caller' \in {"blocking", "blocked", "collecting", "merging", "taking", "idle"}
        \/ caller' \in {"destroyed", "stopping"}
    BY <1>4 DEF TestCompletion, BlockOnCompletion, LeaveWait, AssembleWorkerResult,
       AdmissionThrows, MergeBatchDeltas, EndMerge, Join, Destroy, TakeDelta, callerVars,
       InBatch, Dispatched
  <2>3. caller' \in CallerStates /\ (caller' \in InBatch => caller \in InBatch)
        /\ (caller' = "prepared" => caller = "prepared")
    BY <2>2 DEF CallerStates, InBatch, Dispatched
  <2>4. /\ mutex' \in {"free", "caller"} /\ notified' \in 0 .. WorkerCount
        /\ stop' \in BOOLEAN /\ active' \in BOOLEAN /\ cancelled' \in BOOLEAN
        /\ error' \in BOOLEAN /\ expired' \in BOOLEAN
    BY <2>1 DEF CallerInv
  <2> QED BY <2>1, <2>3, <2>4, CallerFrame
<1> QED BY <1>1, <1>2, <1>3, <1>4 DEF Run, CallerStep

\* A runner that was just built.
LEMMA InitWorkerInv == ASSUME Init PROVE WorkerInv
PROOF
<1>1. NoBatch \in Batches /\ EmptyRange \in Ranges
  BY MaxCountIsMax, RunnerAssumption DEF NoBatch, Batches, EmptyRange, TrajectoryRange, Ranges
<1>2. \A w \in Workers : worker[w] = "ready"
  BY DEF Init
<1>3. worker \in [Workers -> WorkerStates]
  BY DEF Init, WorkerStates
<1>4. job \in [Workers -> Batches] /\ range \in [Workers -> Ranges] /\ local \in [Workers -> Nat]
  BY <1>1 DEF Init
<1> QED BY <1>2, <1>3, <1>4 DEF Init, WorkerInv

\* Waking a worker that waits.
LEMMA WakeType ==
  ASSUME WorkerInv, NEW v, Wake(v)
  PROVE  /\ worker' \in [Workers -> WorkerStates]
         /\ \A w \in Workers : worker'[w] = worker[w] \/ worker'[w] = "ready"
PROOF
<1>1. worker \in [Workers -> WorkerStates] /\ "ready" \in WorkerStates
  BY DEF WorkerInv, WorkerStates
<1> QED BY <1>1 DEF Wake

\* The steps that move no worker to new work.
LEMMA WorkerFrame ==
  ASSUME WorkerInv,
         UNCHANGED <<mode, job, range, local, nextChunk>>,
         worker' \in [Workers -> WorkerStates],
         \A w \in Workers : worker'[w] = worker[w] \/ worker'[w] \in {"ready", "waiting", "returned"},
         cancelled => cancelled',
         batch' = batch
  PROVE  WorkerInv'
PROOF
<1>1. /\ job' \in [Workers -> Batches] /\ range' \in [Workers -> Ranges]
      /\ local' \in [Workers -> Nat] /\ nextChunk' \in Nat
  BY DEF WorkerInv
<1>2. ASSUME NEW w \in Workers
      PROVE  /\ worker'[w] \in {"throwing", "failed"} => cancelled'
             /\ worker'[w] = "claiming" => mode' = "Dynamic"
             /\ worker'[w] = "running" => range'[w].end <= batch'.count
  <2>1. /\ worker[w] \in {"throwing", "failed"} => cancelled
        /\ worker[w] = "claiming" => mode = "Dynamic"
        /\ worker[w] = "running" => range[w].end <= batch.count
    BY DEF WorkerInv
  <2> QED BY <2>1
<1> QED BY <1>1, <1>2 DEF WorkerInv

\* The caller's steps.
LEMMA CallerKeepsWorkerInv ==
  ASSUME WorkerInv, IndInv, Run \/ Destroy \/ CallerStep
  PROVE  WorkerInv'
PROOF
<1>1. CASE Run
  <2>1. UNCHANGED <<mode, job, range, local, nextChunk, worker, cancelled, batch>>
    BY <1>1 DEF Run, PrepareBatchRun, pool, atomics, workerVars
  <2> QED BY <2>1, WorkerFrame DEF WorkerInv
<1>2. CASE DispatchBatch
  <2>1. /\ nextChunk' = 0 /\ ~ active
        /\ UNCHANGED <<mode, worker, job, range, local>>
    BY <1>2 DEF DispatchBatch, workerVars
  <2>2. \A w \in Workers : worker'[w] \notin {"throwing", "failed", "claiming", "running"}
    BY <2>1 DEF IndInv, NobodyAtWorkOutside, AtWork
  <2> QED BY <2>1, <2>2 DEF WorkerInv
<1>3. CASE NotifyWorker \/ NotifyStop
  <2>1. UNCHANGED <<mode, job, range, local, nextChunk, cancelled, batch>>
    BY <1>3 DEF NotifyWorker, NotifyStop, pool, atomics
  <2>2. Wake(notified) \/ worker' = worker
    BY <1>3 DEF NotifyWorker, NotifyStop
  <2>3. worker' \in [Workers -> WorkerStates]
        /\ \A w \in Workers : worker'[w] = worker[w] \/ worker'[w] = "ready"
    BY <2>2, WakeType DEF WorkerInv
  <2> QED BY <2>1, <2>3, WorkerFrame
<1>4. CASE TestCompletion \/ BlockOnCompletion \/ LeaveWait \/ AssembleWorkerResult \/ AdmissionThrows
           \/ MergeBatchDeltas \/ EndMerge \/ Join \/ Destroy \/ \E w \in Workers : TakeDelta(w)
  <2>1. UNCHANGED <<mode, job, range, local, nextChunk, worker, cancelled, batch>>
    BY <1>4 DEF TestCompletion, BlockOnCompletion, LeaveWait, AssembleWorkerResult,
       AdmissionThrows, MergeBatchDeltas, EndMerge, Join, Destroy, TakeDelta, pool, atomics, workerVars
  <2> QED BY <2>1, WorkerFrame DEF WorkerInv
<1> QED BY <1>1, <1>2, <1>3, <1>4 DEF CallerStep

\* What the environment does.
LEMMA EnvironmentKeepsWorkerInv ==
  ASSUME WorkerInv,
         DeadlinePasses \/ SpuriousCallerWake \/ UNCHANGED vars \/ \E w \in Workers : SpuriousWorkerWake(w)
  PROVE  WorkerInv'
PROOF
<1>1. CASE DeadlinePasses \/ SpuriousCallerWake \/ UNCHANGED vars
  <2>1. UNCHANGED <<mode, job, range, local, nextChunk, worker, cancelled, batch>>
    BY <1>1 DEF DeadlinePasses, SpuriousCallerWake, vars, pool, atomics, workerVars
  <2> QED BY <2>1, WorkerFrame DEF WorkerInv
<1>2. ASSUME NEW w \in Workers, SpuriousWorkerWake(w)
      PROVE  WorkerInv'
  <2>1. Wake(w) /\ UNCHANGED <<mode, job, range, local, nextChunk, cancelled, batch>>
    BY <1>2 DEF SpuriousWorkerWake, pool, atomics
  <2> QED BY <2>1, WakeType, WorkerFrame
<1> QED BY <1>1, <1>2

\* The step of a worker that moves no other: what it must leave behind.
LEMMA OneWorker ==
  ASSUME WorkerInv, NEW w \in Workers,
         worker' \in [Workers -> WorkerStates], job' \in [Workers -> Batches],
         range' \in [Workers -> Ranges], local' \in [Workers -> Nat], nextChunk' \in Nat,
         \A v \in Workers \ {w} : worker'[v] = worker[v] /\ range'[v] = range[v],
         mode' = mode, batch' = batch, cancelled => cancelled',
         worker'[w] \in {"throwing", "failed"} => cancelled',
         worker'[w] = "claiming" => mode = "Dynamic",
         worker'[w] = "running" => range'[w].end <= batch.count
  PROVE  WorkerInv'
PROOF
<1>1. ASSUME NEW v \in Workers, v # w
      PROVE  /\ worker'[v] \in {"throwing", "failed"} => cancelled'
             /\ worker'[v] = "claiming" => mode' = "Dynamic"
             /\ worker'[v] = "running" => range'[v].end <= batch'.count
  <2>1. /\ worker[v] \in {"throwing", "failed"} => cancelled
        /\ worker[v] = "claiming" => mode = "Dynamic"
        /\ worker[v] = "running" => range[v].end <= batch.count
    BY DEF WorkerInv
  <2>2. worker'[v] = worker[v] /\ range'[v] = range[v]
    BY <1>1
  <2> QED BY <2>1, <2>2
<1> QED BY <1>1 DEF WorkerInv

\* The workers' steps.
LEMMA WorkerKeepsWorkerInv ==
  ASSUME WorkerInv, CallerInv, IndInv, NEW w \in Workers, LockedStep(w) \/ FreeStep(w)
  PROVE  WorkerInv'
PROOF
<1>0. /\ worker \in [Workers -> WorkerStates] /\ job \in [Workers -> Batches]
      /\ range \in [Workers -> Ranges] /\ local \in [Workers -> Nat] /\ nextChunk \in Nat
      /\ batch \in Batches /\ NoBatch \in Batches /\ EmptyRange \in Ranges
      /\ partition \in [Workers -> Ranges]
  BY MaxCountIsMax, RunnerAssumption DEF WorkerInv, CallerInv, NoBatch, Batches, EmptyRange,
     TrajectoryRange, Ranges
<1>1. CASE BlockOnWork(w) \/ ReturnOnStop(w)
  <2>1. /\ worker' = [worker EXCEPT ![w] = "waiting"] \/ worker' = [worker EXCEPT ![w] = "returned"]
        /\ UNCHANGED <<mode, job, range, local, nextChunk, cancelled, batch>>
    BY <1>1 DEF BlockOnWork, ReturnOnStop, pool, atomics
  <2>2. worker' \in [Workers -> WorkerStates]
        /\ \A v \in Workers : worker'[v] = worker[v] \/ worker'[v] \in {"ready", "waiting", "returned"}
    BY <1>0, <2>1 DEF WorkerStates
  <2> QED BY <2>1, <2>2, WorkerFrame
<1>2. CASE ObserveBatch(w)
  <2>1. active /\ UNCHANGED <<mode, nextChunk, cancelled, batch, partition, context>>
    BY <1>2 DEF ObserveBatch, WorkReady, pool, atomics, callerVars
  <2>2. CASE w < batch.workers
    <3>1. /\ job' = [job EXCEPT ![w] = batch]
          /\ range' = [range EXCEPT ![w] = partition[w]]
          /\ local' = [local EXCEPT ![w] = partition[w].begin]
          /\ worker' = [worker EXCEPT ![w] = IF mode = "Dynamic" THEN "claiming" ELSE "running"]
      BY <1>2, <2>2 DEF ObserveBatch, StartBatch
    <3>2. partition[w] \in Ranges /\ partition[w].begin \in Nat
      BY <1>0 DEF Ranges
    <3>3. mode # "Dynamic" => partition[w].end <= batch.count
      <4>1. caller \in InBatch
        BY <2>1 DEF IndInv, ActiveWhileDispatched, InBatch
      <4>2. mode # "Dynamic" => Divides(partition, batch.workers, batch.count)
        BY <4>1 DEF CallerInv
      <4>3. w \in 0 .. batch.workers - 1
        BY <2>2, <1>0, WorkersNat DEF Batches
      <4> QED BY <4>2, <4>3 DEF Divides
    <3>4. worker' \in [Workers -> WorkerStates]
      BY <1>0, <3>1 DEF WorkerStates, AtWork
    <3>5. /\ job' \in [Workers -> Batches] /\ range' \in [Workers -> Ranges]
          /\ local' \in [Workers -> Nat] /\ nextChunk' \in Nat
      BY <1>0, <2>1, <3>1, <3>2
    <3>6. \A v \in Workers \ {w} : worker'[v] = worker[v] /\ range'[v] = range[v]
      BY <1>0, <3>1
    <3>7. /\ worker'[w] = IF mode = "Dynamic" THEN "claiming" ELSE "running"
          /\ range'[w] = partition[w]
      BY <1>0, <3>1
    <3> QED BY <2>1, <3>3, <3>4, <3>5, <3>6, <3>7, OneWorker
  <2>3. CASE ~ (w < batch.workers)
    <3>1. UNCHANGED <<worker, job, range, local>>
      BY <1>2, <2>3 DEF ObserveBatch
    <3> QED BY <2>1, <3>1, WorkerFrame DEF WorkerInv
  <2> QED BY <2>2, <2>3
<1>3. CASE RecordError(w)
  <2>1. /\ worker[w] = "throwing"
        /\ worker' = [worker EXCEPT ![w] = "failed"]
        /\ UNCHANGED <<mode, job, range, local, nextChunk, cancelled, batch>>
    BY <1>3 DEF RecordError, pool, atomics
  <2>2. worker' \in [Workers -> WorkerStates] /\ worker'[w] = "failed"
        /\ \A v \in Workers \ {w} : worker'[v] = worker[v]
    BY <1>0, <2>1 DEF WorkerStates, AtWork
  <2>3. cancelled
    BY <2>1 DEF WorkerInv
  <2> QED BY <1>0, <2>1, <2>2, <2>3, OneWorker
<1>4. CASE ClaimChunk(w)
  <2>1. /\ worker[w] = "claiming"
        /\ UNCHANGED <<mode, job, cancelled, batch>>
    BY <1>4 DEF ClaimChunk, pool
  <2>2. job[w] = batch /\ batch.count \in Nat
    BY <1>0, <2>1, WorkFacts DEF AtWork, Batches
  <2>3. CASE /\ worker' = [worker EXCEPT ![w] = "sorting"]
             /\ nextChunk' \in {nextChunk, nextChunk + 1} /\ UNCHANGED <<range, local>>
    <3>1. worker' \in [Workers -> WorkerStates] /\ worker'[w] = "sorting"
          /\ \A v \in Workers \ {w} : worker'[v] = worker[v]
      BY <1>0, <2>3 DEF WorkerStates, AtWork
    <3>2. nextChunk' \in Nat
      BY <1>0, <2>3
    <3> QED BY <1>0, <2>1, <2>3, <3>1, <3>2, OneWorker
  <2>4. ASSUME nextChunk < DynamicChunkCount(batch.count, ChunkSize),
               nextChunk' = nextChunk + 1,
               worker' = [worker EXCEPT ![w] = "running"],
               NEW r, r = DynamicChunkRange(batch.count, nextChunk, ChunkSize),
               range' = [range EXCEPT ![w] = r],
               local' = [local EXCEPT ![w] = r.begin]
        PROVE  WorkerInv'
    <3> DEFINE k == nextChunk
               count == batch.count
    <3>2. count \in Nat /\ k \in Nat /\ ChunkSize \in Nat \ {0}
      BY <1>0, <2>2, RunnerAssumption
    <3>3. k * ChunkSize \in Nat /\ k * ChunkSize < count
      <4>1. DynamicChunkCount(count, ChunkSize) \in 0 .. count
        BY <3>2, ChunksCover
      <4>2. k * ChunkSize \in Nat
            /\ (k >= DynamicChunkCount(count, ChunkSize) <=> k * ChunkSize >= count)
        BY <3>2, ChunksCover
      <4> QED BY <2>4, <3>2, <4>1, <4>2
    <3>4. r = [begin |-> k * ChunkSize, end |-> Least(count, (k + 1) * ChunkSize), stride |-> 1]
      BY <2>4, <3>2, <3>3, NextChunkRange
    <3>5. (k + 1) * ChunkSize \in Nat
      BY <3>2
    <3>6. Least(count, (k + 1) * ChunkSize) \in Nat /\ Least(count, (k + 1) * ChunkSize) <= count
      BY <3>2, <3>5 DEF Least
    <3>7. r \in Ranges /\ r.begin \in Nat /\ r.end <= count
      BY <3>3, <3>4, <3>6 DEF Ranges
    <3>8. worker' \in [Workers -> WorkerStates] /\ worker'[w] = "running"
          /\ \A v \in Workers \ {w} : worker'[v] = worker[v]
      BY <1>0, <2>4 DEF WorkerStates, AtWork
    <3>9. range' \in [Workers -> Ranges] /\ range'[w] = r
          /\ \A v \in Workers \ {w} : range'[v] = range[v]
      BY <1>0, <2>4, <3>7
    <3>10. local' \in [Workers -> Nat] /\ nextChunk' \in Nat
      BY <1>0, <2>4, <3>7
    <3> QED BY <1>0, <2>1, <3>7, <3>8, <3>9, <3>10, OneWorker
  <2>5. DynamicChunkCount(batch.count, ChunkSize) \in Nat
    BY <2>2, ChunksCover, RunnerAssumption
  <2> QED BY <1>0, <1>4, <2>2, <2>3, <2>4, <2>5 DEF ClaimChunk
<1>5. CASE EndRange(w) \/ CancelRange(w)
  <2>1. /\ worker[w] = "running"
        /\ worker' = [worker EXCEPT ![w] = IF mode = "Dynamic" THEN "claiming" ELSE "sorting"]
        /\ UNCHANGED <<mode, job, range, local, nextChunk, batch>>
        /\ cancelled => cancelled'
    BY <1>5 DEF EndRange, CancelRange, AfterRange, pool, atomics
  <2>2. worker' \in [Workers -> WorkerStates]
        /\ worker'[w] = (IF mode = "Dynamic" THEN "claiming" ELSE "sorting")
        /\ \A v \in Workers \ {w} : worker'[v] = worker[v]
    BY <1>0, <2>1 DEF WorkerStates, AtWork
  <2> QED BY <1>0, <2>1, <2>2, OneWorker
<1>6. CASE \E accepted \in BOOLEAN : RunTrajectory(w, accepted)
  <2>1. /\ worker[w] = "running"
        /\ local' = [local EXCEPT ![w] = local[w] + range[w].stride]
        /\ UNCHANGED <<mode, job, range, nextChunk, batch, worker, cancelled>>
    BY <1>6 DEF RunTrajectory, pool, atomics
  <2>2. local' \in [Workers -> Nat]
    BY <1>0, <2>1 DEF Ranges
  <2>3. range[w].end <= batch.count
    BY <2>1 DEF WorkerInv
  <2> QED BY <1>0, <2>1, <2>2, <2>3, OneWorker
<1>7. CASE TrajectoryThrows(w)
  <2>1. /\ worker' = [worker EXCEPT ![w] = "throwing"] /\ cancelled'
        /\ UNCHANGED <<mode, job, range, local, nextChunk, batch>>
    BY <1>7 DEF TrajectoryThrows, pool, atomics
  <2>2. worker' \in [Workers -> WorkerStates] /\ worker'[w] = "throwing"
        /\ \A v \in Workers \ {w} : worker'[v] = worker[v]
    BY <1>0, <2>1 DEF WorkerStates, AtWork
  <2> QED BY <1>0, <2>1, <2>2, OneWorker
<1>8. CASE Complete(w)
  <2>1. /\ \E s \in {"last", "ready"} : worker' = [worker EXCEPT ![w] = s]
        /\ job' = [job EXCEPT ![w] = NoBatch]
        /\ range' = [range EXCEPT ![w] = EmptyRange]
        /\ local' = [local EXCEPT ![w] = 0]
        /\ UNCHANGED <<mode, nextChunk, batch, cancelled>>
    BY <1>8 DEF Complete, pool, atomics
  <2>2. worker' \in [Workers -> WorkerStates] /\ worker'[w] \in {"last", "ready"}
        /\ \A v \in Workers \ {w} : worker'[v] = worker[v] /\ range'[v] = range[v]
    BY <1>0, <2>1 DEF WorkerStates
  <2>3. job' \in [Workers -> Batches] /\ range' \in [Workers -> Ranges] /\ local' \in [Workers -> Nat]
    BY <1>0, <2>1
  <2> QED BY <1>0, <2>1, <2>2, <2>3, OneWorker
<1>9. CASE NotifyCompletion(w)
  <2>1. /\ worker' = [worker EXCEPT ![w] = "ready"]
        /\ UNCHANGED <<mode, job, range, local, nextChunk, batch, cancelled>>
    BY <1>9 DEF NotifyCompletion, pool, atomics
  <2>2. worker' \in [Workers -> WorkerStates]
        /\ \A v \in Workers : worker'[v] = worker[v] \/ worker'[v] \in {"ready", "waiting", "returned"}
    BY <1>0, <2>1 DEF WorkerStates
  <2> QED BY <2>1, <2>2, WorkerFrame
<1> QED BY <1>1, <1>2, <1>3, <1>4, <1>5, <1>6, <1>7, <1>8, <1>9 DEF LockedStep, FreeStep

-----------------------------------------------------------------------------
(***************************************************************************)
(* Streams: what sorting keeps, and which ids a worker appends.            *)
(***************************************************************************)
\* A sequence without repetition, and the elements of a sequence.
Distinct(s) == \A j, k \in DOMAIN s : j # k => s[j] # s[k]

Elements(s) == {s[k] : k \in DOMAIN s}

\* sort_fixed_order keeps the deltas.
LEMMA SortedFacts ==
  ASSUME NEW S, NEW s \in Seq(S), NEW t \in Sorted(s)
  PROVE  /\ t \in Seq(S)
         /\ IsFixedOrder(t)
         /\ Elements(t) = Elements(s)
         /\ Distinct(s) => Distinct(t)
PROOF
<1>1. PICK p \in Bijection(DOMAIN s, DOMAIN s) : t = [i \in DOMAIN s |-> s[p[i]]]
  BY DEF Sorted
<1>2. IsFixedOrder(t)
  BY DEF Sorted
<1>3. /\ p \in [DOMAIN s -> DOMAIN s]
      /\ \A i, j \in DOMAIN s : p[i] = p[j] => i = j
      /\ \A j \in DOMAIN s : \E i \in DOMAIN s : p[i] = j
  BY <1>1 DEF Bijection, Injection, Surjection, IsInjective
<1>4. DOMAIN s = 1 .. Len(s) /\ Len(s) \in Nat /\ \A i \in DOMAIN s : s[i] \in S
  OBVIOUS
<1>5. t \in Seq(S)
  BY <1>1, <1>3, <1>4
<1>6. DOMAIN t = DOMAIN s /\ \A i \in DOMAIN s : t[i] = s[p[i]]
  BY <1>1
<1>7. Elements(t) = Elements(s)
  BY <1>3, <1>6 DEF Elements
<1>8. Distinct(s) => Distinct(t)
  BY <1>3, <1>6 DEF Distinct
<1> QED BY <1>2, <1>5, <1>7, <1>8

\* The ids of a batch lie in its own stretch.
LEMMA IdBound ==
  ASSUME CallerInv, WorkerInv, IndInv, NEW w \in Workers, worker[w] = "running",
         local[w] < range[w].end
  PROVE  /\ TrajectoryId(w) = batch.first + local[w]
         /\ TrajectoryId(w) \in Ids
PROOF
<1>1. job[w] = batch /\ caller \in InBatch
  BY WorkFacts DEF AtWork, InBatch
<1>2. /\ generation \in 0 .. MaxBatches /\ generation > 0
      /\ batch.first = (generation - 1) * MaxCount
      /\ batch.count \in 0 .. MaxCount
  BY <1>1 DEF CallerInv, Batches
<1>3. local[w] \in Nat /\ local[w] < MaxCount
  <2>1. local[w] \in Nat /\ range[w] \in Ranges /\ range[w].end <= batch.count
    BY DEF WorkerInv
  <2>2. range[w].end \in Nat /\ batch.count \in Nat /\ batch.count <= MaxCount
    BY <1>2, <2>1, MaxCountIsMax DEF Ranges
  <2> QED BY <2>1, <2>2, MaxCountIsMax
<1>4. TrajectoryId(w) = batch.first + local[w]
  BY <1>1 DEF TrajectoryId
<1> DEFINE g == generation - 1
<1>5. g \in Nat /\ g < MaxBatches
  BY <1>2, RunnerAssumption
<1>6. g * MaxCount + MaxCount <= MaxBatches * MaxCount
  BY <1>5, MaxCountIsMax, RunnerAssumption, Multiples
<1>7. MaxBatches * MaxCount = MaxCount * MaxBatches /\ MaxCount * MaxBatches \in Nat
      /\ g * MaxCount \in Nat
  BY <1>5, MaxCountIsMax, RunnerAssumption
<1>8. batch.first = g * MaxCount
  BY <1>2
<1> HIDE DEF g
<1>9. batch.first + local[w] \in Ids
  BY <1>3, <1>6, <1>7, <1>8, MaxCountIsMax DEF Ids
<1> QED BY <1>4, <1>9

\* A scratch with another stream.
LEMMA SetStream ==
  ASSUME NEW r \in Scratches, NEW t
  PROVE  [r EXCEPT !.stream = t] = [stream |-> t, attempted |-> r.attempted,
                                    accepted |-> r.accepted, discarded |-> r.discarded]
PROOF BY DEF Scratches

\* A runner that was just built.
LEMMA InitScratchInv == ASSUME Init PROVE ScratchInv
PROOF
<1>1. EmptyScratch \in Scratches
  BY DEF EmptyScratch, Scratches
<1> QED BY <1>1 DEF Init, ScratchInv

\* Every step keeps the types of the scratch.
LEMMA StepKeepsScratchInv ==
  ASSUME ScratchInv, CallerInv, WorkerInv, IndInv, [Next]_vars
  PROVE  ScratchInv'
PROOF
<1>1. ASSUME NEW w \in Workers, NEW s \in Scratches, scratch' = [scratch EXCEPT ![w] = s],
             worker[w] \in AtWork, caller' = caller
      PROVE  ScratchInv'
  <2>1. caller' # "prepared"
    BY <1>1, WorkFacts DEF Dispatched
  <2> QED BY <1>1, <2>1 DEF ScratchInv
<1>2. CASE UNCHANGED scratch /\ (caller' = "prepared" => caller = "prepared")
  BY <1>2 DEF ScratchInv
<1>3. ASSUME NEW count \in TrajectoryCounts, PrepareBatchRun(count)
      PROVE  ScratchInv'
  <2>1. scratch' = [w \in Workers |-> EmptyScratch]
    BY <1>3 DEF PrepareBatchRun
  <2>2. EmptyScratch \in Scratches /\ EmptyScratch.stream = <<>>
    BY DEF EmptyScratch, Scratches
  <2> QED BY <2>1, <2>2 DEF ScratchInv
<1>4. ASSUME NEW w \in Workers, NEW accepted \in BOOLEAN, RunTrajectory(w, accepted)
      PROVE  ScratchInv'
  <2>1. worker[w] = "running" /\ local[w] < range[w].end /\ caller' = caller
    BY <1>4 DEF RunTrajectory, callerVars
  <2>2. TrajectoryId(w) \in Ids
    BY <2>1, IdBound
  <2>3. scratch[w] \in Scratches
    BY DEF ScratchInv
  <2> DEFINE s == [stream |-> IF accepted THEN Append(scratch[w].stream, TrajectoryId(w)) ELSE scratch[w].stream,
        attempted |-> scratch[w].attempted + 1,
        accepted |-> IF accepted THEN scratch[w].accepted + 1 ELSE scratch[w].accepted,
        discarded |-> IF accepted THEN scratch[w].discarded ELSE scratch[w].discarded + 1]
  <2>4. s \in Scratches
    <3>1. /\ scratch[w].stream \in Seq(Ids)
          /\ scratch[w].attempted \in Nat /\ scratch[w].accepted \in Nat /\ scratch[w].discarded \in Nat
      BY <2>3 DEF Scratches
    <3>2. Append(scratch[w].stream, TrajectoryId(w)) \in Seq(Ids)
      BY <2>2, <3>1
    <3>3. CASE accepted
      BY <3>1, <3>2, <3>3 DEF Scratches
    <3>4. CASE ~ accepted
      BY <3>1, <3>4 DEF Scratches
    <3> QED BY <3>3, <3>4
  <2>5. scratch' = [scratch EXCEPT ![w] = s]
    BY <1>4 DEF RunTrajectory
  <2> HIDE DEF s
  <2> QED BY <1>1, <2>1, <2>4, <2>5 DEF AtWork
<1>5. ASSUME NEW w \in Workers, TrajectoryThrows(w)
      PROVE  ScratchInv'
  <2>1. worker[w] = "running" /\ local[w] < range[w].end /\ caller' = caller
    BY <1>5 DEF TrajectoryThrows, callerVars
  <2>2. TrajectoryId(w) \in Ids
    BY <2>1, IdBound
  <2>3. scratch[w] \in Scratches /\ scratch \in [Workers -> Scratches]
    BY DEF ScratchInv
  <2>4. PICK left \in {<<>>, <<TrajectoryId(w)>>} :
          scratch' = [scratch EXCEPT ![w].attempted = @ + 1, ![w].stream = @ \o left]
    BY <1>5 DEF TrajectoryThrows
  <2>5. left \in Seq(Ids)
    <3>1. <<>> \in Seq(Ids) /\ <<TrajectoryId(w)>> \in Seq(Ids)
      BY <2>2
    <3> QED BY <2>4, <3>1
  <2> DEFINE s == [stream |-> scratch[w].stream \o left, attempted |-> scratch[w].attempted + 1,
                   accepted |-> scratch[w].accepted, discarded |-> scratch[w].discarded]
  <2>6. s \in Scratches
    <3>1. /\ scratch[w].stream \in Seq(Ids)
          /\ scratch[w].attempted \in Nat /\ scratch[w].accepted \in Nat /\ scratch[w].discarded \in Nat
      BY <2>3 DEF Scratches
    <3>2. scratch[w].stream \o left \in Seq(Ids)
      BY <2>5, <3>1
    <3> QED BY <3>1, <3>2 DEF Scratches
  <2>7. scratch' = [scratch EXCEPT ![w] = s]
    <3> DEFINE r == [scratch[w] EXCEPT !.attempted = @ + 1]
    <3>0. r = [stream |-> scratch[w].stream, attempted |-> scratch[w].attempted + 1,
               accepted |-> scratch[w].accepted, discarded |-> scratch[w].discarded]
      BY <2>3 DEF Scratches
    <3>1. [r EXCEPT !.stream = scratch[w].stream \o left] = s
      <4>1. /\ r \in Scratches /\ r.attempted = scratch[w].attempted + 1
            /\ r.accepted = scratch[w].accepted /\ r.discarded = scratch[w].discarded
        BY <2>3, <3>0 DEF Scratches
      <4> HIDE DEF r
      <4>2. [r EXCEPT !.stream = scratch[w].stream \o left]
              = [stream |-> scratch[w].stream \o left, attempted |-> r.attempted,
                 accepted |-> r.accepted, discarded |-> r.discarded]
        BY <4>1, SetStream
      <4> QED BY <4>1, <4>2
    <3>2. scratch' = [scratch EXCEPT ![w] =
                        [[scratch[w] EXCEPT !.attempted = @ + 1] EXCEPT !.stream = scratch[w].stream \o left]]
      BY <2>3, <2>4 DEF Scratches
    <3> QED BY <3>1, <3>2
  <2> HIDE DEF s
  <2> QED BY <1>1, <2>1, <2>6, <2>7 DEF AtWork
<1>6. ASSUME NEW w \in Workers, Complete(w)
      PROVE  ScratchInv'
  <2>1. worker[w] \in {"sorting", "failed"} /\ caller' = caller
    BY <1>6 DEF Complete, callerVars
  <2>2. scratch[w] \in Scratches /\ scratch \in [Workers -> Scratches]
    BY DEF ScratchInv
  <2>3. PICK t \in IF worker[w] = "sorting" THEN Sorted(scratch[w].stream) ELSE {scratch[w].stream} :
          scratch' = [scratch EXCEPT ![w].stream = t]
    BY <1>6 DEF Complete
  <2>4. scratch[w].stream \in Seq(Ids)
    BY <2>2 DEF Scratches
  <2>5. t \in Seq(Ids)
    BY <2>3, <2>4, SortedFacts
  <2> DEFINE s == [stream |-> t, attempted |-> scratch[w].attempted,
                   accepted |-> scratch[w].accepted, discarded |-> scratch[w].discarded]
  <2>6. s \in Scratches
    BY <2>2, <2>5 DEF Scratches
  <2>7. scratch' = [scratch EXCEPT ![w] = s]
    <3>1. [scratch[w] EXCEPT !.stream = t] = s
      BY <2>2 DEF Scratches
    <3>2. scratch' = [scratch EXCEPT ![w] = [scratch[w] EXCEPT !.stream = t]]
      BY <2>3
    <3> QED BY <3>1, <3>2
  <2> HIDE DEF s
  <2> QED BY <1>1, <2>1, <2>6, <2>7 DEF AtWork
<1>7. CASE UNCHANGED vars
  BY <1>2, <1>7 DEF vars, callerVars
<1>8. CASE Destroy \/ CallerStep
  <2>1. UNCHANGED scratch /\ (caller' = "prepared" => caller = "prepared")
    BY <1>8 DEF CallerStep, DispatchBatch, NotifyWorker, TestCompletion, BlockOnCompletion, LeaveWait,
       AssembleWorkerResult, AdmissionThrows, MergeBatchDeltas, TakeDelta, EndMerge, NotifyStop, Join,
       Destroy, callerVars
  <2> QED BY <1>2, <2>1
<1>9. ASSUME NEW w \in Workers,
             LockedStep(w) \/ ClaimChunk(w) \/ EndRange(w) \/ CancelRange(w) \/ NotifyCompletion(w)
             \/ SpuriousWorkerWake(w)
      PROVE  ScratchInv'
  <2>1. UNCHANGED scratch /\ (caller' = "prepared" => caller = "prepared")
    BY <1>9 DEF LockedStep, BlockOnWork, ReturnOnStop, ObserveBatch, RecordError, ClaimChunk, EndRange,
       CancelRange, NotifyCompletion, SpuriousWorkerWake, callerVars
  <2> QED BY <1>2, <2>1
<1>10. CASE DeadlinePasses \/ SpuriousCallerWake
  <2>1. UNCHANGED scratch /\ (caller' = "prepared" => caller = "prepared")
    BY <1>10 DEF DeadlinePasses, SpuriousCallerWake, callerVars
  <2> QED BY <1>2, <2>1
<1> QED BY <1>3, <1>4, <1>5, <1>6, <1>7, <1>8, <1>9, <1>10 DEF Next, Run, FreeStep

-----------------------------------------------------------------------------
(***************************************************************************)
(* The chunks a worker has claimed.                                        *)
(***************************************************************************)
\* The workers that have no more chunk to claim in this batch.
Past == {w \in Party : observed[w] = generation /\ worker[w] \notin {"claiming", "running"}}

\* Every worker looks past the last chunk at most once.
ChunksCounted == nextChunk <= DynamicChunkCount(batch.count, ChunkSize) + Cardinality(Past)

\* A part of the workers is no more than all of them.
LEMMA PartCounted ==
  ASSUME NEW T \in SUBSET Workers
  PROVE  /\ IsFiniteSet(T) /\ Cardinality(T) \in 0 .. WorkerCount
         /\ \A S \in SUBSET T : Cardinality(S) \in Nat /\ Cardinality(S) <= Cardinality(T)
PROOF
<1>1. IsFiniteSet(T) /\ Cardinality(T) <= Cardinality(Workers) /\ Cardinality(T) \in Nat
  BY WorkersFinite, FS_Subset, FS_CardinalityType
<1>2. Cardinality(Workers) = WorkerCount
  <2>1. Cardinality(0 .. WorkerCount - 1) = IF 0 > WorkerCount - 1 THEN 0 ELSE WorkerCount - 1 - 0 + 1
    BY RunnerAssumption, FS_Interval
  <2> QED BY <2>1, RunnerAssumption DEF Workers
<1>3. \A S \in SUBSET T : Cardinality(S) \in Nat /\ Cardinality(S) <= Cardinality(T)
  BY <1>1, FS_Subset, FS_CardinalityType
<1> QED BY <1>1, <1>2, <1>3, RunnerAssumption

\* A runner that was just built.
LEMMA InitChunksCounted == ASSUME Init PROVE ChunksCounted
PROOF
<1>1. nextChunk = 0 /\ batch.count = 0
  BY DEF Init, NoBatch
<1>2. DynamicChunkCount(batch.count, ChunkSize) \in Nat
  BY <1>1, ChunksCover, RunnerAssumption
<1>3. Cardinality(Past) \in Nat
  BY PartCounted, RunnerAssumption DEF Past, Party
<1> QED BY <1>1, <1>2, <1>3 DEF ChunksCounted

\* Only a worker that has a chunk counts next_dynamic_chunk_ up, and past the
\* last chunk each does so once.
LEMMA StepKeepsChunksCounted ==
  ASSUME ChunksCounted, CallerInv, WorkerInv, IndInv, [Next]_vars
  PROVE  ChunksCounted'
PROOF
<1> DEFINE chunks == DynamicChunkCount(batch.count, ChunkSize)
<1>0. batch.count \in Nat /\ context.count \in Nat /\ nextChunk \in Nat /\ chunks \in Nat
      /\ worker \in [Workers -> WorkerStates] /\ observed \in [Workers -> Nat]
  <2>1. batch.count \in Nat /\ context.count \in Nat /\ nextChunk \in Nat
        /\ worker \in [Workers -> WorkerStates] /\ observed \in [Workers -> Nat]
    BY MaxCountIsMax DEF CallerInv, WorkerInv, Batches, IndInv, CountTypes
  <2> QED BY <2>1, ChunksCover, RunnerAssumption
<1>p. Past \in SUBSET Workers /\ Past' \in SUBSET Workers
  BY DEF Past, Party
<1>c. Cardinality(Past) \in Nat /\ Cardinality(Past') \in Nat
  BY <1>p, PartCounted, RunnerAssumption
<1>1. ASSUME UNCHANGED <<batch, generation, nextChunk>>,
             \A v \in Workers : observed[v] = generation =>
               /\ observed'[v] = generation
               /\ worker'[v] \in {"claiming", "running"} => worker[v] \in {"claiming", "running"}
      PROVE  ChunksCounted'
  <2>1. Past \subseteq Past'
    BY <1>1 DEF Past, Party
  <2>2. Cardinality(Past) <= Cardinality(Past')
    BY <1>p, <2>1, PartCounted
  <2>3. chunks' = chunks
    BY <1>1
  <2> HIDE DEF chunks
  <2>4. nextChunk <= chunks + Cardinality(Past)
    BY DEF ChunksCounted, chunks
  <2>5. nextChunk' <= chunks' + Cardinality(Past')
    BY <1>0, <1>1, <1>c, <2>2, <2>3, <2>4
  <2> QED BY <2>5 DEF ChunksCounted, chunks
<1>2. CASE DispatchBatch
  <2>1. nextChunk' = 0 /\ batch' = context
    BY <1>2 DEF DispatchBatch
  <2>2. chunks' \in Nat
    BY <1>0, <2>1, ChunksCover, RunnerAssumption
  <2> HIDE DEF chunks
  <2>3. nextChunk' <= chunks' + Cardinality(Past')
    BY <1>c, <2>1, <2>2
  <2> QED BY <2>3 DEF ChunksCounted, chunks
<1>3. ASSUME NEW w \in Workers, ClaimChunk(w)
      PROVE  ChunksCounted'
  <2>1. worker[w] = "claiming" /\ UNCHANGED <<observed, batch, generation>>
    BY <1>3 DEF ClaimChunk, pool
  <2>2. job[w] = batch /\ w \in Party /\ observed[w] = generation
    BY <2>1, WorkFacts DEF AtWork
  <2>3. chunks' = chunks
    BY <2>1
  <2>4. CASE cancelled
    <3>1. worker' = [worker EXCEPT ![w] = "sorting"] /\ UNCHANGED nextChunk
      BY <1>3, <2>4 DEF ClaimChunk
    <3> QED BY <1>0, <1>1, <2>1, <3>1
  <2>5. CASE ~ cancelled /\ nextChunk >= chunks
    <3>1. worker' = [worker EXCEPT ![w] = "sorting"] /\ nextChunk' = nextChunk + 1
      BY <1>3, <2>2, <2>5 DEF ClaimChunk
    <3>2. w \notin Past
      BY <2>1 DEF Past
    <3>3. Past \cup {w} \subseteq Past'
      BY <1>0, <2>1, <2>2, <3>1 DEF Past, Party
    <3>4. Cardinality(Past \cup {w}) = Cardinality(Past) + 1
      BY <1>p, <3>2, PartCounted, FS_AddElement
    <3>5. Cardinality(Past) + 1 <= Cardinality(Past')
      BY <1>p, <3>3, <3>4, PartCounted
    <3> HIDE DEF chunks
    <3>6. nextChunk <= chunks + Cardinality(Past)
      BY DEF ChunksCounted, chunks
    <3>7. nextChunk' <= chunks' + Cardinality(Past')
      BY <1>0, <1>c, <2>3, <3>1, <3>5, <3>6
    <3> QED BY <3>7 DEF ChunksCounted, chunks
  <2>6. CASE ~ cancelled /\ ~ (nextChunk >= chunks)
    <3>1. nextChunk' = nextChunk + 1
      BY <1>3, <2>2, <2>6 DEF ClaimChunk
    <3> HIDE DEF chunks
    <3>2. nextChunk' <= chunks' + Cardinality(Past')
      BY <1>0, <1>c, <2>3, <2>6, <3>1
    <3> QED BY <3>2 DEF ChunksCounted, chunks
  <2> QED BY <2>4, <2>5, <2>6
<1>4. ASSUME NEW w \in Workers, ObserveBatch(w)
      PROVE  ChunksCounted'
  <2>1. /\ observed[w] # generation
        /\ observed' = [observed EXCEPT ![w] = generation]
        /\ UNCHANGED <<batch, generation, nextChunk>>
    BY <1>4 DEF ObserveBatch, WorkReady, pool, atomics
  <2>2. \A v \in Workers \ {w} : worker'[v] = worker[v]
    BY <1>0, <1>4 DEF ObserveBatch, StartBatch
  <2> QED BY <1>0, <1>1, <2>1, <2>2
<1>5. ASSUME NEW w \in Workers,
             \/ BlockOnWork(w) \/ ReturnOnStop(w) \/ RecordError(w)
             \/ EndRange(w) \/ CancelRange(w) \/ TrajectoryThrows(w) \/ Complete(w)
             \/ NotifyCompletion(w)
      PROVE  ChunksCounted'
  <2>1. UNCHANGED <<batch, generation, nextChunk, observed>>
    BY <1>5 DEF BlockOnWork, ReturnOnStop, RecordError, EndRange, CancelRange, TrajectoryThrows,
       Complete, NotifyCompletion, pool, atomics
  <2>2. \/ \E s \in WorkerStates \ {"claiming", "running"} : worker' = [worker EXCEPT ![w] = s]
        \/ worker[w] = "running" /\ worker' = [worker EXCEPT ![w] = "claiming"]
    BY <1>5 DEF BlockOnWork, ReturnOnStop, RecordError, EndRange, CancelRange, TrajectoryThrows,
       Complete, NotifyCompletion, AfterRange, WorkerStates, AtWork
  <2> QED BY <1>0, <1>1, <2>1, <2>2
<1>6. ASSUME NEW w \in Workers, \E accepted \in BOOLEAN : RunTrajectory(w, accepted)
      PROVE  ChunksCounted'
  <2>1. UNCHANGED <<batch, generation, nextChunk, observed, worker>>
    BY <1>6 DEF RunTrajectory, pool, atomics
  <2> QED BY <1>1, <2>1
<1>7. ASSUME NEW w, Wake(w), UNCHANGED <<batch, generation, nextChunk, observed>>
      PROVE  ChunksCounted'
  <2>1. \A v \in Workers : worker'[v] = worker[v] \/ worker'[v] = "ready"
    BY <1>7, WakeType
  <2> QED BY <1>1, <1>7, <2>1
<1>8. ASSUME NEW w \in Workers, SpuriousWorkerWake(w)
      PROVE  ChunksCounted'
  BY <1>7, <1>8 DEF SpuriousWorkerWake, pool, atomics
<1>9. CASE NotifyWorker \/ NotifyStop
  <2>1. UNCHANGED <<batch, generation, nextChunk, observed>> /\ (Wake(notified) \/ worker' = worker)
    BY <1>9 DEF NotifyWorker, NotifyStop, pool, atomics
  <2> QED BY <1>1, <1>7, <2>1
<1>10. CASE \/ Run \/ TestCompletion \/ BlockOnCompletion \/ LeaveWait \/ AssembleWorkerResult
            \/ AdmissionThrows \/ MergeBatchDeltas \/ EndMerge \/ Join \/ Destroy
            \/ (\E w \in Workers : TakeDelta(w))
            \/ DeadlinePasses \/ SpuriousCallerWake \/ UNCHANGED vars
  <2>1. UNCHANGED <<batch, generation, nextChunk, observed, worker>>
    BY <1>10 DEF Run, PrepareBatchRun, TestCompletion, BlockOnCompletion, LeaveWait, AssembleWorkerResult,
       AdmissionThrows, MergeBatchDeltas, EndMerge, Join, Destroy, TakeDelta, DeadlinePasses,
       SpuriousCallerWake, vars, pool, atomics, workerVars
  <2> QED BY <1>1, <2>1
<1> QED
  BY <1>2, <1>3, <1>4, <1>5, <1>6, <1>8, <1>9, <1>10 DEF Next, CallerStep, LockedStep, FreeStep

-----------------------------------------------------------------------------
(***************************************************************************)
(* Shares: every trajectory of a batch belongs to one worker.              *)
(***************************************************************************)
\* A worker that has seen the present batch.
Started(w) == w \in Party /\ observed[w] = generation

\* Nothing was cancelled or discarded.
Fine == ~ cancelled /\ \A w \in Workers : scratch[w].discarded = 0

\* The trajectories that a worker still has to run of its range, and those that
\* are its own: run already or still to run.
Todo(w) ==
  IF worker[w] = "running"
  THEN Span(batch.first + local[w], batch.first + range[w].end, range[w].stride)
  ELSE {}

\* What is a worker's own: what it has run and what it still has to run.
Share(w) == Elements(scratch[w].stream) \cup Todo(w)

\* A worker's share of a batch: all of its range, nothing twice; when no chunk
\* is left for it, no chunk is left.
OwnShare(w) ==
  /\ ~ Started(w) => scratch[w].stream = <<>>
  /\ Distinct(scratch[w].stream)
  /\ Elements(scratch[w].stream) \cap Todo(w) = {}
  /\ mode # "Dynamic" /\ Started(w) =>
       Share(w) = Span(batch.first + partition[w].begin, batch.first + partition[w].end,
                       partition[w].stride)
  /\ mode = "Dynamic" /\ Started(w) /\ worker[w] \notin {"claiming", "running"} =>
       nextChunk * ChunkSize >= batch.count

\* The trajectories of the chunks that are claimed.
Claimed == batch.first .. batch.first + Least(batch.count, nextChunk * ChunkSize) - 1

\* Each of them belongs to one worker.
ChunksShared ==
  mode = "Dynamic" =>
    /\ \A v, w \in Workers : v # w => Share(v) \cap Share(w) = {}
    /\ \A w \in Workers : Share(w) \subseteq Claimed
    /\ \A id \in Claimed : \E w \in Workers : id \in Share(w)

\* As long as nothing was cancelled or discarded, every trajectory belongs to one
\* worker.
SharesInv ==
  caller \in InBatch /\ Fine => (\A w \in Workers : OwnShare(w)) /\ ChunksShared

\* The chunks claimed, before and after one claim.
LEMMA MoreChunks ==
  ASSUME NEW j \in Nat, NEW k \in Nat, j <= k
  PROVE  j * ChunkSize \in Nat /\ k * ChunkSize \in Nat /\ j * ChunkSize <= k * ChunkSize
PROOF
<1>1. j * ChunkSize \in Nat /\ k * ChunkSize \in Nat
  BY RunnerAssumption
<1>2. CASE j = k
  BY <1>1, <1>2
<1>3. CASE j < k
  BY <1>1, <1>3, Multiples, RunnerAssumption
<1> QED BY <1>1, <1>2, <1>3

\* A worker that the step leaves alone keeps its share.
LEMMA OtherShare ==
  ASSUME NEW v \in Workers, OwnShare(v),
         UNCHANGED <<mode, generation, batch, partition>>,
         scratch'[v].stream = scratch[v].stream, observed'[v] = observed[v],
         range'[v] = range[v], local'[v] = local[v],
         worker'[v] = worker[v] \/ (worker[v] \notin AtWork /\ worker'[v] \notin AtWork),
         nextChunk \in Nat, nextChunk' \in Nat, nextChunk <= nextChunk', batch.count \in Nat
  PROVE  OwnShare(v)' /\ Share(v)' = Share(v)
PROOF
<1>1. Started(v)' <=> Started(v)
  BY DEF Started, Party
<1>2. Todo(v)' = Todo(v)
  BY DEF Todo, AtWork
<1>3. Elements(scratch[v].stream)' = Elements(scratch[v].stream)
  BY DEF Elements
<1>4. Share(v)' = Share(v)
  BY <1>2, <1>3 DEF Share
<1>5. Distinct(scratch[v].stream)' <=> Distinct(scratch[v].stream)
  BY DEF Distinct
<1>6. mode' = "Dynamic" /\ Started(v)' /\ worker'[v] \notin {"claiming", "running"} =>
        nextChunk' * ChunkSize >= batch'.count
  <2>1. SUFFICES ASSUME mode' = "Dynamic", Started(v)', worker'[v] \notin {"claiming", "running"}
                 PROVE  nextChunk' * ChunkSize >= batch.count
    OBVIOUS
  <2>2. nextChunk * ChunkSize >= batch.count
    BY <1>1, <2>1 DEF OwnShare, AtWork
  <2> QED BY <2>2, MoreChunks
<1>7. mode' # "Dynamic" /\ Started(v)' =>
        Share(v)' = Span(batch'.first + partition'[v].begin, batch'.first + partition'[v].end,
                         partition'[v].stride)
  BY <1>1, <1>4 DEF OwnShare
<1> QED BY <1>1, <1>2, <1>3, <1>4, <1>5, <1>6, <1>7 DEF OwnShare

\* A step that changes no share.
LEMMA SharesFrame ==
  ASSUME SharesInv,
         caller' \in InBatch => caller \in InBatch,
         Fine' => Fine,
         UNCHANGED <<mode, generation, batch, partition, observed, range, local, nextChunk>>,
         \A v \in Workers : scratch'[v].stream = scratch[v].stream,
         \A v \in Workers : worker'[v] = worker[v] \/ (worker[v] \notin AtWork /\ worker'[v] \notin AtWork),
         nextChunk \in Nat, batch.count \in Nat
  PROVE  SharesInv'
PROOF
<1> SUFFICES ASSUME caller' \in InBatch, Fine'
             PROVE  (\A w \in Workers : OwnShare(w)') /\ ChunksShared'
  BY DEF SharesInv
<1>1. (\A w \in Workers : OwnShare(w)) /\ ChunksShared
  BY DEF SharesInv
<1>2. \A w \in Workers : OwnShare(w)' /\ Share(w)' = Share(w)
  BY <1>1, OtherShare
<1>3. Claimed' = Claimed
  BY DEF Claimed
<1>4. ChunksShared'
  BY <1>1, <1>2, <1>3 DEF ChunksShared
<1> QED BY <1>2, <1>4

\* A step of one worker: the others keep their shares.
LEMMA OneShare ==
  ASSUME SharesInv, caller \in InBatch, Fine, NEW w \in Workers,
         UNCHANGED <<mode, generation, batch, partition>>,
         \A v \in Workers \ {w} : /\ scratch'[v].stream = scratch[v].stream
                                  /\ observed'[v] = observed[v] /\ worker'[v] = worker[v]
                                  /\ range'[v] = range[v] /\ local'[v] = local[v],
         nextChunk \in Nat, nextChunk' \in Nat, nextChunk <= nextChunk', batch.count \in Nat,
         OwnShare(w)',
         mode = "Dynamic" =>
           \/ Share(w)' = Share(w) /\ Claimed' = Claimed
           \/ \E new : /\ Share(w)' = Share(w) \cup new
                       /\ Claimed' = Claimed \cup new /\ Claimed \cap new = {}
  PROVE  SharesInv'
PROOF
<1>1. (\A v \in Workers : OwnShare(v)) /\ ChunksShared
  BY DEF SharesInv
<1>2. \A v \in Workers \ {w} : OwnShare(v)' /\ Share(v)' = Share(v)
  BY <1>1, OtherShare
<1>3. ChunksShared'
  <2> SUFFICES ASSUME mode = "Dynamic"
               PROVE  /\ \A u, v \in Workers : u # v => Share(u)' \cap Share(v)' = {}
                      /\ \A v \in Workers : Share(v)' \subseteq Claimed'
                      /\ \A id \in Claimed' : \E v \in Workers : id \in Share(v)'
    BY DEF ChunksShared
  <2>1. /\ \A u, v \in Workers : u # v => Share(u) \cap Share(v) = {}
        /\ \A v \in Workers : Share(v) \subseteq Claimed
        /\ \A id \in Claimed : \E v \in Workers : id \in Share(v)
    BY <1>1 DEF ChunksShared
  <2>2. CASE Share(w)' = Share(w) /\ Claimed' = Claimed
    <3>1. \A v \in Workers : Share(v)' = Share(v)
      BY <1>2, <2>2
    <3> QED BY <2>1, <2>2, <3>1
  <2>3. ASSUME NEW new, Share(w)' = Share(w) \cup new,
               Claimed' = Claimed \cup new, Claimed \cap new = {}
        PROVE  /\ \A u, v \in Workers : u # v => Share(u)' \cap Share(v)' = {}
               /\ \A v \in Workers : Share(v)' \subseteq Claimed'
               /\ \A id \in Claimed' : \E v \in Workers : id \in Share(v)'
    <3>1. \A v \in Workers : Share(v)' = IF v = w THEN Share(v) \cup new ELSE Share(v)
      BY <1>2, <2>3
    <3>2. \A v \in Workers : Share(v) \cap new = {}
      BY <2>1, <2>3
    <3>3. \A u, v \in Workers : u # v => Share(u)' \cap Share(v)' = {}
      BY <2>1, <3>1, <3>2
    <3>4. \A v \in Workers : Share(v)' \subseteq Claimed'
      BY <2>1, <2>3, <3>1
    <3>5. \A id \in Claimed' : \E v \in Workers : id \in Share(v)'
      BY <2>1, <2>3, <3>1
    <3> QED BY <3>3, <3>4, <3>5
  <2> QED BY <2>2, <2>3
<1> QED BY <1>2, <1>3 DEF SharesInv

\* The types that the lemmas about shares use.
LEMMA SharesTypes ==
  ASSUME CallerInv, WorkerInv, ScratchInv, IndInv
  PROVE  /\ batch.first \in Nat /\ batch.count \in Nat /\ context.count \in Nat /\ nextChunk \in Nat
         /\ worker \in [Workers -> WorkerStates]
         /\ observed \in [Workers -> Nat] /\ generation \in Nat
         /\ range \in [Workers -> Ranges] /\ local \in [Workers -> Nat]
         /\ scratch \in [Workers -> Scratches]
         /\ ChunkSize \in Nat \ {0}
PROOF
  BY MaxCountIsMax, RunnerAssumption DEF CallerInv, WorkerInv, ScratchInv, IndInv, CountTypes, Batches

\* A new batch: nobody has started.
LEMMA DispatchKeepsShares ==
  ASSUME CallerInv, WorkerInv, ScratchInv, IndInv, DispatchBatch
  PROVE  SharesInv'
PROOF
<1>1. /\ caller = "prepared" /\ ~ active
      /\ generation' = generation + 1 /\ batch' = context /\ nextChunk' = 0
      /\ UNCHANGED <<worker, observed, scratch, mode>>
  BY DEF DispatchBatch, workerVars
<1>2. \A w \in Workers : scratch[w].stream = <<>> /\ worker[w] \notin AtWork
  BY <1>1 DEF ScratchInv, IndInv, NobodyAtWorkOutside
<1>3. \A w \in Workers : ~ Started(w)'
  BY <1>1, SharesTypes DEF Started, IndInv, ObservedPast
<1>4. \A w \in Workers : Todo(w)' = {}
  BY <1>1, <1>2 DEF Todo, AtWork
<1>5. \A w \in Workers : /\ Elements(scratch[w].stream)' = {} /\ Distinct(scratch[w].stream)'
                         /\ scratch'[w].stream = <<>>
  BY <1>1, <1>2 DEF Elements, Distinct
<1>6. \A w \in Workers : Share(w)' = {} /\ OwnShare(w)'
  BY <1>3, <1>4, <1>5 DEF Share, OwnShare
<1>7. Claimed' = {}
  <2>1. context.count \in Nat /\ context.first \in Nat /\ 0 * ChunkSize = 0
    BY SharesTypes, RunnerAssumption DEF CallerInv, Batches
  <2>2. Least(batch'.count, nextChunk' * ChunkSize) = 0
    BY <1>1, <2>1 DEF Least
  <2> QED BY <1>1, <2>1, <2>2 DEF Claimed
<1>8. ChunksShared'
  BY <1>6, <1>7 DEF ChunksShared
<1> QED BY <1>6, <1>8 DEF SharesInv

\* A worker that starts takes the whole range of its partition.
LEMMA ObserveKeepsShares ==
  ASSUME SharesInv, CallerInv, WorkerInv, ScratchInv, IndInv, NEW w \in Workers, ObserveBatch(w)
  PROVE  SharesInv'
PROOF
<1>1. /\ worker[w] = "ready" /\ observed[w] # generation /\ active
      /\ observed' = [observed EXCEPT ![w] = generation]
      /\ UNCHANGED <<mode, generation, batch, partition, nextChunk, cancelled, caller, scratch>>
  BY DEF ObserveBatch, WorkReady, pool, atomics, callerVars
<1>2. SUFFICES ASSUME caller \in InBatch, Fine PROVE SharesInv'
  BY <1>1 DEF SharesInv, Fine
<1>3. OwnShare(w) /\ ~ Started(w) /\ scratch[w].stream = <<>>
  BY <1>1, <1>2 DEF SharesInv, OwnShare, Started
<1>4. Elements(scratch[w].stream) = {} /\ Elements(scratch[w].stream)' = {} /\ Distinct(scratch[w].stream)'
  BY <1>1, <1>3 DEF Elements, Distinct
<1>5. Share(w) = {}
  BY <1>1, <1>4 DEF Share, Todo
<1>6. Claimed' = Claimed
  BY <1>1 DEF Claimed
<1>7. /\ \A v \in Workers \ {w} : /\ worker'[v] = worker[v] /\ range'[v] = range[v] /\ local'[v] = local[v]
                                  /\ observed'[v] = observed[v]
      /\ observed'[w] = generation
  BY <1>1, SharesTypes DEF ObserveBatch, StartBatch
<1>8. CASE w < batch.workers
  <2>1. /\ worker'[w] = IF mode = "Dynamic" THEN "claiming" ELSE "running"
        /\ range'[w] = partition[w] /\ local'[w] = partition[w].begin
    BY <1>8, SharesTypes DEF ObserveBatch, StartBatch
  <2>2. CASE mode = "Dynamic"
    <3>1. Todo(w)' = {}
      BY <2>1, <2>2 DEF Todo
    <3>2. Share(w)' = {}
      BY <1>4, <3>1 DEF Share
    <3>3. OwnShare(w)'
      BY <1>1, <1>3, <1>4, <2>1, <2>2, <3>1 DEF OwnShare
    <3> QED BY <1>1, <1>2, <1>5, <1>6, <1>7, <3>2, <3>3, SharesTypes, OneShare
  <2>3. CASE mode # "Dynamic"
    <3>1. Todo(w)' = Span(batch.first + partition[w].begin, batch.first + partition[w].end, partition[w].stride)
      BY <1>1, <2>1, <2>3 DEF Todo
    <3>2. Share(w)' = Todo(w)'
      BY <1>4 DEF Share
    <3>3. OwnShare(w)'
      BY <1>1, <1>3, <1>4, <2>3, <3>1, <3>2 DEF OwnShare
    <3> QED BY <1>1, <1>2, <1>7, <2>3, <3>3, SharesTypes, OneShare
  <2> QED BY <2>2, <2>3
<1>9. CASE ~ (w < batch.workers)
  <2>1. UNCHANGED <<worker, range, local>>
    BY <1>9 DEF ObserveBatch
  <2>2. Todo(w)' = {} /\ ~ Started(w)'
    BY <1>1, <1>9, <2>1 DEF Todo, Started, Party
  <2>3. Share(w)' = {}
    BY <1>4, <2>2 DEF Share
  <2>4. OwnShare(w)'
    BY <1>1, <1>3, <1>4, <2>2 DEF OwnShare
  <2> QED BY <1>1, <1>2, <1>5, <1>6, <1>7, <2>3, <2>4, SharesTypes, OneShare
<1> QED BY <1>8, <1>9

\* A claimed chunk was nobody's.
LEMMA ClaimKeepsShares ==
  ASSUME SharesInv, CallerInv, WorkerInv, ScratchInv, IndInv, NEW w \in Workers, ClaimChunk(w)
  PROVE  SharesInv'
PROOF
<1>1. /\ worker[w] = "claiming"
      /\ UNCHANGED <<mode, generation, batch, partition, cancelled, caller, scratch, observed, job>>
  BY DEF ClaimChunk, pool, callerVars
<1>2. SUFFICES ASSUME caller \in InBatch, Fine PROVE SharesInv'
  BY <1>1 DEF SharesInv, Fine
<1>3. /\ job[w] = batch /\ Started(w) /\ mode = "Dynamic" /\ ~ cancelled
  BY <1>1, <1>2, WorkFacts DEF AtWork, Started, WorkerInv, Fine
<1>4. OwnShare(w)
  BY <1>2 DEF SharesInv
<1>5. Todo(w) = {} /\ Share(w) = Elements(scratch[w].stream) /\ Distinct(scratch[w].stream)
  BY <1>1, <1>4 DEF Todo, Share, OwnShare
<1>6. Elements(scratch[w].stream)' = Elements(scratch[w].stream) /\ Distinct(scratch[w].stream)'
      /\ Started(w)'
  BY <1>1, <1>3, <1>5 DEF Elements, Distinct, Started, Party
<1>7. nextChunk' = nextChunk + 1
  BY <1>3 DEF ClaimChunk
<1>8. \A v \in Workers \ {w} : worker'[v] = worker[v] /\ range'[v] = range[v] /\ local'[v] = local[v]
  BY SharesTypes DEF ClaimChunk
<1> DEFINE k == nextChunk
           count == batch.count
<1>9. /\ k \in Nat /\ count \in Nat /\ ChunkSize \in Nat \ {0} /\ batch.first \in Nat
      /\ k * ChunkSize \in Nat /\ (k + 1) * ChunkSize = k * ChunkSize + ChunkSize
      /\ (k >= DynamicChunkCount(count, ChunkSize) <=> k * ChunkSize >= count)
      /\ DynamicChunkCount(count, ChunkSize) \in Nat
  <2>1. k \in Nat /\ count \in Nat /\ ChunkSize \in Nat \ {0} /\ batch.first \in Nat
    BY SharesTypes
  <2> QED BY <2>1, ChunksCover
<1>10. CASE k >= DynamicChunkCount(count, ChunkSize)
  <2>1. worker'[w] = "sorting"
    BY <1>3, <1>10, SharesTypes DEF ClaimChunk
  <2>2. Todo(w)' = {}
    BY <2>1 DEF Todo
  <2>3. Share(w)' = Share(w)
    BY <1>5, <1>6, <2>2 DEF Share
  <2>4. k * ChunkSize >= count /\ (k + 1) * ChunkSize >= count
    BY <1>9, <1>10
  <2>5. Claimed' = Claimed
    <3>1. Least(count, k * ChunkSize) = count /\ Least(count, (k + 1) * ChunkSize) = count
      BY <1>9, <2>4 DEF Least
    <3> QED BY <1>1, <1>7, <3>1 DEF Claimed
  <2>6. OwnShare(w)'
    BY <1>1, <1>3, <1>6, <1>7, <2>2, <2>4 DEF OwnShare
  <2>7. nextChunk' \in Nat /\ nextChunk <= nextChunk'
    BY <1>7, <1>9
  <2> QED BY <1>1, <1>2, <1>8, <1>9, <2>3, <2>5, <2>6, <2>7, OneShare
<1>11. CASE ~ (k >= DynamicChunkCount(count, ChunkSize))
  <2>1. k * ChunkSize < count
    BY <1>9, <1>11
  <2> DEFINE e == Least(count, (k + 1) * ChunkSize)
  <2>2. DynamicChunkRange(count, k, ChunkSize) = [begin |-> k * ChunkSize, end |-> e, stride |-> 1]
    BY <1>9, <2>1, NextChunkRange
  <2>3. /\ worker'[w] = "running"
        /\ range'[w] = DynamicChunkRange(count, k, ChunkSize)
        /\ local'[w] = DynamicChunkRange(count, k, ChunkSize).begin
    BY <1>3, <1>11, SharesTypes DEF ClaimChunk
  <2>4. range'[w].end = e /\ range'[w].stride = 1 /\ local'[w] = k * ChunkSize
    BY <2>2, <2>3
  <2>5. e \in Nat /\ k * ChunkSize < e
    BY <1>9, <2>1 DEF Least
  <2> DEFINE new == Span(batch.first + k * ChunkSize, batch.first + e, 1)
  <2>6. Todo(w)' = new
    BY <1>1, <2>3, <2>4 DEF Todo
  <2>7. new = (batch.first + k * ChunkSize) .. (batch.first + e - 1)
    <3> DEFINE b == batch.first + k * ChunkSize
               f == batch.first + e
    <3>1. b \in Nat /\ f \in Nat
      BY <1>9, <2>5
    <3> HIDE DEF b, f
    <3>2. Span(b, f, 1) = {i \in Nat : b <= i /\ i < f}
      BY <3>1, SpanOne
    <3>3. ASSUME NEW i PROVE i \in Span(b, f, 1) <=> i \in b .. f - 1
      BY <3>1, <3>2
    <3>4. Span(b, f, 1) = b .. f - 1
      BY <3>3
    <3>5. b .. f - 1 = (batch.first + k * ChunkSize) .. (batch.first + e - 1)
      <4>1. (batch.first + e) - 1 = batch.first + e - 1
        BY <1>9, <2>5
      <4> QED BY <4>1 DEF b, f
    <3>6. Span(b, f, 1) = new
      BY DEF b, f
    <3> QED BY <3>4, <3>5, <3>6
  <2>8. Claimed = batch.first .. batch.first + k * ChunkSize - 1
    BY <1>9, <2>1 DEF Claimed, Least
  <2>9. Claimed' = batch.first .. batch.first + e - 1
    BY <1>1, <1>7 DEF Claimed
  <2>10. Share(w)' = Share(w) \cup new
    BY <1>5, <1>6, <2>6 DEF Share
  <2> HIDE DEF new, e
  <2>11. Claimed' = Claimed \cup new /\ Claimed \cap new = {}
    <3> DEFINE m == k * ChunkSize
    <3>1. m \in Nat /\ m < e /\ batch.first \in Nat
      BY <1>9, <2>5
    <3> HIDE DEF m
    <3> QED BY <2>5, <2>7, <2>8, <2>9, <3>1 DEF m
  <2>12. Share(w) \subseteq Claimed
    BY <1>2, <1>3 DEF SharesInv, ChunksShared
  <2>13. OwnShare(w)'
    BY <1>1, <1>3, <1>5, <1>6, <2>3, <2>6, <2>11, <2>12 DEF OwnShare
  <2>14. nextChunk' \in Nat /\ nextChunk <= nextChunk'
    BY <1>7, <1>9
  <2> QED BY <1>1, <1>2, <1>8, <1>9, <2>10, <2>11, <2>13, <2>14, OneShare
<1> QED BY <1>10, <1>11

\* One more element of a sequence.
LEMMA ElementsAppend ==
  ASSUME NEW S, NEW s \in Seq(S), NEW x \in S
  PROVE  /\ Elements(Append(s, x)) = Elements(s) \cup {x}
         /\ Distinct(s) /\ x \notin Elements(s) => Distinct(Append(s, x))
PROOF
<1> DEFINE t == Append(s, x)
           n == Len(s)
<1>1. /\ n \in Nat /\ DOMAIN s = 1 .. n /\ DOMAIN t = 1 .. n + 1
      /\ t[n + 1] = x /\ \A k \in 1 .. n : t[k] = s[k]
  OBVIOUS
<1> HIDE DEF t, n
<1>2. Elements(t) = Elements(s) \cup {x}
  <2>1. ASSUME NEW k \in DOMAIN t PROVE t[k] \in Elements(s) \cup {x}
    <3>1. k = n + 1 \/ k \in 1 .. n
      BY <1>1
    <3> QED BY <1>1, <3>1 DEF Elements
  <2>2. x \in Elements(t)
    <3>1. n + 1 \in DOMAIN t
      BY <1>1
    <3> QED BY <1>1, <3>1 DEF Elements
  <2>3. ASSUME NEW k \in DOMAIN s PROVE s[k] \in Elements(t)
    <3>1. k \in DOMAIN t /\ t[k] = s[k]
      BY <1>1
    <3> QED BY <3>1 DEF Elements
  <2> QED BY <2>1, <2>2, <2>3 DEF Elements
<1>3. ASSUME Distinct(s), x \notin Elements(s), NEW j \in DOMAIN t, NEW k \in DOMAIN t, j # k
      PROVE  t[j] # t[k]
  <2>1. (j = n + 1 \/ j \in 1 .. n) /\ (k = n + 1 \/ k \in 1 .. n)
    BY <1>1
  <2>2. \A i \in 1 .. n : t[i] # x
    BY <1>1, <1>3 DEF Elements
  <2>3. CASE j \in 1 .. n /\ k \in 1 .. n
    BY <1>1, <1>3, <2>3 DEF Distinct
  <2> QED BY <1>1, <1>3, <2>1, <2>2, <2>3
<1>4. Distinct(s) /\ x \notin Elements(s) => Distinct(t)
  BY <1>3 DEF Distinct
<1> QED BY <1>2, <1>4 DEF t

\* A worker at the end of its range.
LEMMA EndRangeKeepsShares ==
  ASSUME SharesInv, CallerInv, WorkerInv, ScratchInv, IndInv, NEW w \in Workers, EndRange(w)
  PROVE  SharesInv'
PROOF
<1>1. /\ worker[w] = "running" /\ ~ (local[w] < range[w].end)
      /\ worker' = [worker EXCEPT ![w] = IF mode = "Dynamic" THEN "claiming" ELSE "sorting"]
      /\ UNCHANGED <<mode, generation, batch, partition, cancelled, caller, scratch, observed, range,
                     local, nextChunk>>
  BY SharesTypes DEF EndRange, AfterRange, pool, atomics, callerVars, Ranges
<1>2. SUFFICES ASSUME caller \in InBatch, Fine PROVE SharesInv'
  BY <1>1 DEF SharesInv, Fine
<1>3. OwnShare(w)
  BY <1>2 DEF SharesInv
<1>4. Todo(w) = {}
  <2>1. batch.first + local[w] >= batch.first + range[w].end /\ batch.first + local[w] \in Nat
        /\ batch.first + range[w].end \in Nat /\ range[w].stride \in Nat
    BY <1>1, SharesTypes DEF Ranges
  <2> QED BY <1>1, <2>1, SpanEmpty DEF Todo
<1>5. worker'[w] = (IF mode = "Dynamic" THEN "claiming" ELSE "sorting")
      /\ \A v \in Workers \ {w} : worker'[v] = worker[v]
  BY <1>1, SharesTypes
<1>6. Todo(w)' = {}
  BY <1>5 DEF Todo
<1>7. Share(w)' = Share(w) /\ Claimed' = Claimed
  BY <1>1, <1>4, <1>6 DEF Share, Claimed
<1>8. Started(w)' <=> Started(w)
  BY <1>1 DEF Started, Party
<1>9. OwnShare(w)'
  BY <1>1, <1>3, <1>5, <1>6, <1>7, <1>8 DEF OwnShare
<1> QED BY <1>1, <1>2, <1>5, <1>7, <1>9, SharesTypes, OneShare

\* A trajectory moves from what is to do to what is done.
LEMMA RunKeepsShares ==
  ASSUME SharesInv, CallerInv, WorkerInv, ScratchInv, IndInv, NEW w \in Workers,
         NEW accepted \in BOOLEAN, RunTrajectory(w, accepted)
  PROVE  SharesInv'
PROOF
<1>1. /\ worker[w] = "running" /\ local[w] < range[w].end
      /\ local' = [local EXCEPT ![w] = @ + range[w].stride]
      /\ UNCHANGED <<mode, generation, batch, partition, cancelled, caller, worker, observed, range, nextChunk>>
  BY DEF RunTrajectory, pool, atomics, callerVars
<1>2. /\ \A v \in Workers \ {w} : scratch'[v] = scratch[v]
      /\ scratch'[w].stream = IF accepted THEN Append(scratch[w].stream, TrajectoryId(w)) ELSE scratch[w].stream
      /\ scratch'[w].discarded = IF accepted THEN scratch[w].discarded ELSE scratch[w].discarded + 1
  BY SharesTypes DEF RunTrajectory
<1>3. \A v \in Workers : scratch[v].discarded \in Nat /\ scratch[v].stream \in Seq(Ids)
  BY SharesTypes DEF Scratches
<1>4. Fine' => Fine /\ accepted
  <2> SUFFICES ASSUME Fine' PROVE Fine /\ accepted
    OBVIOUS
  <2>1. scratch'[w].discarded = 0 /\ \A v \in Workers \ {w} : scratch[v].discarded = 0
    BY <1>2 DEF Fine
  <2>2. accepted
    BY <1>2, <1>3, <2>1
  <2> QED BY <1>1, <1>2, <2>1, <2>2 DEF Fine
<1>5. SUFFICES ASSUME caller \in InBatch, Fine, accepted PROVE SharesInv'
  BY <1>1, <1>4 DEF SharesInv
<1>6. OwnShare(w)
  BY <1>5 DEF SharesInv
<1> DEFINE id == batch.first + local[w]
           end == batch.first + range[w].end
           stride == range[w].stride
<1>7. /\ TrajectoryId(w) = id /\ id \in Ids
      /\ id \in Nat /\ end \in Nat /\ stride \in Nat \ {0} /\ id < end
      /\ batch.first + (local[w] + stride) = id + stride
  <2>1. TrajectoryId(w) = id /\ TrajectoryId(w) \in Ids
    BY <1>1, IdBound
  <2>2. batch.first \in Nat /\ local[w] \in Nat /\ range[w].end \in Nat /\ range[w].stride \in Nat \ {0}
    BY SharesTypes DEF Ranges
  <2> QED BY <1>1, <2>1, <2>2
<1>8. Todo(w) = Span(id, end, stride)
  BY <1>1 DEF Todo
<1>9. Todo(w)' = Span(id + stride, end, stride)
  <2>1. local'[w] = local[w] + stride
    BY <1>1, SharesTypes
  <2>2. Todo(w)' = Span(batch.first + (local[w] + stride), end, stride)
    BY <1>1, <2>1 DEF Todo
  <2> QED BY <1>7, <2>2
<1> HIDE DEF id, end, stride
<1>10. Todo(w) = {id} \cup Todo(w)' /\ id \notin Todo(w)'
  BY <1>7, <1>8, <1>9, SpanStep
<1>11. scratch'[w].stream = Append(scratch[w].stream, id)
  BY <1>2, <1>5, <1>7
<1>12. id \notin Elements(scratch[w].stream) /\ Distinct(scratch[w].stream)
       /\ Elements(scratch[w].stream) \cap Todo(w)' = {}
  BY <1>6, <1>10 DEF OwnShare
<1>13. /\ Elements(scratch'[w].stream) = Elements(scratch[w].stream) \cup {id}
       /\ Distinct(scratch'[w].stream)
  BY <1>3, <1>7, <1>11, <1>12, ElementsAppend
<1>14. Elements(scratch[w].stream)' = Elements(scratch[w].stream) \cup {id}
       /\ Distinct(scratch[w].stream)'
  BY <1>13 DEF Elements, Distinct
<1>15. Share(w)' = Share(w) /\ Claimed' = Claimed
  BY <1>1, <1>10, <1>14 DEF Share, Claimed
<1>16. Started(w)' /\ Started(w)
  BY <1>1, WorkFacts DEF Started, Party, AtWork
<1>17. OwnShare(w)'
  BY <1>1, <1>6, <1>10, <1>12, <1>14, <1>15, <1>16 DEF OwnShare
<1>18. \A v \in Workers \ {w} : /\ scratch'[v].stream = scratch[v].stream
                                /\ observed'[v] = observed[v] /\ worker'[v] = worker[v]
                                /\ range'[v] = range[v] /\ local'[v] = local[v]
  BY <1>1, <1>2, SharesTypes
<1>19. nextChunk' \in Nat /\ nextChunk <= nextChunk'
       /\ UNCHANGED <<mode, generation, batch, partition>>
  BY <1>1, SharesTypes
<1> QED BY <1>5, <1>15, <1>17, <1>18, <1>19, SharesTypes, OneShare

\* The streams are sorted; nobody's share changes.
LEMMA CompleteKeepsShares ==
  ASSUME SharesInv, CallerInv, WorkerInv, ScratchInv, IndInv, NEW w \in Workers, Complete(w)
  PROVE  SharesInv'
PROOF
<1>1. /\ worker[w] \in {"sorting", "failed"}
      /\ UNCHANGED <<mode, generation, batch, partition, cancelled, caller, observed, nextChunk>>
      /\ \E s \in {"last", "ready"} : worker' = [worker EXCEPT ![w] = s]
      /\ range' = [range EXCEPT ![w] = EmptyRange] /\ local' = [local EXCEPT ![w] = 0]
  BY DEF Complete, pool, callerVars
<1>2. PICK t \in IF worker[w] = "sorting" THEN Sorted(scratch[w].stream) ELSE {scratch[w].stream} :
        scratch' = [scratch EXCEPT ![w].stream = t]
  BY DEF Complete
<1>3. /\ scratch'[w].stream = t /\ \A v \in Workers \ {w} : scratch'[v] = scratch[v]
      /\ \A v \in Workers : scratch'[v].discarded = scratch[v].discarded
  BY <1>2, SharesTypes DEF Scratches
<1>4. SUFFICES ASSUME caller \in InBatch, Fine PROVE SharesInv'
  BY <1>1, <1>3 DEF SharesInv, Fine
<1>5. worker[w] = "sorting"
  BY <1>1, <1>4 DEF Fine, WorkerInv
<1>6. OwnShare(w)
  BY <1>4 DEF SharesInv
<1>7. Elements(t) = Elements(scratch[w].stream) /\ Distinct(t)
  <2>1. scratch[w].stream \in Seq(Ids)
    BY SharesTypes DEF Scratches
  <2>2. t \in Sorted(scratch[w].stream)
    BY <1>2, <1>5
  <2> QED BY <1>6, <2>1, <2>2, SortedFacts DEF OwnShare
<1>8. Elements(scratch[w].stream)' = Elements(scratch[w].stream) /\ Distinct(scratch[w].stream)'
  BY <1>3, <1>7 DEF Elements, Distinct
<1>9. /\ worker'[w] \in {"last", "ready"}
      /\ \A v \in Workers \ {w} : worker'[v] = worker[v] /\ range'[v] = range[v] /\ local'[v] = local[v]
  BY <1>1, SharesTypes
<1>10. Todo(w) = {} /\ Todo(w)' = {}
  BY <1>5, <1>9 DEF Todo
<1>11. Share(w)' = Share(w) /\ Claimed' = Claimed
  BY <1>1, <1>8, <1>10 DEF Share, Claimed
<1>12. Started(w)' /\ Started(w)
  BY <1>1, WorkFacts DEF Started, Party, AtWork
<1>13. OwnShare(w)'
  BY <1>1, <1>5, <1>6, <1>8, <1>9, <1>10, <1>11, <1>12 DEF OwnShare
<1> QED BY <1>1, <1>3, <1>4, <1>9, <1>11, <1>13, SharesTypes, OneShare

\* Every step keeps the shares.
LEMMA StepKeepsShares ==
  ASSUME SharesInv, CallerInv, WorkerInv, ScratchInv, IndInv, [Next]_vars
  PROVE  SharesInv'
PROOF
<1>1. ASSUME UNCHANGED <<mode, generation, batch, partition, observed, range, local, nextChunk, scratch, cancelled>>,
             caller' \in InBatch => caller \in InBatch,
             \A v \in Workers : worker'[v] = worker[v] \/ (worker[v] \notin AtWork /\ worker'[v] \notin AtWork)
      PROVE  SharesInv'
  BY <1>1, SharesTypes, SharesFrame DEF Fine
<1>2. ASSUME NEW v, Wake(v),
             UNCHANGED <<mode, generation, batch, partition, observed, range, local, nextChunk, scratch, cancelled>>,
             caller' \in InBatch => caller \in InBatch
      PROVE  SharesInv'
  <2>1. \A w \in Workers : worker'[w] = worker[w] \/ (worker[w] \notin AtWork /\ worker'[w] \notin AtWork)
    BY <1>2, SharesTypes DEF Wake, AtWork
  <2> QED BY <1>1, <1>2, <2>1
<1>3. CASE Run
  <2>1. caller' \notin InBatch
    BY <1>3 DEF Run, PrepareBatchRun, InBatch, Dispatched
  <2> QED BY <2>1 DEF SharesInv
<1>4. CASE \/ TestCompletion \/ BlockOnCompletion \/ LeaveWait \/ AssembleWorkerResult
           \/ AdmissionThrows \/ MergeBatchDeltas \/ EndMerge \/ Join \/ Destroy
           \/ (\E w \in Workers : TakeDelta(w))
           \/ DeadlinePasses \/ SpuriousCallerWake \/ UNCHANGED vars
  <2>1. UNCHANGED <<mode, generation, batch, partition, observed, range, local, nextChunk, scratch, cancelled, worker>>
    BY <1>4 DEF TestCompletion, BlockOnCompletion, LeaveWait, AssembleWorkerResult,
       AdmissionThrows, MergeBatchDeltas, EndMerge, Join, Destroy, TakeDelta, DeadlinePasses,
       SpuriousCallerWake, vars, pool, atomics, callerVars, workerVars
  <2>2. caller' \in InBatch => caller \in InBatch
    BY <1>4 DEF TestCompletion, BlockOnCompletion, LeaveWait, AssembleWorkerResult,
       AdmissionThrows, MergeBatchDeltas, EndMerge, Join, Destroy, TakeDelta, DeadlinePasses,
       SpuriousCallerWake, vars, callerVars, InBatch, Dispatched
  <2> QED BY <1>1, <2>1, <2>2
<1>5. CASE NotifyWorker \/ NotifyStop
  <2>1. /\ UNCHANGED <<mode, generation, batch, partition, observed, range, local, nextChunk, scratch, cancelled>>
        /\ (Wake(notified) \/ worker' = worker)
        /\ (caller' \in InBatch => caller \in InBatch)
    BY <1>5 DEF NotifyWorker, NotifyStop, pool, atomics, InBatch, Dispatched
  <2> QED BY <1>1, <1>2, <2>1
<1>6. ASSUME NEW w \in Workers, SpuriousWorkerWake(w)
      PROVE  SharesInv'
  <2>1. /\ UNCHANGED <<mode, generation, batch, partition, observed, range, local, nextChunk, scratch, cancelled, caller>>
        /\ Wake(w)
    BY <1>6 DEF SpuriousWorkerWake, pool, atomics, callerVars
  <2> QED BY <1>2, <2>1
<1>7. ASSUME NEW w \in Workers, BlockOnWork(w) \/ ReturnOnStop(w) \/ NotifyCompletion(w)
      PROVE  SharesInv'
  <2>1. /\ UNCHANGED <<mode, generation, batch, partition, observed, range, local, nextChunk, scratch, cancelled>>
        /\ worker[w] \notin AtWork
        /\ \E s \in {"waiting", "returned", "ready"} : worker' = [worker EXCEPT ![w] = s]
        /\ (caller' \in InBatch => caller \in InBatch)
    BY <1>7 DEF BlockOnWork, ReturnOnStop, NotifyCompletion, pool, atomics, callerVars, AtWork, InBatch, Dispatched
  <2>2. \A v \in Workers : worker'[v] = worker[v] \/ (worker[v] \notin AtWork /\ worker'[v] \notin AtWork)
    BY <2>1, SharesTypes DEF AtWork
  <2> QED BY <1>1, <2>1, <2>2
<1>8. ASSUME NEW w \in Workers, RecordError(w)
      PROVE  SharesInv'
  <2>1. worker[w] = "throwing" /\ UNCHANGED cancelled
    BY <1>8 DEF RecordError, atomics
  <2>2. cancelled'
    BY <2>1 DEF WorkerInv
  <2> QED BY <2>2 DEF SharesInv, Fine
<1>9. ASSUME NEW w \in Workers, CancelRange(w) \/ TrajectoryThrows(w)
      PROVE  SharesInv'
  <2>1. cancelled'
    BY <1>9 DEF CancelRange, TrajectoryThrows
  <2> QED BY <2>1 DEF SharesInv, Fine
<1> QED
  BY <1>3, <1>4, <1>5, <1>6, <1>7, <1>8, <1>9, DispatchKeepsShares, ObserveKeepsShares, ClaimKeepsShares,
     EndRangeKeepsShares, RunKeepsShares, CompleteKeepsShares
     DEF Next, CallerStep, LockedStep, FreeStep

-----------------------------------------------------------------------------
(***************************************************************************)
(* What the caller knows of a batch whose wait is over.                    *)
(***************************************************************************)
\* A batch that is collected is complete, and one that is merged is clean.
ResultInv ==
  /\ caller \in {"collecting", "merging", "taking"} => completed = batch.workers
  /\ caller \in {"merging", "taking"} => Fine

\* A runner that was just built.
LEMMA InitResultInv == ASSUME Init PROVE ResultInv /\ SharesInv
PROOF BY DEF Init, ResultInv, SharesInv, InBatch, Dispatched

\* Every step keeps what the caller has found out of the batch.
LEMMA StepKeepsResultInv ==
  ASSUME ResultInv, CallerInv, WorkerInv, ScratchInv, IndInv, [Next]_vars
  PROVE  ResultInv'
PROOF
<1>1. ASSUME UNCHANGED <<completed, batch, cancelled, scratch>>,
             caller' \in {"collecting", "merging", "taking"} => caller \in {"collecting", "merging", "taking"},
             caller' \in {"merging", "taking"} => caller \in {"merging", "taking"}
      PROVE  ResultInv'
  BY <1>1 DEF ResultInv, Fine
<1>2. ASSUME caller' \notin {"collecting", "merging", "taking"}
      PROVE  ResultInv'
  BY <1>2 DEF ResultInv
<1>3. CASE LeaveWait
  BY <1>3 DEF LeaveWait, atomics, ResultInv
<1>4. CASE AssembleWorkerResult
  BY <1>4 DEF AssembleWorkerResult, Clean, ResultInv, Fine, atomics, pool
<1>5. CASE MergeBatchDeltas \/ \E w \in Workers : TakeDelta(w)
  BY <1>1, <1>5 DEF MergeBatchDeltas, TakeDelta, atomics, pool, callerVars
<1>6. CASE \/ Run \/ DispatchBatch \/ NotifyWorker \/ TestCompletion \/ BlockOnCompletion
           \/ AdmissionThrows \/ EndMerge \/ NotifyStop \/ Join \/ Destroy \/ SpuriousCallerWake
  BY <1>2, <1>6 DEF Run, PrepareBatchRun, DispatchBatch, NotifyWorker, TestCompletion, BlockOnCompletion,
     AdmissionThrows, EndMerge, NotifyStop, Join, Destroy, SpuriousCallerWake
<1>7. CASE DeadlinePasses \/ UNCHANGED vars \/ \E w \in Workers : SpuriousWorkerWake(w) \/ LockedStep(w)
  BY <1>1, <1>7 DEF DeadlinePasses, SpuriousWorkerWake, LockedStep, BlockOnWork, ReturnOnStop, ObserveBatch,
     RecordError, vars, pool, atomics, callerVars
<1>8. ASSUME NEW w \in Workers, NotifyCompletion(w)
      PROVE  ResultInv'
  BY <1>1, <1>8 DEF NotifyCompletion, pool, atomics
<1>9. ASSUME NEW w \in Workers,
             \/ ClaimChunk(w) \/ EndRange(w) \/ CancelRange(w) \/ TrajectoryThrows(w) \/ Complete(w)
             \/ \E accepted \in BOOLEAN : RunTrajectory(w, accepted)
      PROVE  ResultInv'
  <2>1. worker[w] \in AtWork /\ caller' = caller
    BY <1>9 DEF ClaimChunk, EndRange, CancelRange, TrajectoryThrows, Complete, RunTrajectory, callerVars, AtWork
  <2> QED BY <1>2, <2>1, WorkFacts DEF Dispatched
<1> QED
  BY <1>3, <1>4, <1>5, <1>6, <1>7, <1>8, <1>9 DEF Next, CallerStep, FreeStep

-----------------------------------------------------------------------------
\* What the streams of a batch that is merged hold.
Stretch == batch.first .. batch.first + batch.count - 1

\* The streams to merge: each trajectory of the batch once, in one of them.
LEMMA WholeStreams ==
  ASSUME SharesInv, ResultInv, CallerInv, WorkerInv, ScratchInv, IndInv, caller \in {"merging", "taking"}
  PROVE  /\ \A w \in Workers : Distinct(scratch[w].stream)
         /\ \A v, w \in Workers : v # w => Elements(scratch[v].stream) \cap Elements(scratch[w].stream) = {}
         /\ \A w \in Workers : Elements(scratch[w].stream) \subseteq Stretch
         /\ \A id \in Stretch : \E w \in Workers : id \in Elements(scratch[w].stream)
PROOF
<1>1. caller \in InBatch /\ Fine /\ completed = batch.workers
  BY DEF InBatch, ResultInv
<1>2. (\A w \in Workers : OwnShare(w)) /\ ChunksShared
  BY <1>1 DEF SharesInv
<1>3. Done = Party /\ \A w \in Workers : worker[w] \notin AtWork
  BY <1>1, AllDone DEF IndInv
<1>4. \A w \in Workers : Share(w) = Elements(scratch[w].stream)
  BY <1>3 DEF Share, Todo, AtWork
<1>5. \A w \in Party : Started(w)
  BY <1>3 DEF Done, Started
<1>6. \A w \in Workers : w \notin Party => Elements(scratch[w].stream) = {}
  BY <1>2 DEF OwnShare, Started, Elements
<1>7. /\ context = batch /\ batch.workers = BatchCount(batch.count, WorkerCount)
      /\ mode # "Dynamic" => Divides(partition, batch.workers, batch.count)
      /\ batch.first \in Nat /\ batch.count \in Nat
  BY <1>1, SharesTypes DEF CallerInv
<1>8. Party = 0 .. batch.workers - 1 /\ 0 \in Party
  BY <1>7, RunnerAssumption DEF Party, Workers, BatchCount, Least
<1>9. CASE mode = "Dynamic"
  <2>1. nextChunk * ChunkSize >= batch.count /\ nextChunk * ChunkSize \in Nat
    <3>1. worker[0] \notin {"claiming", "running"} /\ Started(0) /\ 0 \in Workers
      BY <1>3, <1>5, <1>8 DEF AtWork, Party
    <3>2. nextChunk * ChunkSize \in Nat
      BY SharesTypes
    <3> QED BY <1>2, <1>9, <3>1, <3>2 DEF OwnShare
  <2>2. Claimed = Stretch
    BY <1>7, <2>1 DEF Claimed, Stretch, Least
  <2> QED BY <1>2, <1>4, <1>9, <2>2 DEF ChunksShared, OwnShare
<1>10. CASE mode # "Dynamic"
  <2> DEFINE R(w) == partition[w]
             Local(w) == Span(R(w).begin, R(w).end, R(w).stride)
  <2>1. \A w \in Party : Elements(scratch[w].stream)
          = Span(batch.first + R(w).begin, batch.first + R(w).end, R(w).stride)
    BY <1>2, <1>4, <1>5, <1>10 DEF OwnShare, Party
  <2>2. /\ \A w \in Party : R(w) \in Ranges /\ R(w).end <= batch.count
        /\ \A i \in 0 .. batch.count - 1 : \E w \in Party : i \in Local(w)
        /\ \A v, w \in Party : v # w => Local(v) \cap Local(w) = {}
    BY <1>7, <1>8, <1>10 DEF Divides
  <2>3. ASSUME NEW w \in Party, NEW id \in Int
        PROVE  id \in Elements(scratch[w].stream) <=> id - batch.first \in Local(w)
    <3>1. R(w).begin \in Nat /\ R(w).end \in Nat /\ R(w).stride \in Nat
      BY <2>2 DEF Ranges
    <3> QED BY <1>7, <2>1, <3>1, SpanShift
  <2>4. \A w \in Party : Elements(scratch[w].stream) \subseteq Int /\ Local(w) \subseteq 0 .. batch.count - 1
    <3> SUFFICES ASSUME NEW w \in Party
                 PROVE  Elements(scratch[w].stream) \subseteq Int /\ Local(w) \subseteq 0 .. batch.count - 1
      OBVIOUS
    <3>1. R(w).end \in Nat /\ R(w).end <= batch.count
      BY <2>2 DEF Ranges
    <3> QED BY <1>7, <2>1, <3>1 DEF Span
  <2> HIDE DEF Local, R
  <2>5. \A w \in Workers : Elements(scratch[w].stream) \subseteq Stretch
    <3> SUFFICES ASSUME NEW w \in Party, NEW id \in Elements(scratch[w].stream) PROVE id \in Stretch
      BY <1>6
    <3>1. id \in Int /\ id - batch.first \in 0 .. batch.count - 1
      BY <2>3, <2>4
    <3> QED BY <1>7, <3>1 DEF Stretch
  <2>6. \A v, w \in Workers : v # w => Elements(scratch[v].stream) \cap Elements(scratch[w].stream) = {}
    <3> SUFFICES ASSUME NEW v \in Party, NEW w \in Party, v # w,
                        NEW id \in Elements(scratch[v].stream), id \in Elements(scratch[w].stream)
                 PROVE  FALSE
      BY <1>6
    <3>1. id - batch.first \in Local(v) /\ id - batch.first \in Local(w)
      BY <2>3, <2>4
    <3> QED BY <2>2, <3>1
  <2>7. \A id \in Stretch : \E w \in Workers : id \in Elements(scratch[w].stream)
    <3> SUFFICES ASSUME NEW id \in Stretch PROVE \E w \in Workers : id \in Elements(scratch[w].stream)
      OBVIOUS
    <3>1. id \in Int /\ id - batch.first \in 0 .. batch.count - 1
      BY <1>7 DEF Stretch
    <3>2. PICK w \in Party : id - batch.first \in Local(w)
      BY <2>2, <3>1
    <3> QED BY <2>3, <3>1, <3>2 DEF Party
  <2> QED BY <1>2, <2>5, <2>6, <2>7 DEF OwnShare
<1> QED BY <1>9, <1>10

\* Adjacent deltas in order: all of them in order.
LEMMA OrderOfAll ==
  ASSUME NEW s \in Seq(Nat), IsFixedOrder(s), Distinct(s)
  PROVE  \A j, k \in DOMAIN s : j < k => s[j] < s[k]
PROOF
<1>1. DOMAIN s = 1 .. Len(s) /\ Len(s) \in Nat /\ \A k \in DOMAIN s : s[k] \in Nat
  OBVIOUS
<1> SUFFICES ASSUME NEW j \in DOMAIN s, NEW k0 \in DOMAIN s, j < k0, ~ (s[j] < s[k0])
             PROVE  FALSE
  OBVIOUS
<1> DEFINE Bad == {k \in Nat : k \in DOMAIN s /\ j < k /\ s[k] < s[j]}
<1>2. k0 \in Bad
  BY <1>1 DEF Distinct
<1>3. PICK k \in Bad : \A m \in Bad : k <= m
  BY <1>2, NatMin
<1>4. k - 1 \in DOMAIN s /\ j <= k - 1
  BY <1>1, <1>3
<1>5. s[k - 1] <= s[k]
  <2>1. k - 1 \in 1 .. Len(s) - 1 /\ (k - 1) + 1 = k
    BY <1>1, <1>3, <1>4
  <2> QED BY <2>1 DEF IsFixedOrder
<1>6. CASE k - 1 = j
  BY <1>1, <1>3, <1>5, <1>6
<1>7. CASE k - 1 # j
  <2>1. k - 1 \in Bad
    BY <1>1, <1>3, <1>4, <1>5, <1>7
  <2> QED BY <1>1, <1>3, <2>1
<1> QED BY <1>6, <1>7

-----------------------------------------------------------------------------
(***************************************************************************)
(* The merge of the streams.                                               *)
(***************************************************************************)
\* What the tables hold of a batch: all of it, each trajectory once, in order.
WholeBatches ==
  {m \in [batch : Batches, deltas : Seq(Nat)] :
     m.deltas = [k \in 1 .. m.batch.count |-> m.batch.first + k - 1]}

\* A merge has taken the first deltas of the batch, and each cursor stands
\* behind those of its stream.
MergeInv ==
  /\ cursors \in [Workers -> Nat \ {0}]
  /\ taken \in Seq(Nat)
  /\ merged \in Seq(WholeBatches)
  /\ caller # "taking" => taken = <<>> /\ \A w \in Workers : cursors[w] = 1
  /\ caller = "taking" =>
       /\ \A w \in Workers : IsFixedOrder(scratch[w].stream)
       /\ Len(taken) <= batch.count
       /\ \A k \in 1 .. Len(taken) : taken[k] = batch.first + k - 1
       /\ \A w \in Workers : \A k \in DOMAIN scratch[w].stream :
            k < cursors[w] <=> scratch[w].stream[k] < batch.first + Len(taken)

\* A runner that was just built.
LEMMA InitMergeInv == ASSUME Init PROVE MergeInv
PROOF BY DEF Init, MergeInv

\* Steps that do not merge.
LEMMA MergeFrame ==
  ASSUME MergeInv, UNCHANGED <<cursors, taken, merged>>,
         \/ caller' # "taking" /\ caller # "taking"
         \/ caller' = caller /\ UNCHANGED <<scratch, batch>>
  PROVE  MergeInv'
PROOF BY DEF MergeInv

\* A sequence over a set is one over any larger set.
LEMMA SeqOfSuperset ==
  ASSUME NEW S, NEW T, S \subseteq T, NEW s \in Seq(S)
  PROVE  s \in Seq(T)
PROOF
<1>1. s \in [1 .. Len(s) -> S] /\ Len(s) \in Nat
  OBVIOUS
<1>2. s \in [1 .. Len(s) -> T]
  BY <1>1
<1> QED BY <1>1, <1>2

\* What is left of the streams while the tables take them.
LEMMA Streams ==
  ASSUME SharesInv, ResultInv, CallerInv, WorkerInv, ScratchInv, IndInv,
         caller \in {"merging", "taking"}, NEW w \in Workers
  PROVE  /\ scratch[w].stream \in Seq(Nat)
         /\ DOMAIN scratch[w].stream = 1 .. Len(scratch[w].stream) /\ Len(scratch[w].stream) \in Nat
         /\ \A k \in DOMAIN scratch[w].stream :
              scratch[w].stream[k] \in Nat /\ scratch[w].stream[k] \in Elements(scratch[w].stream)
         /\ batch.first \in Nat /\ batch.count \in Nat
         /\ IsFixedOrder(scratch[w].stream) =>
              \A j, k \in DOMAIN scratch[w].stream : j < k => scratch[w].stream[j] < scratch[w].stream[k]
PROOF
<1>1. scratch[w].stream \in Seq(Ids)
  BY SharesTypes DEF Scratches
<1>2. Ids \subseteq Nat
  BY MaxCountIsMax, RunnerAssumption DEF Ids
<1>3. scratch[w].stream \in Seq(Nat)
  BY <1>1, <1>2, SeqOfSuperset
<1>4. Distinct(scratch[w].stream)
  BY WholeStreams
<1>5. IsFixedOrder(scratch[w].stream) =>
        \A j, k \in DOMAIN scratch[w].stream : j < k => scratch[w].stream[j] < scratch[w].stream[k]
  BY <1>3, <1>4, OrderOfAll
<1>6. \A k \in DOMAIN scratch[w].stream :
        scratch[w].stream[k] \in Nat /\ scratch[w].stream[k] \in Elements(scratch[w].stream)
  BY <1>3 DEF Elements
<1> QED BY <1>3, <1>5, <1>6, SharesTypes

\* merge_batch_deltas starts with nothing taken.
LEMMA StartKeepsMergeInv ==
  ASSUME MergeInv, SharesInv, ResultInv, CallerInv, WorkerInv, ScratchInv, IndInv, MergeBatchDeltas
  PROVE  MergeInv'
PROOF
<1>1. /\ caller = "merging" /\ UNCHANGED <<cursors, taken, merged, scratch, batch>>
      /\ caller' = IF \A w \in Workers : IsFixedOrder(scratch[w].stream) THEN "taking" ELSE "idle"
  BY DEF MergeBatchDeltas, pool, tables
<1>2. taken = <<>> /\ \A w \in Workers : cursors[w] = 1
  BY <1>1 DEF MergeInv
<1>3. ASSUME NEW w \in Workers, NEW k \in DOMAIN scratch[w].stream
      PROVE  k < cursors[w] <=> scratch[w].stream[k] < batch.first + Len(taken)
  <2>1. scratch[w].stream[k] \in Stretch
    BY <1>1, Streams, WholeStreams
  <2>2. scratch[w].stream[k] \in Nat /\ batch.first \in Nat /\ batch.count \in Nat /\ k \in Nat /\ k >= 1
    BY <1>1, Streams
  <2>3. Len(taken) = 0
    BY <1>2
  <2> QED BY <1>2, <2>1, <2>2, <2>3 DEF Stretch
<1>4. Len(taken) <= batch.count /\ \A k \in 1 .. Len(taken) : taken[k] = batch.first + k - 1
  BY <1>2, SharesTypes
<1> QED BY <1>1, <1>2, <1>3, <1>4 DEF MergeInv

\* The next delta is the next trajectory.
LEMMA NextIsNext ==
  ASSUME MergeInv, SharesInv, ResultInv, CallerInv, WorkerInv, ScratchInv, IndInv, caller = "taking",
         NEW w \in Left, IsNext(w)
  PROVE  HeadOf(w) = batch.first + Len(taken) /\ Len(taken) < batch.count
PROOF
<1>1. /\ \A v \in Workers : IsFixedOrder(scratch[v].stream)
      /\ \A v \in Workers : \A k \in DOMAIN scratch[v].stream :
            k < cursors[v] <=> scratch[v].stream[k] < batch.first + Len(taken)
      /\ \A v \in Workers : cursors[v] \in Nat /\ cursors[v] >= 1
      /\ Len(taken) \in Nat /\ Len(taken) <= batch.count
  BY DEF MergeInv
<1>2. ASSUME NEW v \in Left
      PROVE  /\ v \in Workers /\ cursors[v] \in DOMAIN scratch[v].stream
             /\ HeadOf(v) = scratch[v].stream[cursors[v]]
             /\ HeadOf(v) \in Nat /\ HeadOf(v) \in Stretch /\ HeadOf(v) >= batch.first + Len(taken)
  <2>1. v \in Workers /\ cursors[v] <= Len(scratch[v].stream)
    BY DEF Left
  <2>2. cursors[v] \in DOMAIN scratch[v].stream
    BY <1>1, <2>1, Streams
  <2>3. HeadOf(v) = scratch[v].stream[cursors[v]]
    BY DEF HeadOf
  <2>4. HeadOf(v) \in Nat /\ HeadOf(v) \in Stretch /\ batch.first \in Nat
    BY <2>1, <2>2, <2>3, Streams, WholeStreams
  <2>5. ~ (HeadOf(v) < batch.first + Len(taken))
    BY <1>1, <2>1, <2>2, <2>3
  <2> QED BY <1>1, <2>1, <2>2, <2>3, <2>4, <2>5
<1>3. w \in Workers /\ batch.first \in Nat /\ batch.count \in Nat
  BY <1>2, Streams
<1>4. Len(taken) < batch.count
  BY <1>1, <1>2, <1>3 DEF Stretch
<1> DEFINE id == batch.first + Len(taken)
<1>5. id \in Stretch /\ id \in Nat
  BY <1>1, <1>3, <1>4 DEF Stretch
<1>6. PICK v \in Workers : id \in Elements(scratch[v].stream)
  BY <1>5, WholeStreams
<1>7. PICK k \in DOMAIN scratch[v].stream : scratch[v].stream[k] = id
  BY <1>6 DEF Elements
<1>8. k \in Nat /\ k <= Len(scratch[v].stream) /\ k >= cursors[v] /\ Len(scratch[v].stream) \in Nat
  BY <1>1, <1>5, <1>7, Streams
<1>9. v \in Left
  BY <1>1, <1>8 DEF Left
<1>10. HeadOf(v) = id
  <2>1. CASE k = cursors[v]
    BY <1>2, <1>7, <1>9, <2>1
  <2>2. CASE cursors[v] < k
    <3>1. scratch[v].stream[cursors[v]] < scratch[v].stream[k]
      BY <1>1, <1>2, <1>7, <1>9, <2>2, Streams
    <3> QED BY <1>2, <1>5, <1>7, <1>9, <3>1
  <2> QED BY <1>1, <1>8, <2>1, <2>2
<1>11. HeadOf(w) <= HeadOf(v)
  BY <1>2, <1>9 DEF IsNext
<1> QED BY <1>2, <1>4, <1>5, <1>9, <1>10, <1>11

\* The tables take the next delta.
LEMMA TakeKeepsMergeInv ==
  ASSUME MergeInv, SharesInv, ResultInv, CallerInv, WorkerInv, ScratchInv, IndInv,
         NEW w \in Workers, TakeDelta(w)
  PROVE  MergeInv'
PROOF
<1>1. /\ caller = "taking" /\ w \in Left /\ IsNext(w)
      /\ taken' = Append(taken, HeadOf(w))
      /\ cursors' = [cursors EXCEPT ![w] = @ + 1]
      /\ UNCHANGED <<caller, merged, scratch, batch>>
  BY DEF TakeDelta, callerVars, pool
<1>2. /\ cursors \in [Workers -> Nat \ {0}] /\ taken \in Seq(Nat) /\ merged \in Seq(WholeBatches)
      /\ \A v \in Workers : IsFixedOrder(scratch[v].stream)
      /\ \A v \in Workers : \A k \in DOMAIN scratch[v].stream :
            k < cursors[v] <=> scratch[v].stream[k] < batch.first + Len(taken)
      /\ \A k \in 1 .. Len(taken) : taken[k] = batch.first + k - 1
  BY <1>1 DEF MergeInv
<1> DEFINE n == Len(taken)
           id == batch.first + n
<1>3. /\ HeadOf(w) = id /\ n < batch.count /\ n \in Nat
      /\ batch.first \in Nat /\ batch.count \in Nat /\ id \in Nat
  BY <1>1, <1>2, NextIsNext, SharesTypes
<1>4. /\ taken' \in Seq(Nat) /\ Len(taken') = n + 1 /\ taken'[n + 1] = id
      /\ \A k \in 1 .. n : taken'[k] = taken[k]
  <2>1. taken' = Append(taken, id) /\ taken \in Seq(Nat) /\ id \in Nat
    BY <1>1, <1>2, <1>3
  <2> HIDE DEF id
  <2> QED BY <2>1
<1>5. \A k \in 1 .. n + 1 : taken'[k] = batch.first + k - 1
  <2> SUFFICES ASSUME NEW k \in 1 .. n + 1 PROVE taken'[k] = batch.first + k - 1
    OBVIOUS
  <2>1. CASE k = n + 1
    BY <1>3, <1>4, <2>1
  <2>2. CASE k \in 1 .. n
    BY <1>2, <1>4, <2>2
  <2> QED BY <1>3, <2>1, <2>2
<1>6. /\ cursors' \in [Workers -> Nat \ {0}] /\ cursors'[w] = cursors[w] + 1
      /\ \A v \in Workers \ {w} : cursors'[v] = cursors[v]
  BY <1>1, <1>2
<1>7. cursors[w] \in DOMAIN scratch[w].stream /\ scratch[w].stream[cursors[w]] = id
  <2>1. cursors[w] <= Len(scratch[w].stream) /\ cursors[w] \in Nat \ {0}
    BY <1>1, <1>2 DEF Left
  <2>2. cursors[w] \in DOMAIN scratch[w].stream
    BY <1>1, <2>1, Streams
  <2> QED BY <1>3, <2>2 DEF HeadOf
<1>8. ASSUME NEW v \in Workers, NEW k \in DOMAIN scratch[v].stream
      PROVE  k < cursors'[v] <=> scratch[v].stream[k] < batch.first + (n + 1)
  <2>1. /\ scratch[v].stream[k] \in Nat /\ k \in Nat /\ cursors[v] \in Nat
        /\ k < cursors[v] <=> scratch[v].stream[k] < id
    BY <1>1, <1>2, Streams
  <2>2. CASE v = w
    <3>1. /\ k < cursors[w] => scratch[w].stream[k] < id
          /\ cursors[w] < k => id < scratch[w].stream[k]
          /\ cursors[w] = k => id = scratch[w].stream[k]
      BY <1>1, <1>2, <1>7, <2>2, Streams
    <3> QED BY <1>3, <1>6, <2>1, <2>2, <3>1
  <2>3. CASE v # w
    <3>1. id \in Elements(scratch[w].stream) /\ scratch[v].stream[k] \in Elements(scratch[v].stream)
      BY <1>7 DEF Elements
    <3>2. scratch[v].stream[k] # id
      BY <1>1, <2>3, <3>1, WholeStreams
    <3> QED BY <1>3, <1>6, <2>1, <2>3, <3>2
  <2> QED BY <2>2, <2>3
<1> HIDE DEF n, id
<1>9. Len(taken') <= batch.count
  BY <1>3, <1>4
<1>10. \A k \in 1 .. Len(taken') : taken'[k] = batch.first + k - 1
  BY <1>4, <1>5
<1>11. \A v \in Workers : \A k \in DOMAIN scratch[v].stream :
          k < cursors'[v] <=> scratch[v].stream[k] < batch.first + Len(taken')
  BY <1>4, <1>8
<1> QED BY <1>1, <1>2, <1>4, <1>6, <1>9, <1>10, <1>11 DEF MergeInv

\* The merge is over only when all of the batch is taken.
LEMMA EndKeepsMergeInv ==
  ASSUME MergeInv, SharesInv, ResultInv, CallerInv, WorkerInv, ScratchInv, IndInv, EndMerge
  PROVE  MergeInv'
PROOF
<1>1. /\ caller = "taking" /\ caller' = "idle"
      /\ Left = {} \/ \E w \in Left : IsNext(w) /\ Repeated(w)
      /\ merged' = Append(merged, [batch |-> context, deltas |-> taken])
      /\ taken' = <<>> /\ cursors' = [w \in Workers |-> 1]
  BY DEF EndMerge
<1>2. /\ taken \in Seq(Nat) /\ merged \in Seq(WholeBatches)
      /\ \A v \in Workers : cursors[v] \in Nat
      /\ \A v \in Workers : \A k \in DOMAIN scratch[v].stream :
            k < cursors[v] <=> scratch[v].stream[k] < batch.first + Len(taken)
      /\ Len(taken) <= batch.count /\ Len(taken) \in Nat
      /\ \A k \in 1 .. Len(taken) : taken[k] = batch.first + k - 1
  BY <1>1 DEF MergeInv
<1>3. context = batch /\ batch \in Batches /\ batch.first \in Nat /\ batch.count \in Nat
  BY <1>1, SharesTypes DEF CallerInv, InBatch
<1>4. ASSUME NEW w \in Left, IsNext(w) PROVE ~ Repeated(w)
  <2>1. HeadOf(w) = batch.first + Len(taken)
    BY <1>1, <1>4, NextIsNext
  <2>2. taken # <<>> => Len(taken) \in 1 .. Len(taken)
    BY <1>2
  <2>3. taken # <<>> => taken[Len(taken)] = batch.first + Len(taken) - 1
    BY <1>2, <2>2
  <2> QED BY <1>2, <1>3, <2>1, <2>3 DEF Repeated
<1>5. Left = {}
  BY <1>1, <1>4
<1>6. Len(taken) = batch.count
  <2> SUFFICES ASSUME Len(taken) < batch.count PROVE FALSE
    BY <1>2, <1>3
  <2> DEFINE id == batch.first + Len(taken)
  <2>1. id \in Stretch /\ id \in Nat
    BY <1>2, <1>3 DEF Stretch
  <2>2. PICK v \in Workers : id \in Elements(scratch[v].stream)
    BY <1>1, <2>1, WholeStreams
  <2>3. PICK k \in DOMAIN scratch[v].stream : scratch[v].stream[k] = id
    BY <2>2 DEF Elements
  <2>4. k \in Nat /\ k <= Len(scratch[v].stream) /\ k >= cursors[v] /\ Len(scratch[v].stream) \in Nat
    <3>1. k \in 1 .. Len(scratch[v].stream) /\ Len(scratch[v].stream) \in Nat
      BY <1>1, <2>3, Streams
    <3>2. ~(k < cursors[v])
      BY <1>2, <2>1, <2>3
    <3>3. cursors[v] \in Nat
      BY <1>2
    <3> QED BY <3>1, <3>2, <3>3
  <2>5. v \in Left
    BY <1>2, <2>4 DEF Left
  <2> QED BY <1>5, <2>5
<1>7. taken = [k \in 1 .. batch.count |-> batch.first + k - 1]
  BY <1>2, <1>6
<1>8. [batch |-> context, deltas |-> taken] \in WholeBatches
  BY <1>2, <1>3, <1>7 DEF WholeBatches
<1>9. merged' \in Seq(WholeBatches)
  BY <1>1, <1>2, <1>8
<1>10. cursors' \in [Workers -> Nat \ {0}] /\ taken' \in Seq(Nat) /\ \A w \in Workers : cursors'[w] = 1
  BY <1>1
<1> QED BY <1>1, <1>9, <1>10 DEF MergeInv

\* Every step keeps the progress of the merge.
LEMMA StepKeepsMergeInv ==
  ASSUME MergeInv, SharesInv, ResultInv, CallerInv, WorkerInv, ScratchInv, IndInv, [Next]_vars
  PROVE  MergeInv'
PROOF
<1>1. CASE \/ Run \/ DispatchBatch \/ NotifyWorker \/ TestCompletion \/ BlockOnCompletion \/ LeaveWait
           \/ AssembleWorkerResult \/ AdmissionThrows \/ NotifyStop \/ Join \/ Destroy \/ SpuriousCallerWake
  BY <1>1, MergeFrame DEF Run, PrepareBatchRun, DispatchBatch, NotifyWorker, TestCompletion, BlockOnCompletion,
     LeaveWait, AssembleWorkerResult, AdmissionThrows, NotifyStop, Join, Destroy, SpuriousCallerWake, tables
<1>2. CASE DeadlinePasses \/ UNCHANGED vars \/ \E w \in Workers : SpuriousWorkerWake(w) \/ LockedStep(w)
  BY <1>2, MergeFrame DEF DeadlinePasses, SpuriousWorkerWake, LockedStep, BlockOnWork, ReturnOnStop, ObserveBatch,
     RecordError, vars, pool, callerVars, tables
<1>3. ASSUME NEW w \in Workers, NotifyCompletion(w)
      PROVE  MergeInv'
  BY <1>3, MergeFrame DEF NotifyCompletion, pool, tables
<1>4. ASSUME NEW w \in Workers,
             \/ ClaimChunk(w) \/ EndRange(w) \/ CancelRange(w) \/ TrajectoryThrows(w) \/ Complete(w)
             \/ \E accepted \in BOOLEAN : RunTrajectory(w, accepted)
      PROVE  MergeInv'
  <2>1. worker[w] \in AtWork /\ caller' = caller /\ UNCHANGED <<cursors, taken, merged>>
    BY <1>4 DEF ClaimChunk, EndRange, CancelRange, TrajectoryThrows, Complete, RunTrajectory, callerVars,
       AtWork, tables
  <2>2. caller # "taking"
    BY <2>1, WorkFacts DEF Dispatched
  <2> QED BY <2>1, <2>2, MergeFrame
<1> QED
  BY <1>1, <1>2, <1>3, <1>4, StartKeepsMergeInv, TakeKeepsMergeInv, EndKeepsMergeInv
     DEF Next, CallerStep, FreeStep

-----------------------------------------------------------------------------
(***************************************************************************)
(* The theorems.                                                           *)
(***************************************************************************)
\* All that the theorems below need, preserved by every step together.
RunInv ==
  /\ IndInv
  /\ CallerInv
  /\ WorkerInv
  /\ ScratchInv
  /\ ChunksCounted
  /\ SharesInv
  /\ ResultInv
  /\ MergeInv

\* Every invariant above, at once: the caller and the workers keep them under
\* every interleaving, for every pool, batch size and scheduler mode.
THEOREM RunInvariance == Spec => []RunInv
PROOF
<1>1. Init => RunInv
  BY InitIndInv, InitCallerInv, InitWorkerInv, InitScratchInv, InitChunksCounted,
     InitResultInv, InitMergeInv DEF RunInv
<1>2. RunInv /\ [Next]_vars => RunInv'
  <2> SUFFICES ASSUME RunInv, [Next]_vars PROVE RunInv'
    OBVIOUS
  <2>1. IndInv /\ CallerInv /\ WorkerInv /\ ScratchInv /\ SharesInv /\ ResultInv
    BY DEF RunInv
  <2>2. IndInv'
    BY <2>1, CallerKeepsIndInv, LockedStepKeepsIndInv, FreeStepKeepsIndInv,
       EnvironmentKeepsIndInv, StutterKeepsIndInv DEF Next
  <2>3. CallerInv'
    BY <2>1, CallerKeepsCallerInv, WorkerStepKeepsCallerInv, EnvironmentKeepsCallerInv DEF Next
  <2>4. WorkerInv'
    BY <2>1, CallerKeepsWorkerInv, WorkerKeepsWorkerInv, EnvironmentKeepsWorkerInv DEF Next
  <2>5. ScratchInv' /\ SharesInv' /\ ResultInv'
    BY <2>1, StepKeepsScratchInv, StepKeepsShares, StepKeepsResultInv
  <2>6. ChunksCounted'
    BY <2>1, StepKeepsChunksCounted DEF RunInv
  <2>7. MergeInv'
    BY <2>1, StepKeepsMergeInv DEF RunInv
  <2> QED BY <2>2, <2>3, <2>4, <2>5, <2>6, <2>7 DEF RunInv
<1> QED BY <1>1, <1>2, PTL DEF Spec

\* The fields of the runner stay in their types: completed_workers_ never
\* passes the batch's worker count, next_dynamic_chunk_ runs past the last
\* chunk by at most one claim of each worker, and a stream holds ids of batches.
THEOREM TypeCorrect == Spec => []TypeOK
PROOF
<1>1. ASSUME RunInv
      PROVE  TypeOK
  <2>1. IndInv /\ CallerInv /\ WorkerInv /\ ScratchInv /\ ChunksCounted
    BY <1>1 DEF RunInv
  <2>2. {stop, active, cancelled, error, expired} \subseteq BOOLEAN
    BY <2>1, Zenon DEF CallerInv
  <2>3. completed \in 0 .. batch.workers
    <3>1. Done \subseteq Party
      BY DEF Done
    <3>2. CountTypes /\ CompletedCountsDone
      BY <2>1 DEF IndInv
    <3>3. Cardinality(Done) \in Nat /\ Cardinality(Done) <= batch.workers
      BY <3>1, <3>2, PartySize, FS_Subset, FS_CardinalityType
    <3> QED BY <3>2, <3>3, RunnerAssumption DEF CountTypes, CompletedCountsDone
  <2>4. nextChunk \in 0 .. MaxCount + WorkerCount
    <3>1. batch.count \in 0 .. MaxCount /\ nextChunk \in Nat /\ MaxCount \in Nat
      BY <2>1, MaxCountIsMax DEF CallerInv, WorkerInv, Batches
    <3> DEFINE chunks == DynamicChunkCount(batch.count, ChunkSize)
    <3>2. chunks \in 0 .. batch.count
      BY <3>1, ChunksCover, RunnerAssumption
    <3>3. Past \in SUBSET Workers
      BY DEF Past, Party
    <3>4. Cardinality(Past) \in 0 .. WorkerCount
      BY <3>3, PartCounted
    <3>5. nextChunk <= chunks + Cardinality(Past)
      BY <2>1 DEF ChunksCounted
    <3> HIDE DEF chunks
    <3> QED BY <3>1, <3>2, <3>4, <3>5, RunnerAssumption
  <2>5. observed \in [Workers -> 0 .. MaxBatches]
    <3>1. \A w \in Workers : observed[w] \in 0 .. MaxBatches
      BY <2>1, RunnerAssumption DEF IndInv, CountTypes, ObservedPast, CallerInv
    <3> QED BY <2>1, <3>1 DEF IndInv, CountTypes
  <2>6. \A w \in Workers : scratch[w].stream \in Seq(0 .. MaxCount * MaxBatches)
    BY <2>1 DEF ScratchInv, Scratches, Ids
  <2>7. worker \in [Workers -> {"ready", "waiting", "claiming", "running", "throwing",
                                "sorting", "failed", "last", "returned"}]
    BY <2>1 DEF WorkerInv, WorkerStates, AtWork
  <2>8. mode \in Modes /\ mutex \in {"free", "caller"} /\ generation \in 0 .. MaxBatches
        /\ notified \in 0 .. WorkerCount
    BY <2>1 DEF CallerInv
  <2>9. caller \in {"idle", "prepared", "notifying", "awaiting", "blocking", "blocked",
                    "collecting", "merging", "taking", "stopping", "joining", "destroyed"}
    BY <2>1 DEF CallerInv, CallerStates, Dispatched
  <2> QED BY <2>2, <2>3, <2>4, <2>5, <2>6, <2>7, <2>8, <2>9 DEF TypeOK
<1> QED BY <1>1, RunInvariance, PTL

\* What the coordinator's tables take is whole batches: every trajectory once
\* and in the order of its id, however the scheduler divided the batch and
\* however the threads interleaved; nothing of a cancelled or failed batch, and
\* no merge stops half-way.
THEOREM WholeBatchesMerged == Spec => []MergedIsWholeBatch
PROOF
<1>1. ASSUME RunInv
      PROVE  MergedIsWholeBatch
  <2>1. merged \in Seq(WholeBatches)
    BY <1>1 DEF RunInv, MergeInv
  <2>2. \A i \in DOMAIN merged : merged[i] \in WholeBatches
    BY <2>1
  <2> QED BY <2>2 DEF MergedIsWholeBatch, WholeBatches
<1> QED BY <1>1, RunInvariance, PTL

=============================================================================
