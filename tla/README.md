# TexasSolverLib: a TLA+ verification project

TexasSolverLib is a C++ library of poker solvers. Its largest part is the *multiway* solver (two to
six players, no-limit hold'em): a sampled CFR trainer that runs batches on worker threads and keeps
its tables in a crash-safe store on disk, a betting and settlement engine, and the sessions,
checkpoints and artifacts around them. Beside it stand the heads-up games and their solvers. This
project models the parts whose correctness depends on the order of steps - files, threads, crashes,
phases of a hand - and the algorithms whose result can be compared with a plain definition on small
inputs, and checks and proves what they promise. `PROJECT.json` has the exact correspondence: the
source lines of every definition, the runs, mutants for every property, the findings, the hazards
and the theorems.

## 1. Inventory

Paths are relative to `src/src/`; `mw/` stands for `solver/multiway/`.

| Component | State | Operations | Hard behaviour | What makes it correct |
|---|---|---|---|---|
| Aggregate batch transaction (`mw/engine/multiway_external_transaction.cpp`, `..._training_storage.cpp`) | `TRAINING_CURRENT`, `TRAINING_BATCH.wal`, a backup per component; `current_`, `batch_open_` | begin, append, compact, finalize, commit, abort, recover | a crash between any two file operations; a removal or a sync that fails; a rollback that is interrupted | a reader sees whole batches; the store can always be opened |
| Record store (`..._external_record_store.cpp`, `..._compaction.cpp`) | `CURRENT`, runs, `BATCH.wal`, cache, checkpoint pins | append, lookup, compact, reclaim, recover | replay of a journal, orphans, pinned runs, chunked appends | an atomic map; the newest value wins; what a checkpoint names is kept |
| Checkpoint and restore (`..._external_checkpoint*.{cpp,hpp}`, `..._storage_detail.hpp`) | checkpoint manifest, pins, `CHECKPOINT_RESTORE.wal`, backups | save, load, release, restore, recover a restore | a crash inside a restore or inside its recovery | all manifests move together or not at all |
| Page cache (`..._external_compact_pages.cpp`, `..._compact_storage.cpp`, `..._page_cache.cpp`) | resident, pinned and dirty pages; open page batch | load, mark dirty, flush and continue, commit | several flushes in one batch, a full cache, a flush that fails half way | no update is lost or written twice |
| Coordinator (`..._coordinator_*.cpp`, `multiway_solver.cpp`) | rows, catalog, budgets | admit, merge, snapshot | a merge that fails half way | a batch is merged whole or not at all, but for compact pages, which keep the part before the failure |
| Root batch runner (`multiway_batch_runner.cpp`, `multiway_scheduler.cpp`) | thread pool, mutex, condition variables, generation, scratch per worker | run, worker loop, destroy | lost and stale notifications, cancellation, deadlines, exceptions | the merged result does not depend on the schedule; `run` and the destructor return |
| Betting (`games/multiway_state.cpp`, `multiway_fixed.cpp`, `multiway_rules.cpp`) | stacks, contributions, actor, raise rights | fold, check, call, raise, all-in, next street | short all-ins and reopening; run-out when nobody can act | chips conserved; nobody skipped or asked twice; the hand ends |
| Settlement (`games/multiway_terminal.cpp`, `multiway_fixed.cpp`) | - | refunds, side pots, rake, winners, odd chips | several all-ins, folded contributors, rake cap | pays out what was put in, to those entitled to it |
| Replay, private cards (`games/multiway_replay.cpp`, `multiway_private.cpp`) | history | record, replay | - | the history reproduces the state |
| Atomic publication (`core/atomic_publish.cpp`) | temporary, destination, `.previous` | rename with a fallback | a crash inside the fallback | the old or the new file is there |
| Blueprint training (`mw/blueprint/*`) | schedule, counters, checkpoints, artifacts | train, checkpoint, export, resume | stop requests, gates that abort between merge and checkpoint | a resumed run continues where the checkpoint was |
| Sessions and resolver (`mw/session/*`, `mw/resolver/*`, `mw/continuation/*`) | belief ranges, root revision, frozen decisions | observe, search, decide, re-root | a stale search used after an observation; a deadline before the first batch | a decision belongs to the present root |
| Abstraction (`mw/abstraction/*`) | bucket tables, bounded queue | generate on threads, publish in order | a slow first job, a failing job | all buckets published, in order |
| Root traversal and discovery (`multiway_root_traversal.cpp`, `multiway_discovery.cpp`) | delta, discovery and continuation streams, visit counters | run a trajectory, merge streams | a trajectory refused in the middle, full streams, two workers with one discovery | estimates without bias; whole streams; an order the coordinator can admit |
| Heads-up, Kuhn and Leduc games (`games/hunl*.cpp`, `leduc.cpp`, `kuhn.cpp`, `solver/hunl/*`) | betting state, solve graph | act, deal, build | unequal all-ins, refunds, frames of the iterative builder | chips conserved, hands end, the flat graph is the tree |
| Generic and flat solvers (`solver/generic`, `solver/hunl/flat`, `util/simd.cpp`) | regrets, strategy sums, phase pools | iterate, discount, merge | thread pools with failing workers and retried calls; lanes and tails | every phase ends; tables do not depend on the schedule |
| Preflop solvers (`preflop`) | equity tables | iterate | numeric | - |
| Logging (`logging/*`) | the active logger | log, flush, shut down | a caller against a shutdown | no use after destruction |
| Workflow, evaluation, utilities | settings, reports | - | sequential text and numbers | - |

How they interact. The training loop asks the batch runner for a batch; the runner's workers write
deltas to scratch of their own; the caller waits for all of them, lets the coordinator admit what was
discovered and merge the deltas. With external storage a merge is bracketed by the aggregate
transaction: `begin_batch` copies the component manifests and publishes a journal, the catalog and
row stores append, runs are compacted, pages are flushed, and `commit_batch` publishes
`TRAINING_CURRENT`; an exception anywhere calls `abort_batch`. A checkpoint pins the runs of a
committed generation in every component; a restore replaces all manifests before any store opens.
Trajectories, sessions and rollouts step hands with the betting engine and value them with the
settlement. The bucket artifacts that the traversal keys its rows by are generated by a pool and
written by a run of their own; a trained blueprint is exported to artifacts that the resolver and
the sessions read.

## 2. Modules

The store and its checkpoints:

| Module | Models | State and actions |
|---|---|---|
| `AtomicBatch` | what the training store promises | a batch number and a manifest per component, changed by `Commit` only |
| `ExternalTransaction` | the batch transaction and the file operations of its components | one variable per file; one action per rename, removal or copy that a crash can separate from the next; `pc` is the step of the running operation. Loops over components are steps with an `index`. `Crash` forgets the memory and keeps the files |
| `AtomicRestore`, `CheckpointRestore` | the promise of a restore, and the restore with its journal, its recovery, its failures | `file[p]`, `backup[p]` for every component and the aggregate manifest; commits and saves are single steps here |
| `RecordMap`, `ExternalRecordStore` | the promise of a component store (a map changed by whole appends), and the log-structured store | data, index, manifest, journal, pins and checkpoint; `store` and `cache` are the memory; `work` holds the arguments of the running operation |
| `ExternalCompactPages` | the page cache, readers that pin pages, page batches | slots, pins, dirty pages, the committed cells; readers and the writer interleave; a load, a flush or a commit may fail |
| `ExternalRowIndex` | the durable row index | records and allocator on disk, the object's copy of the allocator, the open batch |
| `PublicCatalog` | the packed catalog and its external counterpart | nodes, menus and their indexes; both are given the same admissions and compared |
| `DiscoveryMerge` | worker streams of public states and rows, and their two merges | bounded streams, the scan and the heap, conflicts, the parents-first order |
| `Coordinator` | admission, merge, pruning, checkpoint over the Float64, compact and external backends | one action per operation under the exclusive lock, with the places where it throws |

The services:

| Module | Models | State and actions |
|---|---|---|
| `Resolver` | `MultiwayResolver::resolve` from several threads | one request per thread; stages, batches under a deadline, the cache of a stable root policy, the chain of fallbacks |
| `DecisionSession`, `FullHandSession` | the sessions | beliefs as supports, root revision, clean snapshot, frozen policies; observe, search, freeze, re-root; history and its replay |
| `CheckpointArtifact` | a checkpoint file and `publish_atomic_replace` | the file as a sequence of tagged cells; writes, renames, fallbacks, crashes and merges in between |
| `TrainingRun` | the train workflow | invocations that open or resume, batches, schedule, gates, checkpoints, stop |
| `BlueprintExport` | `save_full_policy_atomic`, the readers and the providers | plan under a lease, rows in key order, file or shards and manifest, verification, lookup |
| `BucketArtifact` | catalog, tables, packed file, registry and the bucket run | staging file, sidecar, conversion, publication; crashes and resumes |

The games and the solvers:

| Module | Models | State and actions |
|---|---|---|
| `MultiwayBetting` | the betting state and its transitions, and the settlement of a hand that is over | the fields of `MultiwayFixedState`; one action per `MultiwayActionType` and `BeginNextStreet`; `SettleHand` hands the last state to the settlement |
| `MultiwayTerminal` | pots, refunds, rake, odd chips | operators, which `MultiwayBetting` applies to every end of a hand; the pot layout computed the way the code does, against a chip-by-chip definition |
| `HunlRules`, `HunlGraph` | the rules of the heads-up game, its recursive tree and the flat graph | a state is a value; the builder's loop over its stack of frames is the behaviour |
| `HeadsUpGames` | one hand of the heads-up game, of Kuhn and of Leduc | a configuration and a state; one variable each for Kuhn and Leduc |
| `GenericCfr`, `ParallelDcfr` | `DCFRSolver` with its best responses, and the phase pool of the parallel solver | tables of exact fractions; one turn of a loop per step; one step per access to the pool |
| `MultiwayTraversal` | one trajectory of the multiway search, and the merge of the continuation streams | a random choice is taken from a tape, so that the sum over all tapes can be compared with the exact value |
| `RolloutLeaf` | the rollout leaf, its cache and diagnostics | calls one after another over a shared cache |
| `BucketGeneration` | the two generators of bucket chunks | one mutex, one condition variable, workers and the publishing caller |
| `BatchRunner` | `MultiwayScheduler`'s partitions of a batch; the pool threads and the thread that calls `run` and the destructor | `caller` and `worker[w]` say where a thread is; critical sections are one step, except the caller's wait, whose test and block are two, since the counter it tests is changed without the mutex; a turn of the merge's loop is a step, `cursors` and `taken` its cursors and what the tables have taken |
| `FlatSampling`, `FlatWorkers` | the kernels and the pool of the flat MCCFR solver | tapes again; sub-batches handed out by a generation number, failures, shutdown |
| `FlatDcfr` | the staged flat DCFR solver | a stage is a phase of the pool, a worker handles one item at a time |
| `VectorKernels` | the row kernels of `simd.cpp` | a step is a turn of a loop over 4, 2 or 1 lanes |
| `Fractions` | the solvers' doubles | exact fractions in lowest terms |

`ExternalTransactionProofs`, `CheckpointRestoreProofs`, `ExternalRecordStoreProofs`,
`ExternalPagesProofs`, `TrainingProofs`, `ServiceProofs`, `MultiwayBettingProofs` and
`BatchRunnerProofs` hold the theorems.

Components that share no state are checked by one run: `MCEngine` (the tables beside the restore),
`MCSystem` (the services beside the transaction), `MCGames` (games, search, rollouts and bucket
generation beside the multiway hand) and `MCSolvers` (the flat solvers beside the batch runner)
instantiate them over shared variables, and `component`, chosen in `Init` and never changed, says
which of them a behaviour runs. Their properties say, for each component, that it is sound; the
conjuncts are named in the component's own module. Recursive operators stay out of the modules that
the proofs reach.

Data is abstracted to what the properties tell apart. A record's payload is the number of the append
that wrote it, so a lost, doubled or stale write shows. A run's content hash is its content. A
trajectory's deltas are its id in the runner, and exact fractions in the traversal. A manifest in
`CheckpointRestore` is the number of the batch that wrote it. A cell of a checkpoint is tagged with
the version of the tables it was read from; the tables of a training run are the sequence of
operations applied to them; beliefs are the support of their weights. Hand strengths are any weak
order of the live hands. Hashes are taken as injective. Names, encodings, telemetry, profiling, CPU
placement and fingerprints of settings are left out.

What a crash does: the process loses its memory, the files stay as the last completed operation left
them. A file that was being written is either a temporary, which recovery removes, or, where the
code copies or appends in place (the transaction's backups, the staging file of a bucket run), may
be torn. Renames are atomic. Reordering of completed operations by a file system after power loss is
not modelled; the code syncs files and directories against it, and what happens when such a sync
reports an error is modelled.

## 3. Runs

| Run | Instance | What it shows |
|---|---|---|
| `transaction` (`MCSystem`) | 2 components, fan-in 2, disk limit, 3 batches, 2 crashes; and the services below | `CommittedStoreIntact`: at any step the committed generation can be recovered. `NoReplayOfRolledBackBatch`. `RefinesAtomicBatch`. `OpenTerminates`: opening ends whatever the crashes left. `ServicesSound`: resolver and sessions. `TrainingSound`: checkpoint files, training runs, exports, bucket runs. `ServiceStepsSafe`: what no step of them may do |
| `transaction_sync_fails` | a directory sync may fail | **violation** of `OpenTerminates` |
| `restore` (`MCEngine`) | 2 components, 3 versions, 3 crashes, 2 failures; and the tables below | `OpenStoreConsistent`, `NoStaleRestoreFile`, `RefinesAtomicRestore`. `StorageSound`: pages, row index and coordinator. `AdmissionSound`: merged discoveries and both catalogs. `TableStepsSafe` |
| `restore_two_interruptions` | 1 failure, 1 crash | **violation** of `RecoveryTerminates` |
| `record_store` | 2 keys sharing a cache slot, fan-in 2, 3 appends, checkpoints, a crash, a crash in a save | `ManifestReadable`, `CheckpointIntact`, `RefinesRecordMap` |
| `record_store_chunks` | chunked appends under a disk limit, 2 crashes or exceptions, a removal of `BATCH.wal` that fails | `CacheCoherent`, `MemoryMatchesDisk`, `NextRunFree`, `RefinesRecordMap`. `DurableBatchReplayed`: a record in the complete journal of a new batch ends in the manifest, and only a redo that is itself stopped can lose it |
| `record_store_save_interrupted` | a crash in a save | **violation** of `NextRunFree` |
| `record_store_stale_wal` | a removal of `BATCH.wal` that fails, checkpoints | **violation** of `ContentsKept` |
| `multiway_hand` (`MCGames`) | 3 seats, stacks 1, 2, 5 or 9, blinds 1 and 2, rake 25 % capped at 3; and the games below | `ChipsConserved`, `SeatsValid`, `ClosedRoundIsMatched`, `SnapshotValidFromRules`. `SettlementConserves`: every pot is claimed (`EveryPotClaimed`), and payouts, refunds and rake are what was put in. `GamesSound`, which includes that each chip goes where the slice-by-slice definition sends it (`SettlementMatchesSlices`); `GamesEnd` |
| `multiway_hand_unequal` | 2 seats, stacks 2 and 6 | **violation** of `SnapshotValid` |
| `batch_runner` (`MCSolvers`) | 2 workers, all modes, batches of 0 and 3, chunks of 2, 2 batches; and the solvers below | `MergedIsWholeBatch`, `ScratchNotShared`, `RunnerReusable`, `WorkersFinish`. `SolversSound`, `SolversFinish` |
| `batch_runner_returns` | 1 worker, 1 batch | **violation** of `BatchReturns` |

Every passing run also checks the type invariant of the module it is about (the chunked run of the
record store leaves it to the other one), and for every property of a passing run `PROJECT.json`
names mutants, plausible slips in the code, that break it; a property over several components has at
least one for each.

The hosted components and their bounds:

| Component | Instance |
|---|---|
| Page cache | 3 pages, capacity 2, 2 readers, up to 2 updates of a page, merges until the pages have had 3 updates, batches larger than the cache |
| Discovery, catalogs, row index | 3 streams of capacity 2; 6 nodes; pages of 2 cells, batches of up to 3 rows |
| Coordinator | 3 backends, 8 values, 2 batches of 2, a limit of 2 to a cell |
| Resolver | 2 threads, 2 requests, 2 calls, 2 batches each |
| Decision session; full hand | deck of 5, 3 boards, 3 observations, revision up to 4; 2 seats |
| Checkpoint artifact | 3 versions, 3 saves, 2 crashes |
| Training run | 3 batches, 3 invocations, a gate at 9 trajectories |
| Export | 3 shapes, 6 rows, 3 shards, 2 versions, 2 exports, 1 crash |
| Bucket artifacts | decks of 6 and 7, 3 suits, bytes of 4 values, 4 profiles, two of them with exactly as many buckets as one and two bytes hold; a run of 11 tables in chunks of 2, a checkpoint every 4, 2 identities, 3 runs, 2 crashes |
| Heads-up hands; graphs | 12 configurations, stacks 2 to 12, deck of 9; 5 configurations, stack up to 8, 4 worker ranges |
| Kuhn and Leduc | the complete games |
| Generic solvers | 3 trees of 11 or 12 nodes, up to 2 iterations, 1 or 2 workers, 1 failure |
| Multiway search | 12 configurations: a turn tree of 14 nodes, a flop dealt from 4 cards, a preflop all-in, three players on the river; pruning, full streams, shallow leaves, direct admission; 2 trajectories per batch |
| Rollout leaf | a turn, a flop and a preflop leaf, decks of 14, 10 and 9, batches of 2 seeds, 3 calls, caches of 1 to 3 |
| Bucket generation | 6 calls, up to 4 chunks of 2 tables, 1 or 2 workers, 1 failure |
| Flat MCCFR | games of 12 and 7 nodes; a pool of 2 workers, 3 traversals, sub-batches of 2, 3 iterations, 1 failure |
| Flat DCFR | games of 8 nodes, 1 or 2 workers, up to 2 iterations, 1 failure |
| Vector kernels | rows of 0 to 9 values, 5 backends |

Why the bounds are enough. Two components show every state between the first and the last of a
loop; the proofs below remove that bound. Three batches are needed for a rollback to return to a
generation that itself followed a committed one and a compaction; two crashes interrupt a recovery
that recovers from the first crash. Two keys in one cache slot collide, in two slots do not; fan-in
2 makes two runs enough for a compaction, and its result and a third run enough for another. Three
pages in two slots force an eviction, and a batch that touches all of them several flushes. In the
hand, a stack of 1 is all in with the small blind, 2 with the big blind, 5 can raise below the
minimum, 9 can cover everybody; three seats give a main pot and two side pots. Three trajectories on
two workers give unequal shares and, in chunks of two, a short chunk; an empty batch wakes one worker
and leaves the other to sleep through it, so the workers' generations differ. Eleven tables in chunks
of two and checkpoints of four leave a short chunk and a tail after the last checkpoint. The trees of
the solvers have a chance node, an information set with two nodes and a decision below a decision,
and are enumerated over every tape, so an estimate is compared with the exact value and not sampled.
Rows of up to nine values have every remainder of the four-lane and the two-lane loop.

Deadlock. `CHECK_DEADLOCK FALSE` is set where the system really stops: a bounded number of batches
is over, a runner is destroyed - and where a lost notification blocks the caller, which is what
`batch_runner_returns` is about. `multiway_hand` and the record store runs keep the deadlock check: in
`MCGames` a hand or a call that is over (`Over`) repeats its last state, so a state without a successor
is one where it should go on and cannot. For the pools of the solvers and of bucket generation deadlock
is an invariant of its own as well (`NeverStuck`): until the call is over some thread can step.

Fairness. A process that is recovering a store goes on unless it crashes, and crashes are bounded
(`WF(RecoveryStep)`; for the record store `Continue`, opening, and closing after an error): the steps
are sequential code without a wait. A hand goes on (`WF` on its step): the solver or the session
always chooses some action; which one is left open, so `GamesEnd` says that no choice of actions goes
on for ever. So does a generation: while one of its threads can take a step, some step is taken. A solve
takes a step while its caller or one of its workers is awake (`SomeThreadRuns`), and the building of a
graph, a search and a rollout, which are one thread that waits for nothing, until they are over; that
they can take one there is the deadlock check. Which thread steps is left open, and nothing is assumed
of threads that all sleep, so a worker that failed to notify leaves its caller asleep and `GamesEnd`
violated. In the batch runner's pool every thread that can run is scheduled
(`WF`), and a mutex that is free again and again is granted (`SF` on the steps that acquire it); the
flat pools have `WF` on the steps of each thread. Where `ENABLED` of a step is costly the same
fairness is written out with the step's enabling condition. Nothing obliges anybody to call `run`, a
deadline to pass or a condition variable to wake spuriously, and no fairness is assumed of crashes or
failures.

## 4. Findings

1. *A pending journal without its backups* (`multiway_external_transaction.cpp:70`). The catch block
   of `begin_batch` removes the backups before the journal. If the directory sync after the rename of
   the journal fails and the process stops in that block, every later open throws.
   `clear_pending_batch` has the order right.
2. *The same order in a restore* (`multiway_external_storage_detail.hpp:729`).
   `cleanup_checkpoint_restore` removes the backups before the journal; after a rolled-back restore an
   interruption there leaves a store that can neither be opened nor restored.
3. *Pins of a save that never finished* (`multiway_external_checkpoint.cpp:263`). After a restore the
   pinned newer run stays and the next append throws "generation file already exists".
4. *A `BATCH.wal` that could not be removed* (`multiway_external_record_store.cpp:399`) is replayed
   on top of an older checkpoint that was restored.
5. *A lone seat left pending* (`multiway_fixed.cpp:81`). With unequal stacks a legal call closes the
   round but leaves the covering seat pending, and `MultiwayState::apply` throws. The rules profile,
   which gives every seat the same stack, never reaches it (`SnapshotValidFromRules`).
6. *A lost wake-up* (`multiway_batch_runner.cpp:567`). The last worker counts itself and notifies
   without the mutex; a caller between its test and its block misses the notification.

### Behaviour the model keeps and a reader should know of

These follow from the code as it is written and are part of the models (or bound them); none of them
contradicts a property that is checked, and where one limits a property, the property says so.

*Store and tables.* `recover_wal` removes a complete journal before it appends its records again
(`multiway_external_record_store.cpp:1233`), so a second crash, or a refusal for want of disk, before
the new journal is complete loses a durable batch; `DurableBatchReplayed`, checked with two crashes,
excepts exactly the redo that is stopped. The complete journal of a later chunk of a batch is dropped,
because its batch number is that of `CURRENT` (line 1155): after a crash a chunked batch may be there in
part. Where the aggregate transaction covers the append, neither matters. `restore_checkpoint` is right
only on a fresh coordinator. The preflight of a compact merge counts first pages only, so a later page
may overflow in the middle of a merge; the deltas before it, in the order of the whole batch, stay in
the cells (`CellsAreMergedBatches` says which). `public_states_admitted` is raised even when the external
batch is aborted afterwards, so with external storage it only bounds the catalog from above
(`TablesClosed`). A fresh external run over a used store is accepted.

*Services.* An unclean second batch discards an earlier clean snapshot in the resolver. The root
revision is raised before the constructor of the next search session, which may throw.
`FullHandSession::decide` sends ranges that were not narrowed by the hero's cards, so they may be
refused, and returns its frozen policy for any hand until the next street. The exports of root sums
and root policy do not read the external backend: there the late window starts from zeros and the
root policy is uniform. The fallback of `publish_atomic_replace` can leave the old file under
`.previous` and no destination. Store and mapped provider report different statuses for one missing
row; old shard generations are never removed; an export may throw after it has published. In a bucket
run a `.schema5` or `.assignments` file left by a crash makes every later finish throw until it is
removed by hand, and a temporary without a sidecar is refused.

*Bucket generation.* The serialized generator reads the count of its chunk from the slot it has
already given back (`multiway_bucket_generation.cpp:691`). With a short last chunk a worker may have
written another count there: progress is then under-reported and the caller waits for an index that
no chunk has. `GenerationSound` and `GamesEnd` state exactly this exception (`Misread`). A thread that cannot be
started ends the process in the serialized kind and throws in the other.

*Heads-up rules.* A small blind and ante of the whole stack leave a decision without an action, where
the hand of the model stops (`NoMoveFromBlind`). From
unequal postflop contributions a short call is not refunded. For an undealt root the flat builder
gives a lone chance node where the recursive one throws. Infoset keys sort the whole board, so the
boards (abc|d) and (abd|c) share a key.

*Flat and generic solvers.* The recursive MCCFR kernels keep action values in one scratch array, so a
decision expanded below a later action overwrites earlier values; the iterative kernel is right. The
average-strategy kernel shares two more arrays and is modelled on games without nested own
decisions. Sparse rows start with discount iteration 0. A throw during a merge leaves part of a
sub-batch merged. In `HUNLFlatDCFR` player 1's regrets use player 0's values without a change of
sign, only the first node of an infoset is read, and a failed stage is applied again on retry. The
parallel generic solver expands frontier decisions with reach 1 and never updates infosets above the
frontier. The serial one reads regrets updated earlier in the same traversal, so its exactness is
checked for players whose infosets have one node. The best-response loop is guaranteed to end only
with perfect recall.

*Search and rollouts.* With exploration 0 and all actions below the pruning threshold a run throws.
Admissions made directly, visit counters and selector updates of a refused run stay. Canonical edges
deal a preflop all-in one card at a time, the sampler three first. In a rollout the limit of betting
actions is shared by all seeds of a policy, the cache never evicts, and `flop_seen` comes from the
street and not from the board, unlike in the terminal adapter, so a preflop all-in is not raked
although its flop was dealt, which is what `multiway_fixed.hpp:134` says the field means; the
reference a rollout is compared with (`Worth`) follows the street as well, so no property catches it.

## 5. Proofs

All for every value of the constants, from the assumptions named in the modules (counts are natural
numbers, fan-in at least two, and the like).

`ExternalTransactionProofs`. *TypeCorrect*, *Invariance*, *StoreIntact*, *NoReplay* and *Refinement*;
all but the first assume that directory syncs do not fail (`DirectorySyncMayFail = FALSE`), without
which finding 1 refutes the claim. `CommittedStoreIntact` alone is not inductive: it says that the
files are there, not that the step in progress will leave them alone. The invariant adds: a manifest
lists only existing runs (`ManifestRuns`); in which steps a journal may be pending and the memory
may lag behind `TRAINING_CURRENT` (`PhaseOfJournal`); how far the backups of a beginning batch have
come (`BeginPhase`); that an open batch remembers where it started (`OpenPhase`); that a rollback
has restored the components before its index (`RollbackPhase`); that what a compaction is about to
delete belongs to the open batch and to no manifest (`CompactPhase`), and, without a disk limit,
that the runs to roll back to are still listed until the one compaction of the batch
(`RetainedUntilCompaction`); and that a component journal is ahead of its manifest only inside an
append (`WalPhase`). Each action preserves it in a lemma of its own. The refinement maps the
abstract content to what a recovery would yield, so that every step but the rename of
`TRAINING_CURRENT` is a stutter. These theorems also cover the settings that have no run: no disk
limit, and appends whose recovery the aggregate journal covers.

`CheckpointRestoreProofs`. *TypeCorrect*, *StoreConsistent*, *NoStaleFile* and *Refinement*, for any
number of components, versions, crashes and failed restores. The invariant speaks of one version
`v`, the one the directory had before the restore: without a journal every part has it, with one
each part has it or the target's and a backup is missing only where it is not needed (`OneVersion`);
a rollback has returned the parts below its index to it (`RollbackPhase`); backups are removed in
order and only when nothing is left to roll back (`CleanupPhase`); a restore copies every part
before it writes the journal and publishes only what it can roll back (`RestorePhase`). The
refinement maps the abstract manifests to what a recovery of the present files would yield, so a
restore takes effect with the last rename of a part, and every other step of it, crashes included,
is a stutter. Finding 2 does not contradict these theorems: there the store cannot be opened at all.

`ExternalRecordStoreProofs`. *TypeCorrect*, *ManifestAlwaysReadable*, *CheckpointSurvives*,
*CacheIsCoherent* and *MemoryIsDisk* without a hypothesis; *NextRunIsFree* when no save is lost
half-way (`MaxSaveCrashes = 0`: finding 3 is the reason); *Refinement* and *ContentsAreKept* when no
removal of `BATCH.wal` fails or no checkpoint is restored (`MaxUnlinkFailures = 0 \/ ~Checkpoints`:
finding 4 is the reason). So each of the two violation runs has a theorem beside it that says under
which condition the same property always holds. The properties of the files are not inductive. The
invariant adds which manifest the memory follows at each step (`MemoryFollows`), what the run being
written already holds (`RunWritten`), that a compaction merges the newest runs into exactly what
they hold (`RunsMerged`), that a save pins before it publishes and no checkpoint is ahead of
`CURRENT` (`Pinned`), to which batch a `BATCH.wal` can belong (`Journal`), and that every chunk that
was accepted has a generation left (`Room`). Two stronger invariants serve the conditional theorems:
`NoneBeyond` (no file lies beyond the generation in memory but the one being written) and `InFlight`
(whatever a journal or an append may still bring in was issued by the append in flight). The map a
manifest stands for is a lookup through the runs, newest first; that an append changes it at the
keys of its chunk and a merge of the newest runs nowhere are lemmas about `Lookup`
(`LookupAppended`, `LookupMerged`), which rest on the newest of a set of generations existing -
shown by a least counterexample. These theorems also
cover the settings that no single run combines: chunked appends with checkpoints, any number of
cache slots, any fan-in.

`ExternalPagesProofs`, the page cache. *CacheInvariance*, *PagesAreSound* and *PinnedCellsStay*, for every
number of pages, slots and readers, with and without the page index (`CacheAssumption`: at least one
slot, which the constructor checks, and finitely many readers; TLC evaluates it in `MCEngine`). They
state what `MCEngine` checks of the cache as a part of `StorageSound` and `TableStepsSafe`. `Good`
relates the cache to the records and to the pins that the threads hold: a page is in at most one
slot and the index knows it, a clean slot has its record's cells and a dirty one kept them in
`before`, a slot's pin count is the number of pins on its page. It takes records and pins as
parameters, so there is one lemma per call of the cache (`PinGood`, `UnpinGood`, `MarkGood`,
`WriteGood`, `ClearGood`, `RollbackGood`) and the actions, which compose calls, compose lemmas.
`CacheInvariant` adds the lock - a slot is dirty only in a batch, and there no reader has a pin -
and the phases of a batch: the rescaling has dirtied only pages before the next one and has counted
them as the cache does (`DirtyPages`), and each page holds what the batch owes it so far
(`Holding`). A writer without a victim would mean that every slot is dirty (`Room`), so
`dirty_count_` would equal the capacity, and the batch would have been flushed. That a victim is
found at all is arithmetic: the scan from `next_victim_` passes every slot (`VictimFacts`).

`ExternalPagesProofs`, the row index. *IndexInvariance*, *EveryBucketItsCell* and
*CommittedRowsAreKept*, for every page width and every finite set of rows (`RowAssumption`: widths and
bucket counts are positive, or the code refuses them; TLC evaluates it too). `CellsDisjoint` is
about cells; what is inductive is about pages (`IndexInOrder`): those of the rows, counted from each
row's first page, are all the pages below the allocator, each in one row. It must hold of the
generation a batch started from as well, since a failed batch returns to it, and the published one
must keep that generation's rows (`RowsKept`). A new batch stays in order because its rows cut the
pages it adds into intervals that follow one another in the order of state and seat
(`PagesOfBatch`); the pages are counted as named pairs (`PagesOf`), so that sums are cardinalities
of disjoint unions and no recursion is needed. From pages to cells it is division with remainder
(`RowPages`: no page of a row is empty or missing).

`TrainingProofs`, the checkpoint file. *ArtifactInvariance*, *LoadedIsWhole* and *NewestIsKept*, for any number of
merges, saves, failed writes and renames, and crashes, without an assumption. `FileSound` says that a
file with its hash holds all the cells of one version; everything else that can lie at the path, the
temporary or the backup has no hash and does not load (`UnhashedSound`). While the tables are
streamed section by section, what is written is a prefix of the version the save began with
(`Progress`), which the lease keeps from changing (`Lease`). The same part says that no checkpoint
is newer than the save under way: that is why a rename, or a backup that is removed, never trades a
newer checkpoint for an older one. That a whole file is read to its end needs the counts to match
the items (`SectionRead`, `CellsParsed`).

`TrainingProofs`, bucket generation. *GenerationInvariance* and *GenerationCorrect*: `GenerationSound`,
all that `MCGames` checks of it in `GamesSound`, for any number of threads, queue length, range and
chunk size, and however many callbacks and thread starts fail. The hypothesis, `PlansValid`, is what
the two functions do not refuse before they start; TLC evaluates it on the plans of the run. The
invariant follows the chunks between what has been published and `next_job`: every one has one
holder - a worker, the map of ready chunks, or the publisher (`JobsSound`, `NothingSkipped`) -
and every place of the queue and every slot has one too (`PlacesSound`, `SlotsSound`, `SlotsKept`).
What a slot holds is the chunk it is kept for (`ContentSound`), so that the count the serialized
caller reads from a slot it has given back is at most its own, and equal to it when all chunks are
whole. Nobody waits for ever because a sleeper's predicate is false or someone is about to notify
(`SleepSound`), and when all were asleep the chunk the publisher waits for would have no holder.

`TrainingProofs`, the training run. *TrainingInvariance* and *TrainingCorrect*: `TrainingSound` of `TrainingRun`, for
every schedule, batch size, checkpoint interval and gate, any number of batches, checkpoint paths and
invocations. The hypothesis, `TrainingAssumption`, is that capacities are resolved, as `run_train`
requires (trajectories per batch and checkpoint interval are not zero); TLC evaluates it on the run.
The uninterrupted run is a recursive function of the number of batches; that one more batch adds its
operation and what is scheduled for it (`ReferenceGrows`) is shown by a least counterexample. Between
two batches the trainer is the reference (`TablesSound`), the store holds the trainer's tables or
those it is about to resume from (`StoreSound`), and so every checkpoint is the reference
(`FilesSound`): this needs that what is due by remainders is what is scheduled by multiples
(`ScheduledOps`), that the late window opens once, and that a resumed baseline is kept. For the gate
and the snapshots the invariant counts the batches ahead of the invocation (`Ahead`): trajectories plus
those ahead never pass the gate (`GateSound`, from the gate's division, `BelowStage`), and with none
ahead the steady snapshot has been taken (`PhasesSound`), so that no snapshot is ever out of order.

`ServiceProofs`: all that `MCSystem` checks of the three services as `ServicesSound` and, of their
steps, as a part of `ServiceStepsSafe`. *ResolverInvariance* and *ResolverCorrect*, for any number of threads,
requests and batches, with any cache content: a cached root policy is one that a stable solve of
that very key stored (`RequestsKeyed`: requests with equal keys ask for the same, which is what the
key is made for). *SessionInvariance*, *SessionCorrect* and *BeliefsOnlyShrink*: nothing that the decision
session holds belongs to an earlier root, the frozen policies are those of the present revision, and
a seat's belief only ever loses combinations. *FullHandCorrect*: the invariant of the full-hand session
includes that replaying its history from the first record gives the present session
(`HistoryReplays`). The replay is a recursive function over the history; that it passes through the
old states again when a record is appended (`PassesOnce`, `ReplayAppended`) is shown by a least
counterexample, a form of induction that needs no scheme with an operator parameter. It assumes
that there is at least one combination, and TLC evaluates both assumptions on the instances of the run.

`MultiwayBettingProofs`. *TypeCorrect*, *ChipsKept*, *SeatsAlwaysValid*, *ClosedRoundsMatched* and
*RulesSnapshotsValid*, for every table size, blinds and stacks. `SeatsValid` is not inductive: if the
wager of the street were held by a folded seat, the last fold would leave the winner facing a bet.
`WagerIsLive` says it never is. That a closed round is matched needs what is owed across streets: with
nobody to act no seat is left that owes an answer (`ClosedRoundIsAnswered`), and nobody in the hand put
more into the streets before than a seat that still has chips (`EarlierStreetsMatched`). With equal stacks a lone seat with
chips has the others all in for as much, so it cannot be pending, which is what the rules profile
relies on (finding 5). The walk round the table that picks the next actor is a least offset, whose
existence rests on the well-foundedness of the naturals.

`MultiwayBettingProofs`, the settlement. *PotsClaimed* and *SettlementConservation*, from the same
assumptions and those on the rake policy (at most 10000 basis points; TLC evaluates them). That every
contested layer has a claimant is a property of the betting: some seat still in the hand has put in
as much as any seat, folded seats included (`TopIsLive`). A fold could break it; whoever folds faces
a wager, and the seat that holds the wager has chips on this street, so it has matched every street
before (`StakersMatched`). That no chip is lost is arithmetic on sums. `Sum` is the community
modules' fold, a recursive function of the subsets of its domain; that such a function exists and
that its terms may be taken in any order is induction over finite sets, done with sets of good cases
and a least counterexample (`ByNaturals`, `ByFiniteParts`, `SummedExists`, `SummedTerm`). Then a
table of two indices is summed by rows or by columns (`SumByColumn`), which says it three times: the
contributions are the layers (`ContributionsByLayer`: the layers below a contribution are as high as
it is, `LayersReach`), the refunds are the layers with one contributor (`RefundsByLayer`), and the
payouts are the pots after the rake (`PayoutsByPot`: the awards of a pot add up to it, since exactly
as many winners come first as there are odd chips, `FirstCount`). The rake is taken from the lowest
pot up and never exceeds them (`PotsAfterRake`, `RakeBounded`).

`BatchRunnerProofs`. *TypeCorrect*, *ScratchNeverShared*, *AlwaysReusable* and *WholeBatchesMerged*, for
every number of workers, mode, chunk size and batch size (the last assumption: the batches that the
callers ask for have a largest one, which keeps the ids of different batches apart). Two arguments
meet. The first counts: `completed_workers_` is the number of workers that have seen the present
generation and are through with it (`CompletedCountsDone`), and whoever is at work is at work on
that generation (`WorkOfPresentBatch`, which needs that nobody has seen a later one,
`ObservedPast`). When the counter equals the batch's worker count the two sets have the same size,
so nobody is at work - whatever woke the caller. The second shares out: what a worker has run and
still has to run is its share, and as long as nothing was cancelled or discarded the shares are
disjoint and together they are the batch or, with dynamic chunks, the chunks claimed so far
(`SharesInv`). It rests on *RoundRobinDivides* and *StaticBlockDivides* (both static partitions are
disjoint and cover the batch, by quotient and remainder) and on `ChunksCover` (the dynamic chunks
do, and none is empty); a worker leaves its loop only when no chunk is left. At the end of the count
every share is run, so the streams are the batch, each id once (`WholeStreams`); sorting keeps that.
The merge has then always taken `first .. first + n - 1`, and each cursor stands right behind those
(`MergeInv`), so the least head is `first + n` (`NextIsNext`): no turn meets the same trajectory
twice, and the merge ends only when all are taken. `TypeOK` has one part that is not a type:
`next_dynamic_chunk_` passes the last chunk by at most one claim of each worker (`ChunksCounted`).
TLC has checked each conjunct of the invariant on the instance of the run.

Only model-checked: everything under fairness (`OpenTerminates`, `GamesEnd`, `WorkersFinish`,
`SolversFinish`, `DurableBatchReplayed`), which is out of the prover's reach; that the
settlement gives each seat what the chip-by-chip division does (`SettlementMatchesSlices`), whose
reference is a sum over single chips; the solvers' tables, which are inductions over data (values of
trees), and whose modules use recursive operators; of the engine's tables the coordinator, the
catalogs and the discovery merge; of the services exports and the bucket artifact;
of the games all but the betting and bucket generation.

## 6. Not modelled, and the plan

Out of reach or without a property worth stating: hand evaluation, clustering, equity and
estimators on floats; binary layouts; text input and output of the workflow; worker placement,
memory estimates and telemetry; the arena. The logger's lifecycle is one data race on one pointer
(`should_log` reads it without the mutex that shutdown takes, `logging/log.cpp:237`), which a model
could only restate; the same holds for the completion times a worker writes after it has counted
itself (`multiway_batch_runner.cpp:562`), which feed reports only.

Left out of components that are modelled in part: the reference solver `multiway_cfr.cpp`, the
vectorised copy of the serial solver (`dcfr_vector.cpp`), the menu of bet sizes and its calibration,
future buckets, the parallel inspector, the sampled range solver, bucket maps of the heads-up
solvers, local expansion of a session, the export of a single root policy and the generic page
cache. The two merges of one batch, regrets and then continuations, are modelled each by itself but
not composed.
