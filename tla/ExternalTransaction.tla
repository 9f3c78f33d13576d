------------------------ MODULE ExternalTransaction ------------------------
(***************************************************************************)
(* The aggregate batch transaction of the external training store:         *)
(* MultiwayExternalBatchTransaction, the batch protocol that               *)
(* MultiwayExternalTrainingStorage drives through it, and what its         *)
(* component record stores do to their directories meanwhile.              *)
(*                                                                         *)
(* The disk is a set of files that are replaced by atomic renames; every   *)
(* rename, removal or copy that another step can be separated from is an   *)
(* action of its own, and the process may crash between any two of them.   *)
(* A file that does not exist is a manifest of generation 0, which is what *)
(* the code reads for one.                                                 *)
(***************************************************************************)
EXTENDS Integers, FiniteSets

CONSTANTS ComponentCount,  \* kComponentNames.size(); the last one is "pages"
          FanIn,           \* compaction_fan_in
          DiskLimited,     \* disk_amplification_limit # 0
          AggregateRecovery,    \* aggregate_transaction_covers_append_recovery
          DirectorySyncMayFail, \* fsync of a directory can report an error
          Fingerprints,    \* non-zero merge fingerprints
          MaxBatch,        \* bound on batch numbers
          MaxGeneration,   \* bound on component generations
          MaxCrashes       \* bound on the number of crashes

ASSUME ConstantsAssumption ==
  /\ ComponentCount \in Nat \ {0}
  /\ FanIn \in Nat \ {0, 1}
  /\ DiskLimited \in BOOLEAN
  /\ AggregateRecovery \in BOOLEAN
  /\ DirectorySyncMayFail \in BOOLEAN
  /\ Fingerprints \subseteq Nat \ {0}
  /\ MaxBatch \in Nat
  /\ MaxGeneration \in Nat
  /\ MaxCrashes \in Nat

Components == 1..ComponentCount
PageComponent == ComponentCount

\* <component>/CURRENT: its generation, the number of the last batch it holds
\* and the generations of the runs it lists.
Manifests == [generation : Nat, last : Nat, runs : SUBSET Nat]
NoManifest == [generation |-> 0, last |-> 0, runs |-> {}]

VARIABLES
  \* files
  training,      \* TRAINING_CURRENT: the published aggregate generation
  manifest,      \* manifest[c]: <c>/CURRENT
  runFiles,      \* runFiles[c]: generations with run_<g>.dat and run_<g>.idx
  componentWal,  \* componentWal[c]: batch number in <c>/BATCH.wal, 0 if absent
  backup,        \* backup[c]: <C>_CURRENT.previous: absent, torn or complete
  journal,       \* TRAINING_BATCH.wal
  journalTmp,    \* TRAINING_BATCH.tmp exists
  trainingTmp,   \* TRAINING_CURRENT.tmp exists
  \* memory of the process
  pc,            \* the next step of the operation that is running
  index,         \* the component that step is about
  after,         \* where clear_pending_batch returns to
  current,       \* current_
  tx,            \* the open batch: batch_open_, batch_number_, ...
  batchNumber,   \* MultiwayExternalTrainingStorage::batch_number_
  pageOpen,      \* page_batch_open_
  inputs,        \* the input runs of the compaction that is running
  crashes

aggregateFiles == <<training, trainingTmp>>
componentFiles == <<manifest, runFiles, componentWal>>
journalFiles == <<backup, journal, journalTmp>>
batchMemory == <<current, tx, batchNumber, pageOpen, inputs>>
vars == <<aggregateFiles, componentFiles, journalFiles, batchMemory, pc, index,
          after, crashes>>

NoGeneration ==
  [generation |-> 0, batch |-> 0, fingerprint |-> 0,
   components |-> [c \in Components |-> 0]]
NoJournal == [pending |-> FALSE, flags |-> {}, batch |-> 0, fingerprint |-> 0]
NoBackup == [state |-> "absent", manifest |-> NoManifest]
NoTx == [open |-> FALSE, batch |-> 0, fingerprint |-> 0, flags |-> {},
         generations |-> [c \in Components |-> 0],
         lasts |-> [c \in Components |-> 0]]

Init ==
  /\ training = NoGeneration
  /\ manifest = [c \in Components |-> NoManifest]
  /\ runFiles = [c \in Components |-> {}]
  /\ componentWal = [c \in Components |-> 0]
  /\ backup = [c \in Components |-> NoBackup]
  /\ journal = NoJournal
  /\ journalTmp = FALSE
  /\ trainingTmp = FALSE
  /\ pc = "down"
  /\ index = 1
  /\ after = "open"
  /\ current = NoGeneration
  /\ tx = NoTx
  /\ batchNumber = 0
  /\ pageOpen = FALSE
  /\ inputs = {}
  /\ crashes = 0

-----------------------------------------------------------------------------
(* clear_pending_batch: the journal goes first, then its temporary, then   *)
(* the backups it referred to.                                             *)

ClearJournal ==
  /\ pc = "clear"
  /\ journal' = NoJournal
  /\ pc' = "clear_tmp"
  /\ UNCHANGED <<componentFiles, aggregateFiles, batchMemory, backup,
                 journalTmp, index, after, crashes>>

ClearJournalTmp ==
  /\ pc = "clear_tmp"
  /\ journalTmp' = FALSE
  /\ pc' = "clear_backups"
  /\ index' = 1
  /\ UNCHANGED <<componentFiles, aggregateFiles, batchMemory, backup, journal,
                 after, crashes>>

\* Mutant: one iteration too many over the backup names.
ClearBackupPastEnd ==
  /\ pc = "clear_backups"
  /\ backup' = [backup EXCEPT ![index] = NoBackup]
  /\ index' = index + 1
  /\ UNCHANGED <<componentFiles, aggregateFiles, batchMemory, journal,
                 journalTmp, pc, after, crashes>>

\* When the last backup is gone the operation that called clear_pending_batch
\* goes on: a commit closes the batch of the storage object, recovery and abort
\* go on to open the components (abort resets the batch first).
ClearBackup ==
  /\ pc = "clear_backups"
  /\ backup' = [backup EXCEPT ![index] = NoBackup]
  /\ IF index < ComponentCount
     THEN /\ index' = index + 1
          /\ UNCHANGED <<pc, tx, batchNumber, pageOpen>>
     ELSE /\ index' = 1
          /\ pc' = after
          /\ tx' = NoTx
          /\ batchNumber' = 0
          /\ pageOpen' = FALSE
  /\ UNCHANGED <<componentFiles, aggregateFiles, journal, journalTmp, after,
                 current, inputs, crashes>>

\* A removal fails while a commit clears its journal.  batch_open_ is already
\* false, so abort_batch of the storage object only reopens the components and
\* the journal stays behind for the next process.
ClearFails ==
  /\ pc \in {"clear", "clear_tmp", "clear_backups"}
  /\ after = "reclaim"
  /\ pc' = "open"
  /\ index' = 1
  /\ tx' = NoTx
  /\ batchNumber' = 0
  /\ pageOpen' = FALSE
  /\ UNCHANGED <<componentFiles, journalFiles, aggregateFiles, after, current,
                 inputs, crashes>>

-----------------------------------------------------------------------------
(* Construction: recover_pending_batch, then the component stores open.    *)

\* No journal: an unfinished TRAINING_BATCH.tmp is removed.  Backups that a
\* crash left behind stay where they are.
RecoverNothing ==
  /\ pc = "down"
  /\ ~journal.pending
  /\ current' = training
  /\ journalTmp' = FALSE
  /\ pc' = "open"
  /\ index' = 1
  /\ UNCHANGED <<componentFiles, aggregateFiles, backup, journal, after, tx,
                 batchNumber, pageOpen, inputs, crashes>>

\* Mutant: the journal of the batch that committed last counts as neither
\* committed nor pending.
RecoverCommittedStrict ==
  /\ pc = "down"
  /\ journal.pending
  /\ journal.batch < training.batch
  /\ current' = training
  /\ after' = "open"
  /\ pc' = "clear"
  /\ UNCHANGED <<componentFiles, journalFiles, aggregateFiles, index, tx,
                 batchNumber, pageOpen, inputs, crashes>>

\* The journal is of a batch that committed.  A journal of the same batch with
\* another fingerprint is refused (the process cannot open the store).
RecoverCommitted ==
  /\ pc = "down"
  /\ journal.pending
  /\ journal.batch <= training.batch
  /\ ~(journal.batch = training.batch /\ journal.fingerprint # training.fingerprint)
  /\ current' = training
  /\ after' = "open"
  /\ pc' = "clear"
  /\ UNCHANGED <<componentFiles, journalFiles, aggregateFiles, index, tx,
                 batchNumber, pageOpen, inputs, crashes>>

\* Mutant: the journal of a pending batch is cleared and nothing rolled back.
RecoverPendingForgets ==
  /\ pc = "down"
  /\ journal.pending
  /\ journal.batch > training.batch
  /\ current' = training
  /\ after' = "open"
  /\ pc' = "clear"
  /\ UNCHANGED <<componentFiles, journalFiles, aggregateFiles, index, tx,
                 batchNumber, pageOpen, inputs, crashes>>

\* The journal is of a batch that did not commit: roll it back.
RecoverPending ==
  /\ pc = "down"
  /\ journal.pending
  /\ journal.batch > training.batch
  /\ current' = training
  /\ tx' = [tx EXCEPT !.batch = journal.batch, !.fingerprint = journal.fingerprint,
                      !.flags = journal.flags]
  /\ after' = "open"
  /\ pc' = "rollback"
  /\ index' = 1
  /\ UNCHANGED <<componentFiles, journalFiles, aggregateFiles, batchNumber,
                 pageOpen, inputs, crashes>>

\* Mutant: a CURRENT that the batch created is left in place.
RollbackManifestKeepsNew ==
  /\ pc = "rollback"
  /\ index \in tx.flags => backup[index].state # "absent"
  /\ manifest' = [manifest EXCEPT ![index] =
                    IF index \in tx.flags THEN backup[index].manifest ELSE @]
  /\ pc' = "rollback_tmp"
  /\ UNCHANGED <<journalFiles, aggregateFiles, batchMemory, runFiles,
                 componentWal, index, after, crashes>>

\* rollback_pending_batch, one component: CURRENT is restored from the backup
\* through CURRENT.restore.tmp and a rename, or removed if the batch created it.
\* A missing backup is an exception: the step is not possible.
RollbackManifest ==
  /\ pc = "rollback"
  /\ index \in tx.flags => backup[index].state # "absent"
  /\ manifest' = [manifest EXCEPT ![index] =
                    IF index \in tx.flags THEN backup[index].manifest
                                          ELSE NoManifest]
  /\ pc' = "rollback_tmp"
  /\ UNCHANGED <<journalFiles, aggregateFiles, batchMemory, runFiles,
                 componentWal, index, after, crashes>>

\* Mutant: the rollback leaves <component>/BATCH.wal behind.
RollbackTemporariesKeepWal ==
  /\ pc = "rollback_tmp"
  /\ IF index < ComponentCount
     THEN index' = index + 1 /\ pc' = "rollback"
     ELSE index' = 1 /\ pc' = "clear"
  /\ UNCHANGED <<componentFiles, journalFiles, aggregateFiles, batchMemory,
                 after, crashes>>

\* ... then its BATCH.wal and temporaries go; after the last component
\* TRAINING_CURRENT.tmp goes and the journal is cleared.
RollbackTemporaries ==
  /\ pc = "rollback_tmp"
  /\ componentWal' = [componentWal EXCEPT ![index] = 0]
  /\ IF index < ComponentCount
     THEN /\ index' = index + 1
          /\ pc' = "rollback"
          /\ UNCHANGED <<trainingTmp, current>>
     ELSE /\ index' = 1
          /\ pc' = "clear"
          /\ trainingTmp' = FALSE
          /\ current' = training
  /\ UNCHANGED <<journalFiles, training, manifest, runFiles, after, tx,
                 batchNumber, pageOpen, inputs, crashes>>

\* recover_wal of a component store: a journal of a batch the manifest already
\* holds is dropped, any other is replayed as the run of the next generation.
ReplayedManifest(m, w) ==
  IF w <= m.last THEN m
  ELSE [generation |-> m.generation + 1, last |-> w,
        runs |-> m.runs \cup {m.generation + 1}]

\* A component store opens: load_manifest needs every run it lists,
\* cleanup_orphans removes every other run file, recover_wal follows.
OpenComponent ==
  /\ pc = "open"
  /\ manifest[index].runs \subseteq runFiles[index]
  /\ manifest' = [manifest EXCEPT ![index] =
                    ReplayedManifest(@, componentWal[index])]
  /\ runFiles' = [runFiles EXCEPT ![index] = manifest'[index].runs]
  /\ componentWal' = [componentWal EXCEPT ![index] = 0]
  /\ IF index < ComponentCount
     THEN index' = index + 1 /\ pc' = "open"
     ELSE index' = 1 /\ pc' = "idle"
  /\ UNCHANGED <<journalFiles, aggregateFiles, batchMemory, after, crashes>>

-----------------------------------------------------------------------------
(* begin_batch                                                             *)

BeginBatch(b) ==
  /\ pc = "idle"
  /\ b > current.batch
  /\ ~journal.pending
  /\ ~journalTmp
  /\ tx' = [NoTx EXCEPT !.batch = b]
  /\ pc' = "begin"
  /\ index' = 1
  /\ UNCHANGED <<componentFiles, journalFiles, aggregateFiles, after, current,
                 batchNumber, pageOpen, inputs, crashes>>

\* The manifest is read, a stale backup removed and, if CURRENT exists, the
\* copy of it starts.
BackupStart ==
  /\ pc = "begin"
  /\ LET m == manifest[index] IN
       /\ tx' = [tx EXCEPT !.generations[index] = m.generation,
                           !.lasts[index] = m.last]
       /\ backup' = [backup EXCEPT ![index] =
                       IF m.generation = 0 THEN NoBackup
                       ELSE [state |-> "torn", manifest |-> NoManifest]]
  /\ pc' = "begin_copy"
  /\ UNCHANGED <<componentFiles, aggregateFiles, journal, journalTmp, index,
                 after, current, batchNumber, pageOpen, inputs, crashes>>

BackupEnd ==
  /\ pc = "begin_copy"
  /\ LET m == manifest[index] IN
       IF m.generation = 0 THEN UNCHANGED <<tx, backup>>
       ELSE /\ backup' = [backup EXCEPT ![index] = [state |-> "complete", manifest |-> m]]
            /\ tx' = [tx EXCEPT !.flags = @ \cup {index}]
  /\ IF index < ComponentCount
     THEN index' = index + 1 /\ pc' = "begin"
     ELSE index' = 1 /\ pc' = "begin_journal"
  /\ UNCHANGED <<componentFiles, aggregateFiles, journal, journalTmp, after,
                 current, batchNumber, pageOpen, inputs, crashes>>

\* write_transaction_wal: TRAINING_BATCH.tmp is written ...
BeginJournalTmp ==
  /\ pc = "begin_journal"
  /\ journalTmp' = TRUE
  /\ pc' = "begin_rename"
  /\ UNCHANGED <<componentFiles, aggregateFiles, batchMemory, backup, journal,
                 index, after, crashes>>

\* ... and renamed to TRAINING_BATCH.wal; from here the batch is pending.  The
\* directory is synced after the rename, and that can fail too.
BeginJournal(synced) ==
  /\ pc = "begin_rename"
  /\ journal' = [pending |-> TRUE, flags |-> tx.flags, batch |-> tx.batch,
                 fingerprint |-> 0]
  /\ journalTmp' = FALSE
  /\ IF synced
     THEN /\ tx' = [tx EXCEPT !.open = TRUE]
          /\ batchNumber' = tx.batch
          /\ pc' = "filling"
     ELSE /\ pc' = "begin_undo"
          /\ UNCHANGED <<tx, batchNumber>>
  /\ UNCHANGED <<componentFiles, aggregateFiles, backup, index, after,
                 current, pageOpen, inputs, crashes>>

\* A copy fails: the backups made so far stay.
BeginFails ==
  /\ pc \in {"begin", "begin_copy"}
  /\ pc' = "idle"
  /\ index' = 1
  /\ tx' = NoTx
  /\ UNCHANGED <<componentFiles, journalFiles, aggregateFiles, after, current,
                 batchNumber, pageOpen, inputs, crashes>>

\* Writing the journal fails: the catch block removes the backups first ...
BeginUndoBackups ==
  /\ pc \in {"begin_journal", "begin_rename", "begin_undo"}
  /\ backup' = [c \in Components |-> NoBackup]
  /\ pc' = "begin_undo_journal"
  /\ UNCHANGED <<componentFiles, aggregateFiles, batchMemory, journal,
                 journalTmp, index, after, crashes>>

\* ... and then the temporary and the journal.
BeginUndoJournal ==
  /\ pc = "begin_undo_journal"
  /\ journalTmp' = FALSE
  /\ journal' = NoJournal
  /\ pc' = "idle"
  /\ tx' = NoTx
  /\ UNCHANGED <<componentFiles, aggregateFiles, backup, index, after,
                 current, batchNumber, pageOpen, inputs, crashes>>

-----------------------------------------------------------------------------
(* append_batch of one component store inside the open batch               *)

\* catalog and row records carry the outer batch number; every flush of the
\* page cache takes the next number of its own, at least the outer one.
AppendNumber(c) ==
  IF c = PageComponent /\ manifest[c].last >= batchNumber
  THEN manifest[c].last + 1
  ELSE batchNumber

\* Catalog and rows are appended before the page batch opens, pages after it.
\* <c>/BATCH.wal is written first (one that is still there is refused) unless
\* the aggregate journal covers the append.
AppendJournal(c) ==
  /\ \/ pc = "filling" /\ c # PageComponent
     \/ pc = "paging" /\ c = PageComponent
  /\ IF AggregateRecovery
     THEN UNCHANGED componentWal
     ELSE /\ componentWal[c] = 0
          /\ componentWal' = [componentWal EXCEPT ![c] = AppendNumber(c)]
  /\ index' = c
  /\ pc' = "append_run"
  /\ UNCHANGED <<journalFiles, aggregateFiles, batchMemory, manifest,
                 runFiles, after, crashes>>

\* The run files of the next generation appear, unless they already exist.
AppendRun ==
  /\ pc = "append_run"
  /\ manifest[index].generation + 1 \notin runFiles[index]
  /\ runFiles' = [runFiles EXCEPT ![index] = @ \cup {manifest[index].generation + 1}]
  /\ pc' = "append_publish"
  /\ UNCHANGED <<journalFiles, aggregateFiles, batchMemory, manifest,
                 componentWal, index, after, crashes>>

AppendPublish ==
  /\ pc = "append_publish"
  /\ manifest' = [manifest EXCEPT ![index] =
                    [generation |-> @.generation + 1, last |-> AppendNumber(index),
                     runs |-> @.runs \cup {@.generation + 1}]]
  /\ pc' = "append_end"
  /\ UNCHANGED <<journalFiles, aggregateFiles, batchMemory, runFiles,
                 componentWal, index, after, crashes>>

\* BATCH.wal is removed; an error of that removal is ignored.
AppendEnd(removed) ==
  /\ pc = "append_end"
  /\ componentWal' = IF removed THEN [componentWal EXCEPT ![index] = 0] ELSE componentWal
  /\ index' = 1
  /\ pc' = IF pageOpen THEN "paging" ELSE "filling"
  /\ UNCHANGED <<journalFiles, aggregateFiles, batchMemory, manifest,
                 runFiles, after, crashes>>

-----------------------------------------------------------------------------
(* compact_components (before the page batch) and, under a disk limit, the *)
(* second compaction of commit_batch                                       *)

\* The k newest generations of a set of runs.
Newest(S, k) == {g \in S : Cardinality({h \in S : h > g}) < k}

\* Runs the open batch has added to component c.
BatchRuns(c) == {g \in manifest[c].runs : g > tx.generations[c]}

SuffixTooLong(c) == DiskLimited /\ Cardinality(BatchRuns(c)) > 1

\* compact_batch_runs merges the runs of the batch among themselves while there
\* are two of them; otherwise, as compact(true) does, the newest FanIn runs.
CompactionInputs(c) ==
  IF SuffixTooLong(c) THEN Newest(BatchRuns(c), FanIn)
                      ELSE Newest(manifest[c].runs, FanIn)

NeedsCompaction(c) ==
  IF DiskLimited
  THEN \/ SuffixTooLong(c)
       \/ Cardinality(manifest[c].runs) \in FanIn + 1 .. 2 * FanIn - 1
  ELSE Cardinality(manifest[c].runs) >= FanIn

\* More runs than a rollback-safe merge can bring back to the fan-in: throws.
TooManyRuns(c) ==
  DiskLimited /\ ~SuffixTooLong(c) /\ Cardinality(manifest[c].runs) > 2 * FanIn - 1

CompactStart ==
  /\ pc = "filling"
  /\ index' = 1
  /\ pc' = "compact"
  /\ UNCHANGED <<componentFiles, journalFiles, aggregateFiles, batchMemory,
                 after, crashes>>

\* Where a component's compaction leads to.
CompactNext ==
  IF index < ComponentCount
  THEN index' = index + 1 /\ pc' = "compact"
  ELSE index' = 1 /\ pc' = IF pageOpen THEN "finalize" ELSE "compacted"

CompactSkip ==
  /\ pc = "compact"
  /\ ~NeedsCompaction(index)
  /\ ~TooManyRuns(index)
  /\ CompactNext
  /\ UNCHANGED <<componentFiles, journalFiles, aggregateFiles, batchMemory,
                 after, crashes>>

\* compact(true) first removes the orphans an earlier batch retained; then the
\* merged run of the next generation is renamed into place.
CompactRun ==
  /\ pc = "compact"
  /\ NeedsCompaction(index)
  /\ inputs' = CompactionInputs(index)
  /\ runFiles' = [runFiles EXCEPT ![index] =
                    (IF DiskLimited THEN @ ELSE @ \cap manifest[index].runs)
                      \cup {manifest[index].generation + 1}]
  /\ pc' = "compact_publish"
  /\ UNCHANGED <<journalFiles, aggregateFiles, manifest, componentWal, index,
                 after, current, tx, batchNumber, pageOpen, crashes>>

\* Mutant: the inputs are deleted although the batch can still be rolled back.
CompactPublishDeletes ==
  /\ pc = "compact_publish"
  /\ manifest' = [manifest EXCEPT ![index] =
                    [generation |-> @.generation + 1, last |-> @.last,
                     runs |-> (@.runs \ inputs) \cup {@.generation + 1}]]
  /\ runFiles' = [runFiles EXCEPT ![index] = @ \ inputs]
  /\ pc' = "compact_end"
  /\ UNCHANGED <<journalFiles, aggregateFiles, batchMemory, componentWal,
                 index, after, crashes>>

\* CURRENT lists the merged run in the place of its inputs.  Inputs of the open
\* batch itself are then deleted; older ones are retained for a rollback.
CompactPublish ==
  /\ pc = "compact_publish"
  /\ manifest' = [manifest EXCEPT ![index] =
                    [generation |-> @.generation + 1, last |-> @.last,
                     runs |-> (@.runs \ inputs) \cup {@.generation + 1}]]
  /\ pc' = IF SuffixTooLong(index) THEN "compact_delete" ELSE "compact_end"
  /\ UNCHANGED <<journalFiles, aggregateFiles, batchMemory, runFiles,
                 componentWal, index, after, crashes>>

CompactDelete ==
  /\ pc = "compact_delete"
  /\ runFiles' = [runFiles EXCEPT ![index] = @ \ inputs]
  /\ inputs' = {}
  /\ pc' = "compact"
  /\ UNCHANGED <<journalFiles, aggregateFiles, manifest, componentWal, index,
                 after, current, tx, batchNumber, pageOpen, crashes>>

\* compact_batch_runs insists on at most FanIn runs after its last merge.
CompactEnd ==
  /\ pc = "compact_end"
  /\ DiskLimited => Cardinality(manifest[index].runs) <= FanIn
  /\ inputs' = {}
  /\ CompactNext
  /\ UNCHANGED <<componentFiles, journalFiles, aggregateFiles, after, current,
                 tx, batchNumber, pageOpen, crashes>>

BeginPageBatch ==
  /\ pc \in {"filling", "compacted"}
  /\ pageOpen' = TRUE
  /\ pc' = "paging"
  /\ UNCHANGED <<componentFiles, journalFiles, aggregateFiles, index, after,
                 current, tx, batchNumber, inputs, crashes>>

-----------------------------------------------------------------------------
(* commit_batch                                                            *)

\* The pages are flushed; a disk limit compacts every component once more.
CommitStart ==
  /\ pc = "paging"
  /\ index' = 1
  /\ pc' = IF DiskLimited THEN "compact" ELSE "finalize"
  /\ UNCHANGED <<componentFiles, journalFiles, aggregateFiles, batchMemory,
                 after, crashes>>

\* set_merge_fingerprint rewrites the journal: a temporary, then a rename.
FinalizeTmp ==
  /\ pc = "finalize"
  /\ ~journalTmp
  /\ journal.pending
  /\ journalTmp' = TRUE
  /\ pc' = "finalize_rename"
  /\ UNCHANGED <<componentFiles, aggregateFiles, batchMemory, backup, journal,
                 index, after, crashes>>

FinalizeJournal(f) ==
  /\ pc = "finalize_rename"
  /\ journal' = [journal EXCEPT !.flags = tx.flags, !.batch = tx.batch,
                                !.fingerprint = f]
  /\ journalTmp' = FALSE
  /\ tx' = [tx EXCEPT !.fingerprint = f]
  /\ pc' = "commit"
  /\ UNCHANGED <<componentFiles, aggregateFiles, backup, index, after,
                 current, batchNumber, pageOpen, inputs, crashes>>

\* The generation that the storage object asks the transaction to commit.
NextGeneration ==
  [generation |-> current.generation + 1, batch |-> batchNumber,
   fingerprint |-> tx.fingerprint,
   components |-> [c \in Components |-> manifest[c].generation]]

\* commit_batch accepts a component whose last batch is the one before, with
\* the same generation or a compacted one, or this batch's with a new one.
ComponentBatchValid(c) ==
  LET changed == manifest[c].generation # tx.generations[c]
      last == manifest[c].last
      previous == tx.lasts[c] IN
    /\ last >= previous
    /\ c = PageComponent \/ last <= tx.batch
    /\ changed => \/ last = previous
                  \/ IF c = PageComponent THEN last > previous ELSE last = tx.batch
    /\ ~changed => last = previous

\* publish_multiway_external_generation: TRAINING_CURRENT.tmp is written ...
CommitTmp ==
  /\ pc = "commit"
  /\ tx.open
  /\ \A c \in Components : ComponentBatchValid(c)
  /\ ~trainingTmp
  /\ trainingTmp' = TRUE
  /\ pc' = "commit_rename"
  /\ UNCHANGED <<componentFiles, journalFiles, batchMemory, training, index,
                 after, crashes>>

\* ... and renamed to TRAINING_CURRENT: the commit point of the batch.
CommitRename ==
  /\ pc = "commit_rename"
  /\ training' = NextGeneration
  /\ trainingTmp' = FALSE
  /\ pc' = "published"
  /\ UNCHANGED <<componentFiles, journalFiles, batchMemory, index, after,
                 crashes>>

CommitMemory ==
  /\ pc = "published"
  /\ current' = training
  /\ tx' = [tx EXCEPT !.open = FALSE]
  /\ after' = "reclaim"
  /\ pc' = "clear"
  /\ UNCHANGED <<componentFiles, journalFiles, aggregateFiles, index,
                 batchNumber, pageOpen, inputs, crashes>>

\* reclaim_orphans, under a disk limit only.
Reclaim ==
  /\ pc = "reclaim"
  /\ runFiles' = IF DiskLimited
                 THEN [runFiles EXCEPT ![index] = @ \cap manifest[index].runs]
                 ELSE runFiles
  /\ IF index < ComponentCount
     THEN index' = index + 1 /\ pc' = "reclaim"
     ELSE index' = 1 /\ pc' = "idle"
  /\ UNCHANGED <<journalFiles, aggregateFiles, batchMemory, manifest,
                 componentWal, after, crashes>>

-----------------------------------------------------------------------------
(* abort_batch, reached by an exception of any step of an open batch       *)

OpenBatchSteps ==
  {"filling", "append_run", "append_publish", "append_end", "compact",
   "compact_publish", "compact_delete", "compact_end", "compacted", "paging",
   "finalize", "finalize_rename", "commit", "commit_rename"}

\* The components are dropped and the batch rolled back.
Abort ==
  /\ pc \in OpenBatchSteps
  /\ pc' = "rollback"
  /\ index' = 1
  /\ after' = "open"
  /\ inputs' = {}
  /\ UNCHANGED <<componentFiles, journalFiles, aggregateFiles, current, tx,
                 batchNumber, pageOpen, crashes>>

\* Publication itself succeeded but a later step of it threw: the rollback
\* finds the published generation and keeps it.
AbortPublished ==
  /\ pc = "published"
  /\ tx.batch <= training.batch
  /\ current' = training
  /\ after' = "open"
  /\ pc' = "clear"
  /\ UNCHANGED <<componentFiles, journalFiles, aggregateFiles, index, tx,
                 batchNumber, pageOpen, inputs, crashes>>

-----------------------------------------------------------------------------
\* The process stops, or the storage object is destroyed and opened again.
Crash ==
  /\ pc # "down"
  /\ crashes < MaxCrashes
  /\ crashes' = crashes + 1
  /\ pc' = "down"
  /\ index' = 1
  /\ after' = "open"
  /\ current' = NoGeneration
  /\ tx' = NoTx
  /\ batchNumber' = 0
  /\ pageOpen' = FALSE
  /\ inputs' = {}
  /\ UNCHANGED <<aggregateFiles, componentFiles, journalFiles>>

\* The steps of opening a store, of clearing a journal and of a rollback.
RecoveryStep ==
  \/ RecoverNothing
  \/ RecoverCommitted
  \/ RecoverPending
  \/ RollbackManifest
  \/ RollbackTemporaries
  \/ ClearJournal
  \/ ClearJournalTmp
  \/ ClearBackup
  \/ OpenComponent
  \/ Reclaim

BatchStep ==
  \/ \E b \in 1..MaxBatch : BeginBatch(b)
  \/ BackupStart
  \/ BackupEnd
  \/ BeginJournalTmp
  \/ \E synced \in IF DirectorySyncMayFail THEN BOOLEAN ELSE {TRUE} :
       BeginJournal(synced)
  \/ BeginFails
  \/ BeginUndoBackups
  \/ BeginUndoJournal
  \/ \E c \in Components :
       manifest[c].generation < MaxGeneration /\ AppendJournal(c)
  \/ AppendRun
  \/ AppendPublish
  \/ \E removed \in BOOLEAN : AppendEnd(removed)
  \/ CompactStart
  \/ CompactSkip
  \/ CompactRun
  \/ CompactPublish
  \/ CompactDelete
  \/ CompactEnd
  \/ BeginPageBatch
  \/ CommitStart
  \/ FinalizeTmp
  \/ \E f \in Fingerprints : FinalizeJournal(f)
  \/ CommitTmp
  \/ CommitRename
  \/ CommitMemory
  \/ ClearFails
  \/ Abort
  \/ AbortPublished

Next == RecoveryStep \/ BatchStep \/ Crash

Spec == Init /\ [][Next]_vars

\* The process keeps executing what it has started once it opens a store or
\* clears a journal: the code there is sequential and does not block.
FairSpec == Spec /\ WF_vars(RecoveryStep)

-----------------------------------------------------------------------------
(* Properties                                                              *)

Generations == [generation : Nat, batch : Nat, fingerprint : Nat,
                components : [Components -> Nat]]
Backups == [state : {"absent", "torn", "complete"}, manifest : Manifests]
Journals == [pending : BOOLEAN, flags : SUBSET Components, batch : Nat,
             fingerprint : Nat]
Transactions == [open : BOOLEAN, batch : Nat, fingerprint : Nat,
                 flags : SUBSET Components, generations : [Components -> Nat],
                 lasts : [Components -> Nat]]

PcValues ==
  OpenBatchSteps \cup
  {"down", "rollback", "rollback_tmp", "clear", "clear_tmp", "clear_backups",
   "open", "idle", "begin", "begin_copy", "begin_journal", "begin_rename",
   "begin_undo", "begin_undo_journal", "published", "reclaim"}

\* Types of the files and of the process's memory.
TypeOK ==
  /\ training \in Generations
  /\ trainingTmp \in BOOLEAN
  /\ manifest \in [Components -> Manifests]
  /\ runFiles \in [Components -> SUBSET Nat]
  /\ componentWal \in [Components -> Nat]
  /\ backup \in [Components -> Backups]
  /\ journal \in Journals
  /\ journalTmp \in BOOLEAN
  /\ current \in Generations
  /\ tx \in Transactions
  /\ batchNumber \in Nat
  /\ pageOpen \in BOOLEAN
  /\ inputs \in SUBSET Nat
  /\ pc \in PcValues
  /\ index \in Components
  /\ after \in {"open", "reclaim"}
  /\ crashes \in Nat

\* A batch was begun and did not commit: recovery would roll it back.
Uncommitted == journal.pending /\ journal.batch > training.batch

\* The manifest of component c a process that opens the store now would end up
\* with: the backed-up one while a batch is pending, CURRENT otherwise.
CommittedManifest(c) ==
  IF Uncommitted
  THEN IF c \in journal.flags THEN backup[c].manifest ELSE NoManifest
  ELSE manifest[c]

\* Whatever step the process stops at, recovery finds for every component the
\* manifest of the generation TRAINING_CURRENT names, with all its run files:
\* rollback_pending_batch has every backup it needs, complete, and neither
\* compaction nor cleanup_orphans nor a rolled-back append took a run of it.
CommittedStoreIntact ==
  \A c \in Components :
    /\ CommittedManifest(c).generation = training.components[c]
    /\ CommittedManifest(c).runs \subseteq runFiles[c]
    /\ Uncommitted /\ c \in journal.flags => backup[c].state = "complete"

\* A component opens only when its BATCH.wal holds nothing its manifest lacks:
\* recover_wal never replays records of a batch that was rolled back.
NoReplayOfRolledBackBatch ==
  pc = "open" => \A c \in Components : componentWal[c] <= manifest[c].last

\* A reader sees batches commit atomically: the refinement mapping takes the
\* store a recovery would produce as the content.
Atomic == INSTANCE AtomicBatch WITH
  batch <- training.batch,
  content <- [c \in Components |-> CommittedManifest(c)]

RefinesAtomicBatch == Atomic!Spec

\* Opening a store ends, whatever the crashes before it left on the disk: a
\* pending journal never makes recover_pending_batch or open_components fail.
OpenTerminates == (pc = "down") ~> (pc = "idle")

=============================================================================
