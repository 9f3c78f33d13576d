------------------------- MODULE CheckpointRestore -------------------------
(***************************************************************************)
(* restore_multiway_external_checkpoint and recover_checkpoint_restore:    *)
(* the manifests of a training directory are replaced by those of a        *)
(* checkpoint under CHECKPOINT_RESTORE.wal, and rolled back from copies    *)
(* when the restore does not reach its end.                                *)
(*                                                                         *)
(* A part is a component's CURRENT or, last, TRAINING_CURRENT.  Its        *)
(* content is the version of the aggregate generation it belongs to, 0 if  *)
(* the file does not exist; two generations never have the same version,   *)
(* which is what the content hashes in the journal establish.              *)
(***************************************************************************)
EXTENDS Naturals, FiniteSets

CONSTANTS ComponentCount,  \* kComponentNames.size()
          MaxVersion,      \* bound on committed batches
          MaxCrashes,      \* bound on crashes
          MaxFailures      \* bound on exceptions inside a restore

ASSUME RestoreAssumption ==
  /\ ComponentCount \in Nat \ {0}
  /\ MaxVersion \in Nat
  /\ MaxCrashes \in Nat
  /\ MaxFailures \in Nat

Training == ComponentCount + 1
Parts == 1..Training
Versions == 0..MaxVersion

VARIABLES
  file,          \* file[p]: CURRENT of a component, or TRAINING_CURRENT
  backup,        \* backup[p]: the copy of it made by a restore
  journal,       \* CHECKPOINT_RESTORE.wal
  journalTmp,    \* CHECKPOINT_RESTORE.wal.tmp exists
  partTmp,       \* parts with a CHECKPOINT_*.tmp or TRAINING_CURRENT.tmp
  batchJournal,  \* TRAINING_BATCH.wal exists
  checkpoint,    \* version of the published checkpoint file, 0 if none
  versions,      \* number of versions committed so far
  pc, index,     \* step of the process and the part it is about
  flags,         \* previous_flags of the restore that is running
  after,         \* where recover_checkpoint_restore returns to
  crashes, failures

files == <<file, backup, journal, journalTmp, partTmp>>
history == <<batchJournal, checkpoint, versions>>
vars == <<files, history, pc, index, flags, after, crashes, failures>>

NoJournal == [pending |-> FALSE, flags |-> {}, target |-> 0]

\* An empty directory, or one that holds the segments of a checkpoint and
\* none of the manifests.
Init ==
  /\ file = [p \in Parts |-> 0]
  /\ backup = [p \in Parts |-> 0]
  /\ journal = NoJournal
  /\ journalTmp = FALSE
  /\ partTmp = {}
  /\ batchJournal = FALSE
  /\ checkpoint \in Versions \cap {0, 1}
  /\ versions = checkpoint
  /\ pc = "closed"
  /\ index = 1
  /\ flags = {}
  /\ after = "closed"
  /\ crashes = 0
  /\ failures = 0

-----------------------------------------------------------------------------
(* A process starts.                                                       *)

\* MultiwayExternalBatchTransaction is constructed.
OpenStore ==
  /\ pc = "closed"
  /\ pc' = "recover"
  /\ after' = "opened"
  /\ UNCHANGED <<files, history, index, flags, crashes, failures>>

\* ... and goes on to recover_pending_batch, which leaves no batch pending.
Opened ==
  /\ pc = "opened"
  /\ batchJournal' = FALSE
  /\ pc' = "ready"
  /\ UNCHANGED <<files, checkpoint, versions, index, flags, after, crashes, failures>>

StartRestore ==
  /\ pc = "closed"
  /\ pc' = "recover"
  /\ after' = "load"
  /\ UNCHANGED <<files, history, index, flags, crashes, failures>>

-----------------------------------------------------------------------------
(* recover_checkpoint_restore                                              *)

\* The aggregate and every component manifest are those of the journal.
TargetPublished == \A p \in Parts : file[p] = journal.target

RecoverNothing ==
  /\ pc = "recover"
  /\ ~journal.pending \/ TargetPublished
  /\ pc' = "cleanup"
  /\ index' = 1
  /\ UNCHANGED <<files, history, flags, after, crashes, failures>>

RecoverRollback ==
  /\ pc = "recover"
  /\ journal.pending
  /\ ~TargetPublished
  /\ pc' = "rollback"
  /\ index' = 1
  /\ UNCHANGED <<files, history, flags, after, crashes, failures>>

\* A part that existed is copied from its backup to a temporary (copy_file
\* throws if the backup is not there: the step is not possible) ...
RollbackCopy ==
  /\ pc = "rollback"
  /\ index \in journal.flags
  /\ backup[index] # 0
  /\ partTmp' = partTmp \cup {index}
  /\ pc' = "rollback_rename"
  /\ UNCHANGED <<file, backup, journal, journalTmp, history, index, flags, after,
                 crashes, failures>>

NextRollback ==
  IF index < Training THEN pc' = "rollback" /\ index' = index + 1
                      ELSE pc' = "cleanup" /\ index' = 1

\* ... and renamed into its place;
RollbackRename ==
  /\ pc = "rollback_rename"
  /\ file' = [file EXCEPT ![index] = backup[index]]
  /\ partTmp' = partTmp \ {index}
  /\ NextRollback
  /\ UNCHANGED <<backup, journal, journalTmp, history, flags, after, crashes, failures>>

\* one that did not exist is removed.
RollbackRemove ==
  /\ pc = "rollback"
  /\ index \notin journal.flags
  /\ file' = [file EXCEPT ![index] = 0]
  /\ NextRollback
  /\ UNCHANGED <<backup, journal, journalTmp, partTmp, history, flags, after,
                 crashes, failures>>

\* Mutant: the backup of TRAINING_CURRENT is forgotten.
CleanupBackupComponentsOnly ==
  /\ pc = "cleanup"
  /\ backup' = [backup EXCEPT ![index] = 0]
  /\ IF index < ComponentCount THEN pc' = "cleanup" /\ index' = index + 1
                               ELSE pc' = "cleanup_journal" /\ index' = 1
  /\ UNCHANGED <<file, journal, journalTmp, partTmp, history, flags, after,
                 crashes, failures>>

\* cleanup_checkpoint_restore: the backups, the journal, the temporaries.
CleanupBackup ==
  /\ pc = "cleanup"
  /\ backup' = [backup EXCEPT ![index] = 0]
  /\ IF index < Training THEN pc' = "cleanup" /\ index' = index + 1
                         ELSE pc' = "cleanup_journal" /\ index' = 1
  /\ UNCHANGED <<file, journal, journalTmp, partTmp, history, flags, after,
                 crashes, failures>>

CleanupJournal ==
  /\ pc = "cleanup_journal"
  /\ journal' = NoJournal
  /\ pc' = "cleanup_tmp"
  /\ UNCHANGED <<file, backup, journalTmp, partTmp, history, index, flags, after,
                 crashes, failures>>

CleanupTemporaries ==
  /\ pc = "cleanup_tmp"
  /\ journalTmp' = FALSE
  /\ partTmp' = {}
  /\ pc' = after
  /\ UNCHANGED <<file, backup, journal, history, index, flags, after, crashes, failures>>

-----------------------------------------------------------------------------
(* restore_multiway_external_checkpoint after its recovery                 *)

\* The checkpoint loads and no batch is pending; anything else throws.
LoadCheckpoint ==
  /\ pc = "load"
  /\ IF checkpoint # 0 /\ ~batchJournal THEN pc' = "backup" ELSE pc' = "closed"
  /\ index' = 1
  /\ flags' = {}
  /\ UNCHANGED <<files, history, after, crashes, failures>>

\* Mutant: one part too many.
NextBackupPastEnd ==
  IF index <= Training THEN pc' = "backup" /\ index' = index + 1
                       ELSE pc' = "journal" /\ index' = 1

NextBackup ==
  IF index < Training THEN pc' = "backup" /\ index' = index + 1
                      ELSE pc' = "journal" /\ index' = 1

\* Mutant: previous_flags is not recorded.
BackupPartUnflagged ==
  /\ pc = "backup"
  /\ backup' = [backup EXCEPT ![index] = IF file[index] # 0 THEN file[index] ELSE @]
  /\ NextBackup
  /\ UNCHANGED <<file, journal, journalTmp, partTmp, history, flags, after,
                 crashes, failures>>

\* Each part that exists is copied; a backup that is there already throws.
BackupPart ==
  /\ pc = "backup"
  /\ file[index] # 0 => backup[index] = 0
  /\ backup' = [backup EXCEPT ![index] = IF file[index] # 0 THEN file[index] ELSE @]
  /\ flags' = IF file[index] # 0 THEN flags \cup {index} ELSE flags
  /\ NextBackup
  /\ UNCHANGED <<file, journal, journalTmp, partTmp, history, after, crashes, failures>>

\* write_checkpoint_restore_wal
JournalTmp ==
  /\ pc = "journal"
  /\ ~journalTmp
  /\ ~journal.pending
  /\ journalTmp' = TRUE
  /\ pc' = "journal_rename"
  /\ UNCHANGED <<file, backup, journal, partTmp, history, index, flags, after,
                 crashes, failures>>

JournalRename ==
  /\ pc = "journal_rename"
  /\ journal' = [pending |-> TRUE, flags |-> flags, target |-> checkpoint]
  /\ journalTmp' = FALSE
  /\ pc' = "publish"
  /\ index' = 1
  /\ UNCHANGED <<file, backup, partTmp, history, flags, after, crashes, failures>>

\* publish_checkpoint_component_manifest for every component, then
\* publish_multiway_external_generation: a temporary, then a rename.
PublishTmp ==
  /\ pc = "publish"
  /\ index \notin partTmp
  /\ partTmp' = partTmp \cup {index}
  /\ pc' = "publish_rename"
  /\ UNCHANGED <<file, backup, journal, journalTmp, history, index, flags, after,
                 crashes, failures>>

\* After the last part the restore recovers its own journal and returns.
PublishRename ==
  /\ pc = "publish_rename"
  /\ file' = [file EXCEPT ![index] = journal.target]
  /\ partTmp' = partTmp \ {index}
  /\ IF index < Training
     THEN pc' = "publish" /\ index' = index + 1 /\ UNCHANGED after
     ELSE pc' = "recover" /\ index' = 1 /\ after' = "closed"
  /\ UNCHANGED <<backup, journal, journalTmp, history, flags, crashes, failures>>

RestoreSteps == {"backup", "journal", "journal_rename", "publish", "publish_rename"}

\* Mutant: the exception leaves the parts published so far in place.
RestoreFailsSilently ==
  /\ pc \in RestoreSteps
  /\ failures < MaxFailures
  /\ failures' = failures + 1
  /\ pc' = "cleanup"
  /\ index' = 1
  /\ after' = "closed"
  /\ UNCHANGED <<files, history, flags, crashes>>

\* An exception: the catch block recovers the journal if there is one and
\* otherwise cleans up, then rethrows.  (An exception inside a recovery makes
\* the next recovery start over, as a crash there does.)
RestoreFails ==
  /\ pc \in RestoreSteps
  /\ failures < MaxFailures
  /\ failures' = failures + 1
  /\ pc' = IF journal.pending THEN "recover" ELSE "cleanup"
  /\ index' = 1
  /\ after' = "closed"
  /\ UNCHANGED <<files, history, flags, crashes>>

-----------------------------------------------------------------------------
(* What the open store does meanwhile: batches and checkpoints             *)

BeginBatch ==
  /\ pc = "ready"
  /\ ~batchJournal
  /\ versions < MaxVersion
  /\ batchJournal' = TRUE
  /\ UNCHANGED <<files, checkpoint, versions, pc, index, flags, after, crashes, failures>>

EndBatch ==
  /\ pc = "ready"
  /\ batchJournal
  /\ versions' = versions + 1
  /\ file' = [p \in Parts |-> versions']
  /\ batchJournal' = FALSE
  /\ UNCHANGED <<backup, journal, journalTmp, partTmp, checkpoint, pc, index,
                 flags, after, crashes, failures>>

SaveCheckpoint ==
  /\ pc = "ready"
  /\ ~batchJournal
  /\ file[Training] # 0
  /\ checkpoint' = file[Training]
  /\ UNCHANGED <<files, batchJournal, versions, pc, index, flags, after, crashes, failures>>

CloseStore ==
  /\ pc = "ready"
  /\ ~batchJournal
  /\ pc' = "closed"
  /\ UNCHANGED <<files, history, index, flags, after, crashes, failures>>

Crash ==
  /\ pc # "closed"
  /\ crashes < MaxCrashes
  /\ crashes' = crashes + 1
  /\ pc' = "closed"
  /\ index' = 1
  /\ flags' = {}
  /\ after' = "closed"
  /\ UNCHANGED <<files, history, failures>>

RecoveryStep ==
  \/ RecoverNothing
  \/ RecoverRollback
  \/ RollbackCopy
  \/ RollbackRename
  \/ RollbackRemove
  \/ CleanupBackup
  \/ CleanupJournal
  \/ CleanupTemporaries
  \/ Opened

RestoreStep ==
  \/ LoadCheckpoint
  \/ BackupPart
  \/ JournalTmp
  \/ JournalRename
  \/ PublishTmp
  \/ PublishRename

Next ==
  \/ OpenStore
  \/ StartRestore
  \/ RecoveryStep
  \/ RestoreStep
  \/ RestoreFails
  \/ BeginBatch
  \/ EndBatch
  \/ SaveCheckpoint
  \/ CloseStore
  \/ Crash

Spec == Init /\ [][Next]_vars

\* A process that has started to recover or to restore keeps going: the code
\* is sequential and waits for nothing.
FairSpec == Spec /\ WF_vars(RecoveryStep) /\ WF_vars(RestoreStep)

-----------------------------------------------------------------------------
(* Properties                                                              *)

\* Types of the files and of the process's memory.
TypeOK ==
  /\ file \in [Parts -> Versions]
  /\ backup \in [Parts -> Versions]
  /\ journal \in [pending : BOOLEAN, flags : SUBSET Parts, target : Versions]
  /\ journalTmp \in BOOLEAN
  /\ partTmp \in SUBSET Parts
  /\ batchJournal \in BOOLEAN
  /\ checkpoint \in Versions
  /\ versions \in Versions
  /\ pc \in RestoreSteps \cup
       {"closed", "recover", "rollback", "rollback_rename", "cleanup",
        "cleanup_journal", "cleanup_tmp", "opened", "load", "ready"}
  /\ index \in Parts
  /\ flags \in SUBSET Parts
  /\ after \in {"closed", "opened", "load"}
  /\ crashes \in 0..MaxCrashes
  /\ failures \in 0..MaxFailures

\* A store that opens has the manifests of one generation and no file that
\* cleanup_orphans of a component would refuse, however many restores,
\* failures and crashes came before.
OpenStoreConsistent ==
  pc = "ready" => /\ \A p \in Parts : file[p] = file[Training]
                  /\ partTmp = {}

\* A restore finds no backup or temporary of an earlier one: the checks for a
\* stale component backup and for an existing temporary never throw.
NoStaleRestoreFile ==
  /\ pc = "backup" => backup[index] = 0
  /\ pc = "journal" => ~journalTmp /\ ~journal.pending
  /\ pc = "publish" => index \notin partTmp

\* What a recovery makes of part p: while the journal has to be rolled back its
\* backup, once that is gone the restored file, otherwise the file.
Recovered(p) ==
  IF journal.pending /\ ~TargetPublished
  THEN CASE p \notin journal.flags -> 0
         [] p \in journal.flags /\ backup[p] # 0 -> backup[p]
         [] OTHER -> file[p]
  ELSE file[p]

\* All parts move to the checkpoint together or not at all.
Atomic == INSTANCE AtomicRestore WITH content <- [p \in Parts |-> Recovered(p)]

RefinesAtomicRestore == Atomic!Spec

\* A process that starts on the directory gets through recovery.
RecoveryTerminates == (pc = "recover") ~> (pc \in {"ready", "load", "closed"} \cup RestoreSteps)

=============================================================================
