----------------------- MODULE CheckpointRestoreProofs -----------------------
(***************************************************************************)
(* Theorems about CheckpointRestore, for every number of components, of    *)
(* versions, of crashes and of failures.                                   *)
(***************************************************************************)
EXTENDS CheckpointRestore, TLAPS

(***************************************************************************)
(* The inductive invariant.  `v` is the version that the directory had     *)
(* before the restore of the journal, or has if no journal is pending.     *)
(***************************************************************************)

Rolling == {"rollback", "rollback_rename"}
Cleaning == {"cleanup", "cleanup_journal"}
Publishing == {"publish", "publish_rename"}

\* A batch that is open can still commit a version.
BatchBounded == batchJournal => versions < MaxVersion

\* Without a journal the parts have one version.  With one, each has that
\* version or the target's, and a backup is only missing where it is not
\* needed.
OneVersion(v) ==
  /\ ~journal.pending => \A p \in Parts : file[p] = v
  /\ journal.pending =>
       /\ journal.flags = IF v = 0 THEN {} ELSE Parts
       /\ \A p \in Parts : backup[p] \in {0, v} /\ file[p] \in {v, journal.target}
       /\ \A p \in journal.flags :
            backup[p] = 0 => file[p] = v \/ TargetPublished

\* A rollback goes through the parts in order; the backups are removed only
\* when every part is back, or every part is published.
RollbackPhase(v) ==
  /\ pc \in Rolling =>
       /\ journal.pending /\ ~TargetPublished
       /\ \A p \in 1 .. index - 1 : file[p] = v
  /\ pc = "rollback_rename" => index \in journal.flags /\ backup[index] # 0
  /\ pc \in Cleaning /\ journal.pending => TargetPublished \/ \A p \in Parts : file[p] = v

\* A cleanup removes the backups in order, then the journal.
CleanupPhase ==
  /\ pc = "cleanup" => \A p \in 1 .. index - 1 : backup[p] = 0
  /\ pc \in {"cleanup_journal", "cleanup_tmp", "opened", "load", "ready"} =>
       \A p \in Parts : backup[p] = 0
  /\ pc \in {"cleanup_tmp", "opened", "load", "ready", "backup", "journal", "journal_rename"} =>
       ~journal.pending
  /\ pc \in {"opened", "load", "ready", "backup", "journal"} => ~journalTmp
  /\ pc \in {"opened", "load", "ready", "backup", "journal", "journal_rename", "publish"} =>
       partTmp = {}

\* A restore copies every part that exists before it writes the journal, and
\* publishes only what it can roll back.
RestorePhase ==
  /\ pc \in RestoreSteps => checkpoint # 0
  /\ pc = "backup" =>
       /\ \A p \in 1 .. index - 1 : backup[p] = file[p]
       /\ \A p \in index .. Training : backup[p] = 0
       /\ flags = {p \in 1 .. index - 1 : file[p] # 0}
  /\ pc \in {"journal", "journal_rename"} =>
       /\ \A p \in Parts : backup[p] = file[p]
       /\ flags = {p \in Parts : file[p] # 0}
  /\ pc \in Publishing =>
       /\ journal.pending /\ journal.target = checkpoint
       /\ \A p \in journal.flags : backup[p] # 0
       /\ partTmp \subseteq {index}

IndInv ==
  /\ TypeOK /\ BatchBounded /\ CleanupPhase /\ RestorePhase
  /\ \E v \in Versions : OneVersion(v) /\ RollbackPhase(v)

(***************************************************************************)
(* The steps.                                                              *)
(***************************************************************************)

\* A directory without manifests.
LEMMA InitInv == Init => IndInv
PROOF
<1> SUFFICES ASSUME Init PROVE IndInv
  OBVIOUS
<1> USE RestoreAssumption DEF Init, Parts, Training, Versions, NoJournal, RestoreSteps
<1>1. TypeOK
  <2>1. checkpoint \in 0 .. MaxVersion /\ versions \in 0 .. MaxVersion
    OBVIOUS
  <2>2. file \in [Parts -> Versions] /\ backup \in [Parts -> Versions]
    OBVIOUS
  <2>3. journal \in [pending : BOOLEAN, flags : SUBSET Parts, target : Versions]
    OBVIOUS
  <2>4. /\ index \in Parts /\ crashes \in 0 .. MaxCrashes /\ failures \in 0 .. MaxFailures
    OBVIOUS
  <2> QED BY <2>3, <2>4 DEF TypeOK
<1>2. BatchBounded /\ CleanupPhase /\ RestorePhase
  BY DEF BatchBounded, CleanupPhase, RestorePhase, Publishing
<1>3. OneVersion(0) /\ RollbackPhase(0) /\ 0 \in Versions
  BY DEF OneVersion, RollbackPhase, Rolling
<1> QED BY <1>1, <1>2, <1>3 DEF IndInv

\* A process opens the directory.
LEMMA OpenStoreInv ==
  ASSUME IndInv, OpenStore
  PROVE  IndInv'
PROOF
<1> USE RestoreAssumption DEF OpenStore, files, history, Parts, Training, Versions
<1>1. PICK v \in Versions : OneVersion(v) /\ RollbackPhase(v)
  BY DEF IndInv
<1>2. TypeOK /\ BatchBounded /\ CleanupPhase /\ RestorePhase
  BY DEF IndInv
<1>3. TypeOK'
  BY <1>2 DEF TypeOK
<1>4. BatchBounded' /\ CleanupPhase'
  BY <1>2 DEF BatchBounded, CleanupPhase
<1>5. RestorePhase'
  BY DEF RestoreSteps, RestorePhase, Publishing
<1>6. OneVersion(v)'
  BY <1>1 DEF OneVersion, TargetPublished
<1>7. RollbackPhase(v)'
  BY DEF RollbackPhase, Rolling, Cleaning
<1> QED BY <1>3, <1>4, <1>5, <1>6, <1>7 DEF IndInv

\* The recovery of the directory is over.
LEMMA OpenedInv ==
  ASSUME IndInv, Opened
  PROVE  IndInv'
PROOF
<1> USE RestoreAssumption DEF Opened, files, history, Parts, Training, Versions
<1>1. PICK v \in Versions : OneVersion(v) /\ RollbackPhase(v)
  BY DEF IndInv
<1>2. TypeOK /\ BatchBounded /\ CleanupPhase /\ RestorePhase
  BY DEF IndInv
<1>3. TypeOK'
  BY <1>2 DEF TypeOK
<1>4. BatchBounded' /\ CleanupPhase'
  BY <1>2 DEF BatchBounded, CleanupPhase
<1>5. RestorePhase'
  BY DEF RestoreSteps, RestorePhase, Publishing
<1>6. OneVersion(v)'
  BY <1>1 DEF OneVersion, TargetPublished
<1>7. RollbackPhase(v)'
  BY DEF RollbackPhase, Rolling, Cleaning
<1> QED BY <1>3, <1>4, <1>5, <1>6, <1>7 DEF IndInv

\* A process starts a restore.
LEMMA StartRestoreInv ==
  ASSUME IndInv, StartRestore
  PROVE  IndInv'
PROOF
<1> USE RestoreAssumption DEF StartRestore, files, history, Parts, Training, Versions
<1>1. PICK v \in Versions : OneVersion(v) /\ RollbackPhase(v)
  BY DEF IndInv
<1>2. TypeOK /\ BatchBounded /\ CleanupPhase /\ RestorePhase
  BY DEF IndInv
<1>3. TypeOK'
  BY <1>2 DEF TypeOK
<1>4. BatchBounded' /\ CleanupPhase'
  BY <1>2 DEF BatchBounded, CleanupPhase
<1>5. RestorePhase'
  BY DEF RestoreSteps, RestorePhase, Publishing
<1>6. OneVersion(v)'
  BY <1>1 DEF OneVersion, TargetPublished
<1>7. RollbackPhase(v)'
  BY DEF RollbackPhase, Rolling, Cleaning
<1> QED BY <1>3, <1>4, <1>5, <1>6, <1>7 DEF IndInv

\* Nothing to roll back.
LEMMA RecoverNothingInv ==
  ASSUME IndInv, RecoverNothing
  PROVE  IndInv'
PROOF
<1> USE RestoreAssumption DEF RecoverNothing, files, history, Parts, Training, Versions
<1>1. PICK v \in Versions : OneVersion(v) /\ RollbackPhase(v)
  BY DEF IndInv
<1>2. TypeOK /\ BatchBounded /\ CleanupPhase /\ RestorePhase
  BY DEF IndInv
<1>3. TypeOK'
  BY <1>2 DEF TypeOK
<1>4. BatchBounded' /\ CleanupPhase'
  BY <1>2 DEF BatchBounded, CleanupPhase
<1>5. RestorePhase'
  BY DEF RestoreSteps, RestorePhase, Publishing
<1>6. OneVersion(v)'
  BY <1>1 DEF OneVersion, TargetPublished
<1>7. RollbackPhase(v)'
  BY DEF RollbackPhase, Rolling, TargetPublished
<1> QED BY <1>3, <1>4, <1>5, <1>6, <1>7 DEF IndInv

\* The journal has to be rolled back.
LEMMA RecoverRollbackInv ==
  ASSUME IndInv, RecoverRollback
  PROVE  IndInv'
PROOF
<1> USE RestoreAssumption DEF RecoverRollback, files, history, Parts, Training, Versions
<1>1. PICK v \in Versions : OneVersion(v) /\ RollbackPhase(v)
  BY DEF IndInv
<1>2. TypeOK /\ BatchBounded /\ CleanupPhase /\ RestorePhase
  BY DEF IndInv
<1>3. TypeOK'
  BY <1>2 DEF TypeOK
<1>4. BatchBounded' /\ CleanupPhase'
  BY <1>2 DEF BatchBounded, CleanupPhase
<1>5. RestorePhase'
  BY DEF RestoreSteps, RestorePhase, Publishing
<1>6. OneVersion(v)'
  BY <1>1 DEF OneVersion
<1>7. RollbackPhase(v)'
  BY DEF RollbackPhase, Cleaning, TargetPublished
<1> QED BY <1>3, <1>4, <1>5, <1>6, <1>7 DEF IndInv

\* A backup is copied to a temporary ...
LEMMA RollbackCopyInv ==
  ASSUME IndInv, RollbackCopy
  PROVE  IndInv'
PROOF
<1> USE RestoreAssumption DEF RollbackCopy, files, history, Parts, Training, Versions
<1>1. PICK v \in Versions : OneVersion(v) /\ RollbackPhase(v)
  BY DEF IndInv
<1>2. TypeOK /\ BatchBounded /\ CleanupPhase /\ RestorePhase
  BY DEF IndInv
<1>3. TypeOK'
  BY <1>2 DEF TypeOK
<1>4. BatchBounded' /\ CleanupPhase'
  BY <1>2 DEF BatchBounded, CleanupPhase
<1>5. RestorePhase'
  BY DEF RestoreSteps, RestorePhase, Publishing
<1>6. OneVersion(v)'
  BY <1>1 DEF OneVersion, TargetPublished
<1>7. RollbackPhase(v)'
  BY <1>1 DEF RollbackPhase, Rolling, Cleaning, TargetPublished
<1> QED BY <1>3, <1>4, <1>5, <1>6, <1>7 DEF IndInv

\* ... and becomes the part again.
LEMMA RollbackRenameInv ==
  ASSUME IndInv, RollbackRename
  PROVE  IndInv'
PROOF
<1> USE RestoreAssumption DEF RollbackRename, NextRollback, files, history, Parts, Training, Versions
<1>1. PICK v \in Versions : OneVersion(v) /\ RollbackPhase(v)
  BY DEF IndInv
<1>2. TypeOK /\ BatchBounded /\ CleanupPhase /\ RestorePhase
  BY DEF IndInv
<1>3. TypeOK'
  <2>1. file' \in [Parts -> Versions]
    BY <1>2 DEF TypeOK
  <2>2. index' \in Parts
    BY <1>2 DEF TypeOK
  <2> QED BY <1>2, <2>2 DEF TypeOK
<1>4. BatchBounded' /\ CleanupPhase'
  BY <1>2 DEF BatchBounded, CleanupPhase
<1>5. RestorePhase'
  BY DEF RestoreSteps, RestorePhase, Publishing
<1>8. /\ journal.pending /\ ~TargetPublished /\ backup[index] = v
      /\ file \in [Parts -> Versions] /\ index \in Parts /\ index \in journal.flags
      /\ \A p \in 1 .. index - 1 : file[p] = v
  BY <1>1, <1>2 DEF TypeOK, OneVersion, RollbackPhase, Rolling
<1>9. /\ \A p \in Parts : file'[p] = IF p = index THEN v ELSE file[p]
      /\ journal' = journal /\ backup' = backup
  BY <1>8
<1>10. v # journal.target
  BY <1>1, <1>8 DEF OneVersion, TargetPublished
<1>6. OneVersion(v)'
  BY <1>1, <1>8, <1>9 DEF OneVersion, TargetPublished
<1>7. RollbackPhase(v)'
  <2>1. CASE index < Training
    <3>1. \A p \in 1 .. index' - 1 : file'[p] = v
      <4>1. index' = index + 1 /\ index \in Nat /\ index <= Training
        BY <1>8, <2>1
      <4>2. ASSUME NEW p \in 1 .. index' - 1 PROVE p \in Parts /\ (p = index \/ p \in 1 .. index - 1)
        BY <4>1
      <4> QED BY <1>8, <1>9, <4>2
    <3>2. pc' = "rollback"
      BY <2>1
    <3>3. ~TargetPublished'
      BY <1>8, <1>9, <1>10 DEF TargetPublished
    <3> QED BY <1>8, <1>9, <3>1, <3>2, <3>3 DEF RollbackPhase, Cleaning
  <2>2. CASE ~(index < Training)
    <3>1. pc' = "cleanup" /\ \A p \in Parts : file'[p] = v
      BY <1>8, <1>9, <2>2
    <3> QED BY <3>1 DEF RollbackPhase, Rolling
  <2> QED BY <2>1, <2>2
<1> QED BY <1>3, <1>4, <1>5, <1>6, <1>7 DEF IndInv

\* A part that did not exist is removed.
LEMMA RollbackRemoveInv ==
  ASSUME IndInv, RollbackRemove
  PROVE  IndInv'
PROOF
<1> USE RestoreAssumption DEF RollbackRemove, NextRollback, files, history, Parts, Training, Versions
<1>1. PICK v \in Versions : OneVersion(v) /\ RollbackPhase(v)
  BY DEF IndInv
<1>2. TypeOK /\ BatchBounded /\ CleanupPhase /\ RestorePhase
  BY DEF IndInv
<1>3. TypeOK'
  <2>1. file' \in [Parts -> Versions]
    BY <1>2 DEF TypeOK
  <2>2. index' \in Parts
    BY <1>2 DEF TypeOK
  <2> QED BY <1>2, <2>1, <2>2 DEF TypeOK
<1>4. BatchBounded' /\ CleanupPhase'
  BY <1>2 DEF BatchBounded, CleanupPhase
<1>5. RestorePhase'
  BY DEF RestoreSteps, RestorePhase, Publishing
<1>8. /\ v = 0 /\ journal.pending /\ journal.flags = {}
      /\ file \in [Parts -> Versions] /\ index \in Parts
      /\ \A p \in 1 .. index - 1 : file[p] = 0
      /\ \A p \in Parts : file[p] \in {0, journal.target}
  BY <1>1, <1>2 DEF TypeOK, OneVersion, RollbackPhase, Rolling
<1>9. /\ \A p \in Parts : file'[p] = IF p = index THEN 0 ELSE file[p]
      /\ journal' = journal /\ backup' = backup
  BY <1>8
<1>6. OneVersion(v)'
  BY <1>1, <1>8 DEF OneVersion
<1>7. RollbackPhase(v)'
  <2>1. CASE index < Training
    <3>1. \A p \in 1 .. index' - 1 : file'[p] = v
      BY <1>8
    <3>2. pc' = "rollback" /\ index' = index + 1 /\ index + 1 \in Parts
      BY <2>1, <1>8
    <3>3. ~TargetPublished'
      BY <1>1, <1>8 DEF RollbackPhase, Rolling, TargetPublished
    <3> QED BY <3>3, <1>8 DEF RollbackPhase, Cleaning
  <2>2. CASE ~(index < Training)
    <3>1. pc' = "cleanup" /\ \A p \in Parts : file'[p] = v
      BY <2>2, <1>8
    <3> QED BY <3>1 DEF RollbackPhase, Rolling
  <2> QED BY <2>1, <2>2
<1> QED BY <1>3, <1>4, <1>5, <1>6, <1>7 DEF IndInv

\* A backup is removed.
LEMMA CleanupBackupInv ==
  ASSUME IndInv, CleanupBackup
  PROVE  IndInv'
PROOF
<1> USE RestoreAssumption DEF CleanupBackup, files, history, Parts, Training, Versions
<1>1. PICK v \in Versions : OneVersion(v) /\ RollbackPhase(v)
  BY DEF IndInv
<1>2. TypeOK /\ BatchBounded /\ CleanupPhase /\ RestorePhase
  BY DEF IndInv
<1>3. TypeOK'
  <2>1. backup' \in [Parts -> Versions]
    BY <1>2 DEF TypeOK
  <2>2. index' \in Parts
    BY <1>2 DEF TypeOK
  <2> QED BY <1>2, <2>1, <2>2 DEF TypeOK
<1>4. BatchBounded' /\ CleanupPhase'
  <2>1. backup' = [backup EXCEPT ![index] = 0] /\ backup \in [Parts -> Versions] /\ index \in Parts
    BY <1>2 DEF TypeOK
  <2>2. \A p \in 1 .. index : backup'[p] = 0
    BY <1>2, <2>1 DEF CleanupPhase
  <2> QED BY <1>2, <2>1, <2>2 DEF BatchBounded, CleanupPhase
<1>5. RestorePhase'
  BY DEF RestoreSteps, RestorePhase, Publishing
<1>6. OneVersion(v)'
  BY <1>1 DEF OneVersion, RollbackPhase, Cleaning, TargetPublished
<1>7. RollbackPhase(v)'
  BY <1>1 DEF RollbackPhase, Rolling, Cleaning, TargetPublished
<1> QED BY <1>3, <1>4, <1>5, <1>6, <1>7 DEF IndInv

\* The journal is removed.
LEMMA CleanupJournalInv ==
  ASSUME IndInv, CleanupJournal
  PROVE  IndInv'
PROOF
<1> USE RestoreAssumption DEF CleanupJournal, files, history, Parts, Training, Versions
<1>1. PICK v \in Versions : OneVersion(v) /\ RollbackPhase(v)
  BY DEF IndInv
<1>2. TypeOK /\ BatchBounded /\ CleanupPhase /\ RestorePhase
  BY DEF IndInv
<1>3. TypeOK'
  BY <1>2 DEF TypeOK, NoJournal
<1>4. BatchBounded' /\ CleanupPhase'
  BY <1>2 DEF BatchBounded, CleanupPhase, NoJournal
<1>5. RestorePhase'
  BY DEF RestoreSteps, RestorePhase, Publishing
<1>8. PICK w \in Versions : w = IF journal.pending /\ TargetPublished THEN journal.target ELSE v
  BY <1>2 DEF TypeOK
<1>6. OneVersion(w)'
  BY <1>1, <1>8 DEF OneVersion, RollbackPhase, Cleaning, TargetPublished, NoJournal
<1>7. RollbackPhase(w)'
  BY DEF RollbackPhase, Rolling, NoJournal
<1> QED BY <1>3, <1>4, <1>5, <1>6, <1>7 DEF IndInv

\* The temporaries are removed.
LEMMA CleanupTemporariesInv ==
  ASSUME IndInv, CleanupTemporaries
  PROVE  IndInv'
PROOF
<1> USE RestoreAssumption DEF CleanupTemporaries, files, history, Parts, Training, Versions
<1>1. PICK v \in Versions : OneVersion(v) /\ RollbackPhase(v)
  BY DEF IndInv
<1>2. TypeOK /\ BatchBounded /\ CleanupPhase /\ RestorePhase
  BY DEF IndInv
<1>3. TypeOK'
  BY <1>2 DEF TypeOK
<1>4. BatchBounded' /\ CleanupPhase'
  BY <1>2 DEF TypeOK, BatchBounded, CleanupPhase
<1>5. RestorePhase'
  BY <1>2 DEF TypeOK, RestoreSteps, RestorePhase, Publishing
<1>6. OneVersion(v)'
  BY <1>1 DEF OneVersion, TargetPublished
<1>7. RollbackPhase(v)'
  BY <1>2 DEF TypeOK, RollbackPhase, Rolling, Cleaning
<1> QED BY <1>3, <1>4, <1>5, <1>6, <1>7 DEF IndInv

\* The checkpoint loads, or the restore ends.
LEMMA LoadCheckpointInv ==
  ASSUME IndInv, LoadCheckpoint
  PROVE  IndInv'
PROOF
<1> USE RestoreAssumption DEF LoadCheckpoint, files, history, Parts, Training, Versions
<1>1. PICK v \in Versions : OneVersion(v) /\ RollbackPhase(v)
  BY DEF IndInv
<1>2. TypeOK /\ BatchBounded /\ CleanupPhase /\ RestorePhase
  BY DEF IndInv
<1>3. TypeOK'
  BY <1>2 DEF TypeOK, RestoreSteps
<1>4. BatchBounded' /\ CleanupPhase'
  BY <1>2 DEF BatchBounded, CleanupPhase
<1>5. RestorePhase'
  BY <1>2 DEF RestoreSteps, CleanupPhase, RestorePhase, Publishing
<1>6. OneVersion(v)'
  BY <1>1 DEF OneVersion, TargetPublished
<1>7. RollbackPhase(v)'
  BY DEF RollbackPhase, Rolling, Cleaning
<1> QED BY <1>3, <1>4, <1>5, <1>6, <1>7 DEF IndInv

\* A part is copied to its backup.
LEMMA BackupPartInv ==
  ASSUME IndInv, BackupPart
  PROVE  IndInv'
PROOF
<1> USE RestoreAssumption DEF BackupPart, NextBackup, files, history, Parts, Training, Versions
<1>1. PICK v \in Versions : OneVersion(v) /\ RollbackPhase(v)
  BY DEF IndInv
<1>2. TypeOK /\ BatchBounded /\ CleanupPhase /\ RestorePhase
  BY DEF IndInv
<1>3. TypeOK'
  <2>1. backup' \in [Parts -> Versions]
    BY <1>2 DEF TypeOK
  <2>2. flags' \in SUBSET Parts
    BY <1>2 DEF TypeOK
  <2>3. index' \in Parts
    BY <1>2 DEF TypeOK
  <2> QED BY <1>2, <2>3 DEF TypeOK, RestoreSteps
<1>4. BatchBounded' /\ CleanupPhase'
  BY <1>2 DEF BatchBounded, CleanupPhase
<1>5. RestorePhase'
  BY <1>1, <1>2 DEF TypeOK, CleanupPhase, RestorePhase, Publishing, OneVersion
<1>6. OneVersion(v)'
  BY <1>1, <1>2 DEF CleanupPhase, OneVersion
<1>7. RollbackPhase(v)'
  BY DEF RollbackPhase, Rolling, Cleaning
<1> QED BY <1>3, <1>4, <1>5, <1>6, <1>7 DEF IndInv

\* The journal is written ...
LEMMA JournalTmpInv ==
  ASSUME IndInv, JournalTmp
  PROVE  IndInv'
PROOF
<1> USE RestoreAssumption DEF JournalTmp, files, history, Parts, Training, Versions
<1>1. PICK v \in Versions : OneVersion(v) /\ RollbackPhase(v)
  BY DEF IndInv
<1>2. TypeOK /\ BatchBounded /\ CleanupPhase /\ RestorePhase
  BY DEF IndInv
<1>3. TypeOK'
  BY <1>2 DEF TypeOK, RestoreSteps
<1>4. BatchBounded' /\ CleanupPhase'
  BY <1>2 DEF BatchBounded, CleanupPhase
<1>5. RestorePhase'
  BY <1>2 DEF RestoreSteps, RestorePhase, Publishing
<1>6. OneVersion(v)'
  BY <1>1 DEF OneVersion
<1>7. RollbackPhase(v)'
  BY DEF RollbackPhase, Rolling
<1> QED BY <1>3, <1>4, <1>5, <1>6, <1>7 DEF IndInv

\* ... and published.
LEMMA JournalRenameInv ==
  ASSUME IndInv, JournalRename
  PROVE  IndInv'
PROOF
<1> USE RestoreAssumption DEF JournalRename, files, history, Parts, Training, Versions
<1>1. PICK v \in Versions : OneVersion(v) /\ RollbackPhase(v)
  BY DEF IndInv
<1>2. TypeOK /\ BatchBounded /\ CleanupPhase /\ RestorePhase
  BY DEF IndInv
<1>3. TypeOK'
  <2>1. journal' \in [pending : BOOLEAN, flags : SUBSET Parts, target : Versions]
    BY <1>2 DEF TypeOK
  <2>2. index' \in Parts
    OBVIOUS
  <2> QED BY <1>2, <2>2 DEF TypeOK, RestoreSteps
<1>4. BatchBounded' /\ CleanupPhase'
  BY <1>2 DEF BatchBounded, CleanupPhase
<1>5. RestorePhase'
  <2>1. checkpoint' # 0 /\ pc' = "publish"
    BY <1>2 DEF RestorePhase, RestoreSteps
  <2>2. journal'.pending /\ journal'.target = checkpoint' /\ journal'.flags = flags
    BY <1>2
  <2>3. \A p \in flags : backup'[p] # 0
    BY <1>2 DEF RestorePhase
  <2>4. partTmp' = {}
    BY <1>2 DEF CleanupPhase
  <2> QED BY <2>1, <2>3, <2>4 DEF RestorePhase
<1>6. OneVersion(v)'
  <2>1. journal'.pending /\ journal'.flags = flags
    BY <1>2
  <2>2. \A p \in Parts : file[p] = v /\ backup[p] = v
    BY <1>1, <1>2 DEF OneVersion, CleanupPhase, RestorePhase
  <2>3. flags = IF v = 0 THEN {} ELSE Parts
    BY <1>2, <2>2 DEF RestorePhase
  <2> QED BY <2>2, <2>3 DEF OneVersion
<1>7. RollbackPhase(v)'
  BY DEF RollbackPhase, Rolling, Cleaning
<1> QED BY <1>3, <1>4, <1>5, <1>6, <1>7 DEF IndInv

\* A manifest of the checkpoint is written ...
LEMMA PublishTmpInv ==
  ASSUME IndInv, PublishTmp
  PROVE  IndInv'
PROOF
<1> USE RestoreAssumption DEF PublishTmp, files, history, Parts, Training, Versions
<1>1. PICK v \in Versions : OneVersion(v) /\ RollbackPhase(v)
  BY DEF IndInv
<1>2. TypeOK /\ BatchBounded /\ CleanupPhase /\ RestorePhase
  BY DEF IndInv
<1>3. TypeOK'
  BY <1>2 DEF TypeOK, RestoreSteps
<1>4. BatchBounded' /\ CleanupPhase'
  BY <1>2 DEF BatchBounded, CleanupPhase
<1>5. RestorePhase'
  BY <1>2 DEF RestoreSteps, RestorePhase, Publishing
<1>6. OneVersion(v)'
  BY <1>1 DEF OneVersion, TargetPublished
<1>7. RollbackPhase(v)'
  BY DEF RollbackPhase, Rolling, Cleaning
<1> QED BY <1>3, <1>4, <1>5, <1>6, <1>7 DEF IndInv

\* ... and published.
LEMMA PublishRenameInv ==
  ASSUME IndInv, PublishRename
  PROVE  IndInv'
PROOF
<1> USE RestoreAssumption DEF PublishRename, files, history, Parts, Training, Versions
<1>1. PICK v \in Versions : OneVersion(v) /\ RollbackPhase(v)
  BY DEF IndInv
<1>2. TypeOK /\ BatchBounded /\ CleanupPhase /\ RestorePhase
  BY DEF IndInv
<1>3. TypeOK'
  <2>1. file' \in [Parts -> Versions]
    BY <1>2 DEF TypeOK
  <2>2. index' \in Parts
    BY <1>2 DEF TypeOK
  <2> QED BY <1>2, <2>2 DEF TypeOK, RestoreSteps
<1>4. BatchBounded' /\ CleanupPhase'
  BY <1>2 DEF BatchBounded, CleanupPhase, RestorePhase, Publishing
<1>5. RestorePhase'
  BY <1>2 DEF RestoreSteps, RestorePhase, Publishing
<1>6. OneVersion(v)'
  BY <1>1, <1>2 DEF RestorePhase, Publishing, OneVersion
<1>7. RollbackPhase(v)'
  BY DEF RollbackPhase, Rolling, Cleaning
<1> QED BY <1>3, <1>4, <1>5, <1>6, <1>7 DEF IndInv

\* A step of the restore throws.
LEMMA RestoreFailsInv ==
  ASSUME IndInv, RestoreFails
  PROVE  IndInv'
PROOF
<1> USE RestoreAssumption DEF RestoreFails, files, history, Parts, Training, Versions
<1>1. PICK v \in Versions : OneVersion(v) /\ RollbackPhase(v)
  BY DEF IndInv
<1>2. TypeOK /\ BatchBounded /\ CleanupPhase /\ RestorePhase
  BY DEF IndInv
<1>3. TypeOK'
  BY <1>2 DEF TypeOK
<1>4. BatchBounded' /\ CleanupPhase'
  BY <1>2 DEF BatchBounded, CleanupPhase
<1>5. RestorePhase'
  BY <1>2 DEF RestorePhase, Publishing
<1>6. OneVersion(v)'
  BY <1>1 DEF OneVersion, TargetPublished
<1>7. RollbackPhase(v)'
  BY DEF RollbackPhase, Rolling, Cleaning
<1> QED BY <1>3, <1>4, <1>5, <1>6, <1>7 DEF IndInv

\* A batch begins.
LEMMA BeginBatchInv ==
  ASSUME IndInv, BeginBatch
  PROVE  IndInv'
PROOF
<1> USE RestoreAssumption DEF BeginBatch, files, history, Parts, Training, Versions
<1>1. PICK v \in Versions : OneVersion(v) /\ RollbackPhase(v)
  BY DEF IndInv
<1>2. TypeOK /\ BatchBounded /\ CleanupPhase /\ RestorePhase
  BY DEF IndInv
<1>3. TypeOK'
  BY <1>2 DEF TypeOK
<1>4. BatchBounded' /\ CleanupPhase'
  BY <1>2 DEF BatchBounded, CleanupPhase
<1>5. RestorePhase'
  BY <1>2 DEF RestorePhase
<1>6. OneVersion(v)'
  BY <1>1 DEF OneVersion, TargetPublished
<1>7. RollbackPhase(v)'
  BY <1>1 DEF RollbackPhase, TargetPublished
<1> QED BY <1>3, <1>4, <1>5, <1>6, <1>7 DEF IndInv

\* A batch is committed.
LEMMA EndBatchInv ==
  ASSUME IndInv, EndBatch
  PROVE  IndInv'
PROOF
<1> USE RestoreAssumption DEF EndBatch, files, history, Parts, Training, Versions
<1>1. PICK v \in Versions : OneVersion(v) /\ RollbackPhase(v)
  BY DEF IndInv
<1>2. TypeOK /\ BatchBounded /\ CleanupPhase /\ RestorePhase
  BY DEF IndInv
<1>3. TypeOK'
  <2>1. versions' \in Versions
    BY <1>2 DEF TypeOK, BatchBounded
  <2>2. file' \in [Parts -> Versions]
    BY <1>2 DEF TypeOK, BatchBounded
  <2> QED BY <1>2, <2>2 DEF TypeOK
<1>4. BatchBounded' /\ CleanupPhase'
  BY <1>2 DEF BatchBounded, CleanupPhase
<1>5. RestorePhase'
  BY <1>2 DEF RestorePhase
<1>8. PICK w \in Versions : w = versions'
  BY <1>3 DEF TypeOK
<1>6. OneVersion(w)'
  BY <1>2, <1>8 DEF CleanupPhase, OneVersion
<1>7. RollbackPhase(w)'
  BY <1>8 DEF RollbackPhase, Rolling
<1> QED BY <1>3, <1>4, <1>5, <1>6, <1>7 DEF IndInv

\* A checkpoint is saved.
LEMMA SaveCheckpointInv ==
  ASSUME IndInv, SaveCheckpoint
  PROVE  IndInv'
PROOF
<1> USE RestoreAssumption DEF SaveCheckpoint, files, history, Parts, Training, Versions
<1>1. PICK v \in Versions : OneVersion(v) /\ RollbackPhase(v)
  BY DEF IndInv
<1>2. TypeOK /\ BatchBounded /\ CleanupPhase /\ RestorePhase
  BY DEF IndInv
<1>3. TypeOK'
  BY <1>2 DEF TypeOK
<1>4. BatchBounded' /\ CleanupPhase'
  BY <1>2 DEF BatchBounded, CleanupPhase
<1>5. RestorePhase'
  BY DEF RestorePhase, Publishing
<1>6. OneVersion(v)'
  BY <1>1 DEF OneVersion, TargetPublished
<1>7. RollbackPhase(v)'
  BY <1>1 DEF RollbackPhase, TargetPublished
<1> QED BY <1>3, <1>4, <1>5, <1>6, <1>7 DEF IndInv

\* The store is closed.
LEMMA CloseStoreInv ==
  ASSUME IndInv, CloseStore
  PROVE  IndInv'
PROOF
<1> USE RestoreAssumption DEF CloseStore, files, history, Parts, Training, Versions
<1>1. PICK v \in Versions : OneVersion(v) /\ RollbackPhase(v)
  BY DEF IndInv
<1>2. TypeOK /\ BatchBounded /\ CleanupPhase /\ RestorePhase
  BY DEF IndInv
<1>3. TypeOK'
  BY <1>2 DEF TypeOK
<1>4. BatchBounded' /\ CleanupPhase'
  BY DEF BatchBounded, CleanupPhase
<1>5. RestorePhase'
  BY DEF RestoreSteps, RestorePhase, Publishing
<1>6. OneVersion(v)'
  BY <1>1 DEF OneVersion, TargetPublished
<1>7. RollbackPhase(v)'
  BY DEF RollbackPhase, Rolling, Cleaning
<1> QED BY <1>3, <1>4, <1>5, <1>6, <1>7 DEF IndInv

\* The process dies; the files stay.
LEMMA CrashInv ==
  ASSUME IndInv, Crash
  PROVE  IndInv'
PROOF
<1> USE RestoreAssumption DEF Crash, files, history, Parts, Training, Versions
<1>1. PICK v \in Versions : OneVersion(v) /\ RollbackPhase(v)
  BY DEF IndInv
<1>2. TypeOK /\ BatchBounded /\ CleanupPhase /\ RestorePhase
  BY DEF IndInv
<1>3. TypeOK'
  BY <1>2 DEF TypeOK
<1>4. BatchBounded' /\ CleanupPhase'
  BY <1>2 DEF BatchBounded, CleanupPhase
<1>5. RestorePhase'
  BY DEF RestoreSteps, RestorePhase, Publishing
<1>6. OneVersion(v)'
  BY <1>1 DEF OneVersion, TargetPublished
<1>7. RollbackPhase(v)'
  BY DEF RollbackPhase, Rolling, Cleaning
<1> QED BY <1>3, <1>4, <1>5, <1>6, <1>7 DEF IndInv

\* Every step preserves the invariant.
LEMMA NextInv ==
  ASSUME IndInv, [Next]_vars
  PROVE  IndInv'
PROOF
<1>1. CASE RecoveryStep
  BY <1>1, RecoverNothingInv, RecoverRollbackInv, RollbackCopyInv, RollbackRenameInv,
     RollbackRemoveInv, CleanupBackupInv, CleanupJournalInv, CleanupTemporariesInv, OpenedInv
     DEF RecoveryStep
<1>2. CASE RestoreStep
  BY <1>2, LoadCheckpointInv, BackupPartInv, JournalTmpInv, JournalRenameInv, PublishTmpInv,
     PublishRenameInv DEF RestoreStep
<1>3. CASE UNCHANGED vars
  BY <1>3 DEF IndInv, TypeOK, BatchBounded, CleanupPhase, RestorePhase, OneVersion,
              RollbackPhase, TargetPublished, vars, files, history
<1> QED BY <1>1, <1>2, <1>3, OpenStoreInv, StartRestoreInv, RestoreFailsInv, BeginBatchInv,
           EndBatchInv, SaveCheckpointInv, CloseStoreInv, CrashInv DEF Next

(***************************************************************************)
(* The theorems.                                                           *)
(***************************************************************************)

\* The invariant holds in every state the directory can be in.
THEOREM Invariance == Spec => []IndInv
PROOF
<1>1. Init => IndInv
  BY InitInv
<1>2. IndInv /\ [Next]_vars => IndInv'
  BY NextInv
<1> QED BY <1>1, <1>2, PTL DEF Spec

\* The files, the journal and the process's memory keep their types: a restore
\* never runs past the last part and no batch outruns the bound on versions.
THEOREM TypeCorrect == Spec => []TypeOK
PROOF
<1>1. IndInv => TypeOK
  BY DEF IndInv
<1> QED BY <1>1, Invariance, PTL

\* A store that opens has the manifests of one generation, however many
\* restores, failures and crashes came before.
THEOREM StoreConsistent == Spec => []OpenStoreConsistent
PROOF
<1>1. IndInv => OpenStoreConsistent
  BY RestoreAssumption
     DEF IndInv, OneVersion, CleanupPhase, OpenStoreConsistent, Parts, Training
<1> QED BY <1>1, Invariance, PTL

\* A restore never meets a backup or a temporary that an earlier one left.
THEOREM NoStaleFile == Spec => []NoStaleRestoreFile
PROOF
<1>1. IndInv => NoStaleRestoreFile
  BY DEF IndInv, TypeOK, CleanupPhase, RestorePhase, NoStaleRestoreFile, Parts
<1> QED BY <1>1, Invariance, PTL

(***************************************************************************)
(* The refinement of AtomicRestore.                                        *)
(***************************************************************************)

\* What a recovery yields is one version for all the parts: the target once it
\* is published, before that the version the directory had.
LEMMA RecoveredVersion ==
  ASSUME IndInv, NEW v \in Versions, OneVersion(v)
  PROVE  \A p \in Parts :
           Recovered(p) = IF journal.pending /\ TargetPublished THEN journal.target ELSE v
PROOF
  BY DEF OneVersion, Recovered, TargetPublished

\* The moves of files by which a recovery or a restore prepares itself leave
\* what a recovery yields as it was.
LEMMA RecoveredKept ==
  ASSUME IndInv,
         \/ RollbackRename \/ RollbackRemove \/ CleanupBackup \/ CleanupJournal
         \/ BackupPart \/ JournalRename
  PROVE  /\ \A p \in Parts : Recovered(p)' = Recovered(p)
         /\ checkpoint' = checkpoint
PROOF
<1> USE DEF history
<1>1. PICK v \in Versions : OneVersion(v) /\ RollbackPhase(v)
  BY DEF IndInv
<1>2. TypeOK /\ CleanupPhase /\ RestorePhase
  BY DEF IndInv
<1>3. \A p \in Parts :
        Recovered(p) = IF journal.pending /\ TargetPublished THEN journal.target ELSE v
  BY <1>1, RecoveredVersion
<1>4. file \in [Parts -> Versions] /\ backup \in [Parts -> Versions] /\ index \in Parts
  BY <1>2 DEF TypeOK
<1>5. CASE RollbackRename
  <2>1. /\ journal.pending /\ ~TargetPublished /\ journal.flags = Parts
        /\ backup[index] = v
    BY <1>1, <1>5 DEF RollbackRename, RollbackPhase, Rolling, OneVersion
  <2>2. /\ journal' = journal /\ backup' = backup /\ file'[index] = v
        /\ \A p \in Parts \ {index} : file'[p] = file[p]
    BY <1>4, <1>5, <2>1 DEF RollbackRename
  <2>3. \A p \in Parts : Recovered(p)' = v
    BY <1>1, <2>1, <2>2 DEF Recovered, TargetPublished, OneVersion
  <2> QED BY <1>3, <1>5, <2>1, <2>3 DEF RollbackRename
<1>6. CASE RollbackRemove
  <2>1. /\ journal.pending /\ ~TargetPublished /\ journal.flags = {} /\ v = 0
    BY <1>1, <1>4, <1>6 DEF RollbackRemove, RollbackPhase, Rolling, OneVersion
  <2>2. journal' = journal /\ file'[index] = 0
    BY <1>4, <1>6 DEF RollbackRemove
  <2>3. ~TargetPublished'
    BY <1>1, <1>4, <2>1, <2>2 DEF TargetPublished, OneVersion
  <2>4. \A p \in Parts : Recovered(p)' = 0
    BY <2>1, <2>2, <2>3 DEF Recovered
  <2> QED BY <1>3, <1>6, <2>1, <2>4 DEF RollbackRemove
<1>7. CASE CleanupBackup
  <2>1. /\ file' = file /\ journal' = journal
        /\ \A p \in Parts : backup'[p] \in {0, backup[p]}
    BY <1>7 DEF CleanupBackup
  <2>2. TargetPublished' <=> TargetPublished
    BY <2>1 DEF TargetPublished
  <2>3. CASE ~journal.pending \/ TargetPublished
    BY <1>7, <2>2, <2>3 DEF Recovered, CleanupBackup
  <2>4. CASE journal.pending /\ ~TargetPublished
    <3>1. \A p \in Parts : file[p] = v
      BY <1>1, <1>7, <2>4 DEF CleanupBackup, RollbackPhase, Cleaning
    <3>2. \A p \in Parts : Recovered(p)' = v
      BY <1>1, <2>1, <3>1 DEF Recovered, OneVersion
    <3> QED BY <1>3, <1>7, <2>4, <3>2 DEF CleanupBackup
  <2> QED BY <2>3, <2>4
<1>8. CASE CleanupJournal
  <2>1. ~journal'.pending /\ file' = file
    BY <1>8 DEF CleanupJournal, NoJournal
  <2>2. \A p \in Parts : Recovered(p)' = file[p]
    BY <2>1 DEF Recovered
  <2>3. \A p \in Parts : file[p] = Recovered(p)
    BY <1>1, <1>3, <1>8 DEF CleanupJournal, RollbackPhase, Cleaning, OneVersion, TargetPublished
  <2> QED BY <1>8, <2>2, <2>3 DEF CleanupJournal
<1>9. CASE BackupPart
  <2>1. ~journal.pending
    BY <1>2, <1>9 DEF CleanupPhase, BackupPart
  <2> QED BY <1>9, <2>1 DEF BackupPart, Recovered
<1>10. CASE JournalRename
  <2>1. /\ ~journal.pending
        /\ \A p \in Parts : backup[p] = file[p]
        /\ flags = {p \in Parts : file[p] # 0}
    BY <1>2, <1>10 DEF CleanupPhase, RestorePhase, JournalRename
  <2>2. \A p \in Parts : Recovered(p) = file[p]
    BY <2>1 DEF Recovered
  <2>3. /\ journal'.flags = flags /\ file' = file /\ backup' = backup
    BY <1>10 DEF JournalRename
  <2>4. \A p \in Parts : Recovered(p)' = file[p]
    BY <2>1, <2>3 DEF Recovered
  <2> QED BY <1>10, <2>2, <2>4 DEF JournalRename
<1> QED BY <1>5, <1>6, <1>7, <1>8, <1>9, <1>10

\* Every other step that is neither the end of a batch nor a manifest of the
\* checkpoint does not touch the manifests, their backups or the journal.
LEMMA QuietStep ==
  ASSUME \/ OpenStore \/ StartRestore \/ RecoverNothing \/ RecoverRollback \/ RollbackCopy
         \/ CleanupTemporaries \/ Opened \/ LoadCheckpoint \/ JournalTmp \/ PublishTmp
         \/ RestoreFails \/ BeginBatch \/ CloseStore \/ Crash \/ UNCHANGED vars
  PROVE  /\ \A p \in Parts : Recovered(p)' = Recovered(p)
         /\ checkpoint' = checkpoint
PROOF
<1>1. file' = file /\ backup' = backup /\ journal' = journal /\ checkpoint' = checkpoint
  BY DEF OpenStore, StartRestore, RecoverNothing, RecoverRollback, RollbackCopy,
         CleanupTemporaries, Opened, LoadCheckpoint, JournalTmp, PublishTmp, RestoreFails,
         BeginBatch, CloseStore, Crash, vars, files, history
<1> QED BY <1>1 DEF Recovered, TargetPublished

\* A restore with its failures, its crashes and its recoveries implements one
\* that is atomic: "recovers every component's prior manifest" or publishes
\* every manifest of the checkpoint.
THEOREM Refinement == Spec => RefinesAtomicRestore
PROOF
<1>1. Init => Atomic!Init
  <2> SUFFICES ASSUME Init PROVE Atomic!Init
    OBVIOUS
  <2>1. \A p \in Parts : Recovered(p) = 0
    BY DEF Init, Recovered
  <2>2. checkpoint \in Nat
    BY DEF Init
  <2> QED BY <2>1, <2>2 DEF Atomic!Init
<1>2. IndInv /\ [Next]_vars => [Atomic!Next]_(Atomic!vars)
  <2> SUFFICES ASSUME IndInv, [Next]_vars PROVE [Atomic!Next]_(Atomic!vars)
    OBVIOUS
  <2>1. TypeOK /\ CleanupPhase /\ RestorePhase
    BY DEF IndInv
  <2>2. CASE EndBatch
    <3>1. ~journal.pending /\ versions \in Nat
      BY <2>1, <2>2 DEF EndBatch, CleanupPhase, TypeOK, Versions
    <3>2. \A p \in Parts : Recovered(p)' = versions + 1
      BY <2>2, <3>1 DEF EndBatch, Recovered
    <3>3. checkpoint' = checkpoint
      BY <2>2 DEF EndBatch
    <3> QED BY <3>1, <3>2, <3>3 DEF Atomic!Next, Atomic!Commit
  <2>3. CASE SaveCheckpoint
    <3>1. ~journal.pending /\ Training \in Parts
      BY <2>1, <2>3, RestoreAssumption DEF SaveCheckpoint, CleanupPhase, Training, Parts
    <3>2. checkpoint' = Recovered(Training) /\ checkpoint' # 0
      BY <2>3, <3>1 DEF SaveCheckpoint, Recovered
    <3>3. \A p \in Parts : Recovered(p)' = Recovered(p)
      BY <2>3 DEF SaveCheckpoint, files, Recovered, TargetPublished
    <3> QED BY <3>1, <3>2, <3>3 DEF Atomic!Next, Atomic!Save
  <2>4. CASE PublishRename
    <3>1. /\ checkpoint # 0 /\ journal.pending /\ journal.target = checkpoint
          /\ \A p \in journal.flags : backup[p] # 0
      BY <2>1, <2>4 DEF PublishRename, RestorePhase, RestoreSteps, Publishing
    <3>2. journal' = journal /\ backup' = backup /\ checkpoint' = checkpoint
      BY <2>4 DEF PublishRename, history
    <3>3. CASE TargetPublished'
      <4>1. \A p \in Parts : Recovered(p)' = checkpoint
        BY <3>1, <3>2, <3>3 DEF Recovered, TargetPublished
      <4> QED BY <3>1, <3>2, <4>1 DEF Atomic!Next, Atomic!Restore
    <3>4. CASE ~TargetPublished'
      <4>1. ~TargetPublished
        BY <2>4, <3>4 DEF PublishRename, TargetPublished
      <4>2. \A p \in Parts : Recovered(p)' = Recovered(p)
        BY <3>1, <3>2, <3>4, <4>1 DEF Recovered
      <4> QED BY <3>2, <4>2 DEF Atomic!vars
    <3> QED BY <3>3, <3>4
  <2>5. CASE ~(EndBatch \/ SaveCheckpoint \/ PublishRename)
    <3>1. (\A p \in Parts : Recovered(p)' = Recovered(p)) /\ checkpoint' = checkpoint
      BY <2>5, RecoveredKept, QuietStep DEF Next, RecoveryStep, RestoreStep
    <3> QED BY <3>1 DEF Atomic!vars
  <2> QED BY <2>2, <2>3, <2>4, <2>5
<1> QED BY <1>1, <1>2, Invariance, PTL DEF Spec, RefinesAtomicRestore, Atomic!Spec

=============================================================================
