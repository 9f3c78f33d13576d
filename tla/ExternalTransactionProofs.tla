---------------------- MODULE ExternalTransactionProofs ----------------------
(***************************************************************************)
(* Proofs about the aggregate batch transaction, for every number of       *)
(* components, batches, generations and crashes.                           *)
(***************************************************************************)
EXTENDS ExternalTransaction, TLAPS

USE DEF vars, aggregateFiles, componentFiles, journalFiles, batchMemory

\* The first component is one, and a loop that is not at the last one has a next.
LEMMA ComponentFacts ==
  /\ 1 \in Components
  /\ \A i \in Components :
       i \in Nat /\ 1 <= i /\ i <= ComponentCount
         /\ (i < ComponentCount => i + 1 \in Components)
BY ConstantsAssumption DEF Components

\* The loops over the components visit them in order, from the first to the last.
LEMMA OrderFacts ==
  \A c \in Components :
    /\ ~(c < 1)
    /\ \A i \in Components :
         /\ c < i + 1 <=> c <= i
         /\ c <= i <=> c < i \/ c = i
         /\ c >= i + 1 <=> c > i
         /\ c >= i <=> c > i \/ c = i
         /\ c < i \/ c >= i
         /\ ~(c < i /\ c >= i)
         /\ ~(i < ComponentCount) => c <= i
BY ConstantsAssumption DEF Components

\* What the code reads for a file that does not exist has the type of one.
LEMMA EmptyValues ==
  /\ NoManifest \in Manifests
  /\ NoGeneration \in Generations
  /\ NoJournal \in Journals
  /\ NoBackup \in Backups
  /\ NoTx \in Transactions
BY DEF NoManifest, Manifests, NoGeneration, Generations, NoJournal, Journals,
       NoBackup, Backups, NoTx, Transactions

\* compact_impl merges runs of the component, and only runs of the open batch
\* when it is going to delete them.
LEMMA CompactionInputsFacts ==
  \A c \in Components :
    /\ CompactionInputs(c) \subseteq manifest[c].runs
    /\ SuffixTooLong(c) => CompactionInputs(c) \subseteq BatchRuns(c)
BY DEF CompactionInputs, Newest, BatchRuns

\* An empty directory and a process that has not opened it are well typed.
LEMMA TypeInit == Init => TypeOK
<1> SUFFICES ASSUME Init PROVE TypeOK
  OBVIOUS
<1> USE ComponentFacts, EmptyValues DEF Init
<1>1. /\ training \in Generations
      /\ manifest \in [Components -> Manifests]
      /\ runFiles \in [Components -> SUBSET Nat]
      /\ componentWal \in [Components -> Nat]
      /\ backup \in [Components -> Backups]
  OBVIOUS
<1>2. /\ journal \in Journals
      /\ current \in Generations
      /\ tx \in Transactions
  OBVIOUS
<1>3. /\ trainingTmp \in BOOLEAN
      /\ journalTmp \in BOOLEAN
      /\ pageOpen \in BOOLEAN
  OBVIOUS
<1>4. /\ batchNumber \in Nat
      /\ inputs \in SUBSET Nat
      /\ pc \in PcValues
      /\ index \in Components
      /\ after \in {"open", "reclaim"}
      /\ crashes \in Nat
  BY DEF PcValues
<1>5. QED
  BY <1>1, <1>2, <1>3, <1>4 DEF TypeOK

\* Every step keeps the types of the files and of the process's memory.
LEMMA TypeNext == TypeOK /\ [Next]_vars => TypeOK'
<1> SUFFICES ASSUME TypeOK, [Next]_vars PROVE TypeOK'
  OBVIOUS
<1> USE ComponentFacts, EmptyValues DEF TypeOK, PcValues, OpenBatchSteps
<1>1. CASE ClearJournal
  BY <1>1 DEF ClearJournal
<1>2. CASE ClearJournalTmp
  BY <1>2 DEF ClearJournalTmp
<1>3. CASE ClearBackup
  <2>1. backup' \in [Components -> Backups]
    BY <1>3 DEF ClearBackup
  <2>2. CASE index < ComponentCount
    BY <1>3, <2>1, <2>2 DEF ClearBackup
  <2>3. CASE ~(index < ComponentCount)
    <3>1. /\ tx' \in Transactions
          /\ pc' \in PcValues
          /\ pageOpen' \in BOOLEAN
      BY <1>3, <2>3 DEF ClearBackup
    <3>2. QED
      BY <1>3, <2>1, <2>3, <3>1 DEF ClearBackup
  <2>4. QED
    BY <2>2, <2>3
<1>4. CASE RecoverNothing
  BY <1>4 DEF RecoverNothing
<1>5. CASE RecoverCommitted
  BY <1>5 DEF RecoverCommitted
<1>6. CASE RecoverPending
  BY <1>6 DEF RecoverPending, Transactions, Journals
<1>7. CASE RollbackManifest
  BY <1>7 DEF RollbackManifest, Backups
<1>8. CASE RollbackTemporaries
  BY <1>8 DEF RollbackTemporaries
<1>9. CASE OpenComponent
  BY <1>9 DEF OpenComponent, ReplayedManifest, Manifests
<1>10. CASE Reclaim
  BY <1>10 DEF Reclaim
<1>11. CASE BackupStart
  BY <1>11 DEF BackupStart, Backups, Transactions, NoBackup, Manifests, NoManifest
<1>12. CASE BackupEnd
  <2>1. backup' \in [Components -> Backups]
    BY <1>12 DEF BackupEnd, Backups
  <2>2. tx' \in Transactions
    BY <1>12 DEF BackupEnd, Transactions
  <2>3. QED
    BY <1>12, <2>1, <2>2 DEF BackupEnd
<1>13. CASE BeginJournalTmp
  BY <1>13 DEF BeginJournalTmp
<1>14. CASE BeginFails
  BY <1>14 DEF BeginFails
<1>15. CASE BeginUndoBackups
  BY <1>15 DEF BeginUndoBackups
<1>16. CASE BeginUndoJournal
  BY <1>16 DEF BeginUndoJournal
<1>17. CASE AppendRun
  BY <1>17 DEF AppendRun, Manifests
<1>18. CASE AppendPublish
  BY <1>18 DEF AppendPublish, Manifests, AppendNumber
<1>19. CASE CompactStart
  BY <1>19 DEF CompactStart
<1>20. CASE CompactSkip
  BY <1>20 DEF CompactSkip, CompactNext
<1>21. CASE CompactRun
  BY <1>21 DEF CompactRun, CompactionInputs, Newest, BatchRuns, Manifests
<1>22. CASE CompactPublish
  <2>1. manifest' \in [Components -> Manifests]
    BY <1>22 DEF CompactPublish, Manifests
  <2>2. QED
    BY <1>22, <2>1 DEF CompactPublish
<1>23. CASE CompactDelete
  BY <1>23 DEF CompactDelete
<1>24. CASE CompactEnd
  BY <1>24 DEF CompactEnd, CompactNext
<1>25. CASE BeginPageBatch
  BY <1>25 DEF BeginPageBatch
<1>26. CASE CommitStart
  BY <1>26 DEF CommitStart
<1>27. CASE FinalizeTmp
  BY <1>27 DEF FinalizeTmp
<1>28. CASE CommitTmp
  BY <1>28 DEF CommitTmp
<1>29. CASE CommitRename
  <2>1. NextGeneration \in Generations
    BY DEF NextGeneration, Generations, Transactions, Manifests
  <2>2. QED
    BY <1>29, <2>1 DEF CommitRename
<1>30. CASE CommitMemory
  BY <1>30 DEF CommitMemory, Transactions
<1>31. CASE ClearFails
  BY <1>31 DEF ClearFails
<1>32. CASE Abort
  BY <1>32 DEF Abort
<1>33. CASE AbortPublished
  BY <1>33 DEF AbortPublished
<1>34. CASE Crash
  <2>1. /\ current' \in Generations
        /\ tx' \in Transactions
        /\ pageOpen' \in BOOLEAN
        /\ pc' \in PcValues
    BY <1>34 DEF Crash
  <2>2. QED
    BY <1>34, <2>1 DEF Crash
<1>35. ASSUME NEW b \in 1..MaxBatch, BeginBatch(b) PROVE TypeOK'
  <2>1. b \in Nat
    BY ConstantsAssumption
  <2>2. tx' \in Transactions
    BY <1>35, <2>1 DEF BeginBatch, NoTx, Transactions
  <2>3. QED
    BY <1>35, <2>2 DEF BeginBatch
<1>36. ASSUME NEW synced \in BOOLEAN, BeginJournal(synced) PROVE TypeOK'
  BY <1>36 DEF BeginJournal, Transactions, Journals
<1>37. ASSUME NEW c \in Components, AppendJournal(c) PROVE TypeOK'
  BY <1>37 DEF AppendJournal, AppendNumber, Manifests
<1>38. ASSUME NEW removed \in BOOLEAN, AppendEnd(removed) PROVE TypeOK'
  BY <1>38 DEF AppendEnd
<1>39. ASSUME NEW f \in Fingerprints, FinalizeJournal(f) PROVE TypeOK'
  BY <1>39, ConstantsAssumption DEF FinalizeJournal, Transactions, Journals
<1>40. CASE UNCHANGED vars
  BY <1>40
<1>41. QED
  BY <1>1, <1>2, <1>3, <1>4, <1>5, <1>6, <1>7, <1>8, <1>9, <1>10, <1>11,
      <1>12, <1>13, <1>14, <1>15, <1>16, <1>17, <1>18, <1>19, <1>20, <1>21,
      <1>22, <1>23, <1>24, <1>25, <1>26, <1>27, <1>28, <1>29, <1>30, <1>31,
      <1>32, <1>33, <1>34, <1>35, <1>36, <1>37, <1>38, <1>39, <1>40 DEF Next,
      RecoveryStep, BatchStep

(* Spec never leaves the types of the files and of the process's memory.   *)
THEOREM TypeCorrect == Spec => []TypeOK
BY TypeInit, TypeNext, PTL DEF Spec
-----------------------------------------------------------------------------
(* The inductive invariant, by phase of the protocol.                      *)

\* Every manifest lists existing runs of generations it has reached, and a
\* component without a generation has no manifest.
ManifestRuns ==
  \A c \in Components :
    /\ manifest[c].runs \subseteq runFiles[c]
    /\ manifest[c].runs \subseteq 1..manifest[c].generation
    /\ CommittedManifest(c).runs \subseteq 1..CommittedManifest(c).generation
    /\ manifest[c].generation = 0 => manifest[c] = NoManifest
    /\ CommittedManifest(c).generation = 0 => CommittedManifest(c) = NoManifest

\* Outside a batch and its rollback no batch is pending, and outside the
\* publication of a generation the process knows the published one.
PhaseOfJournal ==
  /\ pc \in {"open", "idle", "reclaim", "published"} => ~Uncommitted
  /\ pc \in {"begin", "begin_copy", "begin_journal", "begin_rename",
             "begin_undo_journal", "clear_tmp", "clear_backups"} => ~journal.pending
  /\ pc # "begin_undo"
  /\ pc \notin {"down", "published"} => current = training
  /\ pc \in {"clear", "clear_tmp", "clear_backups"} /\ after = "reclaim" => ~Uncommitted

\* begin_batch has backed up every component before index, completely.
BackedUp(c) ==
  /\ tx.generations[c] = manifest[c].generation
  /\ c \in tx.flags <=> manifest[c].generation # 0
  /\ c \in tx.flags => backup[c] = [state |-> "complete", manifest |-> manifest[c]]

BeginPhase ==
  /\ pc \in {"begin", "begin_copy", "begin_journal", "begin_rename"} => tx.batch > training.batch
  /\ pc \in {"begin", "begin_copy"} =>
       \A c \in Components : IF c < index THEN BackedUp(c) ELSE c \notin tx.flags
  /\ pc = "begin_copy" => tx.generations[index] = manifest[index].generation
  /\ pc \in {"begin_journal", "begin_rename"} => \A c \in Components : BackedUp(c)

\* While a batch is open its journal is pending and the object remembers the
\* generations the batch started from.
OpenPhase ==
  /\ pc \in OpenBatchSteps \cup {"published"} =>
       /\ tx.open
       /\ journal.pending
       /\ journal.batch = tx.batch
       /\ batchNumber = tx.batch
  /\ pc \in OpenBatchSteps =>
       /\ tx.batch > training.batch
       /\ journal.flags = tx.flags
       /\ \A c \in Components :
            /\ tx.generations[c] = training.components[c]
            /\ manifest[c].generation >= training.components[c]

\* A rollback has restored the components before index.
RollbackPhase ==
  /\ pc \in {"rollback", "rollback_tmp"} =>
       Uncommitted /\ journal.flags = tx.flags /\ after = "open"
  /\ pc = "rollback" =>
       \A c \in Components :
         c < index => manifest[c] = CommittedManifest(c) /\ componentWal[c] = 0
  /\ pc = "rollback_tmp" =>
       \A c \in Components :
         /\ c <= index => manifest[c] = CommittedManifest(c)
         /\ c < index => componentWal[c] = 0
  /\ pc = "clear" /\ Uncommitted =>
       \A c \in Components : manifest[c] = CommittedManifest(c) /\ componentWal[c] = 0

\* The runs a step is about to publish exist, and what it is about to delete
\* belongs to the open batch and to no manifest.
CompactPhase ==
  /\ pc \in {"append_publish", "compact_publish"} =>
       manifest[index].generation + 1 \in runFiles[index]
  /\ pc = "compact_publish" =>
       /\ inputs \subseteq manifest[index].runs
       /\ SuffixTooLong(index) => inputs \subseteq BatchRuns(index)
  /\ pc = "compact_delete" =>
       /\ DiskLimited
       /\ inputs \cap manifest[index].runs = {}
       /\ \A g \in inputs : g > tx.generations[index]

\* Without a disk limit a component's rollback runs are still listed by its
\* manifest until the one compaction of the batch reaches it.
RetainedUntilCompaction ==
  /\ pc = "paging" => pageOpen
  /\ ~DiskLimited =>
       /\ pc = "filling" \/ (pc \in {"append_run", "append_publish", "append_end"} /\ ~pageOpen) =>
            \A c \in Components : CommittedManifest(c).runs \subseteq manifest[c].runs
       /\ pc = "compact" =>
            \A c \in Components :
              c >= index => CommittedManifest(c).runs \subseteq manifest[c].runs
       /\ pc \in {"compact_publish", "compact_end"} =>
            \A c \in Components :
              c > index => CommittedManifest(c).runs \subseteq manifest[c].runs

\* A component journal holds a batch its manifest lacks only inside an append.
WalPhase ==
  /\ AggregateRecovery => \A c \in Components : componentWal[c] = 0
  /\ pc \in {"append_run", "append_publish"} /\ ~AggregateRecovery =>
       componentWal[index] = AppendNumber(index)
  /\ ~Uncommitted \/ pc \in OpenBatchSteps =>
       \A c \in Components :
         \/ componentWal[c] <= manifest[c].last
         \/ pc \in {"append_run", "append_publish"} /\ c = index

IndInv ==
  /\ TypeOK
  /\ CommittedStoreIntact
  /\ ManifestRuns
  /\ PhaseOfJournal
  /\ BeginPhase
  /\ OpenPhase
  /\ RollbackPhase
  /\ CompactPhase
  /\ RetainedUntilCompaction
  /\ WalPhase


\* Every step of the batch protocol keeps the inductive invariant.
LEMMA IndNext ==
  ASSUME DirectorySyncMayFail = FALSE
  PROVE  IndInv /\ [Next]_vars => IndInv'
<1> SUFFICES ASSUME IndInv, [Next]_vars PROVE IndInv'
  OBVIOUS
<1>0. TypeOK'
  BY TypeNext DEF IndInv
<1> USE <1>0, ConstantsAssumption, ComponentFacts, EmptyValues,
    CompactionInputsFacts DEF IndInv, TypeOK, OpenBatchSteps, Manifests,
    Backups, Journals, Transactions, Generations, NoManifest
<1>1. CASE ClearJournal
  <2>1. /\ ManifestRuns' /\ PhaseOfJournal' /\ BeginPhase' /\ OpenPhase'
        /\ RollbackPhase' /\ CompactPhase' /\ RetainedUntilCompaction'
    BY <1>1 DEF ClearJournal, NoJournal, ManifestRuns, CommittedManifest,
       Uncommitted, PhaseOfJournal, BeginPhase, BackedUp, OpenPhase,
       RollbackPhase, CompactPhase, SuffixTooLong, BatchRuns,
       RetainedUntilCompaction
  <2>2. CommittedStoreIntact'
    BY <1>1 DEF ClearJournal, NoJournal, CommittedStoreIntact,
       CommittedManifest, Uncommitted, RollbackPhase
  <2>3. WalPhase'
    BY <1>1 DEF ClearJournal, NoJournal, WalPhase, AppendNumber, Uncommitted,
       RollbackPhase
  <2>4. QED
    BY <1>0, <2>1, <2>2, <2>3 DEF IndInv
<1>2. CASE ClearJournalTmp
  <2>1. /\ CommittedStoreIntact' /\ ManifestRuns' /\ PhaseOfJournal'
        /\ BeginPhase' /\ OpenPhase' /\ RollbackPhase' /\ CompactPhase'
        /\ RetainedUntilCompaction' /\ WalPhase'
    BY <1>2 DEF ClearJournalTmp, CommittedStoreIntact, CommittedManifest,
       Uncommitted, ManifestRuns, PhaseOfJournal, BeginPhase, BackedUp,
       OpenPhase, RollbackPhase, CompactPhase, SuffixTooLong, BatchRuns,
       RetainedUntilCompaction, WalPhase, AppendNumber
  <2>2. QED
    BY <1>0, <2>1 DEF IndInv
<1>3. CASE ClearBackup
  <2>1. /\ ManifestRuns' /\ PhaseOfJournal' /\ BeginPhase' /\ OpenPhase'
        /\ RollbackPhase' /\ CompactPhase' /\ RetainedUntilCompaction'
        /\ WalPhase'
    BY <1>3 DEF ClearBackup, NoTx, NoBackup, ManifestRuns, CommittedManifest,
       Uncommitted, PhaseOfJournal, BeginPhase, BackedUp, OpenPhase,
       RollbackPhase, CompactPhase, SuffixTooLong, BatchRuns,
       RetainedUntilCompaction, WalPhase, AppendNumber
  <2>2. CommittedStoreIntact'
    BY <1>3 DEF ClearBackup, NoTx, NoBackup, CommittedStoreIntact,
       CommittedManifest, Uncommitted, PhaseOfJournal
  <2>3. QED
    BY <1>0, <2>1, <2>2 DEF IndInv
<1>4. CASE RecoverNothing
  <2>1. /\ CommittedStoreIntact' /\ ManifestRuns' /\ PhaseOfJournal'
        /\ BeginPhase' /\ OpenPhase' /\ RollbackPhase' /\ CompactPhase'
        /\ RetainedUntilCompaction' /\ WalPhase'
    BY <1>4 DEF RecoverNothing, CommittedStoreIntact, CommittedManifest,
       Uncommitted, ManifestRuns, PhaseOfJournal, BeginPhase, BackedUp,
       OpenPhase, RollbackPhase, CompactPhase, SuffixTooLong, BatchRuns,
       RetainedUntilCompaction, WalPhase, AppendNumber
  <2>2. QED
    BY <1>0, <2>1 DEF IndInv
<1>5. CASE RecoverCommitted
  <2>1. /\ CommittedStoreIntact' /\ ManifestRuns' /\ PhaseOfJournal'
        /\ BeginPhase' /\ OpenPhase' /\ RollbackPhase' /\ CompactPhase'
        /\ RetainedUntilCompaction' /\ WalPhase'
    BY <1>5 DEF RecoverCommitted, CommittedStoreIntact, CommittedManifest,
       Uncommitted, ManifestRuns, PhaseOfJournal, BeginPhase, BackedUp,
       OpenPhase, RollbackPhase, CompactPhase, SuffixTooLong, BatchRuns,
       RetainedUntilCompaction, WalPhase, AppendNumber
  <2>2. QED
    BY <1>0, <2>1 DEF IndInv
<1>6. CASE RecoverPending
  <2>1. /\ CommittedStoreIntact' /\ ManifestRuns' /\ PhaseOfJournal'
        /\ BeginPhase' /\ OpenPhase' /\ CompactPhase'
        /\ RetainedUntilCompaction' /\ WalPhase'
    BY <1>6 DEF RecoverPending, CommittedStoreIntact, CommittedManifest,
       Uncommitted, ManifestRuns, PhaseOfJournal, BeginPhase, BackedUp,
       OpenPhase, CompactPhase, SuffixTooLong, BatchRuns,
       RetainedUntilCompaction, WalPhase, AppendNumber
  <2>2. RollbackPhase'
    <3> HIDE <1>0, ConstantsAssumption, CompactionInputsFacts DEF Generations, Backups, Journals, NoManifest
    <3>1. Uncommitted' /\ journal'.flags = tx'.flags /\ after' = "open"
      BY <1>6 DEF RecoverPending, Uncommitted
    <3>2. \A c \in Components : ~(c < index')
      BY <1>6, OrderFacts DEF RecoverPending
    <3>3. QED
      BY <1>6, <3>1, <3>2 DEF RecoverPending, RollbackPhase
  <2>3. QED
    BY <1>0, <2>1, <2>2 DEF IndInv
<1>7. CASE RollbackManifest
  <2>1. /\ PhaseOfJournal' /\ BeginPhase' /\ OpenPhase' /\ CompactPhase'
        /\ RetainedUntilCompaction'
    BY <1>7 DEF RollbackManifest, PhaseOfJournal, Uncommitted, BeginPhase,
       BackedUp, OpenPhase, CompactPhase, SuffixTooLong, BatchRuns,
       RetainedUntilCompaction, CommittedManifest
  <2>2. CommittedStoreIntact'
    BY <1>7 DEF RollbackManifest, CommittedStoreIntact, CommittedManifest,
       Uncommitted, RollbackPhase
  <2>3. WalPhase'
    BY <1>7 DEF RollbackManifest, WalPhase, AppendNumber, Uncommitted,
       RollbackPhase
  <2>4. ManifestRuns'
    <3> HIDE <1>0, ConstantsAssumption, CompactionInputsFacts DEF Generations, Backups, Journals, NoManifest
    <3>1. \A c \in Components : CommittedManifest(c)' = CommittedManifest(c)
      BY <1>7 DEF RollbackManifest, RollbackPhase, CommittedManifest, Uncommitted
    <3>2. \A c \in Components :
            manifest'[c] = IF c = index THEN CommittedManifest(c) ELSE manifest[c]
      BY <1>7 DEF RollbackManifest, RollbackPhase, CommittedManifest
    <3>3. runFiles' = runFiles
      BY <1>7 DEF RollbackManifest
    <3>4. QED
      BY <3>1, <3>2, <3>3 DEF ManifestRuns, CommittedStoreIntact
  <2>5. RollbackPhase'
    <3> HIDE <1>0, ConstantsAssumption, CompactionInputsFacts DEF Generations, Backups, Journals, NoManifest
    <3>1. \A c \in Components : CommittedManifest(c)' = CommittedManifest(c)
      BY <1>7 DEF RollbackManifest, RollbackPhase, CommittedManifest, Uncommitted
    <3>2. \A c \in Components :
            manifest'[c] = IF c = index THEN CommittedManifest(c) ELSE manifest[c]
      BY <1>7 DEF RollbackManifest, RollbackPhase, CommittedManifest
    <3>3. Uncommitted' /\ journal'.flags = tx'.flags /\ after' = "open"
      BY <1>7 DEF RollbackManifest, RollbackPhase, Uncommitted
    <3>4. QED
      BY <1>7, <3>1, <3>2, <3>3, OrderFacts DEF RollbackManifest, RollbackPhase
  <2>6. QED
    BY <1>0, <2>1, <2>2, <2>3, <2>4, <2>5 DEF IndInv
<1>8. CASE RollbackTemporaries
  <2>1. /\ CommittedStoreIntact' /\ ManifestRuns' /\ BeginPhase'
        /\ OpenPhase' /\ CompactPhase' /\ RetainedUntilCompaction'
        /\ WalPhase'
    BY <1>8 DEF RollbackTemporaries, CommittedStoreIntact, CommittedManifest,
       Uncommitted, ManifestRuns, BeginPhase, BackedUp, OpenPhase,
       CompactPhase, SuffixTooLong, BatchRuns, RetainedUntilCompaction,
       WalPhase, AppendNumber
  <2>2. PhaseOfJournal'
    BY <1>8 DEF RollbackTemporaries, PhaseOfJournal, Uncommitted,
       RollbackPhase
  <2>3. RollbackPhase'
    <3> HIDE <1>0, ConstantsAssumption, CompactionInputsFacts DEF Generations, Backups, Journals, NoManifest
    <3>1. \A c \in Components : CommittedManifest(c)' = CommittedManifest(c)
      BY <1>8 DEF RollbackTemporaries, RollbackPhase, CommittedManifest, Uncommitted
    <3>2. \A c \in Components :
            c <= index => manifest'[c] = CommittedManifest(c) /\ componentWal'[c] = 0
      BY <1>8, <3>1, OrderFacts DEF RollbackTemporaries, RollbackPhase
    <3>3. Uncommitted' /\ journal'.flags = tx'.flags /\ after' = "open"
      BY <1>8 DEF RollbackTemporaries, RollbackPhase, Uncommitted
    <3>4. CASE index < ComponentCount
      BY <1>8, <3>1, <3>2, <3>3, <3>4, OrderFacts DEF RollbackTemporaries, RollbackPhase
    <3>5. CASE ~(index < ComponentCount)
      BY <1>8, <3>1, <3>2, <3>3, <3>5, OrderFacts DEF RollbackTemporaries, RollbackPhase
    <3>6. QED
      BY <3>4, <3>5
  <2>4. QED
    BY <1>0, <2>1, <2>2, <2>3 DEF IndInv
<1>9. CASE OpenComponent
  <2>1. /\ PhaseOfJournal' /\ BeginPhase' /\ OpenPhase' /\ RollbackPhase'
        /\ CompactPhase' /\ RetainedUntilCompaction' /\ WalPhase'
    <3>1. PhaseOfJournal'
      BY <1>9 DEF OpenComponent, ReplayedManifest, PhaseOfJournal, Uncommitted
    <3>2. BeginPhase'
      BY <1>9 DEF OpenComponent, ReplayedManifest, BeginPhase, BackedUp
    <3>3. OpenPhase'
      BY <1>9 DEF OpenComponent, ReplayedManifest, OpenPhase, Uncommitted
    <3>4. RollbackPhase'
      BY <1>9 DEF OpenComponent, ReplayedManifest, RollbackPhase, CommittedManifest, Uncommitted
    <3>5. CompactPhase'
      BY <1>9 DEF OpenComponent, ReplayedManifest, CompactPhase, SuffixTooLong, BatchRuns
    <3>6. RetainedUntilCompaction'
      BY <1>9 DEF OpenComponent, ReplayedManifest, RetainedUntilCompaction, CommittedManifest, Uncommitted
    <3>7. WalPhase'
      BY <1>9 DEF OpenComponent, ReplayedManifest, WalPhase, AppendNumber, Uncommitted
    <3> QED BY <3>1, <3>2, <3>3, <3>4, <3>5, <3>6, <3>7
  <2>2. CommittedStoreIntact'
    BY <1>9 DEF OpenComponent, ReplayedManifest, CommittedStoreIntact,
       CommittedManifest, Uncommitted, WalPhase, PhaseOfJournal, ManifestRuns
  <2>3. ManifestRuns'
    BY <1>9 DEF OpenComponent, ReplayedManifest, ManifestRuns,
       CommittedManifest, Uncommitted, WalPhase, PhaseOfJournal
  <2>4. QED
    BY <1>0, <2>1, <2>2, <2>3 DEF IndInv
<1>10. CASE Reclaim
  <2>1. /\ ManifestRuns' /\ PhaseOfJournal' /\ BeginPhase' /\ OpenPhase'
        /\ RollbackPhase' /\ CompactPhase' /\ RetainedUntilCompaction'
        /\ WalPhase'
    BY <1>10 DEF Reclaim, ManifestRuns, CommittedManifest, Uncommitted,
       PhaseOfJournal, BeginPhase, BackedUp, OpenPhase, RollbackPhase,
       CompactPhase, SuffixTooLong, BatchRuns, RetainedUntilCompaction,
       WalPhase, AppendNumber
  <2>2. CommittedStoreIntact'
    BY <1>10 DEF Reclaim, CommittedStoreIntact, CommittedManifest,
       Uncommitted, PhaseOfJournal, ManifestRuns
  <2>3. QED
    BY <1>0, <2>1, <2>2 DEF IndInv
<1>11. CASE BackupStart
  <2>1. /\ ManifestRuns' /\ PhaseOfJournal' /\ OpenPhase' /\ RollbackPhase'
        /\ CompactPhase' /\ RetainedUntilCompaction' /\ WalPhase'
    BY <1>11 DEF BackupStart, NoBackup, ManifestRuns, CommittedManifest,
       Uncommitted, PhaseOfJournal, OpenPhase, RollbackPhase, CompactPhase,
       SuffixTooLong, BatchRuns, RetainedUntilCompaction, WalPhase,
       AppendNumber
  <2>2. CommittedStoreIntact'
    BY <1>11 DEF BackupStart, NoBackup, CommittedStoreIntact,
       CommittedManifest, Uncommitted, PhaseOfJournal
  <2>3. BeginPhase'
    <3> HIDE <1>0, ConstantsAssumption, CompactionInputsFacts DEF Generations, Backups, Journals, NoManifest
    <3>1. /\ \A c \in Components : c # index =>
               tx'.generations[c] = tx.generations[c] /\ backup'[c] = backup[c]
          /\ tx'.generations[index] = manifest[index].generation
          /\ tx'.flags = tx.flags
          /\ tx'.batch = tx.batch
      BY <1>11 DEF BackupStart
    <3>2. \A c \in Components : c < index => BackedUp(c)'
      BY <1>11, <3>1, OrderFacts DEF BackupStart, BeginPhase, BackedUp
    <3>3. QED
      BY <1>11, <3>1, <3>2 DEF BackupStart, BeginPhase
  <2>4. QED
    BY <1>0, <2>1, <2>2, <2>3 DEF IndInv
<1>12. CASE BackupEnd
  <2>1. /\ ManifestRuns' /\ PhaseOfJournal' /\ OpenPhase' /\ RollbackPhase'
        /\ CompactPhase' /\ RetainedUntilCompaction' /\ WalPhase'
    BY <1>12 DEF BackupEnd, ManifestRuns, CommittedManifest, Uncommitted,
       PhaseOfJournal, OpenPhase, RollbackPhase, CompactPhase, SuffixTooLong,
       BatchRuns, RetainedUntilCompaction, WalPhase, AppendNumber
  <2>2. CommittedStoreIntact'
    BY <1>12 DEF BackupEnd, CommittedStoreIntact, CommittedManifest,
       Uncommitted, PhaseOfJournal
  <2>3. BeginPhase'
    <3> HIDE <1>0, ConstantsAssumption, CompactionInputsFacts DEF Generations, Backups, Journals, NoManifest
    <3>1. /\ \A c \in Components : c # index => backup'[c] = backup[c]
          /\ tx'.generations = tx.generations
          /\ tx'.batch = tx.batch
          /\ \A c \in Components : c # index => (c \in tx'.flags <=> c \in tx.flags)
          /\ manifest' = manifest
          /\ training' = training
      BY <1>12 DEF BackupEnd
    <3>2. index \notin tx.flags
      BY <1>12 DEF BackupEnd, BeginPhase
    <3>3. \A c \in Components : c = index => BackedUp(c)'
      <4>1. CASE manifest[index].generation = 0
        BY <1>12, <3>1, <3>2, <4>1 DEF BackupEnd, BeginPhase, BackedUp
      <4>2. CASE manifest[index].generation # 0
        BY <1>12, <3>1, <3>2, <4>2 DEF BackupEnd, BeginPhase, BackedUp
      <4>3. QED
        BY <4>1, <4>2
    <3>4. \A c \in Components : c < index => BackedUp(c)'
      BY <1>12, <3>1, OrderFacts DEF BackupEnd, BeginPhase, BackedUp
    <3>5. CASE index < ComponentCount
      BY <1>12, <3>1, <3>3, <3>4, <3>5, OrderFacts DEF BackupEnd, BeginPhase
    <3>6. CASE ~(index < ComponentCount)
      <4>1. \A c \in Components : BackedUp(c)'
        BY <3>3, <3>4, <3>6, OrderFacts
      <4>2. QED
        BY <1>12, <3>1, <3>6, <4>1 DEF BackupEnd, BeginPhase
    <3>7. QED
      BY <3>5, <3>6
  <2>4. QED
    BY <1>0, <2>1, <2>2, <2>3 DEF IndInv
<1>13. CASE BeginJournalTmp
  <2>1. /\ CommittedStoreIntact' /\ ManifestRuns' /\ PhaseOfJournal'
        /\ BeginPhase' /\ OpenPhase' /\ RollbackPhase' /\ CompactPhase'
        /\ RetainedUntilCompaction' /\ WalPhase'
    BY <1>13 DEF BeginJournalTmp, CommittedStoreIntact, CommittedManifest,
       Uncommitted, ManifestRuns, PhaseOfJournal, BeginPhase, BackedUp,
       OpenPhase, RollbackPhase, CompactPhase, SuffixTooLong, BatchRuns,
       RetainedUntilCompaction, WalPhase, AppendNumber
  <2>2. QED
    BY <1>0, <2>1 DEF IndInv
<1>14. CASE BeginFails
  <2>1. /\ CommittedStoreIntact' /\ ManifestRuns' /\ PhaseOfJournal'
        /\ BeginPhase' /\ OpenPhase' /\ RollbackPhase' /\ CompactPhase'
        /\ RetainedUntilCompaction' /\ WalPhase'
    BY <1>14 DEF BeginFails, NoTx, CommittedStoreIntact, CommittedManifest,
       Uncommitted, ManifestRuns, PhaseOfJournal, BeginPhase, BackedUp,
       OpenPhase, RollbackPhase, CompactPhase, SuffixTooLong, BatchRuns,
       RetainedUntilCompaction, WalPhase, AppendNumber
  <2>2. QED
    BY <1>0, <2>1 DEF IndInv
<1>15. CASE BeginUndoBackups
  <2>1. /\ ManifestRuns' /\ PhaseOfJournal' /\ BeginPhase' /\ OpenPhase'
        /\ RollbackPhase' /\ CompactPhase' /\ RetainedUntilCompaction'
        /\ WalPhase'
    BY <1>15 DEF BeginUndoBackups, NoBackup, ManifestRuns, CommittedManifest,
       Uncommitted, PhaseOfJournal, BeginPhase, BackedUp, OpenPhase,
       RollbackPhase, CompactPhase, SuffixTooLong, BatchRuns,
       RetainedUntilCompaction, WalPhase, AppendNumber
  <2>2. CommittedStoreIntact'
    BY <1>15 DEF BeginUndoBackups, NoBackup, CommittedStoreIntact,
       CommittedManifest, Uncommitted, PhaseOfJournal
  <2>3. QED
    BY <1>0, <2>1, <2>2 DEF IndInv
<1>16. CASE BeginUndoJournal
  <2>1. /\ ManifestRuns' /\ PhaseOfJournal' /\ BeginPhase' /\ OpenPhase'
        /\ RollbackPhase' /\ CompactPhase' /\ RetainedUntilCompaction'
    BY <1>16 DEF BeginUndoJournal, NoTx, NoJournal, ManifestRuns,
       CommittedManifest, Uncommitted, PhaseOfJournal, BeginPhase, BackedUp,
       OpenPhase, RollbackPhase, CompactPhase, SuffixTooLong, BatchRuns,
       RetainedUntilCompaction
  <2>2. CommittedStoreIntact'
    BY <1>16 DEF BeginUndoJournal, NoTx, NoJournal, CommittedStoreIntact,
       CommittedManifest, Uncommitted, PhaseOfJournal
  <2>3. WalPhase'
    BY <1>16 DEF BeginUndoJournal, NoTx, NoJournal, WalPhase, AppendNumber,
       Uncommitted, PhaseOfJournal
  <2>4. QED
    BY <1>0, <2>1, <2>2, <2>3 DEF IndInv
<1>17. CASE AppendRun
  <2>1. /\ CommittedStoreIntact' /\ ManifestRuns' /\ PhaseOfJournal'
        /\ BeginPhase' /\ OpenPhase' /\ RollbackPhase' /\ CompactPhase'
        /\ RetainedUntilCompaction' /\ WalPhase'
    BY <1>17 DEF AppendRun, CommittedStoreIntact, CommittedManifest,
       Uncommitted, ManifestRuns, PhaseOfJournal, BeginPhase, BackedUp,
       OpenPhase, RollbackPhase, CompactPhase, SuffixTooLong, BatchRuns,
       RetainedUntilCompaction, WalPhase, AppendNumber
  <2>2. QED
    BY <1>0, <2>1 DEF IndInv
<1>18. CASE AppendPublish
  <2>1. /\ PhaseOfJournal' /\ BeginPhase' /\ OpenPhase' /\ RollbackPhase'
        /\ CompactPhase' /\ RetainedUntilCompaction'
    BY <1>18 DEF AppendPublish, AppendNumber, PhaseOfJournal, Uncommitted,
       BeginPhase, BackedUp, OpenPhase, RollbackPhase, CommittedManifest,
       CompactPhase, SuffixTooLong, BatchRuns, RetainedUntilCompaction
  <2>2. CommittedStoreIntact'
    BY <1>18 DEF AppendPublish, AppendNumber, CommittedStoreIntact,
       CommittedManifest, Uncommitted, OpenPhase, CompactPhase
  <2>3. ManifestRuns'
    <3> HIDE <1>0, ConstantsAssumption, CompactionInputsFacts DEF Generations, Backups, Journals, NoManifest
    <3>1. \A c \in Components : CommittedManifest(c)' = CommittedManifest(c)
      BY <1>18 DEF AppendPublish, CommittedManifest, Uncommitted, OpenPhase
    <3>2. \A c \in Components : c # index => manifest'[c] = manifest[c]
      BY <1>18 DEF AppendPublish
    <3>3. /\ manifest'[index].generation = manifest[index].generation + 1
          /\ manifest'[index].runs = manifest[index].runs \cup {manifest[index].generation + 1}
      BY <1>18 DEF AppendPublish
    <3>4. runFiles' = runFiles /\ manifest[index].generation + 1 \in runFiles[index]
      BY <1>18 DEF AppendPublish, CompactPhase
    <3>5. QED
      <4>1. manifest'[index].runs \subseteq 1..manifest'[index].generation
        BY <3>3 DEF ManifestRuns
      <4>2. manifest'[index].generation # 0
        BY <3>3
      <4>3. QED
        BY <3>1, <3>2, <3>3, <3>4, <4>1, <4>2 DEF ManifestRuns
  <2>4. WalPhase'
    <3> HIDE <1>0, ConstantsAssumption, CompactionInputsFacts DEF Generations, Backups, Journals, NoManifest
    <3>1. componentWal' = componentWal /\ pc' = "append_end"
      BY <1>18 DEF AppendPublish
    <3>2. /\ manifest'[index].last = AppendNumber(index)
          /\ \A c \in Components : c # index => manifest'[c] = manifest[c]
      BY <1>18 DEF AppendPublish
    <3>3. AppendNumber(index) \in Nat /\ AppendNumber(index) >= 0
      BY DEF AppendNumber
    <3>4. \A c \in Components : c # index => componentWal[c] <= manifest[c].last
      BY <1>18 DEF AppendPublish, WalPhase
    <3>5. componentWal[index] <= AppendNumber(index)
      BY <1>18, <3>3 DEF AppendPublish, WalPhase, OpenPhase
    <3>6. QED
      BY <3>1, <3>2, <3>4, <3>5 DEF WalPhase
  <2>5. QED
    BY <1>0, <2>1, <2>2, <2>3, <2>4 DEF IndInv
<1>19. CASE CompactStart
  <2>1. /\ CommittedStoreIntact' /\ ManifestRuns' /\ PhaseOfJournal'
        /\ BeginPhase' /\ OpenPhase' /\ RollbackPhase' /\ CompactPhase'
        /\ RetainedUntilCompaction' /\ WalPhase'
    BY <1>19 DEF CompactStart, CommittedStoreIntact, CommittedManifest,
       Uncommitted, ManifestRuns, PhaseOfJournal, BeginPhase, BackedUp,
       OpenPhase, RollbackPhase, CompactPhase, SuffixTooLong, BatchRuns,
       RetainedUntilCompaction, WalPhase, AppendNumber
  <2>2. QED
    BY <1>0, <2>1 DEF IndInv
<1>20. CASE CompactSkip
  <2>1. /\ CommittedStoreIntact' /\ ManifestRuns' /\ PhaseOfJournal'
        /\ BeginPhase' /\ OpenPhase' /\ RollbackPhase' /\ CompactPhase'
        /\ WalPhase'
    BY <1>20 DEF CompactSkip, CompactNext, CommittedStoreIntact,
       CommittedManifest, Uncommitted, ManifestRuns, PhaseOfJournal,
       BeginPhase, BackedUp, OpenPhase, RollbackPhase, CompactPhase,
       SuffixTooLong, BatchRuns, WalPhase, AppendNumber
  <2>2. RetainedUntilCompaction'
    <3> HIDE <1>0, ConstantsAssumption, CompactionInputsFacts DEF Generations, Backups, Journals, NoManifest
    <3>1. \A c \in Components : CommittedManifest(c)' = CommittedManifest(c)
      BY <1>20 DEF CompactSkip, CommittedManifest, Uncommitted, OpenPhase
    <3>2. CASE index < ComponentCount
      BY <1>20, <3>1, <3>2, OrderFacts DEF CompactSkip, CompactNext, RetainedUntilCompaction
    <3>3. CASE ~(index < ComponentCount)
      BY <1>20, <3>3 DEF CompactSkip, CompactNext, RetainedUntilCompaction
    <3>4. QED
      BY <3>2, <3>3
  <2>3. QED
    BY <1>0, <2>1, <2>2 DEF IndInv
<1>21. CASE CompactRun
  <2>1. /\ ManifestRuns' /\ PhaseOfJournal' /\ BeginPhase' /\ OpenPhase'
        /\ RollbackPhase' /\ WalPhase'
    BY <1>21 DEF CompactRun, ManifestRuns, CommittedManifest, Uncommitted,
       PhaseOfJournal, BeginPhase, BackedUp, OpenPhase, RollbackPhase,
       WalPhase, AppendNumber
  <2>2. CommittedStoreIntact'
    <3> HIDE <1>0, ConstantsAssumption, CompactionInputsFacts DEF Generations, Backups, Journals, NoManifest
    <3>1. \A c \in Components : CommittedManifest(c)' = CommittedManifest(c)
      BY <1>21 DEF CompactRun, CommittedManifest, Uncommitted, OpenPhase
    <3>2. \A c \in Components : c # index => runFiles'[c] = runFiles[c]
      BY <1>21 DEF CompactRun
    <3>3. CommittedManifest(index).runs \subseteq runFiles'[index]
      <4>1. CASE DiskLimited
        BY <1>21, <4>1 DEF CompactRun, CommittedStoreIntact
      <4>2. CASE ~DiskLimited
        BY <1>21, <4>2, OrderFacts DEF CompactRun, CommittedStoreIntact, RetainedUntilCompaction
      <4>3. QED
        BY <4>1, <4>2
    <3>4. /\ training' = training
          /\ journal' = journal
          /\ backup' = backup
      BY <1>21 DEF CompactRun
    <3>5. QED
      BY <3>1, <3>2, <3>3, <3>4 DEF CommittedStoreIntact, Uncommitted
  <2>3. CompactPhase'
    <3>1. /\ inputs' = CompactionInputs(index)
          /\ manifest' = manifest
          /\ tx' = tx
          /\ index' = index
          /\ manifest[index].generation + 1 \in runFiles'[index]
      BY <1>21 DEF CompactRun
    <3>2. SuffixTooLong(index)' = SuffixTooLong(index) /\ BatchRuns(index)' = BatchRuns(index)
      BY <3>1 DEF SuffixTooLong, BatchRuns
    <3>3. QED
      BY <1>21, <3>1, <3>2, CompactionInputsFacts DEF CompactRun, CompactPhase
  <2>4. RetainedUntilCompaction'
    <3> HIDE <1>0, ConstantsAssumption, CompactionInputsFacts DEF Generations, Backups, Journals, NoManifest
    <3>1. \A c \in Components : CommittedManifest(c)' = CommittedManifest(c)
      BY <1>21 DEF CompactRun, CommittedManifest, Uncommitted, OpenPhase
    <3>2. /\ manifest' = manifest
          /\ index' = index
          /\ pc' = "compact_publish"
      BY <1>21 DEF CompactRun
    <3>3. QED
      BY <1>21, <3>1, <3>2, OrderFacts DEF CompactRun, RetainedUntilCompaction
  <2>5. QED
    BY <1>0, <2>1, <2>2, <2>3, <2>4 DEF IndInv
<1>22. CASE CompactPublish
  <2>1. /\ PhaseOfJournal' /\ BeginPhase' /\ OpenPhase' /\ RollbackPhase'
        /\ WalPhase'
    BY <1>22 DEF CompactPublish, SuffixTooLong, BatchRuns, PhaseOfJournal,
       Uncommitted, BeginPhase, BackedUp, OpenPhase, RollbackPhase,
       CommittedManifest, WalPhase, AppendNumber
  <2>2. CommittedStoreIntact'
    BY <1>22 DEF CompactPublish, SuffixTooLong, BatchRuns,
       CommittedStoreIntact, CommittedManifest, Uncommitted, OpenPhase
  <2>3. ManifestRuns'
    <3> HIDE <1>0, ConstantsAssumption, CompactionInputsFacts DEF Generations, Backups, Journals, NoManifest
    <3>1. \A c \in Components : c # index => manifest'[c] = manifest[c]
      BY <1>22 DEF CompactPublish
    <3>2. /\ manifest'[index].generation = manifest[index].generation + 1
          /\ manifest'[index].runs =
               (manifest[index].runs \ inputs) \cup {manifest[index].generation + 1}
      BY <1>22 DEF CompactPublish
    <3>3. \A c \in Components : CommittedManifest(c)' = CommittedManifest(c)
      BY <1>22 DEF CompactPublish, CommittedManifest, Uncommitted, OpenPhase
    <3>4. runFiles' = runFiles /\ manifest[index].generation + 1 \in runFiles[index]
      BY <1>22 DEF CompactPublish, CompactPhase
    <3>5. QED
      <4>1. manifest'[index].runs \subseteq 1..manifest'[index].generation
        BY <3>2 DEF ManifestRuns
      <4>2. manifest'[index].generation # 0
        BY <3>2
      <4>3. QED
        BY <3>1, <3>2, <3>3, <3>4, <4>1, <4>2 DEF ManifestRuns
  <2>4. CompactPhase'
    <3> HIDE <1>0, ConstantsAssumption, CompactionInputsFacts DEF Generations, Backups, Journals, NoManifest
    <3>1. \A c \in Components : c # index => manifest'[c] = manifest[c]
      BY <1>22 DEF CompactPublish
    <3>2. /\ manifest'[index].generation = manifest[index].generation + 1
          /\ manifest'[index].runs =
               (manifest[index].runs \ inputs) \cup {manifest[index].generation + 1}
      BY <1>22 DEF CompactPublish
    <3>3. inputs \subseteq 1..manifest[index].generation
      BY <1>22 DEF CompactPublish, CompactPhase, ManifestRuns
    <3>4. inputs \cap manifest'[index].runs = {}
      BY <3>2, <3>3
    <3>5. CASE SuffixTooLong(index)
      <4>1. DiskLimited /\ \A g \in inputs : g > tx.generations[index]
        BY <1>22, <3>5 DEF CompactPublish, CompactPhase, BatchRuns, SuffixTooLong
      <4>2. QED
        BY <1>22, <3>4, <3>5, <4>1 DEF CompactPublish, CompactPhase
    <3>6. CASE ~SuffixTooLong(index)
      BY <1>22, <3>6 DEF CompactPublish, CompactPhase
    <3>7. QED
      BY <3>5, <3>6
  <2>5. RetainedUntilCompaction'
    <3> HIDE <1>0, ConstantsAssumption, CompactionInputsFacts DEF Generations, Backups, Journals, NoManifest
    <3>1. \A c \in Components : c # index => manifest'[c] = manifest[c]
      BY <1>22 DEF CompactPublish
    <3>2. /\ manifest'[index].generation = manifest[index].generation + 1
          /\ manifest'[index].runs =
               (manifest[index].runs \ inputs) \cup {manifest[index].generation + 1}
      BY <1>22 DEF CompactPublish
    <3>3. \A c \in Components : CommittedManifest(c)' = CommittedManifest(c)
      BY <1>22 DEF CompactPublish, CommittedManifest, Uncommitted, OpenPhase
    <3>4. CASE SuffixTooLong(index)
      BY <1>22, <3>4 DEF CompactPublish, RetainedUntilCompaction, SuffixTooLong
    <3>5. CASE ~SuffixTooLong(index)
      BY <1>22, <3>1, <3>3, <3>5, OrderFacts DEF CompactPublish, RetainedUntilCompaction
    <3>6. QED
      BY <3>4, <3>5
  <2>6. QED
    BY <1>0, <2>1, <2>2, <2>3, <2>4, <2>5 DEF IndInv
<1>23. CASE CompactDelete
  <2>1. /\ PhaseOfJournal' /\ BeginPhase' /\ OpenPhase' /\ RollbackPhase'
        /\ CompactPhase' /\ WalPhase'
    BY <1>23 DEF CompactDelete, PhaseOfJournal, Uncommitted, BeginPhase,
       BackedUp, OpenPhase, RollbackPhase, CommittedManifest, CompactPhase,
       SuffixTooLong, BatchRuns, WalPhase, AppendNumber
  <2>2. CommittedStoreIntact'
    BY <1>23 DEF CompactDelete, CommittedStoreIntact, CommittedManifest,
       Uncommitted, CompactPhase, ManifestRuns, OpenPhase
  <2>3. ManifestRuns'
    BY <1>23 DEF CompactDelete, ManifestRuns, CommittedManifest, Uncommitted,
       CompactPhase
  <2>4. RetainedUntilCompaction'
    BY <1>23 DEF CompactDelete, RetainedUntilCompaction, CommittedManifest,
       Uncommitted, CompactPhase
  <2>5. QED
    BY <1>0, <2>1, <2>2, <2>3, <2>4 DEF IndInv
<1>24. CASE CompactEnd
  <2>1. /\ CommittedStoreIntact' /\ ManifestRuns' /\ PhaseOfJournal'
        /\ BeginPhase' /\ OpenPhase' /\ RollbackPhase' /\ CompactPhase'
        /\ WalPhase'
    BY <1>24 DEF CompactEnd, CompactNext, CommittedStoreIntact,
       CommittedManifest, Uncommitted, ManifestRuns, PhaseOfJournal,
       BeginPhase, BackedUp, OpenPhase, RollbackPhase, CompactPhase,
       SuffixTooLong, BatchRuns, WalPhase, AppendNumber
  <2>2. RetainedUntilCompaction'
    <3> HIDE <1>0, ConstantsAssumption, CompactionInputsFacts DEF Generations, Backups, Journals, NoManifest
    <3>1. \A c \in Components : CommittedManifest(c)' = CommittedManifest(c)
      BY <1>24 DEF CompactEnd, CommittedManifest, Uncommitted, OpenPhase
    <3>2. CASE index < ComponentCount
      BY <1>24, <3>1, <3>2, OrderFacts DEF CompactEnd, CompactNext, RetainedUntilCompaction
    <3>3. CASE ~(index < ComponentCount)
      BY <1>24, <3>3 DEF CompactEnd, CompactNext, RetainedUntilCompaction
    <3>4. QED
      BY <3>2, <3>3
  <2>3. QED
    BY <1>0, <2>1, <2>2 DEF IndInv
<1>25. CASE BeginPageBatch
  <2>1. /\ CommittedStoreIntact' /\ ManifestRuns' /\ PhaseOfJournal'
        /\ BeginPhase' /\ OpenPhase' /\ RollbackPhase' /\ CompactPhase'
        /\ RetainedUntilCompaction' /\ WalPhase'
    <3>1. CommittedStoreIntact'
      BY <1>25 DEF BeginPageBatch, CommittedStoreIntact, CommittedManifest, Uncommitted
    <3>2. ManifestRuns'
      BY <1>25 DEF BeginPageBatch, ManifestRuns, CommittedManifest, Uncommitted
    <3>3. PhaseOfJournal'
      BY <1>25 DEF BeginPageBatch, PhaseOfJournal, Uncommitted
    <3>4. BeginPhase'
      BY <1>25 DEF BeginPageBatch, BeginPhase, BackedUp
    <3>5. OpenPhase'
      BY <1>25 DEF BeginPageBatch, OpenPhase, Uncommitted
    <3>6. RollbackPhase'
      BY <1>25 DEF BeginPageBatch, RollbackPhase, CommittedManifest, Uncommitted
    <3>7. CompactPhase'
      BY <1>25 DEF BeginPageBatch, CompactPhase, SuffixTooLong, BatchRuns
    <3>8. RetainedUntilCompaction'
      BY <1>25 DEF BeginPageBatch, RetainedUntilCompaction, CommittedManifest, Uncommitted
    <3>9. WalPhase'
      BY <1>25 DEF BeginPageBatch, WalPhase, AppendNumber, Uncommitted
    <3> QED BY <3>1, <3>2, <3>3, <3>4, <3>5, <3>6, <3>7, <3>8, <3>9
  <2>2. QED
    BY <1>0, <2>1 DEF IndInv
<1>26. CASE CommitStart
  <2>1. /\ CommittedStoreIntact' /\ ManifestRuns' /\ PhaseOfJournal'
        /\ BeginPhase' /\ OpenPhase' /\ RollbackPhase' /\ CompactPhase'
        /\ RetainedUntilCompaction' /\ WalPhase'
    BY <1>26 DEF CommitStart, CommittedStoreIntact, CommittedManifest,
       Uncommitted, ManifestRuns, PhaseOfJournal, BeginPhase, BackedUp,
       OpenPhase, RollbackPhase, CompactPhase, SuffixTooLong, BatchRuns,
       RetainedUntilCompaction, WalPhase, AppendNumber
  <2>2. QED
    BY <1>0, <2>1 DEF IndInv
<1>27. CASE FinalizeTmp
  <2>1. /\ CommittedStoreIntact' /\ ManifestRuns' /\ PhaseOfJournal'
        /\ BeginPhase' /\ OpenPhase' /\ RollbackPhase' /\ CompactPhase'
        /\ RetainedUntilCompaction' /\ WalPhase'
    BY <1>27 DEF FinalizeTmp, CommittedStoreIntact, CommittedManifest,
       Uncommitted, ManifestRuns, PhaseOfJournal, BeginPhase, BackedUp,
       OpenPhase, RollbackPhase, CompactPhase, SuffixTooLong, BatchRuns,
       RetainedUntilCompaction, WalPhase, AppendNumber
  <2>2. QED
    BY <1>0, <2>1 DEF IndInv
<1>28. CASE CommitTmp
  <2>1. /\ CommittedStoreIntact' /\ ManifestRuns' /\ PhaseOfJournal'
        /\ BeginPhase' /\ OpenPhase' /\ RollbackPhase' /\ CompactPhase'
        /\ RetainedUntilCompaction' /\ WalPhase'
    BY <1>28 DEF CommitTmp, CommittedStoreIntact, CommittedManifest,
       Uncommitted, ManifestRuns, PhaseOfJournal, BeginPhase, BackedUp,
       OpenPhase, RollbackPhase, CompactPhase, SuffixTooLong, BatchRuns,
       RetainedUntilCompaction, WalPhase, AppendNumber
  <2>2. QED
    BY <1>0, <2>1 DEF IndInv
<1>29. CASE CommitRename
  <2>1. /\ BeginPhase' /\ OpenPhase' /\ RollbackPhase' /\ CompactPhase'
        /\ RetainedUntilCompaction' /\ WalPhase'
    BY <1>29 DEF CommitRename, NextGeneration, BeginPhase, BackedUp,
       OpenPhase, RollbackPhase, CommittedManifest, Uncommitted, CompactPhase,
       SuffixTooLong, BatchRuns, RetainedUntilCompaction, WalPhase,
       AppendNumber
  <2>2. CommittedStoreIntact'
    BY <1>29 DEF CommitRename, NextGeneration, CommittedStoreIntact,
       CommittedManifest, Uncommitted, OpenPhase, ManifestRuns
  <2>3. ManifestRuns'
    BY <1>29 DEF CommitRename, NextGeneration, ManifestRuns,
       CommittedManifest, Uncommitted, OpenPhase
  <2>4. PhaseOfJournal'
    BY <1>29 DEF CommitRename, NextGeneration, PhaseOfJournal, Uncommitted,
       OpenPhase
  <2>5. QED
    BY <1>0, <2>1, <2>2, <2>3, <2>4 DEF IndInv
<1>30. CASE CommitMemory
  <2>1. /\ CommittedStoreIntact' /\ ManifestRuns' /\ PhaseOfJournal'
        /\ BeginPhase' /\ OpenPhase' /\ CompactPhase'
        /\ RetainedUntilCompaction' /\ WalPhase'
    BY <1>30 DEF CommitMemory, CommittedStoreIntact, CommittedManifest,
       Uncommitted, ManifestRuns, PhaseOfJournal, BeginPhase, BackedUp,
       OpenPhase, CompactPhase, SuffixTooLong, BatchRuns,
       RetainedUntilCompaction, WalPhase, AppendNumber
  <2>2. RollbackPhase'
    BY <1>30 DEF CommitMemory, RollbackPhase, CommittedManifest, Uncommitted,
       PhaseOfJournal
  <2>3. QED
    BY <1>0, <2>1, <2>2 DEF IndInv
<1>31. CASE ClearFails
  <2>1. /\ CommittedStoreIntact' /\ ManifestRuns' /\ PhaseOfJournal'
        /\ BeginPhase' /\ OpenPhase' /\ RollbackPhase' /\ CompactPhase'
        /\ RetainedUntilCompaction' /\ WalPhase'
    BY <1>31 DEF ClearFails, NoTx, CommittedStoreIntact, CommittedManifest,
       Uncommitted, ManifestRuns, PhaseOfJournal, BeginPhase, BackedUp,
       OpenPhase, RollbackPhase, CompactPhase, SuffixTooLong, BatchRuns,
       RetainedUntilCompaction, WalPhase, AppendNumber
  <2>2. QED
    BY <1>0, <2>1 DEF IndInv
<1>32. CASE Abort
  <2>1. /\ CommittedStoreIntact' /\ ManifestRuns' /\ PhaseOfJournal'
        /\ BeginPhase' /\ OpenPhase' /\ CompactPhase'
        /\ RetainedUntilCompaction'
    BY <1>32 DEF Abort, CommittedStoreIntact, CommittedManifest, Uncommitted,
       ManifestRuns, PhaseOfJournal, BeginPhase, BackedUp, OpenPhase,
       CompactPhase, SuffixTooLong, BatchRuns, RetainedUntilCompaction
  <2>2. RollbackPhase'
    BY <1>32 DEF Abort, RollbackPhase, CommittedManifest, Uncommitted,
       OpenPhase
  <2>3. WalPhase'
    BY <1>32 DEF Abort, WalPhase, AppendNumber, Uncommitted, OpenPhase
  <2>4. QED
    BY <1>0, <2>1, <2>2, <2>3 DEF IndInv
<1>33. CASE AbortPublished
  <2>1. /\ CommittedStoreIntact' /\ ManifestRuns' /\ PhaseOfJournal'
        /\ BeginPhase' /\ OpenPhase' /\ CompactPhase'
        /\ RetainedUntilCompaction' /\ WalPhase'
    BY <1>33 DEF AbortPublished, CommittedStoreIntact, CommittedManifest,
       Uncommitted, ManifestRuns, PhaseOfJournal, BeginPhase, BackedUp,
       OpenPhase, CompactPhase, SuffixTooLong, BatchRuns,
       RetainedUntilCompaction, WalPhase, AppendNumber
  <2>2. RollbackPhase'
    BY <1>33 DEF AbortPublished, RollbackPhase, CommittedManifest,
       Uncommitted, PhaseOfJournal
  <2>3. QED
    BY <1>0, <2>1, <2>2 DEF IndInv
<1>34. CASE Crash
  <2>1. /\ CommittedStoreIntact' /\ ManifestRuns' /\ PhaseOfJournal'
        /\ BeginPhase' /\ OpenPhase' /\ RollbackPhase' /\ CompactPhase'
        /\ RetainedUntilCompaction'
    <3>1. CommittedStoreIntact'
      BY <1>34 DEF Crash, NoTx, NoGeneration, CommittedStoreIntact, CommittedManifest, Uncommitted
    <3>2. ManifestRuns'
      BY <1>34 DEF Crash, NoTx, NoGeneration, ManifestRuns, CommittedManifest, Uncommitted
    <3>3. PhaseOfJournal'
      BY <1>34 DEF Crash, NoTx, NoGeneration, PhaseOfJournal, Uncommitted
    <3>4. BeginPhase'
      BY <1>34 DEF Crash, NoTx, NoGeneration, BeginPhase, BackedUp
    <3>5. OpenPhase'
      BY <1>34 DEF Crash, NoTx, NoGeneration, OpenPhase, Uncommitted
    <3>6. RollbackPhase'
      BY <1>34 DEF Crash, NoTx, NoGeneration, RollbackPhase, CommittedManifest, Uncommitted
    <3>7. CompactPhase'
      BY <1>34 DEF Crash, NoTx, NoGeneration, CompactPhase, SuffixTooLong, BatchRuns
    <3>8. RetainedUntilCompaction'
      BY <1>34 DEF Crash, NoTx, NoGeneration, RetainedUntilCompaction, CommittedManifest, Uncommitted
    <3> QED BY <3>1, <3>2, <3>3, <3>4, <3>5, <3>6, <3>7, <3>8
  <2>2. WalPhase'
    BY <1>34 DEF Crash, NoTx, NoGeneration, WalPhase, AppendNumber,
       Uncommitted, OpenPhase
  <2>3. QED
    BY <1>0, <2>1, <2>2 DEF IndInv
<1>35. ASSUME NEW b \in 1..MaxBatch, BeginBatch(b) PROVE IndInv'
  <2>1. /\ CommittedStoreIntact' /\ ManifestRuns' /\ PhaseOfJournal'
        /\ OpenPhase' /\ RollbackPhase' /\ CompactPhase'
        /\ RetainedUntilCompaction' /\ WalPhase'
    BY <1>35 DEF BeginBatch, NoTx, CommittedStoreIntact, CommittedManifest,
       Uncommitted, ManifestRuns, PhaseOfJournal, OpenPhase, RollbackPhase,
       CompactPhase, SuffixTooLong, BatchRuns, RetainedUntilCompaction,
       WalPhase, AppendNumber
  <2>2. BeginPhase'
    <3> HIDE <1>0, ConstantsAssumption, CompactionInputsFacts DEF Generations, Backups, Journals, NoManifest
    <3>1. b \in Nat /\ b > training.batch
      BY <1>35 DEF BeginBatch, PhaseOfJournal
    <3>2. tx'.batch = b /\ tx'.flags = {}
      BY <1>35 DEF BeginBatch, NoTx
    <3>3. \A c \in Components : ~(c < index')
      BY <1>35, OrderFacts DEF BeginBatch
    <3>4. QED
      BY <1>35, <3>1, <3>2, <3>3 DEF BeginBatch, BeginPhase
  <2>3. QED
    BY <1>0, <2>1, <2>2 DEF IndInv
<1>36. ASSUME NEW synced \in {TRUE}, BeginJournal(synced) PROVE IndInv'
  <2>1. PhaseOfJournal' /\ BeginPhase' /\ RollbackPhase' /\ CompactPhase'
    BY <1>36 DEF BeginJournal, PhaseOfJournal, Uncommitted, BeginPhase,
       BackedUp, RollbackPhase, CommittedManifest, CompactPhase,
       SuffixTooLong, BatchRuns
  <2>2. CommittedStoreIntact'
    BY <1>36 DEF BeginJournal, CommittedStoreIntact, CommittedManifest,
       Uncommitted, BeginPhase, BackedUp, PhaseOfJournal, ManifestRuns
  <2>3. ManifestRuns'
    BY <1>36 DEF BeginJournal, ManifestRuns, CommittedManifest, Uncommitted,
       BeginPhase, BackedUp, PhaseOfJournal
  <2>4. RetainedUntilCompaction'
    BY <1>36 DEF BeginJournal, RetainedUntilCompaction, CommittedManifest,
       Uncommitted, BeginPhase, BackedUp
  <2>5. WalPhase'
    BY <1>36 DEF BeginJournal, WalPhase, AppendNumber, Uncommitted,
       PhaseOfJournal, BeginPhase
  <2>6. OpenPhase'
    <3> HIDE <1>0, ConstantsAssumption, CompactionInputsFacts DEF Generations, Backups, Journals, NoManifest
    <3>1. /\ tx'.open
          /\ tx'.batch = tx.batch
          /\ tx'.flags = tx.flags
          /\ tx'.generations = tx.generations
          /\ batchNumber' = tx.batch
          /\ training' = training
          /\ manifest' = manifest
      BY <1>36 DEF BeginJournal
    <3>2. journal'.pending /\ journal'.batch = tx.batch /\ journal'.flags = tx.flags
      BY <1>36 DEF BeginJournal
    <3>3. tx.batch > training.batch
      BY <1>36 DEF BeginJournal, BeginPhase
    <3>4. \A c \in Components :
            /\ tx.generations[c] = training.components[c]
            /\ manifest[c].generation = training.components[c]
      BY <1>36 DEF BeginJournal, BeginPhase, BackedUp, PhaseOfJournal,
                   CommittedStoreIntact, CommittedManifest, Uncommitted
    <3>5. QED
      BY <1>36, <3>1, <3>2, <3>3, <3>4 DEF BeginJournal, OpenPhase
  <2>7. QED
    BY <1>0, <2>1, <2>2, <2>3, <2>4, <2>5, <2>6 DEF IndInv
<1>37. ASSUME NEW c \in Components, AppendJournal(c) PROVE IndInv'
  <2>1. /\ CommittedStoreIntact' /\ ManifestRuns' /\ PhaseOfJournal'
        /\ BeginPhase' /\ OpenPhase' /\ RollbackPhase' /\ CompactPhase'
        /\ RetainedUntilCompaction' /\ WalPhase'
    <3>1. CommittedStoreIntact'
      BY <1>37 DEF AppendJournal, AppendNumber, CommittedStoreIntact, CommittedManifest, Uncommitted
    <3>2. ManifestRuns'
      BY <1>37 DEF AppendJournal, AppendNumber, ManifestRuns, CommittedManifest, Uncommitted
    <3>3. PhaseOfJournal'
      BY <1>37 DEF AppendJournal, AppendNumber, PhaseOfJournal, Uncommitted
    <3>4. BeginPhase'
      BY <1>37 DEF AppendJournal, AppendNumber, BeginPhase, BackedUp
    <3>5. OpenPhase'
      BY <1>37 DEF AppendJournal, AppendNumber, OpenPhase, Uncommitted
    <3>6. RollbackPhase'
      BY <1>37 DEF AppendJournal, AppendNumber, RollbackPhase, CommittedManifest, Uncommitted
    <3>7. CompactPhase'
      BY <1>37 DEF AppendJournal, AppendNumber, CompactPhase, SuffixTooLong, BatchRuns
    <3>8. RetainedUntilCompaction'
      BY <1>37 DEF AppendJournal, AppendNumber, RetainedUntilCompaction, CommittedManifest, Uncommitted
    <3>9. WalPhase'
      BY <1>37 DEF AppendJournal, AppendNumber, WalPhase, Uncommitted
    <3> QED BY <3>1, <3>2, <3>3, <3>4, <3>5, <3>6, <3>7, <3>8, <3>9
  <2>2. QED
    BY <1>0, <2>1 DEF IndInv
<1>38. ASSUME NEW removed \in BOOLEAN, AppendEnd(removed) PROVE IndInv'
  <2>1. /\ CommittedStoreIntact' /\ ManifestRuns' /\ PhaseOfJournal'
        /\ BeginPhase' /\ OpenPhase' /\ RollbackPhase' /\ CompactPhase'
        /\ RetainedUntilCompaction' /\ WalPhase'
    <3>1. CommittedStoreIntact'
      BY <1>38 DEF AppendEnd, CommittedStoreIntact, CommittedManifest, Uncommitted
    <3>2. ManifestRuns'
      BY <1>38 DEF AppendEnd, ManifestRuns, CommittedManifest, Uncommitted
    <3>3. PhaseOfJournal'
      BY <1>38 DEF AppendEnd, PhaseOfJournal, Uncommitted
    <3>4. BeginPhase'
      BY <1>38 DEF AppendEnd, BeginPhase, BackedUp
    <3>5. OpenPhase'
      BY <1>38 DEF AppendEnd, OpenPhase, Uncommitted
    <3>6. RollbackPhase'
      BY <1>38 DEF AppendEnd, RollbackPhase, CommittedManifest, Uncommitted
    <3>7. CompactPhase'
      BY <1>38 DEF AppendEnd, CompactPhase, SuffixTooLong, BatchRuns
    <3>8. RetainedUntilCompaction'
      BY <1>38 DEF AppendEnd, RetainedUntilCompaction, CommittedManifest, Uncommitted
    <3>9. WalPhase'
      BY <1>38 DEF AppendEnd, WalPhase, AppendNumber, Uncommitted
    <3> QED BY <3>1, <3>2, <3>3, <3>4, <3>5, <3>6, <3>7, <3>8, <3>9
  <2>2. QED
    BY <1>0, <2>1 DEF IndInv
<1>39. ASSUME NEW f \in Fingerprints, FinalizeJournal(f) PROVE IndInv'
  <2>1. /\ PhaseOfJournal' /\ BeginPhase' /\ OpenPhase' /\ RollbackPhase'
        /\ CompactPhase' /\ RetainedUntilCompaction' /\ WalPhase'
    BY <1>39 DEF FinalizeJournal, PhaseOfJournal, Uncommitted, BeginPhase,
       BackedUp, OpenPhase, RollbackPhase, CommittedManifest, CompactPhase,
       SuffixTooLong, BatchRuns, RetainedUntilCompaction, WalPhase,
       AppendNumber
  <2>2. CommittedStoreIntact'
    BY <1>39 DEF FinalizeJournal, CommittedStoreIntact, CommittedManifest,
       Uncommitted, OpenPhase
  <2>3. ManifestRuns'
    BY <1>39 DEF FinalizeJournal, ManifestRuns, CommittedManifest,
       Uncommitted, OpenPhase
  <2>4. QED
    BY <1>0, <2>1, <2>2, <2>3 DEF IndInv
<1>40. CASE UNCHANGED vars
  <2>1. CommittedStoreIntact'
    BY <1>40 DEF vars, CommittedStoreIntact, CommittedManifest, Uncommitted
  <2>2. ManifestRuns'
    BY <1>40 DEF vars, ManifestRuns, CommittedManifest, Uncommitted
  <2>3. PhaseOfJournal'
    BY <1>40 DEF vars, PhaseOfJournal, Uncommitted
  <2>4. BeginPhase'
    BY <1>40 DEF vars, BeginPhase, BackedUp
  <2>5. OpenPhase'
    BY <1>40 DEF vars, OpenPhase, Uncommitted
  <2>6. RollbackPhase'
    BY <1>40 DEF vars, RollbackPhase, CommittedManifest, Uncommitted
  <2>7. CompactPhase'
    BY <1>40 DEF vars, CompactPhase, SuffixTooLong, BatchRuns
  <2>8. RetainedUntilCompaction'
    BY <1>40 DEF vars, RetainedUntilCompaction, CommittedManifest, Uncommitted
  <2>9. WalPhase'
    BY <1>40 DEF vars, WalPhase, AppendNumber, Uncommitted
  <2> QED
    BY <1>0, <2>1, <2>2, <2>3, <2>4, <2>5, <2>6, <2>7, <2>8, <2>9 DEF IndInv
<1>41. QED
  <2> HIDE <1>0, ConstantsAssumption, ComponentFacts, EmptyValues, CompactionInputsFacts
      DEF IndInv, TypeOK, OpenBatchSteps, Manifests, Backups, Journals, Transactions, Generations,
          NoManifest
  <2>1. CASE RecoveryStep
    BY <2>1, <1>1, <1>2, <1>3, <1>4, <1>5, <1>6, <1>7, <1>8, <1>9, <1>10 DEF RecoveryStep
  <2>2. CASE BatchStep
    BY <2>2, <1>11, <1>12, <1>13, <1>14, <1>15, <1>16, <1>17, <1>18, <1>19, <1>20, <1>21,
       <1>22, <1>23, <1>24, <1>25, <1>26, <1>27, <1>28, <1>29, <1>30, <1>31, <1>32, <1>33,
       <1>35, <1>36, <1>37, <1>38, <1>39 DEF BatchStep
  <2> QED
    BY <2>1, <2>2, <1>34, <1>40 DEF Next

\* An empty directory satisfies the inductive invariant.
LEMMA IndInit == Init => IndInv
<1> SUFFICES ASSUME Init PROVE IndInv
  OBVIOUS
<1>1. TypeOK
  BY TypeInit
<1>2. \A c \in Components : manifest[c] = NoManifest /\ CommittedManifest(c) = NoManifest
  BY DEF Init, NoJournal, CommittedManifest, Uncommitted
<1>3. ~Uncommitted /\ pc = "down" /\ ~journal.pending
  BY DEF Init, NoJournal, Uncommitted
<1>4. CommittedStoreIntact /\ ManifestRuns
  BY <1>2, <1>3 DEF Init, CommittedStoreIntact, ManifestRuns, NoManifest, NoGeneration
<1>5. /\ PhaseOfJournal /\ BeginPhase /\ OpenPhase /\ RollbackPhase
      /\ CompactPhase /\ RetainedUntilCompaction
  BY <1>3 DEF PhaseOfJournal, BeginPhase, OpenPhase, RollbackPhase, CompactPhase,
              RetainedUntilCompaction, OpenBatchSteps
<1>6. WalPhase
  BY <1>2, <1>3 DEF Init, WalPhase, NoManifest, OpenBatchSteps
<1>7. QED
  BY <1>1, <1>4, <1>5, <1>6 DEF IndInv

-----------------------------------------------------------------------------
(* The theorems.  All three need that a directory sync does not fail: see   *)
(* the comment of DirectorySyncMayFail and the run of its configuration.   *)

\* The inductive invariant holds at every step: each phase of a batch, of its
\* rollback and of the clearing of its journal keeps what recovery relies on.
THEOREM Invariance ==
  ASSUME DirectorySyncMayFail = FALSE PROVE Spec => []IndInv
BY IndInit, IndNext, PTL DEF Spec

\* At every step of every batch, abort, compaction, crash and recovery, the
\* files of the generation that TRAINING_CURRENT names can be recovered.
THEOREM StoreIntact ==
  ASSUME DirectorySyncMayFail = FALSE PROVE Spec => []CommittedStoreIntact
<1>1. IndInv => CommittedStoreIntact
  BY DEF IndInv
<1>2. QED
  BY Invariance, <1>1, PTL

\* recover_wal never replays a component journal of a rolled-back batch.
THEOREM NoReplay ==
  ASSUME DirectorySyncMayFail = FALSE PROVE Spec => []NoReplayOfRolledBackBatch
<1>1. IndInv => NoReplayOfRolledBackBatch
  BY DEF IndInv, WalPhase, PhaseOfJournal, NoReplayOfRolledBackBatch
<1>2. QED
  BY Invariance, <1>1, PTL

\* No step but the rename of TRAINING_CURRENT changes what a reader who
\* recovers the store would find.
LEMMA ContentKept ==
  ASSUME DirectorySyncMayFail = FALSE, IndInv, [Next]_vars, ~CommitRename
  PROVE  /\ training' = training
         /\ \A c \in Components : CommittedManifest(c)' = CommittedManifest(c)
<1> DEFINE Kept == /\ training' = training
                   /\ \A c \in Components : CommittedManifest(c)' = CommittedManifest(c)
<1> USE DEF IndInv, CommittedManifest, Uncommitted
<1>1. CASE ClearJournal
  BY <1>1 DEF ClearJournal, NoJournal, RollbackPhase, CommittedManifest
<1>2. CASE ClearBackup \/ BackupStart \/ BackupEnd \/ BeginUndoBackups
  BY <1>2 DEF ClearBackup, BackupStart, BackupEnd, BeginUndoBackups, PhaseOfJournal
<1>3. CASE BeginUndoJournal
  BY <1>3 DEF BeginUndoJournal, NoJournal, PhaseOfJournal
<1>4. CASE RollbackManifest
  BY <1>4 DEF RollbackManifest, RollbackPhase
<1>5. CASE AppendPublish \/ CompactPublish
  BY <1>5 DEF AppendPublish, CompactPublish, OpenPhase, OpenBatchSteps
<1>6. CASE OpenComponent
  <2>1. ~Uncommitted /\ componentWal[index] <= manifest[index].last
    BY <1>6 DEF OpenComponent, PhaseOfJournal, WalPhase, TypeOK
  <2>2. manifest' = manifest
    BY <1>6, <2>1 DEF OpenComponent, ReplayedManifest, TypeOK
  <2>3. QED
    BY <1>6, <2>2 DEF OpenComponent
<1>7. ASSUME NEW synced \in BOOLEAN, BeginJournal(synced) PROVE Kept
  <2>1. training' = training /\ manifest' = manifest /\ backup' = backup
    BY <1>7 DEF BeginJournal
  <2>2. \A c \in Components : BackedUp(c)
    BY <1>7 DEF BeginJournal, BeginPhase
  <2>3. ~Uncommitted /\ Uncommitted' /\ journal'.flags = tx.flags
    BY <1>7, <2>1 DEF BeginJournal, BeginPhase, PhaseOfJournal
  <2>4. \A c \in Components : c \notin tx.flags => manifest[c] = NoManifest
    BY <2>2 DEF BackedUp, ManifestRuns
  <2>5. \A c \in Components : c \in tx.flags => backup[c].manifest = manifest[c]
    <3> TAKE c \in Components
    <3> HAVE c \in tx.flags
    <3>1. backup[c] = [state |-> "complete", manifest |-> manifest[c]]
      BY <2>2 DEF BackedUp
    <3>2. QED
      BY <3>1
  <2>6. QED
    BY <2>1, <2>3, <2>4, <2>5
<1>8. ASSUME NEW f \in Fingerprints, FinalizeJournal(f) PROVE Kept
  BY <1>8 DEF FinalizeJournal, OpenPhase, OpenBatchSteps, TypeOK, Journals
<1>9. CASE \/ ClearJournalTmp \/ ClearFails \/ RecoverNothing \/ RecoverCommitted
           \/ RecoverPending \/ RollbackTemporaries \/ Reclaim \/ BeginJournalTmp
           \/ BeginFails \/ AppendRun \/ CompactStart \/ CompactSkip \/ CompactRun
           \/ CompactDelete \/ CompactEnd \/ BeginPageBatch \/ CommitStart
           \/ FinalizeTmp \/ CommitTmp \/ CommitMemory \/ Abort \/ AbortPublished
           \/ Crash \/ UNCHANGED vars
  <2>1. UNCHANGED <<training, manifest, backup, journal>>
    BY <1>9 DEF ClearJournalTmp, ClearFails, RecoverNothing, RecoverCommitted,
         RecoverPending, RollbackTemporaries, Reclaim, BeginJournalTmp, BeginFails,
         AppendRun, CompactStart, CompactSkip, CompactRun, CompactDelete, CompactEnd,
         BeginPageBatch, CommitStart, FinalizeTmp, CommitTmp, CommitMemory, Abort,
         AbortPublished, Crash
  <2>2. QED
    BY <2>1
<1>10. ASSUME \/ \E b \in 1..MaxBatch : BeginBatch(b)
              \/ \E c \in Components : AppendJournal(c)
              \/ \E removed \in BOOLEAN : AppendEnd(removed)
       PROVE  Kept
  <2>1. UNCHANGED <<training, manifest, backup, journal>>
    BY <1>10 DEF BeginBatch, AppendJournal, AppendEnd
  <2>2. QED
    BY <2>1
<1>11. QED
  <2> HIDE DEF Kept, IndInv, CommittedManifest, Uncommitted
  <2>1. Kept
    BY <1>1, <1>2, <1>3, <1>4, <1>5, <1>6, <1>7, <1>8, <1>9, <1>10
       DEF Next, RecoveryStep, BatchStep, Kept
  <2>2. QED
    BY <2>1 DEF Kept

\* The batch protocol with its crashes implements an atomic commit of all the
\* components: MultiwayExternalBatchTransaction "coordinates root/catalog,
\* root/rows, and root/pages CURRENT manifests through one durable commit point".
THEOREM Refinement ==
  ASSUME DirectorySyncMayFail = FALSE PROVE Spec => RefinesAtomicBatch
<1>1. Init => Atomic!Init
  <2> SUFFICES ASSUME Init PROVE Atomic!Init
    OBVIOUS
  <2>1. \A c \in Components : CommittedManifest(c) = NoManifest
    BY DEF Init, NoJournal, CommittedManifest, Uncommitted
  <2>2. NoManifest.generation = 0 /\ training.batch = 0
    BY DEF NoManifest, Init, NoGeneration
  <2>3. QED
    BY <2>1, <2>2, EmptyValues DEF Atomic!Init
<1>2. IndInv /\ IndInv' /\ [Next]_vars => [Atomic!Next]_(Atomic!vars)
  <2> SUFFICES ASSUME IndInv, IndInv', [Next]_vars
               PROVE  [Atomic!Next]_(Atomic!vars)
    OBVIOUS
  <2>1. CASE CommitRename
    <3>1. training'.batch > training.batch /\ training'.batch \in Nat
      BY <2>1 DEF CommitRename, NextGeneration, IndInv, OpenPhase, OpenBatchSteps,
                  TypeOK, Generations
    <3>2. \A c \in Components :
            /\ CommittedManifest(c)' = manifest[c]
            /\ manifest[c] \in Manifests
            /\ manifest[c].generation >= CommittedManifest(c).generation
      <4>1. /\ tx.batch = journal.batch
            /\ batchNumber = tx.batch
            /\ \A c \in Components : manifest[c].generation >= training.components[c]
        BY <2>1 DEF CommitRename, IndInv, OpenPhase, OpenBatchSteps
      <4>2. manifest' = manifest /\ journal' = journal /\ training'.batch = batchNumber
        BY <2>1 DEF CommitRename, NextGeneration
      <4>3. ~Uncommitted'
        BY <4>1, <4>2 DEF Uncommitted, IndInv, TypeOK
      <4>4. QED
        BY <4>1, <4>2, <4>3 DEF CommittedManifest, IndInv, CommittedStoreIntact, TypeOK
    <3>3. QED
      BY <3>1, <3>2 DEF Atomic!Next, Atomic!Commit
  <2>2. CASE ~CommitRename
    BY <2>2, ContentKept DEF Atomic!vars
  <2>3. QED
    BY <2>1, <2>2
<1>3. QED
  BY <1>1, <1>2, Invariance, PTL DEF Spec, RefinesAtomicBatch, Atomic!Spec
=============================================================================
