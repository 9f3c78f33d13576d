------------------------ MODULE ExternalRecordStore ------------------------
(***************************************************************************)
(* MultiwayExternalRecordStore: one component of the external storage, a   *)
(* log-structured map.  An append writes its records to BATCH.wal and then *)
(* to a new run (run_<generation>.dat and .idx), which the manifest        *)
(* CURRENT lists once it is renamed into place.  Compaction merges the     *)
(* newest runs into one.  Checkpoints pin the runs they refer to.          *)
(*                                                                         *)
(* This module is the component on its own, recovering from BATCH.wal      *)
(* (aggregate_transaction_covers_append_recovery is false).  A payload is  *)
(* the number of the append that wrote it.  The content hash of a run is   *)
(* the content itself, so a manifest maps the generations it lists to the  *)
(* records they must hold.  All files of a step are on disk when the step  *)
(* is over: a crash loses memory, not files.                               *)
(***************************************************************************)
EXTENDS Naturals, FiniteSets, FiniteSetsExt, Functions

CONSTANTS
  KeyCount,           \* record keys are 1..KeyCount
  CacheSlots,         \* entries of the direct-mapped cache
  FanIn,              \* config_.compaction_fan_in
  DiskLimited,        \* config_.disk_amplification_limit # 0
  MaxAppends,         \* bound on append calls
  MaxGeneration,      \* bound on generations
  MaxCrashes,         \* bound on crashes and exceptions
  MaxSaveCrashes,     \* bound on the ones inside a checkpoint save
  MaxUnlinkFailures,  \* bound on removals of BATCH.wal that do not happen
  Checkpoints         \* whether checkpoints are saved and restored

ASSUME RecordStoreAssumption ==
  /\ KeyCount \in Nat \ {0}
  /\ CacheSlots \in Nat \ {0}
  /\ FanIn \in Nat \ {0, 1}
  /\ DiskLimited \in BOOLEAN
  /\ MaxAppends \in Nat
  /\ MaxGeneration \in Nat
  /\ MaxCrashes \in Nat
  /\ MaxSaveCrashes \in Nat
  /\ MaxUnlinkFailures \in Nat
  /\ Checkpoints \in BOOLEAN

Keys == 1..KeyCount
Slots == 0..(CacheSlots - 1)
Payloads == 1..MaxAppends
Generations == 1..MaxGeneration
Batches == 0..MaxAppends

VARIABLES
  dat, idx,     \* the run files: records and keys of each generation
  tmp,          \* temporaries: "dat" and "idx" of the next run, "CURRENT"
  current,      \* CURRENT, the manifest on disk
  wal,          \* BATCH.wal
  pin,          \* CHECKPOINT_<id>.PIN: generations and content hashes
  checkpoint,   \* the published checkpoint, generation 0 if none
  store,        \* runs_, generation_ and last_batch_number_ in memory
  cache,        \* cache[slot]: the cached payload per key, at most one key
  pc,           \* step of the operation that holds the mutex
  after,        \* where cleanup_orphans and the removals return to
  work,         \* arguments of that operation
  inflight,     \* the append that is not over, 0 if none
  base,         \* generation at the beginning of the batch
  appends, crashes, saveCrashes, unlinkFailures

runFiles == <<dat, idx>>
pins == <<pin, checkpoint>>
memory == <<store, cache>>
counters == <<appends, crashes, saveCrashes, unlinkFailures>>
vars == <<runFiles, tmp, current, wal, pins, memory, pc, after, work, inflight,
          base, counters>>

NoRecords == [k \in {} |-> 0]
Contents == UNION {[S -> Payloads] : S \in SUBSET Keys}
EmptyManifest == [generation |-> 0, batch |-> 0, runs |-> [g \in {} |-> NoRecords]]
NoWal == [state |-> "none", batch |-> 0, records |-> NoRecords]
Idle == [batch |-> 0, rest |-> NoRecords, chunk |-> NoRecords,
         inputs |-> {}, retain |-> FALSE]

\* f, and g where f is not defined.
Over(f, g) ==
  [k \in DOMAIN f \cup DOMAIN g |-> IF k \in DOMAIN f THEN f[k] ELSE g[k]]

Without(f, S) == Restrict(f, DOMAIN f \ S)

-----------------------------------------------------------------------------
(* Reading                                                                 *)

\* The newest of the generations G of runs that holds key k.
Newest(runs, G, k) == Max({g \in G : k \in DOMAIN runs[g]})

\* Mutant: the oldest run wins.
MergeRunsOldest(runs, G) ==
  [k \in UNION {DOMAIN runs[g] : g \in G} |->
     runs[Min({g \in G : k \in DOMAIN runs[g]})][k]]

\* The records of the runs of G, the newest generation winning: what the
\* merge of a compaction writes and what an ordered scan visits.
MergeRuns(runs, G) ==
  [k \in UNION {DOMAIN runs[g] : g \in G} |-> runs[Newest(runs, G, k)][k]]

Lookup(s, k) ==
  LET holders == {g \in DOMAIN s.runs : k \in DOMAIN s.runs[g]}
  IN  IF holders = {} THEN 0 ELSE s.runs[Max(holders)][k]

external_cache_slot(k) == k % CacheSlots

\* lookup: a miss reads the newest run that has the key and fills its slot;
\* a key that is not stored leaves the cache alone.  The mutex is free
\* between the chunks of an append.
LookupKey(k) ==
  /\ pc = "ready" \/ (pc = "append" /\ after = "ready")
  /\ k \notin DOMAIN cache[external_cache_slot(k)]
  /\ Lookup(store, k) # 0
  /\ cache' = [cache EXCEPT ![external_cache_slot(k)] = [key \in {k} |-> Lookup(store, k)]]
  /\ UNCHANGED <<runFiles, tmp, current, wal, pins, store, pc, after, work,
                 inflight, base, counters>>

-----------------------------------------------------------------------------
(* Opening                                                                 *)

\* load_manifest checks the length and the hash of every listed run.
Readable(m) ==
  \A g \in DOMAIN m.runs : dat[g] = m.runs[g] /\ idx[g] = DOMAIN m.runs[g]

Open ==
  /\ pc = "closed"
  /\ Readable(current)
  /\ store' = current
  /\ pc' = "cleanup"
  /\ after' = "recover"
  /\ base' = current.generation
  /\ UNCHANGED <<runFiles, tmp, current, wal, pins, cache, work, inflight, counters>>

\* Runs that cleanup_orphans keeps: listed by the manifest or pinned.
Kept == DOMAIN store.runs \cup DOMAIN pin

\* Mutant: runs beyond the generation of the manifest are overlooked.
OrphansUpToGeneration ==
  {g \in Generations : g <= store.generation /\ (dat[g] # NoRecords \/ idx[g] # {})} \ Kept

Orphans == {g \in Generations : dat[g] # NoRecords \/ idx[g] # {}} \ Kept

\* cleanup_orphans removes the files of one run after the other ...
RemoveOrphan ==
  /\ pc = "cleanup"
  /\ \E g \in Orphans :
       \/ dat' = [dat EXCEPT ![g] = NoRecords] /\ dat[g] # NoRecords /\ UNCHANGED idx
       \/ idx' = [idx EXCEPT ![g] = {}] /\ idx[g] # {} /\ UNCHANGED dat
  /\ UNCHANGED <<tmp, current, wal, pins, memory, pc, after, work, inflight,
                 base, counters>>

\* ... and the temporaries.
CleanupDone ==
  /\ pc = "cleanup"
  /\ Orphans = {}
  /\ tmp' = {}
  /\ pc' = after
  /\ after' = "ready"
  /\ UNCHANGED <<runFiles, current, wal, pins, memory, work, inflight, base,
                 counters>>

\* recover_wal
RecoverNothing ==
  /\ pc = "recover"
  /\ wal.state = "none"
  /\ pc' = "ready"
  /\ inflight' = 0
  /\ UNCHANGED <<runFiles, tmp, current, wal, pins, memory, after, work, base,
                 counters>>

\* Mutant: the batch after the last one is taken for committed too.
DropCommittedWalOffByOne ==
  /\ pc = "recover"
  /\ wal.state # "none"
  /\ wal.batch <= store.batch + 1
  /\ wal' = NoWal
  /\ pc' = "ready"
  /\ inflight' = 0
  /\ UNCHANGED <<runFiles, tmp, current, pins, memory, after, work, base, counters>>

\* The batch of the journal is already in the manifest.
DropCommittedWal ==
  /\ pc = "recover"
  /\ wal.state # "none"
  /\ wal.batch <= store.batch
  /\ wal' = NoWal
  /\ pc' = "ready"
  /\ inflight' = 0
  /\ UNCHANGED <<runFiles, tmp, current, pins, memory, after, work, base, counters>>

\* A journal that was not written to its end is removed, and then the run
\* it was for.
DiscardWal ==
  /\ pc = "recover"
  /\ wal.state = "torn"
  /\ wal' = NoWal
  /\ pc' = "unlink_dat"
  /\ after' = "discarded"
  /\ UNCHANGED <<runFiles, tmp, current, pins, memory, work, inflight, base, counters>>

\* A complete one is redone: the run it was for is removed, then the
\* journal, and its records are appended again.
RedoWal ==
  /\ pc = "recover"
  /\ wal.state = "complete"
  /\ wal.batch > store.batch
  /\ pc' = "unlink_dat"
  /\ after' = "redo"
  /\ UNCHANGED <<runFiles, tmp, current, wal, pins, memory, work, inflight, base,
                 counters>>

NextGeneration == store.generation + 1

UnlinkData ==
  /\ pc = "unlink_dat"
  /\ dat' = [dat EXCEPT ![NextGeneration] = NoRecords]
  /\ pc' = "unlink_idx"
  /\ UNCHANGED <<idx, tmp, current, wal, pins, memory, after, work, inflight,
                 base, counters>>

UnlinkIndex ==
  /\ pc = "unlink_idx"
  /\ idx' = [idx EXCEPT ![NextGeneration] = {}]
  /\ pc' = after
  /\ UNCHANGED <<dat, tmp, current, wal, pins, memory, after, work, inflight,
                 base, counters>>

Discarded ==
  /\ pc = "discarded"
  /\ pc' = "ready"
  /\ inflight' = 0
  /\ UNCHANGED <<runFiles, tmp, current, wal, pins, memory, after, work, base,
                 counters>>

Redo ==
  /\ pc = "redo"
  /\ work' = [Idle EXCEPT !.batch = wal.batch, !.rest = wal.records]
  /\ wal' = NoWal
  /\ pc' = "append"
  /\ after' = "closed"
  /\ UNCHANGED <<runFiles, tmp, current, pins, memory, inflight, base, counters>>

-----------------------------------------------------------------------------
(* append_batch and append_batch_continuation                              *)

\* The batch number increases, or stays for a continuation.  Room for the
\* generations of the append is the bound of the model.
AppendBatch(b, S) ==
  /\ pc = "ready"
  /\ appends < MaxAppends
  /\ b \in {store.batch, store.batch + 1} \ {0}
  /\ S # {}
  /\ store.generation + Cardinality(S) <= MaxGeneration
  /\ appends' = appends + 1
  /\ inflight' = appends + 1
  /\ work' = [Idle EXCEPT !.batch = b, !.rest = [k \in S |-> appends + 1]]
  /\ base' = IF b = store.batch THEN base ELSE store.generation
  /\ pc' = "append"
  /\ after' = "ready"
  /\ UNCHANGED <<runFiles, tmp, current, wal, pins, memory, crashes,
                 saveCrashes, unlinkFailures>>

\* prepare_append_batch_chunk finds too little disk: append_batch throws, to
\* its caller or, when the journal is being redone, out of the constructor.
AppendRefused ==
  /\ pc = "append"
  /\ crashes < MaxCrashes
  /\ crashes' = crashes + 1
  /\ pc' = after
  /\ work' = Idle
  /\ inflight' = 0
  /\ UNCHANGED <<runFiles, tmp, current, wal, pins, memory, after, base, appends,
                 saveCrashes, unlinkFailures>>

\* The keys of a chunk: all that remain or, under a disk limit, as many of
\* the smallest as the disk budget admits.
Chunks(rest) ==
  {S \in (SUBSET DOMAIN rest) \ {{}} :
     IF DiskLimited THEN \A k \in S, other \in DOMAIN rest \ S : k < other
                    ELSE S = DOMAIN rest}

\* write_wal opens BATCH.wal ...
StartChunk ==
  /\ pc = "append"
  /\ wal.state = "none"
  /\ \E S \in Chunks(work.rest) :
       /\ work' = [work EXCEPT !.chunk = Restrict(work.rest, S),
                               !.rest = Without(work.rest, S)]
       /\ wal' = [state |-> "torn", batch |-> work.batch,
                  records |-> Restrict(work.rest, S)]
  /\ pc' = "wal"
  /\ UNCHANGED <<runFiles, tmp, current, pins, memory, after, inflight, base, counters>>

\* ... (which must not exist) ...
WalExists ==
  /\ pc = "append"
  /\ wal.state # "none"
  /\ pc' = "failed"
  /\ UNCHANGED <<runFiles, tmp, current, wal, pins, memory, after, work,
                 inflight, base, counters>>

\* ... and completes it.
CompleteWal ==
  /\ pc = "wal"
  /\ wal' = [wal EXCEPT !.state = "complete"]
  /\ pc' = "segment"
  /\ UNCHANGED <<runFiles, tmp, current, pins, memory, after, work, inflight,
                 base, counters>>

WriteSegment ==
  /\ pc = "segment"
  /\ tmp' = tmp \cup {"dat", "idx"}
  /\ pc' = "publish_dat"
  /\ UNCHANGED <<runFiles, current, wal, pins, memory, after, work, inflight,
                 base, counters>>

NextRunExists == dat[NextGeneration] # NoRecords \/ idx[NextGeneration] # {}

\* "external storage generation file already exists"
GenerationExists ==
  /\ pc = "publish_dat"
  /\ NextRunExists
  /\ tmp' = tmp \ {"dat", "idx"}
  /\ pc' = "failed"
  /\ UNCHANGED <<runFiles, current, wal, pins, memory, after, work, inflight,
                 base, counters>>

\* Mutant: the manifest lists the new run only.
AppendedManifestAlone ==
  [generation |-> NextGeneration, batch |-> work.batch,
   runs |-> [g \in {NextGeneration} |-> work.chunk]]

\* The manifest of the append.
AppendedManifest ==
  [generation |-> NextGeneration, batch |-> work.batch,
   runs |-> Over([g \in {NextGeneration} |-> work.chunk], store.runs)]

PublishData ==
  /\ pc = "publish_dat"
  /\ ~NextRunExists
  /\ dat' = [dat EXCEPT ![NextGeneration] = work.chunk]
  /\ tmp' = tmp \ {"dat"}
  /\ pc' = "publish_idx"
  /\ UNCHANGED <<idx, current, wal, pins, memory, after, work, inflight, base, counters>>

\* Mutant: CURRENT is published before the index of the run is.
PublishIndexEarly ==
  /\ pc = "publish_idx"
  /\ current' = AppendedManifest
  /\ tmp' = tmp \ {"idx"}
  /\ pc' = "manifest"
  /\ UNCHANGED <<runFiles, wal, pins, memory, after, work, inflight, base, counters>>

PublishIndex ==
  /\ pc = "publish_idx"
  /\ idx' = [idx EXCEPT ![NextGeneration] = DOMAIN work.chunk]
  /\ tmp' = tmp \ {"idx"}
  /\ pc' = "manifest"
  /\ UNCHANGED <<dat, current, wal, pins, memory, after, work, inflight, base, counters>>

\* publish_manifest: CURRENT.tmp must not exist ...
WriteManifest(here, there) ==
  /\ pc = here
  /\ "CURRENT" \notin tmp
  /\ tmp' = tmp \cup {"CURRENT"}
  /\ pc' = there
  /\ UNCHANGED <<runFiles, current, wal, pins, memory, after, work, inflight,
                 base, counters>>

\* ... and replaces CURRENT.
RenameManifest(here, there, manifest) ==
  /\ pc = here
  /\ current' = manifest
  /\ tmp' = tmp \ {"CURRENT"}
  /\ pc' = there
  /\ UNCHANGED <<runFiles, wal, pins, memory, after, work, inflight, base, counters>>

WriteAppendManifest == WriteManifest("manifest", "rename_manifest")
PublishAppend == RenameManifest("rename_manifest", "remember", AppendedManifest)

\* Mutant: only the slot of the first key is looked at.
InvalidatedFirst ==
  [s \in Slots |-> IF s = external_cache_slot(Min(DOMAIN work.chunk))
                     THEN Without(cache[s], DOMAIN work.chunk) ELSE cache[s]]

\* The slots of the appended keys are dropped from the cache.
Invalidated ==
  [s \in Slots |-> Without(cache[s], DOMAIN work.chunk)]

Remember ==
  /\ pc = "remember"
  /\ store' = AppendedManifest
  /\ cache' = Invalidated
  /\ pc' = "unlink_wal"
  /\ UNCHANGED <<runFiles, tmp, current, wal, pins, after, work, inflight, base,
                 counters>>

\* The next chunk, or the end of append_batch.
NextChunk ==
  IF DOMAIN work.rest = {} THEN /\ pc' = "ready" /\ inflight' = 0 /\ work' = Idle
                           ELSE /\ pc' = "append" /\ UNCHANGED <<inflight, work>>

UnlinkWal ==
  /\ pc = "unlink_wal"
  /\ wal' = NoWal
  /\ NextChunk
  /\ UNCHANGED <<runFiles, tmp, current, pins, memory, after, base, counters>>

\* An error of the removal is ignored.
UnlinkWalFails ==
  /\ pc = "unlink_wal"
  /\ unlinkFailures < MaxUnlinkFailures
  /\ unlinkFailures' = unlinkFailures + 1
  /\ NextChunk
  /\ UNCHANGED <<runFiles, tmp, current, wal, pins, memory, after, base, appends,
                 crashes, saveCrashes>>

-----------------------------------------------------------------------------
(* compact, compact_batch_runs and reclaim_orphans                         *)

\* The n newest runs.
NewestRuns(n) ==
  CHOOSE G \in kSubset(n, DOMAIN store.runs) :
    \A g \in G, h \in DOMAIN store.runs \ G : g > h

\* compact(retain_input_runs), nothing to do with fewer runs than the fan-in.
Compact(retain) ==
  /\ pc = "ready"
  /\ Cardinality(DOMAIN store.runs) >= FanIn
  /\ store.generation < MaxGeneration
  /\ work' = [Idle EXCEPT !.inputs = NewestRuns(FanIn), !.retain = retain]
  /\ pc' = "cleanup"
  /\ after' = "compact"
  /\ UNCHANGED <<runFiles, tmp, current, wal, pins, memory, inflight, base, counters>>

ReclaimOrphans ==
  /\ pc = "ready"
  /\ Orphans # {} \/ tmp # {}
  /\ pc' = "cleanup"
  /\ after' = "ready"
  /\ UNCHANGED <<runFiles, tmp, current, wal, pins, memory, work, inflight, base,
                 counters>>

\* The runs of the current batch.
Suffix == {g \in DOMAIN store.runs : g > base}

\* compact_batch_runs(base), with room for the generations it can use.
CompactBatchRuns ==
  /\ pc = "ready"
  /\ Cardinality(Suffix) > 1 \/ Cardinality(DOMAIN store.runs) > FanIn
  /\ store.generation + Max({Cardinality(Suffix), 1}) <= MaxGeneration
  /\ pc' = "compact_batch"
  /\ UNCHANGED <<runFiles, tmp, current, wal, pins, memory, after, work,
                 inflight, base, counters>>

\* Its loop first merges the runs of the batch, not keeping them ...
CompactSuffix ==
  /\ pc = "compact_batch"
  /\ Cardinality(Suffix) > 1
  /\ work' = [Idle EXCEPT !.inputs = NewestRuns(Min({FanIn, Cardinality(Suffix)}))]
  /\ pc' = "compact"
  /\ after' = "compact_batch"
  /\ UNCHANGED <<runFiles, tmp, current, wal, pins, memory, inflight, base, counters>>

\* ... and then the newest runs, whose files a rollback may still need.
\* Beyond 2 * FanIn - 1 runs it throws.
CompactRetained ==
  /\ pc = "compact_batch"
  /\ Cardinality(Suffix) <= 1
  /\ Cardinality(DOMAIN store.runs) > FanIn
  /\ IF Cardinality(DOMAIN store.runs) > 2 * FanIn - 1
       THEN pc' = "ready" /\ UNCHANGED <<after, work>>
       ELSE /\ pc' = "compact"
            /\ after' = "ready"
            /\ work' = [Idle EXCEPT !.inputs = NewestRuns(FanIn), !.retain = TRUE]
  /\ UNCHANGED <<runFiles, tmp, current, wal, pins, memory, inflight, base, counters>>

CompactBatchDone ==
  /\ pc = "compact_batch"
  /\ Cardinality(Suffix) <= 1
  /\ Cardinality(DOMAIN store.runs) <= FanIn
  /\ pc' = "ready"
  /\ UNCHANGED <<runFiles, tmp, current, wal, pins, memory, after, work,
                 inflight, base, counters>>

\* write_compaction_output
WriteMerged ==
  /\ pc = "compact"
  /\ tmp' = tmp \cup {"dat", "idx"}
  /\ work' = [work EXCEPT !.chunk = MergeRuns(dat, work.inputs)]
  /\ pc' = "merged_dat"
  /\ UNCHANGED <<runFiles, current, wal, pins, memory, after, inflight, base, counters>>

\* publish_compaction_result replaces whatever file is there.
PublishMergedData ==
  /\ pc = "merged_dat"
  /\ dat' = [dat EXCEPT ![NextGeneration] = work.chunk]
  /\ tmp' = tmp \ {"dat"}
  /\ pc' = "merged_idx"
  /\ UNCHANGED <<idx, current, wal, pins, memory, after, work, inflight, base, counters>>

PublishMergedIndex ==
  /\ pc = "merged_idx"
  /\ idx' = [idx EXCEPT ![NextGeneration] = DOMAIN work.chunk]
  /\ tmp' = tmp \ {"idx"}
  /\ pc' = "merged_manifest"
  /\ UNCHANGED <<dat, current, wal, pins, memory, after, work, inflight, base, counters>>

\* Mutant: the generation does not advance.
MergedManifestSameGeneration ==
  [generation |-> store.generation, batch |-> store.batch,
   runs |-> Over([g \in {NextGeneration} |-> work.chunk],
                 Without(store.runs, work.inputs))]

MergedManifest ==
  [generation |-> NextGeneration, batch |-> store.batch,
   runs |-> Over([g \in {NextGeneration} |-> work.chunk],
                 Without(store.runs, work.inputs))]

WriteMergedManifest == WriteManifest("merged_manifest", "rename_merged")
PublishMerged == RenameManifest("rename_merged", "remove_inputs", MergedManifest)

\* Mutant: pinned inputs are removed too.
RemovableAll == IF work.retain THEN {} ELSE work.inputs

\* Input runs that no checkpoint pins are removed, file by file.
Removable == IF work.retain THEN {} ELSE work.inputs \ DOMAIN pin

RemoveInput ==
  /\ pc = "remove_inputs"
  /\ \E g \in Removable :
       \/ dat' = [dat EXCEPT ![g] = NoRecords] /\ dat[g] # NoRecords /\ UNCHANGED idx
       \/ idx' = [idx EXCEPT ![g] = {}] /\ idx[g] # {} /\ UNCHANGED dat
  /\ UNCHANGED <<tmp, current, wal, pins, memory, pc, after, work, inflight,
                 base, counters>>

\* Mutant: generation_ is not assigned.
RememberMergedRunsOnly ==
  /\ pc = "remove_inputs"
  /\ \A g \in Removable : dat[g] = NoRecords /\ idx[g] = {}
  /\ store' = [MergedManifest EXCEPT !.generation = store.generation]
  /\ pc' = after
  /\ work' = Idle
  /\ UNCHANGED <<runFiles, tmp, current, wal, pins, cache, after, inflight, base,
                 counters>>

\* The merged run takes the place of its inputs in memory.
RememberMerged ==
  /\ pc = "remove_inputs"
  /\ \A g \in Removable : dat[g] = NoRecords /\ idx[g] = {}
  /\ store' = MergedManifest
  /\ pc' = after
  /\ work' = Idle
  /\ UNCHANGED <<runFiles, tmp, current, wal, pins, cache, after, inflight, base,
                 counters>>

-----------------------------------------------------------------------------
(* Checkpoints, as far as they concern one component                       *)

\* save_multiway_external_checkpoint_manifest pins the runs of the last
\* checkpoint and of the new one, unless two have the same generation ...
PinBoth ==
  /\ Checkpoints
  /\ pc = "ready"
  /\ current.generation # 0
  /\ \A g \in DOMAIN pin \cap DOMAIN current.runs : pin[g] = current.runs[g]
  /\ pin' = Over(pin, current.runs)
  /\ pc' = "save"
  /\ UNCHANGED <<runFiles, tmp, current, wal, checkpoint, memory, after, work,
                 inflight, base, counters>>

\* ... publishes the checkpoint file ...
PublishCheckpoint ==
  /\ pc = "save"
  /\ checkpoint' = current
  /\ pc' = "narrow"
  /\ UNCHANGED <<runFiles, tmp, current, wal, pin, memory, after, work, inflight,
                 base, counters>>

\* ... (or fails to) ...
SaveFails ==
  /\ pc = "save"
  /\ saveCrashes < MaxSaveCrashes
  /\ saveCrashes' = saveCrashes + 1
  /\ pc' = "ready"
  /\ UNCHANGED <<runFiles, tmp, current, wal, pins, memory, after, work,
                 inflight, base, appends, crashes, unlinkFailures>>

\* ... and pins what it refers to.
NarrowPins ==
  /\ pc = "narrow"
  /\ pin' = current.runs
  /\ pc' = "ready"
  /\ UNCHANGED <<runFiles, tmp, current, wal, checkpoint, memory, after, work,
                 inflight, base, counters>>

\* The checkpoint file is deleted by its owner, and then its pins.
DeleteCheckpoint ==
  /\ checkpoint.generation # 0
  /\ pc \in {"ready", "closed"}
  /\ checkpoint' = EmptyManifest
  /\ UNCHANGED <<runFiles, tmp, current, wal, pin, memory, pc, after, work,
                 inflight, base, counters>>

ReleasePins ==
  /\ pc \in {"ready", "closed"}
  /\ checkpoint.generation = 0
  /\ DOMAIN pin # {}
  /\ pin' = [g \in {} |-> NoRecords]
  /\ UNCHANGED <<runFiles, tmp, current, wal, checkpoint, memory, pc, after, work,
                 inflight, base, counters>>

\* restore_multiway_external_checkpoint, at a batch boundary and before the
\* component is opened: the runs must be pinned and intact.
Restore ==
  /\ pc = "closed"
  /\ inflight = 0
  /\ checkpoint.generation # 0
  /\ \A g \in DOMAIN checkpoint.runs : g \in DOMAIN pin /\ pin[g] = checkpoint.runs[g]
  /\ Readable(checkpoint)
  /\ current' = checkpoint
  /\ UNCHANGED <<runFiles, tmp, wal, pins, memory, pc, after, work, inflight,
                 base, counters>>

-----------------------------------------------------------------------------
(* Closing, exceptions and crashes                                         *)

NoMemory ==
  /\ pc' = "closed"
  /\ store' = EmptyManifest
  /\ cache' = [s \in Slots |-> NoRecords]
  /\ after' = "closed"
  /\ work' = Idle
  /\ base' = 0

Close ==
  /\ pc \in {"ready", "failed"}
  /\ NoMemory
  /\ UNCHANGED <<runFiles, tmp, current, wal, pins, inflight, counters>>

Saving == pc \in {"save", "narrow"}

\* The process ends.
Crash ==
  /\ pc # "closed"
  /\ IF Saving
       THEN /\ saveCrashes < MaxSaveCrashes
            /\ saveCrashes' = saveCrashes + 1
            /\ UNCHANGED crashes
       ELSE /\ crashes < MaxCrashes
            /\ crashes' = crashes + 1
            /\ UNCHANGED saveCrashes
  /\ NoMemory
  /\ UNCHANGED <<runFiles, tmp, current, wal, pins, inflight, appends, unlinkFailures>>

\* An exception inside publish_append_batch_chunk or a compaction latches
\* failed_; an append removes the temporaries of its run.
Throws ==
  /\ pc \in {"wal", "segment", "publish_dat", "publish_idx", "manifest",
             "rename_manifest", "remember", "compact", "merged_dat", "merged_idx",
             "merged_manifest", "rename_merged", "remove_inputs"}
  /\ crashes < MaxCrashes
  /\ crashes' = crashes + 1
  /\ tmp' = IF work.inputs = {} THEN tmp \ {"dat", "idx"} ELSE tmp
  /\ pc' = "failed"
  /\ UNCHANGED <<runFiles, current, wal, pins, memory, after, work, inflight,
                 base, appends, saveCrashes, unlinkFailures>>

-----------------------------------------------------------------------------
Init ==
  /\ dat = [g \in Generations |-> NoRecords]
  /\ idx = [g \in Generations |-> {}]
  /\ tmp = {}
  /\ current = EmptyManifest
  /\ wal = NoWal
  /\ pin = [g \in {} |-> NoRecords]
  /\ checkpoint = EmptyManifest
  /\ store = EmptyManifest
  /\ cache = [s \in Slots |-> NoRecords]
  /\ pc = "closed"
  /\ after = "closed"
  /\ work = Idle
  /\ inflight = 0
  /\ base = 0
  /\ appends = 0
  /\ crashes = 0
  /\ saveCrashes = 0
  /\ unlinkFailures = 0

\* Steps that finish what was started.
Continue ==
  \/ RemoveOrphan \/ CleanupDone
  \/ RecoverNothing \/ DropCommittedWal \/ DiscardWal \/ RedoWal
  \/ UnlinkData \/ UnlinkIndex \/ Discarded \/ Redo
  \/ StartChunk \/ WalExists \/ CompleteWal \/ WriteSegment \/ GenerationExists
  \/ PublishData \/ PublishIndex \/ WriteAppendManifest \/ PublishAppend
  \/ Remember \/ UnlinkWal
  \/ CompactSuffix \/ CompactRetained \/ CompactBatchDone
  \/ WriteMerged \/ PublishMergedData \/ PublishMergedIndex
  \/ WriteMergedManifest \/ PublishMerged \/ RemoveInput \/ RememberMerged
  \/ PublishCheckpoint \/ NarrowPins

\* Steps that users of the component choose to take.
Request ==
  \/ \E k \in Keys : LookupKey(k)
  \/ \E b \in Batches, S \in SUBSET Keys : AppendBatch(b, S)
  \/ \E retain \in BOOLEAN : Compact(retain)
  \/ ReclaimOrphans \/ CompactBatchRuns
  \/ PinBoth \/ DeleteCheckpoint \/ ReleasePins \/ Restore

Interruption ==
  Crash \/ Throws \/ AppendRefused \/ UnlinkWalFails \/ SaveFails

Next == Open \/ Close \/ Continue \/ Request \/ Interruption

Spec == Init /\ [][Next]_vars

\* A process that runs finishes what it started, and one that is down or
\* failed is started again.
Fairness ==
  /\ WF_vars(Continue)
  /\ WF_vars(Open)
  /\ WF_vars(pc = "failed" /\ Close)

FairSpec == Spec /\ Fairness

-----------------------------------------------------------------------------
(* Properties                                                              *)

Runs == UNION {[G -> Contents \ {NoRecords}] : G \in SUBSET Generations}
Manifests == [generation : 0..MaxGeneration, batch : Batches, runs : Runs]

\* The state has its types and a manifest lists no run beyond its
\* generation ("external storage generation regressed").
TypeOK ==
  /\ dat \in [Generations -> Contents]
  /\ idx \in [Generations -> SUBSET Keys]
  /\ tmp \subseteq {"dat", "idx", "CURRENT"}
  /\ \A m \in {current, store, checkpoint} :
       /\ m.generation \in 0..MaxGeneration
       /\ m.batch \in Batches
       /\ DOMAIN m.runs \subseteq 1..m.generation
       /\ \A g \in DOMAIN m.runs : m.runs[g] \in Contents \ {NoRecords}
  /\ wal.state \in {"none", "torn", "complete"}
  /\ wal.batch \in Batches
  /\ wal.records \in Contents
  /\ DOMAIN pin \subseteq Generations
  /\ \A s \in Slots : cache[s] \in Contents /\ Cardinality(DOMAIN cache[s]) <= 1
  /\ inflight \in 0..appends
  /\ base \in 0..MaxGeneration
  /\ appends \in 0..MaxAppends

\* Whenever the process dies, the runs that CURRENT lists are on disk,
\* complete: load_manifest never rejects what the store left behind.
ManifestReadable == Readable(current)

\* Until its owner deletes it, a checkpoint refers to runs that are pinned
\* and intact, whatever compactions, clean-ups and recoveries do meanwhile.
CheckpointIntact ==
  checkpoint.generation # 0 =>
    /\ Readable(checkpoint)
    /\ \A g \in DOMAIN checkpoint.runs : g \in DOMAIN pin /\ pin[g] = checkpoint.runs[g]

\* lookup answers from the cache what it would read from the runs.
CacheCoherent ==
  \A s \in Slots : \A k \in DOMAIN cache[s] : cache[s][k] = Lookup(store, k)

\* A store that accepts operations has in memory what is on disk.
MemoryMatchesDisk == pc = "ready" => store = current

\* ... and the next append finds no file in the way of its run.
NextRunFree ==
  pc = "ready" /\ store.generation < MaxGeneration => ~NextRunExists

\* The map, as a reader finds it in the manifest m.
MapOf(m) == [k \in Keys |-> Lookup(m, k)]

\* The component is a RecordMap: appends take effect a chunk at a time and
\* once, and nothing else but a restore changes what is stored.
Map == INSTANCE RecordMap WITH
  contents <- MapOf(current),
  saved <- IF checkpoint.generation = 0 THEN << >> ELSE <<MapOf(checkpoint)>>,
  inflight <- inflight,
  issued <- appends

RefinesRecordMap == Map!Spec

\* With no append under way, what is stored changes to what the checkpoint
\* holds or not at all: opening a restored store does not alter it.
ContentsKept ==
  [][inflight = 0 => MapOf(current)' \in {MapOf(current), MapOf(checkpoint)}]_vars

\* Payload v of key k, or a newer one, is in the manifest ...
Stored(k, v) == Lookup(current, k) >= v
\* ... or in the complete journal of a batch that CURRENT does not have yet ...
Journaled(k, v) ==
  /\ wal.state = "complete"
  /\ wal.batch > current.batch
  /\ k \in DOMAIN wal.records
  /\ wal.records[k] = v
\* ... or in the memory of the process that opens the store and redoes it.
InRedo(k, v) ==
  /\ pc \notin {"closed", "failed"}
  /\ after = "closed"
  /\ \/ k \in DOMAIN work.rest /\ work.rest[k] = v
     \/ k \in DOMAIN work.chunk /\ work.chunk[k] = v
Durable(k, v) == Stored(k, v) \/ Journaled(k, v) \/ InRedo(k, v)

\* Once the journal of a batch is complete, its records are stored before long,
\* whatever crashes, refusals and clean-ups come between, unless the redo itself is
\* stopped: recover_wal has then removed the journal, and until each chunk has a
\* complete one again the records are in memory alone.  (The journal of a later chunk
\* of a batch promises nothing: with its batch in CURRENT, it is taken for committed.)
DurableBatchReplayed ==
  /\ \A k \in Keys, v \in Payloads : Durable(k, v) ~> (Stored(k, v) \/ ~Durable(k, v))
  /\ [][\A k \in Keys, v \in Payloads :
          Durable(k, v) /\ ~Durable(k, v)'
            => InRedo(k, v) /\ ~Journaled(k, v) /\ pc' \in {"closed", "failed"}]_vars
=============================================================================
