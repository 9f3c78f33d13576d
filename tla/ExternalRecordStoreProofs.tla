---------------------- MODULE ExternalRecordStoreProofs ----------------------
(***************************************************************************)
(* Theorems about ExternalRecordStore, for every number of keys, cache     *)
(* slots, generations, appends, crashes and failures.                      *)
(***************************************************************************)
EXTENDS ExternalRecordStore, TLAPS, FiniteSetTheorems, WellFoundedInduction

(***************************************************************************)
(* The inductive invariant.                                                *)
(***************************************************************************)

\* Steps of an append before and after its manifest is published, and of a
\* compaction.
WritingRun == {"wal", "segment", "publish_dat", "publish_idx", "manifest", "rename_manifest"}
Appending == WritingRun \cup {"append", "remember", "unlink_wal"}
Merging == {"compact", "merged_dat", "merged_idx", "merged_manifest", "rename_merged",
            "remove_inputs"}
Recovering == {"recover", "unlink_dat", "unlink_idx", "discarded", "redo"}

\* The component is not open yet, or redoes its journal to become open.
Opening ==
  \/ pc = "closed"
  \/ pc = "cleanup" /\ after = "recover"
  \/ pc \in Recovering
  \/ pc \in Appending /\ after = "closed"

\* The steps between which the component has no append under way.
AtRest ==
  \/ pc \in {"ready", "compact_batch", "save", "narrow"} \cup Merging
  \/ pc = "cleanup" /\ after \in {"ready", "compact"}

Works == [batch : Batches, rest : Contents, chunk : Contents,
          inputs : SUBSET Generations, retain : BOOLEAN]
Journals == [state : {"none", "torn", "complete"}, batch : Batches, records : Contents]

StepTypes ==
  /\ pc \in {"closed", "cleanup", "ready", "compact_batch", "save", "narrow", "failed"}
            \cup Recovering \cup Appending \cup Merging
  /\ pc = "cleanup" => after \in {"recover", "ready", "compact"}
  /\ pc \in {"unlink_dat", "unlink_idx"} => after \in {"discarded", "redo"}
  /\ pc \in Appending => after \in {"ready", "closed"}
  /\ pc \in Merging => after \in {"ready", "compact_batch"}
  /\ work \in Works /\ wal \in Journals
  /\ saveCrashes \in Nat /\ unlinkFailures \in Nat

\* The runs in memory are those of CURRENT, but for the step in which an
\* append or a compaction has published its manifest.
MemoryFollows ==
  /\ pc \notin {"closed", "failed", "remember", "remove_inputs"} => store = current
  /\ pc = "remember" => current = AppendedManifest
  /\ pc = "remove_inputs" => current = MergedManifest

\* The new run of an append or of a compaction.
RunWritten ==
  /\ pc \in WritingRun \cup {"remember"} => work.chunk # NoRecords
  /\ pc \in {"publish_idx", "manifest", "rename_manifest",
             "merged_idx", "merged_manifest", "rename_merged"} => dat[NextGeneration] = work.chunk
  /\ pc \in {"manifest", "rename_manifest", "merged_manifest", "rename_merged"} =>
       idx[NextGeneration] = DOMAIN work.chunk

\* A compaction takes the newest runs and writes what they hold.
NewestIn(G, R) == G \subseteq R /\ G # {} /\ \A g \in G, h \in R \ G : g > h

RunsMerged ==
  /\ pc \in Merging \/ (pc = "cleanup" /\ after = "compact") =>
       NewestIn(work.inputs, DOMAIN store.runs)
  /\ pc \in Merging \ {"compact"} => work.chunk = MergeRuns(store.runs, work.inputs)

\* Every append and every compaction that is begun has its generations left.
Room ==
  /\ pc \in {"append", "unlink_wal"} =>
       store.generation + Cardinality(DOMAIN work.rest) <= MaxGeneration
  /\ pc \in WritingRun \cup {"remember"} =>
       store.generation + 1 + Cardinality(DOMAIN work.rest) <= MaxGeneration
  /\ pc \in Merging \/ (pc = "cleanup" /\ after = "compact") => store.generation < MaxGeneration
  /\ pc = "compact_batch" =>
       /\ store.generation < MaxGeneration
       /\ store.generation + Cardinality(Suffix) <= MaxGeneration
  /\ pc \in Merging /\ after = "compact_batch" =>
       /\ work.inputs \subseteq Suffix /\ Cardinality(work.inputs) > 1
       /\ store.generation + Cardinality(Suffix) <= MaxGeneration

\* The checkpoint is never ahead of CURRENT, and a save pins before it
\* publishes.
Pinned ==
  /\ checkpoint.generation <= current.generation
  /\ pc \in {"save", "narrow"} =>
       /\ Checkpoints /\ current.generation # 0
       /\ \A g \in DOMAIN current.runs : g \in DOMAIN pin /\ pin[g] = current.runs[g]
  /\ pc = "narrow" => checkpoint = current

\* Nothing is cached before the component is open.
CacheFilled == Opening => \A s \in Slots : cache[s] = NoRecords

\* BATCH.wal belongs to the chunk that is written, or to a batch that CURRENT
\* already has; a journal to be redone finds its generation free.
WalFits(m) ==
  wal.state # "none" /\ wal.batch > m.batch =>
    m.generation + Cardinality(DOMAIN wal.records) <= MaxGeneration

Discarding == pc = "discarded" \/ (pc \in {"unlink_dat", "unlink_idx"} /\ after = "discarded")
Redoing == pc = "redo" \/ (pc \in {"unlink_dat", "unlink_idx"} /\ after = "redo")

Journal ==
  /\ pc \in WritingRun \cup {"remember", "unlink_wal"} =>
       wal.state # "none" /\ wal.batch = work.batch
  /\ AtRest \/ pc \in {"append", "unlink_wal"} =>
       wal.state = "none" \/ wal.batch <= current.batch
  /\ Discarding => wal.state = "none"
  /\ Redoing => wal.state = "complete" /\ wal.batch > store.batch
  /\ WalFits(current)
  /\ checkpoint.generation # 0 => WalFits(checkpoint)

IndInv ==
  /\ TypeOK /\ StepTypes
  /\ MemoryFollows /\ RunWritten /\ RunsMerged /\ Room /\ Pinned /\ Journal
  /\ ManifestReadable /\ CheckpointIntact
  /\ CacheCoherent /\ CacheFilled

\* Files of runs beyond the generation in memory.
Beyond == {g \in Generations : g > store.generation /\ (dat[g] # NoRecords \/ idx[g] # {})}

\* The steps at which no file of the next run is written.
Settled ==
  \/ pc \in {"ready", "compact_batch", "save", "narrow", "append", "wal", "segment",
             "publish_dat", "unlink_wal", "compact", "merged_dat"} \cup Recovering
  \/ pc = "cleanup" /\ after # "recover"

\* A component that does not lose a save half-way pins nothing beyond the
\* checkpoint, so it has no file beyond its generation but those it writes.
NoneBeyond ==
  /\ DOMAIN pin \subseteq 1 .. current.generation
  /\ checkpoint.generation # 0 /\ pc \notin {"save", "narrow"} =>
       DOMAIN pin \subseteq 1 .. checkpoint.generation
  /\ pc \in {"publish_idx", "manifest", "rename_manifest", "remember",
             "merged_idx", "merged_manifest", "rename_merged", "remove_inputs"} =>
       Beyond \subseteq {NextGeneration}
  /\ Settled => Beyond = {}

\* The journal holds records of the append in flight that the map does not.
WalPending == wal.state # "none" /\ wal.batch > current.batch

\* What the journal or an append may still bring into the map is what the
\* append in flight issued.
InFlight ==
  /\ AtRest => inflight = 0
  /\ pc \in Appending =>
       inflight # 0 /\ \A k \in DOMAIN work.rest : work.rest[k] = inflight
  /\ pc \in WritingRun \cup {"remember"} => \A k \in DOMAIN work.chunk : work.chunk[k] = inflight
  /\ WalPending => inflight # 0 /\ \A k \in DOMAIN wal.records : wal.records[k] = inflight
  /\ MaxUnlinkFailures = 0 /\ wal.state # "none" => inflight # 0 /\ pc # "append"
  /\ ~Checkpoints => checkpoint.generation = 0

(***************************************************************************)
(* Records: partial functions from keys to payloads.                       *)
(***************************************************************************)

\* A content is a function from some keys to payloads.
LEMMA ContentsDef ==
  \A f : f \in Contents <=> DOMAIN f \subseteq Keys /\ f \in [DOMAIN f -> Payloads]
PROOF
<1>1. ASSUME NEW f, f \in Contents
      PROVE  DOMAIN f \subseteq Keys /\ f \in [DOMAIN f -> Payloads]
  <2>1. PICK S \in SUBSET Keys : f \in [S -> Payloads]
    BY <1>1 DEF Contents
  <2> QED BY <2>1
<1>2. ASSUME NEW f, DOMAIN f \subseteq Keys, f \in [DOMAIN f -> Payloads]
      PROVE  f \in Contents
  BY <1>2 DEF Contents
<1> QED BY <1>1, <1>2

\* There is one content without a key.
LEMMA EmptyContents ==
  /\ NoRecords \in Contents
  /\ DOMAIN NoRecords = {}
  /\ \A f \in Contents : DOMAIN f = {} => f = NoRecords
PROOF
<1>1. DOMAIN NoRecords = {} /\ NoRecords \in [{} -> Payloads]
  BY DEF NoRecords
<1>2. NoRecords \in Contents
  BY <1>1, ContentsDef
<1>3. ASSUME NEW f \in Contents, DOMAIN f = {}
      PROVE  f = NoRecords
  <2>1. f \in [{} -> Payloads]
    BY <1>3, ContentsDef
  <2> QED BY <2>1 DEF NoRecords
<1> QED BY <1>1, <1>2, <1>3

\* A content has finitely many keys, and a part of it is a content.
LEMMA PartOfContents ==
  ASSUME NEW f \in Contents, NEW S \in SUBSET DOMAIN f
  PROVE  /\ Restrict(f, S) \in Contents
         /\ DOMAIN Restrict(f, S) = S
         /\ \A k \in S : Restrict(f, S)[k] = f[k]
         /\ IsFiniteSet(DOMAIN f)
         /\ Cardinality(S) \in Nat /\ Cardinality(DOMAIN f) \in Nat
         /\ Cardinality(S) <= Cardinality(DOMAIN f)
PROOF
<1>1. DOMAIN f \subseteq Keys /\ f \in [DOMAIN f -> Payloads]
  BY ContentsDef
<1>2. /\ DOMAIN Restrict(f, S) = S
      /\ \A k \in S : Restrict(f, S)[k] = f[k]
      /\ Restrict(f, S) \in [S -> Payloads]
  BY <1>1 DEF Restrict
<1>3. Restrict(f, S) \in Contents
  BY <1>1, <1>2, ContentsDef
<1>4. IsFiniteSet(Keys)
  BY RecordStoreAssumption, FS_Interval DEF Keys
<1>5. IsFiniteSet(DOMAIN f)
  BY <1>1, <1>4, FS_Subset
<1>6. IsFiniteSet(S) /\ Cardinality(S) <= Cardinality(DOMAIN f)
  BY <1>5, FS_Subset
<1> QED BY <1>2, <1>3, <1>5, <1>6, FS_CardinalityType

\* A chunk and what it leaves behind.
LEMMA ChunkOfContents ==
  ASSUME NEW f \in Contents, NEW S \in SUBSET DOMAIN f, S # {}
  PROVE  /\ Restrict(f, S) # NoRecords
         /\ DOMAIN Without(f, S) = DOMAIN f \ S
         /\ \A k \in DOMAIN f \ S : Without(f, S)[k] = f[k]
         /\ Without(f, S) \in Contents
         /\ Cardinality(DOMAIN Without(f, S)) \in Nat
         /\ Cardinality(DOMAIN f) \in Nat
         /\ Cardinality(DOMAIN Without(f, S)) + 1 <= Cardinality(DOMAIN f)
PROOF
<1>1. Restrict(f, S) # NoRecords
  BY PartOfContents, EmptyContents
<1>2. /\ Without(f, S) = Restrict(f, DOMAIN f \ S)
      /\ DOMAIN f \ S \in SUBSET DOMAIN f
  BY DEF Without
<1>3. /\ Without(f, S) \in Contents /\ DOMAIN Without(f, S) = DOMAIN f \ S
      /\ \A k \in DOMAIN f \ S : Without(f, S)[k] = f[k]
      /\ IsFiniteSet(DOMAIN f)
      /\ Cardinality(DOMAIN Without(f, S)) \in Nat /\ Cardinality(DOMAIN f) \in Nat
      /\ Cardinality(DOMAIN Without(f, S)) <= Cardinality(DOMAIN f)
  BY <1>2, PartOfContents
<1>4. Cardinality(DOMAIN Without(f, S)) # Cardinality(DOMAIN f)
  BY <1>2, <1>3, FS_Subset
<1> QED BY <1>1, <1>3, <1>4

\* Dropping any keys from a content leaves a content.
LEMMA WithoutContents ==
  ASSUME NEW f \in Contents, NEW S
  PROVE  /\ Without(f, S) \in Contents
         /\ DOMAIN Without(f, S) = DOMAIN f \ S
         /\ \A k \in DOMAIN f \ S : Without(f, S)[k] = f[k]
PROOF
<1>1. Without(f, S) = Restrict(f, DOMAIN f \ S) /\ DOMAIN f \ S \in SUBSET DOMAIN f
  BY DEF Without
<1> QED BY <1>1, PartOfContents

(***************************************************************************)
(* The newest of some generations.                                         *)
(***************************************************************************)

\* Every non-empty set of naturals has a least element.
LEMMA NatMin ==
  ASSUME NEW T, T \subseteq Nat, T # {}
  PROVE  \E x \in T : \A y \in T : x <= y
PROOF
<1> DEFINE R == {ss \in Nat \X Nat : ss[1] < ss[2]}
<1>1. IsWellFoundedOn(R, Nat)
  BY NatLessThanWellFounded DEF OpToRel
<1>2. \A x, y \in Nat : y < x => <<y, x>> \in R
  OBVIOUS
<1> HIDE DEF R
<1>3. \E x \in T : \A y \in T : ~ (<<y, x>> \in R)
  BY <1>1, WFMin, Zenon
<1>4. PICK x \in T : \A y \in T : ~ (<<y, x>> \in R)
  BY <1>3
<1>5. ASSUME NEW y \in T PROVE x <= y
  <2>1. x \in Nat /\ y \in Nat
    OBVIOUS
  <2>2. ~ (y < x)
    BY <1>2, <1>4, <2>1, Zenon
  <2> QED BY <2>1, <2>2
<1> QED BY <1>5

\* Every non-empty set of naturals up to n has a maximum, and Max is it.
LEMMA NatMax ==
  ASSUME NEW n \in Nat, NEW T, T \subseteq 0 .. n, T # {}
  PROVE  Max(T) \in T /\ \A y \in T : y <= Max(T)
PROOF
<1> DEFINE D == {x \in 0 .. n : n - x \in T}
<1>1. D # {}
  <2>1. PICK t \in T : TRUE
    OBVIOUS
  <2>2. n - t \in D
    BY <2>1
  <2> QED BY <2>2
<1>2. PICK x \in D : \A y \in D : x <= y
  <2>1. D \subseteq Nat
    OBVIOUS
  <2> HIDE DEF D
  <2> QED BY <1>1, <2>1, NatMin
<1>3. n - x \in T /\ \A y \in T : n - x >= y
  <2>1. \A y \in T : n - y \in D
    OBVIOUS
  <2> QED BY <1>2, <2>1
<1>4. Max(T) \in T /\ \A y \in T : Max(T) >= y
  BY <1>3 DEF Max
<1> QED BY <1>4

\* Max is the only element with no greater one.
LEMMA MaxIs ==
  ASSUME NEW T, T \subseteq Nat, NEW x \in T, \A y \in T : y <= x
  PROVE  Max(T) = x
PROOF
<1>1. \E m \in T : \A y \in T : m >= y
  OBVIOUS
<1>2. Max(T) \in T /\ \A y \in T : Max(T) >= y
  BY <1>1 DEF Max
<1>3. Max(T) >= x /\ Max(T) <= x /\ Max(T) \in Nat /\ x \in Nat
  BY <1>2
<1> QED BY <1>3

\* Of any n generations, and of any k <= n, there are the k newest.
LEMMA NewestExist ==
  ASSUME NEW n \in Nat, NEW R \in SUBSET (1 .. n), NEW k \in 0 .. Cardinality(R)
  PROVE  \E G \in kSubset(k, R) : \A g \in G, h \in R \ G : g > h
PROOF
<1> DEFINE Top(G) == G \subseteq R /\ \A g \in G, h \in R \ G : g > h
           Missing == {m \in 0 .. Cardinality(R) :
                         ~ \E G : Top(G) /\ Cardinality(G) = m}
<1>0. R \subseteq 0 .. n
  OBVIOUS
<1>1. IsFiniteSet(R) /\ Cardinality(R) \in Nat
  <2>1. IsFiniteSet(1 .. n)
    BY FS_Interval
  <2> QED BY <2>1, FS_Subset, FS_CardinalityType
<1>2. Missing = {}
  <2> SUFFICES ASSUME Missing # {} PROVE FALSE
    OBVIOUS
  <2>1. PICK m \in Missing : \A y \in Missing : m <= y
    <3>1. Missing \subseteq Nat
      BY <1>1
    <3> HIDE DEF Missing
    <3> QED BY <3>1, NatMin
  <2>2. m \in Nat /\ m <= Cardinality(R) /\ m # 0
    <3>1. Top({}) /\ Cardinality({}) = 0
      BY FS_EmptySet
    <3> QED BY <1>1, <3>1
  <2>3. m - 1 \notin Missing /\ m - 1 \in 0 .. Cardinality(R)
    <3> HIDE DEF Missing
    <3> QED BY <1>1, <2>1, <2>2
  <2>4. PICK G : Top(G) /\ Cardinality(G) = m - 1
    BY <2>3
  <2>5. IsFiniteSet(G) /\ G \in SUBSET R
    BY <1>1, <2>4, FS_Subset
  <2>6. R \ G # {}
    <3> SUFFICES ASSUME R \ G = {} PROVE FALSE
      OBVIOUS
    <3>1. R = G
      BY <2>5
    <3> QED BY <1>1, <2>2, <2>4, <3>1
  <2> DEFINE x == Max(R \ G)
  <2>7. x \in R \ G /\ \A y \in R \ G : y <= x
    <3>1. R \ G \subseteq 0 .. n
      BY <1>0
    <3> QED BY <2>6, <3>1, NatMax
  <2>8. Top(G \cup {x})
    <3> HIDE DEF x
    <3>1. G \cup {x} \subseteq R
      BY <2>5, <2>7
    <3>2. ASSUME NEW g \in G \cup {x}, NEW h \in R \ (G \cup {x})
          PROVE  g > h
      <4>1. h \in R \ G /\ h # x /\ h <= x
        BY <2>7
      <4>2. g \in Nat /\ h \in Nat /\ x \in Nat
        BY <2>5, <2>7
      <4>3. CASE g \in G
        BY <2>4, <4>1, <4>3
      <4>4. CASE g = x
        BY <4>1, <4>2, <4>4
      <4> QED BY <4>3, <4>4
    <3> QED BY <3>1, <3>2
  <2>9. Cardinality(G \cup {x}) = m
    <3> HIDE DEF x, Top
    <3>1. x \notin G
      BY <2>7
    <3>2. Cardinality(G \cup {x}) = Cardinality(G) + 1
      BY <2>5, <3>1, FS_AddElement
    <3>3. (m - 1) + 1 = m
      BY <2>2
    <3> QED BY <2>4, <3>2, <3>3
  <2> QED BY <2>8, <2>9
<1>3. PICK G : Top(G) /\ Cardinality(G) = k
  BY <1>2
<1>4. G \in kSubset(k, R)
  BY <1>3 DEF kSubset
<1> QED BY <1>3, <1>4

(***************************************************************************)
(* Manifests, and what a reader finds in them.                             *)
(***************************************************************************)

ManifestOK(m) ==
  /\ m.generation \in 0..MaxGeneration
  /\ m.batch \in Batches
  /\ DOMAIN m.runs \subseteq 1..m.generation
  /\ \A g \in DOMAIN m.runs : m.runs[g] \in Contents \ {NoRecords}

\* The manifests of the state.
LEMMA TypesOfManifests ==
  ASSUME TypeOK
  PROVE  ManifestOK(current) /\ ManifestOK(store) /\ ManifestOK(checkpoint)
PROOF
  BY DEF TypeOK, ManifestOK

\* A store without runs.
LEMMA EmptyManifestOK == ManifestOK(EmptyManifest) /\ EmptyManifest.runs = NoRecords
PROOF
  BY RecordStoreAssumption DEF ManifestOK, EmptyManifest, Batches, NoRecords

\* The runs that hold a key have a newest one, and Lookup reads it.
LEMMA LookupType ==
  ASSUME NEW m, ManifestOK(m), NEW k
  PROVE  LET holders == {g \in DOMAIN m.runs : k \in DOMAIN m.runs[g]}
         IN  /\ holders = {} => Lookup(m, k) = 0
             /\ holders # {} =>
                  /\ Max(holders) \in holders
                  /\ \A g \in holders : g <= Max(holders)
                  /\ Lookup(m, k) = m.runs[Max(holders)][k]
                  /\ Lookup(m, k) \in Payloads
                  /\ k \in Keys
PROOF
<1> DEFINE holders == {g \in DOMAIN m.runs : k \in DOMAIN m.runs[g]}
<1>1. CASE holders = {}
  BY <1>1 DEF Lookup
<1>2. CASE holders # {}
  <2>1. m.generation \in Nat /\ holders \subseteq 0 .. m.generation
    BY RecordStoreAssumption DEF ManifestOK
  <2>2. Max(holders) \in holders /\ \A g \in holders : g <= Max(holders)
    <3> HIDE DEF holders
    <3> QED BY <1>2, <2>1, NatMax
  <2>3. Lookup(m, k) = m.runs[Max(holders)][k]
    BY <1>2 DEF Lookup
  <2>4. m.runs[Max(holders)] \in Contents /\ k \in DOMAIN m.runs[Max(holders)]
    <3> HIDE DEF holders
    <3>1. Max(holders) \in DOMAIN m.runs /\ k \in DOMAIN m.runs[Max(holders)]
      BY <2>2 DEF holders
    <3> QED BY <3>1 DEF ManifestOK
  <2>5. Lookup(m, k) \in Payloads /\ k \in Keys
    BY <2>3, <2>4, ContentsDef
  <2> QED BY <1>2, <2>2, <2>3, <2>5
<1> QED BY <1>1, <1>2

\* The generation that an append or a compaction writes is above all others.
LEMMA NextGenerationNew ==
  ASSUME ManifestOK(store), store.generation < MaxGeneration
  PROVE  /\ NextGeneration \in Generations
         /\ NextGeneration \notin DOMAIN store.runs
         /\ \A g \in DOMAIN store.runs : g \in Nat /\ g < NextGeneration
PROOF
  BY RecordStoreAssumption DEF ManifestOK, NextGeneration, Generations

\* The manifest of an append lists the new run besides the old ones.
LEMMA AppendedRuns ==
  ASSUME ManifestOK(store), store.generation < MaxGeneration
  PROVE  /\ DOMAIN AppendedManifest.runs = DOMAIN store.runs \cup {NextGeneration}
         /\ AppendedManifest.runs[NextGeneration] = work.chunk
         /\ \A g \in DOMAIN store.runs : AppendedManifest.runs[g] = store.runs[g]
PROOF
<1>1. NextGeneration \notin DOMAIN store.runs
  BY NextGenerationNew
<1>2. AppendedManifest.runs = Over([g \in {NextGeneration} |-> work.chunk], store.runs)
  BY DEF AppendedManifest
<1> QED BY <1>1, <1>2 DEF Over

LEMMA AppendedOK ==
  ASSUME ManifestOK(store), store.generation < MaxGeneration,
         work.batch \in Batches, work.chunk \in Contents \ {NoRecords}
  PROVE  ManifestOK(AppendedManifest)
PROOF
<1>1. AppendedManifest.generation = NextGeneration /\ AppendedManifest.batch = work.batch
  BY DEF AppendedManifest
<1>2. NextGeneration \in 0 .. MaxGeneration
  BY NextGenerationNew DEF Generations
<1>3. DOMAIN AppendedManifest.runs \subseteq 1 .. NextGeneration
  BY AppendedRuns, RecordStoreAssumption DEF NextGeneration, ManifestOK
<1>4. \A g \in DOMAIN AppendedManifest.runs : AppendedManifest.runs[g] \in Contents \ {NoRecords}
  BY AppendedRuns DEF ManifestOK
<1> QED BY <1>1, <1>2, <1>3, <1>4 DEF ManifestOK

\* A reader of it finds the appended records, and the old ones elsewhere.
LEMMA LookupAppended ==
  ASSUME ManifestOK(store), store.generation < MaxGeneration,
         work.batch \in Batches, work.chunk \in Contents \ {NoRecords}, NEW k
  PROVE  Lookup(AppendedManifest, k) =
           IF k \in DOMAIN work.chunk THEN work.chunk[k] ELSE Lookup(store, k)
PROOF
<1> DEFINE old == {g \in DOMAIN store.runs : k \in DOMAIN store.runs[g]}
           new == {g \in DOMAIN AppendedManifest.runs : k \in DOMAIN AppendedManifest.runs[g]}
<1>1. CASE k \in DOMAIN work.chunk
  <2>1. NextGeneration \in new /\ new \subseteq Nat /\ \A g \in new : g <= NextGeneration
    BY <1>1, AppendedRuns, NextGenerationNew DEF Generations
  <2>2. Max(new) = NextGeneration
    <3> HIDE DEF new
    <3> QED BY <2>1, MaxIs
  <2>3. Lookup(AppendedManifest, k) = AppendedManifest.runs[Max(new)][k]
    BY <2>1 DEF Lookup
  <2> QED BY <1>1, <2>2, <2>3, AppendedRuns
<1>2. CASE k \notin DOMAIN work.chunk
  <2>1. new = old
    BY <1>2, AppendedRuns
  <2>2. CASE old = {}
    BY <1>2, <2>1, <2>2 DEF Lookup
  <2>3. CASE old # {}
    <3>1. Max(old) \in old
      BY <2>3, LookupType
    <3>2. Lookup(AppendedManifest, k) = AppendedManifest.runs[Max(old)][k]
      BY <2>1, <2>3 DEF Lookup
    <3>3. Lookup(store, k) = store.runs[Max(old)][k]
      BY <2>3 DEF Lookup
    <3> QED BY <1>2, <3>1, <3>2, <3>3, AppendedRuns
  <2> QED BY <2>2, <2>3
<1> QED BY <1>1, <1>2

\* It depends on those runs alone.
LEMMA MergeRunsOf ==
  ASSUME NEW runs, NEW other, NEW G \in SUBSET Generations, \A g \in G : runs[g] = other[g]
  PROVE  MergeRuns(runs, G) = MergeRuns(other, G)
PROOF
<1> DEFINE H(r, k) == {g \in G : k \in DOMAIN r[g]}
           U(r) == UNION {DOMAIN r[g] : g \in G}
<1>1. U(runs) = U(other)
  OBVIOUS
<1>2. ASSUME NEW k \in U(runs)
      PROVE  runs[Max(H(runs, k))][k] = other[Max(H(other, k))][k]
  <2>1. H(runs, k) = H(other, k)
    OBVIOUS
  <2>2. H(runs, k) # {} /\ H(runs, k) \subseteq 0 .. MaxGeneration
    <3>1. H(runs, k) # {} /\ H(runs, k) \subseteq G
      BY <1>2
    <3>2. G \subseteq 0 .. MaxGeneration
      BY DEF Generations
    <3> QED BY <3>1, <3>2
  <2>3. Max(H(runs, k)) \in H(runs, k)
    <3> HIDE DEF H
    <3> QED BY <2>2, NatMax, RecordStoreAssumption
  <2>4. runs[Max(H(runs, k))] = other[Max(H(runs, k))]
    BY <2>3
  <2> QED BY <2>1, <2>4
<1>3. MergeRuns(runs, G) = [k \in U(runs) |-> runs[Max(H(runs, k))][k]]
  BY DEF MergeRuns, Newest
<1>4. MergeRuns(other, G) = [k \in U(other) |-> other[Max(H(other, k))][k]]
  BY DEF MergeRuns, Newest
<1> HIDE DEF H, U
<1> QED BY <1>1, <1>2, <1>3, <1>4

\* The manifest of a compaction lists the merged run and the inputs no more.
LEMMA MergedRuns ==
  ASSUME ManifestOK(store), store.generation < MaxGeneration,
         NewestIn(work.inputs, DOMAIN store.runs)
  PROVE  /\ work.inputs \subseteq DOMAIN store.runs
         /\ DOMAIN MergedManifest.runs = (DOMAIN store.runs \ work.inputs) \cup {NextGeneration}
         /\ MergedManifest.runs[NextGeneration] = work.chunk
         /\ \A g \in DOMAIN store.runs \ work.inputs : MergedManifest.runs[g] = store.runs[g]
PROOF
<1>1. NextGeneration \notin DOMAIN store.runs
  BY NextGenerationNew
<1>2. MergedManifest.runs = Over([g \in {NextGeneration} |-> work.chunk],
                                 Without(store.runs, work.inputs))
  BY DEF MergedManifest
<1>3. /\ DOMAIN Without(store.runs, work.inputs) = DOMAIN store.runs \ work.inputs
      /\ \A g \in DOMAIN store.runs \ work.inputs :
           Without(store.runs, work.inputs)[g] = store.runs[g]
  BY DEF Without, Restrict
<1> QED BY <1>1, <1>2, <1>3 DEF Over, NewestIn

LEMMA MergedOK ==
  ASSUME ManifestOK(store), store.generation < MaxGeneration,
         NewestIn(work.inputs, DOMAIN store.runs), work.chunk \in Contents \ {NoRecords}
  PROVE  ManifestOK(MergedManifest)
PROOF
<1>1. MergedManifest.generation = NextGeneration /\ MergedManifest.batch = store.batch
  BY DEF MergedManifest
<1>2. NextGeneration \in 0 .. MaxGeneration
  BY NextGenerationNew DEF Generations
<1>3. DOMAIN MergedManifest.runs \subseteq 1 .. NextGeneration
  BY MergedRuns, RecordStoreAssumption DEF NextGeneration, ManifestOK
<1>4. \A g \in DOMAIN MergedManifest.runs : MergedManifest.runs[g] \in Contents \ {NoRecords}
  BY MergedRuns DEF ManifestOK
<1> QED BY <1>1, <1>2, <1>3, <1>4 DEF ManifestOK

\* The inputs of a compaction are generations, and their merge is a run: it
\* holds the keys of all of them, each with the payload of the newest run
\* that has it.
LEMMA InputsMerge ==
  ASSUME ManifestOK(store), NewestIn(work.inputs, DOMAIN store.runs),
         NEW M, M = MergeRuns(store.runs, work.inputs)
  PROVE  /\ work.inputs \in SUBSET Generations
         /\ M \in Contents \ {NoRecords}
         /\ DOMAIN M = UNION {DOMAIN store.runs[g] : g \in work.inputs}
         /\ \A k \in DOMAIN M :
              LET holders == {g \in work.inputs : k \in DOMAIN store.runs[g]}
              IN  /\ Max(holders) \in holders
                  /\ \A g \in holders : g <= Max(holders)
                  /\ M[k] = store.runs[Max(holders)][k]
PROOF
<1> DEFINE H(k) == {g \in work.inputs : k \in DOMAIN store.runs[g]}
<1>1. work.inputs \in SUBSET Generations /\ work.inputs # {}
  BY RecordStoreAssumption DEF NewestIn, ManifestOK, Generations
<1>2. \A g \in work.inputs : store.runs[g] \in Contents \ {NoRecords}
  BY DEF NewestIn, ManifestOK
<1>3. DOMAIN M = UNION {DOMAIN store.runs[g] : g \in work.inputs}
  BY DEF MergeRuns
<1>4. ASSUME NEW k \in DOMAIN M
      PROVE  /\ Max(H(k)) \in H(k) /\ \A g \in H(k) : g <= Max(H(k))
             /\ M[k] = store.runs[Max(H(k))][k]
             /\ M[k] \in Payloads /\ k \in Keys
  <2>1. H(k) # {} /\ H(k) \subseteq 0 .. MaxGeneration
    BY <1>1, <1>3 DEF Generations
  <2>2. Max(H(k)) \in H(k) /\ \A g \in H(k) : g <= Max(H(k))
    <3> HIDE DEF H
    <3> QED BY <2>1, NatMax, RecordStoreAssumption
  <2>3. M[k] = store.runs[Max(H(k))][k]
    BY <1>3 DEF MergeRuns, Newest
  <2>4. store.runs[Max(H(k))] \in Contents /\ k \in DOMAIN store.runs[Max(H(k))]
    BY <1>2, <2>2
  <2> QED BY <2>2, <2>3, <2>4, ContentsDef
<1>5. M \in [DOMAIN M -> Payloads] /\ DOMAIN M \subseteq Keys
  <2>1. M = [k \in DOMAIN M |-> M[k]]
    BY DEF MergeRuns
  <2> QED BY <1>4, <2>1
<1>6. M # NoRecords
  <2>1. PICK g \in work.inputs : TRUE
    BY <1>1
  <2>2. DOMAIN store.runs[g] # {}
    BY <1>2, EmptyContents
  <2>3. DOMAIN M # {}
    BY <1>3, <2>2
  <2> QED BY <2>3, EmptyContents
<1>7. M \in Contents \ {NoRecords}
  BY <1>5, <1>6, ContentsDef
<1> QED BY <1>1, <1>3, <1>4, <1>7

\* A reader of the compacted manifest finds what it found before.
LEMMA LookupMerged ==
  ASSUME ManifestOK(store), store.generation < MaxGeneration,
         NewestIn(work.inputs, DOMAIN store.runs),
         work.chunk = MergeRuns(store.runs, work.inputs), NEW k
  PROVE  Lookup(MergedManifest, k) = Lookup(store, k)
PROOF
<1> DEFINE old == {g \in DOMAIN store.runs : k \in DOMAIN store.runs[g]}
           in == {g \in work.inputs : k \in DOMAIN store.runs[g]}
           new == {g \in DOMAIN MergedManifest.runs : k \in DOMAIN MergedManifest.runs[g]}
<1>0. /\ work.inputs # {} /\ work.inputs \subseteq DOMAIN store.runs
      /\ \A g \in work.inputs, h \in DOMAIN store.runs \ work.inputs : g > h
      /\ \A g \in DOMAIN store.runs : g \in Nat
  BY NextGenerationNew DEF NewestIn
<1>2. /\ DOMAIN work.chunk = UNION {DOMAIN store.runs[g] : g \in work.inputs}
      /\ k \in DOMAIN work.chunk =>
           Max(in) \in in /\ (\A g \in in : g <= Max(in)) /\ work.chunk[k] = store.runs[Max(in)][k]
  BY InputsMerge
<1>3. CASE k \in DOMAIN work.chunk
  <2>1. /\ NextGeneration \in new /\ new \subseteq Nat /\ \A g \in new : g <= NextGeneration
    BY <1>3, MergedRuns, NextGenerationNew DEF Generations
  <2>2. Max(new) = NextGeneration
    <3> HIDE DEF new
    <3> QED BY <2>1, MaxIs
  <2>3. Lookup(MergedManifest, k) = work.chunk[k]
    BY <2>1, <2>2, MergedRuns DEF Lookup
  <2>4. Max(in) \in old /\ \A g \in old : g <= Max(in)
    <3>1. Max(in) \in old /\ Max(in) \in work.inputs
      BY <1>0, <1>2, <1>3
    <3>2. ASSUME NEW g \in old PROVE g <= Max(in)
      <4>1. CASE g \in work.inputs
        BY <1>2, <1>3, <4>1
      <4>2. CASE g \notin work.inputs
        <5>1. Max(in) > g /\ Max(in) \in Nat /\ g \in Nat
          BY <1>0, <3>1, <4>2
        <5> QED BY <5>1
      <4> QED BY <4>1, <4>2
    <3> QED BY <3>1, <3>2
  <2>5. Max(old) = Max(in)
    <3>1. old \subseteq Nat
      BY <1>0
    <3> HIDE DEF old, in
    <3> QED BY <2>4, <3>1, MaxIs
  <2>6. Lookup(store, k) = store.runs[Max(in)][k]
    BY <2>4, <2>5 DEF Lookup
  <2> QED BY <1>2, <1>3, <2>3, <2>6
<1>4. CASE k \notin DOMAIN work.chunk
  <2>1. in = {}
    BY <1>2, <1>4
  <2>2. new = old
    BY <1>4, <2>1, MergedRuns
  <2>3. CASE old = {}
    BY <2>2, <2>3 DEF Lookup
  <2>4. CASE old # {}
    <3>1. Max(old) \in old
      BY <2>4, LookupType
    <3>2. Lookup(MergedManifest, k) = MergedManifest.runs[Max(old)][k]
      BY <2>2, <2>4 DEF Lookup
    <3>3. Lookup(store, k) = store.runs[Max(old)][k]
      BY <2>4 DEF Lookup
    <3>4. Max(old) \in DOMAIN store.runs \ work.inputs
      BY <2>1, <3>1
    <3> QED BY <3>2, <3>3, <3>4, MergedRuns
  <2> QED BY <2>3, <2>4
<1> QED BY <1>3, <1>4

\* The runs of the store and of the batch are finitely many.
LEMMA RunsFinite ==
  ASSUME ManifestOK(store)
  PROVE  /\ IsFiniteSet(DOMAIN store.runs) /\ Cardinality(DOMAIN store.runs) \in Nat
         /\ IsFiniteSet(Suffix) /\ Cardinality(Suffix) \in Nat
         /\ Suffix \subseteq DOMAIN store.runs
         /\ Cardinality(Suffix) <= Cardinality(DOMAIN store.runs)
PROOF
<1>1. DOMAIN store.runs \subseteq 1 .. store.generation /\ store.generation \in Int
  BY RecordStoreAssumption DEF ManifestOK
<1>2. IsFiniteSet(1 .. store.generation)
  BY <1>1, FS_Interval
<1>3. IsFiniteSet(DOMAIN store.runs)
  BY <1>1, <1>2, FS_Subset
<1>4. Suffix \in SUBSET DOMAIN store.runs
  BY DEF Suffix
<1>5. IsFiniteSet(Suffix) /\ Cardinality(Suffix) <= Cardinality(DOMAIN store.runs)
  BY <1>3, <1>4, FS_Subset
<1> QED BY <1>3, <1>4, <1>5, FS_CardinalityType

\* A compaction of as many runs as there are takes the newest of them.
LEMMA NewestRunsFound ==
  ASSUME ManifestOK(store), NEW n \in 1 .. Cardinality(DOMAIN store.runs)
  PROVE  NewestIn(NewestRuns(n), DOMAIN store.runs) /\ Cardinality(NewestRuns(n)) = n
PROOF
<1>1. store.generation \in Nat /\ DOMAIN store.runs \in SUBSET (1 .. store.generation)
  BY RecordStoreAssumption DEF ManifestOK
<1>2. n \in 0 .. Cardinality(DOMAIN store.runs)
  BY RunsFinite
<1>3. \E G \in kSubset(n, DOMAIN store.runs) : \A g \in G, h \in DOMAIN store.runs \ G : g > h
  BY <1>1, <1>2, NewestExist
<1>4. /\ NewestRuns(n) \in kSubset(n, DOMAIN store.runs)
      /\ \A g \in NewestRuns(n), h \in DOMAIN store.runs \ NewestRuns(n) : g > h
  BY <1>3 DEF NewestRuns
<1>5. NewestRuns(n) \subseteq DOMAIN store.runs /\ Cardinality(NewestRuns(n)) = n
  BY <1>4 DEF kSubset
<1>6. NewestRuns(n) # {}
  BY <1>5, FS_EmptySet
<1> QED BY <1>4, <1>5, <1>6 DEF NewestIn

\* Of the newest runs no more than the batch has, all are the batch's.
LEMMA NewestOfBatch ==
  ASSUME ManifestOK(store), base \in Nat,
         NEW G, NewestIn(G, DOMAIN store.runs), Cardinality(G) <= Cardinality(Suffix)
  PROVE  G \subseteq Suffix
PROOF
<1> SUFFICES ASSUME NEW x \in G, x \notin Suffix PROVE FALSE
  OBVIOUS
<1>1. G \subseteq DOMAIN store.runs /\ \A g \in DOMAIN store.runs : g \in Nat
  BY RecordStoreAssumption DEF NewestIn, ManifestOK
<1>2. x <= base
  BY <1>1 DEF Suffix
<1>3. Suffix \in SUBSET G
  <2>1. ASSUME NEW h \in Suffix, h \notin G PROVE FALSE
    <3>1. x > h /\ h > base /\ x \in Nat /\ h \in Nat
      BY <1>1, <2>1 DEF NewestIn, Suffix
    <3> QED BY <1>2, <3>1
  <2> QED BY <2>1
<1>4. IsFiniteSet(G)
  BY <1>1, RunsFinite, FS_Subset
<1>5. Cardinality(Suffix) <= Cardinality(G)
  BY <1>3, <1>4, FS_Subset
<1>6. Cardinality(Suffix) = Cardinality(G)
  BY <1>4, <1>5, RunsFinite, FS_CardinalityType
<1>7. G = Suffix
  BY <1>3, <1>4, <1>6, FS_Subset
<1> QED BY <1>7

\* Merging several runs of the batch leaves it at least one run less.
LEMMA SuffixShrinks ==
  ASSUME ManifestOK(store), base \in Nat, store.generation < MaxGeneration,
         NewestIn(work.inputs, DOMAIN store.runs), work.inputs \subseteq Suffix,
         Cardinality(work.inputs) > 1,
         NEW T, T = {g \in DOMAIN MergedManifest.runs : g > base}
  PROVE  Cardinality(T) \in Nat \ {0} /\ Cardinality(T) + 1 <= Cardinality(Suffix)
PROOF
<1>1. \A g \in DOMAIN store.runs : g \in Nat /\ g < NextGeneration
  BY NextGenerationNew
<1>2. NextGeneration \in Nat /\ NextGeneration > base
  <2>1. PICK g \in work.inputs : TRUE
    BY DEF NewestIn
  <2>2. g > base /\ g < NextGeneration /\ g \in Nat
    BY <1>1 DEF Suffix
  <2> QED BY <2>2, NextGenerationNew DEF Generations
<1>3. T = (Suffix \ work.inputs) \cup {NextGeneration}
  BY <1>2, MergedRuns DEF Suffix
<1>4. /\ IsFiniteSet(Suffix) /\ IsFiniteSet(Suffix \ work.inputs) /\ IsFiniteSet(work.inputs)
      /\ Cardinality(Suffix) \in Nat
      /\ Cardinality(Suffix \ work.inputs) \in Nat
      /\ Cardinality(work.inputs) \in Nat
  BY RunsFinite, FS_Subset, FS_CardinalityType
<1>5. NextGeneration \notin Suffix \ work.inputs
  BY <1>1 DEF Suffix
<1>6. Cardinality(T) = Cardinality(Suffix \ work.inputs) + 1
  BY <1>3, <1>4, <1>5, FS_AddElement
<1>7. Cardinality(Suffix) = Cardinality(Suffix \ work.inputs) + Cardinality(work.inputs)
  <2>1. /\ (Suffix \ work.inputs) \cup work.inputs = Suffix
        /\ (Suffix \ work.inputs) \cap work.inputs = {}
    OBVIOUS
  <2>2. Cardinality(Suffix) = Cardinality(Suffix \ work.inputs) + Cardinality(work.inputs)
                                - Cardinality({})
    BY <1>4, <2>1, FS_Union
  <2> QED BY <1>4, <2>2, FS_EmptySet
<1> QED BY <1>4, <1>6, <1>7

(***************************************************************************)
(* What steps leave alone.                                                 *)
(***************************************************************************)

\* The values of a component that does nothing.
LEMMA IdleTypes ==
  /\ Idle \in Works /\ NoWal \in Journals
  /\ Idle.batch = 0 /\ Idle.rest = NoRecords /\ Idle.chunk = NoRecords
  /\ Idle.inputs = {} /\ Idle.retain = FALSE
  /\ NoWal.state = "none" /\ NoWal.batch = 0 /\ NoWal.records = NoRecords
  /\ 0 \in Batches /\ NoRecords \in Contents
PROOF
<1>1. 0 \in Batches /\ NoRecords \in Contents
  BY EmptyContents, RecordStoreAssumption DEF Batches
<1> QED BY <1>1 DEF Idle, NoWal, Works, Journals

\* The types of the manifests, one by one.
LEMMA ManifestTypes ==
  ASSUME ManifestOK(current)', ManifestOK(store)', ManifestOK(checkpoint)'
  PROVE  \A m \in {current', store', checkpoint'} :
           /\ m.generation \in 0..MaxGeneration
           /\ m.batch \in Batches
           /\ DOMAIN m.runs \subseteq 1..m.generation
           /\ \A g \in DOMAIN m.runs : m.runs[g] \in Contents \ {NoRecords}
PROOF
  BY DEF ManifestOK

\* The manifests on disk list generations, and not the one that comes next.
LEMMA Listed ==
  ASSUME IndInv
  PROVE  /\ DOMAIN current.runs \subseteq Generations
         /\ DOMAIN checkpoint.runs \subseteq Generations
         /\ checkpoint.generation = 0 => DOMAIN checkpoint.runs = {}
         /\ store = current => /\ NextGeneration \notin DOMAIN current.runs
                               /\ NextGeneration \notin DOMAIN checkpoint.runs
PROOF
<1>1. /\ DOMAIN current.runs \subseteq 1..current.generation
      /\ DOMAIN checkpoint.runs \subseteq 1..checkpoint.generation
      /\ current.generation \in 0..MaxGeneration /\ checkpoint.generation \in 0..MaxGeneration
      /\ checkpoint.generation <= current.generation
  BY DEF IndInv, TypeOK, Pinned
<1> QED BY <1>1, RecordStoreAssumption DEF NextGeneration, Generations

\* A run that is begun has its generation left.
LEMMA RunRoom ==
  ASSUME IndInv, pc \in WritingRun \cup {"remember"} \cup Merging
  PROVE  /\ ManifestOK(store) /\ store.generation < MaxGeneration
         /\ NextGeneration \in Generations
         /\ work \in Works
PROOF
<1>1. ManifestOK(store) /\ work \in Works
  BY TypesOfManifests DEF IndInv, StepTypes
<1>2. Cardinality(DOMAIN work.rest) \in Nat
  BY <1>1, PartOfContents DEF Works
<1>3. store.generation < MaxGeneration
  BY <1>1, <1>2, RecordStoreAssumption DEF IndInv, Room, ManifestOK
<1> QED BY <1>1, <1>3, NextGenerationNew

\* Steps that change no listed run keep the manifests readable.
LEMMA FilesKept ==
  ASSUME IndInv, UNCHANGED <<current, pins>>,
         \A g \in DOMAIN current.runs \cup DOMAIN checkpoint.runs :
           dat'[g] = dat[g] /\ idx'[g] = idx[g]
  PROVE  ManifestReadable' /\ CheckpointIntact'
PROOF
  BY DEF IndInv, ManifestReadable, CheckpointIntact, Readable, pins

\* The cache stays coherent while no reader of the runs in memory finds
\* anything new.
LEMMA CacheKept ==
  ASSUME IndInv, cache' = cache, \A k \in Keys : Lookup(store, k)' = Lookup(store, k)
  PROVE  CacheCoherent'
PROOF
<1>1. \A s \in Slots : DOMAIN cache[s] \subseteq Keys
  BY ContentsDef DEF IndInv, TypeOK
<1> QED BY <1>1 DEF IndInv, CacheCoherent

\* A component without memory caches nothing.
LEMMA NothingCached ==
  ASSUME cache' = [s \in Slots |-> NoRecords]
  PROVE  /\ CacheCoherent'
         /\ \A s \in Slots : cache'[s] = NoRecords
         /\ \A s \in Slots : cache'[s] \in Contents /\ Cardinality(DOMAIN cache'[s]) <= 1
PROOF
<1>1. \A s \in Slots : cache'[s] = NoRecords
  OBVIOUS
<1>2. DOMAIN NoRecords = {} /\ NoRecords \in Contents /\ Cardinality(DOMAIN NoRecords) <= 1
  BY EmptyContents, FS_EmptySet
<1>3. CacheCoherent'
  BY <1>1, <1>2 DEF CacheCoherent
<1> QED BY <1>1, <1>2, <1>3

\* Writing or removing the files of the next run touches no listed run.
LEMMA NextRunFiles ==
  ASSUME IndInv, store = current, UNCHANGED <<current, pins>>,
         \A g \in Generations \ {NextGeneration} : dat'[g] = dat[g] /\ idx'[g] = idx[g]
  PROVE  ManifestReadable' /\ CheckpointIntact'
PROOF
<1>1. ASSUME NEW g \in DOMAIN current.runs \cup DOMAIN checkpoint.runs
      PROVE  dat'[g] = dat[g] /\ idx'[g] = idx[g]
  BY Listed
<1> QED BY <1>1, FilesKept

\* Nor does the removal of files of other runs.
LEMMA OtherRunFiles ==
  ASSUME IndInv, UNCHANGED <<current, pins>>,
         NEW g, g \notin DOMAIN current.runs, g \notin DOMAIN checkpoint.runs,
         dat' \in {dat, [dat EXCEPT ![g] = NoRecords]},
         idx' \in {idx, [idx EXCEPT ![g] = {}]}
  PROVE  /\ ManifestReadable' /\ CheckpointIntact'
         /\ dat' \in [Generations -> Contents] /\ idx' \in [Generations -> SUBSET Keys]
PROOF
<1>1. dat \in [Generations -> Contents] /\ idx \in [Generations -> SUBSET Keys]
  BY DEF IndInv, TypeOK
<1>2. ASSUME NEW h \in DOMAIN current.runs \cup DOMAIN checkpoint.runs
      PROVE  dat'[h] = dat[h] /\ idx'[h] = idx[h]
  BY <1>1, Listed
<1>3. dat' \in [Generations -> Contents] /\ idx' \in [Generations -> SUBSET Keys]
  BY <1>1, EmptyContents
<1> QED BY <1>2, <1>3, FilesKept

\* The least of two numbers.
LEMMA MinOfTwo ==
  ASSUME NEW a \in Nat, NEW b \in Nat
  PROVE  Min({a, b}) \in {a, b} /\ Min({a, b}) <= a /\ Min({a, b}) <= b
PROOF
<1>1. \E x \in {a, b} : \A y \in {a, b} : x <= y
  OBVIOUS
<1> QED BY <1>1 DEF Min

(***************************************************************************)
(* The steps.                                                              *)
(***************************************************************************)

\* A clean-up is over.
LEMMA CleanupDoneInv ==
  ASSUME IndInv, CleanupDone
  PROVE  IndInv'
PROOF
<1> USE DEF CleanupDone, runFiles, pins, memory, counters
<1>1. /\ TypeOK /\ StepTypes
      /\ MemoryFollows /\ RunWritten /\ RunsMerged /\ Room /\ Pinned /\ Journal
      /\ ManifestReadable /\ CheckpointIntact /\ CacheCoherent /\ CacheFilled
  BY DEF IndInv
<1>2. TypeOK' /\ StepTypes'
  BY <1>1 DEF TypeOK, Batches, StepTypes, Appending, WritingRun, Merging, Recovering, Idle
<1>3. MemoryFollows'
  <2>1. CASE after = "recover"
    BY <1>1, <2>1 DEF MemoryFollows, AppendedManifest, MergedManifest, NextGeneration
  <2>2. CASE after = "ready"
    BY <1>1, <2>2 DEF MemoryFollows, AppendedManifest, MergedManifest, NextGeneration
  <2>3. CASE after = "compact"
    BY <1>1, <2>3 DEF MemoryFollows, AppendedManifest, MergedManifest, NextGeneration
  <2> QED BY <1>1, <2>1, <2>2, <2>3 DEF StepTypes, Appending, WritingRun, Merging, Recovering
<1>4. RunWritten'
  <2>1. CASE after = "recover"
    BY <1>1, <2>1 DEF RunWritten, WritingRun, NextGeneration
  <2>2. CASE after = "ready"
    BY <1>1, <2>2 DEF RunWritten, WritingRun, NextGeneration
  <2>3. CASE after = "compact"
    BY <1>1, <2>3 DEF RunWritten, WritingRun, NextGeneration
  <2> QED BY <1>1, <2>1, <2>2, <2>3 DEF StepTypes, Appending, WritingRun, Merging, Recovering
<1>5. RunsMerged'
  <2>1. CASE after = "recover"
    BY <1>1, <2>1 DEF RunsMerged, Merging
  <2>2. CASE after = "ready"
    BY <1>1, <2>2 DEF RunsMerged, Merging
  <2>3. CASE after = "compact"
    BY <1>1, <2>3 DEF RunsMerged, Merging
  <2> QED BY <1>1, <2>1, <2>2, <2>3 DEF StepTypes, Appending, WritingRun, Merging, Recovering
<1>6. Pinned'
  <2>1. CASE after = "recover"
    BY <1>1, <2>1 DEF Pinned
  <2>2. CASE after = "ready"
    BY <1>1, <2>2 DEF Pinned
  <2>3. CASE after = "compact"
    BY <1>1, <2>3 DEF Pinned
  <2> QED BY <1>1, <2>1, <2>2, <2>3 DEF StepTypes, Appending, WritingRun, Merging, Recovering
<1>7. Room'
  <2>1. CASE after = "recover"
    BY <1>1, <2>1 DEF Room, Suffix, WritingRun, Merging
  <2>2. CASE after = "ready"
    BY <1>1, <2>2 DEF Room, Suffix, WritingRun, Merging
  <2>3. CASE after = "compact"
    BY <1>1, <2>3 DEF Room, Suffix, WritingRun, Merging
  <2> QED BY <1>1, <2>1, <2>2, <2>3 DEF StepTypes, Appending, WritingRun, Merging, Recovering
<1>8. Journal'
  <2>1. CASE after = "recover"
    BY <1>1, <2>1 DEF Journal, WalFits, AtRest, Discarding, Redoing, WritingRun, Merging
  <2>2. CASE after = "ready"
    BY <1>1, <2>2 DEF Journal, WalFits, AtRest, Discarding, Redoing, WritingRun, Merging
  <2>3. CASE after = "compact"
    BY <1>1, <2>3 DEF Journal, WalFits, AtRest, Discarding, Redoing, WritingRun, Merging
  <2> QED BY <1>1, <2>1, <2>2, <2>3 DEF StepTypes, Appending, WritingRun, Merging, Recovering
<1>9. ManifestReadable' /\ CheckpointIntact'
  BY <1>1 DEF ManifestReadable, CheckpointIntact, Readable, Pinned
<1>10. CacheCoherent' /\ CacheFilled'
  <2>1. CASE after = "recover"
    BY <1>1, <2>1 DEF CacheCoherent, CacheFilled, Opening, Appending, WritingRun, Merging,
       Recovering
  <2>2. CASE after = "ready"
    BY <1>1, <2>2 DEF CacheCoherent, CacheFilled, Opening, Appending, WritingRun, Merging,
       Recovering
  <2>3. CASE after = "compact"
    BY <1>1, <2>3 DEF CacheCoherent, CacheFilled, Opening, Appending, WritingRun, Merging,
       Recovering
  <2> QED BY <1>1, <2>1, <2>2, <2>3 DEF StepTypes, Appending, WritingRun, Merging, Recovering
<1> QED BY <1>2, <1>3, <1>4, <1>5, <1>6, <1>7, <1>8, <1>9, <1>10 DEF IndInv

\* A file of a run that no manifest lists and nothing pins is removed.
LEMMA RemoveOrphanInv ==
  ASSUME IndInv, RemoveOrphan
  PROVE  IndInv'
PROOF
<1> USE DEF RemoveOrphan, runFiles, pins, memory, counters
<1>1. /\ TypeOK /\ StepTypes
      /\ MemoryFollows /\ RunWritten /\ RunsMerged /\ Room /\ Pinned /\ Journal
      /\ ManifestReadable /\ CheckpointIntact /\ CacheCoherent /\ CacheFilled
  BY DEF IndInv
<1>0. PICK g \in Orphans :
        /\ dat' \in {dat, [dat EXCEPT ![g] = NoRecords]}
        /\ idx' \in {idx, [idx EXCEPT ![g] = {}]}
  OBVIOUS
<1>x. /\ store = current /\ g \notin DOMAIN current.runs /\ g \notin DOMAIN checkpoint.runs
  BY <1>1, Listed DEF MemoryFollows, Orphans, Kept, CheckpointIntact
<1>y. /\ ManifestReadable' /\ CheckpointIntact'
      /\ dat' \in [Generations -> Contents] /\ idx' \in [Generations -> SUBSET Keys]
  BY <1>0, <1>x, OtherRunFiles
<1>2. StepTypes'
  BY <1>1 DEF StepTypes, Appending, WritingRun, Merging, Recovering, Idle
<1>3. TypeOK'
  BY <1>1, <1>y DEF TypeOK, Batches
<1>4. MemoryFollows' /\ RunWritten' /\ RunsMerged' /\ Pinned' /\ Room'
  BY <1>1 DEF MemoryFollows, AppendedManifest, MergedManifest, NextGeneration, RunWritten,
     WritingRun, RunsMerged, Merging, Pinned, Room, Suffix
<1>5. Journal'
  BY <1>1 DEF Journal, WalFits, AtRest, Discarding, Redoing, WritingRun, Merging
<1>6. CacheCoherent' /\ CacheFilled'
  BY <1>1 DEF CacheCoherent, CacheFilled, Opening, Appending, WritingRun, Merging,
     Recovering
<1>7. ManifestReadable' /\ CheckpointIntact'
  BY <1>y
<1> QED BY <1>2, <1>3, <1>4, <1>5, <1>6, <1>7 DEF IndInv

\* There is no journal, or it is complete, or what a torn one left is removed.
LEMMA RecoveringInv ==
  ASSUME IndInv, RecoverNothing \/ RedoWal \/ Discarded
  PROVE  IndInv'
PROOF
<1> USE DEF RecoverNothing, RedoWal, Discarded, runFiles, pins, memory, counters
<1>1. /\ TypeOK /\ StepTypes
      /\ MemoryFollows /\ RunWritten /\ RunsMerged /\ Room /\ Pinned /\ Journal
      /\ ManifestReadable /\ CheckpointIntact /\ CacheCoherent /\ CacheFilled
  BY DEF IndInv
<1>2. TypeOK'
  <2>1. CASE RedoWal
    BY <1>1, <2>1 DEF TypeOK, Batches
  <2>2. CASE RecoverNothing \/ Discarded
    <3>1. 0 \in 0 .. appends
      BY <1>1, RecordStoreAssumption DEF TypeOK
    <3> QED BY <1>1, <2>2, <3>1 DEF TypeOK, Batches
  <2> QED BY <2>1, <2>2
<1>3. StepTypes'
  BY <1>1 DEF StepTypes, Appending, WritingRun, Merging, Recovering, Idle
<1>4. MemoryFollows' /\ RunWritten' /\ RunsMerged' /\ Pinned' /\ Room'
  BY <1>1 DEF MemoryFollows, AppendedManifest, MergedManifest, NextGeneration, RunWritten,
     WritingRun, RunsMerged, Merging, Pinned, Room, Suffix
<1>5. Journal'
  BY <1>1 DEF Journal, WalFits, AtRest, Discarding, Redoing, WritingRun, Merging
<1>6. ManifestReadable' /\ CheckpointIntact' /\ CacheCoherent' /\ CacheFilled'
  BY <1>1 DEF ManifestReadable, CheckpointIntact, Readable, Pinned, CacheCoherent,
     CacheFilled, Opening, Appending, WritingRun, Merging, Recovering
<1> QED BY <1>2, <1>3, <1>4, <1>5, <1>6 DEF IndInv

\* The journal of a batch in the manifest is dropped ...
LEMMA DropCommittedWalInv ==
  ASSUME IndInv, DropCommittedWal
  PROVE  IndInv'
PROOF
<1> USE DEF DropCommittedWal, runFiles, pins, memory, counters
<1>1. /\ TypeOK /\ StepTypes
      /\ MemoryFollows /\ RunWritten /\ RunsMerged /\ Room /\ Pinned /\ Journal
      /\ ManifestReadable /\ CheckpointIntact /\ CacheCoherent /\ CacheFilled
  BY DEF IndInv
<1>2. TypeOK'
  BY <1>1, IdleTypes DEF TypeOK, Batches
<1>3. StepTypes'
  BY <1>1, IdleTypes DEF StepTypes, Appending, WritingRun, Merging, Recovering, Idle
<1>4. MemoryFollows' /\ RunWritten' /\ RunsMerged' /\ Pinned' /\ Room'
  BY <1>1 DEF MemoryFollows, AppendedManifest, MergedManifest, NextGeneration, RunWritten,
     WritingRun, RunsMerged, Merging, Pinned, Room, Suffix
<1>5. Journal'
  BY <1>1, IdleTypes DEF Journal, WalFits, AtRest, Discarding, Redoing, WritingRun, Merging
<1>6. ManifestReadable' /\ CheckpointIntact' /\ CacheCoherent' /\ CacheFilled'
  BY <1>1 DEF ManifestReadable, CheckpointIntact, Readable, Pinned, CacheCoherent,
     CacheFilled, Opening, Appending, WritingRun, Merging, Recovering
<1> QED BY <1>2, <1>3, <1>4, <1>5, <1>6 DEF IndInv

\* ... and one that was not written to its end.
LEMMA DiscardWalInv ==
  ASSUME IndInv, DiscardWal
  PROVE  IndInv'
PROOF
<1> USE DEF DiscardWal, runFiles, pins, memory, counters
<1>1. /\ TypeOK /\ StepTypes
      /\ MemoryFollows /\ RunWritten /\ RunsMerged /\ Room /\ Pinned /\ Journal
      /\ ManifestReadable /\ CheckpointIntact /\ CacheCoherent /\ CacheFilled
  BY DEF IndInv
<1>2. TypeOK'
  BY <1>1, IdleTypes DEF TypeOK, Batches
<1>3. StepTypes'
  BY <1>1, IdleTypes DEF StepTypes, Appending, WritingRun, Merging, Recovering, Idle
<1>4. MemoryFollows' /\ RunWritten' /\ RunsMerged' /\ Pinned' /\ Room'
  BY <1>1 DEF MemoryFollows, AppendedManifest, MergedManifest, NextGeneration, RunWritten,
     WritingRun, RunsMerged, Merging, Pinned, Room, Suffix
<1>5. Journal'
  BY <1>1, IdleTypes DEF Journal, WalFits, AtRest, Discarding, Redoing, WritingRun, Merging
<1>6. ManifestReadable' /\ CheckpointIntact' /\ CacheCoherent' /\ CacheFilled'
  BY <1>1 DEF ManifestReadable, CheckpointIntact, Readable, Pinned, CacheCoherent,
     CacheFilled, Opening, Appending, WritingRun, Merging, Recovering
<1> QED BY <1>2, <1>3, <1>4, <1>5, <1>6 DEF IndInv

\* The data of the run the journal was for are removed ...
LEMMA UnlinkDataInv ==
  ASSUME IndInv, UnlinkData
  PROVE  IndInv'
PROOF
<1> USE DEF UnlinkData, runFiles, pins, memory, counters
<1>1. /\ TypeOK /\ StepTypes
      /\ MemoryFollows /\ RunWritten /\ RunsMerged /\ Room /\ Pinned /\ Journal
      /\ ManifestReadable /\ CheckpointIntact /\ CacheCoherent /\ CacheFilled
  BY DEF IndInv
<1>2. StepTypes'
  BY <1>1 DEF StepTypes, Appending, WritingRun, Merging, Recovering, Idle
<1>3. TypeOK'
  <2>1. dat' \in [Generations -> Contents]
    BY <1>1, EmptyContents DEF TypeOK
  <2> QED BY <1>1, <2>1 DEF TypeOK
<1>4. MemoryFollows' /\ RunWritten' /\ RunsMerged' /\ Pinned' /\ Room'
  BY <1>1 DEF MemoryFollows, AppendedManifest, MergedManifest, NextGeneration, RunWritten,
     WritingRun, RunsMerged, Merging, Pinned, Room, Suffix
<1>5. Journal'
  BY <1>1 DEF Journal, WalFits, AtRest, Discarding, Redoing, WritingRun, Merging
<1>6. CacheCoherent' /\ CacheFilled'
  BY <1>1 DEF CacheCoherent, CacheFilled, Opening, Appending, WritingRun, Merging,
     Recovering
<1>7. ManifestReadable' /\ CheckpointIntact'
  <2>1. store = current
    BY <1>1 DEF MemoryFollows
  <2>2. \A g \in Generations \ {NextGeneration} : dat'[g] = dat[g] /\ idx'[g] = idx[g]
    BY <1>1 DEF TypeOK
  <2> QED BY <2>1, <2>2, NextRunFiles
<1> QED BY <1>2, <1>3, <1>4, <1>5, <1>6, <1>7 DEF IndInv

\* ... and its index.
LEMMA UnlinkIndexInv ==
  ASSUME IndInv, UnlinkIndex
  PROVE  IndInv'
PROOF
<1> USE DEF UnlinkIndex, runFiles, pins, memory, counters
<1>1. /\ TypeOK /\ StepTypes
      /\ MemoryFollows /\ RunWritten /\ RunsMerged /\ Room /\ Pinned /\ Journal
      /\ ManifestReadable /\ CheckpointIntact /\ CacheCoherent /\ CacheFilled
  BY DEF IndInv
<1>2. TypeOK' /\ StepTypes'
  BY <1>1 DEF TypeOK, Batches, StepTypes, Appending, WritingRun, Merging, Recovering, Idle
<1>3. MemoryFollows'
  <2>1. CASE after = "discarded"
    BY <1>1, <2>1 DEF MemoryFollows, AppendedManifest, MergedManifest, NextGeneration
  <2>2. CASE after = "redo"
    BY <1>1, <2>2 DEF MemoryFollows, AppendedManifest, MergedManifest, NextGeneration
  <2> QED BY <1>1, <2>1, <2>2 DEF StepTypes, Appending, WritingRun, Merging, Recovering
<1>4. RunWritten'
  <2>1. CASE after = "discarded"
    BY <1>1, <2>1 DEF RunWritten, WritingRun, NextGeneration
  <2>2. CASE after = "redo"
    BY <1>1, <2>2 DEF RunWritten, WritingRun, NextGeneration
  <2> QED BY <1>1, <2>1, <2>2 DEF StepTypes, Appending, WritingRun, Merging, Recovering
<1>5. RunsMerged'
  <2>1. CASE after = "discarded"
    BY <1>1, <2>1 DEF RunsMerged, Merging
  <2>2. CASE after = "redo"
    BY <1>1, <2>2 DEF RunsMerged, Merging
  <2> QED BY <1>1, <2>1, <2>2 DEF StepTypes, Appending, WritingRun, Merging, Recovering
<1>6. Pinned'
  <2>1. CASE after = "discarded"
    BY <1>1, <2>1 DEF Pinned
  <2>2. CASE after = "redo"
    BY <1>1, <2>2 DEF Pinned
  <2> QED BY <1>1, <2>1, <2>2 DEF StepTypes, Appending, WritingRun, Merging, Recovering
<1>7. Room'
  <2>1. CASE after = "discarded"
    BY <1>1, <2>1 DEF Room, Suffix, WritingRun, Merging
  <2>2. CASE after = "redo"
    BY <1>1, <2>2 DEF Room, Suffix, WritingRun, Merging
  <2> QED BY <1>1, <2>1, <2>2 DEF StepTypes, Appending, WritingRun, Merging, Recovering
<1>8. Journal'
  <2>1. CASE after = "discarded"
    BY <1>1, <2>1 DEF Journal, WalFits, AtRest, Discarding, Redoing, WritingRun, Merging
  <2>2. CASE after = "redo"
    BY <1>1, <2>2 DEF Journal, WalFits, AtRest, Discarding, Redoing, WritingRun, Merging
  <2> QED BY <1>1, <2>1, <2>2 DEF StepTypes, Appending, WritingRun, Merging, Recovering
<1>9. CacheCoherent' /\ CacheFilled'
  BY <1>1 DEF CacheCoherent, CacheFilled, Opening, Appending, WritingRun, Merging,
     Recovering
<1>10. ManifestReadable' /\ CheckpointIntact'
  <2>1. store = current
    BY <1>1 DEF MemoryFollows
  <2>2. \A g \in Generations \ {NextGeneration} : dat'[g] = dat[g] /\ idx'[g] = idx[g]
    BY <1>1 DEF TypeOK
  <2> QED BY <2>1, <2>2, NextRunFiles
<1> QED BY <1>2, <1>3, <1>4, <1>5, <1>6, <1>7, <1>8, <1>9, <1>10 DEF IndInv

\* The records of the journal become an append.
LEMMA RedoInv ==
  ASSUME IndInv, Redo
  PROVE  IndInv'
PROOF
<1> USE DEF Redo, runFiles, pins, memory, counters
<1>1. /\ TypeOK /\ StepTypes
      /\ MemoryFollows /\ RunWritten /\ RunsMerged /\ Room /\ Pinned /\ Journal
      /\ ManifestReadable /\ CheckpointIntact /\ CacheCoherent /\ CacheFilled
  BY DEF IndInv
<1>0. /\ wal \in Journals /\ wal.batch \in Batches /\ wal.records \in Contents
  BY <1>1 DEF StepTypes, Journals
<1>x. /\ work'.batch = wal.batch /\ work'.rest = wal.records /\ work' \in Works
      /\ wal' = NoWal /\ NoWal.state = "none" /\ NoWal \in Journals
  BY <1>0, IdleTypes DEF Works, Idle
<1>y. store = current /\ store.generation + Cardinality(DOMAIN wal.records) <= MaxGeneration
  BY <1>1 DEF MemoryFollows, Journal, WalFits, Redoing
<1>2. TypeOK'
  BY <1>1, IdleTypes DEF TypeOK, Batches
<1>3. StepTypes'
  BY <1>1, <1>0, <1>x DEF StepTypes, Appending, WritingRun, Merging, Recovering, Idle
<1>4. MemoryFollows' /\ RunWritten' /\ RunsMerged' /\ Pinned'
  BY <1>1 DEF MemoryFollows, AppendedManifest, MergedManifest, NextGeneration, RunWritten,
     WritingRun, RunsMerged, Merging, Pinned
<1>5. Room'
  BY <1>1, <1>x, <1>y DEF Room, Suffix, WritingRun, Merging
<1>6. Journal'
  BY <1>1, <1>x DEF Journal, WalFits, AtRest, Discarding, Redoing, WritingRun, Merging
<1>7. ManifestReadable' /\ CheckpointIntact' /\ CacheCoherent' /\ CacheFilled'
  BY <1>1 DEF ManifestReadable, CheckpointIntact, Readable, Pinned, CacheCoherent,
     CacheFilled, Opening, Appending, WritingRun, Merging, Recovering
<1> QED BY <1>2, <1>3, <1>4, <1>5, <1>6, <1>7 DEF IndInv

\* The disk has no room for a chunk.
LEMMA AppendRefusedInv ==
  ASSUME IndInv, AppendRefused
  PROVE  IndInv'
PROOF
<1> USE DEF AppendRefused, runFiles, pins, memory, counters
<1>1. /\ TypeOK /\ StepTypes
      /\ MemoryFollows /\ RunWritten /\ RunsMerged /\ Room /\ Pinned /\ Journal
      /\ ManifestReadable /\ CheckpointIntact /\ CacheCoherent /\ CacheFilled
  BY DEF IndInv
<1>2. TypeOK'
  BY <1>1 DEF TypeOK, Batches
<1>3. StepTypes'
  <2>1. CASE after = "ready"
    BY <1>1, <2>1, IdleTypes DEF StepTypes, Appending, WritingRun, Merging, Recovering, Idle
  <2>2. CASE after = "closed"
    BY <1>1, <2>2, IdleTypes DEF StepTypes, Appending, WritingRun, Merging, Recovering, Idle
  <2> QED BY <1>1, <2>1, <2>2 DEF StepTypes, Appending, WritingRun, Merging, Recovering
<1>4. MemoryFollows'
  <2>1. CASE after = "ready"
    BY <1>1, <2>1 DEF MemoryFollows, AppendedManifest, MergedManifest, NextGeneration
  <2>2. CASE after = "closed"
    BY <1>1, <2>2 DEF MemoryFollows, AppendedManifest, MergedManifest, NextGeneration
  <2> QED BY <1>1, <2>1, <2>2 DEF StepTypes, Appending, WritingRun, Merging, Recovering
<1>5. RunWritten'
  <2>1. CASE after = "ready"
    BY <1>1, <2>1 DEF RunWritten, WritingRun, NextGeneration
  <2>2. CASE after = "closed"
    BY <1>1, <2>2 DEF RunWritten, WritingRun, NextGeneration
  <2> QED BY <1>1, <2>1, <2>2 DEF StepTypes, Appending, WritingRun, Merging, Recovering
<1>6. RunsMerged'
  <2>1. CASE after = "ready"
    BY <1>1, <2>1 DEF RunsMerged, Merging
  <2>2. CASE after = "closed"
    BY <1>1, <2>2 DEF RunsMerged, Merging
  <2> QED BY <1>1, <2>1, <2>2 DEF StepTypes, Appending, WritingRun, Merging, Recovering
<1>7. Pinned'
  <2>1. CASE after = "ready"
    BY <1>1, <2>1 DEF Pinned
  <2>2. CASE after = "closed"
    BY <1>1, <2>2 DEF Pinned
  <2> QED BY <1>1, <2>1, <2>2 DEF StepTypes, Appending, WritingRun, Merging, Recovering
<1>8. Room'
  <2>1. CASE after = "ready"
    BY <1>1, <2>1 DEF Room, Suffix, WritingRun, Merging
  <2>2. CASE after = "closed"
    BY <1>1, <2>2 DEF Room, Suffix, WritingRun, Merging
  <2> QED BY <1>1, <2>1, <2>2 DEF StepTypes, Appending, WritingRun, Merging, Recovering
<1>9. Journal'
  <2>1. CASE after = "ready"
    BY <1>1, <2>1 DEF Journal, WalFits, AtRest, Discarding, Redoing, WritingRun, Merging
  <2>2. CASE after = "closed"
    BY <1>1, <2>2 DEF Journal, WalFits, AtRest, Discarding, Redoing, WritingRun, Merging
  <2> QED BY <1>1, <2>1, <2>2 DEF StepTypes, Appending, WritingRun, Merging, Recovering
<1>10. ManifestReadable' /\ CheckpointIntact'
  BY <1>1 DEF ManifestReadable, CheckpointIntact, Readable, Pinned
<1>11. CacheCoherent' /\ CacheFilled'
  <2>1. CASE after = "ready"
    BY <1>1, <2>1 DEF CacheCoherent, CacheFilled, Opening, Appending, WritingRun, Merging,
       Recovering
  <2>2. CASE after = "closed"
    BY <1>1, <2>2 DEF CacheCoherent, CacheFilled, Opening, Appending, WritingRun, Merging,
       Recovering
  <2> QED BY <1>1, <2>1, <2>2 DEF StepTypes, Appending, WritingRun, Merging, Recovering
<1> QED BY <1>2, <1>3, <1>4, <1>5, <1>6, <1>7, <1>8, <1>9, <1>10, <1>11 DEF IndInv

\* A chunk is taken off the append and its journal is begun.
LEMMA StartChunkInv ==
  ASSUME IndInv, StartChunk
  PROVE  IndInv'
PROOF
<1> USE DEF StartChunk, runFiles, pins, memory, counters
<1>1. /\ TypeOK /\ StepTypes
      /\ MemoryFollows /\ RunWritten /\ RunsMerged /\ Room /\ Pinned /\ Journal
      /\ ManifestReadable /\ CheckpointIntact /\ CacheCoherent /\ CacheFilled
  BY DEF IndInv
<1>0. PICK S \in Chunks(work.rest) :
        /\ work' = [work EXCEPT !.chunk = Restrict(work.rest, S), !.rest = Without(work.rest, S)]
        /\ wal' = [state |-> "torn", batch |-> work.batch, records |-> Restrict(work.rest, S)]
  OBVIOUS
<1>w. work \in Works /\ work.rest \in Contents /\ work.batch \in Batches
  BY <1>1 DEF StepTypes, Works
<1>x. /\ Restrict(work.rest, S) \in Contents /\ Restrict(work.rest, S) # NoRecords
      /\ Without(work.rest, S) \in Contents
      /\ Cardinality(DOMAIN Without(work.rest, S)) \in Nat
      /\ Cardinality(DOMAIN work.rest) \in Nat
      /\ Cardinality(DOMAIN Restrict(work.rest, S)) \in Nat
      /\ Cardinality(DOMAIN Without(work.rest, S)) + 1 <= Cardinality(DOMAIN work.rest)
      /\ Cardinality(DOMAIN Restrict(work.rest, S)) <= Cardinality(DOMAIN work.rest)
  <2>1. S \in SUBSET DOMAIN work.rest /\ S # {}
    BY DEF Chunks
  <2> QED BY <1>w, <2>1, PartOfContents, ChunkOfContents
<1>y. /\ work'.chunk = Restrict(work.rest, S) /\ work'.rest = Without(work.rest, S)
      /\ work'.batch = work.batch /\ work'.inputs = work.inputs /\ work' \in Works
      /\ wal'.state = "torn" /\ wal'.batch = work.batch /\ wal' \in Journals
      /\ wal'.records = Restrict(work.rest, S)
  BY <1>0, <1>w, <1>x DEF Works, Journals
<1>z. /\ store = current /\ current.generation \in Nat /\ checkpoint.generation \in Nat
      /\ checkpoint.generation <= current.generation
      /\ store.generation + Cardinality(DOMAIN work.rest) <= MaxGeneration
  BY <1>1, RecordStoreAssumption DEF MemoryFollows, TypeOK, Room, Pinned
<1>2. TypeOK'
  BY <1>1, <1>x, <1>y, <1>w DEF TypeOK, Batches
<1>3. StepTypes'
  BY <1>1, <1>y DEF StepTypes, Appending, WritingRun, Merging, Recovering, Idle
<1>4. MemoryFollows' /\ RunsMerged' /\ Pinned'
  BY <1>1 DEF MemoryFollows, AppendedManifest, MergedManifest, NextGeneration, RunsMerged,
     Merging, Pinned
<1>5. RunWritten'
  BY <1>1, <1>x, <1>y DEF RunWritten, WritingRun, NextGeneration
<1>6. Room'
  <2>1. store.generation + 1 + Cardinality(DOMAIN work'.rest) <= MaxGeneration
    BY <1>x, <1>y, <1>z, RecordStoreAssumption
  <2> QED BY <2>1 DEF Room, Suffix, WritingRun, Merging
<1>7. Journal'
  <2>1. ASSUME NEW m, m.generation \in Nat, m.generation <= current.generation
        PROVE  m.generation + Cardinality(DOMAIN wal'.records) <= MaxGeneration
    BY <1>x, <1>y, <1>z, <2>1, RecordStoreAssumption
  <2>2. WalFits(current)' /\ WalFits(checkpoint)'
    BY <1>z, <2>1 DEF WalFits
  <2> QED BY <1>1, <1>y, <2>2 DEF Journal, AtRest, Discarding, Redoing, WritingRun, Merging
<1>8. ManifestReadable' /\ CheckpointIntact' /\ CacheCoherent' /\ CacheFilled'
  BY <1>1 DEF ManifestReadable, CheckpointIntact, Readable, Pinned, CacheCoherent,
     CacheFilled, Opening, Appending, WritingRun, Merging, Recovering
<1> QED BY <1>2, <1>3, <1>4, <1>5, <1>6, <1>7, <1>8 DEF IndInv

\* The journal of the chunk is complete.
LEMMA CompleteWalInv ==
  ASSUME IndInv, CompleteWal
  PROVE  IndInv'
PROOF
<1> USE DEF CompleteWal, runFiles, pins, memory, counters
<1>1. /\ TypeOK /\ StepTypes
      /\ MemoryFollows /\ RunWritten /\ RunsMerged /\ Room /\ Pinned /\ Journal
      /\ ManifestReadable /\ CheckpointIntact /\ CacheCoherent /\ CacheFilled
  BY DEF IndInv
<1>2. TypeOK'
  BY <1>1 DEF TypeOK, Batches
<1>3. StepTypes'
  BY <1>1, <1>1 DEF StepTypes, Appending, WritingRun, Merging, Recovering, Idle, Journals
<1>4. MemoryFollows' /\ RunWritten' /\ RunsMerged' /\ Pinned' /\ Room'
  BY <1>1 DEF MemoryFollows, AppendedManifest, MergedManifest, NextGeneration, RunWritten,
     WritingRun, RunsMerged, Merging, Pinned, Room, Suffix
<1>5. Journal'
  BY <1>1 DEF Journal, WalFits, AtRest, Discarding, Redoing, WritingRun, Merging
<1>6. ManifestReadable' /\ CheckpointIntact' /\ CacheCoherent' /\ CacheFilled'
  BY <1>1 DEF ManifestReadable, CheckpointIntact, Readable, Pinned, CacheCoherent,
     CacheFilled, Opening, Appending, WritingRun, Merging, Recovering
<1> QED BY <1>2, <1>3, <1>4, <1>5, <1>6 DEF IndInv

\* Temporaries are written.
LEMMA WritingInv ==
  ASSUME IndInv, WriteSegment \/ WriteAppendManifest \/ WriteMergedManifest
  PROVE  IndInv'
PROOF
<1> USE DEF WriteSegment, WriteAppendManifest, WriteMergedManifest, WriteManifest, runFiles,
            pins, memory, counters
<1>1. /\ TypeOK /\ StepTypes
      /\ MemoryFollows /\ RunWritten /\ RunsMerged /\ Room /\ Pinned /\ Journal
      /\ ManifestReadable /\ CheckpointIntact /\ CacheCoherent /\ CacheFilled
  BY DEF IndInv
<1>2. TypeOK' /\ StepTypes'
  BY <1>1 DEF TypeOK, Batches, StepTypes, Appending, WritingRun, Merging, Recovering, Idle
<1>3. MemoryFollows' /\ RunWritten' /\ RunsMerged' /\ Pinned' /\ Room'
  BY <1>1 DEF MemoryFollows, AppendedManifest, MergedManifest, NextGeneration, RunWritten,
     WritingRun, RunsMerged, Merging, Pinned, Room, Suffix
<1>4. Journal'
  BY <1>1 DEF Journal, WalFits, AtRest, Discarding, Redoing, WritingRun, Merging
<1>5. ManifestReadable' /\ CheckpointIntact' /\ CacheCoherent' /\ CacheFilled'
  BY <1>1 DEF ManifestReadable, CheckpointIntact, Readable, Pinned, CacheCoherent,
     CacheFilled, Opening, Appending, WritingRun, Merging, Recovering
<1> QED BY <1>2, <1>3, <1>4, <1>5 DEF IndInv

\* A journal or a file is in the way, an exception latches failed_, or a save fails.
LEMMA InTheWayInv ==
  ASSUME IndInv, WalExists \/ GenerationExists \/ Throws \/ SaveFails
  PROVE  IndInv'
PROOF
<1> USE DEF WalExists, GenerationExists, Throws, SaveFails, runFiles, pins, memory, counters
<1>1. /\ TypeOK /\ StepTypes
      /\ MemoryFollows /\ RunWritten /\ RunsMerged /\ Room /\ Pinned /\ Journal
      /\ ManifestReadable /\ CheckpointIntact /\ CacheCoherent /\ CacheFilled
  BY DEF IndInv
<1>2. TypeOK'
  BY <1>1 DEF TypeOK, Batches
<1>3. StepTypes'
  BY <1>1 DEF StepTypes, Appending, WritingRun, Merging, Recovering, Idle
<1>4. MemoryFollows' /\ RunWritten' /\ RunsMerged' /\ Pinned' /\ Room'
  BY <1>1 DEF MemoryFollows, AppendedManifest, MergedManifest, NextGeneration, RunWritten,
     WritingRun, RunsMerged, Merging, Pinned, Room, Suffix
<1>5. Journal'
  BY <1>1 DEF Journal, WalFits, AtRest, Discarding, Redoing, WritingRun, Merging
<1>6. ManifestReadable' /\ CheckpointIntact' /\ CacheCoherent' /\ CacheFilled'
  BY <1>1 DEF ManifestReadable, CheckpointIntact, Readable, Pinned, CacheCoherent,
     CacheFilled, Opening, Appending, WritingRun, Merging, Recovering
<1> QED BY <1>2, <1>3, <1>4, <1>5, <1>6 DEF IndInv

\* The data of the run are renamed into place ...
LEMMA PublishDataInv ==
  ASSUME IndInv, PublishData
  PROVE  IndInv'
PROOF
<1> USE DEF PublishData, runFiles, pins, memory, counters
<1>1. /\ TypeOK /\ StepTypes
      /\ MemoryFollows /\ RunWritten /\ RunsMerged /\ Room /\ Pinned /\ Journal
      /\ ManifestReadable /\ CheckpointIntact /\ CacheCoherent /\ CacheFilled
  BY DEF IndInv
<1>2. StepTypes'
  BY <1>1 DEF StepTypes, Appending, WritingRun, Merging, Recovering, Idle
<1>3. TypeOK'
  <2>1. dat' \in [Generations -> Contents]
    BY <1>1, RunRoom DEF TypeOK, Works, WritingRun, Merging
  <2> QED BY <1>1, <2>1 DEF TypeOK
<1>4. MemoryFollows' /\ RunsMerged' /\ Pinned' /\ Room'
  BY <1>1 DEF MemoryFollows, AppendedManifest, MergedManifest, NextGeneration, RunsMerged,
     Merging, Pinned, Room, Suffix, WritingRun
<1>5. RunWritten'
  <2>1. NextGeneration \in Generations /\ dat \in [Generations -> Contents] /\ idx \in [Generations -> SUBSET Keys]
    BY <1>1, RunRoom DEF TypeOK, WritingRun, Merging
  <2> QED BY <1>1, <2>1 DEF RunWritten, WritingRun, NextGeneration
<1>6. Journal'
  BY <1>1 DEF Journal, WalFits, AtRest, Discarding, Redoing, WritingRun, Merging
<1>7. CacheCoherent' /\ CacheFilled'
  BY <1>1 DEF CacheCoherent, CacheFilled, Opening, Appending, WritingRun, Merging,
     Recovering
<1>8. ManifestReadable' /\ CheckpointIntact'
  <2>1. store = current
    BY <1>1 DEF MemoryFollows
  <2>2. \A g \in Generations \ {NextGeneration} : dat'[g] = dat[g] /\ idx'[g] = idx[g]
    BY <1>1 DEF TypeOK
  <2> QED BY <2>1, <2>2, NextRunFiles
<1> QED BY <1>2, <1>3, <1>4, <1>5, <1>6, <1>7, <1>8 DEF IndInv

\* ... and its index.
LEMMA PublishIndexInv ==
  ASSUME IndInv, PublishIndex
  PROVE  IndInv'
PROOF
<1> USE DEF PublishIndex, runFiles, pins, memory, counters
<1>1. /\ TypeOK /\ StepTypes
      /\ MemoryFollows /\ RunWritten /\ RunsMerged /\ Room /\ Pinned /\ Journal
      /\ ManifestReadable /\ CheckpointIntact /\ CacheCoherent /\ CacheFilled
  BY DEF IndInv
<1>2. StepTypes'
  BY <1>1 DEF StepTypes, Appending, WritingRun, Merging, Recovering, Idle
<1>3. TypeOK'
  <2>1. idx' \in [Generations -> SUBSET Keys]
    <3>1. DOMAIN work.chunk \subseteq Keys
      BY RunRoom, ContentsDef DEF Works, WritingRun, Merging
    <3> QED BY <1>1, <3>1 DEF TypeOK
  <2> QED BY <1>1, <2>1 DEF TypeOK
<1>4. MemoryFollows' /\ RunsMerged' /\ Pinned' /\ Room'
  BY <1>1 DEF MemoryFollows, AppendedManifest, MergedManifest, NextGeneration, RunsMerged,
     Merging, Pinned, Room, Suffix, WritingRun
<1>5. RunWritten'
  <2>1. NextGeneration \in Generations /\ dat \in [Generations -> Contents] /\ idx \in [Generations -> SUBSET Keys]
    BY <1>1, RunRoom DEF TypeOK, WritingRun, Merging
  <2> QED BY <1>1, <2>1 DEF RunWritten, WritingRun, NextGeneration
<1>6. Journal'
  BY <1>1 DEF Journal, WalFits, AtRest, Discarding, Redoing, WritingRun, Merging
<1>7. CacheCoherent' /\ CacheFilled'
  BY <1>1 DEF CacheCoherent, CacheFilled, Opening, Appending, WritingRun, Merging,
     Recovering
<1>8. ManifestReadable' /\ CheckpointIntact'
  <2>1. store = current
    BY <1>1 DEF MemoryFollows
  <2>2. \A g \in Generations \ {NextGeneration} : dat'[g] = dat[g] /\ idx'[g] = idx[g]
    BY <1>1 DEF TypeOK
  <2> QED BY <2>1, <2>2, NextRunFiles
<1> QED BY <1>2, <1>3, <1>4, <1>5, <1>6, <1>7, <1>8 DEF IndInv

\* The manifest of the append takes the place of CURRENT.
LEMMA PublishAppendInv ==
  ASSUME IndInv, PublishAppend
  PROVE  IndInv'
PROOF
<1> USE DEF PublishAppend, RenameManifest, runFiles, pins, memory, counters
<1>1. /\ TypeOK /\ StepTypes
      /\ MemoryFollows /\ RunWritten /\ RunsMerged /\ Room /\ Pinned /\ Journal
      /\ ManifestReadable /\ CheckpointIntact /\ CacheCoherent /\ CacheFilled
  BY DEF IndInv
<1>0. /\ store = current /\ ManifestOK(store) /\ ManifestOK(checkpoint)
      /\ store.generation < MaxGeneration /\ work.batch \in Batches
      /\ work.chunk \in Contents \ {NoRecords}
  BY <1>1, RunRoom, TypesOfManifests DEF MemoryFollows, RunWritten, WritingRun, Works
<1>x. /\ current' = AppendedManifest /\ store = current
      /\ current'.generation = store.generation + 1 /\ current'.batch = work.batch
  BY <1>0 DEF AppendedManifest, NextGeneration
<1>y. /\ DOMAIN current'.runs = DOMAIN store.runs \cup {NextGeneration}
      /\ current'.runs[NextGeneration] = work.chunk
      /\ \A g \in DOMAIN store.runs : current'.runs[g] = store.runs[g]
  BY <1>0, <1>x, AppendedRuns
<1>2. StepTypes'
  BY <1>1 DEF StepTypes, Appending, WritingRun, Merging, Recovering, Idle
<1>3. TypeOK'
  <2>1. ManifestOK(current)' /\ ManifestOK(store)' /\ ManifestOK(checkpoint)'
    BY <1>0, <1>x, AppendedOK DEF ManifestOK
  <2> QED BY <1>1, <2>1, ManifestTypes DEF TypeOK
<1>4. MemoryFollows' /\ RunWritten' /\ RunsMerged' /\ Room'
  BY <1>1 DEF MemoryFollows, AppendedManifest, MergedManifest, NextGeneration, RunWritten,
     WritingRun, RunsMerged, Merging, Room, Suffix
<1>5. Pinned'
  <2>1. checkpoint.generation <= current'.generation
    BY <1>0, <1>1, <1>x, RecordStoreAssumption DEF Pinned, ManifestOK
  <2> QED BY <2>1 DEF Pinned
<1>6. Journal'
  <2>1. wal'.batch = current'.batch /\ current'.batch \in Nat
    BY <1>0, <1>1, <1>x, RecordStoreAssumption DEF Journal, WritingRun, Batches
  <2> QED BY <1>1, <2>1 DEF Journal, WalFits, AtRest, Discarding, Redoing, WritingRun, Merging
<1>7. CacheCoherent' /\ CacheFilled'
  BY <1>1 DEF CacheCoherent, CacheFilled, Opening, Appending, WritingRun, Merging,
     Recovering
<1>8. ManifestReadable' /\ CheckpointIntact'
  <2>1. ASSUME NEW g \in DOMAIN current'.runs
        PROVE  dat'[g] = current'.runs[g] /\ idx'[g] = DOMAIN current'.runs[g]
    <3>1. CASE g = NextGeneration
      BY <1>1, <1>x, <1>y, <3>1 DEF RunWritten
    <3>2. CASE g # NextGeneration
      BY <1>1, <1>x, <1>y, <3>2 DEF ManifestReadable, Readable
    <3> QED BY <3>1, <3>2
  <2> QED BY <1>1, <2>1 DEF ManifestReadable, CheckpointIntact, Readable
<1> QED BY <1>2, <1>3, <1>4, <1>5, <1>6, <1>7, <1>8 DEF IndInv

\* The store in memory follows.
LEMMA RememberInv ==
  ASSUME IndInv, Remember
  PROVE  IndInv'
PROOF
<1> USE DEF Remember, runFiles, pins, memory, counters
<1>1. /\ TypeOK /\ StepTypes
      /\ MemoryFollows /\ RunWritten /\ RunsMerged /\ Room /\ Pinned /\ Journal
      /\ ManifestReadable /\ CheckpointIntact /\ CacheCoherent /\ CacheFilled
  BY DEF IndInv
<1>0. /\ ManifestOK(store) /\ ManifestOK(current) /\ work \in Works
      /\ store.generation < MaxGeneration /\ work.batch \in Batches
      /\ work.chunk \in Contents \ {NoRecords}
  BY <1>1, RunRoom, TypesOfManifests DEF RunWritten, Works
<1>x. /\ store' = current /\ store' = AppendedManifest
      /\ store'.generation = store.generation + 1 /\ store'.batch = work.batch
  BY <1>1 DEF MemoryFollows, AppendedManifest, NextGeneration
<1>y. \A s \in Slots :
        /\ cache[s] \in Contents /\ Cardinality(DOMAIN cache[s]) <= 1
        /\ cache'[s] \in Contents /\ DOMAIN cache'[s] = DOMAIN cache[s] \ DOMAIN work.chunk
        /\ \A k \in DOMAIN cache'[s] : cache'[s][k] = cache[s][k]
  <2> SUFFICES ASSUME NEW s \in Slots
               PROVE  /\ cache[s] \in Contents /\ Cardinality(DOMAIN cache[s]) <= 1
                      /\ cache'[s] \in Contents /\ DOMAIN cache'[s] = DOMAIN cache[s] \ DOMAIN work.chunk
                      /\ \A k \in DOMAIN cache'[s] : cache'[s][k] = cache[s][k]
    OBVIOUS
  <2>1. cache[s] \in Contents /\ Cardinality(DOMAIN cache[s]) <= 1
    BY <1>1 DEF TypeOK
  <2>2. cache'[s] = Without(cache[s], DOMAIN work.chunk)
    BY DEF Invalidated
  <2>3. /\ Without(cache[s], DOMAIN work.chunk) \in Contents
        /\ DOMAIN Without(cache[s], DOMAIN work.chunk) = DOMAIN cache[s] \ DOMAIN work.chunk
        /\ \A k \in DOMAIN cache[s] \ DOMAIN work.chunk :
             Without(cache[s], DOMAIN work.chunk)[k] = cache[s][k]
    BY <2>1, WithoutContents
  <2> QED BY <2>1, <2>2, <2>3
<1>2. StepTypes'
  BY <1>1 DEF StepTypes, Appending, WritingRun, Merging, Recovering, Idle
<1>3. TypeOK'
  <2>1. ManifestOK(current)' /\ ManifestOK(store)' /\ ManifestOK(checkpoint)'
    BY <1>0, <1>1, <1>x, TypesOfManifests DEF ManifestOK
  <2>2. ASSUME NEW s \in Slots
        PROVE  cache'[s] \in Contents /\ Cardinality(DOMAIN cache'[s]) <= 1
    <3>1. DOMAIN cache'[s] \in SUBSET DOMAIN cache[s]
      BY <1>y
    <3>2. Cardinality(DOMAIN cache'[s]) <= Cardinality(DOMAIN cache[s])
          /\ Cardinality(DOMAIN cache'[s]) \in Nat /\ Cardinality(DOMAIN cache[s]) \in Nat
      BY <1>y, <3>1, PartOfContents
    <3> QED BY <1>y, <3>2
  <2> QED BY <1>1, <2>1, <2>2, ManifestTypes DEF TypeOK
<1>4. MemoryFollows' /\ RunWritten' /\ RunsMerged' /\ Pinned'
  BY <1>1 DEF MemoryFollows, AppendedManifest, MergedManifest, NextGeneration, RunWritten,
     WritingRun, RunsMerged, Merging, Pinned
<1>5. Room'
  <2>1. store'.generation + Cardinality(DOMAIN work'.rest) <= MaxGeneration
    BY <1>1, <1>x DEF Room
  <2> QED BY <2>1 DEF Room, Suffix, WritingRun, Merging
<1>6. Journal'
  <2>1. wal'.batch <= current'.batch /\ wal'.batch = work'.batch
    BY <1>0, <1>1, <1>x, RecordStoreAssumption DEF Journal, Batches
  <2> QED BY <1>1, <2>1 DEF Journal, WalFits, AtRest, Discarding, Redoing, WritingRun, Merging
<1>7. ManifestReadable' /\ CheckpointIntact'
  BY <1>1 DEF ManifestReadable, CheckpointIntact, Readable, Pinned
<1>8. CacheCoherent' /\ CacheFilled'
  <2>1. CacheCoherent'
    <3>1. ASSUME NEW s \in Slots, NEW k \in DOMAIN cache'[s]
          PROVE  cache'[s][k] = Lookup(store', k)
      BY <1>0, <1>1, <1>x, <1>y, <3>1, LookupAppended DEF CacheCoherent
    <3> QED BY <3>1 DEF CacheCoherent
  <2>2. CacheFilled'
    <3> SUFFICES ASSUME after = "closed", NEW s \in Slots PROVE cache'[s] = NoRecords
      BY DEF CacheFilled, Opening, Recovering, Appending, WritingRun
    <3>1. DOMAIN cache[s] = {}
      BY <1>1, EmptyContents DEF CacheFilled, Opening, Appending
    <3> QED BY <1>y, <3>1, EmptyContents
  <2> QED BY <2>1, <2>2
<1> QED BY <1>2, <1>3, <1>4, <1>5, <1>6, <1>7, <1>8 DEF IndInv

\* The journal is removed, and the next chunk is taken or the append is over.
LEMMA UnlinkWalInv ==
  ASSUME IndInv, UnlinkWal
  PROVE  IndInv'
PROOF
<1> USE DEF UnlinkWal, NextChunk, runFiles, pins, memory, counters
<1>1. /\ TypeOK /\ StepTypes
      /\ MemoryFollows /\ RunWritten /\ RunsMerged /\ Room /\ Pinned /\ Journal
      /\ ManifestReadable /\ CheckpointIntact /\ CacheCoherent /\ CacheFilled
  BY DEF IndInv
<1>2. TypeOK'
  BY <1>1, IdleTypes DEF TypeOK, Batches
<1>3. StepTypes'
  BY <1>1, IdleTypes DEF StepTypes, Appending, WritingRun, Merging, Recovering, Idle
<1>4. MemoryFollows' /\ RunWritten' /\ RunsMerged' /\ Pinned' /\ Room'
  BY <1>1 DEF MemoryFollows, AppendedManifest, MergedManifest, NextGeneration, RunWritten,
     WritingRun, RunsMerged, Merging, Pinned, Room, Suffix
<1>5. Journal'
  BY <1>1, IdleTypes DEF Journal, WalFits, AtRest, Discarding, Redoing, WritingRun, Merging
<1>6. ManifestReadable' /\ CheckpointIntact' /\ CacheCoherent' /\ CacheFilled'
  BY <1>1 DEF ManifestReadable, CheckpointIntact, Readable, Pinned, CacheCoherent,
     CacheFilled, Opening, Appending, WritingRun, Merging, Recovering
<1> QED BY <1>2, <1>3, <1>4, <1>5, <1>6 DEF IndInv

\* The journal stays.
LEMMA UnlinkWalFailsInv ==
  ASSUME IndInv, UnlinkWalFails
  PROVE  IndInv'
PROOF
<1> USE DEF UnlinkWalFails, NextChunk, runFiles, pins, memory, counters
<1>1. /\ TypeOK /\ StepTypes
      /\ MemoryFollows /\ RunWritten /\ RunsMerged /\ Room /\ Pinned /\ Journal
      /\ ManifestReadable /\ CheckpointIntact /\ CacheCoherent /\ CacheFilled
  BY DEF IndInv
<1>2. TypeOK'
  BY <1>1 DEF TypeOK, Batches
<1>3. StepTypes'
  <2>1. work' \in Works /\ pc' \in {"ready", "append"} /\ unlinkFailures' \in Nat
    BY <1>1, IdleTypes DEF StepTypes
  <2> QED BY <1>1, <2>1 DEF StepTypes, Appending, WritingRun, Merging, Recovering
<1>4. MemoryFollows' /\ RunWritten' /\ RunsMerged' /\ Pinned' /\ Room'
  BY <1>1 DEF MemoryFollows, AppendedManifest, MergedManifest, NextGeneration, RunWritten,
     WritingRun, RunsMerged, Merging, Pinned, Room, Suffix
<1>5. Journal'
  BY <1>1 DEF Journal, WalFits, AtRest, Discarding, Redoing, WritingRun, Merging
<1>6. ManifestReadable' /\ CheckpointIntact' /\ CacheCoherent' /\ CacheFilled'
  BY <1>1 DEF ManifestReadable, CheckpointIntact, Readable, Pinned, CacheCoherent,
     CacheFilled, Opening, Appending, WritingRun, Merging, Recovering
<1> QED BY <1>2, <1>3, <1>4, <1>5, <1>6 DEF IndInv

\* A compaction of the runs of a batch is begun.
LEMMA CompactBatchRunsInv ==
  ASSUME IndInv, CompactBatchRuns
  PROVE  IndInv'
PROOF
<1> USE DEF CompactBatchRuns, runFiles, pins, memory, counters
<1>1. /\ TypeOK /\ StepTypes
      /\ MemoryFollows /\ RunWritten /\ RunsMerged /\ Room /\ Pinned /\ Journal
      /\ ManifestReadable /\ CheckpointIntact /\ CacheCoherent /\ CacheFilled
  BY DEF IndInv
<1>2. TypeOK' /\ StepTypes'
  BY <1>1 DEF TypeOK, Batches, StepTypes, Appending, WritingRun, Merging, Recovering, Idle
<1>3. MemoryFollows' /\ RunWritten' /\ RunsMerged' /\ Pinned'
  BY <1>1 DEF MemoryFollows, AppendedManifest, MergedManifest, NextGeneration, RunWritten,
     WritingRun, RunsMerged, Merging, Pinned
<1>4. Room'
  <2>1. store = current /\ ManifestOK(store) /\ store.generation \in Nat /\ Cardinality(Suffix) \in Nat
    BY <1>1, TypesOfManifests, RunsFinite, RecordStoreAssumption DEF MemoryFollows, ManifestOK
  <2>2. /\ Cardinality(Suffix) <= Max({Cardinality(Suffix), 1}) /\ 1 <= Max({Cardinality(Suffix), 1})
        /\ Max({Cardinality(Suffix), 1}) \in Nat
    <3>1. {Cardinality(Suffix), 1} \subseteq 0 .. Cardinality(Suffix) + 1
      BY <2>1
    <3> DEFINE T == {Cardinality(Suffix), 1}
    <3>2. Cardinality(Suffix) \in T /\ 1 \in T /\ T \subseteq Nat
      BY <2>1
    <3> HIDE DEF T
    <3>3. Max(T) \in T /\ \A y \in T : y <= Max(T)
      BY <2>1, <3>1, <3>2, NatMax DEF T
    <3> QED BY <3>2, <3>3 DEF T
  <2>3. store.generation < MaxGeneration /\ store.generation + Cardinality(Suffix) <= MaxGeneration
    BY <2>1, <2>2, RecordStoreAssumption
  <2> QED BY <2>3 DEF Room, Suffix, WritingRun, Merging
<1>5. Journal'
  BY <1>1 DEF Journal, WalFits, AtRest, Discarding, Redoing, WritingRun, Merging
<1>6. ManifestReadable' /\ CheckpointIntact' /\ CacheCoherent' /\ CacheFilled'
  BY <1>1 DEF ManifestReadable, CheckpointIntact, Readable, Pinned, CacheCoherent,
     CacheFilled, Opening, Appending, WritingRun, Merging, Recovering
<1> QED BY <1>2, <1>3, <1>4, <1>5, <1>6 DEF IndInv

\* It takes the newest runs of the batch ...
LEMMA CompactSuffixInv ==
  ASSUME IndInv, CompactSuffix
  PROVE  IndInv'
PROOF
<1> USE DEF CompactSuffix, runFiles, pins, memory, counters
<1>1. /\ TypeOK /\ StepTypes
      /\ MemoryFollows /\ RunWritten /\ RunsMerged /\ Room /\ Pinned /\ Journal
      /\ ManifestReadable /\ CheckpointIntact /\ CacheCoherent /\ CacheFilled
  BY DEF IndInv
<1>0. store = current /\ ManifestOK(store) /\ base \in Nat /\ store.generation \in Nat
  BY <1>1, TypesOfManifests, RecordStoreAssumption DEF MemoryFollows, TypeOK, ManifestOK
<1> DEFINE n == Min({FanIn, Cardinality(Suffix)})
<1>x. n \in 1 .. Cardinality(DOMAIN store.runs) /\ n > 1 /\ n <= Cardinality(Suffix)
  BY <1>0, RunsFinite, MinOfTwo, RecordStoreAssumption
<1> HIDE DEF n
<1>y. /\ work' \in Works /\ work'.inputs = NewestRuns(n)
      /\ NewestIn(NewestRuns(n), DOMAIN store.runs) /\ Cardinality(NewestRuns(n)) = n
  <2>1. NewestIn(NewestRuns(n), DOMAIN store.runs) /\ Cardinality(NewestRuns(n)) = n
    BY <1>0, <1>x, NewestRunsFound
  <2>2. NewestRuns(n) \subseteq Generations
    BY <1>0, <2>1, NextGenerationNew, Listed DEF NewestIn
  <2> QED BY <2>1, <2>2, IdleTypes DEF Works, Idle, n
<1>2. TypeOK'
  BY <1>1 DEF TypeOK, Batches
<1>3. StepTypes'
  BY <1>1, <1>y DEF StepTypes, Appending, WritingRun, Merging, Recovering, Idle
<1>4. MemoryFollows' /\ RunWritten' /\ Pinned'
  BY <1>1 DEF MemoryFollows, AppendedManifest, MergedManifest, NextGeneration, RunWritten,
     WritingRun, Pinned
<1>5. RunsMerged'
  BY <1>1, <1>y DEF RunsMerged, Merging
<1>6. Room'
  <2>1. /\ store.generation < MaxGeneration
        /\ store.generation + Cardinality(Suffix) <= MaxGeneration
    BY <1>1 DEF Room
  <2>2. NewestRuns(n) \subseteq Suffix /\ Cardinality(NewestRuns(n)) > 1
    BY <1>0, <1>x, <1>y, NewestOfBatch
  <2> QED BY <1>y, <2>1, <2>2 DEF Room, Suffix, WritingRun, Merging
<1>7. Journal'
  BY <1>1 DEF Journal, WalFits, AtRest, Discarding, Redoing, WritingRun, Merging
<1>8. ManifestReadable' /\ CheckpointIntact' /\ CacheCoherent' /\ CacheFilled'
  BY <1>1 DEF ManifestReadable, CheckpointIntact, Readable, Pinned, CacheCoherent,
     CacheFilled, Opening, Appending, WritingRun, Merging, Recovering
<1> QED BY <1>2, <1>3, <1>4, <1>5, <1>6, <1>7, <1>8 DEF IndInv

\* ... and then the newest runs of the store, unless they are too many.
LEMMA CompactRetainedInv ==
  ASSUME IndInv, CompactRetained
  PROVE  IndInv'
PROOF
<1> USE DEF CompactRetained, runFiles, pins, memory, counters
<1>1. /\ TypeOK /\ StepTypes
      /\ MemoryFollows /\ RunWritten /\ RunsMerged /\ Room /\ Pinned /\ Journal
      /\ ManifestReadable /\ CheckpointIntact /\ CacheCoherent /\ CacheFilled
  BY DEF IndInv
<1>0. store = current /\ ManifestOK(store) /\ base \in Nat /\ store.generation \in Nat
  BY <1>1, TypesOfManifests, RecordStoreAssumption DEF MemoryFollows, TypeOK, ManifestOK
<1>x. FanIn \in 1 .. Cardinality(DOMAIN store.runs)
  BY <1>0, RunsFinite, RecordStoreAssumption
<1>y. /\ NewestIn(NewestRuns(FanIn), DOMAIN store.runs)
      /\ work' \in Works
      /\ pc' = "compact" => work'.inputs = NewestRuns(FanIn)
  <2>1. NewestIn(NewestRuns(FanIn), DOMAIN store.runs)
    BY <1>0, <1>x, NewestRunsFound
  <2>2. NewestRuns(FanIn) \subseteq Generations
    BY <1>0, <2>1, Listed DEF NewestIn
  <2>3. ASSUME pc' = "compact"
        PROVE  work' \in Works /\ work'.inputs = NewestRuns(FanIn)
    <3>1. work' = [Idle EXCEPT !.inputs = NewestRuns(FanIn), !.retain = TRUE]
      BY <2>3
    <3> QED BY <2>2, <3>1, IdleTypes DEF Works, Idle
  <2> QED BY <1>1, <2>1, <2>3 DEF StepTypes
<1>2. TypeOK'
  BY <1>1 DEF TypeOK, Batches
<1>3. StepTypes'
  BY <1>1, <1>y DEF StepTypes, Appending, WritingRun, Merging, Recovering, Idle
<1>4. MemoryFollows' /\ RunWritten' /\ Pinned' /\ Room'
  BY <1>1 DEF MemoryFollows, AppendedManifest, MergedManifest, NextGeneration, RunWritten,
     WritingRun, Pinned, Room, Suffix, Merging
<1>5. RunsMerged'
  BY <1>1, <1>y DEF RunsMerged, Merging
<1>6. Journal'
  BY <1>1 DEF Journal, WalFits, AtRest, Discarding, Redoing, WritingRun, Merging
<1>7. ManifestReadable' /\ CheckpointIntact' /\ CacheCoherent' /\ CacheFilled'
  BY <1>1 DEF ManifestReadable, CheckpointIntact, Readable, Pinned, CacheCoherent,
     CacheFilled, Opening, Appending, WritingRun, Merging, Recovering
<1> QED BY <1>2, <1>3, <1>4, <1>5, <1>6, <1>7 DEF IndInv

\* A clean-up is asked for, or a compaction ends with no more runs than the fan-in.
LEMMA AskingInv ==
  ASSUME IndInv, ReclaimOrphans \/ CompactBatchDone
  PROVE  IndInv'
PROOF
<1> USE DEF ReclaimOrphans, CompactBatchDone, runFiles, pins, memory, counters
<1>1. /\ TypeOK /\ StepTypes
      /\ MemoryFollows /\ RunWritten /\ RunsMerged /\ Room /\ Pinned /\ Journal
      /\ ManifestReadable /\ CheckpointIntact /\ CacheCoherent /\ CacheFilled
  BY DEF IndInv
<1>2. TypeOK' /\ StepTypes'
  BY <1>1 DEF TypeOK, Batches, StepTypes, Appending, WritingRun, Merging, Recovering, Idle
<1>3. MemoryFollows' /\ RunWritten' /\ RunsMerged' /\ Pinned' /\ Room'
  BY <1>1 DEF MemoryFollows, AppendedManifest, MergedManifest, NextGeneration, RunWritten,
     WritingRun, RunsMerged, Merging, Pinned, Room, Suffix
<1>4. Journal'
  BY <1>1 DEF Journal, WalFits, AtRest, Discarding, Redoing, WritingRun, Merging
<1>5. ManifestReadable' /\ CheckpointIntact' /\ CacheCoherent' /\ CacheFilled'
  BY <1>1 DEF ManifestReadable, CheckpointIntact, Readable, Pinned, CacheCoherent,
     CacheFilled, Opening, Appending, WritingRun, Merging, Recovering
<1> QED BY <1>2, <1>3, <1>4, <1>5 DEF IndInv

\* A compaction of the newest runs is asked for.
LEMMA CompactInv ==
  ASSUME IndInv, NEW retain \in BOOLEAN, Compact(retain)
  PROVE  IndInv'
PROOF
<1> USE DEF Compact, runFiles, pins, memory, counters
<1>1. /\ TypeOK /\ StepTypes
      /\ MemoryFollows /\ RunWritten /\ RunsMerged /\ Room /\ Pinned /\ Journal
      /\ ManifestReadable /\ CheckpointIntact /\ CacheCoherent /\ CacheFilled
  BY DEF IndInv
<1>0. store = current /\ ManifestOK(store) /\ base \in Nat /\ store.generation \in Nat
  BY <1>1, TypesOfManifests, RecordStoreAssumption DEF MemoryFollows, TypeOK, ManifestOK
<1>x. FanIn \in 1 .. Cardinality(DOMAIN store.runs)
  BY <1>0, RunsFinite, RecordStoreAssumption
<1>y. /\ work' \in Works /\ work'.inputs = NewestRuns(FanIn)
      /\ NewestIn(NewestRuns(FanIn), DOMAIN store.runs) /\ Cardinality(NewestRuns(FanIn)) = FanIn
  <2>1. NewestIn(NewestRuns(FanIn), DOMAIN store.runs) /\ Cardinality(NewestRuns(FanIn)) = FanIn
    BY <1>0, <1>x, NewestRunsFound
  <2>2. NewestRuns(FanIn) \subseteq Generations
    BY <1>0, <2>1, NextGenerationNew, Listed DEF NewestIn
  <2> QED BY <2>1, <2>2, IdleTypes DEF Works, Idle
<1>2. TypeOK'
  BY <1>1 DEF TypeOK, Batches
<1>3. StepTypes'
  BY <1>1, <1>y DEF StepTypes, Appending, WritingRun, Merging, Recovering, Idle
<1>4. MemoryFollows' /\ RunWritten' /\ Pinned' /\ Room'
  BY <1>1 DEF MemoryFollows, AppendedManifest, MergedManifest, NextGeneration, RunWritten,
     WritingRun, Pinned, Room, Suffix, Merging
<1>5. RunsMerged'
  BY <1>1, <1>y DEF RunsMerged, Merging
<1>6. Journal'
  BY <1>1 DEF Journal, WalFits, AtRest, Discarding, Redoing, WritingRun, Merging
<1>7. ManifestReadable' /\ CheckpointIntact' /\ CacheCoherent' /\ CacheFilled'
  BY <1>1 DEF ManifestReadable, CheckpointIntact, Readable, Pinned, CacheCoherent,
     CacheFilled, Opening, Appending, WritingRun, Merging, Recovering
<1> QED BY <1>2, <1>3, <1>4, <1>5, <1>6, <1>7 DEF IndInv

\* The merge of the inputs is written.
LEMMA WriteMergedInv ==
  ASSUME IndInv, WriteMerged
  PROVE  IndInv'
PROOF
<1> USE DEF WriteMerged, runFiles, pins, memory, counters
<1>1. /\ TypeOK /\ StepTypes
      /\ MemoryFollows /\ RunWritten /\ RunsMerged /\ Room /\ Pinned /\ Journal
      /\ ManifestReadable /\ CheckpointIntact /\ CacheCoherent /\ CacheFilled
  BY DEF IndInv
<1>0. /\ store = current /\ ManifestOK(store) /\ work \in Works
      /\ NewestIn(work.inputs, DOMAIN store.runs)
  BY <1>1, TypesOfManifests DEF MemoryFollows, StepTypes, RunsMerged, Merging
<1>x. MergeRuns(dat, work.inputs) = MergeRuns(store.runs, work.inputs)
  <2>1. \A g \in work.inputs : dat[g] = store.runs[g]
    BY <1>0, <1>1 DEF NewestIn, ManifestReadable, Readable
  <2>2. work.inputs \in SUBSET Generations
    BY <1>0 DEF Works
  <2> QED BY <2>1, <2>2, MergeRunsOf
<1>y. /\ work'.chunk = MergeRuns(store.runs, work.inputs) /\ work'.inputs = work.inputs
      /\ work' \in Works
  BY <1>0, <1>x, InputsMerge DEF Works
<1>2. TypeOK'
  BY <1>1 DEF TypeOK, Batches
<1>3. StepTypes'
  BY <1>1, <1>y DEF StepTypes, Appending, WritingRun, Merging, Recovering, Idle
<1>4. MemoryFollows' /\ RunWritten' /\ Pinned'
  BY <1>1 DEF MemoryFollows, AppendedManifest, MergedManifest, NextGeneration, RunWritten,
     WritingRun, Pinned
<1>5. RunsMerged'
  BY <1>1, <1>0, <1>y DEF RunsMerged, Merging
<1>6. Room'
  BY <1>1, <1>y DEF Room, Suffix, WritingRun, Merging
<1>7. Journal'
  BY <1>1 DEF Journal, WalFits, AtRest, Discarding, Redoing, WritingRun, Merging
<1>8. ManifestReadable' /\ CheckpointIntact' /\ CacheCoherent' /\ CacheFilled'
  BY <1>1 DEF ManifestReadable, CheckpointIntact, Readable, Pinned, CacheCoherent,
     CacheFilled, Opening, Appending, WritingRun, Merging, Recovering
<1> QED BY <1>2, <1>3, <1>4, <1>5, <1>6, <1>7, <1>8 DEF IndInv

\* The data of the merged run are renamed into place ...
LEMMA PublishMergedDataInv ==
  ASSUME IndInv, PublishMergedData
  PROVE  IndInv'
PROOF
<1> USE DEF PublishMergedData, runFiles, pins, memory, counters
<1>1. /\ TypeOK /\ StepTypes
      /\ MemoryFollows /\ RunWritten /\ RunsMerged /\ Room /\ Pinned /\ Journal
      /\ ManifestReadable /\ CheckpointIntact /\ CacheCoherent /\ CacheFilled
  BY DEF IndInv
<1>2. StepTypes'
  BY <1>1 DEF StepTypes, Appending, WritingRun, Merging, Recovering, Idle
<1>3. TypeOK'
  <2>1. dat' \in [Generations -> Contents]
    BY <1>1, RunRoom DEF TypeOK, Works, WritingRun, Merging
  <2> QED BY <1>1, <2>1 DEF TypeOK
<1>4. MemoryFollows' /\ RunsMerged' /\ Pinned' /\ Room'
  BY <1>1 DEF MemoryFollows, AppendedManifest, MergedManifest, NextGeneration, RunsMerged,
     Merging, Pinned, Room, Suffix, WritingRun
<1>5. RunWritten'
  <2>1. NextGeneration \in Generations /\ dat \in [Generations -> Contents] /\ idx \in [Generations -> SUBSET Keys]
    BY <1>1, RunRoom DEF TypeOK, WritingRun, Merging
  <2> QED BY <1>1, <2>1 DEF RunWritten, WritingRun, NextGeneration
<1>6. Journal'
  BY <1>1 DEF Journal, WalFits, AtRest, Discarding, Redoing, WritingRun, Merging
<1>7. CacheCoherent' /\ CacheFilled'
  BY <1>1 DEF CacheCoherent, CacheFilled, Opening, Appending, WritingRun, Merging,
     Recovering
<1>8. ManifestReadable' /\ CheckpointIntact'
  <2>1. store = current
    BY <1>1 DEF MemoryFollows
  <2>2. \A g \in Generations \ {NextGeneration} : dat'[g] = dat[g] /\ idx'[g] = idx[g]
    BY <1>1 DEF TypeOK
  <2> QED BY <2>1, <2>2, NextRunFiles
<1> QED BY <1>2, <1>3, <1>4, <1>5, <1>6, <1>7, <1>8 DEF IndInv

\* ... and its index.
LEMMA PublishMergedIndexInv ==
  ASSUME IndInv, PublishMergedIndex
  PROVE  IndInv'
PROOF
<1> USE DEF PublishMergedIndex, runFiles, pins, memory, counters
<1>1. /\ TypeOK /\ StepTypes
      /\ MemoryFollows /\ RunWritten /\ RunsMerged /\ Room /\ Pinned /\ Journal
      /\ ManifestReadable /\ CheckpointIntact /\ CacheCoherent /\ CacheFilled
  BY DEF IndInv
<1>2. StepTypes'
  BY <1>1 DEF StepTypes, Appending, WritingRun, Merging, Recovering, Idle
<1>3. TypeOK'
  <2>1. idx' \in [Generations -> SUBSET Keys]
    <3>1. DOMAIN work.chunk \subseteq Keys
      BY RunRoom, ContentsDef DEF Works, WritingRun, Merging
    <3> QED BY <1>1, <3>1 DEF TypeOK
  <2> QED BY <1>1, <2>1 DEF TypeOK
<1>4. MemoryFollows' /\ RunsMerged' /\ Pinned' /\ Room'
  BY <1>1 DEF MemoryFollows, AppendedManifest, MergedManifest, NextGeneration, RunsMerged,
     Merging, Pinned, Room, Suffix, WritingRun
<1>5. RunWritten'
  <2>1. NextGeneration \in Generations /\ dat \in [Generations -> Contents] /\ idx \in [Generations -> SUBSET Keys]
    BY <1>1, RunRoom DEF TypeOK, WritingRun, Merging
  <2> QED BY <1>1, <2>1 DEF RunWritten, WritingRun, NextGeneration
<1>6. Journal'
  BY <1>1 DEF Journal, WalFits, AtRest, Discarding, Redoing, WritingRun, Merging
<1>7. CacheCoherent' /\ CacheFilled'
  BY <1>1 DEF CacheCoherent, CacheFilled, Opening, Appending, WritingRun, Merging,
     Recovering
<1>8. ManifestReadable' /\ CheckpointIntact'
  <2>1. store = current
    BY <1>1 DEF MemoryFollows
  <2>2. \A g \in Generations \ {NextGeneration} : dat'[g] = dat[g] /\ idx'[g] = idx[g]
    BY <1>1 DEF TypeOK
  <2> QED BY <2>1, <2>2, NextRunFiles
<1> QED BY <1>2, <1>3, <1>4, <1>5, <1>6, <1>7, <1>8 DEF IndInv

\* The manifest of the compaction takes the place of CURRENT.
LEMMA PublishMergedInv ==
  ASSUME IndInv, PublishMerged
  PROVE  IndInv'
PROOF
<1> USE DEF PublishMerged, RenameManifest, runFiles, pins, memory, counters
<1>1. /\ TypeOK /\ StepTypes
      /\ MemoryFollows /\ RunWritten /\ RunsMerged /\ Room /\ Pinned /\ Journal
      /\ ManifestReadable /\ CheckpointIntact /\ CacheCoherent /\ CacheFilled
  BY DEF IndInv
<1>0. /\ store = current /\ ManifestOK(store) /\ ManifestOK(checkpoint)
      /\ store.generation < MaxGeneration
      /\ NewestIn(work.inputs, DOMAIN store.runs)
      /\ work.chunk \in Contents \ {NoRecords}
  BY <1>1, RunRoom, TypesOfManifests, InputsMerge DEF MemoryFollows, RunsMerged, Merging
<1>x. /\ current' = MergedManifest /\ store = current
      /\ current'.generation = store.generation + 1 /\ current'.batch = current.batch
  BY <1>0 DEF MergedManifest, NextGeneration
<1>y. /\ DOMAIN current'.runs = (DOMAIN store.runs \ work.inputs) \cup {NextGeneration}
      /\ current'.runs[NextGeneration] = work.chunk
      /\ \A g \in DOMAIN store.runs \ work.inputs : current'.runs[g] = store.runs[g]
  BY <1>0, <1>x, MergedRuns
<1>2. StepTypes'
  BY <1>1 DEF StepTypes, Appending, WritingRun, Merging, Recovering, Idle
<1>3. TypeOK'
  <2>1. ManifestOK(current)' /\ ManifestOK(store)' /\ ManifestOK(checkpoint)'
    BY <1>0, <1>x, MergedOK DEF ManifestOK
  <2> QED BY <1>1, <2>1, ManifestTypes DEF TypeOK
<1>4. MemoryFollows' /\ RunWritten' /\ RunsMerged' /\ Room'
  BY <1>1 DEF MemoryFollows, AppendedManifest, MergedManifest, NextGeneration, RunWritten,
     WritingRun, RunsMerged, Merging, Room, Suffix
<1>5. Pinned'
  <2>1. checkpoint.generation <= current'.generation
    BY <1>0, <1>1, <1>x, RecordStoreAssumption DEF Pinned, ManifestOK
  <2> QED BY <2>1 DEF Pinned
<1>6. Journal'
  <2>1. wal'.state = "none" \/ wal'.batch <= current'.batch
    BY <1>1, <1>x DEF Journal, AtRest, Merging
  <2>2. wal'.batch \in Nat /\ current'.batch \in Nat
    BY <1>0, <1>1, <1>x, RecordStoreAssumption DEF TypeOK, ManifestOK, Batches
  <2> QED BY <1>1, <2>1, <2>2 DEF Journal, WalFits, AtRest, Discarding, Redoing, WritingRun, Merging
<1>7. CacheCoherent' /\ CacheFilled'
  BY <1>1 DEF CacheCoherent, CacheFilled, Opening, Appending, WritingRun, Merging,
     Recovering
<1>8. ManifestReadable' /\ CheckpointIntact'
  <2>1. ASSUME NEW g \in DOMAIN current'.runs
        PROVE  dat'[g] = current'.runs[g] /\ idx'[g] = DOMAIN current'.runs[g]
    <3>1. CASE g = NextGeneration
      BY <1>1, <1>x, <1>y, <3>1 DEF RunWritten
    <3>2. CASE g # NextGeneration
      BY <1>1, <1>x, <1>y, <3>2 DEF ManifestReadable, Readable
    <3> QED BY <3>1, <3>2
  <2> QED BY <1>1, <2>1 DEF ManifestReadable, CheckpointIntact, Readable
<1> QED BY <1>2, <1>3, <1>4, <1>5, <1>6, <1>7, <1>8 DEF IndInv

\* A file of an input that nothing pins is removed.
LEMMA RemoveInputInv ==
  ASSUME IndInv, RemoveInput
  PROVE  IndInv'
PROOF
<1> USE DEF RemoveInput, runFiles, pins, memory, counters
<1>1. /\ TypeOK /\ StepTypes
      /\ MemoryFollows /\ RunWritten /\ RunsMerged /\ Room /\ Pinned /\ Journal
      /\ ManifestReadable /\ CheckpointIntact /\ CacheCoherent /\ CacheFilled
  BY DEF IndInv
<1>0. PICK g \in Removable :
        /\ dat' \in {dat, [dat EXCEPT ![g] = NoRecords]}
        /\ idx' \in {idx, [idx EXCEPT ![g] = {}]}
  OBVIOUS
<1>x. g \in work.inputs /\ g \notin DOMAIN pin
  BY DEF Removable
<1>y. g \notin DOMAIN current.runs /\ g \notin DOMAIN checkpoint.runs
  <2>1. /\ ManifestOK(store) /\ store.generation < MaxGeneration
        /\ NewestIn(work.inputs, DOMAIN store.runs)
    BY <1>1, RunRoom DEF RunsMerged, Merging
  <2>2. DOMAIN current.runs = (DOMAIN store.runs \ work.inputs) \cup {NextGeneration}
    BY <1>1, <2>1, MergedRuns DEF MemoryFollows
  <2>3. g # NextGeneration
    BY <1>x, <2>1, NextGenerationNew DEF NewestIn
  <2> QED BY <1>1, <1>x, <2>2, <2>3, Listed DEF CheckpointIntact
<1>z. /\ ManifestReadable' /\ CheckpointIntact'
      /\ dat' \in [Generations -> Contents] /\ idx' \in [Generations -> SUBSET Keys]
  BY <1>0, <1>y, OtherRunFiles
<1>2. StepTypes'
  BY <1>1 DEF StepTypes, Appending, WritingRun, Merging, Recovering, Idle
<1>3. TypeOK'
  BY <1>1, <1>z DEF TypeOK, Batches
<1>4. MemoryFollows' /\ RunWritten' /\ RunsMerged' /\ Pinned' /\ Room'
  BY <1>1 DEF MemoryFollows, AppendedManifest, MergedManifest, NextGeneration, RunWritten,
     WritingRun, RunsMerged, Merging, Pinned, Room, Suffix
<1>5. Journal'
  BY <1>1 DEF Journal, WalFits, AtRest, Discarding, Redoing, WritingRun, Merging
<1>6. CacheCoherent' /\ CacheFilled'
  BY <1>1 DEF CacheCoherent, CacheFilled, Opening, Appending, WritingRun, Merging,
     Recovering
<1>7. ManifestReadable' /\ CheckpointIntact'
  BY <1>z
<1> QED BY <1>2, <1>3, <1>4, <1>5, <1>6, <1>7 DEF IndInv

\* The merged run takes the place of its inputs in memory.
LEMMA RememberMergedInv ==
  ASSUME IndInv, RememberMerged
  PROVE  IndInv'
PROOF
<1> USE DEF RememberMerged, runFiles, pins, memory, counters
<1>1. /\ TypeOK /\ StepTypes
      /\ MemoryFollows /\ RunWritten /\ RunsMerged /\ Room /\ Pinned /\ Journal
      /\ ManifestReadable /\ CheckpointIntact /\ CacheCoherent /\ CacheFilled
  BY DEF IndInv
<1>0. /\ ManifestOK(store) /\ store.generation < MaxGeneration
      /\ NewestIn(work.inputs, DOMAIN store.runs)
      /\ work.chunk = MergeRuns(store.runs, work.inputs)
  BY <1>1, RunRoom DEF RunsMerged, Merging
<1>x. /\ store' = current /\ store' = MergedManifest
      /\ store'.generation = store.generation + 1 /\ store'.batch = store.batch
  BY <1>1 DEF MemoryFollows, MergedManifest, NextGeneration
<1>2. TypeOK'
  <2>1. ManifestOK(current)' /\ ManifestOK(store)' /\ ManifestOK(checkpoint)'
    BY <1>1, <1>x, TypesOfManifests DEF ManifestOK
  <2> QED BY <1>1, <2>1, ManifestTypes DEF TypeOK
<1>3. StepTypes'
  <2>1. CASE after = "ready"
    BY <1>1, <2>1, IdleTypes DEF StepTypes, Appending, WritingRun, Merging, Recovering, Idle
  <2>2. CASE after = "compact_batch"
    BY <1>1, <2>2, IdleTypes DEF StepTypes, Appending, WritingRun, Merging, Recovering, Idle
  <2> QED BY <1>1, <2>1, <2>2 DEF StepTypes, Appending, WritingRun, Merging, Recovering
<1>4. MemoryFollows'
  <2>1. CASE after = "ready"
    BY <1>1, <2>1, <1>x DEF MemoryFollows, AppendedManifest, MergedManifest, NextGeneration
  <2>2. CASE after = "compact_batch"
    BY <1>1, <2>2, <1>x DEF MemoryFollows, AppendedManifest, MergedManifest, NextGeneration
  <2> QED BY <1>1, <2>1, <2>2 DEF StepTypes, Appending, WritingRun, Merging, Recovering
<1>5. RunWritten'
  <2>1. CASE after = "ready"
    BY <1>1, <2>1, <1>x DEF RunWritten, WritingRun, NextGeneration
  <2>2. CASE after = "compact_batch"
    BY <1>1, <2>2, <1>x DEF RunWritten, WritingRun, NextGeneration
  <2> QED BY <1>1, <2>1, <2>2 DEF StepTypes, Appending, WritingRun, Merging, Recovering
<1>6. RunsMerged'
  <2>1. CASE after = "ready"
    BY <1>1, <2>1 DEF RunsMerged, Merging
  <2>2. CASE after = "compact_batch"
    BY <1>1, <2>2 DEF RunsMerged, Merging
  <2> QED BY <1>1, <2>1, <2>2 DEF StepTypes, Appending, WritingRun, Merging, Recovering
<1>7. Pinned'
  <2>1. CASE after = "ready"
    BY <1>1, <2>1, <1>x DEF Pinned
  <2>2. CASE after = "compact_batch"
    BY <1>1, <2>2, <1>x DEF Pinned
  <2> QED BY <1>1, <2>1, <2>2 DEF StepTypes, Appending, WritingRun, Merging, Recovering
<1>8. Room'
  <2>1. CASE after = "ready"
    BY <2>1 DEF Room, WritingRun, Merging
  <2>2. CASE after = "compact_batch"
    <3>1. /\ work.inputs \subseteq Suffix /\ Cardinality(work.inputs) > 1
          /\ store.generation + Cardinality(Suffix) <= MaxGeneration
      BY <1>1, <2>2 DEF Room, Merging
    <3>2. Suffix' = {g \in DOMAIN MergedManifest.runs : g > base}
      BY DEF Suffix
    <3>3. base \in Nat /\ store.generation \in Nat /\ Cardinality(Suffix) \in Nat
      BY <1>0, <1>1, RunsFinite, RecordStoreAssumption DEF TypeOK, ManifestOK
    <3>4. Cardinality(Suffix') \in Nat \ {0} /\ Cardinality(Suffix') + 1 <= Cardinality(Suffix)
      BY <1>0, <3>1, <3>2, <3>3, SuffixShrinks
    <3>5. /\ store'.generation < MaxGeneration
          /\ store'.generation + Cardinality(Suffix') <= MaxGeneration
      BY <1>x, <3>1, <3>3, <3>4, RecordStoreAssumption
    <3> QED BY <2>2, <3>5 DEF Room, WritingRun, Merging
  <2> QED BY <1>1, <2>1, <2>2 DEF StepTypes, Merging
<1>9. Journal'
  <2>1. CASE after = "ready"
    BY <1>1, <2>1, <1>x DEF Journal, WalFits, AtRest, Discarding, Redoing, WritingRun,
       Merging
  <2>2. CASE after = "compact_batch"
    BY <1>1, <2>2, <1>x DEF Journal, WalFits, AtRest, Discarding, Redoing, WritingRun,
       Merging
  <2> QED BY <1>1, <2>1, <2>2 DEF StepTypes, Appending, WritingRun, Merging, Recovering
<1>10. ManifestReadable' /\ CheckpointIntact'
  BY <1>1 DEF ManifestReadable, CheckpointIntact, Readable, Pinned
<1>11. CacheCoherent' /\ CacheFilled'
  <2>1. \A k \in Keys : Lookup(store, k)' = Lookup(store, k)
    BY <1>0, <1>x, LookupMerged
  <2>2. CacheCoherent'
    BY <2>1, CacheKept
  <2>3. CacheFilled'
    BY <1>1 DEF StepTypes, CacheFilled, Opening, Recovering, Appending, WritingRun, Merging
  <2> QED BY <2>2, <2>3
<1> QED BY <1>2, <1>3, <1>4, <1>5, <1>6, <1>7, <1>8, <1>9, <1>10, <1>11 DEF IndInv

\* A save pins the runs of CURRENT besides those that are pinned.
LEMMA PinBothInv ==
  ASSUME IndInv, PinBoth
  PROVE  IndInv'
PROOF
<1> USE DEF PinBoth, runFiles, pins, memory, counters
<1>1. /\ TypeOK /\ StepTypes
      /\ MemoryFollows /\ RunWritten /\ RunsMerged /\ Room /\ Pinned /\ Journal
      /\ ManifestReadable /\ CheckpointIntact /\ CacheCoherent /\ CacheFilled
  BY DEF IndInv
<1>0. /\ DOMAIN pin' = DOMAIN pin \cup DOMAIN current.runs
      /\ \A g \in DOMAIN pin : pin'[g] = pin[g]
      /\ \A g \in DOMAIN current.runs : pin'[g] = current.runs[g]
  BY DEF Over
<1>x. DOMAIN pin' \subseteq Generations
  BY <1>0, <1>1, Listed DEF TypeOK
<1>2. StepTypes'
  BY <1>1 DEF StepTypes, Appending, WritingRun, Merging, Recovering, Idle
<1>3. TypeOK'
  BY <1>1, <1>x DEF TypeOK, Batches
<1>4. MemoryFollows' /\ RunWritten' /\ RunsMerged' /\ Room'
  BY <1>1 DEF MemoryFollows, AppendedManifest, MergedManifest, NextGeneration, RunWritten,
     WritingRun, RunsMerged, Merging, Room, Suffix
<1>5. Pinned'
  BY <1>1, <1>0 DEF Pinned
<1>6. Journal'
  BY <1>1 DEF Journal, WalFits, AtRest, Discarding, Redoing, WritingRun, Merging
<1>7. CacheCoherent' /\ CacheFilled'
  BY <1>1 DEF CacheCoherent, CacheFilled, Opening, Appending, WritingRun, Merging,
     Recovering
<1>8. ManifestReadable' /\ CheckpointIntact'
  BY <1>1, <1>0 DEF ManifestReadable, CheckpointIntact, Readable, Pinned
<1> QED BY <1>2, <1>3, <1>4, <1>5, <1>6, <1>7, <1>8 DEF IndInv

\* The checkpoint is what CURRENT is.
LEMMA PublishCheckpointInv ==
  ASSUME IndInv, PublishCheckpoint
  PROVE  IndInv'
PROOF
<1> USE DEF PublishCheckpoint, runFiles, pins, memory, counters
<1>1. /\ TypeOK /\ StepTypes
      /\ MemoryFollows /\ RunWritten /\ RunsMerged /\ Room /\ Pinned /\ Journal
      /\ ManifestReadable /\ CheckpointIntact /\ CacheCoherent /\ CacheFilled
  BY DEF IndInv
<1>2. TypeOK' /\ StepTypes'
  BY <1>1 DEF TypeOK, Batches, StepTypes, Appending, WritingRun, Merging, Recovering, Idle
<1>3. MemoryFollows' /\ RunWritten' /\ RunsMerged' /\ Room'
  BY <1>1 DEF MemoryFollows, AppendedManifest, MergedManifest, NextGeneration, RunWritten,
     WritingRun, RunsMerged, Merging, Room, Suffix
<1>4. Pinned'
  BY <1>1, RecordStoreAssumption DEF Pinned, TypeOK
<1>5. Journal'
  BY <1>1 DEF Journal, WalFits, AtRest, Discarding, Redoing, WritingRun, Merging
<1>6. ManifestReadable' /\ CheckpointIntact' /\ CacheCoherent' /\ CacheFilled'
  BY <1>1 DEF ManifestReadable, CheckpointIntact, Readable, Pinned, CacheCoherent,
     CacheFilled, Opening, Appending, WritingRun, Merging, Recovering
<1> QED BY <1>2, <1>3, <1>4, <1>5, <1>6 DEF IndInv

\* The pins are those of the new checkpoint.
LEMMA NarrowPinsInv ==
  ASSUME IndInv, NarrowPins
  PROVE  IndInv'
PROOF
<1> USE DEF NarrowPins, runFiles, pins, memory, counters
<1>1. /\ TypeOK /\ StepTypes
      /\ MemoryFollows /\ RunWritten /\ RunsMerged /\ Room /\ Pinned /\ Journal
      /\ ManifestReadable /\ CheckpointIntact /\ CacheCoherent /\ CacheFilled
  BY DEF IndInv
<1>2. StepTypes'
  BY <1>1 DEF StepTypes, Appending, WritingRun, Merging, Recovering, Idle
<1>3. TypeOK'
  BY <1>1, Listed DEF TypeOK, Batches
<1>4. MemoryFollows' /\ RunWritten' /\ RunsMerged' /\ Pinned' /\ Room'
  BY <1>1 DEF MemoryFollows, AppendedManifest, MergedManifest, NextGeneration, RunWritten,
     WritingRun, RunsMerged, Merging, Pinned, Room, Suffix
<1>5. Journal'
  BY <1>1 DEF Journal, WalFits, AtRest, Discarding, Redoing, WritingRun, Merging
<1>6. ManifestReadable' /\ CheckpointIntact' /\ CacheCoherent' /\ CacheFilled'
  BY <1>1 DEF ManifestReadable, CheckpointIntact, Readable, Pinned, CacheCoherent,
     CacheFilled, Opening, Appending, WritingRun, Merging, Recovering
<1> QED BY <1>2, <1>3, <1>4, <1>5, <1>6 DEF IndInv

\* The checkpoint is deleted ...
LEMMA DeleteCheckpointInv ==
  ASSUME IndInv, DeleteCheckpoint
  PROVE  IndInv'
PROOF
<1> USE DEF DeleteCheckpoint, runFiles, pins, memory, counters
<1>1. /\ TypeOK /\ StepTypes
      /\ MemoryFollows /\ RunWritten /\ RunsMerged /\ Room /\ Pinned /\ Journal
      /\ ManifestReadable /\ CheckpointIntact /\ CacheCoherent /\ CacheFilled
  BY DEF IndInv
<1>0. /\ checkpoint'.generation = 0 /\ ManifestOK(EmptyManifest)
      /\ current.generation \in Nat
  BY <1>1, EmptyManifestOK, RecordStoreAssumption DEF EmptyManifest, TypeOK
<1>2. StepTypes'
  BY <1>1 DEF StepTypes, Appending, WritingRun, Merging, Recovering, Idle
<1>3. TypeOK'
  <2>1. ManifestOK(current)' /\ ManifestOK(store)' /\ ManifestOK(checkpoint)'
    BY <1>0, <1>1, TypesOfManifests DEF ManifestOK
  <2> QED BY <1>1, <2>1, ManifestTypes DEF TypeOK
<1>4. MemoryFollows' /\ RunWritten' /\ RunsMerged' /\ Room'
  BY <1>1 DEF MemoryFollows, AppendedManifest, MergedManifest, NextGeneration, RunWritten,
     WritingRun, RunsMerged, Merging, Room, Suffix
<1>5. Pinned'
  BY <1>1, <1>0 DEF Pinned
<1>6. Journal'
  BY <1>1, <1>0 DEF Journal, WalFits, AtRest, Discarding, Redoing, WritingRun, Merging
<1>7. CacheCoherent' /\ CacheFilled'
  BY <1>1 DEF CacheCoherent, CacheFilled, Opening, Appending, WritingRun, Merging,
     Recovering
<1>8. ManifestReadable' /\ CheckpointIntact'
  BY <1>1, <1>0 DEF ManifestReadable, CheckpointIntact, Readable, Pinned
<1> QED BY <1>2, <1>3, <1>4, <1>5, <1>6, <1>7, <1>8 DEF IndInv

\* ... and then its pins.
LEMMA ReleasePinsInv ==
  ASSUME IndInv, ReleasePins
  PROVE  IndInv'
PROOF
<1> USE DEF ReleasePins, runFiles, pins, memory, counters
<1>1. /\ TypeOK /\ StepTypes
      /\ MemoryFollows /\ RunWritten /\ RunsMerged /\ Room /\ Pinned /\ Journal
      /\ ManifestReadable /\ CheckpointIntact /\ CacheCoherent /\ CacheFilled
  BY DEF IndInv
<1>2. TypeOK' /\ StepTypes'
  BY <1>1 DEF TypeOK, Batches, StepTypes, Appending, WritingRun, Merging, Recovering, Idle
<1>3. MemoryFollows' /\ RunWritten' /\ RunsMerged' /\ Pinned' /\ Room'
  BY <1>1 DEF MemoryFollows, AppendedManifest, MergedManifest, NextGeneration, RunWritten,
     WritingRun, RunsMerged, Merging, Pinned, Room, Suffix
<1>4. Journal'
  BY <1>1 DEF Journal, WalFits, AtRest, Discarding, Redoing, WritingRun, Merging
<1>5. ManifestReadable' /\ CheckpointIntact' /\ CacheCoherent' /\ CacheFilled'
  BY <1>1 DEF ManifestReadable, CheckpointIntact, Readable, Pinned, CacheCoherent,
     CacheFilled, Opening, Appending, WritingRun, Merging, Recovering
<1> QED BY <1>2, <1>3, <1>4, <1>5 DEF IndInv

\* CURRENT becomes what the checkpoint is.
LEMMA RestoreInv ==
  ASSUME IndInv, Restore
  PROVE  IndInv'
PROOF
<1> USE DEF Restore, runFiles, pins, memory, counters
<1>1. /\ TypeOK /\ StepTypes
      /\ MemoryFollows /\ RunWritten /\ RunsMerged /\ Room /\ Pinned /\ Journal
      /\ ManifestReadable /\ CheckpointIntact /\ CacheCoherent /\ CacheFilled
  BY DEF IndInv
<1>2. TypeOK' /\ StepTypes'
  BY <1>1 DEF TypeOK, Batches, StepTypes, Appending, WritingRun, Merging, Recovering, Idle
<1>3. MemoryFollows' /\ RunWritten' /\ RunsMerged' /\ Room'
  BY <1>1 DEF MemoryFollows, AppendedManifest, MergedManifest, NextGeneration, RunWritten,
     WritingRun, RunsMerged, Merging, Room, Suffix
<1>4. Pinned'
  BY <1>1, RecordStoreAssumption DEF Pinned, TypeOK
<1>5. Journal'
  BY <1>1 DEF Journal, WalFits, AtRest, Discarding, Redoing, WritingRun, Merging
<1>6. ManifestReadable' /\ CheckpointIntact' /\ CacheCoherent' /\ CacheFilled'
  BY <1>1 DEF ManifestReadable, CheckpointIntact, Readable, Pinned, CacheCoherent,
     CacheFilled, Opening, Appending, WritingRun, Merging, Recovering
<1> QED BY <1>2, <1>3, <1>4, <1>5, <1>6 DEF IndInv

\* A store is closed.
LEMMA CloseInv ==
  ASSUME IndInv, Close
  PROVE  IndInv'
PROOF
<1> USE DEF Close, NoMemory, Saving, runFiles, pins, memory, counters
<1>1. /\ TypeOK /\ StepTypes
      /\ MemoryFollows /\ RunWritten /\ RunsMerged /\ Room /\ Pinned /\ Journal
      /\ ManifestReadable /\ CheckpointIntact /\ CacheCoherent /\ CacheFilled
  BY DEF IndInv
<1>0. /\ CacheCoherent' /\ \A s \in Slots : cache'[s] = NoRecords
      /\ \A s \in Slots : cache'[s] \in Contents /\ Cardinality(DOMAIN cache'[s]) <= 1
  BY NothingCached
<1>2. TypeOK'
  <2>1. ManifestOK(current)' /\ ManifestOK(store)' /\ ManifestOK(checkpoint)'
    BY <1>1, EmptyManifestOK, TypesOfManifests DEF ManifestOK
  <2> QED BY <1>0, <1>1, <2>1, ManifestTypes, RecordStoreAssumption DEF TypeOK
<1>3. StepTypes'
  BY <1>1, IdleTypes DEF StepTypes, Appending, WritingRun, Merging, Recovering, Idle
<1>4. MemoryFollows' /\ RunWritten' /\ RunsMerged' /\ Pinned' /\ Room'
  BY <1>1 DEF MemoryFollows, AppendedManifest, MergedManifest, NextGeneration, RunWritten,
     WritingRun, RunsMerged, Merging, Pinned, Room, Suffix
<1>5. Journal'
  BY <1>1 DEF Journal, WalFits, AtRest, Discarding, Redoing, WritingRun, Merging
<1>6. ManifestReadable' /\ CheckpointIntact'
  BY <1>1 DEF ManifestReadable, CheckpointIntact, Readable, Pinned
<1>7. CacheCoherent' /\ CacheFilled'
  BY <1>1, <1>0 DEF CacheCoherent, CacheFilled, Opening, Appending, WritingRun, Merging,
     Recovering
<1> QED BY <1>2, <1>3, <1>4, <1>5, <1>6, <1>7 DEF IndInv

\* The process ends.
LEMMA CrashInv ==
  ASSUME IndInv, Crash
  PROVE  IndInv'
PROOF
<1> USE DEF Crash, NoMemory, Saving, runFiles, pins, memory, counters
<1>1. /\ TypeOK /\ StepTypes
      /\ MemoryFollows /\ RunWritten /\ RunsMerged /\ Room /\ Pinned /\ Journal
      /\ ManifestReadable /\ CheckpointIntact /\ CacheCoherent /\ CacheFilled
  BY DEF IndInv
<1>0. /\ CacheCoherent' /\ \A s \in Slots : cache'[s] = NoRecords
      /\ \A s \in Slots : cache'[s] \in Contents /\ Cardinality(DOMAIN cache'[s]) <= 1
  BY NothingCached
<1>2. TypeOK'
  <2>1. ManifestOK(current)' /\ ManifestOK(store)' /\ ManifestOK(checkpoint)'
    BY <1>1, EmptyManifestOK, TypesOfManifests DEF ManifestOK
  <2> QED BY <1>0, <1>1, <2>1, ManifestTypes, RecordStoreAssumption DEF TypeOK
<1>3. StepTypes'
  BY <1>1, IdleTypes DEF StepTypes, Appending, WritingRun, Merging, Recovering, Idle
<1>4. MemoryFollows' /\ RunWritten' /\ RunsMerged' /\ Pinned' /\ Room'
  BY <1>1 DEF MemoryFollows, AppendedManifest, MergedManifest, NextGeneration, RunWritten,
     WritingRun, RunsMerged, Merging, Pinned, Room, Suffix
<1>5. Journal'
  BY <1>1 DEF Journal, WalFits, AtRest, Discarding, Redoing, WritingRun, Merging
<1>6. ManifestReadable' /\ CheckpointIntact'
  BY <1>1 DEF ManifestReadable, CheckpointIntact, Readable, Pinned
<1>7. CacheCoherent' /\ CacheFilled'
  BY <1>1, <1>0 DEF CacheCoherent, CacheFilled, Opening, Appending, WritingRun, Merging,
     Recovering
<1> QED BY <1>2, <1>3, <1>4, <1>5, <1>6, <1>7 DEF IndInv

\* A store is opened.
LEMMA OpenInv ==
  ASSUME IndInv, Open
  PROVE  IndInv'
PROOF
<1> USE DEF Open, runFiles, pins, memory, counters
<1>1. /\ TypeOK /\ StepTypes
      /\ MemoryFollows /\ RunWritten /\ RunsMerged /\ Room /\ Pinned /\ Journal
      /\ ManifestReadable /\ CheckpointIntact /\ CacheCoherent /\ CacheFilled
  BY DEF IndInv
<1>2. TypeOK' /\ StepTypes'
  BY <1>1 DEF TypeOK, Batches, StepTypes, Appending, WritingRun, Merging, Recovering, Idle
<1>3. MemoryFollows' /\ RunWritten' /\ RunsMerged' /\ Pinned' /\ Room'
  BY <1>1 DEF MemoryFollows, AppendedManifest, MergedManifest, NextGeneration, RunWritten,
     WritingRun, RunsMerged, Merging, Pinned, Room, Suffix
<1>4. Journal'
  BY <1>1 DEF Journal, WalFits, AtRest, Discarding, Redoing, WritingRun, Merging
<1>5. ManifestReadable' /\ CheckpointIntact'
  BY <1>1 DEF ManifestReadable, CheckpointIntact, Readable, Pinned
<1>6. CacheCoherent' /\ CacheFilled'
  <2>1. \A s \in Slots : cache'[s] = NoRecords
    BY <1>1 DEF CacheFilled, Opening
  <2> QED BY <2>1, EmptyContents DEF CacheCoherent, CacheFilled
<1> QED BY <1>2, <1>3, <1>4, <1>5, <1>6 DEF IndInv

\* A record is read and cached.
LEMMA LookupKeyInv ==
  ASSUME IndInv, NEW k \in Keys, LookupKey(k)
  PROVE  IndInv'
PROOF
<1> USE DEF LookupKey, runFiles, pins, memory, counters
<1>1. /\ TypeOK /\ StepTypes
      /\ MemoryFollows /\ RunWritten /\ RunsMerged /\ Room /\ Pinned /\ Journal
      /\ ManifestReadable /\ CheckpointIntact /\ CacheCoherent /\ CacheFilled
  BY DEF IndInv
<1>2. StepTypes'
  BY <1>1 DEF StepTypes, Appending, WritingRun, Merging, Recovering, Idle
<1>3. TypeOK'
  <2>1. Lookup(store, k) \in Payloads
    BY <1>1, TypesOfManifests, LookupType
  <2> DEFINE r == [key \in {k} |-> Lookup(store, k)]
  <2>2. r \in Contents /\ Cardinality(DOMAIN r) <= 1
    <3>1. DOMAIN r = {k} /\ r \in [DOMAIN r -> Payloads]
      BY <2>1
    <3>2. Cardinality({k}) = 1
      BY FS_Singleton
    <3> HIDE DEF r
    <3> QED BY <3>1, <3>2, ContentsDef
  <2>3. cache' = [cache EXCEPT ![external_cache_slot(k)] = r]
    OBVIOUS
  <2> HIDE DEF r
  <2>4. \A s \in Slots : cache'[s] \in Contents /\ Cardinality(DOMAIN cache'[s]) <= 1
    BY <1>1, <2>2, <2>3 DEF TypeOK
  <2> QED BY <1>1, <2>4 DEF TypeOK
<1>4. MemoryFollows' /\ RunWritten' /\ RunsMerged' /\ Pinned' /\ Room'
  BY <1>1 DEF MemoryFollows, AppendedManifest, MergedManifest, NextGeneration, RunWritten,
     WritingRun, RunsMerged, Merging, Pinned, Room, Suffix
<1>5. Journal'
  BY <1>1 DEF Journal, WalFits, AtRest, Discarding, Redoing, WritingRun, Merging
<1>6. ManifestReadable' /\ CheckpointIntact' /\ CacheCoherent' /\ CacheFilled'
  BY <1>1 DEF ManifestReadable, CheckpointIntact, Readable, Pinned, CacheCoherent,
     CacheFilled, Opening, Appending, WritingRun, Merging, Recovering
<1> QED BY <1>2, <1>3, <1>4, <1>5, <1>6 DEF IndInv

\* An append is begun.
LEMMA AppendBatchInv ==
  ASSUME IndInv, NEW b \in Batches, NEW S \in SUBSET Keys, AppendBatch(b, S)
  PROVE  IndInv'
PROOF
<1> USE DEF AppendBatch, runFiles, pins, memory, counters
<1>1. /\ TypeOK /\ StepTypes
      /\ MemoryFollows /\ RunWritten /\ RunsMerged /\ Room /\ Pinned /\ Journal
      /\ ManifestReadable /\ CheckpointIntact /\ CacheCoherent /\ CacheFilled
  BY DEF IndInv
<1>0. appends + 1 \in Payloads /\ appends + 1 \in 0 .. MaxAppends
  BY <1>1, RecordStoreAssumption DEF TypeOK, Payloads
<1>x. /\ [k \in S |-> appends + 1] \in Contents
      /\ work'.batch = b /\ work'.rest = [k \in S |-> appends + 1] /\ work' \in Works
  <2>1. [k \in S |-> appends + 1] \in Contents
    BY <1>0, ContentsDef
  <2> QED BY <2>1, IdleTypes DEF Works, Idle
<1>2. TypeOK'
  <2>1. store.generation \in 0 .. MaxGeneration /\ base' \in 0 .. MaxGeneration
    BY <1>1 DEF TypeOK
  <2>2. inflight' \in 0 .. appends' /\ appends' \in 0 .. MaxAppends
    BY <1>0, <1>1, RecordStoreAssumption DEF TypeOK
  <2> QED BY <1>1, <2>1, <2>2 DEF TypeOK
<1>3. StepTypes'
  BY <1>1, <1>x DEF StepTypes, Appending, WritingRun, Merging, Recovering, Idle
<1>4. MemoryFollows' /\ RunWritten' /\ RunsMerged' /\ Pinned' /\ Room'
  BY <1>1 DEF MemoryFollows, AppendedManifest, MergedManifest, NextGeneration, RunWritten,
     WritingRun, RunsMerged, Merging, Pinned, Room, Suffix
<1>5. Journal'
  BY <1>1 DEF Journal, WalFits, AtRest, Discarding, Redoing, WritingRun, Merging
<1>6. ManifestReadable' /\ CheckpointIntact' /\ CacheCoherent' /\ CacheFilled'
  BY <1>1 DEF ManifestReadable, CheckpointIntact, Readable, Pinned, CacheCoherent,
     CacheFilled, Opening, Appending, WritingRun, Merging, Recovering
<1> QED BY <1>2, <1>3, <1>4, <1>5, <1>6 DEF IndInv
(***************************************************************************)
(* The invariant.                                                          *)
(***************************************************************************)

\* An empty directory.
LEMMA InitInv == Init => IndInv
PROOF
<1> SUFFICES ASSUME Init PROVE IndInv
  OBVIOUS
<1> USE DEF Init
<1>1. /\ current = EmptyManifest /\ store = EmptyManifest /\ checkpoint = EmptyManifest
      /\ EmptyManifest.generation = 0 /\ DOMAIN EmptyManifest.runs = {} /\ ManifestOK(EmptyManifest)
  BY EmptyManifestOK, EmptyContents DEF EmptyManifest
<1>2. \A s \in Slots : /\ cache[s] = NoRecords /\ cache[s] \in Contents
                       /\ DOMAIN cache[s] = {} /\ Cardinality(DOMAIN cache[s]) <= 1
  BY EmptyContents, FS_EmptySet
<1>3. TypeOK
  <2>1. \A m \in {current, store, checkpoint} :
          /\ m.generation \in 0..MaxGeneration /\ m.batch \in Batches
          /\ DOMAIN m.runs \subseteq 1..m.generation
          /\ \A g \in DOMAIN m.runs : m.runs[g] \in Contents \ {NoRecords}
    BY <1>1 DEF ManifestOK
  <2>2. /\ dat \in [Generations -> Contents] /\ idx \in [Generations -> SUBSET Keys]
        /\ DOMAIN pin = {}
    BY EmptyContents
  <2>3. inflight \in 0..appends /\ base \in 0..MaxGeneration /\ appends \in 0..MaxAppends
    BY RecordStoreAssumption
  <2>4. /\ wal.state \in {"none", "torn", "complete"} /\ wal.batch \in Batches
        /\ wal.records \in Contents
    BY IdleTypes
  <2> QED BY <1>2, <2>1, <2>2, <2>3, <2>4 DEF TypeOK
<1>4. StepTypes
  BY IdleTypes DEF StepTypes, Appending, WritingRun, Merging, Recovering
<1>5. MemoryFollows /\ RunWritten /\ RunsMerged /\ Room
  BY DEF MemoryFollows, RunWritten, RunsMerged, Room, WritingRun, Merging
<1>6. Pinned /\ ManifestReadable /\ CheckpointIntact
  BY <1>1 DEF Pinned, ManifestReadable, CheckpointIntact, Readable
<1>7. Journal
  BY <1>1, IdleTypes DEF Journal, WalFits, AtRest, Discarding, Redoing, WritingRun, Merging
<1>8. CacheCoherent /\ CacheFilled
  BY <1>2 DEF CacheCoherent, CacheFilled
<1> QED BY <1>3, <1>4, <1>5, <1>6, <1>7, <1>8 DEF IndInv

\* No step leaves the invariant.
LEMMA NextInv == IndInv /\ [Next]_vars => IndInv'
PROOF
<1> SUFFICES ASSUME IndInv, [Next]_vars PROVE IndInv'
  OBVIOUS
<1>1. CASE Open \/ Close
  BY <1>1, OpenInv, CloseInv
<1>2. CASE Continue
  BY <1>2, RemoveOrphanInv, CleanupDoneInv, RecoveringInv, DropCommittedWalInv,
     DiscardWalInv, UnlinkDataInv, UnlinkIndexInv, RedoInv, StartChunkInv, InTheWayInv,
     CompleteWalInv, WritingInv, PublishDataInv, PublishIndexInv, PublishAppendInv,
     RememberInv, UnlinkWalInv, CompactSuffixInv, CompactRetainedInv, AskingInv,
     WriteMergedInv, PublishMergedDataInv, PublishMergedIndexInv, PublishMergedInv,
     RemoveInputInv, RememberMergedInv, PublishCheckpointInv, NarrowPinsInv DEF Continue
<1>3. CASE Request
  BY <1>3, LookupKeyInv, AppendBatchInv, CompactInv, AskingInv, CompactBatchRunsInv,
     PinBothInv, DeleteCheckpointInv, ReleasePinsInv, RestoreInv DEF Request
<1>4. CASE Interruption
  BY <1>4, CrashInv, InTheWayInv, AppendRefusedInv, UnlinkWalFailsInv DEF Interruption
<1>5. CASE UNCHANGED vars
  <2> USE <1>5 DEF vars, runFiles, pins, memory, counters
  <2>1. TypeOK' /\ StepTypes' /\ Pinned' /\ ManifestReadable' /\ CheckpointIntact'
    BY DEF IndInv, TypeOK, StepTypes, Pinned, ManifestReadable, CheckpointIntact, Readable
  <2>2. MemoryFollows'
    BY DEF IndInv, MemoryFollows, AppendedManifest, MergedManifest, NextGeneration
  <2>3. RunWritten' /\ RunsMerged'
    BY DEF IndInv, RunWritten, RunsMerged, NextGeneration
  <2>4. Room' /\ Journal'
    BY DEF IndInv, Room, Suffix, Journal, WalFits, AtRest, Discarding, Redoing
  <2>5. CacheCoherent' /\ CacheFilled'
    BY DEF IndInv, CacheCoherent, CacheFilled, Opening
  <2> QED BY <2>1, <2>2, <2>3, <2>4, <2>5 DEF IndInv
<1> QED BY <1>1, <1>2, <1>3, <1>4, <1>5 DEF Next

\* The invariant holds in every behaviour of the component.
THEOREM Invariance == Spec => []IndInv
PROOF
  BY InitInv, NextInv, PTL DEF Spec

\* The state has its types: no manifest lists a run beyond its generation and
\* no generation or batch number leaves its range (load_manifest, append_batch,
\* compact_newest_runs).
THEOREM TypeCorrect == Spec => []TypeOK
PROOF
<1>1. IndInv => TypeOK
  BY DEF IndInv
<1> QED BY <1>1, Invariance, PTL

\* Whenever the process dies, in whatever step of an append, a recovery or a
\* compaction, load_manifest finds every run that CURRENT lists, complete.
THEOREM ManifestAlwaysReadable == Spec => []ManifestReadable
PROOF
<1>1. IndInv => ManifestReadable
  BY DEF IndInv
<1> QED BY <1>1, Invariance, PTL

\* Until it is deleted, a checkpoint refers to runs that are pinned and intact:
\* cleanup_orphans and compaction never remove what a restore would need.
THEOREM CheckpointSurvives == Spec => []CheckpointIntact
PROOF
<1>1. IndInv => CheckpointIntact
  BY DEF IndInv
<1> QED BY <1>1, Invariance, PTL

\* lookup answers from its cache what it would read from the runs, whatever
\* appends and compactions happened since the slot was filled.
THEOREM CacheIsCoherent == Spec => []CacheCoherent
PROOF
<1>1. IndInv => CacheCoherent
  BY DEF IndInv
<1> QED BY <1>1, Invariance, PTL

\* A store that accepts operations has in memory the manifest that is on disk.
THEOREM MemoryIsDisk == Spec => []MemoryMatchesDisk
PROOF
<1>1. IndInv => MemoryMatchesDisk
  BY DEF IndInv, MemoryFollows, MemoryMatchesDisk
<1> QED BY <1>1, Invariance, PTL

\* No step leaves files beyond the generation behind.
LEMMA NoneBeyondNext ==
  ASSUME MaxSaveCrashes = 0, IndInv, NoneBeyond, [Next]_vars
  PROVE  NoneBeyond'
PROOF
<1>1. /\ TypeOK /\ StepTypes /\ MemoryFollows /\ RunsMerged
      /\ Pinned /\ Journal /\ CheckpointIntact
  BY DEF IndInv
<1> USE DEF runFiles, pins, memory, counters
<1>2. CASE Open
  BY <1>1, <1>2 DEF Open, NoneBeyond, Beyond, Settled, Appending, WritingRun, Merging,
     Recovering, NextGeneration, StepTypes
<1>3. CASE Close
  BY <1>1, <1>3 DEF Close, NoMemory, NoneBeyond, Beyond, Settled, Appending, WritingRun,
     Merging, Recovering, NextGeneration, StepTypes
<1>4. CASE RemoveOrphan
  <2>1. Beyond' \subseteq Beyond
    BY <1>1, <1>4 DEF RemoveOrphan, TypeOK, Beyond
  <2>2. UNCHANGED <<pc, after, current, checkpoint, pin, store>>
    BY <1>4 DEF RemoveOrphan
  <2> QED BY <2>1, <2>2 DEF NoneBeyond, Settled, NextGeneration
<1>5. CASE CleanupDone
  <2>1. /\ store = current /\ DOMAIN store.runs \subseteq 1 .. current.generation
        /\ current.generation \in Nat
    BY <1>1, <1>5, RecordStoreAssumption DEF CleanupDone, MemoryFollows, TypeOK
  <2>2. Kept \subseteq 1 .. current.generation
    BY <2>1 DEF Kept, NoneBeyond
  <2>3. Beyond' = {}
    <3> SUFFICES ASSUME NEW g \in Beyond' PROVE FALSE
      OBVIOUS
    <3>1. g \in Generations /\ g > store.generation /\ (dat[g] # NoRecords \/ idx[g] # {})
      BY <1>5 DEF CleanupDone, Beyond
    <3>2. g \in Kept
      BY <1>5, <3>1 DEF CleanupDone, Orphans
    <3> QED BY <2>1, <2>2, <3>1, <3>2
  <2>4. UNCHANGED <<current, checkpoint, pin>> /\ pc \notin {"save", "narrow"}
    BY <1>5 DEF CleanupDone
  <2> QED BY <2>3, <2>4 DEF NoneBeyond
<1>6. CASE RecoverNothing
  BY <1>1, <1>6 DEF RecoverNothing, NoneBeyond, Beyond, Settled, Appending, WritingRun,
     Merging, Recovering, NextGeneration, StepTypes
<1>7. CASE DropCommittedWal
  BY <1>1, <1>7 DEF DropCommittedWal, NoneBeyond, Beyond, Settled, Appending, WritingRun,
     Merging, Recovering, NextGeneration, StepTypes
<1>8. CASE DiscardWal
  BY <1>1, <1>8 DEF DiscardWal, NoneBeyond, Beyond, Settled, Appending, WritingRun, Merging,
     Recovering, NextGeneration, StepTypes
<1>9. CASE RedoWal
  BY <1>1, <1>9 DEF RedoWal, NoneBeyond, Beyond, Settled, Appending, WritingRun, Merging,
     Recovering, NextGeneration, StepTypes
<1>10. CASE UnlinkData
  BY <1>1, <1>10 DEF UnlinkData, NoneBeyond, Beyond, Settled, Appending, WritingRun,
     Merging, Recovering, NextGeneration, StepTypes
<1>11. CASE UnlinkIndex
  BY <1>1, <1>11 DEF UnlinkIndex, NoneBeyond, Beyond, Settled, Appending, WritingRun,
     Merging, Recovering, NextGeneration, StepTypes
<1>12. CASE Discarded
  BY <1>1, <1>12 DEF Discarded, NoneBeyond, Beyond, Settled, Appending, WritingRun, Merging,
     Recovering, NextGeneration, StepTypes
<1>13. CASE Redo
  BY <1>1, <1>13 DEF Redo, NoneBeyond, Beyond, Settled, Appending, WritingRun, Merging,
     Recovering, NextGeneration, StepTypes
<1>14. CASE StartChunk
  BY <1>1, <1>14 DEF StartChunk, NoneBeyond, Beyond, Settled, Appending, WritingRun,
     Merging, Recovering, NextGeneration, StepTypes
<1>15. CASE WalExists
  BY <1>1, <1>15 DEF WalExists, NoneBeyond, Beyond, Settled, Appending, WritingRun, Merging,
     Recovering, NextGeneration, StepTypes
<1>16. CASE CompleteWal
  BY <1>1, <1>16 DEF CompleteWal, NoneBeyond, Beyond, Settled, Appending, WritingRun,
     Merging, Recovering, NextGeneration, StepTypes
<1>17. CASE WriteSegment
  BY <1>1, <1>17 DEF WriteSegment, NoneBeyond, Beyond, Settled, Appending, WritingRun,
     Merging, Recovering, NextGeneration, StepTypes
<1>18. CASE GenerationExists
  BY <1>1, <1>18 DEF GenerationExists, NoneBeyond, Beyond, Settled, Appending, WritingRun,
     Merging, Recovering, NextGeneration, StepTypes
<1>19. CASE PublishData
  BY <1>1, <1>19 DEF PublishData, NoneBeyond, Beyond, Settled, Appending, WritingRun,
     Merging, Recovering, NextGeneration, StepTypes
<1>20. CASE PublishIndex
  BY <1>1, <1>20 DEF PublishIndex, NoneBeyond, Beyond, Settled, Appending, WritingRun,
     Merging, Recovering, NextGeneration, StepTypes
<1>21. CASE WriteAppendManifest
  BY <1>1, <1>21 DEF WriteAppendManifest, WriteManifest, NoneBeyond, Beyond, Settled,
     Appending, WritingRun, Merging, Recovering, NextGeneration, StepTypes
<1>22. CASE PublishAppend
  <2>1. /\ store = current /\ current.generation \in Nat
        /\ current'.generation = current.generation + 1
    BY <1>1, <1>22, RecordStoreAssumption DEF PublishAppend, RenameManifest, AppendedManifest, MemoryFollows, TypeOK, NextGeneration
  <2>2. DOMAIN pin \subseteq 1 .. current'.generation
    BY <2>1 DEF NoneBeyond
  <2>3. Beyond' \subseteq {NextGeneration'}
    BY <1>22 DEF PublishAppend, RenameManifest, NoneBeyond, Beyond, NextGeneration
  <2> QED BY <1>22, <2>2, <2>3 DEF PublishAppend, RenameManifest, NoneBeyond, Settled, Recovering
<1>23. CASE Remember
  <2>1. store.generation \in Nat /\ store'.generation = NextGeneration /\ pc' \in {"unlink_wal"}
    BY <1>1, <1>23, RecordStoreAssumption DEF Remember, AppendedManifest, NextGeneration, TypeOK, StepTypes, Appending, WritingRun, Merging
  <2>2. Beyond \subseteq {NextGeneration}
    BY <1>23 DEF Remember, NoneBeyond
  <2>3. Beyond' = {}
    <3> SUFFICES ASSUME NEW g \in Beyond' PROVE FALSE
      OBVIOUS
    <3>1. g \in Generations /\ g > NextGeneration /\ (dat[g] # NoRecords \/ idx[g] # {})
      BY <1>23, <2>1 DEF Remember, Beyond
    <3>2. g \in Beyond /\ g # NextGeneration
      BY <2>1, <3>1 DEF Beyond, NextGeneration, Generations
    <3> QED BY <2>2, <3>2
  <2>4. UNCHANGED <<current, checkpoint, pin>> /\ pc \notin {"save", "narrow"}
    BY <1>23 DEF Remember
  <2> QED BY <2>1, <2>3, <2>4 DEF NoneBeyond
<1>24. CASE UnlinkWal
  BY <1>1, <1>24 DEF UnlinkWal, NextChunk, NoneBeyond, Beyond, Settled, Appending,
     WritingRun, Merging, Recovering, NextGeneration, StepTypes
<1>25. CASE CompactSuffix
  BY <1>1, <1>25 DEF CompactSuffix, NoneBeyond, Beyond, Settled, Appending, WritingRun,
     Merging, Recovering, NextGeneration, StepTypes
<1>26. CASE CompactRetained
  BY <1>1, <1>26 DEF CompactRetained, NoneBeyond, Beyond, Settled, Appending, WritingRun,
     Merging, Recovering, NextGeneration, StepTypes
<1>27. CASE CompactBatchDone
  BY <1>1, <1>27 DEF CompactBatchDone, NoneBeyond, Beyond, Settled, Appending, WritingRun,
     Merging, Recovering, NextGeneration, StepTypes
<1>28. CASE WriteMerged
  BY <1>1, <1>28 DEF WriteMerged, NoneBeyond, Beyond, Settled, Appending, WritingRun,
     Merging, Recovering, NextGeneration, StepTypes
<1>29. CASE PublishMergedData
  BY <1>1, <1>29 DEF PublishMergedData, NoneBeyond, Beyond, Settled, Appending, WritingRun,
     Merging, Recovering, NextGeneration, StepTypes
<1>30. CASE PublishMergedIndex
  BY <1>1, <1>30 DEF PublishMergedIndex, NoneBeyond, Beyond, Settled, Appending, WritingRun,
     Merging, Recovering, NextGeneration, StepTypes
<1>31. CASE WriteMergedManifest
  BY <1>1, <1>31 DEF WriteMergedManifest, WriteManifest, NoneBeyond, Beyond, Settled,
     Appending, WritingRun, Merging, Recovering, NextGeneration, StepTypes
<1>32. CASE PublishMerged
  <2>1. /\ store = current /\ current.generation \in Nat
        /\ current'.generation = current.generation + 1
    BY <1>1, <1>32, RecordStoreAssumption DEF PublishMerged, RenameManifest, MergedManifest, MemoryFollows, TypeOK, NextGeneration
  <2>2. DOMAIN pin \subseteq 1 .. current'.generation
    BY <2>1 DEF NoneBeyond
  <2>3. Beyond' \subseteq {NextGeneration'}
    BY <1>32 DEF PublishMerged, RenameManifest, NoneBeyond, Beyond, NextGeneration
  <2> QED BY <1>32, <2>2, <2>3 DEF PublishMerged, RenameManifest, NoneBeyond, Settled, Recovering
<1>33. CASE RemoveInput
  <2>1. Beyond' \subseteq Beyond
    BY <1>1, <1>33 DEF RemoveInput, TypeOK, Beyond
  <2>2. UNCHANGED <<pc, after, current, checkpoint, pin, store>>
    BY <1>33 DEF RemoveInput
  <2> QED BY <2>1, <2>2 DEF NoneBeyond, Settled, NextGeneration
<1>34. CASE RememberMerged
  <2>1. store.generation \in Nat /\ store'.generation = NextGeneration /\ pc' \in {"ready", "compact_batch"}
    BY <1>1, <1>34, RecordStoreAssumption DEF RememberMerged, MergedManifest, NextGeneration, TypeOK, StepTypes, Appending, WritingRun, Merging
  <2>2. Beyond \subseteq {NextGeneration}
    BY <1>34 DEF RememberMerged, NoneBeyond
  <2>3. Beyond' = {}
    <3> SUFFICES ASSUME NEW g \in Beyond' PROVE FALSE
      OBVIOUS
    <3>1. g \in Generations /\ g > NextGeneration /\ (dat[g] # NoRecords \/ idx[g] # {})
      BY <1>34, <2>1 DEF RememberMerged, Beyond
    <3>2. g \in Beyond /\ g # NextGeneration
      BY <2>1, <3>1 DEF Beyond, NextGeneration, Generations
    <3> QED BY <2>2, <3>2
  <2>4. UNCHANGED <<current, checkpoint, pin>> /\ pc \notin {"save", "narrow"}
    BY <1>34 DEF RememberMerged
  <2> QED BY <2>1, <2>3, <2>4 DEF NoneBeyond
<1>35. CASE PublishCheckpoint
  BY <1>1, <1>35 DEF PublishCheckpoint, NoneBeyond, Beyond, Settled, Appending, WritingRun,
     Merging, Recovering, NextGeneration, StepTypes
<1>36. CASE NarrowPins
  BY <1>1, <1>36, RecordStoreAssumption DEF NarrowPins, NoneBeyond, Beyond, Settled,
     Appending, WritingRun, Merging, Recovering, NextGeneration, StepTypes, TypeOK, Pinned
<1>37. CASE ReclaimOrphans
  BY <1>1, <1>37 DEF ReclaimOrphans, NoneBeyond, Beyond, Settled, Appending, WritingRun,
     Merging, Recovering, NextGeneration, StepTypes
<1>38. CASE CompactBatchRuns
  BY <1>1, <1>38 DEF CompactBatchRuns, NoneBeyond, Beyond, Settled, Appending, WritingRun,
     Merging, Recovering, NextGeneration, StepTypes
<1>39. CASE PinBoth
  BY <1>1, <1>39, RecordStoreAssumption DEF PinBoth, NoneBeyond, Beyond, Settled, Appending,
     WritingRun, Merging, Recovering, NextGeneration, StepTypes, TypeOK, Over
<1>40. CASE DeleteCheckpoint
  BY <1>1, <1>40, RecordStoreAssumption DEF DeleteCheckpoint, NoneBeyond, Beyond, Settled,
     Appending, WritingRun, Merging, Recovering, NextGeneration, StepTypes, EmptyManifest
<1>41. CASE ReleasePins
  BY <1>1, <1>41 DEF ReleasePins, NoneBeyond, Beyond, Settled, Appending, WritingRun,
     Merging, Recovering, NextGeneration, StepTypes
<1>42. CASE Restore
  BY <1>1, <1>42 DEF Restore, NoneBeyond, Beyond, Settled, Appending, WritingRun, Merging,
     Recovering, NextGeneration, StepTypes
<1>43. CASE Crash
  BY <1>1, <1>43 DEF Crash, NoMemory, Saving, NoneBeyond, Beyond, Settled, Appending,
     WritingRun, Merging, Recovering, NextGeneration, StepTypes
<1>44. CASE Throws
  BY <1>1, <1>44 DEF Throws, NoneBeyond, Beyond, Settled, Appending, WritingRun, Merging,
     Recovering, NextGeneration, StepTypes
<1>45. CASE AppendRefused
  BY <1>1, <1>45 DEF AppendRefused, NoneBeyond, Beyond, Settled, Appending, WritingRun,
     Merging, Recovering, NextGeneration, StepTypes
<1>46. CASE UnlinkWalFails
  BY <1>1, <1>46 DEF UnlinkWalFails, NextChunk, NoneBeyond, Beyond, Settled, Appending,
     WritingRun, Merging, Recovering, NextGeneration, StepTypes
<1>47. CASE SaveFails
  BY <1>1, <1>47 DEF SaveFails, NoneBeyond, Beyond, Settled, Appending, WritingRun, Merging,
     Recovering, NextGeneration, StepTypes
<1>48. ASSUME NEW k \in Keys, LookupKey(k)
      PROVE  NoneBeyond'
  BY <1>1, <1>48 DEF LookupKey, NoneBeyond, Beyond, Settled, Appending, WritingRun, Merging,
     Recovering, NextGeneration, StepTypes
<1>49. ASSUME NEW b \in Batches, NEW S \in SUBSET Keys, AppendBatch(b, S)
      PROVE  NoneBeyond'
  BY <1>1, <1>49 DEF AppendBatch, NoneBeyond, Beyond, Settled, Appending, WritingRun,
     Merging, Recovering, NextGeneration, StepTypes
<1>50. ASSUME NEW retain \in BOOLEAN, Compact(retain)
      PROVE  NoneBeyond'
  BY <1>1, <1>50 DEF Compact, NoneBeyond, Beyond, Settled, Appending, WritingRun, Merging,
     Recovering, NextGeneration, StepTypes
<1>51. CASE UNCHANGED vars
  BY <1>1, <1>51 DEF vars, NoneBeyond, Beyond, Settled, Appending, WritingRun, Merging,
     Recovering, NextGeneration, StepTypes
<1> QED BY <1>2, <1>3, <1>4, <1>5, <1>6, <1>7, <1>8, <1>9, <1>10, <1>11, <1>12, <1>13,
           <1>14, <1>15, <1>16, <1>17, <1>18, <1>19, <1>20, <1>21, <1>22, <1>23, <1>24,
           <1>25, <1>26, <1>27, <1>28, <1>29, <1>30, <1>31, <1>32, <1>33, <1>34, <1>35,
           <1>36, <1>37, <1>38, <1>39, <1>40, <1>41, <1>42, <1>43, <1>44, <1>45, <1>46,
           <1>47, <1>48, <1>49, <1>50, <1>51 DEF Next, Continue, Request, Interruption

\* No step brings in records of another append.
LEMMA InFlightNext ==
  ASSUME MaxUnlinkFailures = 0 \/ ~Checkpoints, IndInv, InFlight, [Next]_vars
  PROVE  InFlight'
PROOF
<1>1. /\ TypeOK /\ StepTypes /\ MemoryFollows /\ RunsMerged
      /\ Pinned /\ Journal /\ CheckpointIntact
  BY DEF IndInv
<1> USE DEF runFiles, pins, memory, counters
<1>2. CASE Open
  BY <1>1, <1>2 DEF Open, InFlight, WalPending, AtRest, Appending, WritingRun, Merging,
     Recovering
<1>3. CASE Close
  BY <1>1, <1>3 DEF Close, NoMemory, InFlight, WalPending, AtRest, Appending, WritingRun,
     Merging, Recovering
<1>4. CASE RemoveOrphan
  BY <1>1, <1>4 DEF RemoveOrphan, InFlight, WalPending, AtRest, Appending, WritingRun,
     Merging, Recovering
<1>5. CASE CleanupDone
  <2>1. CASE after = "recover"
    BY <1>1, <1>5, <2>1 DEF CleanupDone, InFlight, WalPending, AtRest, Appending, WritingRun,
       Merging, Recovering
  <2>2. CASE after = "ready"
    BY <1>1, <1>5, <2>2 DEF CleanupDone, InFlight, WalPending, AtRest, Appending, WritingRun,
       Merging, Recovering
  <2>3. CASE after = "compact"
    BY <1>1, <1>5, <2>3 DEF CleanupDone, InFlight, WalPending, AtRest, Appending, WritingRun,
       Merging, Recovering
  <2> QED BY <1>1, <1>5, <2>1, <2>2, <2>3 DEF CleanupDone, StepTypes, Appending, Merging
<1>6. CASE RecoverNothing
  BY <1>1, <1>6 DEF RecoverNothing, InFlight, WalPending, AtRest, Appending, WritingRun,
     Merging, Recovering
<1>7. CASE DropCommittedWal
  BY <1>1, <1>7, IdleTypes DEF DropCommittedWal, InFlight, WalPending, AtRest, Appending,
     WritingRun, Merging, Recovering, Journal
<1>8. CASE DiscardWal
  BY <1>1, <1>8, IdleTypes DEF DiscardWal, InFlight, WalPending, AtRest, Appending,
     WritingRun, Merging, Recovering, Journal
<1>9. CASE RedoWal
  BY <1>1, <1>9 DEF RedoWal, InFlight, WalPending, AtRest, Appending, WritingRun, Merging,
     Recovering
<1>10. CASE UnlinkData
  BY <1>1, <1>10 DEF UnlinkData, InFlight, WalPending, AtRest, Appending, WritingRun,
     Merging, Recovering
<1>11. CASE UnlinkIndex
  <2>1. CASE after = "discarded"
    BY <1>1, <1>11, <2>1 DEF UnlinkIndex, InFlight, WalPending, AtRest, Appending, WritingRun,
       Merging, Recovering
  <2>2. CASE after = "redo"
    BY <1>1, <1>11, <2>2 DEF UnlinkIndex, InFlight, WalPending, AtRest, Appending, WritingRun,
       Merging, Recovering
  <2> QED BY <1>1, <1>11, <2>1, <2>2 DEF UnlinkIndex, StepTypes, Appending, Merging
<1>12. CASE Discarded
  BY <1>1, <1>12, IdleTypes DEF Discarded, InFlight, WalPending, AtRest, Appending,
     WritingRun, Merging, Recovering, Journal, Discarding
<1>13. CASE Redo
  <2>1. /\ WalPending /\ wal \in Journals
    BY <1>1, <1>13 DEF Redo, Journal, Redoing, WalPending, MemoryFollows, Recovering, StepTypes
  <2>2. /\ work'.rest = wal.records /\ wal'.state = "none" /\ pc' = "append"
        /\ inflight' = inflight
    BY <1>13, IdleTypes DEF Redo, Idle
  <2> QED BY <1>13, <2>1, <2>2 DEF Redo, InFlight, WalPending, AtRest, Appending, WritingRun, Merging
<1>14. CASE StartChunk
  <2>1. PICK S \in Chunks(work.rest) :
          /\ work' = [work EXCEPT !.chunk = Restrict(work.rest, S), !.rest = Without(work.rest, S)]
          /\ wal' = [state |-> "torn", batch |-> work.batch, records |-> Restrict(work.rest, S)]
    BY <1>14 DEF StartChunk
  <2>2. /\ work \in Works /\ work.rest \in Contents /\ S \in SUBSET DOMAIN work.rest
    BY <1>1, <2>1 DEF StepTypes, Works, Chunks
  <2>3. \A k \in DOMAIN work.rest : work.rest[k] = inflight
    BY <1>14 DEF StartChunk, InFlight, Appending
  <2>4. /\ \A k \in DOMAIN Restrict(work.rest, S) : Restrict(work.rest, S)[k] = inflight
        /\ \A k \in DOMAIN Without(work.rest, S) : Without(work.rest, S)[k] = inflight
    <3>1. /\ DOMAIN Restrict(work.rest, S) = S
          /\ \A k \in S : Restrict(work.rest, S)[k] = work.rest[k]
      BY <2>2, PartOfContents
    <3>2. /\ DOMAIN Without(work.rest, S) = DOMAIN work.rest \ S
          /\ \A k \in DOMAIN work.rest \ S : Without(work.rest, S)[k] = work.rest[k]
      BY <2>2, WithoutContents
    <3> QED BY <2>2, <2>3, <3>1, <3>2
  <2>5. /\ work'.chunk = Restrict(work.rest, S) /\ work'.rest = Without(work.rest, S)
        /\ wal'.records = Restrict(work.rest, S)
    BY <2>1, <2>2 DEF Works
  <2> QED BY <1>14, <2>4, <2>5 DEF StartChunk, InFlight, WalPending, AtRest, Appending, WritingRun, Merging
<1>15. CASE WalExists
  BY <1>1, <1>15 DEF WalExists, InFlight, WalPending, AtRest, Appending, WritingRun,
     Merging, Recovering
<1>16. CASE CompleteWal
  <2>1. /\ wal'.records = wal.records /\ wal'.batch = wal.batch
        /\ wal.state # "none" /\ wal'.state = "complete"
    BY <1>1, <1>16 DEF CompleteWal, StepTypes, Journals, Journal, WritingRun
  <2> QED BY <1>16, <2>1 DEF CompleteWal, InFlight, WalPending, AtRest, Appending, WritingRun, Merging
<1>17. CASE WriteSegment
  BY <1>1, <1>17 DEF WriteSegment, InFlight, WalPending, AtRest, Appending, WritingRun,
     Merging, Recovering
<1>18. CASE GenerationExists
  BY <1>1, <1>18 DEF GenerationExists, InFlight, WalPending, AtRest, Appending, WritingRun,
     Merging, Recovering
<1>19. CASE PublishData
  BY <1>1, <1>19 DEF PublishData, InFlight, WalPending, AtRest, Appending, WritingRun,
     Merging, Recovering
<1>20. CASE PublishIndex
  BY <1>1, <1>20 DEF PublishIndex, InFlight, WalPending, AtRest, Appending, WritingRun,
     Merging, Recovering
<1>21. CASE WriteAppendManifest
  BY <1>1, <1>21 DEF WriteAppendManifest, WriteManifest, InFlight, WalPending, AtRest,
     Appending, WritingRun, Merging, Recovering
<1>22. CASE PublishAppend
  <2>1. wal'.batch = current'.batch /\ current'.batch \in Nat
    BY <1>1, <1>22, RecordStoreAssumption DEF PublishAppend, RenameManifest, AppendedManifest, Journal,
         WritingRun, TypeOK, Batches
  <2>2. ~WalPending'
    BY <2>1 DEF WalPending
  <2> QED BY <1>22, <2>2 DEF PublishAppend, RenameManifest, InFlight, AtRest, Appending, WritingRun, Merging
<1>23. CASE Remember
  BY <1>1, <1>23 DEF Remember, InFlight, WalPending, AtRest, Appending, WritingRun, Merging,
     Recovering
<1>24. CASE UnlinkWal
  BY <1>1, <1>24, IdleTypes DEF UnlinkWal, NextChunk, InFlight, WalPending, AtRest,
     Appending, WritingRun, Merging, Recovering, Journal
<1>25. CASE CompactSuffix
  BY <1>1, <1>25 DEF CompactSuffix, InFlight, WalPending, AtRest, Appending, WritingRun,
     Merging, Recovering
<1>26. CASE CompactRetained
  BY <1>1, <1>26 DEF CompactRetained, InFlight, WalPending, AtRest, Appending, WritingRun,
     Merging, Recovering
<1>27. CASE CompactBatchDone
  BY <1>1, <1>27 DEF CompactBatchDone, InFlight, WalPending, AtRest, Appending, WritingRun,
     Merging, Recovering
<1>28. CASE WriteMerged
  BY <1>1, <1>28 DEF WriteMerged, InFlight, WalPending, AtRest, Appending, WritingRun,
     Merging, Recovering
<1>29. CASE PublishMergedData
  BY <1>1, <1>29 DEF PublishMergedData, InFlight, WalPending, AtRest, Appending, WritingRun,
     Merging, Recovering
<1>30. CASE PublishMergedIndex
  BY <1>1, <1>30 DEF PublishMergedIndex, InFlight, WalPending, AtRest, Appending,
     WritingRun, Merging, Recovering
<1>31. CASE WriteMergedManifest
  BY <1>1, <1>31 DEF WriteMergedManifest, WriteManifest, InFlight, WalPending, AtRest,
     Appending, WritingRun, Merging, Recovering
<1>32. CASE PublishMerged
  <2>1. wal' = wal /\ current'.batch = current.batch
    BY <1>1, <1>32 DEF PublishMerged, RenameManifest, MergedManifest, MemoryFollows
  <2>2. WalPending' = WalPending
    BY <2>1 DEF WalPending
  <2> QED BY <1>32, <2>1, <2>2 DEF PublishMerged, RenameManifest, InFlight, AtRest, Appending, WritingRun, Merging
<1>33. CASE RemoveInput
  BY <1>1, <1>33 DEF RemoveInput, InFlight, WalPending, AtRest, Appending, WritingRun,
     Merging, Recovering
<1>34. CASE RememberMerged
  <2>1. CASE after = "ready"
    BY <1>1, <1>34, <2>1 DEF RememberMerged, InFlight, WalPending, AtRest, Appending,
       WritingRun, Merging, Recovering
  <2>2. CASE after = "compact_batch"
    BY <1>1, <1>34, <2>2 DEF RememberMerged, InFlight, WalPending, AtRest, Appending,
       WritingRun, Merging, Recovering
  <2> QED BY <1>1, <1>34, <2>1, <2>2 DEF RememberMerged, StepTypes, Appending, Merging
<1>35. CASE PublishCheckpoint
  BY <1>1, <1>35, <1>1 DEF PublishCheckpoint, InFlight, WalPending, AtRest, Appending,
     WritingRun, Merging, Recovering, Pinned
<1>36. CASE NarrowPins
  BY <1>1, <1>36 DEF NarrowPins, InFlight, WalPending, AtRest, Appending, WritingRun,
     Merging, Recovering
<1>37. CASE ReclaimOrphans
  BY <1>1, <1>37 DEF ReclaimOrphans, InFlight, WalPending, AtRest, Appending, WritingRun,
     Merging, Recovering
<1>38. CASE CompactBatchRuns
  BY <1>1, <1>38 DEF CompactBatchRuns, InFlight, WalPending, AtRest, Appending, WritingRun,
     Merging, Recovering
<1>39. CASE PinBoth
  BY <1>1, <1>39 DEF PinBoth, InFlight, WalPending, AtRest, Appending, WritingRun, Merging,
     Recovering
<1>40. CASE DeleteCheckpoint
  BY <1>1, <1>40 DEF DeleteCheckpoint, InFlight, WalPending, AtRest, Appending, WritingRun,
     Merging, Recovering
<1>41. CASE ReleasePins
  BY <1>1, <1>41 DEF ReleasePins, InFlight, WalPending, AtRest, Appending, WritingRun,
     Merging, Recovering
<1>42. CASE Restore
  BY <1>1, <1>42 DEF Restore, InFlight, WalPending, AtRest, Appending, WritingRun, Merging,
     Recovering
<1>43. CASE Crash
  BY <1>1, <1>43 DEF Crash, NoMemory, Saving, InFlight, WalPending, AtRest, Appending,
     WritingRun, Merging, Recovering
<1>44. CASE Throws
  BY <1>1, <1>44 DEF Throws, InFlight, WalPending, AtRest, Appending, WritingRun, Merging,
     Recovering
<1>45. CASE AppendRefused
  <2>1. pc' \in {"ready", "closed"} /\ wal' = wal /\ current' = current /\ inflight' = 0
    BY <1>1, <1>45 DEF AppendRefused, StepTypes, Appending
  <2>2. ~WalPending
    BY <1>1, <1>45, RecordStoreAssumption DEF AppendRefused, Journal, WalPending, TypeOK, Batches
  <2>3. ~WalPending'
    BY <2>1, <2>2 DEF WalPending
  <2>4. MaxUnlinkFailures = 0 => wal.state = "none"
    BY <1>45 DEF AppendRefused, InFlight
  <2> QED BY <1>45, <2>1, <2>3, <2>4 DEF AppendRefused, InFlight, AtRest, Appending, WritingRun, Merging
<1>46. CASE UnlinkWalFails
  <2>1. ~WalPending /\ MaxUnlinkFailures # 0
    BY <1>1, <1>46, RecordStoreAssumption DEF UnlinkWalFails, Journal, WalPending, TypeOK, Batches, StepTypes
  <2>2. ~WalPending'
    BY <1>46, <2>1 DEF UnlinkWalFails, WalPending
  <2> QED BY <1>46, <2>1, <2>2 DEF UnlinkWalFails, NextChunk, InFlight, AtRest, Appending, WritingRun, Merging
<1>47. CASE SaveFails
  BY <1>1, <1>47 DEF SaveFails, InFlight, WalPending, AtRest, Appending, WritingRun,
     Merging, Recovering
<1>48. ASSUME NEW k \in Keys, LookupKey(k)
      PROVE  InFlight'
  BY <1>1, <1>48 DEF LookupKey, InFlight, WalPending, AtRest, Appending, WritingRun,
     Merging, Recovering
<1>49. ASSUME NEW b \in Batches, NEW S \in SUBSET Keys, AppendBatch(b, S)
      PROVE  InFlight'
  BY <1>1, <1>49, IdleTypes, RecordStoreAssumption DEF AppendBatch, InFlight, WalPending,
     AtRest, Appending, WritingRun, Merging, Recovering, Journal, TypeOK, Idle
<1>50. ASSUME NEW retain \in BOOLEAN, Compact(retain)
      PROVE  InFlight'
  BY <1>1, <1>50 DEF Compact, InFlight, WalPending, AtRest, Appending, WritingRun, Merging,
     Recovering
<1>51. CASE UNCHANGED vars
  BY <1>1, <1>51 DEF vars, InFlight, WalPending, AtRest, Appending, WritingRun, Merging,
     Recovering
<1> QED BY <1>2, <1>3, <1>4, <1>5, <1>6, <1>7, <1>8, <1>9, <1>10, <1>11, <1>12, <1>13,
           <1>14, <1>15, <1>16, <1>17, <1>18, <1>19, <1>20, <1>21, <1>22, <1>23, <1>24,
           <1>25, <1>26, <1>27, <1>28, <1>29, <1>30, <1>31, <1>32, <1>33, <1>34, <1>35,
           <1>36, <1>37, <1>38, <1>39, <1>40, <1>41, <1>42, <1>43, <1>44, <1>45, <1>46,
           <1>47, <1>48, <1>49, <1>50, <1>51 DEF Next, Continue, Request, Interruption

\* While no save is lost half-way, the next append or compaction finds no file
\* of another run where it renames its own (publish_append_batch_chunk).
THEOREM NextRunIsFree ==
  ASSUME MaxSaveCrashes = 0
  PROVE  Spec => []NextRunFree
PROOF
<1>1. Init => NoneBeyond
  BY DEF Init, NoneBeyond, Beyond, Settled, Recovering, EmptyManifest
<1>2. IndInv /\ NoneBeyond /\ [Next]_vars => NoneBeyond'
  BY NoneBeyondNext
<1>3. IndInv /\ NoneBeyond => NextRunFree
  <2> SUFFICES ASSUME IndInv, NoneBeyond, pc = "ready", store.generation < MaxGeneration
               PROVE  ~NextRunExists
    BY DEF NextRunFree
  <2>1. Beyond = {}
    BY DEF NoneBeyond, Settled
  <2>2. NextGeneration \in Generations /\ NextGeneration > store.generation
    BY RecordStoreAssumption DEF IndInv, TypeOK, NextGeneration, Generations
  <2> QED BY <2>1, <2>2 DEF NextRunExists, Beyond
<1> QED BY <1>1, <1>2, <1>3, Invariance, PTL DEF Spec

(***************************************************************************)
(* The component is a RecordMap.                                           *)
(***************************************************************************)

\* An empty directory is an empty map.
LEMMA MapInit == Init => Map!Init
PROOF
<1> SUFFICES ASSUME Init PROVE Map!Init
  OBVIOUS
<1>1. ASSUME NEW k \in Keys PROVE Lookup(current, k) = 0
  BY EmptyManifestOK, LookupType DEF Init, EmptyManifest
<1>2. checkpoint.generation = 0
  BY DEF Init, EmptyManifest
<1> QED BY <1>1, <1>2 DEF Init, Map!Init, MapOf

\* Every step is a step of the map, or leaves it alone.
LEMMA MapNext ==
  ASSUME IndInv, IndInv', InFlight, [Next]_vars
  PROVE  [Map!Next]_(Map!vars)
PROOF
<1> USE DEF runFiles, pins, memory, counters
<1>1. ASSUME UNCHANGED <<current, checkpoint, inflight, appends>>
      PROVE  UNCHANGED Map!vars
  BY <1>1 DEF Map!vars, MapOf
<1>2. ASSUME UNCHANGED <<current, checkpoint, appends>>, inflight' = 0
      PROVE  Map!Finish \/ UNCHANGED Map!vars
  BY <1>2 DEF Map!vars, Map!Finish, MapOf

<1>3. CASE RemoveOrphan \/ CleanupDone \/ DiscardWal \/ RedoWal \/ UnlinkData \/ UnlinkIndex
           \/ Redo \/ StartChunk \/ WalExists \/ CompleteWal \/ WriteSegment \/
           GenerationExists \/ PublishData \/ PublishIndex \/ WriteAppendManifest \/
           Remember
  <2>1. UNCHANGED <<current, checkpoint, inflight, appends>>
    BY <1>3 DEF RemoveOrphan, CleanupDone, DiscardWal, RedoWal, UnlinkData, UnlinkIndex,
       Redo, StartChunk, WalExists, CompleteWal, WriteSegment, GenerationExists,
       PublishData, PublishIndex, WriteAppendManifest, Remember, WriteManifest
  <2> QED BY <1>1, <2>1
<1>4. CASE CompactSuffix \/ CompactRetained \/ CompactBatchDone \/ WriteMerged \/
           PublishMergedData \/ PublishMergedIndex \/ WriteMergedManifest \/ RemoveInput \/
           RememberMerged \/ NarrowPins
  <2>1. UNCHANGED <<current, checkpoint, inflight, appends>>
    BY <1>4 DEF CompactSuffix, CompactRetained, CompactBatchDone, WriteMerged,
       PublishMergedData, PublishMergedIndex, WriteMergedManifest, RemoveInput,
       RememberMerged, NarrowPins, WriteManifest
  <2> QED BY <1>1, <2>1
<1>5. CASE Open \/ Close \/ ReclaimOrphans \/ CompactBatchRuns \/ PinBoth \/ ReleasePins \/
           Crash \/ Throws \/ SaveFails
  <2>1. UNCHANGED <<current, checkpoint, inflight, appends>>
    BY <1>5 DEF Open, Close, ReclaimOrphans, CompactBatchRuns, PinBoth, ReleasePins, Crash,
       Throws, SaveFails, NoMemory, Saving
  <2> QED BY <1>1, <2>1
<1>6. CASE RecoverNothing \/ DropCommittedWal \/ Discarded \/ AppendRefused \/ UnlinkWal \/
           UnlinkWalFails
  <2>1. UNCHANGED <<current, checkpoint, appends>> /\ inflight' \in {inflight, 0}
    BY <1>6 DEF RecoverNothing, DropCommittedWal, Discarded, AppendRefused, UnlinkWal,
       UnlinkWalFails, NextChunk
  <2> QED BY <1>1, <1>2, <2>1 DEF Map!Next
<1>7. CASE \E key \in Keys : LookupKey(key)
  <2>1. UNCHANGED <<current, checkpoint, inflight, appends>>
    BY <1>7 DEF LookupKey
  <2> QED BY <1>1, <2>1
<1>8. CASE \E retain \in BOOLEAN : Compact(retain)
  <2>1. UNCHANGED <<current, checkpoint, inflight, appends>>
    BY <1>8 DEF Compact
  <2> QED BY <1>1, <2>1
<1>9. CASE \E b \in Batches, S \in SUBSET Keys : AppendBatch(b, S)
  <2>1. /\ UNCHANGED <<current, checkpoint>> /\ inflight = 0
        /\ appends < MaxAppends /\ appends' = appends + 1 /\ inflight' = appends + 1
    BY <1>9 DEF AppendBatch, InFlight, AtRest
  <2>2. Map!Issue
    BY <2>1 DEF Map!Issue, MapOf
  <2> QED BY <2>2 DEF Map!Next
<1>10. CASE PublishAppend
  <2>1. /\ ManifestOK(store) /\ store.generation < MaxGeneration /\ work.batch \in Batches
        /\ work.chunk \in Contents \ {NoRecords}
        /\ store = current
    BY <1>10, RunRoom, TypesOfManifests
       DEF PublishAppend, RenameManifest, IndInv, RunWritten, MemoryFollows, WritingRun, Works
  <2>2. /\ current' = AppendedManifest /\ UNCHANGED <<checkpoint, inflight, appends>>
        /\ inflight # 0 /\ \A k \in DOMAIN work.chunk : work.chunk[k] = inflight
    BY <1>10 DEF PublishAppend, RenameManifest, InFlight, Appending, WritingRun
  <2>3. \A k \in Keys : Lookup(current', k) =
          IF k \in DOMAIN work.chunk THEN inflight ELSE Lookup(current, k)
    BY <2>1, <2>2, LookupAppended
  <2>4. DOMAIN work.chunk \in (SUBSET Keys) \ {{}}
    BY <2>1, ContentsDef, EmptyContents
  <2>5. MapOf(current') = [k \in Keys |-> IF k \in DOMAIN work.chunk THEN inflight ELSE MapOf(current)[k]]
    BY <2>3 DEF MapOf
  <2>6. Map!Apply
    BY <2>2, <2>4, <2>5 DEF Map!Apply, MapOf
  <2> QED BY <2>6 DEF Map!Next
<1>11. CASE PublishMerged
  <2>1. /\ ManifestOK(store) /\ store.generation < MaxGeneration
        /\ NewestIn(work.inputs, DOMAIN store.runs)
        /\ work.chunk = MergeRuns(store.runs, work.inputs)
        /\ store = current
    BY <1>11, RunRoom DEF PublishMerged, RenameManifest, IndInv, RunsMerged, MemoryFollows, Merging
  <2>2. current' = MergedManifest /\ UNCHANGED <<checkpoint, inflight, appends>>
    BY <1>11 DEF PublishMerged, RenameManifest
  <2>3. \A k \in Keys : Lookup(current', k) = Lookup(current, k)
    BY <2>1, <2>2, LookupMerged
  <2>4. MapOf(current') = MapOf(current)
    BY <2>3 DEF MapOf
  <2>5. UNCHANGED Map!vars
    BY <2>2, <2>4 DEF Map!vars, MapOf
  <2> QED BY <2>5
<1>12. CASE PublishCheckpoint
  <2>1. /\ checkpoint' = current /\ current.generation # 0
        /\ UNCHANGED <<current, inflight, appends>>
    BY <1>12 DEF PublishCheckpoint, IndInv, Pinned
  <2>2. Map!Save
    BY <2>1 DEF Map!Save, MapOf
  <2> QED BY <2>2 DEF Map!Next
<1>13. CASE DeleteCheckpoint
  <2>1. checkpoint'.generation = 0 /\ UNCHANGED <<current, inflight, appends>>
    BY <1>13 DEF DeleteCheckpoint, EmptyManifest
  <2>2. Map!Forget
    BY <2>1 DEF Map!Forget, MapOf
  <2> QED BY <2>2 DEF Map!Next
<1>14. CASE Restore
  <2>1. /\ checkpoint.generation # 0 /\ inflight = 0 /\ current' = checkpoint
        /\ UNCHANGED <<checkpoint, inflight, appends>>
    BY <1>14 DEF Restore
  <2>2. Map!Restore
    BY <2>1 DEF Map!Restore, MapOf
  <2> QED BY <2>2 DEF Map!Next
<1>15. CASE UNCHANGED vars
  BY <1>1, <1>15 DEF vars
<1> QED BY <1>3, <1>4, <1>5, <1>6, <1>7, <1>8, <1>9, <1>10, <1>11, <1>12, <1>13, <1>14,
           <1>15 DEF Next, Continue, Request, Interruption

\* A component is a map that changes by whole chunks of the append in flight,
\* each once, and otherwise only by a restore: lookups through runs, cache,
\* journal and compactions find what that map holds.  It takes that a stale
\* BATCH.wal does not meet a restore: removals of the journal do not fail, or
\* no checkpoint is ever restored.
THEOREM Refinement ==
  ASSUME MaxUnlinkFailures = 0 \/ ~Checkpoints
  PROVE  Spec => RefinesRecordMap
PROOF
<1>1. Init => InFlight
  BY DEF Init, InFlight, WalPending, NoWal, AtRest, Appending, WritingRun, Merging, EmptyManifest
<1>2. IndInv /\ InFlight /\ [Next]_vars => InFlight'
  BY InFlightNext
<1>3. IndInv /\ IndInv' /\ InFlight /\ [Next]_vars => [Map!Next]_(Map!vars)
  BY MapNext
<1>4. Init => Map!Init
  BY MapInit
<1> QED BY <1>1, <1>2, <1>3, <1>4, Invariance, PTL DEF Spec, RefinesRecordMap, Map!Spec

\* Under the same assumption, with no append under way, what is stored changes
\* to what the checkpoint holds or not at all.
THEOREM ContentsAreKept ==
  ASSUME MaxUnlinkFailures = 0 \/ ~Checkpoints
  PROVE  Spec => ContentsKept
PROOF
<1>1. Init => InFlight
  BY DEF Init, InFlight, WalPending, NoWal, AtRest, Appending, WritingRun, Merging, EmptyManifest
<1>2. IndInv /\ InFlight /\ [Next]_vars => InFlight'
  BY InFlightNext
<1>3. IndInv /\ IndInv' /\ InFlight /\ [Next]_vars =>
        [inflight = 0 => MapOf(current)' \in {MapOf(current), MapOf(checkpoint)}]_vars
  <2> SUFFICES ASSUME IndInv, IndInv', InFlight, [Next]_vars, inflight = 0
               PROVE  MapOf(current)' \in {MapOf(current), MapOf(checkpoint)}
    OBVIOUS
  <2>1. CASE UNCHANGED Map!vars
    BY <2>1 DEF Map!vars
  <2>2. CASE Map!Issue \/ Map!Save \/ Map!Forget
    BY <2>2 DEF Map!Issue, Map!Save, Map!Forget
  <2>3. CASE Map!Restore
    <3>1. MapOf(current)' = (IF checkpoint.generation = 0 THEN << >> ELSE <<MapOf(checkpoint)>>)[1]
      BY <2>3 DEF Map!Restore
    <3>2. checkpoint.generation # 0
      BY <2>3 DEF Map!Restore
    <3> QED BY <3>1, <3>2
  <2>4. CASE Map!Apply \/ Map!Finish
    BY <2>4 DEF Map!Apply, Map!Finish
  <2> QED BY <2>1, <2>2, <2>3, <2>4, MapNext DEF Map!Next
<1> QED BY <1>1, <1>2, <1>3, Invariance, PTL DEF Spec, ContentsKept
=============================================================================
