---------------------------- MODULE BlueprintExport ----------------------------
(* save_full_policy_atomic and the artifacts it writes: the plan under the       *)
(* export lease, the gates, the quantized rows in key order, one file or shards  *)
(* in a directory of their own with a manifest published last, the verifying     *)
(* readers and the lookups of the two providers.  Writes, gates and publications *)
(* may fail and the process may stop.  publish_atomic_replace is one step here   *)
(* (CheckpointArtifact has its steps); hashes are taken as injective.            *)
EXTENDS Naturals, Sequences, SequencesExt, FiniteSetsExt

CONSTANTS
  Shapes,        \* admitted rows: [state, seat, buckets, actions, menu]
  Weights,       \* average strategies of three actions, as weights
  FileLimits,    \* single_file_blueprint_limit_bytes
  ShardBytes,    \* shard_max_serialized_bytes
  PageBuckets,   \* buckets of an external page
  Stride,        \* rows per entry of the sparse index of a mapped shard
  MaxVersion, MaxExports, MaxCrashes   \* bounds

VARIABLES
  tables,        \* [version, backend, rows, weights, limit]: the coordinator and the monitor
  temp,          \* path.tmp
  dest,          \* path
  dirs,          \* generation -> its shards
  exp,           \* the export under way
  bounds         \* [exports, crashes]

vars == <<tables, temp, dest, dirs, exp, bounds>>

-----------------------------------------------------------------------------
(* Rows. *)

Mass == 65535
MaxActions == 64
Header == 176
Trailer == 8
RowBytes(actions) == 28 + 19 * actions
SerializedSize(rows, actions) == Header + Trailer + 28 * rows + 19 * actions

\* row_key_less: state, seat, bucket, menu.
KeyLess(left, right) ==
  \E i \in 1 .. 4 : left[i] < right[i] /\ \A j \in 1 .. i - 1 : left[j] = right[j]
SameInfoset(left, right) == left[1] = right[1] /\ left[2] = right[2]
Bucket(key) == key[3]

\* export_shape_less.
ShapeLess(left, right) ==
  left.state < right.state \/ (left.state = right.state /\ left.seat < right.seat)

\* The raw probability is taken as it is (mutant: nothing is kept for the actions that follow).
QuantizeUnclamped(weights) ==
  LET total == FoldSeq(LAMBDA a, b : a + b, 0, weights) IN
  [action \in 1 .. Len(weights) |-> (weights[action] * Mass) \div total]
\* quantize_compact_strategy, quantize_float64_strategy: every action keeps one unit.
Quantize(weights) ==
  LET total == FoldSeq(LAMBDA a, b : a + b, 0, weights)
      count == Len(weights)
      assigned[action \in 0 .. count] ==
        IF action = 0 THEN 0
        ELSE LET remaining_mass == Mass - assigned[action - 1]
                 raw == IF total > 0 THEN (weights[action] * Mass) \div total ELSE 0 IN
             assigned[action - 1]
             + (IF action = count THEN remaining_mass
                ELSE Max({1, Min({raw, remaining_mass - (count - action)})}))
  IN [action \in 1 .. count |-> assigned[action] - assigned[action - 1]]

\* average_strategy_into: a row without mass is uniform.
Average(actions) ==
  LET weights == SubSeq(tables.weights, 1, actions) IN
  IF \A i \in 1 .. actions : weights[i] = 0 THEN [i \in 1 .. actions |-> 1] ELSE weights

\* A row of the artifact; version tags what its strategy was read from.
Row(shape, bucket, version) ==
  [key |-> <<shape.state, shape.seat, bucket, shape.menu>>, version |-> version,
   actions |-> Quantize(Average(shape.actions))]
RowsOf(shapes, version) ==
  FlattenSeq([i \in 1 .. Len(shapes) |->
    [b \in 1 .. shapes[i].buckets |-> Row(shapes[i], b - 1, version)]])
Actions(rows) == FoldSeq(LAMBDA row, sum : Len(row.actions) + sum, 0, rows)

\* validate_row.
RowValid(row) ==
  /\ Len(row.actions) \in 1 .. MaxActions
  /\ \A i \in 1 .. Len(row.actions) : row.actions[i] > 0
  /\ FoldSeq(LAMBDA a, b : a + b, 0, row.actions) = Mass

-----------------------------------------------------------------------------
(* The shards. *)

\* make_multiway_full_blueprint_shard_layout: by the worst row.
RowsPerShard == (ShardBytes - Header - Trailer) \div RowBytes(MaxActions)
ShardCount(row_count) == IF row_count = 0 THEN 0 ELSE 1 + (row_count - 1) \div RowsPerShard
ShardRows(row_count, shard) == Min({RowsPerShard, row_count - (shard - 1) * RowsPerShard})

\* A shape is counted in the shard of its first row (mutant).
ShardActionsByShape(shapes) ==
  LET first[i \in 1 .. Len(shapes)] == IF i = 1 THEN 0 ELSE first[i - 1] + shapes[i - 1].buckets
      total == first[Len(shapes)] + shapes[Len(shapes)].buckets IN
  [shard \in 1 .. ShardCount(total) |->
     MapThenFoldSet(LAMBDA a, b : a + b, 0, LAMBDA i : shapes[i].buckets * shapes[i].actions,
                    LAMBDA s : CHOOSE x \in s : TRUE,
                    {i \in 1 .. Len(shapes) : first[i] \div RowsPerShard = shard - 1})]
\* add_shape of the shard planning: the actions of every row, by the shard of the row.
ShardActions(shapes) ==
  LET rows == FlattenSeq([i \in 1 .. Len(shapes) |->
                [b \in 1 .. shapes[i].buckets |-> shapes[i].actions]]) IN
  [shard \in 1 .. ShardCount(Len(rows)) |->
     FoldSeq(LAMBDA a, b : a + b, 0,
       SubSeq(rows, (shard - 1) * RowsPerShard + 1, Min({Len(rows), shard * RowsPerShard})))]

-----------------------------------------------------------------------------
(* Files and their verifying readers. *)

NoFile == [kind |-> "none"]
File(rows, whole) == [kind |-> "file", rows |-> rows, whole |-> whole]   \* whole: counts and hash agree
Manifest(gen, refs) == [kind |-> "manifest", gen |-> gen, refs |-> refs]
Ordered(rows) == \A i \in 1 .. Len(rows) - 1 : KeyLess(rows[i].key, rows[i + 1].key)

ShardReadable(ref, shards, index) ==
  /\ index <= Len(shards) /\ shards[index].whole
  /\ Len(shards[index].rows) = ref.rows /\ Actions(shards[index].rows) = ref.actions
  /\ SerializedSize(ref.rows, ref.actions) <= ShardBytes

\* load_verified; load_sharded_manifest and verify_sharded_artifact.
Readable(file) ==
  CASE file.kind = "none" -> FALSE
    [] file.kind = "file" ->
         file.whole /\ Ordered(file.rows) /\ \A i \in 1 .. Len(file.rows) : RowValid(file.rows[i])
    [] file.kind = "manifest" ->
         /\ file.gen \in DOMAIN dirs
         /\ \A i \in 1 .. Len(file.refs) : ShardReadable(file.refs[i], dirs[file.gen], i)
         /\ LET rows == FlattenSeq([i \in 1 .. Len(file.refs) |-> dirs[file.gen][i].rows]) IN
            Ordered(rows) /\ \A i \in 1 .. Len(rows) : RowValid(rows[i])
Contents(file) ==
  IF file.kind = "file" THEN file.rows
  ELSE FlattenSeq([i \in 1 .. Len(file.refs) |-> dirs[file.gen][i].rows])

-----------------------------------------------------------------------------
(* MultiwayBlueprintStore::find and the mapped provider. *)

Status(hit, bucket_present, infoset_present) ==
  IF hit THEN "Hit" ELSE IF bucket_present THEN "IncompatibleMenu"
  ELSE IF infoset_present THEN "MissingBucket" ELSE "Missing"

\* The first row at or after the target, and the one before it.
StoreLookup(rows, target) ==
  LET after == {i \in 1 .. Len(rows) : ~KeyLess(rows[i].key, target)}
      it == IF after = {} THEN Len(rows) + 1 ELSE Min(after)
      Near(i) == i \in 1 .. Len(rows) /\ SameInfoset(rows[i].key, target)
      OfBucket(i) == Near(i) /\ Bucket(rows[i].key) = Bucket(target) IN
  IF Near(it) THEN Status(rows[it].key = target, OfBucket(it), TRUE)
  ELSE Status(FALSE, OfBucket(it - 1), Near(it - 1))

\* The rows of a shard that are read: from the last entry of the sparse index that
\* is not after the target to the first row at or after it.
Scanned(rows, target) ==
  LET entries == {i \in 1 .. Len(rows) : i % Stride = 1 % Stride /\ ~KeyLess(target, rows[i].key)}
      start == IF entries = {} THEN 1 ELSE Max(entries) IN
  {rows[i] : i \in {j \in start .. Len(rows) : \A k \in start .. j - 1 : KeyLess(rows[k].key, target)}}

\* Only the shard that may hold the key (mutant: its neighbours are not read).
SearchedShardsCenter(shards, target) ==
  LET after == {i \in 1 .. Len(shards) : ~KeyLess(Last(shards[i]).key, target)} IN
  IF after = {} THEN {Len(shards)} ELSE {Min(after)}
\* The shard that may hold the key and the neighbours that hold the infoset.
SearchedShards(shards, target) ==
  LET after == {i \in 1 .. Len(shards) : ~KeyLess(Last(shards[i]).key, target)}
      center == IF after = {} THEN Len(shards) ELSE Min(after) IN
  {i \in 1 .. Len(shards) :
     \/ i = center
     \/ i = center - 1 /\ SameInfoset(Last(shards[i]).key, target)
     \/ i = center + 1 /\ SameInfoset(Head(shards[i]).key, target)}

MappedLookup(shards, target) ==
  LET seen == UNION {Scanned(shards[i], target) : i \in SearchedShards(shards, target)} IN
  Status(\E row \in seen : row.key = target,
         \E row \in seen : SameInfoset(row.key, target) /\ Bucket(row.key) = Bucket(target),
         \E row \in seen : SameInfoset(row.key, target))

-----------------------------------------------------------------------------
(* The export. *)

Idle == [pc |-> "idle", lease |-> FALSE, version |-> 0, shapes |-> <<>>, sharded |-> FALSE,
         counts |-> <<>>, next |-> 0, gen |-> 0, refs |-> <<>>, pins |-> 0]

\* Float64 rows are in the order of their admission, compact and external ones sorted.
Init ==
  /\ \E backend \in {"float64", "compact", "external"}, weights \in Weights, limit \in FileLimits :
       \E rows \in SetToSeqs(Shapes) :
         /\ backend # "float64" => \A i \in 1 .. Len(rows) - 1 : ShapeLess(rows[i], rows[i + 1])
         /\ tables = [version |-> 1, backend |-> backend, rows |-> rows, weights |-> weights,
                      limit |-> limit]
  /\ temp = NoFile /\ dest = NoFile /\ dirs = <<>> /\ exp = Idle
  /\ bounds = [exports |-> 0, crashes |-> 0]

\* A batch is merged; the lease keeps it out.
Merge ==
  /\ ~exp.lease /\ tables.version < MaxVersion
  /\ tables' = [tables EXCEPT !.version = @ + 1]
  /\ UNCHANGED <<temp, dest, dirs, exp, bounds>>

\* The tables are not held (mutant: the lease ends before the rows are read).
BeginUnleased == [Idle EXCEPT !.pc = "plan", !.version = tables.version]
BeginLeased == [Idle EXCEPT !.pc = "plan", !.version = tables.version, !.lease = TRUE]
Begin ==
  /\ exp.pc = "idle" /\ bounds.exports < MaxExports
  /\ exp' = BeginLeased /\ bounds' = [bounds EXCEPT !.exports = @ + 1]
  /\ UNCHANGED <<tables, temp, dest, dirs>>

\* Directories that are not in the manifest are left behind (mutant: no cleanup).
ThrowsKeeping == temp' = NoFile /\ exp' = Idle /\ UNCHANGED <<tables, dest, dirs, bounds>>
\* An exception: the cleanup guards remove the temporary and the directory, the page is
\* unpinned and the lease ends.
Throws ==
  /\ temp' = (IF exp.pc \in {"write", "finish"} THEN NoFile ELSE temp)
  /\ dirs' = [gen \in DOMAIN dirs \ {exp.gen} |-> dirs[gen]]
  /\ exp' = Idle /\ UNCHANGED <<tables, dest, bounds>>
\* A validation that refuses the rows of the exporter itself.
Invalid == exp' = [exp EXCEPT !.pc = "invalid"] /\ UNCHANGED <<tables, temp, dest, dirs, bounds>>

\* make_export_plan and prepare_full_policy_export_plan.
ShapeOrder ==
  IF tables.backend = "float64" THEN SortSeq(tables.rows, ShapeLess) ELSE tables.rows
Planned == RowsOf(exp.shapes, exp.version)
Plan ==
  LET shapes == ShapeOrder
      rows == FoldSeq(LAMBDA shape, sum : shape.buckets + sum, 0, shapes)
      actions == FoldSeq(LAMBDA shape, sum : shape.buckets * shape.actions + sum, 0, shapes)
      sharded == rows # 0 /\ SerializedSize(rows, actions) > tables.limit IN
  /\ exp.pc = "plan"
  /\ IF \E i \in 1 .. Len(shapes) - 1 : ~ShapeLess(shapes[i], shapes[i + 1])
     THEN Invalid
     ELSE /\ exp' = [exp EXCEPT !.pc = "gates", !.shapes = shapes, !.sharded = sharded,
                                !.counts = IF sharded THEN ShardActions(shapes) ELSE <<actions>>]
          /\ UNCHANGED <<tables, temp, dest, dirs, bounds>>

\* enforce_full_policy_export_gates: disk, system, process.
Gates ==
  /\ exp.pc = "gates"
  /\ \/ exp' = [exp EXCEPT !.pc = "setup"] /\ UNCHANGED <<tables, temp, dest, dirs, bounds>>
     \/ Throws

\* The directory of the destination's name is reused (mutant: no fresh generation).
FreshGenerationFixed == 1
\* create_directory succeeds for a name that is not there.
FreshGeneration == 1 + Max({0} \cup DOMAIN dirs)

\* setup_full_policy_export_writer: the temporary, or the directory of a generation.
Setup ==
  LET gen == FreshGeneration
      count == Len(Planned) IN
  /\ exp.pc = "setup"
  /\ IF exp.sharded /\ \E i \in 1 .. Len(exp.counts) :
          ~(exp.counts[i] >= ShardRows(count, i) /\ exp.counts[i] <= ShardRows(count, i) * MaxActions)
     THEN Invalid
     ELSE \/ /\ exp' = [exp EXCEPT !.pc = "write", !.gen = IF exp.sharded THEN gen ELSE 0]
             /\ temp' = File(<<>>, FALSE)
             /\ dirs' = IF exp.sharded
                        THEN [g \in DOMAIN dirs \cup {gen} |-> IF g = gen THEN <<>> ELSE dirs[g]]
                        ELSE dirs
             /\ UNCHANGED <<tables, dest, bounds>>
          \/ Throws

\* The row of the shape that next points to, from the tables as they are now.
NextRow == RowsOf(exp.shapes, tables.version)[exp.next + 1]
ShardIndex == Len(exp.refs) + 1
PlannedActions == IF exp.sharded THEN exp.counts[ShardIndex] ELSE exp.counts[1]

\* The external backend holds its page from the first to the last bucket of it.
PagePinned(row) ==
  LET shape == CHOOSE s \in Range(exp.shapes) : SameInfoset(row.key, <<s.state, s.seat>>)
      last == Bucket(row.key) = shape.buckets - 1 \/ Bucket(row.key) % PageBuckets = PageBuckets - 1 IN
  IF tables.backend = "external" /\ ~last THEN 1 ELSE 0

\* write_row of both writers: a shard that is full is finished, hashed and renamed into
\* its directory.
WriteRow ==
  LET row == NextRow
      rows == Append(temp.rows, row)
      full == exp.sharded /\ Len(rows) = ShardRows(Len(Planned), ShardIndex)
      progress == [exp EXCEPT !.next = @ + 1, !.pins = PagePinned(row),
                              !.pc = IF exp.next + 1 = Len(Planned) THEN "finish" ELSE "write"] IN
  /\ exp.pc = "write"
  /\ IF \/ ~RowValid(row) \/ ~Ordered(rows) \/ Actions(rows) > PlannedActions
        \/ full /\ Actions(rows) # PlannedActions
        \/ full /\ SerializedSize(Len(rows), Actions(rows)) > ShardBytes
     THEN Invalid
     ELSE \/ /\ ~full /\ exp' = progress /\ temp' = File(rows, FALSE)
             /\ UNCHANGED <<tables, dest, dirs, bounds>>
          \/ /\ full
             /\ exp' = [progress EXCEPT !.refs = Append(@, [rows |-> Len(rows), actions |-> Actions(rows)])]
             /\ dirs' = [dirs EXCEPT ![exp.gen] = Append(@, File(rows, TRUE))]
             /\ temp' = File(<<>>, FALSE)
             /\ UNCHANGED <<tables, dest, bounds>>
          \/ Throws

\* finish: the counts, the hash, the size, the publication; the memory snapshot after it
\* may still throw.
Finish ==
  /\ exp.pc = "finish"
  /\ IF ~exp.sharded /\ Actions(temp.rows) # exp.counts[1] THEN Invalid
     ELSE \/ /\ dest' = IF exp.sharded THEN Manifest(exp.gen, exp.refs) ELSE File(temp.rows, TRUE)
             /\ temp' = NoFile
             /\ exp' \in {[exp EXCEPT !.pc = "returned"], Idle}
             /\ UNCHANGED <<tables, dirs, bounds>>
          \/ Throws

Return == exp.pc = "returned" /\ exp' = Idle /\ UNCHANGED <<tables, temp, dest, dirs, bounds>>

\* The process stops: what it has written stays.
Crash ==
  /\ exp.pc \notin {"idle", "returned", "invalid"} /\ bounds.crashes < MaxCrashes
  /\ exp' = Idle /\ bounds' = [bounds EXCEPT !.crashes = @ + 1]
  /\ UNCHANGED <<tables, temp, dest, dirs>>

ExportInit == Init
ExportNext ==
  \/ Merge \/ Begin \/ Plan \/ Gates \/ Setup \/ WriteRow \/ Finish \/ Return \/ Crash

-----------------------------------------------------------------------------
(* What is published is whole. *)

Reference(version) == RowsOf(SetToSortSeq(Shapes, ShapeLess), version)
Targets ==
  LET keys == {row.key : row \in Range(Reference(1))} IN
  {<<key[1], key[2], bucket, menu>> :
     key \in keys \cup {<<3, 0, 0, 1>>}, bucket \in 0 .. 3, menu \in {1, 5, 9}}
LookupsExact(file) ==
  LET rows == Contents(file)
      Held(target) == \E row \in Range(rows) : row.key = target
      InfosetHeld(target) == \E row \in Range(rows) : SameInfoset(row.key, target)
      BucketHeld(target) ==
        \E row \in Range(rows) : SameInfoset(row.key, target) /\ Bucket(row.key) = Bucket(target) IN
  \A target \in Targets :
    IF file.kind = "manifest"
    THEN MappedLookup([i \in 1 .. Len(file.refs) |-> dirs[file.gen][i].rows], target)
         = Status(Held(target), BucketHeld(target), InfosetHeld(target))
    ELSE LET status == StoreLookup(rows, target) IN
         /\ (status = "Hit") = Held(target) /\ (status = "Missing") = ~InfosetHeld(target)
         /\ status = "IncompatibleMenu" => BucketHeld(target)

\* Every published artifact holds all rows of one version, in order, and answers every
\* lookup from them; an export that returns has published the version of its lease; the
\* exporter's own rows and counts are never refused; an idle exporter holds no page, and a
\* directory without a manifest is one of a crash.
ExportSound ==
  /\ exp.pc # "invalid"
  /\ dest # NoFile => Readable(dest) /\ \E v \in 1 .. tables.version : Contents(dest) = Reference(v)
  /\ exp.pc = "returned" => dest # NoFile /\ Contents(dest) = Reference(exp.version) /\ exp.pins = 0
  /\ exp.pc \in {"returned"} => LookupsExact(dest)
  /\ exp.pc = "idle" => Cardinality({g \in DOMAIN dirs : Len(dirs[g]) < ShardCount(Len(Reference(1)))})
                        <= bounds.crashes
=============================================================================
