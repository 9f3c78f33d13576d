---------------------------- MODULE BucketArtifact ----------------------------
(* Bucket artifacts: the catalog of boards and the tables built from it, the packed   *)
(* file and the registry that reads it, and the bucket run of the workflow, which     *)
(* appends tables to a staging file, checkpoints its progress in a sidecar, resumes,  *)
(* converts, publishes and verifies.  Cards are 0 .. deck - 1 with Suits suits; a     *)
(* byte has Base values; hashes are taken as injective.                               *)
EXTENDS Naturals, Sequences, FiniteSets, FiniteSetsExt, SequencesExt, TLC

CONSTANTS Decks, Suits, Base, BucketCounts,   \* Pure part: decks, suits, byte values, profiles
          Sizes, ChunkSize, CheckpointEvery,  \* Boards per street, tables per chunk and per checkpoint
          Identities, MaxRuns, MaxCrashes     \* Models, and bounds on the invocations and crashes

VARIABLES files,     \* staging, progress, packed, assignments, output, manifest
          run,       \* The process
          bounds

bucketVars == <<files, run, bounds>>

-----------------------------------------------------------------------------
(* MultiwayBucketBoardCatalog *)

Streets == 1 .. 3
board_size(street) == street + 2
RECURSIVE choose(_, _)
choose(n, k) == IF k = 0 THEN 1 ELSE (choose(n - 1, k - 1) * n) \div k
board_count(deck, street) == choose(deck, board_size(street))
\* The board of an index, from card `next` on.
RECURSIVE Unranked(_, _, _, _)
Unranked(deck, k, rank, next) ==
  IF k = 0 THEN <<>>
  ELSE LET remaining == choose(deck - 1 - next, k - 1)
       IN IF rank < remaining THEN <<next>> \o Unranked(deck, k - 1, rank, next + 1)
          ELSE Unranked(deck, k, rank - remaining, next + 1)
enumerate(deck, street, first, last) == [i \in 1 .. last - first |-> Unranked(deck, board_size(street), first + i - 1, 0)]
\* The next board: the last card that can grow grows, and the ones after it follow.
Successor_stuck(deck, board) ==                      \* (mutant: the cards after it stay)
  LET p == Max({q \in DOMAIN board : board[q] < deck - (Len(board) - q + 1)})
  IN [board EXCEPT ![p] = @ + 1]
Successor(deck, board) ==
  LET p == Max({q \in DOMAIN board : board[q] < deck - (Len(board) - q + 1)})
  IN [q \in DOMAIN board |-> IF q < p THEN board[q] ELSE board[p] + 1 + (q - p)]
RECURSIVE Following(_, _, _)
Following(deck, board, count) ==
  IF count = 1 THEN <<board>> ELSE <<board>> \o Following(deck, Successor(deck, board), count - 1)
enumerate_fixed(deck, street, first, last) ==
  IF first = last THEN <<>> ELSE Following(deck, Unranked(deck, board_size(street), first, 0), last - first)

\* The boards [begin, end) of all streets: the part of each street that lies in the range.
RECURSIVE Before(_, _)
Before(deck, street) == IF street = 1 THEN 0 ELSE Before(deck, street - 1) + board_count(deck, street - 1)
ChunkOf(deck, street, begin, end) ==
  LET offset == Before(deck, street)
      size == board_count(deck, street)
      local_begin == IF begin > offset THEN begin - offset ELSE 0
      local_end == IF end < offset + size THEN end - offset ELSE size
  IN IF end <= offset \/ local_begin >= local_end THEN <<>> ELSE enumerate_fixed(deck, street, local_begin, local_end)
build_chunk(deck, begin, end) ==
  FlattenSeq([street \in Streets |-> LET boards == ChunkOf(deck, street, begin, end)
                                     IN [i \in DOMAIN boards |-> [street |-> street, board |-> boards[i]]]])

-----------------------------------------------------------------------------
(* The baseline table of a board. *)

rank_of(card) == card \div Suits
suit_of(card) == card % Suits
CountIf(board, P(_)) == Quantify(DOMAIN board, LAMBDA i : P(board[i]))
Holes(deck) == LET pairs == {{a, b} : a, b \in 0 .. deck - 1} \ {{a} : a \in 0 .. deck - 1} IN pairs
Blocked(board, hole) == \E i \in DOMAIN board : board[i] \in hole
board_features(board) ==
  [ranks |-> {rank_of(board[i]) : i \in DOMAIN board}, suits |-> {suit_of(board[i]) : i \in DOMAIN board}, size |-> Len(board),
   pairs |-> Cardinality({r \in {rank_of(board[i]) : i \in DOMAIN board} : CountIf(board, LAMBDA c : rank_of(c) = r) >= 2})]
HoleShape(hole) ==
  [high |-> Max({rank_of(c) : c \in hole}), low |-> Min({rank_of(c) : c \in hole}), suited |-> Cardinality({suit_of(c) : c \in hole}) = 1]
\* make_multiway_bucket_features and the fixed-board builder count over the board.
make_features(board, hole) ==
  board_features(board) @@ HoleShape(hole) @@
  [pairs_board |-> CountIf(board, LAMBDA c : \E h \in hole : rank_of(c) = rank_of(h)),
   suit_matches |-> CountIf(board, LAMBDA c : suit_of(c) = suit_of(Max(hole))) + CountIf(board, LAMBDA c : suit_of(c) = suit_of(Min(hole)))]
\* The direct builder adds up the counts of the ranks and suits of the board.
direct_features_twice(board, hole) ==                \* (mutant: a pair counts its rank twice)
  LET ranks(r) == CountIf(board, LAMBDA c : rank_of(c) = r)
      suits(s) == CountIf(board, LAMBDA c : suit_of(c) = s)
  IN board_features(board) @@ HoleShape(hole) @@
     [pairs_board |-> ranks(rank_of(Max(hole))) + ranks(rank_of(Min(hole))),
      suit_matches |-> suits(suit_of(Max(hole))) + suits(suit_of(Min(hole)))]
direct_features(board, hole) ==
  LET ranks(r) == CountIf(board, LAMBDA c : rank_of(c) = r)
      suits(s) == CountIf(board, LAMBDA c : suit_of(c) = s)
      shape == HoleShape(hole)
  IN board_features(board) @@ shape @@
     [pairs_board |-> IF shape.high = shape.low THEN ranks(shape.high) ELSE ranks(shape.high) + ranks(shape.low),
      suit_matches |-> suits(suit_of(Max(hole))) + suits(suit_of(Min(hole)))]
\* The fingerprint is outside this model: some function of the features.
FeatureHash(f) ==
  3 * f.high + 5 * f.low + 7 * f.pairs_board + 11 * f.suit_matches + 13 * f.pairs + 17 * f.size + SumSet(f.ranks) + (IF f.suited THEN 2 ELSE 0)
InvalidBucket == Base * Base * Base * Base - 1
assign_bucket(features, count) == FeatureHash(features) % count
build_table(deck, at, count) ==
  at @@ [bucket_count |-> count,
         assignments |-> [h \in Holes(deck) |-> IF Blocked(at.board, h) THEN InvalidBucket ELSE assign_bucket(make_features(at.board, h), count)]]
direct_table(deck, at, count) ==
  at @@ [bucket_count |-> count,
         assignments |-> [h \in Holes(deck) |-> IF Blocked(at.board, h) THEN InvalidBucket ELSE assign_bucket(direct_features(at.board, h), count)]]

-----------------------------------------------------------------------------
(* The packed file (schema 5) and the registry. *)

Power(w) == IF w = 1 THEN Base ELSE IF w = 2 THEN Base * Base ELSE InvalidBucket + 1
assignment_width_narrow(count) ==                    \* (mutant: one bucket too many for its width)
  IF count <= Base + 1 THEN 1 ELSE IF count <= Base * Base THEN 2 ELSE 4
assignment_width(count) == IF count <= Base THEN 1 ELSE IF count <= Base * Base THEN 2 ELSE 4
MaxCount(tables) == Max({tables[i].bucket_count : i \in DOMAIN tables})
encode(value, width) == IF value = InvalidBucket /\ width < 4 THEN Power(width) - 1 ELSE value % Power(width)
\* All ones is no bucket, unless the table uses every value of the width: then only a blocked hand has none.
decode_marked(x, width, count, blocked) ==           \* (mutant: all ones is never a bucket)
  IF width < 4 /\ x = Power(width) - 1 THEN InvalidBucket ELSE x
decode(x, width, count, blocked) ==
  IF width < 4 /\ x = Power(width) - 1 /\ (count # Power(width) \/ blocked) THEN InvalidBucket ELSE x
\* convert_v4_staging_to_v5 and serialize_multiway_bucket_registry.
pack(tables) ==
  LET width == assignment_width(MaxCount(tables))
  IN [width |-> width,
      entries |-> [i \in DOMAIN tables |->
        [street |-> tables[i].street, board |-> tables[i].board, bucket_count |-> tables[i].bucket_count, identity |-> tables[i],
         assignments |-> [h \in DOMAIN tables[i].assignments |-> encode(tables[i].assignments[h], width)]]]]
\* Street, then cards, then length.
BoardLess(a, b) ==
  \/ a.street < b.street
  \/ a.street = b.street /\ \E i \in 1 .. Len(a.board) + 1 :
       /\ \A j \in 1 .. i - 1 : j <= Len(b.board) /\ a.board[j] = b.board[j]
       /\ i <= Len(b.board) /\ (i = Len(a.board) + 1 \/ a.board[i] < b.board[i])
is_canonical_board(deck, e) ==
  /\ e.street \in Streets /\ Len(e.board) = board_size(e.street)
  /\ \A i \in DOMAIN e.board : e.board[i] < deck /\ (i > 1 => e.board[i - 1] < e.board[i])
TableOf(e, width) ==
  [street |-> e.street, board |-> e.board, bucket_count |-> e.bucket_count,
   assignments |-> [h \in DOMAIN e.assignments |-> decode(e.assignments[h], width, e.bucket_count, Blocked(e.board, h))]]
ValidAssignments(deck, table) ==
  \A h \in Holes(deck) : IF Blocked(table.board, h) THEN table.assignments[h] = InvalidBucket
                         ELSE table.assignments[h] < table.bucket_count
\* load_multiway_bucket_registry accepts a file.
Loads(deck, file) ==
  /\ file.entries # <<>> /\ file.width = assignment_width(MaxCount(file.entries))
  /\ \A i \in DOMAIN file.entries :
       LET e == file.entries[i]
           table == TableOf(e, file.width)
       IN /\ is_canonical_board(deck, e) /\ e.bucket_count > 0 /\ table = e.identity
          /\ i > 1 => BoardLess(file.entries[i - 1], e)
          /\ ValidAssignments(deck, table)
\* MultiwayBucketRegistry::table: the first entry that is not less, by bisection.
RECURSIVE Bisect(_, _, _, _)
Bisect(entries, key, first, last) ==
  IF first >= last THEN first
  ELSE LET middle == first + (last - first) \div 2
       IN IF BoardLess(entries[middle + 1], key) THEN Bisect(entries, key, middle + 1, last) ELSE Bisect(entries, key, first, middle)
Found(file, key) ==
  LET at == Bisect(file.entries, key, 0, Len(file.entries))
  IN at < Len(file.entries) /\ file.entries[at + 1].street = key.street /\ file.entries[at + 1].board = key.board
lookup(file, key, hole) ==
  TableOf(file.entries[Bisect(file.entries, key, 0, Len(file.entries)) + 1], file.width).assignments[hole]

-----------------------------------------------------------------------------
(* The files of a bucket run.  A staging file holds its header, whole tables and      *)
(* perhaps a torn one; a table is two units long.                                     *)

NoFile == [exists |-> FALSE, header |-> FALSE, tables |-> <<>>, torn |-> FALSE]
NoProgress == [identity |-> "none", table_count |-> 0, hash |-> <<>>]
Bytes(staging) == (IF staging.header THEN 1 ELSE 0) + 2 * Len(staging.tables) + (IF staging.torn THEN 1 ELSE 0)
ByteLength(progress) == 1 + 2 * progress.table_count
Total == Sizes[1] + Sizes[2] + Sizes[3]
TablesOf(identity, first, count) == [i \in 1 .. count |-> <<identity, first + i - 1>>]
Idle == [pc |-> "idle", identity |-> "none", checkpointed |-> FALSE, table_count |-> 0, buffered |-> <<>>, bad |-> FALSE]
BucketInit ==
  /\ files = [staging |-> NoFile, progress |-> NoProgress, packed |-> "none", assignments |-> FALSE, output |-> <<>>, manifest |-> "none"]
  /\ run = Idle /\ bounds = [runs |-> 0, crashes |-> 0]

\* preflight_multiway_artifact and the path policy: no output or manifest is overwritten, and
\* staging file and sidecar come together.
preflight(identity, checkpointed) ==
  LET sidecar == checkpointed /\ files.progress # NoProgress
  IN /\ files.output = <<>> /\ files.manifest = "none"
     /\ files.staging.exists = sidecar
     /\ sidecar => files.progress.identity = identity /\ Bytes(files.staging) >= ByteLength(files.progress)
\* MultiwayBucketArtifactWriter::resume drops what lies behind the checkpoint.
resume_untrimmed(staging, progress) == staging       \* (mutant: the tail stays)
resume(staging, progress) == [staging EXCEPT !.tables = SubSeq(@, 1, progress.table_count), !.torn = FALSE]
ResumeAccepts == SubSeq(files.staging.tables, 1, files.progress.table_count) = files.progress.hash
Started(identity, checkpointed, count) ==
  [Idle EXCEPT !.pc = "generate", !.identity = identity, !.checkpointed = checkpointed, !.table_count = count]
Start(identity, checkpointed) ==
  /\ run.pc = "idle" /\ bounds.runs < MaxRuns /\ preflight(identity, checkpointed)
  /\ bounds' = [bounds EXCEPT !.runs = @ + 1]
  /\ IF files.staging.exists
     THEN /\ ResumeAccepts
          /\ run' = Started(identity, checkpointed, files.progress.table_count)
          /\ files' = [files EXCEPT !.staging = resume(@, files.progress)]
     ELSE /\ run' = Started(identity, checkpointed, 0)
          /\ files' = [files EXCEPT !.staging = [NoFile EXCEPT !.exists = TRUE]]

At(pc) == run.pc = pc /\ UNCHANGED bounds
Goes(pc) == run' = [run EXCEPT !.pc = pc]
\* Everything written reaches the file; also when the writer is destroyed.
Flushed(staging) == IF run.bad THEN staging ELSE [staging EXCEPT !.header = TRUE, !.tables = @ \o run.buffered]
FlushTo(pc) == files' = [files EXCEPT !.staging = Flushed(@)] /\ run' = [run EXCEPT !.pc = pc, !.buffered = <<>>]
\* What an interrupted write may leave: some of the buffered tables, and part of the next.
Spilled(staging) ==
  {[staging EXCEPT !.header = TRUE, !.tables = @ \o SubSeq(run.buffered, 1, n), !.torn = t]
     : n \in 0 .. Len(run.buffered), t \in {u \in BOOLEAN : u => run.buffered # <<>>}} \cup {staging}
Exits == FlushTo("idle")

CheckpointDue(completed) ==
  completed % CheckpointEvery = 0 \/ completed \in {Sizes[1], Sizes[1] + Sizes[2], Total}
\* The publisher of the generation: chunks come in order (BucketGeneration).
append_serialized_chunk ==
  LET count == Min({ChunkSize, Total - run.table_count})
      completed == run.table_count + count
  IN /\ At("generate") /\ run.table_count < Total
     /\ run' = [run EXCEPT !.pc = IF run.checkpointed /\ CheckpointDue(completed) THEN "flush" ELSE "generate",
                           !.table_count = completed, !.buffered = @ \o TablesOf(run.identity, run.table_count, count)]
     /\ UNCHANGED files
Generated == At("generate") /\ run.table_count = Total /\ Goes("convert") /\ UNCHANGED files
\* A builder throws, or a write fails in the middle.
GenerationThrows ==
  /\ At("generate") /\ run.table_count < Total
  /\ \/ Goes("abort") /\ UNCHANGED files
     \/ /\ run' = [run EXCEPT !.pc = "abort", !.bad = TRUE, !.buffered = <<>>]
        /\ \E left \in Spilled(files.staging) : files' = [files EXCEPT !.staging = [left EXCEPT !.torn = TRUE]]
\* publish_checkpoint: flush, then the sidecar; in this order.
Progress == [identity |-> run.identity, table_count |-> run.table_count, hash |-> TablesOf(run.identity, 0, run.table_count)]
flush_checkpoint_late == At("flush") /\ Goes("save") /\ UNCHANGED files   \* (mutant: the sidecar goes first)
flush_checkpoint == At("flush") /\ FlushTo("save")
\* save_multiway_bucket_progress_atomic; a failing publication keeps the old sidecar.
save_progress ==
  /\ At("save")
  /\ \/ files' = [files EXCEPT !.progress = Progress] /\ Goes("generate")
     \/ UNCHANGED files /\ Goes("abort")
\* The catch block: one more checkpoint if the stream is good, then the exception leaves.
Abort == At("abort") /\ (IF run.checkpointed /\ ~run.bad THEN FlushTo("last_save") ELSE Exits)
LastSave == At("last_save") /\ files' \in {files, [files EXCEPT !.progress = Progress]} /\ Goes("idle")

\* finish: the conversion refuses to write over what an earlier one left.
Convert ==
  /\ At("convert") /\ run' = [run EXCEPT !.pc = IF files.packed # "none" \/ files.assignments THEN "idle" ELSE "assign", !.buffered = <<>>]
  /\ files' = [files EXCEPT !.staging = Flushed(@)]
\* An I/O error ends the run and leaves what was written.
Fails == Goes("idle") /\ UNCHANGED files
Assign ==
  /\ At("assign")
  /\ \/ files' = [files EXCEPT !.assignments = TRUE] /\ run' \in {[run EXCEPT !.pc = "pack"], [run EXCEPT !.pc = "idle"]}
     \/ Fails
Pack ==
  /\ At("pack")
  /\ \/ files' = [files EXCEPT !.packed = "partial"] /\ Goes("packing")
     \/ Fails
Packed ==
  /\ At("packing")
  /\ \/ files' = [files EXCEPT !.packed = "whole", !.assignments = FALSE] /\ Goes("publish")
     \/ Fails
\* publish_atomic_replace (CheckpointArtifact): the rename, or an error that removes the packed file.
Publish ==
  /\ At("publish")
  /\ \/ files' = [files EXCEPT !.output = files.staging.tables, !.packed = "none"] /\ Goes("clean")
     \/ files' = [files EXCEPT !.packed = "none"] /\ Goes("idle")
Clean == At("clean") /\ files' \in {files, [files EXCEPT !.staging = NoFile]} /\ Goes("inspect")
\* The published file is inspected and the manifest written, or the run fails.
VerifyAndManifest ==
  /\ At("inspect")
  /\ \/ Len(files.output) = Total /\ files' = [files EXCEPT !.manifest = run.identity] /\ Goes("idle")
     \/ Fails
Crash ==
  /\ run.pc # "idle" /\ bounds.crashes < MaxCrashes
  /\ bounds' = [bounds EXCEPT !.crashes = @ + 1] /\ run' = [run EXCEPT !.pc = "idle", !.buffered = <<>>]
  /\ \E left \in Spilled(files.staging) : files' = [files EXCEPT !.staging = IF run.bad THEN @ ELSE left]
\* External: the operator discards a staging file with its sidecar, or the artifact.
Discard ==
  /\ run.pc = "idle" /\ UNCHANGED <<run, bounds>>
  /\ files' \in {[files EXCEPT !.staging = NoFile, !.progress = NoProgress], [files EXCEPT !.packed = "none", !.assignments = FALSE],
                 [files EXCEPT !.output = <<>>, !.manifest = "none"]}
  /\ files' # files
BucketNext ==
  \/ \E i \in Identities, c \in BOOLEAN : Start(i, c)
  \/ append_serialized_chunk \/ Generated \/ GenerationThrows \/ flush_checkpoint \/ save_progress \/ Abort \/ LastSave
  \/ Convert \/ Assign \/ Pack \/ Packed \/ Publish \/ Clean \/ VerifyAndManifest \/ Crash \/ Discard

-----------------------------------------------------------------------------
\* The catalog lists every sorted board of a street once, in order; the incremental walk agrees
\* with the index of each board, and chunks cut the catalog at any two indices.
CatalogExact ==
  \A deck \in Decks :
    LET all == FlattenSeq([s \in Streets |-> LET b == enumerate(deck, s, 0, board_count(deck, s))
                                             IN [i \in DOMAIN b |-> [street |-> s, board |-> b[i]]]])
    IN /\ \A i \in 1 .. Len(all) - 1 : BoardLess(all[i], all[i + 1])
       /\ \A i \in DOMAIN all : is_canonical_board(deck, all[i])
       /\ Len(all) = Cardinality({b \in SUBSET (0 .. deck - 1) : Cardinality(b) \in 3 .. 5})
       /\ \A begin \in 0 .. Len(all), size \in {0, 1, 4, Len(all)} :
            begin + size <= Len(all) => build_chunk(deck, begin, begin + size) = SubSeq(all, begin + 1, begin + size)
\* The three builders of a table agree, and a table survives packing: every live hand is looked up in
\* the bucket it was given, every blocked hand has none, and a board that is not there is not found.
RegistryExact ==
  \A deck \in Decks, counts \in BucketCounts :
    LET boards == build_chunk(deck, 0, Before(deck, 3) + board_count(deck, 3))
        table(i) == build_table(deck, boards[i], counts[boards[i].street])
        kept == {i \in DOMAIN boards : i % 4 # 2}
        some == <<>> \o [i \in 1 .. Cardinality(kept) |-> table(i + (i + 1) \div 3)]
        file == pack(some)
    IN /\ \A i \in DOMAIN boards : direct_table(deck, boards[i], counts[boards[i].street]) = table(i)
       /\ Loads(deck, file)
       /\ \A i \in DOMAIN boards : Found(file, boards[i]) <=> \E j \in DOMAIN some : some[j].board = boards[i].board
       /\ \A j \in DOMAIN some : \A h \in Holes(deck) : lookup(file, some[j], h) = some[j].assignments[h]
\* What a run holds in its staging file and buffer is the tables of its own model from the first on,
\* whatever earlier runs left behind.
StagingInStep ==
  run.pc \in {"generate", "flush", "save", "convert"} /\ ~run.bad =>
    files.staging.tables \o run.buffered = TablesOf(run.identity, 0, run.table_count) /\ ~files.staging.torn
\* A published artifact is whole and of one model, and a manifest is that of the artifact beside it.
PublishedWhole ==
  /\ files.output # <<>> => \E i \in Identities : files.output = TablesOf(i, 0, Total)
  /\ files.manifest # "none" => files.output = TablesOf(files.manifest, 0, Total)
\* A checkpoint that was saved can be resumed: whatever stopped the run since, the staging file holds
\* at least the tables that the sidecar describes.
CheckpointResumable ==
  run.checkpointed /\ files.staging.exists /\ files.progress # NoProgress =>
    Bytes(files.staging) >= ByteLength(files.progress) /\ ResumeAccepts
BucketsSound ==
  /\ bounds.runs = 0 => CatalogExact /\ RegistryExact
  /\ StagingInStep /\ PublishedWhole /\ CheckpointResumable
==============================================================================
