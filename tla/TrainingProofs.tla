---------------------------- MODULE TrainingProofs ----------------------------
(***************************************************************************)
(* Theorems about three parts of training that share nothing: the          *)
(* checkpoint file, the generation of bucket chunks, and the training run. *)
(*                                                                         *)
(* CheckpointArtifact, for every number of merges, saves, failures and     *)
(* crashes.  A file has its hash only if it was closed after all its       *)
(* sections were written from one version of the tables; whatever else may *)
(* lie at one of the three paths does not load.  What is published is      *)
(* never older than the checkpoints it replaces, because a save begins     *)
(* with the present version and only merges make later ones.               *)
(*                                                                         *)
(* BucketGeneration, for every number of threads, queue length, range and  *)
(* chunk size, and however many callbacks fail.  Between what has been     *)
(* published and what has been handed out every chunk has one holder, and  *)
(* so has every place of the queue and every slot.                         *)
(***************************************************************************)
EXTENDS CheckpointArtifact, BucketGeneration, TLAPS, SequenceTheorems, FiniteSetTheorems, NaturalsInduction

-----------------------------------------------------------------------------
(***************************************************************************)
(* The file: what emit writes, the reader reads.                           *)
(***************************************************************************)
SectionNames == {"metadata", "states", "values"}
Cell == [of : SectionNames, count : Nat, version : Nat]

\* A section begins with its count, which is that of its items.
LEMMA SectionCells ==
  ASSUME NEW n \in SectionNames, NEW v \in Nat \ {0}
  PROVE  /\ Section(n, v) \in Seq(Cell)
         /\ Items(n, v) \in Nat \ {0} /\ Len(Section(n, v)) = Items(n, v) + 1
         /\ Section(n, v)[1] = [of |-> n, count |-> Items(n, v), version |-> v]
PROOF
<1> DEFINE m == Items(n, v)
           head == <<[of |-> n, count |-> m, version |-> v]>>
           items == [i \in 1 .. m |-> [of |-> n, count |-> 0, version |-> v]]
<1>1. m \in Nat \ {0}
  <2>1. m = 1 \/ m = v
    BY DEF Items
  <2> HIDE DEF m, head, items
  <2> QED BY <2>1
<1>2. Section(n, v) = head \o items
  BY DEF Section
<1> HIDE DEF m
<1>3. head \in Seq(Cell) /\ Len(head) = 1
  BY <1>1 DEF Cell
<1>4. items \in Seq(Cell) /\ Len(items) = m
  BY <1>1 DEF Cell
<1>5. head[1] = [of |-> n, count |-> m, version |-> v]
  OBVIOUS
<1> HIDE DEF head, items
<1>6. /\ head \o items \in Seq(Cell) /\ Len(head \o items) = 1 + m
      /\ (head \o items)[1] = head[1]
  <2>1. /\ head \o items \in Seq(Cell)
        /\ Len(head \o items) = Len(head) + Len(items)
        /\ \A i \in 1 .. Len(head) + Len(items) :
             (head \o items)[i] = IF i <= Len(head) THEN head[i] ELSE items[i - Len(head)]
    BY <1>3, <1>4, ConcatProperties
  <2> QED BY <1>1, <1>3, <1>4, <2>1
<1> QED BY <1>1, <1>2, <1>5, <1>6 DEF m

\* A section is read, and the reader stands behind it.
LEMMA SectionRead ==
  ASSUME NEW n \in SectionNames, NEW v \in Nat \ {0}, NEW X \in Seq(Cell)
  PROVE  /\ Section(n, v) \o X \in Seq(Cell) /\ Section(n, v) \o X # <<>>
         /\ (Section(n, v) \o X)[1] = [of |-> n, count |-> Items(n, v), version |-> v]
         /\ Reads(Section(n, v) \o X, n) /\ Rest(Section(n, v) \o X) = X
PROOF
<1> DEFINE s == Section(n, v)
           m == Items(n, v)
           all == s \o X
<1>1. s \in Seq(Cell) /\ m \in Nat \ {0} /\ Len(s) = m + 1
  BY SectionCells
<1>2. s[1] = [of |-> n, count |-> m, version |-> v]
  BY SectionCells
<1> HIDE DEF s, m
<1>3. Len(X) \in Nat
  OBVIOUS
<1>4. /\ all \in Seq(Cell) /\ Len(all) = Len(s) + Len(X)
      /\ \A i \in 1 .. Len(s) + Len(X) : all[i] = IF i <= Len(s) THEN s[i] ELSE X[i - Len(s)]
  BY <1>1, ConcatProperties
<1>5. Len(all) = (m + 1) + Len(X) /\ all[1] = s[1]
  BY <1>1, <1>3, <1>4
<1>6. all # <<>>
  BY <1>1, <1>3, <1>5
<1>7. Head(all) = [of |-> n, count |-> m, version |-> v]
  BY <1>2, <1>4, <1>5, <1>6
<1>8. Reads(all, n)
  BY <1>1, <1>3, <1>5, <1>6, <1>7 DEF Reads
<1> HIDE DEF all
<1>9. Rest(all) = SubSeq(all, m + 2, (m + 1) + Len(X))
  <2>1. Head(all).count = m
    BY <1>7
  <2> QED BY <1>5, <2>1 DEF Rest
<1>10. SubSeq(all, m + 2, (m + 1) + Len(X)) = X
  <2>1. CASE X = <<>>
    <3>1. m + 2 \in Int /\ (m + 1) + Len(X) \in Int /\ (m + 1) + Len(X) < m + 2
      BY <1>1, <2>1
    <3> QED BY <2>1, <3>1, SubSeqEmpty
  <2>2. CASE X # <<>>
    <3>1. Len(X) \in Nat \ {0}
      BY <2>2
    <3>2. /\ m + 2 \in Len(s) + 1 .. Len(s) + Len(X)
          /\ (m + 1) + Len(X) \in Len(s) + 1 .. Len(s) + Len(X)
          /\ (m + 2) - Len(s) = 1 /\ ((m + 1) + Len(X)) - Len(s) = Len(X)
      BY <1>1, <3>1
    <3>3. SubSeq(s \o X, m + 2, (m + 1) + Len(X))
            = SubSeq(X, (m + 2) - Len(s), ((m + 1) + Len(X)) - Len(s))
      <4> DEFINE from == m + 2
                 to == (m + 1) + Len(X)
      <4>1. /\ s \in Seq(Cell) /\ X \in Seq(Cell)
            /\ from \in Len(s) + 1 .. Len(s) + Len(X) /\ to \in Len(s) + 1 .. Len(s) + Len(X)
        BY <1>1, <3>2
      <4> HIDE DEF from, to
      <4>2. SubSeq(s \o X, from, to) = SubSeq(X, from - Len(s), to - Len(s))
        BY <4>1, SubSeqOfConcat2, Zenon
      <4> QED BY <4>2 DEF from, to
    <3>4. SubSeq(X, 1, Len(X)) = X
      BY SubSeqFull
    <3> QED BY <3>2, <3>3, <3>4 DEF all
  <2> QED BY <2>1, <2>2
<1> QED BY <1>2, <1>4, <1>5, <1>6, <1>8, <1>9, <1>10 DEF all, s, m

\* The cells of a version are read to their end.
LEMMA CellsParsed ==
  ASSUME NEW v \in Nat \ {0}
  PROVE  /\ Cells(v) \in Seq(Cell) /\ Cells(v) # <<>>
         /\ Cells(v)[1] = [of |-> "metadata", count |-> 1, version |-> v]
         /\ Parsed(Cells(v))
PROOF
<1> DEFINE a == Section("metadata", v)
           b == Section("states", v)
           c == Section("values", v)
<1>1. a \in Seq(Cell) /\ b \in Seq(Cell) /\ c \in Seq(Cell)
  BY SectionCells DEF SectionNames
<1>2. Cells(v) = (a \o b) \o c
  BY DEF Cells
<1>3. "metadata" \in SectionNames /\ "states" \in SectionNames /\ "values" \in SectionNames
  BY DEF SectionNames
<1>4. c \o <<>> = c /\ <<>> \in Seq(Cell)
  BY <1>1, ConcatEmptySeq
<1>5. Reads(c, "values") /\ Rest(c) = <<>>
  <2>1. Reads(c \o <<>>, "values") /\ Rest(c \o <<>>) = <<>>
    BY <1>3, <1>4, SectionRead
  <2> HIDE DEF c
  <2> QED BY <1>4, <2>1
<1>6. b \o c \in Seq(Cell) /\ Reads(b \o c, "states") /\ Rest(b \o c) = c
  BY <1>1, <1>3, SectionRead
<1>7. /\ a \o (b \o c) \in Seq(Cell) /\ a \o (b \o c) # <<>>
      /\ (a \o (b \o c))[1] = [of |-> "metadata", count |-> Items("metadata", v), version |-> v]
      /\ Reads(a \o (b \o c), "metadata") /\ Rest(a \o (b \o c)) = b \o c
  BY <1>3, <1>6, SectionRead
<1> HIDE DEF a, b, c
<1>8. (a \o b) \o c = a \o (b \o c)
  BY <1>1, ConcatAssociative
<1>9. Items("metadata", v) = 1
  BY DEF Items
<1> QED BY <1>2, <1>5, <1>6, <1>7, <1>8, <1>9 DEF Parsed

\* Cells that are a part of a checkpoint: none, or the metadata first.
Headed(cells) == cells = <<>> \/ cells[1].of = "metadata"

\* A file with its hash and all cells of a version loads.
LEMMA WholeLoads ==
  ASSUME NEW v \in Nat \ {0}
  PROVE  Loads(Hashed(Cells(v))) /\ VersionOf(Hashed(Cells(v))) = v
PROOF
<1>0. Cells(v)[1] = [of |-> "metadata", count |-> 1, version |-> v] /\ Parsed(Cells(v))
  BY CellsParsed
<1>1. Hashed(Cells(v)) # NoFile
  <2>1. Cells(v)[1].of = "metadata"
    BY <1>0
  <2>2. Mark("absent")[1].of = "absent"
    BY DEF Mark
  <2>3. Cells(v) # Mark("absent")
    BY <2>1, <2>2
  <2> QED BY <2>3 DEF Hashed, NoFile, Unhashed
<1>2. Hashed(Cells(v)).cells = Cells(v) /\ Hashed(Cells(v)).hash = Cells(v)
  BY DEF Hashed
<1>3. Cells(v)[1].version = v
  BY <1>0
<1> QED BY <1>0, <1>1, <1>2, <1>3 DEF Loads, VersionOf

\* A file without its hash does not.
LEMMA PartDoesNot ==
  ASSUME NEW cells, Headed(cells) \/ cells = Mark("none")
  PROVE  Unhashed(cells).hash # Unhashed(cells).cells
PROOF
<1>1. cells # Mark("absent")
  <2>1. Mark("absent")[1].of = "absent" /\ Mark("none")[1].of = "none" /\ Mark("absent") # <<>>
    BY DEF Mark
  <2> QED BY <2>1 DEF Headed
<1> QED BY <1>1 DEF Unhashed

-----------------------------------------------------------------------------
(***************************************************************************)
(* The invariant.                                                          *)
(***************************************************************************)
\* A file that has its hash holds one of the versions so far.
FileSound(file, t) == file.hash = file.cells => \E v \in 1 .. t : file = Hashed(Cells(v))

\* What emit has written when a section is next.
Emitted(version, section) ==
  IF section = 1 THEN <<>>
  ELSE IF section = 2 THEN Section("metadata", version)
  ELSE Section("metadata", version) \o Section("states", version)

Steps == {"idle", "plan", "open", "emit", "close", "rename", "fallback", "copy", "place",
          "clean", "returned"}
Saves == [pc : Steps, writer : {"streamed", "sealed"},
          policy : {"reject_non_atomic", "reject_copy", "allow"}, version : Nat,
          plan : Nat, lease : BOOLEAN, section : Nat]

\* A save under way writes a version that is not older than the checkpoints, and
\* the streamed one keeps it from changing.
Lease ==
  /\ save.pc # "idle" => save.version \in 1 .. tables
  /\ save.lease => save.version = tables
  /\ save.pc \notin {"idle", "returned"} =>
       /\ save.writer = "streamed" => save.lease
       /\ \A file \in {dest, backup} : Loads(file) => VersionOf(file) <= save.version

\* What the temporary and the path hold in each step of a save.
Progress ==
  /\ save.pc = "emit" =>
       save.section \in 1 .. 3 /\ temp = Unhashed(Emitted(save.version, save.section))
  /\ save.pc = "close" => temp = Unhashed(Cells(save.version))
  /\ save.pc \in {"rename", "fallback", "copy", "place"} => temp = Hashed(Cells(save.version))
  /\ save.pc \in {"copy", "place"} => ~Loads(dest)
  /\ save.pc \in {"clean", "returned"} => dest = Hashed(Cells(save.version))

ArtifactInvariant ==
  /\ tables \in Nat \ {0}
  /\ save \in Saves
  /\ FileSound(temp, tables) /\ FileSound(dest, tables) /\ FileSound(backup, tables)
  /\ Lease
  /\ Progress

\* A file that loads is a version so far, and stays one.
LEMMA LoadedFile ==
  ASSUME NEW file, NEW t \in Nat, FileSound(file, t), Loads(file)
  PROVE  /\ VersionOf(file) \in 1 .. t
         /\ file = Hashed(Cells(VersionOf(file))) /\ file.cells = Cells(VersionOf(file))
PROOF
<1>1. PICK v \in 1 .. t : file = Hashed(Cells(v))
  BY DEF FileSound, Loads
<1>2. v \in Nat \ {0}
  OBVIOUS
<1>3. VersionOf(file) = v
  BY <1>1, <1>2, WholeLoads
<1> QED BY <1>1, <1>3 DEF Hashed

LEMMA SoundLater ==
  ASSUME NEW file, NEW t \in Nat, FileSound(file, t)
  PROVE  FileSound(file, t + 1)
PROOF BY DEF FileSound

\* What is no file, and what is unfinished, is sound and does not load.
LEMMA UnhashedSound ==
  ASSUME NEW cells, Headed(cells) \/ cells = Mark("none"), NEW t
  PROVE  FileSound(Unhashed(cells), t) /\ ~Loads(Unhashed(cells))
PROOF BY PartDoesNot DEF FileSound, Loads

LEMMA NoFileSound ==
  ASSUME NEW t
  PROVE  FileSound(NoFile, t) /\ ~Loads(NoFile)
PROOF BY UnhashedSound DEF NoFile

\* A closed file is sound and loads.
LEMMA WholeSound ==
  ASSUME NEW t \in Nat, NEW v \in 1 .. t
  PROVE  /\ FileSound(Hashed(Cells(v)), t)
         /\ Loads(Hashed(Cells(v))) /\ VersionOf(Hashed(Cells(v))) = v
PROOF
<1>1. v \in Nat \ {0}
  OBVIOUS
<1> QED BY <1>1, WholeLoads DEF FileSound

\* The sections written so far, and any part of the cells.
LEMMA EmittedHeaded ==
  ASSUME NEW v \in Nat \ {0}, NEW s \in 1 .. 3
  PROVE  /\ Headed(Emitted(v, s))
         /\ s < 3 => Emitted(v, s) \o Section(Sections[s], v) = Emitted(v, s + 1)
         /\ s = 3 => Emitted(v, s) \o Section(Sections[s], v) = Cells(v)
PROOF
<1> DEFINE a == Section("metadata", v)
           b == Section("states", v)
<1>0. "metadata" \in SectionNames /\ "states" \in SectionNames
  BY DEF SectionNames
<1>1. a \in Seq(Cell) /\ b \in Seq(Cell)
  BY <1>0, SectionCells
<1>2. a[1].of = "metadata"
  <2>1. a[1] = [of |-> "metadata", count |-> Items("metadata", v), version |-> v]
    BY <1>0, SectionCells
  <2> QED BY <2>1
<1>3. (a \o b)[1].of = "metadata"
  <2>1. (a \o b)[1] = [of |-> "metadata", count |-> Items("metadata", v), version |-> v]
    BY <1>0, <1>1, SectionRead
  <2> HIDE DEF a, b
  <2> QED BY <2>1
<1>4. <<>> \o a = a
  BY <1>1, ConcatEmptySeq
<1>5. Sections[1] = "metadata" /\ Sections[2] = "states" /\ Sections[3] = "values"
  BY DEF Sections
<1>6. s = 1 \/ s = 2 \/ s = 3
  OBVIOUS
<1>7. /\ Emitted(v, 1) = <<>> /\ Emitted(v, 2) = a /\ Emitted(v, 3) = a \o b
      /\ Cells(v) = (a \o b) \o Section("values", v)
  BY DEF Emitted, Cells
<1> HIDE DEF a, b
<1>8. CASE s = 1
  <2>1. s + 1 = 2 /\ s # 3 /\ Emitted(v, s) = <<>> /\ Section(Sections[s], v) = a
    BY <1>5, <1>7, <1>8 DEF a
  <2>2. Emitted(v, s + 1) = a
    BY <1>7, <2>1
  <2> QED BY <1>4, <2>1, <2>2 DEF Headed
<1>9. CASE s = 2
  <2>1. s + 1 = 3 /\ s # 3 /\ Emitted(v, s) = a /\ Section(Sections[s], v) = b
    BY <1>5, <1>7, <1>9 DEF b
  <2>2. Emitted(v, s + 1) = a \o b
    BY <1>7, <2>1
  <2> QED BY <1>2, <2>1, <2>2 DEF Headed
<1>10. CASE s = 3
  <2>1. ~ (s < 3) /\ Emitted(v, s) = a \o b /\ Section(Sections[s], v) = Section("values", v)
    BY <1>5, <1>7, <1>10
  <2> QED BY <1>3, <1>7, <2>1 DEF Headed
<1> QED BY <1>6, <1>8, <1>9, <1>10

LEMMA PrefixHeaded ==
  ASSUME NEW v \in Nat \ {0}, NEW k \in 0 .. Len(Cells(v))
  PROVE  Headed(SubSeq(Cells(v), 1, k))
PROOF
<1> DEFINE c == Cells(v)
<1>1. c \in Seq(Cell) /\ c[1] = [of |-> "metadata", count |-> 1, version |-> v]
  BY CellsParsed
<1> HIDE DEF c
<1>2. Len(c) \in Nat /\ k \in 0 .. Len(c)
  BY <1>1 DEF c
<1>3. CASE k = 0
  <2>1. SubSeq(c, 1, k) = <<>>
    <3>1. 1 \in Int /\ k \in Int /\ k < 1
      BY <1>3
    <3> QED BY <3>1, SubSeqEmpty
  <2> QED BY <2>1 DEF Headed, c
<1>4. CASE k # 0
  <2>1. k \in 1 .. Len(c) /\ 1 \in 1 .. Len(c)
    BY <1>2, <1>4
  <2>2. SubSeq(c, 1, k)[1] = c[1]
    BY <1>1, <2>1
  <2> QED BY <1>1, <2>2 DEF Headed, c
<1> QED BY <1>3, <1>4

-----------------------------------------------------------------------------
(***************************************************************************)
(* The steps.                                                              *)
(***************************************************************************)
LEMMA IdleFields ==
  /\ Idle \in Saves /\ Idle.pc = "idle" /\ Idle.lease = FALSE
PROOF
<1>1. Idle \in Saves
  BY DEF Idle, Saves, Steps
<1>2. Idle.pc = "idle" /\ Idle.lease = FALSE
  BY DEF Idle
<1> QED BY <1>1, <1>2

\* A save that ends without a file leaves sound ones.
LEMMA BackToIdle ==
  ASSUME tables' \in Nat \ {0}, save' = Idle,
         FileSound(temp', tables'), FileSound(dest', tables'), FileSound(backup', tables')
  PROVE  ArtifactInvariant'
PROOF
<1>1. save'.pc = "idle" /\ save'.lease = FALSE /\ save' \in Saves
  BY IdleFields
<1>2. Lease' /\ Progress'
  BY <1>1 DEF Lease, Progress
<1> QED BY <1>1, <1>2 DEF ArtifactInvariant

\* A checkpoint that lies at one of the two paths after the step is kept.
LEMMA FileKept ==
  ASSUME NEW t \in Nat, NEW file \in {dest', backup'}, FileSound(file, t), Loads(file)
  PROVE  \E kept \in {dest', backup'} : Loads(kept) /\ VersionOf(kept) >= VersionOf(file)
PROOF
<1> DEFINE v == VersionOf(file)
<1>1. v \in 1 .. t
  BY LoadedFile
<1> HIDE DEF v
<1>2. v >= v
  BY <1>1
<1> QED BY <1>2 DEF v

\* A step that loses neither file of the two paths loses no checkpoint.
LEMMA FilesMoved ==
  ASSUME tables \in Nat, FileSound(dest, tables), FileSound(backup, tables),
         \A file \in {dest, backup} : Loads(file) => file \in {dest', backup'}
  PROVE  CheckpointKept
PROOF
<1>1. ASSUME NEW file \in {dest, backup}, Loads(file)
      PROVE  \E kept \in {dest', backup'} : Loads(kept) /\ VersionOf(kept) >= VersionOf(file)
  <2>1. FileSound(file, tables) /\ file \in {dest', backup'}
    BY <1>1
  <2> QED BY <1>1, <2>1, FileKept
<1> QED BY <1>1 DEF CheckpointKept

LEMMA FilesStay ==
  ASSUME tables \in Nat, FileSound(dest, tables), FileSound(backup, tables),
         dest' = dest, backup' = backup
  PROVE  CheckpointKept
PROOF BY FilesMoved

LEMMA ThrowsStep ==
  ASSUME ArtifactInvariant, Throws
  PROVE  ArtifactInvariant' /\ CheckpointKept
PROOF
<1>0. /\ tables \in Nat \ {0}
      /\ FileSound(temp, tables) /\ FileSound(dest, tables) /\ FileSound(backup, tables)
  BY DEF ArtifactInvariant
<1>1. save' = Idle /\ temp' \in {temp, NoFile} /\ dest' = dest /\ backup' = backup /\ tables' = tables
  BY DEF Throws
<1>2. FileSound(temp', tables')
  BY <1>0, <1>1, NoFileSound
<1>3. ArtifactInvariant'
  BY <1>0, <1>1, <1>2, BackToIdle
<1>4. CheckpointKept
  BY <1>0, <1>1, FilesStay
<1> QED BY <1>3, <1>4

\* A save that goes on to another step.
LEMMA SaveMoves ==
  ASSUME save \in Saves, NEW p \in Steps, NEW n \in Nat, NEW k \in Nat,
         save' \in {[save EXCEPT !.pc = p], [save EXCEPT !.pc = p, !.plan = n],
                    [save EXCEPT !.pc = p, !.section = k]}
  PROVE  /\ save' \in Saves /\ save'.pc = p /\ save'.writer = save.writer
         /\ save'.version = save.version /\ save'.lease = save.lease
PROOF BY DEF Saves

LEMMA MergeStep ==
  ASSUME ArtifactInvariant, Merge
  PROVE  ArtifactInvariant' /\ CheckpointKept
PROOF
<1>0. /\ tables \in Nat \ {0} /\ save \in Saves
      /\ FileSound(temp, tables) /\ FileSound(dest, tables) /\ FileSound(backup, tables)
      /\ Lease /\ Progress
  BY DEF ArtifactInvariant
<1>1. /\ ~save.lease /\ tables' = tables + 1 /\ temp' = temp /\ dest' = dest
      /\ backup' = backup /\ save' = save
  BY DEF Merge
<1>2. FileSound(temp', tables') /\ FileSound(dest', tables') /\ FileSound(backup', tables')
  BY <1>0, <1>1, SoundLater
<1>3. Lease'
  <2>1. save.pc # "idle" => save.version \in 1 .. tables'
    BY <1>0, <1>1 DEF Lease
  <2> QED BY <1>0, <1>1, <2>1 DEF Lease
<1>4. Progress'
  BY <1>0, <1>1 DEF Progress
<1>5. tables' \in Nat \ {0}
  BY <1>0, <1>1
<1>6. CheckpointKept
  BY <1>0, <1>1, FilesStay
<1> QED BY <1>0, <1>1, <1>2, <1>3, <1>4, <1>5, <1>6 DEF ArtifactInvariant

LEMMA BeginStep ==
  ASSUME ArtifactInvariant, Begin
  PROVE  ArtifactInvariant' /\ CheckpointKept
PROOF
<1>0. /\ tables \in Nat \ {0} /\ save \in Saves
      /\ FileSound(temp, tables) /\ FileSound(dest, tables) /\ FileSound(backup, tables)
      /\ Lease /\ Progress
  BY DEF ArtifactInvariant
<1>1. /\ tables' = tables /\ temp' = temp /\ dest' = dest /\ backup' = backup
      /\ save' \in {BeginStreamed, BeginSealed, [BeginSealed EXCEPT !.policy = "reject_copy"]}
  BY DEF Begin
<1>2. /\ save' \in Saves /\ save'.version = tables /\ save'.pc \in {"plan", "open"}
      /\ save'.writer = "streamed" => save'.lease
  <2>1. CASE save' = BeginStreamed
    BY <1>0, <2>1 DEF BeginStreamed, Idle, Saves, Steps
  <2>2. CASE save' = BeginSealed
    BY <1>0, <2>2 DEF BeginSealed, Idle, Saves, Steps
  <2>3. CASE save' = [BeginSealed EXCEPT !.policy = "reject_copy"]
    BY <1>0, <2>3 DEF BeginSealed, Idle, Saves, Steps
  <2> QED BY <1>1, <2>1, <2>2, <2>3
<1>3. \A file \in {dest, backup} : Loads(file) => VersionOf(file) \in 1 .. tables
  BY <1>0, LoadedFile
<1>4. \A file \in {dest, backup} : Loads(file) => VersionOf(file) <= tables
  BY <1>0, <1>3
<1>5. Lease'
  <2>1. tables \in 1 .. tables
    BY <1>0
  <2> QED BY <1>1, <1>2, <1>4, <2>1 DEF Lease
<1>6. Progress'
  BY <1>2 DEF Progress
<1>7. CheckpointKept
  BY <1>0, <1>1, FilesStay
<1> QED BY <1>0, <1>1, <1>2, <1>5, <1>6, <1>7 DEF ArtifactInvariant

\* A step before the publication: the temporary is the save's own.
LEMMA WriteGoesOn ==
  ASSUME ArtifactInvariant, save.pc \in {"plan", "open", "emit", "close"},
         save' \in Saves, save'.pc \in {"open", "emit", "close", "rename"},
         save'.writer = save.writer, save'.version = save.version, save'.lease = save.lease,
         tables' = tables, dest' = dest, backup' = backup,
         FileSound(temp', tables), Progress'
  PROVE  ArtifactInvariant' /\ CheckpointKept
PROOF
<1>0. /\ tables \in Nat \ {0} /\ save \in Saves
      /\ FileSound(dest, tables) /\ FileSound(backup, tables) /\ Lease
  BY DEF ArtifactInvariant
<1>1. Lease'
  BY <1>0 DEF Lease
<1>2. CheckpointKept
  BY <1>0, FilesStay
<1> QED BY <1>0, <1>1, <1>2 DEF ArtifactInvariant

LEMMA PlanStep ==
  ASSUME ArtifactInvariant, Plan
  PROVE  ArtifactInvariant' /\ CheckpointKept
PROOF
<1>1. CASE Throws
  BY <1>1, ThrowsStep
<1>2. CASE /\ save' = [save EXCEPT !.pc = "open", !.plan = Len(Cells(tables))]
           /\ UNCHANGED <<tables, temp, dest, backup, bounds>>
  <2>1. save.pc = "plan" /\ save \in Saves /\ FileSound(temp, tables) /\ tables \in Nat \ {0}
    BY DEF Plan, ArtifactInvariant
  <2>2. Len(Cells(tables)) \in Nat
    <3>1. Cells(tables) \in Seq(Cell)
      BY <2>1, CellsParsed
    <3> QED BY <3>1, LenProperties
  <2>3. /\ save' \in Saves /\ save'.pc = "open" /\ save'.writer = save.writer
        /\ save'.version = save.version /\ save'.lease = save.lease
    BY <1>2, <2>1, <2>2, SaveMoves DEF Steps
  <2>4. Progress'
    BY <2>3 DEF Progress
  <2> QED BY <1>2, <2>1, <2>3, <2>4, WriteGoesOn
<1> QED BY <1>1, <1>2 DEF Plan

LEMMA OpenStep ==
  ASSUME ArtifactInvariant, Open
  PROVE  ArtifactInvariant' /\ CheckpointKept
PROOF
<1>1. CASE Throws
  BY <1>1, ThrowsStep
<1>2. CASE /\ save' = [save EXCEPT !.pc = "emit", !.section = 1] /\ temp' = Unhashed(<<>>)
           /\ UNCHANGED <<tables, dest, backup, bounds>>
  <2>1. save.pc = "open" /\ save \in Saves /\ tables \in Nat \ {0}
    BY DEF Open, ArtifactInvariant
  <2>2. /\ save' \in Saves /\ save'.pc = "emit" /\ save'.writer = save.writer
        /\ save'.version = save.version /\ save'.lease = save.lease
    BY <1>2, <2>1, SaveMoves DEF Steps
  <2>3. save'.section = 1
    BY <1>2, <2>1 DEF Saves
  <2>4. FileSound(temp', tables)
    BY <1>2, UnhashedSound DEF Headed
  <2>5. Progress'
    BY <1>2, <2>2, <2>3 DEF Progress, Emitted
  <2> QED BY <1>2, <2>1, <2>2, <2>4, <2>5, WriteGoesOn
<1> QED BY <1>1, <1>2 DEF Open

\* The tables that a streamed save reads are those it began with.
LEMMA EmitStep ==
  ASSUME ArtifactInvariant, Emit
  PROVE  ArtifactInvariant' /\ CheckpointKept
PROOF
<1> DEFINE version == IF save.writer = "streamed" THEN tables ELSE save.version
           written == temp.cells \o Section(Sections[save.section], version)
<1>1. CASE Throws
  BY <1>1, ThrowsStep
<1>2. CASE /\ temp' = Unhashed(written)
           /\ save' = IF save.section = Len(Sections) THEN [save EXCEPT !.pc = "close"]
                      ELSE [save EXCEPT !.section = @ + 1]
           /\ UNCHANGED <<tables, dest, backup, bounds>>
  <2>1. /\ save.pc = "emit" /\ save \in Saves /\ tables \in Nat \ {0} /\ Lease
        /\ save.section \in 1 .. 3 /\ temp = Unhashed(Emitted(save.version, save.section))
    BY DEF Emit, ArtifactInvariant, Progress
  <2>2. version = save.version /\ save.version \in 1 .. tables /\ save.version \in Nat \ {0}
    <3>1. /\ save.writer = "streamed" => save.version = tables
          /\ save.version \in 1 .. tables
      BY <2>1 DEF Lease
    <3> QED BY <2>1, <3>1
  <2>3. written = Emitted(save.version, save.section) \o Section(Sections[save.section], save.version)
    BY <2>1, <2>2 DEF Unhashed
  <2> HIDE DEF written, version
  <2>4. Len(Sections) = 3
    BY DEF Sections
  <2>5. CASE save.section = 3
    <3>1. written = Cells(save.version)
      <4>1. 3 \in 1 .. 3
        OBVIOUS
      <4>2. Emitted(save.version, 3) \o Section(Sections[3], save.version) = Cells(save.version)
        BY <2>2, <4>1, EmittedHeaded
      <4> QED BY <2>3, <2>5, <4>2
    <3>2. save' = [save EXCEPT !.pc = "close"]
      BY <1>2, <2>4, <2>5
    <3>3. /\ save' \in Saves /\ save'.pc = "close" /\ save'.writer = save.writer
          /\ save'.version = save.version /\ save'.lease = save.lease
      BY <2>1, <3>2, SaveMoves DEF Steps
    <3>4. Headed(written)
      <4>1. Cells(save.version)[1] = [of |-> "metadata", count |-> 1, version |-> save.version]
        BY <2>2, CellsParsed
      <4> QED BY <3>1, <4>1 DEF Headed
    <3>5. FileSound(temp', tables)
      BY <1>2, <3>4, UnhashedSound
    <3>6. Progress'
      BY <1>2, <3>1, <3>3 DEF Progress
    <3> QED BY <1>2, <2>1, <3>3, <3>5, <3>6, WriteGoesOn
  <2>6. CASE save.section # 3
    <3>1. save.section \in 1 .. 2 /\ save.section + 1 \in 1 .. 3 /\ save.section < 3
      BY <2>1, <2>6
    <3>2. written = Emitted(save.version, save.section + 1)
      BY <2>1, <2>2, <2>3, <3>1, EmittedHeaded
    <3>3. Headed(written)
      BY <2>2, <3>1, <3>2, EmittedHeaded
    <3>4. save' = [save EXCEPT !.section = save.section + 1]
      BY <1>2, <2>4, <2>6
    <3>5. /\ save' \in Saves /\ save'.pc = "emit" /\ save'.writer = save.writer
          /\ save'.version = save.version /\ save'.lease = save.lease
          /\ save'.section = save.section + 1
      BY <2>1, <3>1, <3>4 DEF Saves
    <3>6. FileSound(temp', tables)
      BY <1>2, <3>3, UnhashedSound
    <3>7. Progress'
      BY <1>2, <3>1, <3>2, <3>5 DEF Progress
    <3> QED BY <1>2, <2>1, <3>5, <3>6, <3>7, WriteGoesOn
  <2> QED BY <2>5, <2>6
<1> QED BY <1>1, <1>2 DEF Emit

LEMMA CloseStep ==
  ASSUME ArtifactInvariant, Close
  PROVE  ArtifactInvariant' /\ CheckpointKept
PROOF
<1>1. CASE Throws
  BY <1>1, ThrowsStep
<1>2. CASE /\ temp' = Hashed(temp.cells) /\ save' = [save EXCEPT !.pc = "rename"]
           /\ UNCHANGED <<tables, dest, backup, bounds>>
  <2>1. /\ save.pc = "close" /\ save \in Saves /\ tables \in Nat \ {0} /\ Lease
        /\ temp = Unhashed(Cells(save.version))
    BY DEF Close, ArtifactInvariant, Progress
  <2>2. save.version \in 1 .. tables
    BY <2>1 DEF Lease
  <2>3. temp' = Hashed(Cells(save.version))
    BY <1>2, <2>1 DEF Unhashed
  <2>4. FileSound(temp', tables)
    BY <2>1, <2>2, <2>3, WholeSound
  <2>5. /\ save' \in Saves /\ save'.pc = "rename" /\ save'.writer = save.writer
        /\ save'.version = save.version /\ save'.lease = save.lease
    BY <1>2, <2>1, SaveMoves DEF Steps
  <2>6. Progress'
    BY <2>3, <2>5 DEF Progress
  <2> QED BY <1>2, <2>1, <2>4, <2>5, <2>6, WriteGoesOn
<1> QED BY <1>1, <1>2 DEF Close

\* The new file takes the path: no checkpoint is newer.
LEMMA NewestPlaced ==
  ASSUME ArtifactInvariant, save.pc \notin {"idle", "returned"},
         dest' = Hashed(Cells(save.version))
  PROVE  CheckpointKept /\ FileSound(dest', tables)
PROOF
<1>1. tables \in Nat /\ save.version \in 1 .. tables
  BY DEF ArtifactInvariant, Lease
<1>2. FileSound(dest', tables) /\ Loads(dest') /\ VersionOf(dest') = save.version
  BY <1>1, WholeSound
<1>3. ASSUME NEW file \in {dest, backup}, Loads(file)
      PROVE  VersionOf(dest') >= VersionOf(file)
  <2>1. VersionOf(file) <= save.version
    BY <1>3 DEF ArtifactInvariant, Lease
  <2>2. VersionOf(file) \in 1 .. tables
    BY <1>1, <1>3, LoadedFile DEF ArtifactInvariant
  <2> DEFINE v == VersionOf(file)
             w == VersionOf(dest')
  <2>3. v \in 1 .. tables /\ v <= w /\ w \in 1 .. tables
    BY <1>1, <1>2, <2>1, <2>2
  <2> HIDE DEF v, w
  <2>4. w >= v
    BY <1>1, <2>3
  <2> QED BY <2>4 DEF v, w
<1> QED BY <1>2, <1>3 DEF CheckpointKept

\* A save that has published returns.
LEMMA ReturnsWhole ==
  ASSUME ArtifactInvariant, save.pc \notin {"idle", "returned"}, Published, tables' = tables,
         dest' = Hashed(Cells(save.version)),
         FileSound(temp', tables), FileSound(backup', tables)
  PROVE  ArtifactInvariant' /\ CheckpointKept
PROOF
<1>1. tables \in Nat \ {0} /\ save.version \in 1 .. tables
  BY DEF ArtifactInvariant, Lease
<1> DEFINE v == save.version
<1>2. v \in Nat /\ save' = [Idle EXCEPT !.pc = "returned", !.version = v]
  BY <1>1 DEF Published
<1> HIDE DEF v
<1>3. save' \in Saves /\ save'.pc = "returned" /\ save'.version = v
  BY <1>2 DEF Idle, Saves, Steps
<1>4. save'.lease = FALSE
  BY <1>2 DEF Idle
<1>5. Lease' /\ Progress'
  BY <1>1, <1>3, <1>4 DEF Lease, Progress, v
<1> QED BY <1>1, <1>3, <1>5, NewestPlaced DEF ArtifactInvariant

\* A publication that fails removes the temporary.
LEMMA PublishFailsStep ==
  ASSUME ArtifactInvariant, PublishFails, tables' = tables,
         dest' \in {dest, backup, NoFile}, backup' \in {dest, backup, NoFile},
         \A file \in {dest, backup} : Loads(file) => file \in {dest', backup'}
  PROVE  ArtifactInvariant' /\ CheckpointKept
PROOF
<1>0. tables \in Nat \ {0} /\ FileSound(dest, tables) /\ FileSound(backup, tables)
  BY DEF ArtifactInvariant
<1>1. save' = Idle /\ temp' = NoFile
  BY DEF PublishFails
<1>2. FileSound(temp', tables') /\ FileSound(dest', tables') /\ FileSound(backup', tables')
  BY <1>0, <1>1, NoFileSound
<1> QED BY <1>0, <1>1, <1>2, BackToIdle, FilesMoved

\* A publication that goes on keeps the temporary, or has moved it to the path.
LEMMA PublishGoesOn ==
  ASSUME ArtifactInvariant, save.pc \in {"rename", "fallback", "place"}, save' \in Saves,
         save'.pc \in {"fallback", "copy", "place", "clean"},
         save'.writer = save.writer, save'.version = save.version, save'.lease = save.lease,
         tables' = tables, FileSound(temp', tables), FileSound(dest', tables),
         FileSound(backup', tables), Progress',
         \A file \in {dest', backup'} : file \in {dest, backup} \/ ~Loads(file)
                                          \/ file = Hashed(Cells(save.version))
  PROVE  ArtifactInvariant'
PROOF
<1>1. /\ tables \in Nat \ {0} /\ save.version \in 1 .. tables /\ Lease
      /\ save.writer = "streamed" => save.lease
      /\ \A file \in {dest, backup} : Loads(file) => VersionOf(file) <= save.version
  BY DEF ArtifactInvariant, Lease
<1>2. VersionOf(Hashed(Cells(save.version))) <= save.version
  <2>1. VersionOf(Hashed(Cells(save.version))) = save.version
    BY <1>1, WholeSound
  <2>2. save.version <= save.version
    BY <1>1
  <2> QED BY <2>1, <2>2
<1>3. \A file \in {dest', backup'} : Loads(file) => VersionOf(file) <= save.version
  BY <1>1, <1>2
<1>4. Lease'
  BY <1>1, <1>3 DEF Lease
<1> QED BY <1>1, <1>4 DEF ArtifactInvariant

LEMMA RenameStep ==
  ASSUME ArtifactInvariant, Rename
  PROVE  ArtifactInvariant' /\ CheckpointKept
PROOF
<1>0. /\ save.pc = "rename" /\ save \in Saves /\ tables \in Nat /\ tables' = tables /\ backup' = backup
      /\ temp = Hashed(Cells(save.version))
      /\ FileSound(temp, tables) /\ FileSound(dest, tables) /\ FileSound(backup, tables)
  BY DEF Rename, ArtifactInvariant, Progress
<1>1. CASE dest' = temp /\ temp' = NoFile /\ Published
  BY <1>0, <1>1, ReturnsWhole, NoFileSound
<1>2. CASE save' = [save EXCEPT !.pc = "fallback"] /\ UNCHANGED <<temp, dest>>
  <2>1. /\ save' \in Saves /\ save'.pc = "fallback" /\ save'.writer = save.writer
        /\ save'.version = save.version /\ save'.lease = save.lease
    BY <1>0, <1>2, SaveMoves DEF Steps
  <2>2. Progress'
    BY <1>0, <1>2, <2>1 DEF Progress
  <2>3. ArtifactInvariant'
    BY <1>0, <1>2, <2>1, <2>2, PublishGoesOn
  <2> QED BY <1>0, <1>2, <2>3, FilesStay
<1>3. CASE PublishFails /\ UNCHANGED dest
  BY <1>0, <1>3, PublishFailsStep
<1> QED BY <1>1, <1>2, <1>3 DEF Rename

LEMMA FallbackStep ==
  ASSUME ArtifactInvariant, Fallback
  PROVE  ArtifactInvariant' /\ CheckpointKept
PROOF
<1>0. /\ save.pc = "fallback" /\ save \in Saves /\ tables \in Nat \ {0} /\ tables' = tables
      /\ temp = Hashed(Cells(save.version)) /\ save.version \in 1 .. tables
      /\ FileSound(temp, tables) /\ FileSound(dest, tables) /\ FileSound(backup, tables)
  BY DEF Fallback, ArtifactInvariant, Progress, Lease
<1>1. CASE PublishFails /\ UNCHANGED <<dest, backup>>
  BY <1>0, <1>1, PublishFailsStep
\* A copy grows at the path, where there was nothing.
<1>2. CASE /\ dest = NoFile
           /\ \E written \in 0 .. Len(temp.cells) : dest' = Unhashed(SubSeq(temp.cells, 1, written))
           /\ save' = [save EXCEPT !.pc = "copy"] /\ UNCHANGED <<temp, backup>>
  <2>1. PICK written \in 0 .. Len(temp.cells) : dest' = Unhashed(SubSeq(temp.cells, 1, written))
    BY <1>2
  <2>2. temp.cells = Cells(save.version) /\ save.version \in Nat \ {0}
    BY <1>0 DEF Hashed
  <2>3. Headed(SubSeq(temp.cells, 1, written))
    BY <2>1, <2>2, PrefixHeaded
  <2>4. FileSound(dest', tables) /\ ~Loads(dest')
    BY <2>1, <2>3, UnhashedSound
  <2>5. /\ save' \in Saves /\ save'.pc = "copy" /\ save'.writer = save.writer
        /\ save'.version = save.version /\ save'.lease = save.lease
    BY <1>0, <1>2, SaveMoves DEF Steps
  <2>6. Progress'
    BY <1>0, <1>2, <2>4, <2>5 DEF Progress
  <2>7. ArtifactInvariant'
    BY <1>0, <1>2, <2>4, <2>5, <2>6, PublishGoesOn
  <2>8. ~Loads(dest) /\ backup' = backup
    BY <1>2, NoFileSound
  <2> QED BY <1>0, <2>7, <2>8, FilesMoved
\* The old checkpoint is moved aside, where there was nothing.
<1>3. CASE /\ backup = NoFile /\ backup' = dest /\ dest' = NoFile
           /\ save' = [save EXCEPT !.pc = "place"] /\ UNCHANGED temp
  <2>1. /\ save' \in Saves /\ save'.pc = "place" /\ save'.writer = save.writer
        /\ save'.version = save.version /\ save'.lease = save.lease
    BY <1>0, <1>3, SaveMoves DEF Steps
  <2>2. FileSound(dest', tables) /\ ~Loads(dest') /\ ~Loads(backup)
    BY <1>3, NoFileSound
  <2>3. Progress'
    BY <1>0, <1>3, <2>1, <2>2 DEF Progress
  <2>4. ArtifactInvariant'
    BY <1>0, <1>3, <2>1, <2>2, <2>3, PublishGoesOn
  <2> QED BY <1>0, <1>3, <2>2, <2>4, FilesMoved
<1> QED BY <1>1, <1>2, <1>3 DEF Fallback

LEMMA CopyStep ==
  ASSUME ArtifactInvariant, Copy
  PROVE  ArtifactInvariant' /\ CheckpointKept
PROOF
<1>0. /\ save.pc = "copy" /\ tables' = tables /\ backup' = backup
      /\ temp = Hashed(Cells(save.version)) /\ FileSound(backup, tables)
  BY DEF Copy, ArtifactInvariant, Progress
<1>1. CASE dest' = temp /\ temp' = NoFile /\ Published
  BY <1>0, <1>1, ReturnsWhole, NoFileSound
<1>2. CASE PublishFails /\ UNCHANGED dest
  BY <1>0, <1>2, PublishFailsStep
<1> QED BY <1>1, <1>2 DEF Copy

LEMMA PlaceStep ==
  ASSUME ArtifactInvariant, Place
  PROVE  ArtifactInvariant' /\ CheckpointKept
PROOF
<1>0. /\ save.pc = "place" /\ save \in Saves /\ tables' = tables /\ ~Loads(dest)
      /\ temp = Hashed(Cells(save.version)) /\ FileSound(temp, tables) /\ FileSound(backup, tables)
  BY DEF Place, ArtifactInvariant, Progress
<1>1. CASE dest' = temp /\ temp' = NoFile /\ save' = [save EXCEPT !.pc = "clean"] /\ UNCHANGED backup
  <2>1. /\ save' \in Saves /\ save'.pc = "clean" /\ save'.writer = save.writer
        /\ save'.version = save.version /\ save'.lease = save.lease
    BY <1>0, <1>1, SaveMoves DEF Steps
  <2>2. Progress'
    BY <1>0, <1>1, <2>1 DEF Progress
  <2>3. ArtifactInvariant'
    BY <1>0, <1>1, <2>1, <2>2, NoFileSound, PublishGoesOn
  <2> QED BY <1>0, <1>1, <2>3, NewestPlaced
<1>2. CASE PublishFails /\ dest' = backup /\ backup' = NoFile
  BY <1>0, <1>2, PublishFailsStep
<1>3. CASE PublishFails /\ UNCHANGED <<dest, backup>>
  BY <1>0, <1>3, PublishFailsStep
<1> QED BY <1>0, <1>1, <1>2, <1>3 DEF Place

LEMMA CleanStep ==
  ASSUME ArtifactInvariant, Clean
  PROVE  ArtifactInvariant' /\ CheckpointKept
PROOF
<1>0. /\ save.pc = "clean" /\ tables' = tables /\ temp' = temp /\ dest' = dest /\ Published
      /\ backup' \in {NoFile, backup} /\ dest = Hashed(Cells(save.version))
      /\ FileSound(temp, tables) /\ FileSound(backup, tables)
  BY DEF Clean, ArtifactInvariant, Progress
<1>1. FileSound(backup', tables)
  BY <1>0, NoFileSound
<1> QED BY <1>0, <1>1, ReturnsWhole

\* A save that is over, or a process that is.
LEMMA EndStep ==
  ASSUME ArtifactInvariant, Return \/ Crash
  PROVE  ArtifactInvariant' /\ CheckpointKept
PROOF
<1>0. /\ tables \in Nat \ {0}
      /\ FileSound(temp, tables) /\ FileSound(dest, tables) /\ FileSound(backup, tables)
  BY DEF ArtifactInvariant
<1>1. save' = Idle /\ tables' = tables /\ temp' = temp /\ dest' = dest /\ backup' = backup
  BY DEF Return, Crash
<1> QED BY <1>0, <1>1, BackToIdle, FilesStay

LEMMA ArtifactStep ==
  ASSUME ArtifactInvariant, [ArtifactNext]_vars
  PROVE  ArtifactInvariant' /\ CheckpointKept
PROOF
<1>1. CASE UNCHANGED vars
  <2>1. CheckpointKept
    BY <1>1, FilesStay DEF ArtifactInvariant, vars
  <2> QED BY <1>1, <2>1 DEF ArtifactInvariant, Lease, Progress, vars
<1> QED BY <1>1, MergeStep, BeginStep, PlanStep, OpenStep, EmitStep, CloseStep, RenameStep,
           FallbackStep, CopyStep, PlaceStep, CleanStep, EndStep DEF ArtifactNext

-----------------------------------------------------------------------------
\* The inductive invariant: what the three files hold in each step of a save.
THEOREM ArtifactInvariance == ArtifactSpec => []ArtifactInvariant
PROOF
<1>1. ArtifactInit => ArtifactInvariant
  <2> SUFFICES ASSUME ArtifactInit PROVE ArtifactInvariant
    OBVIOUS
  <2>1. tables = 1 /\ temp = NoFile /\ dest = NoFile /\ backup = NoFile /\ save = Idle
    BY DEF ArtifactInit, Init
  <2>2. Lease /\ Progress
    BY <2>1, IdleFields DEF Lease, Progress
  <2> QED BY <2>1, <2>2, IdleFields, NoFileSound DEF ArtifactInvariant
<1>2. ArtifactInvariant /\ [ArtifactNext]_vars => ArtifactInvariant'
  BY ArtifactStep
<1> QED BY <1>1, <1>2, PTL DEF ArtifactSpec

\* Whatever merges, fails or crashes during the saves, a file that loads is one
\* whole version of the tables, and a save that returns has published the version
\* it began with.
THEOREM LoadedIsWhole == ArtifactSpec => []ArtifactSound
PROOF
<1>1. ArtifactInvariant => ArtifactSound
  <2> SUFFICES ASSUME ArtifactInvariant PROVE ArtifactSound
    OBVIOUS
  <2>1. tables \in Nat
    BY DEF ArtifactInvariant
  <2>2. ASSUME NEW file \in {temp, dest, backup}, Loads(file)
        PROVE  file.cells = Cells(VersionOf(file)) /\ VersionOf(file) <= tables
    <3>1. FileSound(file, tables)
      BY <2>2 DEF ArtifactInvariant
    <3>2. VersionOf(file) \in 1 .. tables /\ file.cells = Cells(VersionOf(file))
      BY <2>1, <2>2, <3>1, LoadedFile
    <3> DEFINE v == VersionOf(file)
    <3> HIDE DEF v
    <3>3. v \in 1 .. tables => v <= tables
      BY <2>1
    <3> QED BY <3>2, <3>3 DEF v
  <2>3. ASSUME save.pc = "returned" PROVE Loads(dest) /\ VersionOf(dest) = save.version
    <3>1. dest = Hashed(Cells(save.version)) /\ save.version \in 1 .. tables
      BY <2>3 DEF ArtifactInvariant, Progress, Lease
    <3> QED BY <2>1, <3>1, WholeSound
  <2> QED BY <2>2, <2>3 DEF ArtifactSound
<1> QED BY <1>1, ArtifactInvariance, PTL

\* No rename, fallback, failure or crash loses the newest checkpoint that loads:
\* it lies at the path or beside it, or a newer one does.
THEOREM NewestIsKept == ArtifactSpec => [][CheckpointKept]_vars
PROOF
<1>1. ArtifactInvariant /\ [ArtifactNext]_vars => [CheckpointKept]_vars
  BY ArtifactStep
<1> QED BY <1>1, ArtifactInvariance, PTL DEF ArtifactSpec

-----------------------------------------------------------------------------
(* The generation of bucket chunks. *)

WorkerStages == {"unborn", "take", "build", "store", "notify", "undo", "fail", "exit"}
CallerStages == {"spawn", "next", "publish", "release", "advance", "report", "caught", "final", "join",
                 "done", "thrown", "terminated"}
Chunks == [begin : Nat, count : Nat, tables : Seq(Nat)]
Entries == [slot : Nat, chunk : Chunks]
ReadyMaps == UNION {[D -> Entries] : D \in SUBSET Nat}
SharedFields ==
  [next_job : Nat, in_flight : Int, ready : ReadyMaps, failure : BOOLEAN, free : Seq(1 .. Capacity),
   slots : [1 .. Capacity -> Chunks], asleep : SUBSET Nat]
WorkerFields == [pc : WorkerStages, first : Nat, last : Nat, slot : Nat, chunk : Chunks]
CallerFields ==
  [pc : CallerStages, next_publish : Nat, slot : Nat, chunk : Chunks, published : Seq(Chunks), reported : Int]

\* Where the chunks begin.
Starts == {x \in plan.begin .. plan.end - 1 : \E k \in Nat : x = plan.begin + k * plan.size}
Bounds == Starts \cup {plan.end}

\* The state is given piece by piece: s is shared, k the workers, c the caller, f the failures.
Busy(k) == {w \in Workers : k[w].pc \in {"build", "store", "undo"}}
Reach(c) == IF c.published = <<>> THEN plan.begin
            ELSE c.published[Len(c.published)].begin + c.published[Len(c.published)].count
Mine(c) == IF c.pc \in {"publish", "release"} THEN {c.slot} ELSE {}

Typed(s, k, c, f) ==
  /\ s \in SharedFields /\ k \in [Workers -> WorkerFields] /\ c \in CallerFields /\ f \in Nat
  /\ IsFiniteSet(DOMAIN s.ready)
\* The caller.
PublisherSound(s, c) ==
  /\ Reach(c) \in Bounds /\ c.next_publish >= plan.begin /\ c.next_publish <= Reach(c)
  /\ \/ c.next_publish = Reach(c)
     \/ c.pc \in {"release", "advance"}
     \/ Serialized /\ ~WholeChunks
  /\ ~Sequential => Reach(c) <= s.next_job
  /\ c.pc = "publish" => c.next_publish = Reach(c) /\ Reach(c) \in Starts /\ Reach(c) < s.next_job
  /\ c.pc \in {"release", "advance"} => c.next_publish \in Starts /\ Reach(c) = JobEnd(c.next_publish)
  /\ c.pc \in {"publish", "release", "advance"} /\ Serialized => c.slot \in 1 .. Capacity
  /\ c.pc = "advance" /\ Serialized =>
       /\ c.next_publish + s.slots[c.slot].count <= Reach(c)
       /\ WholeChunks => c.next_publish + s.slots[c.slot].count = Reach(c)
  /\ c.pc \in {"spawn", "next"} => c.reported = c.next_publish - plan.begin
InOrder(c) ==
  \A i \in DOMAIN c.published :
    LET d == c.published[i] IN
    /\ d.begin = IF i = 1 THEN plan.begin ELSE c.published[i - 1].begin + c.published[i - 1].count
    /\ d.count = Len(d.tables) /\ d.tables = Tables(d.begin, d.begin + d.count)
\* The chunks under way: from where publishing stands to where the jobs do, each with one holder.
JobsSound(s, k, c) ==
  /\ s.next_job \in Bounds
  /\ \A w \in Busy(k) : /\ k[w].first \in Starts /\ k[w].last = JobEnd(k[w].first)
                        /\ k[w].first >= Reach(c) /\ k[w].first < s.next_job
                        /\ k[w].first \notin DOMAIN s.ready
                        /\ c.pc = "publish" => k[w].first # Reach(c)
  /\ \A v, w \in Busy(k) : k[v].first = k[w].first => v = w
  /\ \A x \in DOMAIN s.ready : /\ x \in Starts /\ x >= Reach(c) /\ x < s.next_job
                               /\ c.pc = "publish" => x # Reach(c)
NothingSkipped(s, k, c) ==
  Sequential \/ s.failure \/ c.pc = "caught" \/ (\E w \in Workers : k[w].pc = "fail") \/
  \A x \in Starts : Reach(c) <= x /\ x < s.next_job =>
    x \in DOMAIN s.ready \/ (\E w \in Busy(k) : k[w].first = x) \/ (c.pc = "publish" /\ x = Reach(c))
PlacesSound(s, k, c) ==
  /\ s.in_flight = Cardinality(Busy(k)) + Cardinality(DOMAIN s.ready)
  /\ ~Serialized => s.in_flight <= Capacity
  /\ Serialized =>
     Len(s.free) + Cardinality(Busy(k)) + Cardinality(DOMAIN s.ready) + Cardinality(Mine(c)) <= Capacity
SlotsSound(s, k, c) ==
  Serialized =>
    /\ IsInjective(s.free)
    /\ \A w \in Busy(k) : /\ k[w].slot \in 1 .. Capacity /\ k[w].slot \notin Mine(c)
                          /\ \A i \in DOMAIN s.free : s.free[i] # k[w].slot
                          /\ \A x \in DOMAIN s.ready : s.ready[x].slot # k[w].slot
    /\ \A v, w \in Busy(k) : k[v].slot = k[w].slot => v = w
    /\ \A x \in DOMAIN s.ready : /\ s.ready[x].slot \in 1 .. Capacity /\ s.ready[x].slot \notin Mine(c)
                                 /\ \A i \in DOMAIN s.free : s.free[i] # s.ready[x].slot
    /\ \A x, y \in DOMAIN s.ready : s.ready[x].slot = s.ready[y].slot => x = y
    /\ \A i \in DOMAIN s.free : s.free[i] \notin Mine(c)
SlotsKept(s, k, c) ==
  Serialized =>
    \/ s.failure \/ c.pc = "caught"
    \/ \A n \in 1 .. Capacity :
         \/ \E i \in DOMAIN s.free : s.free[i] = n
         \/ \E w \in Busy(k) : k[w].slot = n
         \/ \E x \in DOMAIN s.ready : s.ready[x].slot = n
         \/ n \in Mine(c)
ContentSound(s, k, c) ==
  /\ Serialized =>
     /\ \A w \in Busy(k) : k[w].pc = "store" => s.slots[k[w].slot] = Chunk(k[w].first, k[w].last)
     /\ \A x \in DOMAIN s.ready : s.slots[s.ready[x].slot] = Chunk(x, JobEnd(x))
     /\ c.pc \in {"publish", "release"} => s.slots[c.slot] = Chunk(c.next_publish, JobEnd(c.next_publish))
  /\ ~Serialized =>
     /\ \A w \in Busy(k) : k[w].pc = "store" => k[w].chunk = Chunk(k[w].first, k[w].last)
     /\ \A x \in DOMAIN s.ready : s.ready[x].chunk = Chunk(x, JobEnd(x))
     /\ c.pc = "publish" => c.chunk = Chunk(c.next_publish, JobEnd(c.next_publish))
     /\ c.pc # "release"
\* Who has started, stopped and failed.
CourseSound(s, k, c, f) ==
  /\ s.failure \/ c.pc \in {"caught", "terminated", "thrown"} => f > 0
  /\ \A w \in Workers : k[w].pc \in {"undo", "fail"} => f > 0
  /\ \A w \in Workers : k[w].pc = "exit" => s.failure \/ s.next_job = plan.end
  /\ \E n \in 0 .. ThreadCount : \A w \in Workers : k[w].pc # "unborn" <=> w <= n
  /\ c.pc \in {"next", "publish", "release", "advance", "report"} /\ ~Sequential =>
       \A w \in Workers : k[w].pc # "unborn"
  /\ c.pc \in {"final", "join"} => s.failure \/ (c.next_publish = plan.end /\ s.next_job = plan.end)
  /\ c.pc = "done" => ~s.failure /\ c.next_publish = plan.end
  /\ c.pc \in {"done", "thrown"} => \A w \in Workers : k[w].pc \in {"exit", "unborn"}
  /\ Sequential => /\ \A w \in Workers : k[w].pc = "unborn"
                   /\ ~s.failure /\ DOMAIN s.ready = {}
                   /\ c.pc \in {"next", "report", "caught", "done", "thrown"}
\* Who sleeps has nothing to wake up for, or someone is about to wake everybody.
SleepSound(s, k, c) ==
  /\ \A w \in s.asleep : w = 0 \/ (w \in Workers /\ k[w].pc = "take")
  /\ s.failure \/ c.pc = "join" => s.asleep = {}
  /\ 0 \in s.asleep => /\ c.pc = "next" /\ ~Sequential /\ c.next_publish < plan.end
                       /\ c.next_publish \notin DOMAIN s.ready \/ \E w \in Workers : k[w].pc = "notify"
  /\ (\E w \in s.asleep : w # 0) => ~HasRoom(s) \/ \E w \in Workers : k[w].pc = "fail"

GoodState(s, k, c, f) ==
  /\ PublisherSound(s, c) /\ InOrder(c) /\ JobsSound(s, k, c) /\ NothingSkipped(s, k, c)
  /\ PlacesSound(s, k, c) /\ SlotsSound(s, k, c) /\ SlotsKept(s, k, c) /\ ContentSound(s, k, c)
  /\ CourseSound(s, k, c, f) /\ SleepSound(s, k, c)

\* What a valid plan comes to.
PlanSound ==
  /\ plan.begin \in Nat /\ plan.end \in Nat /\ plan.begin <= plan.end /\ plan.size \in Nat \ {0}
  /\ ThreadCount \in Nat \ {0} /\ Capacity \in Nat \ {0}

LEMMA MinOfTwo ==
  ASSUME NEW a \in Int, NEW b \in Int
  PROVE  Min({a, b}) = IF a <= b THEN a ELSE b
PROOF
<1> DEFINE m == IF a <= b THEN a ELSE b
<1>1. m \in {a, b} /\ \A y \in {a, b} : m <= y
  OBVIOUS
<1>2. \A x \in {a, b} : (\A y \in {a, b} : x <= y) => x = m
  OBVIOUS
<1> HIDE DEF m
<1>3. Min({a, b}) = m
  BY <1>1, <1>2 DEF Min
<1> QED BY <1>3 DEF m

LEMMA MaxOfTwo ==
  ASSUME NEW a \in Int, NEW b \in Int
  PROVE  Max({a, b}) = IF a >= b THEN a ELSE b
PROOF
<1> DEFINE m == IF a >= b THEN a ELSE b
<1>1. m \in {a, b} /\ \A y \in {a, b} : m >= y
  OBVIOUS
<1>2. \A x \in {a, b} : (\A y \in {a, b} : x >= y) => x = m
  OBVIOUS
<1> HIDE DEF m
<1>3. Max({a, b}) = m
  BY <1>1, <1>2 DEF Max
<1> QED BY <1>3 DEF m

LEMMA PlanFacts == ASSUME PlansValid, plan \in Plans PROVE PlanSound
PROOF
<1>1. /\ plan.requested \in Nat \ {0} /\ plan.detected \in Nat /\ plan.queue \in Nat
      /\ plan.begin \in Nat /\ plan.end \in Nat /\ plan.begin <= plan.end /\ plan.size \in Nat \ {0}
  BY DEF PlansValid
<1>2. Max({plan.detected, 1}) \in Nat \ {0}
  BY <1>1, MaxOfTwo
<1>3. Min({plan.requested, Max({plan.detected, 1})}) \in Nat \ {0}
  BY <1>1, <1>2, MinOfTwo
<1>4. ThreadCount \in Nat \ {0}
  BY <1>1, <1>3 DEF ThreadCount, resolve_thread_count
<1> DEFINE asked == IF plan.queue = 0 THEN 2 * ThreadCount ELSE plan.queue
<1>5. asked \in Nat
  BY <1>1, <1>4
<1>6. Capacity = Max({2, asked})
  BY DEF Capacity, queue_capacity
<1> HIDE DEF asked
<1>7. Capacity \in Nat \ {0}
  BY <1>5, <1>6, MaxOfTwo
<1> QED BY <1>1, <1>4, <1>7 DEF PlanSound

-----------------------------------------------------------------------------
\* Where chunks begin and end.
LEMMA JobEndValue ==
  ASSUME PlanSound, NEW x \in Nat
  PROVE  /\ JobEnd(x) = IF plan.end <= x + plan.size THEN plan.end ELSE x + plan.size
         /\ JobEnd(x) \in Nat
PROOF
  BY MinOfTwo DEF JobEnd, PlanSound

LEMMA BeginIsBound == ASSUME PlanSound PROVE plan.begin \in Bounds
PROOF
<1>1. plan.begin = plan.begin + 0 * plan.size /\ 0 \in Nat
  BY DEF PlanSound
<1> QED BY <1>1 DEF PlanSound, Bounds, Starts

LEMMA BoundsAreIndices ==
  ASSUME PlanSound
  PROVE  /\ \A x \in Bounds : x \in Nat /\ plan.begin <= x /\ x <= plan.end
         /\ \A x \in Bounds : x < plan.end => x \in Starts
         /\ \A x \in Starts : x \in Bounds /\ x < plan.end
PROOF
  BY DEF PlanSound, Bounds, Starts

LEMMA NextBound ==
  ASSUME PlanSound, NEW x \in Starts
  PROVE  /\ JobEnd(x) \in Bounds /\ x < JobEnd(x) /\ JobEnd(x) <= x + plan.size
         /\ JobEnd(x) < plan.end => JobEnd(x) = x + plan.size
PROOF
<1>1. x \in Nat /\ plan.begin <= x /\ x < plan.end /\ plan.size \in Nat \ {0} /\ plan.end \in Nat
      /\ plan.begin \in Nat
  BY DEF Starts, PlanSound
<1>2. JobEnd(x) = IF plan.end <= x + plan.size THEN plan.end ELSE x + plan.size
  BY <1>1, JobEndValue
<1>3. PICK n \in Nat : x = plan.begin + n * plan.size
  BY DEF Starts
<1>4. (n + 1) * plan.size = n * plan.size + plan.size /\ n + 1 \in Nat
  BY <1>1, <1>3
<1>5. x + plan.size = plan.begin + (n + 1) * plan.size
  BY <1>1, <1>3, <1>4
<1>6. CASE plan.end <= x + plan.size
  BY <1>1, <1>2, <1>6 DEF Bounds
<1>7. CASE x + plan.size < plan.end
  <2>1. x + plan.size \in Starts
    BY <1>1, <1>4, <1>5, <1>7 DEF Starts
  <2> QED BY <1>1, <1>2, <1>7, <2>1 DEF Bounds
<1> QED BY <1>1, <1>6, <1>7

\* Two chunks do not overlap.
LEMMA BoundsApart ==
  ASSUME PlanSound, NEW x \in Bounds, NEW y \in Bounds, x < y
  PROVE  x \in Starts /\ JobEnd(x) <= y
PROOF
<1>1. /\ x \in Nat /\ y \in Nat /\ y <= plan.end /\ x < plan.end
      /\ plan.size \in Nat \ {0} /\ plan.end \in Nat /\ plan.begin \in Nat
  BY BoundsAreIndices DEF PlanSound
<1>2. x \in Starts
  BY <1>1, BoundsAreIndices
<1>3. JobEnd(x) = IF plan.end <= x + plan.size THEN plan.end ELSE x + plan.size
  BY <1>1, JobEndValue
<1>4. CASE y = plan.end
  BY <1>1, <1>2, <1>3, <1>4
<1>5. CASE y \in Starts
  <2>1. PICK m \in Nat : x = plan.begin + m * plan.size
    BY <1>2 DEF Starts
  <2>2. PICK n \in Nat : y = plan.begin + n * plan.size
    BY <1>5 DEF Starts
  <2>3. m * plan.size < n * plan.size /\ m * plan.size \in Nat /\ n * plan.size \in Nat
    BY <1>1, <2>1, <2>2
  <2>4. m * plan.size + plan.size <= n * plan.size
    <3> DEFINE z == plan.size
    <3>1. z \in Nat \ {0}
      BY <1>1
    <3> HIDE DEF z
    <3>2. m * z < n * z => m * z + z <= n * z
      BY <3>1
    <3> QED BY <2>3, <3>2 DEF z
  <2>5. x + plan.size <= y
    BY <1>1, <2>1, <2>2, <2>3, <2>4
  <2> QED BY <1>1, <1>2, <1>3, <2>5
<1> QED BY <1>4, <1>5 DEF Bounds

\* When the chunks are whole, so is the last one.
LEMMA WholeChunk ==
  ASSUME PlanSound, WholeChunks, Serialized, NEW x \in Starts
  PROVE  JobEnd(x) = x + plan.size
PROOF
<1>1. /\ x \in Nat /\ x < plan.end /\ plan.size \in Nat \ {0} /\ plan.end \in Nat
      /\ plan.begin \in Nat /\ plan.begin <= plan.end
  BY DEF PlanSound, Starts
<1> DEFINE z == plan.size
           d == plan.end - plan.begin
<1>2. d \in Nat /\ z \in Nat \ {0} /\ d % z = 0
  BY <1>1 DEF WholeChunks
<1>3. PICK m \in Nat : x = plan.begin + m * z
  BY DEF Starts
<1>4. m * z < d
  BY <1>1, <1>2, <1>3
<1>5. m * z + z <= d
  <2> HIDE DEF z, d
  <2>1. PICK n \in Nat : d = n * z
    BY <1>2
  <2> QED BY <1>2, <1>4, <2>1
<1>6. x + z <= plan.end
  BY <1>1, <1>2, <1>3, <1>5
<1> QED BY <1>1, <1>6, JobEndValue

-----------------------------------------------------------------------------
\* The chunks that wait to be published, by their first index.
LEMMA ReadyFacts ==
  ASSUME NEW r \in ReadyMaps
  PROVE  DOMAIN r \subseteq Nat /\ \A x \in DOMAIN r : r[x] \in Entries
PROOF
  BY DEF ReadyMaps

LEMMA ReadyAdded ==
  ASSUME NEW r \in ReadyMaps, NEW x \in Nat, x \notin DOMAIN r, NEW e \in Entries,
         NEW q, q = [b \in DOMAIN r \cup {x} |-> IF b \in DOMAIN r THEN r[b] ELSE e]
  PROVE  /\ q \in ReadyMaps /\ DOMAIN q = DOMAIN r \cup {x} /\ q[x] = e
         /\ \A b \in DOMAIN r : q[b] = r[b]
PROOF
<1>1. DOMAIN q = DOMAIN r \cup {x} /\ q[x] = e /\ \A b \in DOMAIN r : q[b] = r[b]
  OBVIOUS
<1>2. DOMAIN r \subseteq Nat /\ \A b \in DOMAIN r : r[b] \in Entries
  BY ReadyFacts
<1>3. q \in [DOMAIN r \cup {x} -> Entries]
  BY <1>2
<1>4. DOMAIN r \cup {x} \in SUBSET Nat
  BY <1>2
<1>5. q \in ReadyMaps
  BY <1>3, <1>4 DEF ReadyMaps
<1> QED BY <1>1, <1>5

LEMMA ReadyRemoved ==
  ASSUME NEW r \in ReadyMaps, NEW x, NEW q, q = [b \in DOMAIN r \ {x} |-> r[b]]
  PROVE  /\ q \in ReadyMaps /\ DOMAIN q = DOMAIN r \ {x} /\ \A b \in DOMAIN q : q[b] = r[b]
PROOF
<1>1. DOMAIN q = DOMAIN r \ {x} /\ \A b \in DOMAIN q : q[b] = r[b]
  OBVIOUS
<1>2. DOMAIN r \subseteq Nat /\ \A b \in DOMAIN r : r[b] \in Entries
  BY ReadyFacts
<1>3. q \in [DOMAIN r \ {x} -> Entries]
  BY <1>2
<1>4. DOMAIN r \ {x} \in SUBSET Nat
  BY <1>2
<1>5. q \in ReadyMaps
  BY <1>3, <1>4 DEF ReadyMaps
<1> QED BY <1>1, <1>5

LEMMA NoneReady == <<>> \in ReadyMaps /\ DOMAIN <<>> = {}
PROOF
  BY DEF ReadyMaps

LEMMA ChunkFacts ==
  ASSUME NEW a \in Nat, NEW b \in Nat, a <= b
  PROVE  /\ Chunk(a, b) \in Chunks /\ Chunk(a, b).begin = a /\ Chunk(a, b).count = b - a
         /\ Chunk(a, b).count = Len(Chunk(a, b).tables)
         /\ Chunk(a, b).tables = Tables(Chunk(a, b).begin, Chunk(a, b).begin + Chunk(a, b).count)
PROOF
<1>1. Tables(a, b) \in Seq(Nat) /\ Len(Tables(a, b)) = b - a
  BY DEF Tables
<1>2. Chunk(a, b).begin = a /\ Chunk(a, b).count = b - a /\ Chunk(a, b).tables = Tables(a, b)
  BY DEF Chunk
<1>3. a + (b - a) = b
  OBVIOUS
<1>4. Chunk(a, b) \in Chunks
  BY <1>1 DEF Chunk, Chunks
<1> QED BY <1>1, <1>2, <1>3, <1>4

LEMMA NoChunkIsChunk == NoChunk \in Chunks
PROOF
  BY DEF NoChunk, Chunks

LEMMA BusyFinite ==
  ASSUME PlanSound, NEW k
  PROVE  Busy(k) \subseteq Workers /\ IsFiniteSet(Busy(k)) /\ Cardinality(Busy(k)) \in Nat
PROOF
<1>1. IsFiniteSet(Workers)
  BY FS_Interval DEF Workers, PlanSound
<1>2. Busy(k) \subseteq Workers
  BY DEF Busy
<1> QED BY <1>1, <1>2, FS_Subset, FS_CardinalityType

\* One worker moves: what that is to the set of the busy.
Moves(k, j, w, r) ==
  j \in [Workers -> WorkerFields] /\ r \in WorkerFields /\ j[w] = r /\ \A v \in Workers \ {w} : j[v] = k[v]
LEMMA BusyOf ==
  ASSUME NEW k, NEW j, NEW w \in Workers, NEW r, Moves(k, j, w, r)
  PROVE  /\ r.pc \in {"build", "store", "undo"} => Busy(j) = Busy(k) \cup {w}
         /\ r.pc \notin {"build", "store", "undo"} => Busy(j) = Busy(k) \ {w}
         /\ w \in Busy(k) <=> k[w].pc \in {"build", "store", "undo"}
         /\ \A v \in Busy(k) \ {w} : j[v] = k[v]
PROOF
  BY DEF Busy, Moves

LEMMA BusyUnmoved ==
  ASSUME NEW k, NEW j, NEW w \in Workers, NEW r, Moves(k, j, w, r),
         k[w].pc \notin {"build", "store", "undo"}, r.pc \notin {"build", "store", "undo"}
  PROVE  Busy(j) = Busy(k) /\ \A v \in Busy(k) : j[v] = k[v]
PROOF
<1>1. Busy(j) = Busy(k) \ {w} /\ w \notin Busy(k) /\ \A v \in Busy(k) \ {w} : j[v] = k[v]
  BY BusyOf
<1> QED BY <1>1

-----------------------------------------------------------------------------
\* A step that moves no chunk and no slot keeps what is known of them.
SamePlaces(s, z) ==
  /\ z.next_job = s.next_job /\ z.in_flight = s.in_flight /\ z.ready = s.ready
  /\ z.free = s.free /\ z.slots = s.slots
LEMMA PlacesKept ==
  ASSUME NEW s, NEW k, NEW c, NEW z, NEW j, NEW d,
         JobsSound(s, k, c), PlacesSound(s, k, c), SlotsSound(s, k, c), ContentSound(s, k, c),
         SamePlaces(s, z), Busy(j) = Busy(k), \A w \in Busy(k) : j[w] = k[w],
         \/ d = c
         \/ d.published = c.published /\ {c.pc, d.pc} \cap {"publish", "release"} = {}
  PROVE  JobsSound(z, j, d) /\ PlacesSound(z, j, d) /\ SlotsSound(z, j, d) /\ ContentSound(z, j, d)
PROOF
<1>1. /\ z.next_job = s.next_job /\ z.in_flight = s.in_flight /\ z.ready = s.ready
      /\ z.free = s.free /\ z.slots = s.slots
  BY DEF SamePlaces
<1>2. Reach(d) = Reach(c) /\ Mine(d) = Mine(c)
  BY DEF Reach, Mine
<1>3. (d.pc = "publish" <=> c.pc = "publish") /\ (d.pc = "release" <=> c.pc = "release")
  OBVIOUS
<1>4. JobsSound(z, j, d)
  BY <1>1, <1>2, <1>3 DEF JobsSound
<1>5. PlacesSound(z, j, d)
  BY <1>1, <1>2 DEF PlacesSound
<1>6. SlotsSound(z, j, d)
  BY <1>1, <1>2 DEF SlotsSound
<1>7. ContentSound(z, j, d)
  BY <1>1, <1>3 DEF ContentSound
<1> QED BY <1>4, <1>5, <1>6, <1>7

LEMMA NothingLost ==
  ASSUME NEW s, NEW k, NEW c, NEW z, NEW j, NEW d,
         NothingSkipped(s, k, c), SlotsKept(s, k, c),
         SamePlaces(s, z), s.failure => z.failure, Busy(j) = Busy(k), \A w \in Busy(k) : j[w] = k[w],
         c.pc = "caught" => Sequential \/ z.failure \/ d.pc = "caught",
         (\E w \in Workers : k[w].pc = "fail") => z.failure \/ \E w \in Workers : j[w].pc = "fail",
         \/ d.pc = "caught"
         \/ d.pc = c.pc /\ d.slot = c.slot /\ d.published = c.published
         \/ d.published = c.published /\ {c.pc, d.pc} \cap {"publish", "release"} = {}
  PROVE  NothingSkipped(z, j, d) /\ SlotsKept(z, j, d)
PROOF
<1>1. /\ z.next_job = s.next_job /\ z.ready = s.ready /\ z.free = s.free
  BY DEF SamePlaces
<1>2. CASE d.pc = "caught"
  BY <1>2 DEF NothingSkipped, SlotsKept
<1>3. CASE d.pc # "caught"
  <2>1. Reach(d) = Reach(c) /\ Mine(d) = Mine(c) /\ (d.pc = "publish" <=> c.pc = "publish")
    BY <1>3 DEF Reach, Mine
  <2>2. NothingSkipped(z, j, d)
    BY <1>1, <1>3, <2>1 DEF NothingSkipped
  <2>3. Serialized => ~Sequential
    BY DEF Sequential
  <2>4. SlotsKept(z, j, d)
    BY <1>1, <1>3, <2>1, <2>3 DEF SlotsKept
  <2> QED BY <2>2, <2>4
<1> QED BY <1>2, <1>3

LEMMA CourseOfWorker ==
  ASSUME NEW s, NEW k, NEW c, NEW f \in Nat, NEW z, NEW j, NEW g \in Nat, NEW w \in Workers,
         CourseSound(s, k, c, f), k[w].pc \notin {"unborn", "exit"}, j[w].pc # "unborn",
         \A v \in Workers \ {w} : j[v] = k[v], f <= g,
         s.failure => z.failure, z.failure => s.failure \/ g > 0,
         j[w].pc \in {"undo", "fail"} => g > 0,
         j[w].pc = "exit" => z.failure \/ z.next_job = plan.end,
         s.next_job = plan.end => z.next_job = plan.end
  PROVE  CourseSound(z, j, c, g)
PROOF
<1>1. ~Sequential /\ c.pc \notin {"done", "thrown"}
  BY DEF CourseSound
<1>2. \A v \in Workers : j[v].pc # "unborn" <=> k[v].pc # "unborn"
  OBVIOUS
<1>3. \E n \in 0 .. ThreadCount : \A v \in Workers : j[v].pc # "unborn" <=> v <= n
  BY <1>2 DEF CourseSound
<1>4. /\ z.failure \/ c.pc \in {"caught", "terminated", "thrown"} => g > 0
      /\ \A v \in Workers : j[v].pc \in {"undo", "fail"} => g > 0
  BY DEF CourseSound
<1>5. \A v \in Workers : j[v].pc = "exit" => z.failure \/ z.next_job = plan.end
  BY DEF CourseSound
<1>6. /\ c.pc \in {"next", "publish", "release", "advance", "report"} =>
           \A v \in Workers : j[v].pc # "unborn"
      /\ c.pc \in {"final", "join"} => z.failure \/ (c.next_publish = plan.end /\ z.next_job = plan.end)
  BY <1>1, <1>2 DEF CourseSound
<1> QED BY <1>1, <1>3, <1>4, <1>5, <1>6 DEF CourseSound

Sound(s, k, c, f) == Typed(s, k, c, f) /\ GoodState(s, k, c, f)
GenerationInvariant == PlanSound /\ Sound(shared, worker, main, failures)
StepKeeps == Sound(shared', worker', main', failures')

\* The facts about the state that every step starts from.
LEMMA Given ==
  ASSUME GenerationInvariant
  PROVE  /\ PlanSound /\ Typed(shared, worker, main, failures)
         /\ shared \in SharedFields /\ worker \in [Workers -> WorkerFields] /\ main \in CallerFields
         /\ failures \in Nat
         /\ PublisherSound(shared, main) /\ InOrder(main) /\ JobsSound(shared, worker, main)
         /\ NothingSkipped(shared, worker, main) /\ PlacesSound(shared, worker, main)
         /\ SlotsSound(shared, worker, main) /\ SlotsKept(shared, worker, main)
         /\ ContentSound(shared, worker, main) /\ CourseSound(shared, worker, main, failures)
         /\ SleepSound(shared, worker, main)
PROOF
  BY DEF GenerationInvariant, Sound, GoodState, Typed

\* A worker that holds nothing before and after changes its stage, and only sleepers change.
LEMMA IdleStep ==
  ASSUME GenerationInvariant, NEW w \in Workers, NEW r, Moves(worker, worker', w, r),
         worker[w].pc \in {"take", "notify", "fail"}, r.pc \in {"take", "exit"},
         shared' \in SharedFields, SamePlaces(shared, shared'), shared.failure => shared'.failure,
         shared'.failure => shared.failure \/ failures > 0,
         r.pc = "exit" => shared'.failure \/ shared.next_job = plan.end,
         worker[w].pc = "fail" => shared'.failure,
         SleepSound(shared', worker', main), UNCHANGED <<main, failures>>
  PROVE  StepKeeps
PROOF
<1>1. /\ worker' \in [Workers -> WorkerFields] /\ worker'[w] = r
      /\ \A v \in Workers \ {w} : worker'[v] = worker[v]
  BY DEF Moves
<1>2. Busy(worker') = Busy(worker) /\ \A v \in Busy(worker) : worker'[v] = worker[v]
  <2>1. worker[w].pc \notin {"build", "store", "undo"} /\ r.pc \notin {"build", "store", "undo"}
    OBVIOUS
  <2> QED BY <2>1, BusyUnmoved
<1>3. /\ JobsSound(shared', worker', main) /\ PlacesSound(shared', worker', main)
      /\ SlotsSound(shared', worker', main) /\ ContentSound(shared', worker', main)
  BY <1>2, Given, PlacesKept
<1>4. (\E v \in Workers : worker[v].pc = "fail") => shared'.failure \/ \E v \in Workers : worker'[v].pc = "fail"
  BY <1>1
<1>5. NothingSkipped(shared', worker', main) /\ SlotsKept(shared', worker', main)
  BY <1>2, <1>4, Given, NothingLost
<1>6. CourseSound(shared', worker', main, failures)
  <2>1. /\ CourseSound(shared, worker, main, failures) /\ failures \in Nat /\ failures <= failures
        /\ shared'.next_job = shared.next_job
    BY Given DEF SamePlaces
  <2>2. worker[w].pc \notin {"unborn", "exit"} /\ worker'[w].pc \notin {"unborn", "undo", "fail"}
    BY <1>1
  <2> QED BY <1>1, <2>1, <2>2, CourseOfWorker
<1>7. PublisherSound(shared', main)
  BY Given DEF PublisherSound, SamePlaces
<1>8. Typed(shared', worker', main', failures')
  BY <1>1, Given DEF Typed, SamePlaces
<1>9. GoodState(shared', worker', main', failures')
  BY <1>3, <1>5, <1>6, <1>7, Given DEF GoodState
<1> QED BY <1>8, <1>9 DEF StepKeeps, Sound

LEMMA ExitOrSleepStep ==
  ASSUME GenerationInvariant, NEW w \in Workers, Take(w), WorkerStops(shared) \/ ~HasRoom(shared)
  PROVE  StepKeeps
PROOF
<1>1. worker[w].pc = "take" /\ UNCHANGED <<plan, main, failures>>
  BY DEF Take
<1>2. shared \in SharedFields /\ worker \in [Workers -> WorkerFields] /\ worker[w] \in WorkerFields
  BY Given
<1>3. CASE ~WorkerStops(shared)
  <2>1. /\ ~HasRoom(shared) /\ UNCHANGED worker
        /\ shared' = [shared EXCEPT !.asleep = shared.asleep \cup {w}]
    BY <1>3 DEF Take, Sleep
  <2>2. shared.asleep \cup {w} \in SUBSET Nat
    BY <1>2, Given DEF SharedFields, Workers, PlanSound
  <2>3. /\ shared' \in SharedFields /\ SamePlaces(shared, shared') /\ shared'.failure = shared.failure
        /\ shared'.asleep = shared.asleep \cup {w}
    BY <1>2, <2>1, <2>2 DEF SharedFields, SamePlaces
  <2>4. HasRoom(shared') <=> HasRoom(shared)
    BY <2>3 DEF HasRoom, SamePlaces
  <2>5. ~shared.failure /\ main.pc # "join"
    <3>1. ~shared.failure /\ ~(shared.next_job >= plan.end)
      BY <1>3 DEF WorkerStops
    <3>2. shared.next_job # plan.end
      BY <3>1, Given DEF PlanSound
    <3> QED BY <3>1, <3>2, Given DEF CourseSound
  <2>6. SleepSound(shared', worker', main)
    <3>1. SleepSound(shared, worker, main)
      BY Given
    <3>2. w # 0
      BY Given DEF Workers, PlanSound
    <3>3. shared'.ready = shared.ready
      BY <2>3 DEF SamePlaces
    <3> QED BY <1>1, <2>1, <2>3, <2>4, <2>5, <3>1, <3>2, <3>3 DEF SleepSound
  <2>7. Moves(worker, worker', w, worker[w])
    BY <1>2, <2>1 DEF Moves
  <2> QED
    <3>1. worker[w].pc \in {"take", "notify", "fail"} /\ worker[w].pc \in {"take", "exit"}
      BY <1>1
    <3>2. /\ shared.failure => shared'.failure
          /\ shared'.failure => shared.failure \/ failures > 0
          /\ worker[w].pc = "exit" => shared'.failure \/ shared.next_job = plan.end
          /\ worker[w].pc = "fail" => shared'.failure
      BY <1>1, <2>3
    <3> QED BY <1>1, <2>3, <2>6, <2>7, <3>1, <3>2, IdleStep
<1>4. CASE WorkerStops(shared)
  <2>1. worker' = [worker EXCEPT ![w].pc = "exit"] /\ UNCHANGED shared
    BY <1>4 DEF Take, Goes
  <2> DEFINE r == [worker[w] EXCEPT !.pc = "exit"]
  <2>2. worker' = [worker EXCEPT ![w] = r]
    BY <2>1
  <2>3. r \in WorkerFields /\ r.pc = "exit"
    BY <1>2 DEF WorkerFields, WorkerStages
  <2>4. shared.failure \/ shared.next_job = plan.end
    <3>1. shared.failure \/ shared.next_job >= plan.end
      BY <1>4 DEF WorkerStops
    <3>2. shared.next_job \in Bounds /\ PlanSound
      BY Given DEF JobsSound
    <3> QED BY <3>1, <3>2, BoundsAreIndices DEF PlanSound
  <2> HIDE DEF r
  <2>5. Moves(worker, worker', w, r)
    BY <1>2, <2>2, <2>3 DEF Moves
  <2>6. w \notin shared.asleep
    BY DEF Take
  <2>7. SleepSound(shared', worker', main)
    <3>1. SleepSound(shared, worker, main)
      BY Given
    <3>2. (\E v \in Workers : worker[v].pc = "notify") => \E v \in Workers : worker'[v].pc = "notify"
      BY <1>1, <2>5 DEF Moves
    <3>3. (\E v \in Workers : worker[v].pc = "fail") => \E v \in Workers : worker'[v].pc = "fail"
      BY <1>1, <2>5 DEF Moves
    <3>4. \A v \in shared.asleep : v = 0 \/ (v \in Workers /\ worker'[v].pc = "take")
      BY <2>5, <2>6, <3>1 DEF SleepSound, Moves
    <3> QED BY <2>1, <3>1, <3>2, <3>3, <3>4 DEF SleepSound, HasRoom
  <2>8. SamePlaces(shared, shared') /\ shared' \in SharedFields
    BY <1>2, <2>1 DEF SamePlaces
  <2> QED
    <3>1. worker[w].pc \in {"take", "notify", "fail"} /\ r.pc \in {"take", "exit"}
      BY <1>1, <2>3
    <3>2. /\ shared.failure => shared'.failure
          /\ shared'.failure => shared.failure \/ failures > 0
          /\ r.pc = "exit" => shared'.failure \/ shared.next_job = plan.end
          /\ worker[w].pc = "fail" => shared'.failure
      BY <1>1, <2>1, <2>4
    <3>3. UNCHANGED <<main, failures>> /\ r \in WorkerFields
      BY <1>1, <2>3
    <3> QED BY <2>5, <2>7, <2>8, <3>1, <3>2, <3>3, IdleStep
<1> QED BY <1>3, <1>4

LEMMA NobodySleeps == ASSUME NEW z, NEW j, NEW d, z.asleep = {} PROVE SleepSound(z, j, d)
PROOF
  BY DEF SleepSound

LEMMA AllAwake ==
  ASSUME NEW s \in SharedFields
  PROVE  /\ notify_all(s) \in SharedFields /\ SamePlaces(s, notify_all(s))
         /\ notify_all(s).failure = s.failure /\ notify_all(s).asleep = {}
         /\ set_failure(s) \in SharedFields /\ SamePlaces(s, set_failure(s))
         /\ set_failure(s).failure = TRUE /\ set_failure(s).asleep = {}
PROOF
<1>1. ASSUME NEW t \in SharedFields
      PROVE  /\ notify_all(t) \in SharedFields /\ SamePlaces(t, notify_all(t))
             /\ notify_all(t).failure = t.failure /\ notify_all(t).asleep = {}
  <2>1. notify_all(t) = [t EXCEPT !.asleep = {}]
    BY DEF notify_all
  <2> QED BY <2>1 DEF SharedFields, SamePlaces
<1> DEFINE t == [s EXCEPT !.failure = TRUE]
<1>2. t \in SharedFields /\ SamePlaces(s, t) /\ t.failure = TRUE
  BY DEF SharedFields, SamePlaces
<1>3. set_failure(s) = notify_all(t)
  BY DEF set_failure
<1> HIDE DEF t
<1>4. /\ notify_all(t) \in SharedFields /\ SamePlaces(t, notify_all(t))
      /\ notify_all(t).failure = t.failure /\ notify_all(t).asleep = {}
  BY <1>1, <1>2
<1>5. SamePlaces(s, notify_all(t))
  BY <1>2, <1>4 DEF SamePlaces
<1> QED BY <1>1, <1>2, <1>3, <1>4, <1>5

LEMMA NotifyStep ==
  ASSUME GenerationInvariant, NEW w \in Workers, Notify(w)
  PROVE  StepKeeps
PROOF
<1> DEFINE r == [AtRest EXCEPT !.pc = "take"]
<1>1. /\ worker[w].pc = "notify" /\ shared' = notify_all(shared)
      /\ worker' = [worker EXCEPT ![w] = r] /\ UNCHANGED <<main, failures>>
  BY DEF Notify
<1>2. shared \in SharedFields /\ worker \in [Workers -> WorkerFields]
  BY Given
<1>3. r \in WorkerFields /\ r.pc = "take"
  BY NoChunkIsChunk DEF AtRest, WorkerFields, WorkerStages
<1> HIDE DEF r
<1>4. Moves(worker, worker', w, r)
  BY <1>1, <1>2, <1>3 DEF Moves
<1>5. /\ shared' \in SharedFields /\ SamePlaces(shared, shared') /\ shared'.failure = shared.failure
      /\ SleepSound(shared', worker', main)
  BY <1>1, <1>2, AllAwake, NobodySleeps
<1>6. worker[w].pc \in {"take", "notify", "fail"} /\ worker[w].pc # "fail"
      /\ r.pc \in {"take", "exit"} /\ r.pc # "exit"
  BY <1>1, <1>3
<1> QED BY <1>1, <1>4, <1>5, <1>6, IdleStep

LEMMA FailWorkerStep ==
  ASSUME GenerationInvariant, NEW w \in Workers, FailWorker(w)
  PROVE  StepKeeps
PROOF
<1> DEFINE r == [worker[w] EXCEPT !.pc = "exit"]
<1>1. /\ worker[w].pc = "fail" /\ shared' = set_failure(shared)
      /\ worker' = [worker EXCEPT ![w] = r] /\ UNCHANGED <<main, failures>>
  BY DEF FailWorker, Goes
<1>2. shared \in SharedFields /\ worker \in [Workers -> WorkerFields] /\ worker[w] \in WorkerFields
  BY Given
<1>3. r \in WorkerFields /\ r.pc = "exit"
  BY <1>2 DEF WorkerFields, WorkerStages
<1> HIDE DEF r
<1>4. Moves(worker, worker', w, r)
  BY <1>1, <1>2, <1>3 DEF Moves
<1>5. /\ shared' \in SharedFields /\ SamePlaces(shared, shared') /\ shared'.failure = TRUE
      /\ SleepSound(shared', worker', main)
  BY <1>1, <1>2, AllAwake, NobodySleeps
<1>6. worker[w].pc \in {"take", "notify", "fail"} /\ r.pc \in {"take", "exit"} /\ failures > 0
  BY <1>1, <1>3, Given DEF CourseSound
<1> QED BY <1>1, <1>4, <1>5, <1>6, IdleStep

\* The last of a sequence, and the rest.
LEMMA FrontFacts ==
  ASSUME NEW S, NEW q \in Seq(S), q # <<>>
  PROVE  /\ Front(q) \in Seq(S) /\ Len(Front(q)) = Len(q) - 1 /\ Len(q) \in Nat \ {0}
         /\ \A i \in 1 .. Len(q) - 1 : Front(q)[i] = q[i]
         /\ Last(q) = q[Len(q)] /\ Last(q) \in S
PROOF
<1>1. Len(q) \in Nat \ {0} /\ \A i \in 1 .. Len(q) : q[i] \in S
  OBVIOUS
<1> DEFINE n == Len(q) - 1
<1>2. n \in Nat /\ \A i \in 1 .. n : q[i] \in S
  BY <1>1
<1>3. Front(q) = SubSeq(q, 1, n)
  BY DEF Front
<1> HIDE DEF n
<1>4. /\ SubSeq(q, 1, n) \in Seq(S) /\ Len(SubSeq(q, 1, n)) = IF 1 <= n THEN n - 1 + 1 ELSE 0
      /\ \A i \in 1 .. n - 1 + 1 : SubSeq(q, 1, n)[i] = q[1 + i - 1]
  BY <1>2, SubSeqProperties
<1>5. Front(q) \in Seq(S) /\ Len(Front(q)) = n /\ \A i \in 1 .. n : Front(q)[i] = q[i]
  <2>1. n - 1 + 1 = n /\ \A i \in 1 .. n : 1 + i - 1 = i
    BY <1>2
  <2> QED BY <1>2, <1>3, <1>4, <2>1
<1> QED BY <1>1, <1>5 DEF Last, n

LEMMA MineFinite == ASSUME NEW c PROVE Cardinality(Mine(c)) \in Nat
PROOF
<1>1. CASE Mine(c) = {}
  BY <1>1, FS_EmptySet
<1>2. CASE Mine(c) = {c.slot}
  <2>1. Cardinality({c.slot}) = 1
    BY FS_Singleton
  <2> QED BY <1>2, <2>1
<1> QED BY <1>1, <1>2 DEF Mine

-----------------------------------------------------------------------------
\* A worker takes the next job, and with it a place.
LEMMA TakeJobStep ==
  ASSUME GenerationInvariant, NEW w \in Workers, Take(w), ~WorkerStops(shared), HasRoom(shared)
  PROVE  StepKeeps
PROOF
<1> DEFINE first == shared.next_job
           last == JobEnd(first)
           slot == IF Serialized THEN Last(shared.free) ELSE 0
           r == [worker[w] EXCEPT !.pc = "build", !.first = first, !.last = last, !.slot = slot]
           free == IF Serialized THEN Front(shared.free) ELSE shared.free
<1>1. /\ worker[w].pc = "take" /\ w \notin shared.asleep /\ UNCHANGED <<plan, main, failures>>
      /\ worker' = [worker EXCEPT ![w] = r]
      /\ shared' = [shared EXCEPT !.next_job = last, !.in_flight = shared.in_flight + 1, !.free = free]
  BY DEF Take, Taken
<1>2. /\ shared \in SharedFields /\ worker \in [Workers -> WorkerFields] /\ worker[w] \in WorkerFields
      /\ PlanSound /\ main \in CallerFields
  BY Given
<1>3. /\ first \in Starts /\ ~shared.failure /\ first \in Nat /\ last \in Nat /\ last \in Bounds
      /\ first < last
  <2>1. first \in Bounds /\ ~shared.failure /\ ~(first >= plan.end)
    BY Given DEF JobsSound, WorkerStops
  <2>2. first \in Nat /\ first < plan.end
    BY <1>2, <2>1, BoundsAreIndices DEF PlanSound
  <2>3. first \in Starts
    BY <1>2, <2>1, <2>2, BoundsAreIndices
  <2> HIDE DEF first
  <2> QED BY <1>2, <2>1, <2>2, <2>3, NextBound, BoundsAreIndices
\* The place: the last of the free slots.
<1>4. ASSUME Serialized
      PROVE  /\ slot \in 1 .. Capacity /\ shared.free # <<>> /\ free \in Seq(1 .. Capacity)
             /\ Len(free) = Len(shared.free) - 1 /\ Len(shared.free) \in Nat \ {0}
             /\ \A i \in DOMAIN free : i \in DOMAIN shared.free /\ free[i] = shared.free[i] /\ i # Len(shared.free)
             /\ \A i \in DOMAIN shared.free : i \in DOMAIN free \/ i = Len(shared.free)
             /\ Len(shared.free) \in DOMAIN shared.free /\ slot = shared.free[Len(shared.free)]
  <2>1. shared.free # <<>> /\ shared.free \in Seq(1 .. Capacity)
    BY <1>2, <1>4 DEF HasRoom, SharedFields
  <2>2. slot = Last(shared.free) /\ free = Front(shared.free)
    BY <1>4
  <2> HIDE DEF slot, free
  <2>3. /\ Front(shared.free) \in Seq(1 .. Capacity) /\ Len(Front(shared.free)) = Len(shared.free) - 1
        /\ Len(shared.free) \in Nat \ {0}
        /\ \A i \in 1 .. Len(shared.free) - 1 : Front(shared.free)[i] = shared.free[i]
        /\ Last(shared.free) = shared.free[Len(shared.free)] /\ Last(shared.free) \in 1 .. Capacity
    BY <2>1, FrontFacts
  <2>4. DOMAIN free = 1 .. Len(shared.free) - 1 /\ DOMAIN shared.free = 1 .. Len(shared.free)
    BY <2>1, <2>2, <2>3
  <2> QED BY <2>1, <2>2, <2>3, <2>4
<1>5. /\ slot \in Nat /\ free \in Seq(1 .. Capacity)
      /\ ~Serialized => free = shared.free
  <2>1. ~Serialized => slot = 0 /\ free = shared.free
    OBVIOUS
  <2>2. shared.free \in Seq(1 .. Capacity)
    BY <1>2 DEF SharedFields
  <2> HIDE DEF slot, free
  <2> QED BY <1>2, <1>4, <2>1, <2>2 DEF PlanSound
<1> HIDE DEF first, last, slot, free
<1>6. /\ r \in WorkerFields /\ r.pc = "build" /\ r.first = first /\ r.last = last /\ r.slot = slot
  BY <1>2, <1>3, <1>5 DEF WorkerFields, WorkerStages
<1> HIDE DEF r
<1>7. Moves(worker, worker', w, r)
  BY <1>1, <1>2, <1>6 DEF Moves
<1>8. /\ shared' \in SharedFields /\ shared'.next_job = last /\ shared'.in_flight = shared.in_flight + 1
      /\ shared'.free = free /\ shared'.ready = shared.ready /\ shared'.failure = shared.failure
      /\ shared'.slots = shared.slots /\ shared'.asleep = shared.asleep
  <2>1. /\ shared'.next_job = last /\ shared'.in_flight = shared.in_flight + 1
        /\ shared'.free = free /\ shared'.ready = shared.ready /\ shared'.failure = shared.failure
        /\ shared'.slots = shared.slots /\ shared'.asleep = shared.asleep
    BY <1>1, <1>2 DEF SharedFields
  <2>2. shared.in_flight + 1 \in Int
    BY <1>2 DEF SharedFields
  <2>3. shared' \in SharedFields
    BY <1>1, <1>2, <1>3, <1>5, <2>2 DEF SharedFields
  <2> QED BY <2>1, <2>3
<1>9. /\ Busy(worker') = Busy(worker) \cup {w} /\ w \notin Busy(worker) /\ worker'[w] = r
      /\ \A v \in Workers \ {w} : worker'[v] = worker[v]
      /\ \A v \in Busy(worker) : v \in Workers /\ v # w /\ worker'[v] = worker[v]
  <2>0. r.pc \in {"build", "store", "undo"} => Busy(worker') = Busy(worker) \cup {w}
    BY <1>7, BusyOf
  <2>1. Busy(worker') = Busy(worker) \cup {w}
    BY <1>6, <2>0
  <2>2. w \notin Busy(worker) /\ Busy(worker) \subseteq Workers
    BY <1>1 DEF Busy
  <2> QED BY <1>7, <2>1, <2>2 DEF Moves
<1>10. first = shared.next_job
  BY DEF first
<1>11. Typed(shared', worker', main', failures')
  BY <1>1, <1>7, <1>8, Given DEF Typed, Moves
<1>12. ~Sequential /\ main.pc \notin {"done", "thrown"}
  BY <1>1, Given DEF CourseSound
<1>13. PublisherSound(shared', main')
  BY <1>1, <1>2, <1>3, <1>8, <1>10, <1>12, Given, BoundsAreIndices DEF PublisherSound
<1>14. Reach(main) \in Nat /\ Reach(main) <= first /\ last = JobEnd(first)
  BY <1>2, <1>10, <1>12, Given, BoundsAreIndices DEF PublisherSound, last
<1>15. JobsSound(shared', worker', main')
  <2>1. JobsSound(shared, worker, main) /\ main' = main
    BY <1>1, Given
  <2>2. main.pc = "publish" => first # Reach(main)
    BY <1>2, <1>10, <1>14, Given DEF PublisherSound
  <2>3. \A v \in Busy(worker') :
          /\ worker'[v].first \in Starts /\ worker'[v].last = JobEnd(worker'[v].first)
          /\ worker'[v].first >= Reach(main) /\ worker'[v].first < last
          /\ worker'[v].first \notin DOMAIN shared.ready
          /\ main.pc = "publish" => worker'[v].first # Reach(main)
    <3> SUFFICES ASSUME NEW v \in Busy(worker')
                 PROVE  /\ worker'[v].first \in Starts /\ worker'[v].last = JobEnd(worker'[v].first)
                        /\ worker'[v].first >= Reach(main) /\ worker'[v].first < last
                        /\ worker'[v].first \notin DOMAIN shared.ready
                        /\ main.pc = "publish" => worker'[v].first # Reach(main)
      OBVIOUS
    <3>1. CASE v = w
      <4>1. first \notin DOMAIN shared.ready
        BY <1>3, <1>10, <2>1 DEF JobsSound
      <4> QED BY <1>3, <1>6, <1>9, <1>14, <2>2, <3>1, <4>1
    <3>2. CASE v # w
      <4>1. v \in Busy(worker) /\ worker'[v] = worker[v]
        BY <1>9, <3>2
      <4>2. /\ worker[v].first \in Starts /\ worker[v].last = JobEnd(worker[v].first)
            /\ worker[v].first >= Reach(main) /\ worker[v].first < first
            /\ worker[v].first \notin DOMAIN shared.ready
            /\ main.pc = "publish" => worker[v].first # Reach(main)
        BY <1>10, <2>1, <4>1 DEF JobsSound
      <4>3. worker[v].first \in Nat
        BY <1>2, <4>2, BoundsAreIndices
      <4> QED BY <1>3, <4>1, <4>2, <4>3
    <3> QED BY <3>1, <3>2
  <2>4. \A u, v \in Busy(worker') : worker'[u].first = worker'[v].first => u = v
    <3>1. \A v \in Busy(worker) : worker[v].first \in Nat /\ worker[v].first < first
      BY <1>2, <1>10, <2>1, BoundsAreIndices DEF JobsSound
    <3>2. \A v \in Busy(worker) : worker[v].first # first
      BY <1>3, <3>1
    <3> QED BY <1>6, <1>9, <2>1, <3>2 DEF JobsSound
  <2>5. \A x \in DOMAIN shared.ready : /\ x \in Starts /\ x >= Reach(main) /\ x < last
                                       /\ main.pc = "publish" => x # Reach(main)
    <3>1. \A x \in DOMAIN shared.ready : /\ x \in Starts /\ x >= Reach(main) /\ x < first
                                         /\ main.pc = "publish" => x # Reach(main)
      BY <1>10, <2>1 DEF JobsSound
    <3>2. \A x \in DOMAIN shared.ready : x \in Nat
      BY <1>2, <3>1, BoundsAreIndices
    <3> QED BY <1>3, <3>1, <3>2
  <2> QED BY <1>3, <1>8, <2>1, <2>3, <2>4, <2>5 DEF JobsSound
<1>16. (\E v \in Workers : worker[v].pc = "fail") => \E v \in Workers : worker'[v].pc = "fail"
  BY <1>1, <1>9
<1>17. NothingSkipped(shared', worker', main')
  <2> SUFFICES ASSUME ~(main.pc = "caught"), ~(\E v \in Workers : worker[v].pc = "fail"),
                      NEW x \in Starts, Reach(main) <= x, x < last
               PROVE  \/ x \in DOMAIN shared.ready \/ (\E v \in Busy(worker') : worker'[v].first = x)
                      \/ (main.pc = "publish" /\ x = Reach(main))
    BY <1>1, <1>8, <1>16 DEF NothingSkipped
  <2>1. x \in Nat /\ x \in Bounds /\ first \in Bounds
    BY <1>2, <1>3, BoundsAreIndices
  <2>2. CASE x < first
    BY <1>3, <1>9, <1>10, <1>12, <2>2, Given DEF NothingSkipped
  <2>3. CASE x = first
    BY <1>6, <1>9, <2>3
  <2>4. CASE first < x
    <3>1. last <= x
      BY <1>2, <1>14, <2>1, <2>4, BoundsApart
    <3> QED BY <1>3, <2>1, <3>1
  <2> QED BY <1>3, <2>1, <2>2, <2>3, <2>4
<1>18. PlacesSound(shared', worker', main')
  <2>1. Cardinality(Busy(worker')) = Cardinality(Busy(worker)) + 1
    BY <1>2, <1>9, BusyFinite, FS_AddElement
  <2>2. Cardinality(Busy(worker)) \in Nat /\ Cardinality(DOMAIN shared.ready) \in Nat
    BY <1>2, Given, BusyFinite, FS_CardinalityType DEF Typed
  <2>3. Cardinality(Mine(main)) \in Nat
    BY MineFinite
  <2>4. PlacesSound(shared, worker, main) /\ shared.in_flight \in Int
    BY <1>2, Given DEF SharedFields
  <2>5. ~Serialized => shared.in_flight < Capacity
    BY DEF HasRoom
  <2>6. shared'.in_flight = Cardinality(Busy(worker')) + Cardinality(DOMAIN shared'.ready)
    BY <1>8, <2>1, <2>2, <2>4 DEF PlacesSound
  <2>7. ~Serialized => shared'.in_flight <= Capacity
    BY <1>2, <1>8, <2>4, <2>5 DEF PlanSound
  <2>8. Serialized => Len(shared'.free) + Cardinality(Busy(worker')) + Cardinality(DOMAIN shared'.ready)
                      + Cardinality(Mine(main)) <= Capacity
    <3> SUFFICES ASSUME Serialized
                 PROVE  Len(shared'.free) + Cardinality(Busy(worker')) + Cardinality(DOMAIN shared'.ready)
                        + Cardinality(Mine(main)) <= Capacity
      OBVIOUS
    <3>1. Len(shared'.free) = Len(shared.free) - 1 /\ Len(shared.free) \in Nat
      BY <1>4, <1>8
    <3>2. Len(shared.free) + Cardinality(Busy(worker)) + Cardinality(DOMAIN shared.ready)
          + Cardinality(Mine(main)) <= Capacity
      BY <2>4 DEF PlacesSound
    <3>3. /\ Capacity \in Nat /\ Cardinality(DOMAIN shared'.ready) = Cardinality(DOMAIN shared.ready)
      BY <1>2, <1>8 DEF PlanSound
    <3> HIDE DEF free
    <3> QED BY <2>1, <2>2, <2>3, <3>1, <3>2, <3>3
  <2> QED BY <1>1, <2>6, <2>7, <2>8 DEF PlacesSound
<1>19. SlotsSound(shared', worker', main')
  <2> SUFFICES ASSUME Serialized PROVE SlotsSound(shared', worker', main')
    BY DEF SlotsSound
  <2>1. /\ IsInjective(shared.free)
        /\ \A v \in Busy(worker) : /\ worker[v].slot \in 1 .. Capacity /\ worker[v].slot \notin Mine(main)
                                   /\ \A i \in DOMAIN shared.free : shared.free[i] # worker[v].slot
                                   /\ \A x \in DOMAIN shared.ready : shared.ready[x].slot # worker[v].slot
        /\ \A u, v \in Busy(worker) : worker[u].slot = worker[v].slot => u = v
        /\ \A x \in DOMAIN shared.ready :
             /\ shared.ready[x].slot \in 1 .. Capacity /\ shared.ready[x].slot \notin Mine(main)
             /\ \A i \in DOMAIN shared.free : shared.free[i] # shared.ready[x].slot
        /\ \A x, y \in DOMAIN shared.ready : shared.ready[x].slot = shared.ready[y].slot => x = y
        /\ \A i \in DOMAIN shared.free : shared.free[i] \notin Mine(main)
    BY Given DEF SlotsSound
  <2>2. /\ slot \in 1 .. Capacity /\ slot \notin Mine(main)
        /\ \A i \in DOMAIN free : free[i] # slot
        /\ \A x \in DOMAIN shared.ready : shared.ready[x].slot # slot
        /\ \A v \in Busy(worker) : worker[v].slot # slot
    BY <1>4, <2>1 DEF IsInjective
  <2>3. IsInjective(free)
    BY <1>4, <2>1 DEF IsInjective
  <2>4. \A v \in Busy(worker') : /\ worker'[v].slot \in 1 .. Capacity /\ worker'[v].slot \notin Mine(main)
                                 /\ \A i \in DOMAIN free : free[i] # worker'[v].slot
                                 /\ \A x \in DOMAIN shared.ready : shared.ready[x].slot # worker'[v].slot
    BY <1>4, <1>6, <1>9, <2>1, <2>2
  <2>5. \A u, v \in Busy(worker') : worker'[u].slot = worker'[v].slot => u = v
    BY <1>6, <1>9, <2>1, <2>2
  <2>6. \A x \in DOMAIN shared.ready :
             /\ shared.ready[x].slot \in 1 .. Capacity /\ shared.ready[x].slot \notin Mine(main)
             /\ \A i \in DOMAIN free : free[i] # shared.ready[x].slot
    BY <1>4, <2>1
  <2>7. \A i \in DOMAIN free : free[i] \notin Mine(main)
    BY <1>4, <2>1
  <2>8. shared'.free = free /\ shared'.ready = shared.ready /\ main' = main
    BY <1>1, <1>8
  <2> QED BY <2>1, <2>3, <2>4, <2>5, <2>6, <2>7, <2>8 DEF SlotsSound
<1>20. SlotsKept(shared', worker', main')
  <2> SUFFICES ASSUME Serialized, main.pc # "caught", NEW n \in 1 .. Capacity
               PROVE  \/ \E i \in DOMAIN free : free[i] = n
                      \/ \E v \in Busy(worker') : worker'[v].slot = n
                      \/ \E x \in DOMAIN shared.ready : shared.ready[x].slot = n
                      \/ n \in Mine(main)
    BY <1>1, <1>8 DEF SlotsKept
  <2>1. \/ \E i \in DOMAIN shared.free : shared.free[i] = n
        \/ \E v \in Busy(worker) : worker[v].slot = n
        \/ \E x \in DOMAIN shared.ready : shared.ready[x].slot = n
        \/ n \in Mine(main)
    BY <1>3, Given DEF SlotsKept
  <2>2. ASSUME NEW i \in DOMAIN shared.free, shared.free[i] = n
        PROVE  (\E m \in DOMAIN free : free[m] = n) \/ \E v \in Busy(worker') : worker'[v].slot = n
    BY <1>4, <1>6, <1>9, <2>2
  <2>3. ASSUME NEW v \in Busy(worker), worker[v].slot = n
        PROVE  \E u \in Busy(worker') : worker'[u].slot = n
    BY <1>9, <2>3
  <2> QED BY <2>1, <2>2, <2>3
<1>21. ContentSound(shared', worker', main')
  <2>1. ContentSound(shared, worker, main) /\ main' = main
    BY <1>1, Given
  <2>2. /\ shared'.slots = shared.slots /\ shared'.ready = shared.ready
        /\ \A v \in Busy(worker') : worker'[v].pc = "store" => v \in Busy(worker) /\ worker'[v] = worker[v]
    BY <1>6, <1>8, <1>9
  <2> QED BY <2>1, <2>2 DEF ContentSound
<1>22. CourseSound(shared', worker', main', failures')
  <2>1. shared.next_job # plan.end
    BY <1>2, <1>3, <1>10, BoundsAreIndices DEF PlanSound
  <2>2. CourseSound(shared', worker', main, failures)
    <3>1. /\ CourseSound(shared, worker, main, failures) /\ failures \in Nat /\ failures <= failures
          /\ shared'.failure = shared.failure
      BY <1>8, Given
    <3>2. /\ worker[w].pc \notin {"unborn", "exit"}
          /\ worker'[w].pc \notin {"unborn", "exit", "undo", "fail"}
      BY <1>1, <1>6, <1>9
    <3> QED BY <1>9, <2>1, <3>1, <3>2, CourseOfWorker
  <2> QED BY <1>1, <2>2
<1>23. SleepSound(shared', worker', main')
  <2>1. SleepSound(shared, worker, main) /\ main' = main
    BY <1>1, Given
  <2>2. (\E v \in Workers : worker[v].pc = "notify") => \E v \in Workers : worker'[v].pc = "notify"
    BY <1>1, <1>9
  <2>3. \A v \in shared.asleep : v = 0 \/ (v \in Workers /\ worker'[v].pc = "take")
    BY <1>1, <1>9, <2>1 DEF SleepSound
  <2>4. (\E v \in shared.asleep : v # 0) => \E v \in Workers : worker'[v].pc = "fail"
    BY <1>16, <2>1 DEF SleepSound
  <2> QED BY <1>8, <2>1, <2>2, <2>3, <2>4 DEF SleepSound
<1>24. InOrder(main')
  BY <1>1, Given
<1> QED
  BY <1>11, <1>13, <1>15, <1>17, <1>18, <1>19, <1>20, <1>21, <1>22, <1>23, <1>24 DEF StepKeeps, Sound, GoodState

\* A step of one worker keeps the stages of the others.
LEMMA OthersKeepTheirStage ==
  ASSUME NEW k, NEW j, NEW w \in Workers, \A v \in Workers \ {w} : j[v] = k[v], NEW stage, k[w].pc # stage
  PROVE  (\E v \in Workers : k[v].pc = stage) => \E v \in Workers : j[v].pc = stage
PROOF
  OBVIOUS

LEMMA SleepersKept ==
  ASSUME NEW s, NEW k, NEW c, NEW z, NEW j, NEW w \in Workers, SleepSound(s, k, c),
         \A v \in Workers \ {w} : j[v] = k[v], k[w].pc \notin {"take", "notify", "fail"},
         w # 0, z.asleep = s.asleep, z.failure = s.failure,
         z.ready = s.ready \/ j[w].pc = "notify",
         (z.free = s.free /\ z.in_flight = s.in_flight) \/ j[w].pc = "fail"
  PROVE  SleepSound(z, j, c)
PROOF
<1>1. /\ (\E v \in Workers : k[v].pc = "notify") => \E v \in Workers : j[v].pc = "notify"
      /\ (\E v \in Workers : k[v].pc = "fail") => \E v \in Workers : j[v].pc = "fail"
  BY OthersKeepTheirStage
<1>2. \A v \in s.asleep : v = 0 \/ (v \in Workers /\ j[v].pc = "take")
  BY DEF SleepSound
<1>3. z.failure \/ c.pc = "join" => z.asleep = {}
  BY DEF SleepSound
<1>4. 0 \in z.asleep => /\ c.pc = "next" /\ ~Sequential /\ c.next_publish < plan.end
                        /\ c.next_publish \notin DOMAIN z.ready \/ \E v \in Workers : j[v].pc = "notify"
  BY <1>1 DEF SleepSound
<1>5. (\E v \in z.asleep : v # 0) => ~HasRoom(z) \/ \E v \in Workers : j[v].pc = "fail"
  BY <1>1 DEF SleepSound, HasRoom
<1> QED BY <1>2, <1>3, <1>4, <1>5 DEF SleepSound

\* A worker writes its chunk, serialized into the slot that it was lent, or the builder throws.
LEMMA BuildStep ==
  ASSUME GenerationInvariant, NEW w \in Workers, Build(w)
  PROVE  StepKeeps
PROOF
<1> DEFINE first == worker[w].first
           last == worker[w].last
           n == worker[w].slot
           held == IF Serialized THEN NoChunk ELSE Chunk(first, last)
           stored == [worker[w] EXCEPT !.pc = "store", !.chunk = held]
           undone == [worker[w] EXCEPT !.pc = "undo"]
           r == worker'[w]
<1>1. worker[w].pc = "build" /\ UNCHANGED <<plan, main>>
  BY DEF Build
<1>2. /\ shared \in SharedFields /\ worker \in [Workers -> WorkerFields] /\ worker[w] \in WorkerFields
      /\ PlanSound /\ main \in CallerFields /\ failures \in Nat
  BY Given
<1>3. w \in Busy(worker) /\ w # 0
  BY <1>1, <1>2 DEF Busy, Workers
<1>4. first \in Starts /\ last = JobEnd(first) /\ first >= Reach(main) /\ first \in Nat /\ last \in Nat
      /\ first < last
  <2>1. first \in Starts /\ last = JobEnd(first) /\ first >= Reach(main)
    BY <1>3, Given DEF JobsSound
  <2> HIDE DEF first, last
  <2>2. first \in Bounds
    BY <1>2, <2>1, BoundsAreIndices
  <2>3. first \in Nat
    BY <1>2, <2>2, BoundsAreIndices
  <2>4. last \in Bounds /\ first < last
    BY <1>2, <2>1, NextBound
  <2> QED BY <1>2, <2>1, <2>3, <2>4, BoundsAreIndices
<1>5. Chunk(first, last) \in Chunks /\ Chunk(first, last).count = last - first
  <2> HIDE DEF first, last
  <2>1. first \in Nat /\ last \in Nat /\ first <= last
    BY <1>4
  <2> QED BY <2>1, ChunkFacts
<1>6. \/ worker' = [worker EXCEPT ![w] = stored] /\ failures' = failures
      \/ worker' = [worker EXCEPT ![w] = undone] /\ failures' = failures + 1
  BY DEF Build, MayThrow, Goes
<1>7. /\ \A v \in Workers \ {w} : worker'[v] = worker[v]
      /\ r \in WorkerFields /\ worker' \in [Workers -> WorkerFields]
      /\ r.first = first /\ r.last = last /\ r.slot = n
      /\ \/ r.pc = "store" /\ r.chunk = held /\ failures' = failures
         \/ r.pc = "undo" /\ failures' = failures + 1
  <2>1. held \in Chunks
    BY <1>5, NoChunkIsChunk
  <2> HIDE DEF held
  <2>2. /\ stored \in WorkerFields /\ stored.first = first /\ stored.last = last /\ stored.slot = n
        /\ stored.pc = "store" /\ stored.chunk = held
    BY <1>2, <2>1 DEF WorkerFields, WorkerStages
  <2>3. /\ undone \in WorkerFields /\ undone.first = first /\ undone.last = last /\ undone.slot = n
        /\ undone.pc = "undo"
    BY <1>2 DEF WorkerFields, WorkerStages
  <2> HIDE DEF stored, undone, first, last, n
  <2>4. CASE worker' = [worker EXCEPT ![w] = stored] /\ failures' = failures
    BY <1>2, <2>2, <2>4
  <2>5. CASE worker' = [worker EXCEPT ![w] = undone] /\ failures' = failures + 1
    BY <1>2, <2>3, <2>5
  <2> QED BY <1>6, <2>4, <2>5
<1>8. n \in Nat /\ (Serialized => n \in 1 .. Capacity)
  BY <1>2, <1>3, Given DEF SlotsSound, WorkerFields
<1>9. /\ shared' \in SharedFields /\ shared'.next_job = shared.next_job /\ shared'.ready = shared.ready
      /\ shared'.in_flight = shared.in_flight /\ shared'.free = shared.free
      /\ shared'.failure = shared.failure /\ shared'.asleep = shared.asleep
      /\ Serialized => shared'.slots = [shared.slots EXCEPT ![n] = Chunk(first, last)]
      /\ ~Serialized => shared'.slots = shared.slots
  <2>1. shared' = IF Serialized THEN [shared EXCEPT !.slots[n] = Chunk(first, last)] ELSE shared
    BY DEF Build
  <2>2. CASE ~Serialized
    BY <1>2, <2>1, <2>2
  <2>3. CASE Serialized
    <3> HIDE DEF n, first, last
    <3> DEFINE q == [shared.slots EXCEPT ![n] = Chunk(first, last)]
    <3>1. q \in [1 .. Capacity -> Chunks]
      BY <1>2, <1>5 DEF SharedFields
    <3>2. shared' = [shared EXCEPT !.slots = q]
      BY <1>2, <2>1, <2>3 DEF SharedFields
    <3> HIDE DEF q
    <3>3. /\ shared'.next_job = shared.next_job /\ shared'.ready = shared.ready
          /\ shared'.in_flight = shared.in_flight /\ shared'.free = shared.free
          /\ shared'.failure = shared.failure /\ shared'.asleep = shared.asleep /\ shared'.slots = q
      BY <1>2, <3>2 DEF SharedFields
    <3>4. shared' \in SharedFields
      BY <1>2, <3>1, <3>2 DEF SharedFields
    <3> QED BY <2>3, <3>3, <3>4 DEF q
  <2> QED BY <2>2, <2>3
<1>10. \A v \in Busy(worker) : /\ worker'[v].first = worker[v].first /\ worker'[v].last = worker[v].last
                               /\ worker'[v].slot = worker[v].slot
  <2>1. Busy(worker) \subseteq Workers
    BY DEF Busy
  <2> QED BY <1>7, <2>1
<1>11. Busy(worker') = Busy(worker)
  BY <1>1, <1>7 DEF Busy
<1> HIDE DEF r, held, stored, undone
<1>12. JobsSound(shared', worker', main')
  BY <1>1, <1>9, <1>10, <1>11, Given DEF JobsSound
<1>13. NothingSkipped(shared', worker', main')
  <2>1. (\E v \in Workers : worker[v].pc = "fail") => \E v \in Workers : worker'[v].pc = "fail"
    BY <1>1, <1>7, OthersKeepTheirStage
  <2> QED BY <1>1, <1>9, <1>10, <1>11, <2>1, Given DEF NothingSkipped
<1>14. PlacesSound(shared', worker', main')
  BY <1>1, <1>9, <1>11, Given DEF PlacesSound
<1>15. SlotsSound(shared', worker', main') /\ SlotsKept(shared', worker', main')
  <2>1. SlotsSound(shared', worker', main')
    BY <1>1, <1>9, <1>10, <1>11, Given DEF SlotsSound
  <2>2. SlotsKept(shared', worker', main')
    BY <1>1, <1>9, <1>10, <1>11, Given DEF SlotsKept
  <2> QED BY <2>1, <2>2
<1>16. ContentSound(shared', worker', main')
  <2>1. CASE ~Serialized
    <3>1. \A v \in Busy(worker) : worker'[v].pc = "store" =>
            worker'[v].chunk = Chunk(worker'[v].first, worker'[v].last)
      <4> SUFFICES ASSUME NEW v \in Busy(worker), worker'[v].pc = "store"
                   PROVE  worker'[v].chunk = Chunk(worker'[v].first, worker'[v].last)
        OBVIOUS
      <4>1. CASE v = w
        BY <1>7, <2>1, <4>1 DEF held, r
      <4>2. CASE v # w
        <5>1. worker'[v] = worker[v]
          BY <1>7, <4>2 DEF Busy
        <5> QED BY <2>1, <5>1, Given DEF ContentSound
      <4> QED BY <4>1, <4>2
    <3> QED BY <1>1, <1>9, <1>11, <2>1, <3>1, Given DEF ContentSound
  <2>2. CASE Serialized
    <3>1. \A m \in 1 .. Capacity : m # n => shared'.slots[m] = shared.slots[m]
      BY <1>2, <1>9, <2>2 DEF SharedFields
    <3>2. shared'.slots[n] = Chunk(first, last)
      BY <1>2, <1>8, <1>9, <2>2 DEF SharedFields
    <3>3. \A v \in Busy(worker) : worker'[v].pc = "store" =>
            shared'.slots[worker'[v].slot] = Chunk(worker'[v].first, worker'[v].last)
      <4> SUFFICES ASSUME NEW v \in Busy(worker), worker'[v].pc = "store"
                   PROVE  shared'.slots[worker'[v].slot] = Chunk(worker'[v].first, worker'[v].last)
        OBVIOUS
      <4>1. CASE v = w
        BY <1>7, <3>2, <4>1 DEF r
      <4>2. CASE v # w
        <5>1. worker'[v] = worker[v]
          BY <1>7, <4>2 DEF Busy
        <5>2. worker[v].slot # n /\ worker[v].slot \in 1 .. Capacity
          BY <1>3, <2>2, <4>2, Given DEF SlotsSound
        <5> QED BY <2>2, <3>1, <5>1, <5>2, Given DEF ContentSound
      <4> QED BY <4>1, <4>2
    <3>4. \A x \in DOMAIN shared.ready : shared'.slots[shared.ready[x].slot] = Chunk(x, JobEnd(x))
      <4>1. \A x \in DOMAIN shared.ready : shared.ready[x].slot # n /\ shared.ready[x].slot \in 1 .. Capacity
        BY <1>3, <2>2, Given DEF SlotsSound
      <4> QED BY <2>2, <3>1, <4>1, Given DEF ContentSound
    <3>5. main.pc \in {"publish", "release"} =>
            shared'.slots[main.slot] = Chunk(main.next_publish, JobEnd(main.next_publish))
      <4>1. main.pc \in {"publish", "release"} => main.slot \in 1 .. Capacity
        BY <2>2, Given DEF PublisherSound
      <4>2. main.pc \in {"publish", "release"} => main.slot # n
        <5>1. n \notin Mine(main)
          BY <1>3, <2>2, Given DEF SlotsSound
        <5> QED BY <5>1 DEF Mine
      <4> QED BY <2>2, <3>1, <4>1, <4>2, Given DEF ContentSound
    <3> QED BY <1>1, <1>9, <1>11, <2>2, <3>3, <3>4, <3>5 DEF ContentSound
  <2> QED BY <2>1, <2>2
\* The caller may be about to read the count of this very slot.
<1>17. ASSUME main.pc = "advance", Serialized
       PROVE  /\ main.next_publish + shared'.slots[main.slot].count <= Reach(main)
              /\ WholeChunks => main.next_publish + shared'.slots[main.slot].count = Reach(main)
  <2>1. /\ main.slot \in 1 .. Capacity /\ main.next_publish \in Starts
        /\ Reach(main) = JobEnd(main.next_publish)
        /\ main.next_publish + shared.slots[main.slot].count <= Reach(main)
        /\ WholeChunks => main.next_publish + shared.slots[main.slot].count = Reach(main)
    BY <1>17, Given DEF PublisherSound
  <2>2. CASE main.slot # n
    <3>1. shared'.slots[main.slot] = shared.slots[main.slot]
      BY <1>2, <1>9, <1>17, <2>1, <2>2 DEF SharedFields
    <3> QED BY <2>1, <3>1
  <2>3. CASE main.slot = n
    <3>1. shared'.slots[main.slot].count = last - first
      BY <1>2, <1>5, <1>8, <1>9, <1>17, <2>3 DEF SharedFields
    <3> HIDE DEF first, last, n
    <3> DEFINE np == main.next_publish
    <3>2. np \in Nat /\ np \in Starts
      BY <1>2, <2>1 DEF CallerFields
    <3> HIDE DEF np
    <3>3. /\ JobEnd(np) \in Bounds /\ JobEnd(np) <= np + plan.size
          /\ JobEnd(np) < plan.end => JobEnd(np) = np + plan.size
      BY <1>2, <3>2, NextBound
    <3>4. last <= first + plan.size
      BY <1>2, <1>4, NextBound
    <3>5. first < plan.end
      BY <1>2, <1>4, BoundsAreIndices
    <3>6. JobEnd(np) \in Nat /\ JobEnd(np) <= first
      BY <1>2, <1>4, <2>1, <3>3, BoundsAreIndices DEF np
    <3>7. JobEnd(np) = np + plan.size
      BY <1>2, <1>4, <3>3, <3>5, <3>6 DEF PlanSound
    <3>8. np + (last - first) <= JobEnd(np)
      BY <1>2, <1>4, <3>2, <3>4, <3>7 DEF PlanSound
    <3>9. WholeChunks => np + (last - first) = JobEnd(np)
      <4>1. WholeChunks => last = first + plan.size
        BY <1>2, <1>4, <1>17, WholeChunk
      <4> QED BY <1>2, <1>4, <3>2, <3>7, <4>1 DEF PlanSound
    <3> QED BY <2>1, <3>1, <3>8, <3>9 DEF np
  <2> QED BY <2>2, <2>3
<1>18. PublisherSound(shared', main')
  BY <1>1, <1>9, <1>17, Given DEF PublisherSound
<1>19. SleepSound(shared', worker', main')
  <2>1. SleepSound(shared, worker, main) /\ main' = main
    BY <1>1, Given
  <2>2. r = worker'[w] /\ worker[w].pc \notin {"take", "notify", "fail"}
    BY <1>1 DEF r
  <2>3. /\ shared'.asleep = shared.asleep /\ shared'.failure = shared.failure /\ shared'.ready = shared.ready
        /\ shared'.free = shared.free /\ shared'.in_flight = shared.in_flight
    BY <1>9
  <2>4. \A v \in Workers \ {w} : worker'[v] = worker[v]
    BY <1>7
  <2> QED BY <1>3, <2>1, <2>2, <2>3, <2>4, SleepersKept
<1>20. CourseSound(shared', worker', main', failures')
  <2>1. CourseSound(shared, worker, main, failures) /\ main' = main
    BY <1>1, Given
  <2>2. failures' \in Nat /\ failures <= failures' /\ (r.pc = "undo" => failures' > 0)
        /\ r.pc \notin {"unborn", "exit", "fail"}
    BY <1>2, <1>7
  <2>3. shared'.failure = shared.failure /\ shared'.next_job = shared.next_job
    BY <1>9
  <2>4. worker[w].pc \notin {"unborn", "exit"} /\ worker'[w].pc = r.pc
    BY <1>1 DEF r
  <2> QED BY <1>2, <1>7, <2>1, <2>2, <2>3, <2>4, CourseOfWorker
<1>21. Typed(shared', worker', main', failures')
  BY <1>1, <1>2, <1>7, <1>9, Given DEF Typed
<1>22. InOrder(main')
  BY <1>1, Given
<1> QED
  BY <1>12, <1>13, <1>14, <1>15, <1>16, <1>18, <1>19, <1>20, <1>21, <1>22 DEF StepKeeps, Sound, GoodState

-----------------------------------------------------------------------------
\* A worker gives its place back: its builder threw, or another thread failed before it stored.
LEMMA GiveBackStep ==
  ASSUME GenerationInvariant, NEW w \in Workers, NEW r, Moves(worker, worker', w, r),
         shared' = GivenBack(shared, worker[w].slot), UNCHANGED <<main, failures>>,
         \/ worker[w].pc = "store" /\ shared.failure /\ r.pc = "notify"
         \/ worker[w].pc = "undo" /\ r.pc = "fail"
  PROVE  StepKeeps
PROOF
<1> DEFINE n == worker[w].slot
           free == IF Serialized THEN Append(shared.free, n) ELSE shared.free
<1>1. /\ shared \in SharedFields /\ worker \in [Workers -> WorkerFields] /\ worker[w] \in WorkerFields
      /\ PlanSound /\ main \in CallerFields /\ failures \in Nat
  BY Given
<1>2. /\ \A v \in Workers \ {w} : worker'[v] = worker[v]
      /\ worker' \in [Workers -> WorkerFields] /\ worker'[w] = r
  BY DEF Moves
<1>3. w \in Busy(worker) /\ w # 0 /\ w \notin Busy(worker')
  BY <1>1, <1>2 DEF Busy, Workers
<1>4. Busy(worker') = Busy(worker) \ {w} /\ \A v \in Busy(worker') : v \in Busy(worker) /\ worker'[v] = worker[v]
  BY <1>2, <1>3 DEF Busy
<1>5. n \in Nat /\ (Serialized => n \in 1 .. Capacity)
  BY <1>1, <1>3, Given DEF SlotsSound, WorkerFields
<1>6. shared.free \in Seq(1 .. Capacity) /\ shared.in_flight \in Int /\ Len(shared.free) \in Nat
  BY <1>1 DEF SharedFields
<1>7. free \in Seq(1 .. Capacity)
  <2> HIDE DEF n
  <2>1. CASE Serialized
    BY <1>5, <1>6, <2>1
  <2>2. CASE ~Serialized
    BY <1>6, <2>2
  <2> QED BY <2>1, <2>2
<1>8. ASSUME Serialized
      PROVE  /\ Len(free) = Len(shared.free) + 1 /\ Len(free) \in DOMAIN free /\ free[Len(free)] = n
             /\ \A i \in DOMAIN free : i \in DOMAIN shared.free \/ i = Len(free)
             /\ \A i \in DOMAIN shared.free : i \in DOMAIN free /\ free[i] = shared.free[i] /\ i # Len(free)
  <2> HIDE DEF n
  <2>1. free = Append(shared.free, n)
    BY <1>8
  <2> HIDE DEF free
  <2> QED BY <1>5, <1>6, <1>8, <2>1
<1> HIDE DEF free
<1>9. shared' = [shared EXCEPT !.in_flight = shared.in_flight - 1, !.free = free]
  BY DEF GivenBack, free
<1>10. /\ shared'.next_job = shared.next_job /\ shared'.ready = shared.ready
       /\ shared'.in_flight = shared.in_flight - 1 /\ shared'.free = free
       /\ shared'.failure = shared.failure /\ shared'.asleep = shared.asleep /\ shared'.slots = shared.slots
  BY <1>1, <1>9 DEF SharedFields
<1>11. shared' \in SharedFields
  <2>1. shared.in_flight - 1 \in Int
    BY <1>6
  <2> QED BY <1>1, <1>7, <1>9, <2>1 DEF SharedFields
<1>12. shared.failure \/ \E v \in Workers : worker'[v].pc = "fail"
  BY <1>2
<1>13. Typed(shared', worker', main', failures')
  BY <1>1, <1>2, <1>10, <1>11, Given DEF Typed
<1>14. JobsSound(shared', worker', main')
  BY <1>4, <1>10, Given DEF JobsSound
<1>15. NothingSkipped(shared', worker', main')
  BY <1>10, <1>12 DEF NothingSkipped
<1>16. PlacesSound(shared', worker', main')
  <2>1. Cardinality(Busy(worker')) = Cardinality(Busy(worker)) - 1 /\ Cardinality(Busy(worker)) \in Nat
    <3>1. w \in Busy(worker) /\ Busy(worker') = Busy(worker) \ {w} /\ PlanSound
      BY <1>1, <1>3, <1>4
    <3>2. IsFiniteSet(Busy(worker)) /\ Cardinality(Busy(worker)) \in Nat
      BY <3>1, BusyFinite
    <3> QED BY <3>1, <3>2, FS_RemoveElement
  <2>2. Cardinality(DOMAIN shared.ready) \in Nat /\ Cardinality(Mine(main)) \in Nat
    BY Given, MineFinite, FS_CardinalityType DEF Typed
  <2>3. PlacesSound(shared, worker, main) /\ Capacity \in Nat
    BY <1>1, Given DEF PlanSound
  <2>4. shared'.in_flight = Cardinality(Busy(worker')) + Cardinality(DOMAIN shared'.ready)
    BY <1>6, <1>10, <2>1, <2>2, <2>3 DEF PlacesSound
  <2>5. ~Serialized => shared'.in_flight <= Capacity
    BY <1>6, <1>10, <2>3 DEF PlacesSound
  <2>6. Serialized => Len(shared'.free) + Cardinality(Busy(worker')) + Cardinality(DOMAIN shared'.ready)
                      + Cardinality(Mine(main)) <= Capacity
    <3> SUFFICES ASSUME Serialized
                 PROVE  Len(shared'.free) + Cardinality(Busy(worker')) + Cardinality(DOMAIN shared'.ready)
                        + Cardinality(Mine(main)) <= Capacity
      OBVIOUS
    <3>1. Len(shared'.free) = Len(shared.free) + 1 /\ shared'.ready = shared.ready
      BY <1>8, <1>10
    <3>2. Len(shared.free) + Cardinality(Busy(worker)) + Cardinality(DOMAIN shared.ready)
          + Cardinality(Mine(main)) <= Capacity
      BY <2>3 DEF PlacesSound
    <3> QED BY <1>6, <2>1, <2>2, <2>3, <3>1, <3>2
  <2> QED BY <2>4, <2>5, <2>6 DEF PlacesSound
<1>17. SlotsSound(shared', worker', main')
  <2> SUFFICES ASSUME Serialized PROVE SlotsSound(shared', worker', main')
    BY DEF SlotsSound
  <2>1. /\ IsInjective(shared.free)
        /\ \A v \in Busy(worker) : /\ worker[v].slot \in 1 .. Capacity /\ worker[v].slot \notin Mine(main)
                                   /\ \A i \in DOMAIN shared.free : shared.free[i] # worker[v].slot
                                   /\ \A x \in DOMAIN shared.ready : shared.ready[x].slot # worker[v].slot
        /\ \A u, v \in Busy(worker) : worker[u].slot = worker[v].slot => u = v
        /\ \A x \in DOMAIN shared.ready :
             /\ shared.ready[x].slot \in 1 .. Capacity /\ shared.ready[x].slot \notin Mine(main)
             /\ \A i \in DOMAIN shared.free : shared.free[i] # shared.ready[x].slot
        /\ \A x, y \in DOMAIN shared.ready : shared.ready[x].slot = shared.ready[y].slot => x = y
        /\ \A i \in DOMAIN shared.free : shared.free[i] \notin Mine(main)
    BY Given DEF SlotsSound
  <2>2. /\ n \notin Mine(main)
        /\ \A i \in DOMAIN shared.free : shared.free[i] # n
        /\ \A x \in DOMAIN shared.ready : shared.ready[x].slot # n
        /\ \A v \in Busy(worker') : worker'[v].slot # n
    BY <1>3, <1>4, <2>1
  <2> HIDE DEF n
  <2>3. IsInjective(free)
    BY <1>8, <2>1, <2>2 DEF IsInjective
  <2>4. \A v \in Busy(worker') : /\ worker'[v].slot \in 1 .. Capacity /\ worker'[v].slot \notin Mine(main)
                                 /\ \A i \in DOMAIN free : free[i] # worker'[v].slot
                                 /\ \A x \in DOMAIN shared.ready : shared.ready[x].slot # worker'[v].slot
    BY <1>4, <1>8, <2>1, <2>2
  <2>5. \A u, v \in Busy(worker') : worker'[u].slot = worker'[v].slot => u = v
    BY <1>4, <2>1
  <2>6. \A x \in DOMAIN shared.ready :
             /\ shared.ready[x].slot \in 1 .. Capacity /\ shared.ready[x].slot \notin Mine(main)
             /\ \A i \in DOMAIN free : free[i] # shared.ready[x].slot
    BY <1>8, <2>1, <2>2
  <2>7. \A i \in DOMAIN free : free[i] \notin Mine(main)
    BY <1>8, <2>1, <2>2
  <2>8. shared'.free = free /\ shared'.ready = shared.ready /\ main' = main
    BY <1>10
  <2> QED BY <2>1, <2>3, <2>4, <2>5, <2>6, <2>7, <2>8 DEF SlotsSound
<1>18. SlotsKept(shared', worker', main')
  <2> SUFFICES ASSUME Serialized, ~shared.failure, main.pc # "caught", NEW m \in 1 .. Capacity
               PROVE  \/ \E i \in DOMAIN free : free[i] = m
                      \/ \E v \in Busy(worker') : worker'[v].slot = m
                      \/ \E x \in DOMAIN shared.ready : shared.ready[x].slot = m
                      \/ m \in Mine(main)
    BY <1>10 DEF SlotsKept
  <2>1. \/ \E i \in DOMAIN shared.free : shared.free[i] = m
        \/ \E v \in Busy(worker) : worker[v].slot = m
        \/ \E x \in DOMAIN shared.ready : shared.ready[x].slot = m
        \/ m \in Mine(main)
    BY Given DEF SlotsKept
  <2>2. ASSUME NEW v \in Busy(worker), worker[v].slot = m
        PROVE  (\E i \in DOMAIN free : free[i] = m) \/ \E u \in Busy(worker') : worker'[u].slot = m
    BY <1>4, <1>8, <2>2
  <2> QED BY <1>8, <2>1, <2>2
<1>19. ContentSound(shared', worker', main')
  BY <1>4, <1>10, Given DEF ContentSound
<1>20. PublisherSound(shared', main')
  BY <1>10, Given DEF PublisherSound
<1>21. SleepSound(shared', worker', main')
  <2>1. CASE shared.failure
    <3>1. shared.asleep = {}
      BY <2>1, Given DEF SleepSound
    <3> QED BY <1>10, <3>1, NobodySleeps
  <2>2. CASE ~shared.failure
    <3>1. worker[w].pc = "undo" /\ worker'[w].pc = "fail"
      BY <1>2, <2>2
    <3>2. SleepSound(shared, worker, main) /\ worker[w].pc \notin {"take", "notify", "fail"}
      BY <3>1, Given
    <3> QED BY <1>2, <1>3, <1>10, <3>1, <3>2, SleepersKept
  <2> QED BY <2>1, <2>2
<1>22. CourseSound(shared', worker', main', failures')
  <2>1. CourseSound(shared, worker, main, failures) /\ failures <= failures
    BY <1>1, Given
  <2>2. worker[w].pc \notin {"unborn", "exit"} /\ worker'[w].pc \notin {"unborn", "exit", "undo"}
    BY <1>2
  <2>3. worker'[w].pc = "fail" => failures > 0
    BY <1>2, <2>1 DEF CourseSound
  <2>4. shared'.failure = shared.failure /\ shared'.next_job = shared.next_job
    BY <1>10
  <2>5. CourseSound(shared', worker', main, failures)
    BY <1>1, <1>2, <2>1, <2>2, <2>3, <2>4, CourseOfWorker
  <2> QED BY <2>5
<1>23. InOrder(main')
  BY Given
<1> QED
  BY <1>13, <1>14, <1>15, <1>16, <1>17, <1>18, <1>19, <1>20, <1>21, <1>22, <1>23 DEF StepKeeps, Sound, GoodState

LEMMA UndoStep == ASSUME GenerationInvariant, NEW w \in Workers, Undo(w) PROVE StepKeeps
PROOF
<1> DEFINE r == [worker[w] EXCEPT !.pc = "fail"]
<1>1. /\ worker[w].pc = "undo" /\ shared' = GivenBack(shared, worker[w].slot)
      /\ worker' = [worker EXCEPT ![w] = r] /\ UNCHANGED <<main, failures>>
  BY DEF Undo, Goes
<1>2. worker \in [Workers -> WorkerFields] /\ worker[w] \in WorkerFields
  BY Given
<1>3. r \in WorkerFields /\ r.pc = "fail"
  BY <1>2 DEF WorkerFields, WorkerStages
<1> HIDE DEF r
<1>4. Moves(worker, worker', w, r)
  BY <1>1, <1>2, <1>3 DEF Moves
<1> QED BY <1>1, <1>3, <1>4, GiveBackStep

\* A worker stores its chunk where the caller finds it.
LEMMA StoreStep == ASSUME GenerationInvariant, NEW w \in Workers, Store(w) PROVE StepKeeps
PROOF
<1> DEFINE r == [worker[w] EXCEPT !.pc = "notify"]
           first == worker[w].first
           e == [slot |-> worker[w].slot, chunk |-> worker[w].chunk]
           q == [b \in DOMAIN shared.ready \cup {first} |-> IF b \in DOMAIN shared.ready THEN shared.ready[b] ELSE e]
<1>1. /\ worker[w].pc = "store" /\ shared' = Stored(shared, w)
      /\ worker' = [worker EXCEPT ![w] = r] /\ UNCHANGED <<main, failures>>
  BY DEF Store, Goes
<1>2. /\ shared \in SharedFields /\ worker \in [Workers -> WorkerFields] /\ worker[w] \in WorkerFields
      /\ PlanSound /\ main \in CallerFields /\ failures \in Nat
  BY Given
<1>3. r \in WorkerFields /\ r.pc = "notify"
  BY <1>2 DEF WorkerFields, WorkerStages
<1> HIDE DEF r
<1>4. Moves(worker, worker', w, r)
  BY <1>1, <1>2, <1>3 DEF Moves
<1>5. CASE shared.failure
  <2>1. shared' = GivenBack(shared, worker[w].slot)
    BY <1>1, <1>5 DEF Stored
  <2> QED BY <1>1, <1>3, <1>4, <1>5, <2>1, GiveBackStep
<1>6. CASE ~shared.failure
  <2>1. shared' = [shared EXCEPT !.ready = q]
    BY <1>1, <1>6 DEF Stored
  <2>2. /\ \A v \in Workers \ {w} : worker'[v] = worker[v]
        /\ worker' \in [Workers -> WorkerFields] /\ worker'[w] = r
    BY <1>4 DEF Moves
  <2>3. w \in Busy(worker) /\ w # 0 /\ w \notin Busy(worker')
    BY <1>1, <1>2, <1>3, <2>2 DEF Busy, Workers
  <2>4. /\ Busy(worker') = Busy(worker) \ {w}
        /\ \A v \in Busy(worker') : v \in Busy(worker) /\ worker'[v] = worker[v] /\ v # w
    BY <2>2, <2>3 DEF Busy
  <2>5. shared.ready \in ReadyMaps /\ first \in Nat /\ e \in Entries
    BY <1>2 DEF SharedFields, WorkerFields, Entries
  <2>6. /\ first \in Starts /\ worker[w].last = JobEnd(first) /\ first >= Reach(main)
        /\ first < shared.next_job /\ first \notin DOMAIN shared.ready
        /\ main.pc = "publish" => first # Reach(main)
        /\ \A v \in Busy(worker') : worker'[v].first # first
    BY <2>3, <2>4, Given DEF JobsSound
  <2>7. e.slot = worker[w].slot /\ e.chunk = worker[w].chunk
    OBVIOUS
  <2> HIDE DEF first, e
  <2>8. /\ q \in ReadyMaps /\ DOMAIN q = DOMAIN shared.ready \cup {first} /\ q[first] = e
        /\ \A b \in DOMAIN shared.ready : q[b] = shared.ready[b]
    <3> HIDE DEF q
    <3>1. q = [b \in DOMAIN shared.ready \cup {first} |-> IF b \in DOMAIN shared.ready THEN shared.ready[b] ELSE e]
      BY DEF q
    <3> QED BY <2>5, <2>6, <3>1, ReadyAdded
  <2> HIDE DEF q
  <2>9. /\ shared'.next_job = shared.next_job /\ shared'.ready = q
        /\ shared'.in_flight = shared.in_flight /\ shared'.free = shared.free
        /\ shared'.failure = shared.failure /\ shared'.asleep = shared.asleep /\ shared'.slots = shared.slots
    BY <1>2, <2>1 DEF SharedFields
  <2>10. shared' \in SharedFields
    BY <1>2, <2>1, <2>8 DEF SharedFields
  <2>11. /\ IsFiniteSet(DOMAIN q) /\ Cardinality(DOMAIN q) = Cardinality(DOMAIN shared.ready) + 1
         /\ Cardinality(DOMAIN shared.ready) \in Nat
    <3>1. IsFiniteSet(DOMAIN shared.ready)
      BY Given DEF Typed
    <3> QED BY <2>6, <2>8, <3>1, FS_AddElement, FS_CardinalityType
  <2>12. Typed(shared', worker', main', failures')
    BY <1>1, <1>2, <2>2, <2>9, <2>10, <2>11 DEF Typed
  <2>13. JobsSound(shared', worker', main')
    <3>1. \A v \in Busy(worker') : worker'[v].first \notin DOMAIN q
      BY <2>4, <2>6, <2>8, Given DEF JobsSound
    <3>2. \A x \in DOMAIN q : /\ x \in Starts /\ x >= Reach(main) /\ x < shared.next_job
                              /\ main.pc = "publish" => x # Reach(main)
      BY <2>6, <2>8, Given DEF JobsSound
    <3>3. JobsSound(shared, worker, main) /\ main' = main
          /\ shared'.ready = q /\ shared'.next_job = shared.next_job
      BY <1>1, <2>9, Given
    <3>4. \A v \in Busy(worker') :
            /\ worker'[v].first \in Starts /\ worker'[v].last = JobEnd(worker'[v].first)
            /\ worker'[v].first >= Reach(main) /\ worker'[v].first < shared.next_job
            /\ main.pc = "publish" => worker'[v].first # Reach(main)
      BY <2>4, <3>3 DEF JobsSound
    <3>5. \A u, v \in Busy(worker') : worker'[u].first = worker'[v].first => u = v
      BY <2>4, <3>3 DEF JobsSound
    <3>6. shared.next_job \in Bounds
      BY <3>3 DEF JobsSound
    <3> QED BY <3>1, <3>2, <3>3, <3>4, <3>5, <3>6 DEF JobsSound
  <2>14. NothingSkipped(shared', worker', main')
    <3> SUFFICES ASSUME ~Sequential, main.pc # "caught", ~(\E v \in Workers : worker'[v].pc = "fail"),
                        NEW x \in Starts, Reach(main) <= x, x < shared.next_job
                 PROVE  \/ x \in DOMAIN q \/ (\E v \in Busy(worker') : worker'[v].first = x)
                        \/ (main.pc = "publish" /\ x = Reach(main))
      BY <1>1, <2>9 DEF NothingSkipped
    <3>1. ~(\E v \in Workers : worker[v].pc = "fail")
      BY <1>1, <2>2, OthersKeepTheirStage
    <3>2. \/ x \in DOMAIN shared.ready \/ (\E v \in Busy(worker) : worker[v].first = x)
          \/ (main.pc = "publish" /\ x = Reach(main))
      BY <1>6, <3>1, Given DEF NothingSkipped
    <3>3. ASSUME NEW v \in Busy(worker), worker[v].first = x
          PROVE  x \in DOMAIN q \/ (\E u \in Busy(worker') : worker'[u].first = x)
      BY <2>2, <2>4, <2>8, <3>3 DEF first
    <3> QED BY <2>8, <3>2, <3>3
  <2>15. PlacesSound(shared', worker', main')
    <3>1. Cardinality(Busy(worker')) = Cardinality(Busy(worker)) - 1 /\ Cardinality(Busy(worker)) \in Nat
      <4>1. w \in Busy(worker) /\ Busy(worker') = Busy(worker) \ {w} /\ PlanSound
        BY <1>2, <2>3, <2>4
      <4>2. IsFiniteSet(Busy(worker)) /\ Cardinality(Busy(worker)) \in Nat
        BY <4>1, BusyFinite
      <4> QED BY <4>1, <4>2, FS_RemoveElement
    <3>2. PlacesSound(shared, worker, main) /\ Capacity \in Nat /\ shared.in_flight \in Int
          /\ Len(shared.free) \in Nat /\ Cardinality(Mine(main)) \in Nat
      BY <1>2, Given, MineFinite DEF PlanSound, SharedFields
    <3>3. shared'.in_flight = Cardinality(Busy(worker')) + Cardinality(DOMAIN shared'.ready)
      BY <2>9, <2>11, <3>1, <3>2 DEF PlacesSound
    <3>4. ~Serialized => shared'.in_flight <= Capacity
      BY <2>9, <3>2 DEF PlacesSound
    <3>5. Serialized => Len(shared'.free) + Cardinality(Busy(worker')) + Cardinality(DOMAIN shared'.ready)
                        + Cardinality(Mine(main)) <= Capacity
      BY <2>9, <2>11, <3>1, <3>2 DEF PlacesSound
    <3>6. main' = main
      BY <1>1
    <3> HIDE DEF q, first, e
    <3> QED BY <3>3, <3>4, <3>5, <3>6 DEF PlacesSound
  <2>16. SlotsSound(shared', worker', main')
    <3> SUFFICES ASSUME Serialized PROVE SlotsSound(shared', worker', main')
      BY DEF SlotsSound
    <3>1. /\ IsInjective(shared.free)
          /\ \A v \in Busy(worker) : /\ worker[v].slot \in 1 .. Capacity /\ worker[v].slot \notin Mine(main)
                                     /\ \A i \in DOMAIN shared.free : shared.free[i] # worker[v].slot
                                     /\ \A x \in DOMAIN shared.ready : shared.ready[x].slot # worker[v].slot
          /\ \A u, v \in Busy(worker) : worker[u].slot = worker[v].slot => u = v
          /\ \A x \in DOMAIN shared.ready :
               /\ shared.ready[x].slot \in 1 .. Capacity /\ shared.ready[x].slot \notin Mine(main)
               /\ \A i \in DOMAIN shared.free : shared.free[i] # shared.ready[x].slot
          /\ \A x, y \in DOMAIN shared.ready : shared.ready[x].slot = shared.ready[y].slot => x = y
          /\ \A i \in DOMAIN shared.free : shared.free[i] \notin Mine(main)
      BY Given DEF SlotsSound
    <3>2. /\ e.slot \in 1 .. Capacity /\ e.slot \notin Mine(main)
          /\ \A i \in DOMAIN shared.free : shared.free[i] # e.slot
          /\ \A x \in DOMAIN shared.ready : shared.ready[x].slot # e.slot
          /\ \A v \in Busy(worker') : worker'[v].slot # e.slot
      BY <2>3, <2>4, <2>7, <3>1
    <3>3. \A v \in Busy(worker') : /\ worker'[v].slot \in 1 .. Capacity /\ worker'[v].slot \notin Mine(main)
                                   /\ \A i \in DOMAIN shared.free : shared.free[i] # worker'[v].slot
                                   /\ \A x \in DOMAIN q : q[x].slot # worker'[v].slot
      BY <2>4, <2>8, <3>1, <3>2
    <3>4. \A u, v \in Busy(worker') : worker'[u].slot = worker'[v].slot => u = v
      BY <2>4, <3>1
    <3>5. \A x \in DOMAIN q :
               /\ q[x].slot \in 1 .. Capacity /\ q[x].slot \notin Mine(main)
               /\ \A i \in DOMAIN shared.free : shared.free[i] # q[x].slot
      BY <2>8, <3>1, <3>2
    <3>6. \A x, y \in DOMAIN q : q[x].slot = q[y].slot => x = y
      BY <2>8, <3>1, <3>2
    <3>7. shared'.free = shared.free /\ shared'.ready = q /\ main' = main
      BY <1>1, <2>9
    <3> QED BY <3>1, <3>3, <3>4, <3>5, <3>6, <3>7 DEF SlotsSound
  <2>17. SlotsKept(shared', worker', main')
    <3> SUFFICES ASSUME Serialized, main.pc # "caught", NEW m \in 1 .. Capacity
                 PROVE  \/ \E i \in DOMAIN shared.free : shared.free[i] = m
                        \/ \E v \in Busy(worker') : worker'[v].slot = m
                        \/ \E x \in DOMAIN q : q[x].slot = m
                        \/ m \in Mine(main)
      BY <1>1, <2>9 DEF SlotsKept
    <3>1. \/ \E i \in DOMAIN shared.free : shared.free[i] = m
          \/ \E v \in Busy(worker) : worker[v].slot = m
          \/ \E x \in DOMAIN shared.ready : shared.ready[x].slot = m
          \/ m \in Mine(main)
      BY <1>6, Given DEF SlotsKept
    <3>2. ASSUME NEW v \in Busy(worker), worker[v].slot = m
          PROVE  (\E x \in DOMAIN q : q[x].slot = m) \/ \E u \in Busy(worker') : worker'[u].slot = m
      BY <2>2, <2>4, <2>7, <2>8, <3>2
    <3> QED BY <2>8, <3>1, <3>2
  <2>18. ContentSound(shared', worker', main')
    <3>1. Serialized => \A x \in DOMAIN q : shared.slots[q[x].slot] = Chunk(x, JobEnd(x))
      <4>1. Serialized => shared.slots[e.slot] = Chunk(first, JobEnd(first))
        BY <1>1, <2>3, <2>6, <2>7, Given DEF ContentSound, first
      <4> QED BY <2>8, <4>1, Given DEF ContentSound
    <3>2. ~Serialized => \A x \in DOMAIN q : q[x].chunk = Chunk(x, JobEnd(x))
      <4>1. ~Serialized => e.chunk = Chunk(first, JobEnd(first))
        BY <1>1, <2>3, <2>6, <2>7, Given DEF ContentSound, first
      <4> QED BY <2>8, <4>1, Given DEF ContentSound
    <3>3. ContentSound(shared, worker, main) /\ main' = main
      BY <1>1, Given
    <3>4. /\ shared'.slots = shared.slots /\ shared'.ready = q
          /\ \A v \in Busy(worker') : v \in Busy(worker) /\ worker'[v] = worker[v]
      BY <2>4, <2>9
    <3> QED BY <3>1, <3>2, <3>3, <3>4 DEF ContentSound
  <2>19. PublisherSound(shared', main')
    BY <1>1, <2>9, Given DEF PublisherSound
  <2>20. SleepSound(shared', worker', main')
    <3>1. SleepSound(shared, worker, main) /\ worker[w].pc \notin {"take", "notify", "fail"} /\ main' = main
      BY <1>1, Given
    <3>2. worker'[w].pc = "notify"
      BY <1>3, <2>2
    <3> QED BY <2>2, <2>3, <2>9, <3>1, <3>2, SleepersKept
  <2>21. CourseSound(shared', worker', main', failures')
    <3>1. CourseSound(shared, worker, main, failures) /\ failures <= failures
      BY <1>2, Given
    <3>2. worker[w].pc \notin {"unborn", "exit"} /\ worker'[w].pc \notin {"unborn", "exit", "undo", "fail"}
      BY <1>1, <1>3, <2>2
    <3>3. shared'.failure = shared.failure /\ shared'.next_job = shared.next_job
      BY <2>9
    <3>4. CourseSound(shared', worker', main, failures)
      BY <1>2, <2>2, <3>1, <3>2, <3>3, CourseOfWorker
    <3> QED BY <1>1, <3>4
  <2>22. InOrder(main')
    BY <1>1, Given
  <2> QED
    BY <2>12, <2>13, <2>14, <2>15, <2>16, <2>17, <2>18, <2>19, <2>20, <2>21, <2>22 DEF StepKeeps, Sound, GoodState
<1> QED BY <1>5, <1>6

LEMMA WorkerSteps ==
  ASSUME GenerationInvariant, NEW w \in Workers, WorkerStep(w)
  PROVE  StepKeeps
PROOF
<1>1. CASE Take(w)
  BY <1>1, ExitOrSleepStep, TakeJobStep
<1>2. CASE Build(w)
  BY <1>2, BuildStep
<1>3. CASE Store(w)
  BY <1>3, StoreStep
<1>4. CASE Notify(w)
  BY <1>4, NotifyStep
<1>5. CASE Undo(w)
  BY <1>5, UndoStep
<1>6. CASE FailWorker(w)
  BY <1>6, FailWorkerStep
<1> QED BY <1>1, <1>2, <1>3, <1>4, <1>5, <1>6 DEF WorkerStep

-----------------------------------------------------------------------------
\* The caller goes from one stage to another; nothing else changes but who is asleep and the failure.
LEMMA CallerStep ==
  ASSUME GenerationInvariant, NEW p \in CallerStages, main' = [main EXCEPT !.pc = p], worker' = worker,
         shared' \in SharedFields, SamePlaces(shared, shared'), shared.failure => shared'.failure,
         failures' \in Nat,
         main.pc \notin {"publish", "release", "advance"}, p \notin {"spawn", "publish", "release", "advance"},
         p = "next" => main.pc = "spawn", main.pc = "caught" => Sequential \/ shared'.failure,
         CourseSound(shared', worker', main', failures'), SleepSound(shared', worker', main')
  PROVE  StepKeeps
PROOF
<1>1. main \in CallerFields /\ worker \in [Workers -> WorkerFields]
  BY Given
<1>2. /\ main'.pc = p /\ main'.next_publish = main.next_publish /\ main'.slot = main.slot
      /\ main'.chunk = main.chunk /\ main'.published = main.published /\ main'.reported = main.reported
  BY <1>1 DEF CallerFields
<1>3. main' \in CallerFields
  BY <1>1 DEF CallerFields
<1>4. Reach(main') = Reach(main)
  BY <1>2 DEF Reach
<1>5. Typed(shared', worker', main', failures')
  <2>1. IsFiniteSet(DOMAIN shared'.ready)
    BY Given DEF Typed, SamePlaces
  <2> QED BY <1>1, <1>3, <2>1 DEF Typed
<1>6. PublisherSound(shared', main')
  <2>1. PublisherSound(shared, main) /\ shared'.next_job = shared.next_job
    BY Given DEF SamePlaces
  <2> QED BY <1>2, <1>4, <2>1 DEF PublisherSound
<1>7. InOrder(main')
  BY <1>2, Given DEF InOrder
<1>8. {main.pc, main'.pc} \cap {"publish", "release"} = {}
  BY <1>2
<1>9. /\ JobsSound(shared', worker', main') /\ PlacesSound(shared', worker', main')
      /\ SlotsSound(shared', worker', main') /\ ContentSound(shared', worker', main')
  <2>1. /\ JobsSound(shared, worker, main) /\ PlacesSound(shared, worker, main)
        /\ SlotsSound(shared, worker, main) /\ ContentSound(shared, worker, main)
    BY Given
  <2>2. Busy(worker') = Busy(worker) /\ \A w \in Busy(worker) : worker'[w] = worker[w]
    OBVIOUS
  <2>3. main'.published = main.published
    BY <1>2
  <2> QED BY <1>8, <2>1, <2>2, <2>3, PlacesKept
<1>10. NothingSkipped(shared', worker', main') /\ SlotsKept(shared', worker', main')
  <2>1. NothingSkipped(shared, worker, main) /\ SlotsKept(shared, worker, main)
    BY Given
  <2>2. Busy(worker') = Busy(worker) /\ \A w \in Busy(worker) : worker'[w] = worker[w]
    OBVIOUS
  <2>3. main'.published = main.published
    BY <1>2
  <2>4. (\E w \in Workers : worker[w].pc = "fail") => shared'.failure \/ \E w \in Workers : worker'[w].pc = "fail"
    OBVIOUS
  <2> QED BY <1>8, <2>1, <2>2, <2>3, <2>4, NothingLost
<1> QED BY <1>5, <1>6, <1>7, <1>9, <1>10 DEF StepKeeps, Sound, GoodState

\* While the caller is not waiting in its loop, it is not asleep.
LEMMA SleepersOfWorkers ==
  ASSUME NEW s, NEW k, NEW c, NEW d, SleepSound(s, k, c), 0 \notin s.asleep, c.pc # "join",
         d.pc = "join" => s.failure
  PROVE  SleepSound(s, k, d)
PROOF
  BY DEF SleepSound

\* How far the threads have been started.
LEMMA BornInOrder ==
  ASSUME GenerationInvariant
  PROVE  /\ Cardinality(Born) \in 0 .. ThreadCount
         /\ \A w \in Workers : w \in Born <=> w <= Cardinality(Born)
         /\ Born # Workers => Cardinality(Born) + 1 \in Workers
PROOF
<1>1. PlanSound
  BY Given
<1>2. PICK n \in 0 .. ThreadCount : \A w \in Workers : worker[w].pc # "unborn" <=> w <= n
  BY Given DEF CourseSound
<1>3. n \in Nat /\ ThreadCount \in Nat /\ n <= ThreadCount
  BY <1>1, <1>2 DEF PlanSound
<1>4. Born = 1 .. n
  BY <1>2, <1>3 DEF Born, Workers
<1>5. Cardinality(1 .. n) = n
  <2>1. Cardinality(1 .. n) = IF 1 > n THEN 0 ELSE n - 1 + 1
    BY <1>3, FS_Interval
  <2> QED BY <1>3, <2>1
<1>6. Born # Workers => n < ThreadCount
  BY <1>3, <1>4 DEF Workers
<1> QED BY <1>3, <1>4, <1>5, <1>6 DEF Workers

LEMMA SpawnStep == ASSUME GenerationInvariant, Spawn PROVE StepKeeps
PROOF
<1>1. main.pc = "spawn" /\ UNCHANGED plan
  BY DEF Spawn
<1>2. /\ shared \in SharedFields /\ worker \in [Workers -> WorkerFields] /\ main \in CallerFields
      /\ PlanSound /\ failures \in Nat /\ SleepSound(shared, worker, main)
      /\ CourseSound(shared, worker, main, failures)
  BY Given
<1>3. 0 \notin shared.asleep /\ ~Sequential
  BY <1>1, <1>2 DEF SleepSound, CourseSound
<1> DEFINE m == Cardinality(Born) + 1
<1>4. /\ Cardinality(Born) \in 0 .. ThreadCount /\ Cardinality(Born) \in Nat
      /\ \A w \in Workers : w \in Born <=> w <= Cardinality(Born)
      /\ Born # Workers => m \in Workers
  BY BornInOrder
<1>5. CASE Born # Workers /\ Goes(m, "take") /\ UNCHANGED <<shared, main, failures>>
  <2> DEFINE r == [worker[m] EXCEPT !.pc = "take"]
  <2>1. m \in Workers /\ m \in Nat /\ m \notin Born
    BY <1>4, <1>5
  <2>2. worker[m].pc = "unborn"
    BY <2>1 DEF Born
  <2> HIDE DEF m
  <2>3. worker' = [worker EXCEPT ![m] = r]
    BY <1>5 DEF Goes
  <2>4. r \in WorkerFields /\ r.pc = "take"
    BY <1>2, <2>1 DEF WorkerFields, WorkerStages
  <2> HIDE DEF r
  <2>5. /\ \A v \in Workers \ {m} : worker'[v] = worker[v]
        /\ worker' \in [Workers -> WorkerFields] /\ worker'[m].pc = "take"
    BY <1>2, <2>1, <2>3, <2>4
  <2>6. Busy(worker') = Busy(worker) /\ \A v \in Busy(worker) : worker'[v] = worker[v]
    BY <2>1, <2>2, <2>5 DEF Busy
  <2>7. /\ (\E v \in Workers : worker[v].pc = "notify") => \E v \in Workers : worker'[v].pc = "notify"
        /\ (\E v \in Workers : worker[v].pc = "fail") => \E v \in Workers : worker'[v].pc = "fail"
    BY <2>1, <2>2, <2>5, OthersKeepTheirStage
  <2>8. /\ JobsSound(shared, worker', main) /\ PlacesSound(shared, worker', main)
        /\ SlotsSound(shared, worker', main) /\ ContentSound(shared, worker', main)
        /\ NothingSkipped(shared, worker', main) /\ SlotsKept(shared, worker', main)
    <3>1. SamePlaces(shared, shared)
      BY DEF SamePlaces
    <3>2. /\ JobsSound(shared, worker', main) /\ PlacesSound(shared, worker', main)
          /\ SlotsSound(shared, worker', main) /\ ContentSound(shared, worker', main)
      BY <2>6, <3>1, Given, PlacesKept
    <3>3. NothingSkipped(shared, worker', main) /\ SlotsKept(shared, worker', main)
      BY <1>1, <2>6, <2>7, <3>1, Given, NothingLost
    <3> QED BY <3>2, <3>3
  <2>9. SleepSound(shared, worker', main)
    <3>1. \A w \in shared.asleep : w = 0 \/ (w \in Workers /\ worker'[w].pc = "take")
      BY <1>2, <2>5 DEF SleepSound
    <3> QED BY <1>2, <2>7, <3>1 DEF SleepSound
  <2>10. CourseSound(shared, worker', main, failures)
    <3>1. m \in 0 .. ThreadCount
      BY <1>2, <2>1 DEF Workers, PlanSound
    <3>2. \A w \in Workers : worker'[w].pc # "unborn" <=> w <= m
      <4> SUFFICES ASSUME NEW w \in Workers PROVE worker'[w].pc # "unborn" <=> w <= m
        OBVIOUS
      <4>1. w \in Nat
        BY <1>2 DEF Workers, PlanSound
      <4>2. CASE w = m
        BY <2>1, <2>5, <4>1, <4>2
      <4>3. CASE w # m
        <5>1. worker'[w].pc # "unborn" <=> w <= Cardinality(Born)
          BY <1>4, <2>5, <4>3 DEF Born
        <5> QED BY <1>4, <4>1, <4>3, <5>1 DEF m
      <4> QED BY <4>2, <4>3
    <3>3. /\ \A w \in Workers : worker'[w].pc \in {"undo", "fail"} => worker[w].pc \in {"undo", "fail"}
          /\ \A w \in Workers : worker'[w].pc = "exit" => worker[w].pc = "exit"
      BY <2>5
    <3> QED BY <1>1, <1>2, <1>3, <3>1, <3>2, <3>3 DEF CourseSound
  <2>11. Typed(shared, worker', main, failures)
    BY <2>5, Given DEF Typed
  <2> QED BY <1>5, <2>8, <2>9, <2>10, <2>11, Given DEF StepKeeps, Sound, GoodState
<1>6. CASE Born = Workers /\ Calls("next") /\ UNCHANGED <<shared, worker, failures>>
  <2>1. main' = [main EXCEPT !.pc = "next"] /\ main'.pc = "next"
    BY <1>2, <1>6 DEF Calls, CallerFields
  <2>2. \A w \in Workers : worker[w].pc # "unborn"
    BY <1>6 DEF Born
  <2>3. CourseSound(shared', worker', main', failures')
    BY <1>2, <1>3, <1>6, <2>1, <2>2 DEF CourseSound
  <2>4. SleepSound(shared', worker', main')
    <3>1. main'.pc # "join" /\ main.pc # "join"
      BY <1>1, <2>1
    <3> QED BY <1>2, <1>3, <1>6, <3>1, SleepersOfWorkers
  <2>5. SamePlaces(shared, shared') /\ "next" \in CallerStages
    BY <1>6 DEF SamePlaces, CallerStages
  <2> QED BY <1>1, <1>2, <1>6, <2>1, <2>3, <2>4, <2>5, CallerStep
<1> DEFINE Unwinds == /\ Serialized /\ Calls(IF Born = {} THEN "thrown" ELSE "terminated") /\ UNCHANGED shared
           Rethrows == ~Serialized /\ Calls("join") /\ shared' = set_failure(shared)
<1>7. CASE Born # Workers /\ MayThrow /\ UNCHANGED worker /\ Unwinds
  <2> DEFINE p == IF Born = {} THEN "thrown" ELSE "terminated"
  <2>1. Calls(p) /\ UNCHANGED shared /\ failures' = failures + 1 /\ UNCHANGED worker
    BY <1>7 DEF MayThrow
  <2>2. p = "thrown" \/ p = "terminated"
    OBVIOUS
  <2>3. p = "thrown" => \A w \in Workers : worker[w].pc = "unborn"
    BY DEF Born
  <2> HIDE DEF p
  <2>4. main' = [main EXCEPT !.pc = p] /\ main'.pc = p
    BY <1>2, <2>1 DEF Calls, CallerFields
  <2>5. failures' \in Nat /\ failures' > 0
    BY <1>2, <2>1
  <2>6. CourseSound(shared', worker', main', failures')
    BY <1>2, <1>3, <2>1, <2>2, <2>3, <2>4, <2>5 DEF CourseSound
  <2>7. SleepSound(shared', worker', main')
    <3>1. main'.pc # "join" /\ main.pc # "join"
      BY <1>1, <2>2, <2>4
    <3> QED BY <1>2, <1>3, <2>1, <3>1, SleepersOfWorkers
  <2>8. SamePlaces(shared, shared') /\ p \in CallerStages
    BY <2>1, <2>2 DEF SamePlaces, CallerStages
  <2> QED BY <1>1, <1>2, <2>1, <2>2, <2>4, <2>5, <2>6, <2>7, <2>8, CallerStep
<1>8. CASE Born # Workers /\ MayThrow /\ UNCHANGED worker /\ Rethrows
  <2>1. Calls("join") /\ shared' = set_failure(shared) /\ failures' = failures + 1 /\ UNCHANGED worker
    BY <1>8 DEF MayThrow
  <2>2. main' = [main EXCEPT !.pc = "join"] /\ main'.pc = "join"
    BY <1>2, <2>1 DEF Calls, CallerFields
  <2>3. failures' \in Nat /\ failures' > 0
    BY <1>2, <2>1
  <2>4. /\ shared' \in SharedFields /\ SamePlaces(shared, shared') /\ shared'.failure = TRUE
        /\ SleepSound(shared', worker', main')
    BY <1>2, <2>1, AllAwake, NobodySleeps
  <2>5. CourseSound(shared', worker', main', failures')
    BY <1>2, <1>3, <2>1, <2>2, <2>3, <2>4 DEF CourseSound
  <2>6. "join" \in CallerStages
    BY DEF CallerStages
  <2> QED BY <1>1, <2>1, <2>2, <2>3, <2>4, <2>5, <2>6, CallerStep
<1>9. \/ Born # Workers /\ Goes(m, "take") /\ UNCHANGED <<shared, main, failures>>
      \/ Born = Workers /\ Calls("next") /\ UNCHANGED <<shared, worker, failures>>
      \/ Born # Workers /\ MayThrow /\ UNCHANGED worker /\ Unwinds
      \/ Born # Workers /\ MayThrow /\ UNCHANGED worker /\ Rethrows
  BY DEF Spawn
<1> QED BY <1>5, <1>6, <1>7, <1>8, <1>9

\* Everything is published once publishing has come to the end.
LEMMA AtTheEnd ==
  ASSUME GenerationInvariant, main.next_publish >= plan.end
  PROVE  main.next_publish = plan.end /\ (~Sequential => shared.next_job = plan.end)
PROOF
<1>1. PlanSound /\ main.next_publish \in Nat /\ PublisherSound(shared, main) /\ shared.next_job \in Bounds
  BY Given DEF CallerFields, JobsSound
<1>2. Reach(main) \in Nat /\ Reach(main) <= plan.end /\ shared.next_job \in Nat /\ shared.next_job <= plan.end
  BY <1>1, BoundsAreIndices DEF PublisherSound
<1> QED BY <1>1, <1>2 DEF PublisherSound, PlanSound

\* The caller takes the chunk that is next and frees its place among those in flight.
LEMMA TakeChunkStep ==
  ASSUME GenerationInvariant, main.pc = "next", ~Sequential, main.next_publish < plan.end, ~shared.failure,
         IsReady(shared), shared' = Removed(shared), UNCHANGED <<worker, failures>>,
         main' = [main EXCEPT !.pc = "publish", !.slot = shared.ready[main.next_publish].slot,
                              !.chunk = shared.ready[main.next_publish].chunk]
  PROVE  StepKeeps
PROOF
<1> DEFINE x == main.next_publish
           e == shared.ready[x]
           q == [b \in DOMAIN shared.ready \ {x} |-> shared.ready[b]]
           s == [shared EXCEPT !.in_flight = shared.in_flight - 1, !.ready = q]
<1>1. /\ shared \in SharedFields /\ worker \in [Workers -> WorkerFields] /\ main \in CallerFields
      /\ PlanSound /\ failures \in Nat
  BY Given
<1>2. x \in DOMAIN shared.ready /\ shared.ready \in ReadyMaps
  BY <1>1 DEF IsReady, SharedFields
<1>3. e \in Entries /\ x \in Nat
  BY <1>2, ReadyFacts
<1>4. /\ q \in ReadyMaps /\ DOMAIN q = DOMAIN shared.ready \ {x} /\ \A b \in DOMAIN q : q[b] = shared.ready[b]
  <2> HIDE DEF q
  <2>1. q = [b \in DOMAIN shared.ready \ {x} |-> shared.ready[b]]
    BY DEF q
  <2> HIDE DEF x
  <2> QED BY <1>2, <2>1, ReadyRemoved
<1>5. shared' = notify_all(s)
  BY DEF Removed
<1>6. e.slot \in Nat /\ e.chunk \in Chunks
  BY <1>3 DEF Entries
<1>7. /\ main' \in CallerFields /\ main'.pc = "publish" /\ main'.slot = e.slot /\ main'.chunk = e.chunk
      /\ main'.next_publish = x /\ main'.published = main.published /\ main'.reported = main.reported
  <2> HIDE DEF e
  <2>1. main' = [main EXCEPT !.pc = "publish", !.slot = e.slot, !.chunk = e.chunk]
    BY DEF e
  <2>2. main' \in CallerFields
    BY <1>1, <1>6, <2>1 DEF CallerFields, CallerStages
  <2>3. /\ main'.pc = "publish" /\ main'.slot = e.slot /\ main'.chunk = e.chunk
        /\ main'.next_publish = x /\ main'.published = main.published /\ main'.reported = main.reported
    BY <1>1, <2>1 DEF CallerFields
  <2> QED BY <2>2, <2>3
<1> HIDE DEF q
<1>8. /\ s \in SharedFields /\ s.next_job = shared.next_job /\ s.in_flight = shared.in_flight - 1
      /\ s.ready = q /\ s.free = shared.free /\ s.slots = shared.slots /\ s.failure = shared.failure
  <2>1. shared.in_flight - 1 \in Int
    BY <1>1 DEF SharedFields
  <2>2. s \in SharedFields
    BY <1>1, <1>4, <2>1 DEF SharedFields
  <2>3. /\ s.next_job = shared.next_job /\ s.in_flight = shared.in_flight - 1
        /\ s.ready = q /\ s.free = shared.free /\ s.slots = shared.slots /\ s.failure = shared.failure
    BY <1>1 DEF SharedFields
  <2> QED BY <2>2, <2>3
<1> HIDE DEF s
<1>9. /\ shared' \in SharedFields /\ SamePlaces(s, shared') /\ shared'.failure = s.failure
      /\ shared'.asleep = {}
  <2>1. s \in SharedFields
    BY <1>8
  <2>2. /\ notify_all(s) \in SharedFields /\ SamePlaces(s, notify_all(s))
        /\ notify_all(s).failure = s.failure /\ notify_all(s).asleep = {}
    BY <2>1, AllAwake
  <2> QED BY <1>5, <2>2
<1>10. /\ shared'.next_job = shared.next_job /\ shared'.in_flight = shared.in_flight - 1
       /\ shared'.ready = q /\ shared'.free = shared.free /\ shared'.slots = shared.slots
       /\ shared'.failure = FALSE
  <2>1. shared.failure = FALSE
    BY <1>1 DEF SharedFields
  <2> QED BY <1>8, <1>9, <2>1 DEF SamePlaces
<1>11. Reach(main') = Reach(main)
  BY <1>7 DEF Reach
\* Even when the caller has misread a count: a chunk is only ready from where publishing stands.
<1>12. x = Reach(main) /\ x \in Starts /\ x < shared.next_job /\ Reach(main) \in Nat
  <2>1. x \in Starts /\ x >= Reach(main) /\ x < shared.next_job
    BY <1>2, Given DEF JobsSound
  <2>2. Reach(main) \in Nat /\ x <= Reach(main)
    BY <1>1, Given, BoundsAreIndices DEF PublisherSound
  <2> QED BY <1>3, <2>1, <2>2
<1>13. Mine(main') = {e.slot} /\ Mine(main) = {}
  BY <1>7 DEF Mine
<1> HIDE DEF x, e
<1>14. Typed(shared', worker', main', failures')
  <2>1. IsFiniteSet(DOMAIN q)
    BY <1>4, Given, FS_RemoveElement DEF Typed
  <2> QED BY <1>1, <1>7, <1>9, <1>10, <2>1 DEF Typed
<1>15. PublisherSound(shared', main')
  <2>1. Serialized => e.slot \in 1 .. Capacity
    BY <1>2, Given DEF SlotsSound, e
  <2>2. PublisherSound(shared, main)
    BY Given
  <2> QED BY <1>7, <1>10, <1>11, <1>12, <2>1, <2>2 DEF PublisherSound
<1>16. InOrder(main')
  BY <1>7, Given DEF InOrder
<1>17. JobsSound(shared', worker', main')
  <2>1. JobsSound(shared, worker, main) /\ worker' = worker
    BY Given
  <2>2. \A w \in Busy(worker) : worker[w].first # Reach(main) /\ worker[w].first \notin DOMAIN q
    BY <1>2, <1>4, <1>12, <2>1 DEF JobsSound
  <2>3. \A y \in DOMAIN q : y # Reach(main) /\ y \in DOMAIN shared.ready
    BY <1>4, <1>12
  <2> QED BY <1>10, <1>11, <2>1, <2>2, <2>3 DEF JobsSound
<1>18. NothingSkipped(shared', worker', main')
  <2> SUFFICES ASSUME ~(\E w \in Workers : worker[w].pc = "fail"), NEW y \in Starts,
                      Reach(main) <= y, y < shared.next_job
               PROVE  y \in DOMAIN q \/ (\E w \in Busy(worker) : worker[w].first = y) \/ y = Reach(main)
    BY <1>7, <1>10, <1>11 DEF NothingSkipped
  <2>1. y \in DOMAIN shared.ready \/ (\E w \in Busy(worker) : worker[w].first = y)
    BY Given DEF NothingSkipped
  <2> QED BY <1>4, <1>12, <2>1
<1>19. PlacesSound(shared', worker', main')
  <2>1. /\ Cardinality(DOMAIN q) = Cardinality(DOMAIN shared.ready) - 1
        /\ Cardinality(DOMAIN shared.ready) \in Nat
    <3>1. IsFiniteSet(DOMAIN shared.ready)
      BY Given DEF Typed
    <3>2. Cardinality(DOMAIN shared.ready \ {x}) = Cardinality(DOMAIN shared.ready) - 1
      BY <1>2, <3>1, FS_RemoveElement DEF x
    <3> QED BY <1>4, <3>1, <3>2, FS_CardinalityType
  <2>2. Cardinality(Mine(main')) = 1 /\ Cardinality(Mine(main)) = 0
    <3>1. Cardinality({e.slot}) = 1
      BY FS_Singleton
    <3>2. Cardinality(Mine(main)) = 0
      BY <1>13, FS_EmptySet
    <3> QED BY <1>13, <3>1, <3>2
  <2>3. /\ PlacesSound(shared, worker, main) /\ Capacity \in Nat /\ shared.in_flight \in Int
        /\ Len(shared.free) \in Nat /\ Cardinality(Busy(worker)) \in Nat
    BY <1>1, Given, BusyFinite DEF PlanSound, SharedFields
  <2>4. shared'.in_flight = Cardinality(Busy(worker)) + Cardinality(DOMAIN shared'.ready)
    BY <1>10, <2>1, <2>3 DEF PlacesSound
  <2>5. ~Serialized => shared'.in_flight <= Capacity
    BY <1>10, <2>3 DEF PlacesSound
  <2>6. Serialized => Len(shared'.free) + Cardinality(Busy(worker)) + Cardinality(DOMAIN shared'.ready)
                      + Cardinality(Mine(main')) <= Capacity
    BY <1>10, <2>1, <2>2, <2>3 DEF PlacesSound
  <2> QED BY <2>4, <2>5, <2>6 DEF PlacesSound
<1>20. SlotsSound(shared', worker', main')
  <2> SUFFICES ASSUME Serialized PROVE SlotsSound(shared', worker', main')
    BY DEF SlotsSound
  <2>1. /\ IsInjective(shared.free)
        /\ \A v \in Busy(worker) : /\ worker[v].slot \in 1 .. Capacity
                                   /\ \A i \in DOMAIN shared.free : shared.free[i] # worker[v].slot
                                   /\ \A y \in DOMAIN shared.ready : shared.ready[y].slot # worker[v].slot
        /\ \A u, v \in Busy(worker) : worker[u].slot = worker[v].slot => u = v
        /\ \A y \in DOMAIN shared.ready :
             /\ shared.ready[y].slot \in 1 .. Capacity
             /\ \A i \in DOMAIN shared.free : shared.free[i] # shared.ready[y].slot
        /\ \A y, z \in DOMAIN shared.ready : shared.ready[y].slot = shared.ready[z].slot => y = z
    BY Given DEF SlotsSound
  <2>2. \A v \in Busy(worker) : /\ worker[v].slot \in 1 .. Capacity /\ worker[v].slot \notin {e.slot}
                                /\ \A i \in DOMAIN shared.free : shared.free[i] # worker[v].slot
                                /\ \A y \in DOMAIN q : q[y].slot # worker[v].slot
    BY <1>2, <1>4, <2>1 DEF e
  <2>3. \A y \in DOMAIN q :
             /\ q[y].slot \in 1 .. Capacity /\ q[y].slot \notin {e.slot}
             /\ \A i \in DOMAIN shared.free : shared.free[i] # q[y].slot
    BY <1>2, <1>4, <2>1 DEF e
  <2>4. \A y, z \in DOMAIN q : q[y].slot = q[z].slot => y = z
    BY <1>4, <2>1
  <2>5. \A i \in DOMAIN shared.free : shared.free[i] \notin {e.slot}
    BY <1>2, <2>1 DEF e
  <2>6. shared'.free = shared.free /\ shared'.ready = q /\ worker' = worker
    BY <1>10
  <2> QED BY <1>13, <2>1, <2>2, <2>3, <2>4, <2>5, <2>6 DEF SlotsSound
<1>21. SlotsKept(shared', worker', main')
  <2> SUFFICES ASSUME Serialized, NEW n \in 1 .. Capacity
               PROVE  \/ \E i \in DOMAIN shared.free : shared.free[i] = n
                      \/ \E w \in Busy(worker) : worker[w].slot = n
                      \/ \E y \in DOMAIN q : q[y].slot = n
                      \/ n = e.slot
    BY <1>10, <1>13 DEF SlotsKept
  <2>1. \/ \E i \in DOMAIN shared.free : shared.free[i] = n
        \/ \E w \in Busy(worker) : worker[w].slot = n
        \/ \E y \in DOMAIN shared.ready : shared.ready[y].slot = n
    BY <1>13, Given DEF SlotsKept
  <2>2. ASSUME NEW y \in DOMAIN shared.ready, shared.ready[y].slot = n
        PROVE  (\E z \in DOMAIN q : q[z].slot = n) \/ n = e.slot
    BY <1>4, <2>2 DEF e
  <2> QED BY <2>1, <2>2
<1>22. ContentSound(shared', worker', main')
  <2>1. CASE Serialized
    <3>1. shared.slots[e.slot] = Chunk(x, JobEnd(x))
      BY <1>2, <2>1, Given DEF ContentSound, e
    <3> QED BY <1>4, <1>7, <1>10, <2>1, <3>1, Given DEF ContentSound
  <2>2. CASE ~Serialized
    <3>1. e.chunk = Chunk(x, JobEnd(x))
      BY <1>2, <2>2, Given DEF ContentSound, e
    <3> QED BY <1>4, <1>7, <1>10, <2>2, <3>1, Given DEF ContentSound
  <2> QED BY <2>1, <2>2
<1>23. CourseSound(shared', worker', main', failures')
  <2>1. CourseSound(shared, worker, main, failures) /\ failures <= failures
    BY <1>1, Given
  <2>2. \A w \in Workers : worker[w].pc # "unborn"
    BY <2>1 DEF CourseSound
  <2>3. CourseSound(shared', worker, main', failures)
    BY <1>1, <1>7, <1>10, <2>1, <2>2 DEF CourseSound
  <2> QED BY <2>3
<1>24. SleepSound(shared', worker', main')
  BY <1>9, NobodySleeps
<1> QED
  BY <1>14, <1>15, <1>16, <1>17, <1>18, <1>19, <1>20, <1>21, <1>22, <1>23, <1>24 DEF StepKeeps, Sound, GoodState

LEMMA TakeReadyStep == ASSUME GenerationInvariant, TakeReady PROVE StepKeeps
PROOF
<1>1. main.pc = "next" /\ ~Sequential /\ 0 \notin shared.asleep /\ UNCHANGED <<worker, failures>>
  BY DEF TakeReady
<1>2. /\ shared \in SharedFields /\ worker \in [Workers -> WorkerFields] /\ main \in CallerFields
      /\ PlanSound /\ failures \in Nat /\ SleepSound(shared, worker, main)
      /\ CourseSound(shared, worker, main, failures) /\ failures <= failures
  BY Given
<1>3. SamePlaces(shared, shared)
  BY DEF SamePlaces
<1>4. CASE main.next_publish >= plan.end /\ Calls("final") /\ UNCHANGED shared
  <2>1. main' = [main EXCEPT !.pc = "final"] /\ main'.pc = "final" /\ main'.next_publish = main.next_publish
    BY <1>2, <1>4 DEF Calls, CallerFields
  <2>2. main.next_publish = plan.end /\ shared.next_job = plan.end
    BY <1>1, <1>4, AtTheEnd
  <2>3. CourseSound(shared, worker, main', failures)
    BY <1>1, <1>2, <2>1, <2>2 DEF CourseSound
  <2>4. SleepSound(shared, worker, main')
    <3>1. main.pc # "join" /\ main'.pc # "join"
      BY <1>1, <2>1
    <3> QED BY <1>1, <1>2, <3>1, SleepersOfWorkers
  <2>5. "final" \in CallerStages
    BY DEF CallerStages
  <2> QED BY <1>1, <1>2, <1>3, <1>4, <2>1, <2>3, <2>4, <2>5, CallerStep
<1>5. CASE /\ main.next_publish < plan.end /\ ~shared.failure /\ ~IsReady(shared)
           /\ Sleep(0) /\ UNCHANGED main
  <2>1. shared' = [shared EXCEPT !.asleep = shared.asleep \cup {0}]
    BY <1>5 DEF Sleep
  <2>2. shared.asleep \cup {0} \in SUBSET Nat
    BY <1>2 DEF SharedFields
  <2>3. /\ shared' \in SharedFields /\ SamePlaces(shared, shared') /\ shared'.failure = shared.failure
        /\ shared'.asleep = shared.asleep \cup {0}
    BY <1>2, <2>1, <2>2 DEF SharedFields, SamePlaces
  <2>4. SleepSound(shared', worker', main')
    <3>1. HasRoom(shared') <=> HasRoom(shared)
      BY <2>3 DEF HasRoom, SamePlaces
    <3>2. main.next_publish \notin DOMAIN shared.ready /\ shared'.ready = shared.ready
      BY <1>5, <2>3 DEF IsReady, SamePlaces
    <3>3. \A v \in shared'.asleep : v = 0 \/ v \in shared.asleep
      BY <2>3
    <3>4. \A v \in shared'.asleep : v = 0 \/ (v \in Workers /\ worker[v].pc = "take")
      BY <1>2, <3>3 DEF SleepSound
    <3>5. (\E v \in shared'.asleep : v # 0) => ~HasRoom(shared') \/ \E v \in Workers : worker[v].pc = "fail"
      BY <1>2, <3>1, <3>3 DEF SleepSound
    <3> QED BY <1>1, <1>5, <2>3, <3>2, <3>4, <3>5 DEF SleepSound
  <2>5. /\ JobsSound(shared', worker, main) /\ PlacesSound(shared', worker, main)
        /\ SlotsSound(shared', worker, main) /\ ContentSound(shared', worker, main)
    BY <2>3, Given, PlacesKept
  <2>6. NothingSkipped(shared', worker, main) /\ SlotsKept(shared', worker, main)
    BY <2>3, Given, NothingLost
  <2>7. PublisherSound(shared', main)
    BY <2>3, Given DEF PublisherSound, SamePlaces
  <2>8. shared'.next_job = shared.next_job /\ shared'.ready = shared.ready
    BY <2>3 DEF SamePlaces
  <2>9. CourseSound(shared', worker, main, failures)
    BY <1>2, <2>3, <2>8 DEF CourseSound
  <2>10. Typed(shared', worker, main, failures)
    BY <1>2, <2>3, <2>8, Given DEF Typed
  <2> QED BY <1>1, <1>5, <2>4, <2>5, <2>6, <2>7, <2>9, <2>10, Given DEF StepKeeps, Sound, GoodState
<1>6. CASE main.next_publish < plan.end /\ shared.failure /\ Calls("caught") /\ UNCHANGED shared
  <2>1. main' = [main EXCEPT !.pc = "caught"] /\ main'.pc = "caught"
    BY <1>2, <1>6 DEF Calls, CallerFields
  <2>2. failures > 0
    BY <1>2, <1>6 DEF CourseSound
  <2>3. CourseSound(shared, worker, main', failures)
    BY <1>1, <1>2, <2>1, <2>2 DEF CourseSound
  <2>4. SleepSound(shared, worker, main')
    <3>1. main.pc # "join" /\ main'.pc # "join"
      BY <1>1, <2>1
    <3> QED BY <1>1, <1>2, <3>1, SleepersOfWorkers
  <2>5. "caught" \in CallerStages
    BY DEF CallerStages
  <2> QED BY <1>1, <1>2, <1>3, <1>6, <2>1, <2>3, <2>4, <2>5, CallerStep
<1>7. CASE /\ main.next_publish < plan.end /\ ~shared.failure /\ IsReady(shared) /\ shared' = Removed(shared)
           /\ main' = [main EXCEPT !.pc = "publish", !.slot = shared.ready[main.next_publish].slot,
                                   !.chunk = shared.ready[main.next_publish].chunk]
  BY <1>1, <1>7, TakeChunkStep
<1> QED BY <1>4, <1>5, <1>6, <1>7 DEF TakeReady

\* One chunk more is published.
LEMMA AppendedLast ==
  ASSUME NEW u \in Seq(Chunks), NEW d \in Chunks
  PROVE  Append(u, d) # <<>> /\ Append(u, d)[Len(Append(u, d))] = d
PROOF
<1>1. Append(u, d) # <<>>
  BY AppendProperties, Zenon
<1>2. Len(Append(u, d)) = Len(u) + 1 /\ Append(u, d)[Len(u) + 1] = d
  OBVIOUS
<1> QED BY <1>1, <1>2

LEMMA PublishedMore ==
  ASSUME NEW c, NEW e, NEW x \in Nat, NEW y \in Nat, NEW d \in Chunks, x = Reach(c), InOrder(c),
         c.published \in Seq(Chunks), e.published = Append(c.published, d),
         d.begin = x, d.count = y - x, d.count = Len(d.tables),
         d.tables = Tables(d.begin, d.begin + d.count)
  PROVE  Reach(e) = y /\ InOrder(e)
PROOF
<1> DEFINE u == c.published
           n == Len(u)
           t == Append(u, d)
<1>1. Reach(e) = y
  <2>1. u \in Seq(Chunks) /\ e.published = Append(u, d)
    OBVIOUS
  <2> HIDE DEF u
  <2>2. Append(u, d) # <<>> /\ Append(u, d)[Len(Append(u, d))] = d
    BY <2>1, AppendedLast
  <2>3. e.published # <<>> /\ e.published[Len(e.published)] = d
    BY <2>1, <2>2, Zenon
  <2>4. d.begin + d.count = y
    OBVIOUS
  <2> QED BY <2>3, <2>4 DEF Reach
<1>2. n \in Nat /\ Len(Append(u, d)) = n + 1 /\ Append(u, d)[n + 1] = d
      /\ \A i \in 1 .. n : Append(u, d)[i] = u[i]
  OBVIOUS
<1>3. DOMAIN u = 1 .. n /\ DOMAIN Append(u, d) = 1 .. n + 1
  BY <1>2
<1>4. d.begin = IF n = 0 THEN plan.begin ELSE u[n].begin + u[n].count
  <2>1. u = <<>> <=> n = 0
    OBVIOUS
  <2>2. Reach(c) = IF n = 0 THEN plan.begin ELSE u[n].begin + u[n].count
    BY <2>1 DEF Reach
  <2> QED BY <2>2
<1>5. \A i \in 1 .. n + 1 :
        /\ t[i].begin = IF i = 1 THEN plan.begin ELSE t[i - 1].begin + t[i - 1].count
        /\ t[i].count = Len(t[i].tables) /\ t[i].tables = Tables(t[i].begin, t[i].begin + t[i].count)
  <2> SUFFICES ASSUME NEW i \in 1 .. n + 1
               PROVE  /\ t[i].begin = IF i = 1 THEN plan.begin ELSE t[i - 1].begin + t[i - 1].count
                      /\ t[i].count = Len(t[i].tables)
                      /\ t[i].tables = Tables(t[i].begin, t[i].begin + t[i].count)
    OBVIOUS
  <2>1. i # 1 => i - 1 \in 1 .. n /\ t[i - 1] = u[i - 1]
    <3>1. n \in Nat /\ \A j \in 1 .. n : t[j] = u[j]
      BY <1>2
    <3> HIDE DEF t, n, u
    <3> QED BY <3>1
  <2>2. CASE i = n + 1
    <3>1. t[i] = d
      BY <1>2, <2>2
    <3>2. i = 1 <=> n = 0
      BY <1>2, <2>2
    <3>3. i # 1 => i - 1 = n
      BY <1>2, <2>2
    <3> HIDE DEF t, n
    <3> QED BY <1>4, <2>1, <3>1, <3>2, <3>3
  <2>3. CASE i \in 1 .. n
    <3>1. t[i] = u[i] /\ i \in DOMAIN u
      BY <1>2, <1>3, <2>3
    <3>2. /\ u[i].begin = IF i = 1 THEN plan.begin ELSE u[i - 1].begin + u[i - 1].count
          /\ u[i].count = Len(u[i].tables) /\ u[i].tables = Tables(u[i].begin, u[i].begin + u[i].count)
      BY <3>1 DEF InOrder
    <3> HIDE DEF t, n
    <3> QED BY <2>1, <3>1, <3>2
  <2>4. n \in Nat
    BY <1>2
  <2> HIDE DEF t, n, u
  <2> QED BY <2>2, <2>3, <2>4
<1>6. DOMAIN e.published = 1 .. n + 1 /\ e.published = t
  BY <1>3
<1> HIDE DEF t, n
<1> QED BY <1>1, <1>5, <1>6 DEF InOrder

\* The caller hands the chunk on; or the callback throws, and the chunk is dropped.
LEMMA PublishStep == ASSUME GenerationInvariant, Publish PROVE StepKeeps
PROOF
<1> DEFINE x == main.next_publish
           d == Chunk(x, JobEnd(x))
<1>1. main.pc = "publish" /\ UNCHANGED <<shared, worker>>
  BY DEF Publish
<1>2. /\ shared \in SharedFields /\ worker \in [Workers -> WorkerFields] /\ main \in CallerFields
      /\ PlanSound /\ failures \in Nat /\ PublisherSound(shared, main)
  BY Given
<1>3. /\ x = Reach(main) /\ x \in Starts /\ x < shared.next_job /\ x \in Nat
      /\ shared.next_job \in Bounds /\ JobEnd(x) \in Nat /\ JobEnd(x) \in Bounds /\ x < JobEnd(x)
  <2>1. x = Reach(main) /\ x \in Starts /\ x < shared.next_job /\ shared.next_job \in Bounds /\ x \in Nat
    BY <1>1, <1>2, Given DEF PublisherSound, JobsSound, CallerFields
  <2> HIDE DEF x
  <2>2. JobEnd(x) \in Bounds /\ x < JobEnd(x)
    BY <1>2, <2>1, NextBound
  <2> QED BY <1>2, <2>1, <2>2, BoundsAreIndices
<1>4. JobEnd(x) <= shared.next_job
  <2> HIDE DEF x
  <2>1. x \in Bounds
    BY <1>2, <1>3, BoundsAreIndices
  <2> QED BY <1>2, <1>3, <2>1, BoundsApart
<1>5. /\ d \in Chunks /\ d.begin = x /\ d.count = JobEnd(x) - x /\ d.count = Len(d.tables)
      /\ d.tables = Tables(d.begin, d.begin + d.count)
  <2> HIDE DEF x
  <2>1. x \in Nat /\ JobEnd(x) \in Nat /\ x <= JobEnd(x)
    BY <1>3
  <2> QED BY <2>1, ChunkFacts
<1>6. ~Sequential
  BY <1>1, Given DEF CourseSound
<1>7. InHand = d
  BY <1>1, Given DEF ContentSound, InHand
<1> HIDE DEF d
<1>8. 0 \notin shared.asleep
  BY <1>1, Given DEF SleepSound
<1>9. CASE /\ main' = [main EXCEPT !.pc = IF Serialized THEN "release" ELSE "advance", !.published = Append(main.published, InHand)]
           /\ UNCHANGED failures
  <2> DEFINE p == IF Serialized THEN "release" ELSE "advance"
  <2>1. p \in CallerStages /\ (p = "release" <=> Serialized) /\ (p = "advance" <=> ~Serialized)
    BY DEF CallerStages
  <2>2. main.published \in Seq(Chunks)
    BY <1>2 DEF CallerFields
  <2>3. Append(main.published, d) \in Seq(Chunks)
    BY <1>5, <2>2
  <2>4. main' = [main EXCEPT !.pc = p, !.published = Append(main.published, d)]
    BY <1>7, <1>9
  <2> HIDE DEF p
  <2>5. main' \in CallerFields
    BY <1>2, <2>1, <2>3, <2>4 DEF CallerFields
  <2>6. /\ main'.pc = p /\ main'.next_publish = x /\ main'.slot = main.slot /\ main'.chunk = main.chunk
        /\ main'.published = Append(main.published, d) /\ main'.reported = main.reported
    BY <1>2, <2>4 DEF CallerFields
  <2>7. Reach(main') = JobEnd(x) /\ InOrder(main')
    <3> DEFINE y == JobEnd(x)
    <3>1. InOrder(main) /\ main'.published = Append(main.published, d)
      BY <2>6, Given
    <3>2. d \in Chunks /\ d.begin = x /\ d.count = y - x /\ d.count = Len(d.tables)
          /\ d.tables = Tables(d.begin, d.begin + d.count)
      BY <1>5
    <3>3. x \in Nat /\ y \in Nat /\ x = Reach(main)
      BY <1>3
    <3> HIDE DEF x, y
    <3>4. Reach(main') = y /\ InOrder(main')
      BY <2>2, <3>1, <3>2, <3>3, PublishedMore
    <3> QED BY <3>4 DEF y
  <2>8. InOrder(main')
    BY <2>7
  <2>9. Mine(main') = IF Serialized THEN Mine(main) ELSE {}
    BY <1>1, <2>1, <2>6 DEF Mine
  <2>10. PublisherSound(shared, main')
    <3>1. Serialized => main.slot \in 1 .. Capacity
      BY <1>1, <1>2 DEF PublisherSound
    <3>2. JobEnd(x) >= plan.begin /\ plan.begin <= x
      <4> HIDE DEF x
      <4> QED BY <1>2, <1>3, BoundsAreIndices
    <3> HIDE DEF x
    <3>3. x <= JobEnd(x)
      BY <1>3
    <3> QED BY <1>3, <1>4, <2>1, <2>6, <2>7, <3>1, <3>2, <3>3 DEF PublisherSound
  <2>11. JobsSound(shared, worker, main')
    <3>1. JobsSound(shared, worker, main)
      BY Given
    <3> HIDE DEF x
    <3>2. ASSUME NEW y \in Starts, y >= Reach(main), y # Reach(main)
          PROVE  y >= JobEnd(x)
      <4>1. y \in Bounds /\ x \in Bounds /\ y \in Nat
        BY <1>2, <1>3, BoundsAreIndices
      <4>2. x < y
        BY <1>3, <3>2, <4>1
      <4>3. JobEnd(x) <= y
        BY <1>2, <4>1, <4>2, BoundsApart
      <4> QED BY <1>3, <4>1, <4>3
    <3>3. \A w \in Busy(worker) : worker[w].first >= JobEnd(x)
      BY <1>1, <3>1, <3>2 DEF JobsSound
    <3>4. \A y \in DOMAIN shared.ready : y >= JobEnd(x)
      BY <1>1, <3>1, <3>2 DEF JobsSound
    <3>5. main'.pc # "publish"
      BY <2>1, <2>6
    <3> QED BY <2>7, <3>1, <3>3, <3>4, <3>5 DEF JobsSound
  <2>12. NothingSkipped(shared, worker, main')
    <3> HIDE DEF x
    <3> SUFFICES ASSUME ~shared.failure, ~(\E w \in Workers : worker[w].pc = "fail"), NEW y \in Starts,
                        JobEnd(x) <= y, y < shared.next_job
                 PROVE  y \in DOMAIN shared.ready \/ (\E w \in Busy(worker) : worker[w].first = y)
      BY <2>7 DEF NothingSkipped
    <3>1. y \in Nat
      BY <1>2, BoundsAreIndices
    <3>2. Reach(main) <= y /\ y # Reach(main)
      BY <1>3, <3>1
    <3> QED BY <1>1, <1>6, <3>2, Given DEF NothingSkipped
  <2>13. /\ PlacesSound(shared, worker, main') /\ SlotsSound(shared, worker, main')
         /\ SlotsKept(shared, worker, main')
    <3>1. PlacesSound(shared, worker, main')
      BY <2>9, Given DEF PlacesSound
    <3>2. SlotsSound(shared, worker, main')
      BY <2>9, Given DEF SlotsSound
    <3>3. SlotsKept(shared, worker, main')
      BY <1>1, <2>1, <2>6, <2>9, Given DEF SlotsKept
    <3> QED BY <3>1, <3>2, <3>3
  <2>14. ContentSound(shared, worker, main')
    BY <1>1, <2>1, <2>6, Given DEF ContentSound
  <2>15. CourseSound(shared, worker, main', failures)
    <3>1. main'.pc \in {"release", "advance"}
      BY <2>1, <2>6
    <3>2. CourseSound(shared, worker, main, failures)
      BY Given
    <3> QED BY <1>1, <1>6, <3>1, <3>2 DEF CourseSound
  <2>16. SleepSound(shared, worker, main')
    <3>1. main.pc # "join" /\ main'.pc # "join" /\ SleepSound(shared, worker, main)
      BY <1>1, <2>1, <2>6, Given
    <3> QED BY <1>8, <3>1, SleepersOfWorkers
  <2>17. Typed(shared, worker, main', failures)
    BY <2>5, Given DEF Typed
  <2> QED
    BY <1>1, <1>9, <2>8, <2>10, <2>11, <2>12, <2>13, <2>14, <2>15, <2>16, <2>17 DEF StepKeeps, Sound, GoodState
<1>10. CASE failures' = failures + 1 /\ Calls("caught")
  <2>1. main' = [main EXCEPT !.pc = "caught"]
    BY <1>10 DEF Calls
  <2>2. main' \in CallerFields
    BY <1>2, <2>1 DEF CallerFields, CallerStages
  <2>3. /\ main'.pc = "caught" /\ main'.next_publish = x /\ main'.slot = main.slot /\ main'.chunk = main.chunk
        /\ main'.published = main.published /\ main'.reported = main.reported
    BY <1>2, <2>1 DEF CallerFields
  <2>4. Reach(main') = Reach(main) /\ Mine(main') = {} /\ InOrder(main')
    BY <2>3, Given DEF Reach, Mine, InOrder
  <2>5. PublisherSound(shared, main')
    BY <1>2, <1>3, <2>3, <2>4 DEF PublisherSound
  <2>6. JobsSound(shared, worker, main')
    BY <2>3, <2>4, Given DEF JobsSound
  <2>7. NothingSkipped(shared, worker, main') /\ SlotsKept(shared, worker, main')
    BY <2>3 DEF NothingSkipped, SlotsKept
  <2>8. PlacesSound(shared, worker, main')
    <3>1. /\ PlacesSound(shared, worker, main) /\ Capacity \in Nat /\ shared.in_flight \in Int
          /\ Len(shared.free) \in Nat /\ Cardinality(Busy(worker)) \in Nat
          /\ Cardinality(DOMAIN shared.ready) \in Nat
      BY <1>2, Given, BusyFinite, FS_CardinalityType DEF PlanSound, SharedFields, Typed
    <3>2. Cardinality(Mine(main')) = 0 /\ Cardinality(Mine(main)) \in Nat
      BY <2>4, FS_EmptySet, MineFinite
    <3> QED BY <3>1, <3>2 DEF PlacesSound
  <2>9. SlotsSound(shared, worker, main')
    BY <2>4, Given DEF SlotsSound
  <2>10. ContentSound(shared, worker, main')
    BY <2>3, Given DEF ContentSound
  <2>11. failures' \in Nat /\ failures' > 0
    BY <1>2, <1>10
  <2>12. CourseSound(shared, worker, main', failures')
    <3>1. CourseSound(shared, worker, main, failures)
      BY Given
    <3> QED BY <1>1, <1>6, <2>3, <2>11, <3>1 DEF CourseSound
  <2>13. SleepSound(shared, worker, main')
    <3>1. main.pc # "join" /\ main'.pc # "join" /\ SleepSound(shared, worker, main)
      BY <1>1, <2>3, Given
    <3> QED BY <1>8, <3>1, SleepersOfWorkers
  <2>14. Typed(shared, worker, main', failures')
    BY <2>2, <2>11, Given DEF Typed
  <2> QED
    BY <1>1, <2>4, <2>5, <2>6, <2>7, <2>8, <2>9, <2>10, <2>12, <2>13, <2>14 DEF StepKeeps, Sound, GoodState
<1> QED BY <1>9, <1>10 DEF Publish, MayThrow

\* The slot goes back, with its count still in it.
LEMMA ReleaseStep == ASSUME GenerationInvariant, Release PROVE StepKeeps
PROOF
<1> DEFINE x == main.next_publish
           n == main.slot
           free == Append(shared.free, n)
           emptied == [shared.slots[n] EXCEPT !.tables = <<>>]
           slots == [shared.slots EXCEPT ![n] = emptied]
           s == [shared EXCEPT !.free = free, !.slots = slots]
<1>1. main.pc = "release" /\ shared' = Freed(shared) /\ Calls("advance") /\ UNCHANGED <<worker, failures>>
  BY DEF Release
<1>2. /\ shared \in SharedFields /\ worker \in [Workers -> WorkerFields] /\ main \in CallerFields
      /\ PlanSound /\ failures \in Nat /\ PublisherSound(shared, main)
  BY Given
<1>3. Serialized
  BY <1>1, Given DEF ContentSound
<1>4. /\ n \in 1 .. Capacity /\ shared.free \in Seq(1 .. Capacity) /\ Len(shared.free) \in Nat
      /\ shared.slots \in [1 .. Capacity -> Chunks] /\ shared.slots[n] \in Chunks
  <2>1. n \in 1 .. Capacity
    BY <1>1, <1>2, <1>3 DEF PublisherSound
  <2>2. shared.free \in Seq(1 .. Capacity) /\ shared.slots \in [1 .. Capacity -> Chunks]
    BY <1>2 DEF SharedFields
  <2> HIDE DEF n
  <2>3. shared.slots[n] \in Chunks
    BY <2>1, <2>2
  <2>4. Len(shared.free) \in Nat
    BY <2>2
  <2> QED BY <2>1, <2>2, <2>3, <2>4
<1>5. /\ Len(free) = Len(shared.free) + 1 /\ Len(free) \in DOMAIN free /\ free[Len(free)] = n
      /\ free \in Seq(1 .. Capacity)
      /\ \A i \in DOMAIN free : i \in DOMAIN shared.free \/ i = Len(free)
      /\ \A i \in DOMAIN shared.free : i \in DOMAIN free /\ free[i] = shared.free[i] /\ i # Len(free)
  <2> HIDE DEF n
  <2> QED BY <1>4
<1>6. emptied \in Chunks /\ emptied.count = shared.slots[n].count
  <2> DEFINE h == shared.slots[n]
  <2>1. h \in Chunks /\ <<>> \in Seq(Nat)
    BY <1>4
  <2>2. emptied = [h EXCEPT !.tables = <<>>]
    OBVIOUS
  <2> HIDE DEF h, emptied
  <2>3. emptied \in Chunks /\ emptied.count = h.count
    BY <2>1, <2>2 DEF Chunks
  <2> QED BY <2>3 DEF h
<1> HIDE DEF emptied
<1>7. /\ slots \in [1 .. Capacity -> Chunks] /\ slots[n] = emptied
      /\ \A m \in 1 .. Capacity : m # n => slots[m] = shared.slots[m]
  BY <1>4, <1>6
<1> HIDE DEF free, slots
<1>8. shared' = notify_all(s)
  <2>1. [shared EXCEPT !.free = Append(@, main.slot), !.slots[main.slot].tables = <<>>] = s
    BY <1>2 DEF SharedFields, s, free, slots, emptied
  <2> QED BY <1>1, <2>1 DEF Freed
<1>9. /\ s \in SharedFields /\ s.next_job = shared.next_job /\ s.in_flight = shared.in_flight
      /\ s.ready = shared.ready /\ s.free = free /\ s.slots = slots /\ s.failure = shared.failure
  <2>1. s \in SharedFields
    BY <1>2, <1>5, <1>7 DEF SharedFields
  <2>2. /\ s.next_job = shared.next_job /\ s.in_flight = shared.in_flight
        /\ s.ready = shared.ready /\ s.free = free /\ s.slots = slots /\ s.failure = shared.failure
    BY <1>2 DEF SharedFields
  <2> QED BY <2>1, <2>2
<1> HIDE DEF s
<1>10. /\ shared' \in SharedFields /\ SamePlaces(s, shared') /\ shared'.failure = s.failure
       /\ shared'.asleep = {}
  BY <1>8, <1>9, AllAwake
<1>11. /\ shared'.next_job = shared.next_job /\ shared'.in_flight = shared.in_flight
       /\ shared'.ready = shared.ready /\ shared'.free = free /\ shared'.slots = slots
       /\ shared'.failure = shared.failure
  BY <1>9, <1>10 DEF SamePlaces
<1>12. /\ main' \in CallerFields /\ main'.pc = "advance" /\ main'.next_publish = x /\ main'.slot = n
       /\ main'.chunk = main.chunk /\ main'.published = main.published /\ main'.reported = main.reported
  <2>1. main' = [main EXCEPT !.pc = "advance"]
    BY <1>1 DEF Calls
  <2> QED BY <1>2, <2>1 DEF CallerFields, CallerStages
<1>13. Reach(main') = Reach(main) /\ Mine(main') = {} /\ Mine(main) = {n}
  BY <1>1, <1>12 DEF Reach, Mine
<1>14. x \in Starts /\ Reach(main) = JobEnd(x) /\ x \in Nat /\ JobEnd(x) \in Nat /\ x <= JobEnd(x)
  <2>1. x \in Starts /\ Reach(main) = JobEnd(x)
    BY <1>1, <1>2 DEF PublisherSound
  <2> HIDE DEF x
  <2>2. x \in Nat /\ JobEnd(x) \in Bounds /\ x < JobEnd(x)
    BY <1>2, <2>1, NextBound, BoundsAreIndices
  <2>3. JobEnd(x) \in Nat
    BY <1>2, <2>2, BoundsAreIndices
  <2> QED BY <2>1, <2>2, <2>3
<1>15. slots[n].count = JobEnd(x) - x
  <2>1. shared.slots[n] = Chunk(x, JobEnd(x))
    BY <1>1, <1>3, Given DEF ContentSound
  <2> HIDE DEF x
  <2>2. Chunk(x, JobEnd(x)).count = JobEnd(x) - x
    BY <1>14, ChunkFacts
  <2> QED BY <1>6, <1>7, <2>1, <2>2
<1>16. PublisherSound(shared', main')
  <2> HIDE DEF x, n
  <2>1. x + slots[n].count = Reach(main)
    BY <1>14, <1>15
  <2>2. PublisherSound(shared, main) /\ Reach(main) \in Nat
    BY <1>2, <1>14
  <2> QED BY <1>1, <1>4, <1>11, <1>12, <1>13, <1>14, <2>1, <2>2 DEF PublisherSound, x
<1>17. InOrder(main')
  BY <1>12, Given DEF InOrder
<1>18. JobsSound(shared', worker', main')
  BY <1>1, <1>11, <1>12, <1>13, Given DEF JobsSound
<1>19. NothingSkipped(shared', worker', main')
  BY <1>1, <1>11, <1>12, <1>13, Given DEF NothingSkipped
<1>20. PlacesSound(shared', worker', main')
  <2>1. /\ PlacesSound(shared, worker, main) /\ Capacity \in Nat
        /\ Cardinality(Busy(worker)) \in Nat /\ Cardinality(DOMAIN shared.ready) \in Nat
    BY <1>2, Given, BusyFinite, FS_CardinalityType DEF PlanSound, Typed
  <2>2. Cardinality(Mine(main')) = 0
    BY <1>13, FS_EmptySet
  <2>3. Cardinality(Mine(main)) = 1
    <3>1. Cardinality({n}) = 1
      BY FS_Singleton
    <3> QED BY <1>13, <3>1
  <2>4. Len(shared.free) + Cardinality(Busy(worker)) + Cardinality(DOMAIN shared.ready) + 1 <= Capacity
    BY <1>3, <2>1, <2>3 DEF PlacesSound
  <2>5. Len(shared'.free) + Cardinality(Busy(worker')) + Cardinality(DOMAIN shared'.ready)
        + Cardinality(Mine(main')) <= Capacity
    <3>1. /\ Len(shared'.free) = Len(shared.free) + 1 /\ Len(shared.free) \in Nat
          /\ Busy(worker') = Busy(worker) /\ DOMAIN shared'.ready = DOMAIN shared.ready
      BY <1>1, <1>4, <1>5, <1>11
    <3> HIDE DEF x, n, slots
    <3> QED BY <2>1, <2>2, <2>4, <3>1
  <2> QED BY <1>1, <1>3, <1>11, <2>1, <2>5 DEF PlacesSound
<1>21. SlotsSound(shared', worker', main')
  <2>1. /\ IsInjective(shared.free)
        /\ \A v \in Busy(worker) : /\ worker[v].slot \in 1 .. Capacity /\ worker[v].slot # n
                                   /\ \A i \in DOMAIN shared.free : shared.free[i] # worker[v].slot
                                   /\ \A y \in DOMAIN shared.ready : shared.ready[y].slot # worker[v].slot
        /\ \A u, v \in Busy(worker) : worker[u].slot = worker[v].slot => u = v
        /\ \A y \in DOMAIN shared.ready :
             /\ shared.ready[y].slot \in 1 .. Capacity /\ shared.ready[y].slot # n
             /\ \A i \in DOMAIN shared.free : shared.free[i] # shared.ready[y].slot
        /\ \A y, z \in DOMAIN shared.ready : shared.ready[y].slot = shared.ready[z].slot => y = z
        /\ \A i \in DOMAIN shared.free : shared.free[i] # n
    BY <1>3, <1>13, Given DEF SlotsSound
  <2> HIDE DEF n
  <2>2. IsInjective(free)
    BY <1>5, <2>1 DEF IsInjective
  <2>3. \A v \in Busy(worker) : /\ worker[v].slot \in 1 .. Capacity /\ worker[v].slot \notin Mine(main')
                                /\ \A i \in DOMAIN free : free[i] # worker[v].slot
                                /\ \A y \in DOMAIN shared.ready : shared.ready[y].slot # worker[v].slot
    BY <1>5, <1>13, <2>1
  <2>4. \A y \in DOMAIN shared.ready :
             /\ shared.ready[y].slot \in 1 .. Capacity /\ shared.ready[y].slot \notin Mine(main')
             /\ \A i \in DOMAIN free : free[i] # shared.ready[y].slot
    BY <1>5, <1>13, <2>1
  <2>5. \A i \in DOMAIN free : free[i] \notin Mine(main')
    BY <1>13
  <2>6. shared'.free = free /\ shared'.ready = shared.ready /\ worker' = worker
    BY <1>1, <1>11
  <2> QED BY <2>1, <2>2, <2>3, <2>4, <2>5, <2>6 DEF SlotsSound
<1>22. SlotsKept(shared', worker', main')
  <2> SUFFICES ASSUME ~shared.failure, NEW m \in 1 .. Capacity
               PROVE  \/ \E i \in DOMAIN free : free[i] = m
                      \/ \E w \in Busy(worker) : worker[w].slot = m
                      \/ \E y \in DOMAIN shared.ready : shared.ready[y].slot = m
    BY <1>1, <1>11 DEF SlotsKept
  <2>1. \/ \E i \in DOMAIN shared.free : shared.free[i] = m
        \/ \E w \in Busy(worker) : worker[w].slot = m
        \/ \E y \in DOMAIN shared.ready : shared.ready[y].slot = m
        \/ m = n
    BY <1>1, <1>3, <1>13, Given DEF SlotsKept
  <2> HIDE DEF n
  <2> QED BY <1>5, <2>1
<1>23. ContentSound(shared', worker', main')
  <2>1. /\ \A v \in Busy(worker) : worker[v].slot \in 1 .. Capacity /\ worker[v].slot # n
        /\ \A y \in DOMAIN shared.ready : shared.ready[y].slot \in 1 .. Capacity /\ shared.ready[y].slot # n
    BY <1>3, <1>13, Given DEF SlotsSound
  <2>2. \A v \in Busy(worker) : worker[v].pc = "store" =>
          slots[worker[v].slot] = Chunk(worker[v].first, worker[v].last)
    BY <1>3, <1>7, <2>1, Given DEF ContentSound
  <2>3. \A y \in DOMAIN shared.ready : slots[shared.ready[y].slot] = Chunk(y, JobEnd(y))
    BY <1>3, <1>7, <2>1, Given DEF ContentSound
  <2> QED BY <1>1, <1>3, <1>11, <1>12, <2>2, <2>3 DEF ContentSound
<1>24. CourseSound(shared', worker', main', failures')
  <2>1. CourseSound(shared, worker, main, failures)
    BY Given
  <2> QED BY <1>1, <1>11, <1>12, <2>1 DEF CourseSound
<1>25. SleepSound(shared', worker', main')
  BY <1>10, NobodySleeps
<1>26. Typed(shared', worker', main', failures')
  BY <1>1, <1>10, <1>11, <1>12, Given DEF Typed
<1> QED
  BY <1>16, <1>17, <1>18, <1>19, <1>20, <1>21, <1>22, <1>23, <1>24, <1>25, <1>26 DEF StepKeeps, Sound, GoodState

\* The caller goes on behind its chunk, by the count that it finds.
LEMMA AdvanceStep == ASSUME GenerationInvariant, Advance PROVE StepKeeps
PROOF
<1> DEFINE x == main.next_publish
           y == Advanced(x)
<1>1. /\ main.pc = "advance" /\ main' = [main EXCEPT !.pc = "report", !.next_publish = y]
      /\ UNCHANGED <<shared, worker, failures>>
  BY DEF Advance
<1>2. /\ shared \in SharedFields /\ worker \in [Workers -> WorkerFields] /\ main \in CallerFields
      /\ PlanSound /\ failures \in Nat /\ PublisherSound(shared, main)
  BY Given
<1>3. /\ x \in Nat /\ x >= plan.begin /\ Reach(main) = JobEnd(x) /\ x \in Starts /\ x <= JobEnd(x)
      /\ JobEnd(x) \in Nat /\ (~Sequential => Reach(main) <= shared.next_job) /\ Reach(main) \in Bounds
  <2>1. /\ x \in Nat /\ x >= plan.begin /\ Reach(main) = JobEnd(x) /\ x \in Starts
        /\ x <= Reach(main) /\ (~Sequential => Reach(main) <= shared.next_job) /\ Reach(main) \in Bounds
    BY <1>1, <1>2 DEF PublisherSound, CallerFields
  <2> HIDE DEF x
  <2> QED BY <1>2, <2>1, BoundsAreIndices
<1>4. /\ y \in Nat /\ y >= plan.begin /\ y <= Reach(main)
      /\ y = Reach(main) \/ (Serialized /\ ~WholeChunks)
  <2>1. CASE Serialized
    <3>1. y = x + shared.slots[main.slot].count
      BY <2>1 DEF Advanced
    <3>2. /\ main.slot \in 1 .. Capacity /\ x + shared.slots[main.slot].count <= Reach(main)
          /\ WholeChunks => x + shared.slots[main.slot].count = Reach(main)
      BY <1>1, <1>2, <2>1 DEF PublisherSound
    <3>3. shared.slots[main.slot].count \in Nat
      BY <1>2, <3>2 DEF SharedFields, Chunks
    <3> HIDE DEF x, y
    <3> QED BY <1>2, <1>3, <2>1, <3>1, <3>2, <3>3 DEF PlanSound
  <2>2. CASE ~Serialized
    <3>1. y = JobEnd(x)
      BY <2>2 DEF Advanced, JobEnd
    <3> HIDE DEF x, y
    <3> QED BY <1>2, <1>3, <3>1 DEF PlanSound
  <2> QED BY <2>1, <2>2
<1> HIDE DEF x, y
<1>5. main' \in CallerFields
  BY <1>1, <1>2, <1>4 DEF CallerFields, CallerStages
<1>6. /\ main'.pc = "report" /\ main'.next_publish = y /\ main'.slot = main.slot
      /\ main'.chunk = main.chunk /\ main'.published = main.published /\ main'.reported = main.reported
  BY <1>1, <1>2 DEF CallerFields
<1>7. Reach(main') = Reach(main)
  BY <1>6 DEF Reach
<1>8. PublisherSound(shared, main')
  BY <1>3, <1>4, <1>6, <1>7 DEF PublisherSound
<1>9. SamePlaces(shared, shared) /\ {main.pc, main'.pc} \cap {"publish", "release"} = {}
  BY <1>1, <1>6 DEF SamePlaces
<1>10. /\ JobsSound(shared, worker, main') /\ PlacesSound(shared, worker, main')
       /\ SlotsSound(shared, worker, main') /\ ContentSound(shared, worker, main')
  BY <1>6, <1>9, Given, PlacesKept
<1>11. NothingSkipped(shared, worker, main') /\ SlotsKept(shared, worker, main')
  <2>1. NothingSkipped(shared, worker, main) /\ SlotsKept(shared, worker, main)
    BY Given
  <2>2. main.pc # "caught" /\ main'.published = main.published
    BY <1>1, <1>6
  <2> QED BY <1>9, <2>1, <2>2, NothingLost
<1>12. InOrder(main')
  BY <1>6, Given DEF InOrder
<1>13. CourseSound(shared, worker, main', failures)
  <2>1. CourseSound(shared, worker, main, failures)
    BY Given
  <2> QED BY <1>1, <1>6, <2>1 DEF CourseSound
<1>14. SleepSound(shared, worker, main')
  <2>1. main.pc # "join" /\ main'.pc # "join" /\ SleepSound(shared, worker, main)
    BY <1>1, <1>6, Given
  <2>2. 0 \notin shared.asleep
    BY <1>1, <2>1 DEF SleepSound
  <2> QED BY <2>1, <2>2, SleepersOfWorkers
<1>15. Typed(shared, worker, main', failures)
  BY <1>5, Given DEF Typed
<1> QED
  BY <1>1, <1>8, <1>10, <1>11, <1>12, <1>13, <1>14, <1>15 DEF StepKeeps, Sound, GoodState

\* The progress callback is told how far publishing is, or throws.
LEMMA ReportStep == ASSUME GenerationInvariant, Report PROVE StepKeeps
PROOF
<1>1. main.pc = "report" /\ UNCHANGED <<shared, worker>>
  BY DEF Report
<1>2. /\ shared \in SharedFields /\ worker \in [Workers -> WorkerFields] /\ main \in CallerFields
      /\ PlanSound /\ failures \in Nat /\ PublisherSound(shared, main)
      /\ CourseSound(shared, worker, main, failures) /\ SleepSound(shared, worker, main)
  BY Given
<1>3. SamePlaces(shared, shared) /\ 0 \notin shared.asleep
  BY <1>1, <1>2 DEF SamePlaces, SleepSound
<1>4. CASE /\ main' = [main EXCEPT !.pc = "next", !.reported = main.next_publish - plan.begin]
           /\ UNCHANGED failures
  <2>1. main.next_publish - plan.begin \in Int
    BY <1>2 DEF CallerFields, PlanSound
  <2>2. main' \in CallerFields
    BY <1>2, <1>4, <2>1 DEF CallerFields, CallerStages
  <2>3. /\ main'.pc = "next" /\ main'.next_publish = main.next_publish /\ main'.slot = main.slot
        /\ main'.chunk = main.chunk /\ main'.published = main.published
        /\ main'.reported = main.next_publish - plan.begin
    BY <1>2, <1>4 DEF CallerFields
  <2>4. Reach(main') = Reach(main)
    BY <2>3 DEF Reach
  <2>5. PublisherSound(shared, main')
    BY <1>1, <1>2, <2>3, <2>4 DEF PublisherSound
  <2>6. {main.pc, main'.pc} \cap {"publish", "release"} = {}
    BY <1>1, <2>3
  <2>7. /\ JobsSound(shared, worker, main') /\ PlacesSound(shared, worker, main')
        /\ SlotsSound(shared, worker, main') /\ ContentSound(shared, worker, main')
    BY <1>3, <2>3, <2>6, Given, PlacesKept
  <2>8. NothingSkipped(shared, worker, main') /\ SlotsKept(shared, worker, main')
    BY <1>1, <1>3, <2>3, <2>6, Given, NothingLost
  <2>9. InOrder(main')
    BY <2>3, Given DEF InOrder
  <2>10. CourseSound(shared, worker, main', failures)
    BY <1>1, <1>2, <2>3 DEF CourseSound
  <2>11. SleepSound(shared, worker, main')
    <3>1. main.pc # "join" /\ main'.pc # "join"
      BY <1>1, <2>3
    <3> QED BY <1>2, <1>3, <3>1, SleepersOfWorkers
  <2>12. Typed(shared, worker, main', failures)
    BY <2>2, Given DEF Typed
  <2> QED
    BY <1>1, <1>4, <2>5, <2>7, <2>8, <2>9, <2>10, <2>11, <2>12 DEF StepKeeps, Sound, GoodState
<1>5. CASE failures' = failures + 1 /\ Calls("caught")
  <2>1. main' = [main EXCEPT !.pc = "caught"] /\ main'.pc = "caught"
    BY <1>2, <1>5 DEF Calls, CallerFields
  <2>2. failures' \in Nat /\ failures' > 0
    BY <1>2, <1>5
  <2>3. CourseSound(shared, worker, main', failures')
    BY <1>1, <1>2, <2>1, <2>2 DEF CourseSound
  <2>4. SleepSound(shared, worker, main')
    <3>1. main.pc # "join" /\ main'.pc # "join"
      BY <1>1, <2>1
    <3> QED BY <1>2, <1>3, <3>1, SleepersOfWorkers
  <2>5. "caught" \in CallerStages
    BY DEF CallerStages
  <2> QED BY <1>1, <1>2, <1>3, <2>1, <2>2, <2>3, <2>4, <2>5, CallerStep
<1> QED BY <1>4, <1>5 DEF Report, MayThrow

\* One thread alone: build and publish, or stop.
LEMMA BuildAloneStep == ASSUME GenerationInvariant, BuildAlone PROVE StepKeeps
PROOF
<1> DEFINE x == main.next_publish
           d == Chunk(x, JobEnd(x))
<1>1. main.pc = "next" /\ Sequential /\ UNCHANGED <<shared, worker>> /\ ~Serialized
  BY DEF BuildAlone, Sequential
<1>2. /\ shared \in SharedFields /\ worker \in [Workers -> WorkerFields] /\ main \in CallerFields
      /\ PlanSound /\ failures \in Nat /\ PublisherSound(shared, main)
      /\ CourseSound(shared, worker, main, failures) /\ SleepSound(shared, worker, main)
  BY Given
<1>3. /\ \A w \in Workers : worker[w].pc = "unborn"
      /\ DOMAIN shared.ready = {} /\ Busy(worker) = {} /\ ~shared.failure
  BY <1>1, <1>2 DEF CourseSound, Busy
<1>4. SamePlaces(shared, shared) /\ 0 \notin shared.asleep
  BY <1>1, <1>2 DEF SamePlaces, SleepSound
<1>5. CASE main.next_publish >= plan.end /\ Calls("done") /\ UNCHANGED failures
  <2>1. /\ main' = [main EXCEPT !.pc = "done"] /\ main'.pc = "done"
        /\ main'.next_publish = main.next_publish
    BY <1>2, <1>5 DEF Calls, CallerFields
  <2>2. main.next_publish = plan.end
    BY <1>5, AtTheEnd
  <2>3. CourseSound(shared, worker, main', failures)
    BY <1>1, <1>2, <1>3, <2>1, <2>2 DEF CourseSound
  <2>4. SleepSound(shared, worker, main')
    <3>1. main.pc # "join" /\ main'.pc # "join"
      BY <1>1, <2>1
    <3> QED BY <1>2, <1>4, <3>1, SleepersOfWorkers
  <2>5. "done" \in CallerStages
    BY DEF CallerStages
  <2> QED BY <1>1, <1>2, <1>4, <1>5, <2>1, <2>3, <2>4, <2>5, CallerStep
<1>6. CASE /\ main.next_publish < plan.end /\ UNCHANGED failures
           /\ main' = [main EXCEPT !.pc = "report", !.published = Append(main.published, Chunk(main.next_publish, JobEnd(main.next_publish))),
                                   !.next_publish = JobEnd(main.next_publish)]
  <2>1. x = Reach(main) /\ x \in Bounds /\ x < plan.end
    BY <1>1, <1>2, <1>6 DEF PublisherSound
  <2>2. x \in Nat /\ plan.begin <= x /\ x \in Starts /\ JobEnd(x) \in Nat /\ JobEnd(x) \in Bounds /\ x <= JobEnd(x)
    <3> HIDE DEF x
    <3>1. x \in Nat /\ plan.begin <= x /\ x \in Starts
      BY <1>2, <2>1, BoundsAreIndices
    <3>2. JobEnd(x) \in Bounds /\ x < JobEnd(x)
      BY <1>2, <3>1, NextBound
    <3> QED BY <1>2, <3>1, <3>2, BoundsAreIndices
  <2>3. /\ d \in Chunks /\ d.begin = x /\ d.count = JobEnd(x) - x /\ d.count = Len(d.tables)
        /\ d.tables = Tables(d.begin, d.begin + d.count)
    <3> HIDE DEF x
    <3> QED BY <2>2, ChunkFacts
  <2>4. main.published \in Seq(Chunks)
    BY <1>2 DEF CallerFields
  <2>5. main' = [main EXCEPT !.pc = "report", !.published = Append(main.published, d), !.next_publish = JobEnd(x)]
    BY <1>6
  <2> HIDE DEF x, d
  <2>6. Append(main.published, d) \in Seq(Chunks)
    BY <2>3, <2>4
  <2>7. main' \in CallerFields
    BY <1>2, <2>2, <2>5, <2>6 DEF CallerFields, CallerStages
  <2>8. /\ main'.pc = "report" /\ main'.next_publish = JobEnd(x)
        /\ main'.published = Append(main.published, d) /\ main'.reported = main.reported
    BY <1>2, <2>5 DEF CallerFields
  <2>9. Reach(main') = JobEnd(x) /\ InOrder(main')
    BY <2>1, <2>2, <2>3, <2>4, <2>8, Given, PublishedMore
  <2>10. PublisherSound(shared, main')
    <3>1. JobEnd(x) >= plan.begin
      BY <1>2, <2>2 DEF PlanSound
    <3>2. JobEnd(x) <= JobEnd(x)
      BY <2>2
    <3> QED BY <1>1, <2>2, <2>8, <2>9, <3>1, <3>2 DEF PublisherSound
  <2>11. JobsSound(shared, worker, main') /\ NothingSkipped(shared, worker, main')
    BY <1>1, <1>3, Given DEF JobsSound, NothingSkipped
  <2>12. /\ PlacesSound(shared, worker, main') /\ SlotsSound(shared, worker, main')
         /\ SlotsKept(shared, worker, main')
    BY <1>1, Given DEF PlacesSound, SlotsSound, SlotsKept
  <2>13. ContentSound(shared, worker, main')
    BY <1>1, <2>8, Given DEF ContentSound
  <2>14. CourseSound(shared, worker, main', failures)
    BY <1>1, <1>2, <2>8 DEF CourseSound
  <2>15. SleepSound(shared, worker, main')
    <3>1. main.pc # "join" /\ main'.pc # "join"
      BY <1>1, <2>8
    <3> QED BY <1>2, <1>4, <3>1, SleepersOfWorkers
  <2>16. Typed(shared, worker, main', failures)
    BY <2>7, Given DEF Typed
  <2> QED
    BY <1>1, <1>6, <2>9, <2>10, <2>11, <2>12, <2>13, <2>14, <2>15, <2>16 DEF StepKeeps, Sound, GoodState
<1>7. CASE failures' = failures + 1 /\ Calls("thrown")
  <2>1. main' = [main EXCEPT !.pc = "thrown"] /\ main'.pc = "thrown"
    BY <1>2, <1>7 DEF Calls, CallerFields
  <2>2. failures' \in Nat /\ failures' > 0
    BY <1>2, <1>7
  <2>3. CourseSound(shared, worker, main', failures')
    BY <1>1, <1>2, <1>3, <2>1, <2>2 DEF CourseSound
  <2>4. SleepSound(shared, worker, main')
    <3>1. main.pc # "join" /\ main'.pc # "join"
      BY <1>1, <2>1
    <3> QED BY <1>2, <1>4, <3>1, SleepersOfWorkers
  <2>5. "thrown" \in CallerStages
    BY DEF CallerStages
  <2> QED BY <1>1, <1>2, <1>4, <2>1, <2>2, <2>3, <2>4, <2>5, CallerStep
<1> QED BY <1>5, <1>6, <1>7 DEF BuildAlone, MayThrow

LEMMA CaughtStep == ASSUME GenerationInvariant, Caught PROVE StepKeeps
PROOF
<1>1. main.pc = "caught" /\ UNCHANGED <<worker, failures>>
  BY DEF Caught
<1>2. /\ shared \in SharedFields /\ main \in CallerFields /\ failures \in Nat
      /\ CourseSound(shared, worker, main, failures) /\ SleepSound(shared, worker, main)
  BY Given
<1>3. CASE Sequential /\ Calls("thrown") /\ UNCHANGED shared
  <2>1. main' = [main EXCEPT !.pc = "thrown"] /\ main'.pc = "thrown"
    BY <1>2, <1>3 DEF Calls, CallerFields
  <2>2. CourseSound(shared, worker, main', failures)
    BY <1>1, <1>2, <1>3, <2>1 DEF CourseSound
  <2>3. SleepSound(shared, worker, main')
    <3>1. main.pc # "join" /\ main'.pc # "join" /\ 0 \notin shared.asleep
      BY <1>1, <1>2, <2>1 DEF SleepSound
    <3> QED BY <1>2, <3>1, SleepersOfWorkers
  <2>4. SamePlaces(shared, shared) /\ "thrown" \in CallerStages
    BY DEF SamePlaces, CallerStages
  <2> QED BY <1>1, <1>2, <1>3, <2>1, <2>2, <2>3, <2>4, CallerStep
<1>4. CASE ~Sequential /\ Calls("final") /\ shared' = set_failure(shared)
  <2>1. main' = [main EXCEPT !.pc = "final"] /\ main'.pc = "final"
    BY <1>2, <1>4 DEF Calls, CallerFields
  <2>2. /\ shared' \in SharedFields /\ SamePlaces(shared, shared') /\ shared'.failure = TRUE
        /\ SleepSound(shared', worker', main')
    BY <1>2, <1>4, AllAwake, NobodySleeps
  <2>3. shared'.next_job = shared.next_job
    BY <2>2 DEF SamePlaces
  <2>4. CourseSound(shared', worker, main', failures)
    BY <1>1, <1>2, <1>4, <2>1, <2>2, <2>3 DEF CourseSound
  <2>5. "final" \in CallerStages
    BY DEF CallerStages
  <2> QED BY <1>1, <1>2, <2>1, <2>2, <2>4, <2>5, CallerStep
<1> QED BY <1>3, <1>4 DEF Caught

LEMMA FinalStep == ASSUME GenerationInvariant, Final PROVE StepKeeps
PROOF
<1>1. main.pc = "final" /\ shared' = notify_all(shared) /\ Calls("join") /\ UNCHANGED <<worker, failures>>
  BY DEF Final
<1>2. /\ shared \in SharedFields /\ main \in CallerFields /\ failures \in Nat
      /\ CourseSound(shared, worker, main, failures)
  BY Given
<1>3. main' = [main EXCEPT !.pc = "join"] /\ main'.pc = "join" /\ main'.next_publish = main.next_publish
  BY <1>1, <1>2 DEF Calls, CallerFields
<1>4. /\ shared' \in SharedFields /\ SamePlaces(shared, shared') /\ shared'.failure = shared.failure
      /\ SleepSound(shared', worker', main')
  BY <1>1, <1>2, AllAwake, NobodySleeps
<1>5. shared'.next_job = shared.next_job
  BY <1>4 DEF SamePlaces
<1>6. CourseSound(shared', worker, main', failures)
  BY <1>1, <1>2, <1>3, <1>4, <1>5 DEF CourseSound
<1>7. "join" \in CallerStages
  BY DEF CallerStages
<1> QED BY <1>1, <1>2, <1>3, <1>4, <1>6, <1>7, CallerStep

LEMMA JoinStep == ASSUME GenerationInvariant, Join PROVE StepKeeps
PROOF
<1> DEFINE p == IF shared.failure THEN "thrown" ELSE "done"
<1>1. /\ main.pc = "join" /\ Calls(p) /\ UNCHANGED <<shared, worker, failures>>
      /\ \A w \in Workers : worker[w].pc \in {"exit", "unborn"}
  BY DEF Join, Born
<1>2. /\ shared \in SharedFields /\ main \in CallerFields /\ failures \in Nat
      /\ CourseSound(shared, worker, main, failures) /\ SleepSound(shared, worker, main)
  BY Given
<1>3. (p = "thrown" /\ shared.failure) \/ (p = "done" /\ ~shared.failure)
  OBVIOUS
<1> HIDE DEF p
<1>4. main' = [main EXCEPT !.pc = p] /\ main'.pc = p /\ main'.next_publish = main.next_publish
  BY <1>1, <1>2 DEF Calls, CallerFields
<1>5. CourseSound(shared, worker, main', failures)
  BY <1>1, <1>2, <1>3, <1>4 DEF CourseSound
<1>6. SleepSound(shared, worker, main')
  <2>1. shared.asleep = {}
    BY <1>1, <1>2 DEF SleepSound
  <2> QED BY <2>1, NobodySleeps
<1>7. SamePlaces(shared, shared) /\ p \in CallerStages
  BY <1>3 DEF SamePlaces, CallerStages
<1> QED BY <1>1, <1>2, <1>3, <1>4, <1>5, <1>6, <1>7, CallerStep

LEMMA EveryStep == ASSUME GenerationInvariant, GenerationNext PROVE StepKeeps
PROOF
<1>1. CASE \E w \in Workers : WorkerStep(w)
  BY <1>1, WorkerSteps
<1>2. CASE MainStep
  BY <1>2, SpawnStep, TakeReadyStep, PublishStep, ReleaseStep, AdvanceStep, ReportStep, BuildAloneStep,
     CaughtStep, FinalStep, JoinStep DEF MainStep
<1> QED BY <1>1, <1>2 DEF GenerationNext

LEMMA GenerationBegins ==
  ASSUME PlansValid, GenerationInit
  PROVE  GenerationInvariant
PROOF
<1> DEFINE identity == [i \in 1 .. Capacity |-> i]
           none == [i \in 1 .. Capacity |-> NoChunk]
           start == IF Sequential THEN "next" ELSE "spawn"
<1>1. /\ plan \in Plans /\ failures = 0 /\ worker = [w \in Workers |-> AtRest]
      /\ shared = [next_job |-> plan.begin, in_flight |-> 0, ready |-> <<>>, failure |-> FALSE,
                   free |-> identity, slots |-> none, asleep |-> {}]
      /\ main = [pc |-> start, next_publish |-> plan.begin, slot |-> 0, chunk |-> NoChunk,
                 published |-> <<>>, reported |-> 0]
  BY DEF GenerationInit
<1>2. PlanSound
  BY <1>1, PlanFacts
<1>3. plan.begin \in Nat /\ plan.begin <= plan.end /\ plan.begin \in Bounds /\ Capacity \in Nat \ {0}
      /\ ThreadCount \in Nat \ {0}
  BY <1>2, BeginIsBound DEF PlanSound
<1>4. /\ identity \in Seq(1 .. Capacity) /\ Len(identity) = Capacity /\ DOMAIN identity = 1 .. Capacity
      /\ \A i \in 1 .. Capacity : identity[i] = i
  BY <1>3
<1>5. none \in [1 .. Capacity -> Chunks] /\ NoChunk \in Chunks
  BY NoChunkIsChunk
<1>6. start \in CallerStages /\ (start = "next" \/ start = "spawn") /\ (start = "next" <=> Sequential)
  BY DEF CallerStages
<1> HIDE DEF identity, none, start
<1>7. /\ shared.next_job = plan.begin /\ shared.in_flight = 0 /\ shared.ready = <<>> /\ shared.failure = FALSE
      /\ shared.free = identity /\ shared.slots = none /\ shared.asleep = {}
  BY <1>1
<1>8. /\ main.pc = start /\ main.next_publish = plan.begin /\ main.published = <<>> /\ main.reported = 0
  BY <1>1
<1>9. <<>> \in ReadyMaps /\ DOMAIN <<>> = {}
  BY NoneReady
<1>10. shared \in SharedFields
  BY <1>1, <1>3, <1>4, <1>5, <1>9 DEF SharedFields
<1>11. AtRest \in WorkerFields /\ AtRest.pc = "unborn"
  BY <1>5 DEF AtRest, WorkerFields, WorkerStages
<1>12. worker \in [Workers -> WorkerFields] /\ \A w \in Workers : worker[w].pc = "unborn"
  BY <1>1, <1>11
<1>13. main \in CallerFields
  BY <1>1, <1>3, <1>5, <1>6 DEF CallerFields
<1>14. Busy(worker) = {} /\ Mine(main) = {} /\ Reach(main) = plan.begin
  BY <1>6, <1>8, <1>12 DEF Busy, Mine, Reach
<1>15. Cardinality({}) = 0 /\ IsFiniteSet({})
  BY FS_EmptySet
<1>16. Typed(shared, worker, main, failures)
  BY <1>1, <1>7, <1>9, <1>10, <1>12, <1>13, <1>15 DEF Typed
<1>17. PublisherSound(shared, main)
  BY <1>3, <1>6, <1>7, <1>8, <1>14 DEF PublisherSound
<1>18. InOrder(main)
  BY <1>8 DEF InOrder
<1>19. JobsSound(shared, worker, main)
  BY <1>3, <1>7, <1>9, <1>14 DEF JobsSound
<1>20. NothingSkipped(shared, worker, main)
  <2>1. \A x \in Starts : x \in Nat
    BY <1>2, BoundsAreIndices
  <2> QED BY <1>3, <1>7, <1>14, <2>1 DEF NothingSkipped
<1>21. PlacesSound(shared, worker, main)
  BY <1>3, <1>4, <1>7, <1>9, <1>14, <1>15 DEF PlacesSound
<1>22. SlotsSound(shared, worker, main)
  BY <1>4, <1>7, <1>9, <1>14 DEF SlotsSound, IsInjective
<1>23. SlotsKept(shared, worker, main)
  BY <1>4, <1>7 DEF SlotsKept
<1>24. ContentSound(shared, worker, main)
  BY <1>6, <1>7, <1>8, <1>9, <1>14 DEF ContentSound
<1>25. CourseSound(shared, worker, main, failures)
  <2>1. 0 \in 0 .. ThreadCount /\ \A w \in Workers : worker[w].pc # "unborn" <=> w <= 0
    BY <1>3, <1>12 DEF Workers
  <2> QED BY <1>1, <1>6, <1>7, <1>8, <1>9, <1>12, <2>1 DEF CourseSound
<1>26. SleepSound(shared, worker, main)
  BY <1>7, NobodySleeps
<1> QED
  BY <1>2, <1>16, <1>17, <1>18, <1>19, <1>20, <1>21, <1>22, <1>23, <1>24, <1>25, <1>26
     DEF GenerationInvariant, Sound, GoodState

\* The plan of a call does not change.
LEMMA PlanStays == ASSUME GenerationNext PROVE UNCHANGED plan
PROOF
  BY DEF GenerationNext, WorkerStep, Take, Build, Store, Notify, Undo, FailWorker, MainStep, Spawn, TakeReady,
         Publish, Release, Advance, Report, BuildAlone, Caught, Final, Join

LEMMA InvariantStays ==
  ASSUME GenerationInvariant, [GenerationNext]_generationVars
  PROVE  GenerationInvariant'
PROOF
<1>1. plan' = plan
  BY PlanStays DEF generationVars
<1>2. StepKeeps
  <2>1. CASE GenerationNext
    BY <2>1, EveryStep
  <2>2. CASE UNCHANGED generationVars
    BY <2>2 DEF generationVars, GenerationInvariant, StepKeeps
  <2> QED BY <2>1, <2>2
<1>3. /\ Workers' = Workers /\ Capacity' = Capacity /\ ThreadCount' = ThreadCount
      /\ Serialized' = Serialized /\ Sequential' = Sequential /\ WholeChunks' = WholeChunks
      /\ Starts' = Starts /\ Bounds' = Bounds /\ PlanSound' = PlanSound
  BY <1>1 DEF Workers, Capacity, ThreadCount, Serialized, Sequential, WholeChunks, Starts, Bounds, PlanSound
<1>4. SharedFields' = SharedFields /\ WorkerFields' = WorkerFields /\ CallerFields' = CallerFields
  BY <1>3 DEF SharedFields, WorkerFields, CallerFields
<1>5. Typed(shared, worker, main, failures)' <=> Typed(shared', worker', main', failures')
  BY <1>3, <1>4 DEF Typed
<1>6. PublisherSound(shared, main)' <=> PublisherSound(shared', main')
  BY <1>1, <1>3 DEF PublisherSound, Reach, JobEnd
<1>7. InOrder(main)' <=> InOrder(main')
  BY <1>1 DEF InOrder, Tables
<1>8. JobsSound(shared, worker, main)' <=> JobsSound(shared', worker', main')
  BY <1>1, <1>3 DEF JobsSound, Busy, Reach, JobEnd
<1>9. NothingSkipped(shared, worker, main)' <=> NothingSkipped(shared', worker', main')
  BY <1>1, <1>3 DEF NothingSkipped, Busy, Reach
<1>10. PlacesSound(shared, worker, main)' <=> PlacesSound(shared', worker', main')
  BY <1>3 DEF PlacesSound, Busy, Mine
<1>11. SlotsSound(shared, worker, main)' <=> SlotsSound(shared', worker', main')
  BY <1>3 DEF SlotsSound, Busy, Mine
<1>12. SlotsKept(shared, worker, main)' <=> SlotsKept(shared', worker', main')
  BY <1>3 DEF SlotsKept, Busy, Mine
<1>13. ContentSound(shared, worker, main)' <=> ContentSound(shared', worker', main')
  BY <1>1, <1>3 DEF ContentSound, Busy, Chunk, Tables, JobEnd
<1>14. CourseSound(shared, worker, main, failures)' <=> CourseSound(shared', worker', main', failures')
  BY <1>1, <1>3 DEF CourseSound
<1>15. SleepSound(shared, worker, main)' <=> SleepSound(shared', worker', main')
  BY <1>1, <1>3 DEF SleepSound, HasRoom
<1>16. PlanSound'
  BY <1>3 DEF GenerationInvariant
<1> QED
  BY <1>2, <1>5, <1>6, <1>7, <1>8, <1>9, <1>10, <1>11, <1>12, <1>13, <1>14, <1>15, <1>16
     DEF GenerationInvariant, StepKeeps, Sound, GoodState

-----------------------------------------------------------------------------
\* Not everyone waits.  When the caller and all workers were asleep or gone, the chunk that is next
\* would be nobody's, so it would not have been handed out, and there would be room for it.
LEMMA SomeoneIsAwake ==
  ASSUME GenerationInvariant, ~Misread
  PROVE  NeverStuck
PROOF
<1>1. /\ shared \in SharedFields /\ worker \in [Workers -> WorkerFields] /\ main \in CallerFields /\ PlanSound
      /\ PublisherSound(shared, main) /\ JobsSound(shared, worker, main) /\ NothingSkipped(shared, worker, main)
      /\ PlacesSound(shared, worker, main) /\ SlotsKept(shared, worker, main)
      /\ CourseSound(shared, worker, main, failures) /\ SleepSound(shared, worker, main)
  BY Given
<1>2. CASE main.pc = "next" /\ 0 \in shared.asleep
  <2> SUFFICES ASSUME \A w \in Workers : worker[w].pc \in {"unborn", "exit"} \/ w \in shared.asleep
               PROVE  FALSE
    BY DEF NeverStuck
  <2>1. /\ ~Sequential /\ main.next_publish < plan.end /\ ~shared.failure
        /\ main.next_publish \notin DOMAIN shared.ready \/ \E w \in Workers : worker[w].pc = "notify"
    BY <1>1, <1>2 DEF SleepSound
  <2>2. \A w \in Workers : worker[w].pc = "exit" \/ (w \in shared.asleep /\ worker[w].pc = "take")
    <3>1. \A w \in Workers : worker[w].pc # "unborn" /\ w # 0
      BY <1>1, <1>2, <2>1 DEF CourseSound, Workers, PlanSound
    <3> QED BY <1>1, <3>1 DEF SleepSound
  <2>3. Busy(worker) = {} /\ ~(\E w \in Workers : worker[w].pc \in {"notify", "fail"})
    BY <2>2 DEF Busy
  <2>4. main.next_publish \notin DOMAIN shared.ready
    BY <2>1, <2>3
  <2>5. main.next_publish = Reach(main) /\ Reach(main) \in Starts /\ Reach(main) \in Nat
        /\ Reach(main) <= shared.next_job
    <3>1. UpTo = Reach(main)
      BY DEF UpTo, Reach, Last
    <3>2. main.next_publish = Reach(main)
      BY <1>2, <3>1 DEF Misread
    <3> QED BY <1>1, <2>1, <3>2, BoundsAreIndices DEF PublisherSound
  <2>6. shared.next_job \in Nat /\ shared.next_job = Reach(main)
    <3>1. shared.next_job \in Nat
      BY <1>1, BoundsAreIndices DEF JobsSound
    <3>2. ~(Reach(main) < shared.next_job)
      BY <1>1, <1>2, <2>1, <2>3, <2>4, <2>5 DEF NothingSkipped
    <3> QED BY <2>5, <3>1, <3>2
  <2>7. shared.next_job # plan.end
    BY <1>1, <2>1, <2>5, <2>6 DEF PlanSound
  <2>8. 1 \in Workers /\ worker[1].pc = "take" /\ 1 \in shared.asleep
    <3>1. 1 \in Workers
      BY <1>1 DEF Workers, PlanSound
    <3> QED BY <1>1, <2>1, <2>2, <2>7, <3>1 DEF CourseSound
  <2>9. ~HasRoom(shared)
    BY <1>1, <2>3, <2>8 DEF SleepSound
  <2>10. DOMAIN shared.ready = {}
    <3>1. \A x \in DOMAIN shared.ready : x >= Reach(main) /\ x < shared.next_job /\ x \in Starts
      BY <1>1 DEF JobsSound
    <3>2. \A x \in DOMAIN shared.ready : x \in Nat
      BY <1>1, <3>1, BoundsAreIndices
    <3> QED BY <2>6, <3>1, <3>2
  <2>11. CASE Serialized
    <3>1. 1 \in 1 .. Capacity
      BY <1>1 DEF PlanSound
    <3>2. \E i \in DOMAIN shared.free : shared.free[i] = 1
      BY <1>1, <1>2, <2>1, <2>3, <2>10, <2>11, <3>1 DEF SlotsKept, Mine
    <3>3. shared.free # <<>>
      BY <3>2
    <3> QED BY <2>9, <2>11, <3>3 DEF HasRoom
  <2>12. CASE ~Serialized
    <3>1. shared.in_flight = 0
      BY <1>1, <2>3, <2>10, FS_EmptySet DEF PlacesSound
    <3> QED BY <1>1, <2>9, <2>12, <3>1 DEF HasRoom, PlanSound
  <2> QED BY <2>11, <2>12
<1>3. CASE main.pc = "join"
  <2>1. shared.asleep = {}
    BY <1>1, <1>3 DEF SleepSound
  <2> QED BY <1>3, <2>1 DEF NeverStuck, Born
<1> QED BY <1>2, <1>3 DEF NeverStuck

LEMMA SlotsCovered ==
  ASSUME GenerationInvariant, Serialized
  PROVE  LET with == [w \in Holding |-> worker[w].slot]
             waiting == [b \in DOMAIN shared.ready |-> shared.ready[b].slot]
             mine == IF main.pc \in {"publish", "release"} THEN {main.slot} ELSE {}
         IN /\ IsInjective(shared.free)
            /\ (ToSet(shared.free) \cup {with[w] : w \in Holding} \cup {waiting[b] : b \in DOMAIN waiting} \cup mine)
                 = 1 .. Capacity
                 \/ shared.failure \/ main.pc = "caught"
            /\ Len(shared.free) + Cardinality(Holding) + Cardinality(DOMAIN waiting) + Cardinality(mine) <= Capacity
PROOF
<1> DEFINE with == [w \in Holding |-> worker[w].slot]
           waiting == [b \in DOMAIN shared.ready |-> shared.ready[b].slot]
           mine == IF main.pc \in {"publish", "release"} THEN {main.slot} ELSE {}
           all == ToSet(shared.free) \cup {with[w] : w \in Holding} \cup {waiting[b] : b \in DOMAIN waiting} \cup mine
<1>1. /\ shared \in SharedFields /\ main \in CallerFields /\ SlotsSound(shared, worker, main)
      /\ SlotsKept(shared, worker, main) /\ PlacesSound(shared, worker, main) /\ PublisherSound(shared, main)
  BY Given
<1>2. Holding = Busy(worker) /\ mine = Mine(main) /\ DOMAIN waiting = DOMAIN shared.ready
  BY DEF Holding, Busy, Mine
<1>3. IsInjective(shared.free)
  BY <1>1 DEF SlotsSound
<1>4. Len(shared.free) + Cardinality(Holding) + Cardinality(DOMAIN waiting) + Cardinality(mine) <= Capacity
  <2> HIDE DEF waiting, mine
  <2> QED BY <1>1, <1>2 DEF PlacesSound
<1>5. ToSet(shared.free) = {shared.free[i] : i \in DOMAIN shared.free}
  BY DEF ToSet
<1>6. all \subseteq 1 .. Capacity
  <2>1. \A i \in DOMAIN shared.free : shared.free[i] \in 1 .. Capacity
    <3>1. shared.free \in Seq(1 .. Capacity)
      BY <1>1 DEF SharedFields
    <3>2. DOMAIN shared.free = 1 .. Len(shared.free) /\ Len(shared.free) \in Nat
      BY <3>1
    <3>3. \A i \in 1 .. Len(shared.free) : shared.free[i] \in 1 .. Capacity
      BY <3>1, ElementOfSeq
    <3> QED BY <3>2, <3>3
  <2>2. \A w \in Holding : with[w] \in 1 .. Capacity
    BY <1>1, <1>2 DEF SlotsSound
  <2>3. \A b \in DOMAIN waiting : waiting[b] \in 1 .. Capacity
    BY <1>1 DEF SlotsSound
  <2>4. mine \subseteq 1 .. Capacity
    BY <1>1 DEF PublisherSound
  <2> HIDE DEF with, waiting, mine
  <2> QED BY <1>5, <2>1, <2>2, <2>3, <2>4
<1>7. ASSUME ~shared.failure, main.pc # "caught", NEW n \in 1 .. Capacity
      PROVE  n \in all
  <2>1. \/ \E i \in DOMAIN shared.free : shared.free[i] = n
        \/ \E w \in Busy(worker) : worker[w].slot = n
        \/ \E x \in DOMAIN shared.ready : shared.ready[x].slot = n
        \/ n \in Mine(main)
    BY <1>1, <1>7 DEF SlotsKept
  <2>2. (\E w \in Busy(worker) : worker[w].slot = n) => \E w \in Holding : with[w] = n
    BY <1>2
  <2>3. (\E x \in DOMAIN shared.ready : shared.ready[x].slot = n) => \E b \in DOMAIN waiting : waiting[b] = n
    OBVIOUS
  <2> HIDE DEF with, waiting, mine
  <2> QED BY <1>2, <1>5, <2>1, <2>2, <2>3
<1>8. all = 1 .. Capacity \/ shared.failure \/ main.pc = "caught"
  <2> HIDE DEF all
  <2> QED BY <1>6, <1>7
<1> HIDE DEF mine, waiting, with
<1> QED BY <1>3, <1>4, <1>8 DEF all, mine, waiting, with

LEMMA InvariantIsSound == ASSUME GenerationInvariant PROVE GenerationSound
PROOF
<1>1. /\ shared \in SharedFields /\ worker \in [Workers -> WorkerFields] /\ main \in CallerFields /\ PlanSound
      /\ PublisherSound(shared, main) /\ InOrder(main) /\ PlacesSound(shared, worker, main)
      /\ CourseSound(shared, worker, main, failures) /\ IsFiniteSet(DOMAIN shared.ready)
  BY Given DEF Typed
<1>2. UpTo = Reach(main)
  BY DEF UpTo, Reach, Last
<1>3. PublishedInOrder
  BY <1>1 DEF PublishedInOrder, InOrder
<1>4. PlacesConserved
  <2>1. Holding = Busy(worker)
    BY DEF Holding, Busy
  <2>2. shared.in_flight = Cardinality(Holding) + Cardinality(DOMAIN shared.ready)
    BY <1>1, <2>1 DEF PlacesSound
  <2>3. shared.in_flight <= Capacity
    <3>1. CASE ~Serialized
      BY <1>1, <3>1 DEF PlacesSound
    <3>2. CASE Serialized
      <4>1. /\ Cardinality(Busy(worker)) \in Nat /\ Cardinality(DOMAIN shared.ready) \in Nat
            /\ Len(shared.free) \in Nat /\ Cardinality(Mine(main)) \in Nat /\ Capacity \in Nat
        BY <1>1, BusyFinite, MineFinite, FS_CardinalityType DEF SharedFields, PlanSound
      <4> QED BY <1>1, <3>2, <4>1 DEF PlacesSound
    <3> QED BY <3>1, <3>2
  <2> QED BY <2>2, <2>3, SlotsCovered DEF PlacesConserved
<1>5. ReturnIsWhole
  <2>1. main.pc \in {"caught", "terminated", "thrown"} => failures > 0
    BY <1>1 DEF CourseSound
  <2> QED BY <1>1, <2>1 DEF ReturnIsWhole, CourseSound
<1>6. Misread => ~WholeChunks
  BY <1>1, <1>2 DEF Misread, PublisherSound
<1>7. ~Misread => ProgressCounts
  BY <1>1, <1>2 DEF Misread, ProgressCounts, PublisherSound
<1> QED BY <1>3, <1>4, <1>5, <1>6, <1>7, SomeoneIsAwake DEF GenerationSound

\* The threads and the caller of a bucket generation keep to the invariant, for every number of
\* threads, queue length, range and chunk size, and however many callbacks fail.
THEOREM GenerationInvariance == ASSUME PlansValid PROVE GenerationSpec => []GenerationInvariant
PROOF
<1>1. GenerationInit => GenerationInvariant
  BY GenerationBegins
<1>2. GenerationInvariant /\ [GenerationNext]_generationVars => GenerationInvariant'
  BY InvariantStays
<1> QED BY <1>1, <1>2, PTL DEF GenerationSpec

\* generate_multiway_bucket_chunks and generate_serialized_bucket_chunks publish every table once
\* and in order, conserve the places of the queue, return only when all is published and nobody is
\* left, and never wait for each other; but for the short last chunk of a serialized call.
THEOREM GenerationCorrect == ASSUME PlansValid PROVE GenerationSpec => []GenerationSound
PROOF
<1>1. GenerationInvariant => GenerationSound
  BY InvariantIsSound
<1> QED BY <1>1, GenerationInvariance, PTL

-----------------------------------------------------------------------------
(***************************************************************************)
(* The training run.  The tables of every checkpoint are those of the      *)
(* uninterrupted run, Reference, which is a recursive function of the      *)
(* number of batches.  Between two batches the trainer is the reference;   *)
(* a batch adds its operation and then what the schedule makes due, by     *)
(* remainders here and by multiples there.  What remains of the invocation *)
(* bounds the trajectories and decides which snapshots have been taken.    *)
(***************************************************************************)
CONSTANTS Schedule, PerBatch, Seed, CheckpointInterval, StageGate, Names, MaxBatches, MaxInvocations
VARIABLES backend, store, files, run, trainer, invocations
Train == INSTANCE TrainingRun

TableOps == [op : {"batch", "scale", "prune", "scale_and_prune"}, first : Nat, seed : Nat, weight : Nat]
RunStages == {"stopped", "restore", "session", "chunk", "batch", "transform", "after", "chunk_end",
              "save", "export", "exported"}
RunFields ==
  [pc : RunStages, resume : Names \cup {Train!NoPath}, target : Names \cup {Train!NoPath},
   batches : Nat, authorized : BOOLEAN, remaining : Nat, chunk : Nat]
TrainerFields == [batches : Nat, trajectories : Nat, tables : Seq(TableOps), baseline : Nat, phase : Nat]
FileFields == [batches : Nat, trajectories : Nat, tables : Seq(TableOps), baseline : Nat, saved : BOOLEAN]

TypedTraining ==
  /\ backend \in {"memory", "external"} /\ store \in Seq(TableOps)
  /\ files \in [Names -> FileFields] /\ run \in RunFields /\ trainer \in TrainerFields

\* Between two batches, and with the batch in between.
Boundary == {"chunk", "batch", "after", "chunk_end", "save", "export", "exported"}
Going == Boundary \cup {"transform"}
\* The batches left when the chunk under way is done, and those after the one under way.
LeftOver(n) == n - Train!Min({n, CheckpointInterval})
Ahead(r) ==
  IF r.pc = "batch" THEN LeftOver(r.remaining) + r.chunk
  ELSE IF r.pc \in {"transform", "after"} THEN LeftOver(r.remaining) + r.chunk - 1
  ELSE IF r.pc = "chunk_end" THEN LeftOver(r.remaining) ELSE r.remaining

\* Where checkpoints are saved; a run that saves, or that only exports, has a path.
PathOf(r) == IF r.target = Train!NoPath THEN r.resume ELSE r.target
CountsSound(r) ==
  /\ r.remaining <= r.batches
  /\ r.pc \in {"restore", "session"} => r.remaining = r.batches
  /\ r.pc \in {"chunk", "batch", "transform", "after", "chunk_end"} => r.remaining > 0
  /\ r.pc \in {"batch", "transform", "after"} =>
       r.chunk > 0 /\ r.chunk <= r.remaining /\ r.chunk <= CheckpointInterval
  /\ r.pc \in {"export", "exported"} => r.remaining = 0
  /\ r.pc = "save" \/ (r.pc \in {"restore", "session", "export", "exported"} /\ r.batches = 0) =>
       PathOf(r) # Train!NoPath
\* Every checkpoint is that of the uninterrupted run.
FilesSound(f) == \A name \in Names : f[name].saved => Train!IsReference(f[name])
\* After a batch and before its discount and pruning.
HalfDone(t) ==
  /\ t.batches > 0 /\ t.tables = Train!Reference(t.batches - 1) \o Train!ReferenceBatch(t.batches)
  /\ t.trajectories = t.batches * PerBatch
  /\ t.baseline = IF Schedule.window # 0 /\ t.batches >= Schedule.window THEN Schedule.window ELSE 0
\* What the trainer holds.
TablesSound(r, t) ==
  /\ r.pc \in Boundary => Train!IsReference(t)
  /\ r.pc = "transform" => HalfDone(t)
\* The store holds the tables of the trainer, or those it is about to resume from.
StoreSound(b, s, f, r, t) ==
  /\ b = "external" /\ r.pc \in Going => s = t.tables
  /\ r.pc = "restore" => b = "external" /\ r.resume # Train!NoPath
  /\ r.pc \in {"restore", "session"} /\ r.resume # Train!NoPath => f[r.resume].saved
  /\ b = "external" /\ r.pc = "session" =>
       s = IF r.resume = Train!NoPath THEN <<>> ELSE f[r.resume].tables
\* The trajectories of the whole invocation stay below the stage.
GateSound(r, t) ==
  r.pc \in Going /\ ~r.authorized => t.trajectories + Ahead(r) * PerBatch < StageGate
\* The snapshots taken so far.
PhasesSound(r, t) ==
  r.pc \in Going =>
    /\ r.batches = 0 => t.phase = Train!Disabled /\ r.pc \in {"save", "export", "exported"}
    /\ r.batches > 0 =>
       /\ t.batches >= r.batches - Ahead(r)
       /\ r.pc \in {"chunk", "batch", "transform", "after", "chunk_end", "save"} =>
            t.phase \in {Train!AfterColdBatch, Train!AfterSteadyBatch, Train!BeforeCheckpoint}
       /\ r.pc \in {"chunk", "batch", "chunk_end", "save"} /\ Ahead(r) = 0 => t.phase = Train!BeforeCheckpoint
       /\ r.pc = "export" => t.phase =
            IF PathOf(r) = Train!NoPath THEN Train!BeforeCheckpoint ELSE Train!BeforeExport
       /\ r.pc = "exported" => t.phase = 13
TrainInvariant ==
  /\ TypedTraining /\ CountsSound(run) /\ FilesSound(files) /\ TablesSound(run, trainer)
  /\ StoreSound(backend, store, files, run, trainer) /\ GateSound(run, trainer) /\ PhasesSound(run, trainer)

-----------------------------------------------------------------------------
\* The least of two.
LEMMA LesserOf ==
  ASSUME NEW a \in Int, NEW b \in Int
  PROVE  Train!Min({a, b}) = IF a <= b THEN a ELSE b
PROOF
<1> DEFINE m == IF a <= b THEN a ELSE b
<1>1. m \in {a, b} /\ \A y \in {a, b} : m <= y
  OBVIOUS
<1>2. \A x \in {a, b} : (\A y \in {a, b} : x <= y) => x = m
  OBVIOUS
<1> HIDE DEF m
<1>3. Train!Min({a, b}) = m
  BY <1>1, <1>2 DEF Train!Min
<1> QED BY <1>3 DEF m

\* A set of naturals has a least element.
LEMMA LeastBatch ==
  ASSUME NEW T, T \subseteq Nat, T # {}
  PROVE  \E x \in T : \A y \in T : x <= y
PROOF
<1> DEFINE R == {ss \in Nat \X Nat : ss[1] < ss[2]}
<1>1. IsWellFoundedOn(R, Nat)
  BY NatLessThanWellFounded DEF OpToRel
<1>2. \A x, y \in Nat : y < x => <<y, x>> \in R
  OBVIOUS
<1> HIDE DEF R
<1>3. PICK x \in T : \A y \in T : ~ (<<y, x>> \in R)
  BY <1>1, WFMin, Zenon
<1>4. ASSUME NEW y \in T PROVE x <= y
  <2>1. x \in Nat /\ y \in Nat
    OBVIOUS
  <2>2. ~ (y < x)
    BY <1>2, <1>3, <2>1, Zenon
  <2> QED BY <2>1, <2>2
<1> QED BY <1>4

-----------------------------------------------------------------------------
(* The uninterrupted run.  Its tables are a recursive function; that one more *)
(* batch adds its operations is had from a least counterexample.              *)

Grown(f, n) ==
  f = [k \in 0 .. n |->
         IF k = 0 THEN <<>> ELSE f[k - 1] \o Train!ReferenceBatch(k) \o Train!ReferenceTransform(k)]

LEMMA GrownAt ==
  ASSUME NEW n \in Nat, NEW f, Grown(f, n)
  PROVE  /\ f = [k \in 0 .. n |-> f[k]] /\ f[0] = <<>>
         /\ \A k \in 1 .. n : f[k] = f[k - 1] \o Train!ReferenceBatch(k) \o Train!ReferenceTransform(k)
PROOF
<1> DEFINE e(k) == IF k = 0 THEN <<>> ELSE f[k - 1] \o Train!ReferenceBatch(k) \o Train!ReferenceTransform(k)
<1>1. f = [k \in 0 .. n |-> e(k)]
  BY Zenon DEF Grown
<1>2. \A k \in 0 .. n : f[k] = e(k)
  BY <1>1, Zenon
<1>3. f = [k \in 0 .. n |-> f[k]]
  BY <1>1, Zenon
<1>4. 0 \in 0 .. n /\ \A k \in 1 .. n : k \in 0 .. n /\ k # 0
  OBVIOUS
<1> QED BY <1>2, <1>3, <1>4

LEMMA GrownFurther ==
  ASSUME NEW n \in Nat, NEW f, Grown(f, n)
  PROVE  \E g : Grown(g, n + 1)
           /\ g[n + 1] = f[n] \o Train!ReferenceBatch(n + 1) \o Train!ReferenceTransform(n + 1)
PROOF
<1> DEFINE last == f[n] \o Train!ReferenceBatch(n + 1) \o Train!ReferenceTransform(n + 1)
           g == [k \in 0 .. n + 1 |-> IF k = n + 1 THEN last ELSE f[k]]
           e(k) == IF k = 0 THEN <<>> ELSE g[k - 1] \o Train!ReferenceBatch(k) \o Train!ReferenceTransform(k)
<1>1. g[n + 1] = last /\ \A k \in 0 .. n : g[k] = f[k]
  OBVIOUS
<1>2. f[0] = <<>>
      /\ \A k \in 1 .. n : f[k] = f[k - 1] \o Train!ReferenceBatch(k) \o Train!ReferenceTransform(k)
  BY GrownAt
<1>3. g = [k \in 0 .. n + 1 |-> g[k]]
  OBVIOUS
<1> HIDE DEF g
<1>4. ASSUME NEW k \in 0 .. n + 1 PROVE g[k] = e(k)
  <2>1. CASE k = 0
    <3>1. g[0] = f[0]
      BY <1>1
    <3> QED BY <1>2, <2>1, <3>1
  <2>2. CASE k \in 1 .. n
    <3>1. k # 0 /\ g[k] = f[k] /\ g[k - 1] = f[k - 1]
      BY <1>1, <2>2
    <3>2. f[k] = f[k - 1] \o Train!ReferenceBatch(k) \o Train!ReferenceTransform(k)
      BY <1>2, <2>2
    <3> QED BY <3>1, <3>2
  <2>3. CASE k = n + 1
    <3>1. k # 0 /\ k - 1 = n /\ n \in 0 .. n
      BY <2>3
    <3>2. g[k] = last /\ g[k - 1] = f[n]
      BY <1>1, <2>3, <3>1, Zenon
    <3> QED BY <2>3, <3>1, <3>2, Zenon
  <2> QED BY <2>1, <2>2, <2>3
<1>5. g = [k \in 0 .. n + 1 |-> e(k)]
  BY <1>3, <1>4
<1>6. Grown(g, n + 1)
  BY <1>5, Zenon DEF Grown
<1> QED BY <1>1, <1>6

LEMMA GrownExists ==
  ASSUME NEW n \in Nat
  PROVE  \E f : Grown(f, n)
PROOF
<1> DEFINE Missing == {k \in Nat : ~ \E f : Grown(f, k)}
<1>1. CASE Missing = {}
  BY <1>1
<1>2. CASE Missing # {}
  <2>1. PICK least \in Missing : \A y \in Missing : least <= y
    <3>1. Missing \subseteq Nat
      OBVIOUS
    <3> HIDE DEF Missing
    <3> QED BY <1>2, <3>1, LeastBatch
  <2>2. least \in Nat /\ ~ \E f : Grown(f, least)
    OBVIOUS
  <2>3. CASE least = 0
    <3> DEFINE f == [k \in 0 .. 0 |-> <<>>]
    <3>1. f = [k \in 0 .. 0 |-> IF k = 0 THEN <<>>
                                ELSE f[k - 1] \o Train!ReferenceBatch(k) \o Train!ReferenceTransform(k)]
      OBVIOUS
    <3> HIDE DEF f
    <3>2. Grown(f, least)
      BY <2>3, <3>1, Zenon DEF Grown
    <3> QED BY <2>2, <3>2
  <2>4. CASE least # 0
    <3>1. least - 1 \in Nat /\ least - 1 \notin Missing /\ (least - 1) + 1 = least
      BY <2>1, <2>2, <2>4
    <3>2. PICK f : Grown(f, least - 1)
      BY <3>1
    <3> HIDE DEF Missing
    <3>3. \E g : Grown(g, (least - 1) + 1)
      BY <3>1, <3>2, GrownFurther
    <3> QED BY <2>2, <3>1, <3>3
  <2> QED BY <2>3, <2>4
<1> QED BY <1>1, <1>2

LEMMA GrownOnce ==
  ASSUME NEW n \in Nat, NEW f, NEW g, Grown(f, n), Grown(g, n)
  PROVE  f = g
PROOF
<1>1. /\ f = [k \in 0 .. n |-> f[k]] /\ f[0] = <<>>
      /\ \A k \in 1 .. n : f[k] = f[k - 1] \o Train!ReferenceBatch(k) \o Train!ReferenceTransform(k)
  BY GrownAt
<1>2. /\ g = [k \in 0 .. n |-> g[k]] /\ g[0] = <<>>
      /\ \A k \in 1 .. n : g[k] = g[k - 1] \o Train!ReferenceBatch(k) \o Train!ReferenceTransform(k)
  BY GrownAt
<1> DEFINE Differ == {k \in 0 .. n : f[k] # g[k]}
<1>3. CASE Differ = {}
  <2>1. \A k \in 0 .. n : f[k] = g[k]
    BY <1>3
  <2> QED BY <1>1, <1>2, <2>1
<1>4. CASE Differ # {}
  <2>1. PICK least \in Differ : \A y \in Differ : least <= y
    <3>1. Differ \subseteq Nat
      OBVIOUS
    <3> HIDE DEF Differ
    <3> QED BY <1>4, <3>1, LeastBatch
  <2>2. least \in 0 .. n /\ f[least] # g[least]
    OBVIOUS
  <2>3. least \in 1 .. n
    BY <1>1, <1>2, <2>2
  <2>4. least - 1 \in 0 .. n /\ least - 1 \notin Differ
    BY <2>1, <2>3
  <2>5. f[least - 1] = g[least - 1]
    BY <2>4
  <2> QED BY <1>1, <1>2, <2>2, <2>3, <2>5
<1> QED BY <1>3, <1>4

LEMMA ReferenceIs ==
  ASSUME NEW n \in Nat, NEW f, Grown(f, n)
  PROVE  Train!Reference(n) = f[n]
PROOF
<1> DEFINE chosen == CHOOSE g : Grown(g, n)
<1>1. Grown(chosen, n)
  BY Zenon
<1>2. chosen = f
  BY <1>1, GrownOnce
<1>3. Train!Reference(n) = chosen[n]
  BY Zenon DEF Train!Reference, Grown
<1> QED BY <1>2, <1>3

\* One more batch adds its operations and its discount and pruning.
LEMMA ReferenceGrows ==
  /\ Train!Reference(0) = <<>>
  /\ \A n \in Nat :
       Train!Reference(n + 1) = Train!Reference(n) \o Train!ReferenceBatch(n + 1) \o Train!ReferenceTransform(n + 1)
PROOF
<1>1. Train!Reference(0) = <<>>
  <2>1. PICK f : Grown(f, 0)
    BY GrownExists
  <2> QED BY <2>1, GrownAt, ReferenceIs
<1>2. ASSUME NEW n \in Nat
      PROVE  Train!Reference(n + 1) =
               Train!Reference(n) \o Train!ReferenceBatch(n + 1) \o Train!ReferenceTransform(n + 1)
  <2>1. PICK f : Grown(f, n)
    BY GrownExists
  <2>2. PICK g : Grown(g, n + 1)
           /\ g[n + 1] = f[n] \o Train!ReferenceBatch(n + 1) \o Train!ReferenceTransform(n + 1)
    BY <2>1, GrownFurther
  <2>3. n + 1 \in Nat
    OBVIOUS
  <2>4. Train!Reference(n) = f[n]
    BY <2>1, ReferenceIs
  <2>5. Train!Reference(n + 1) = g[n + 1]
    BY <2>2, <2>3, ReferenceIs
  <2> QED BY <2>2, <2>4, <2>5
<1> QED BY <1>1, <1>2

-----------------------------------------------------------------------------
(* The schedule by remainders and by multiples. *)

LEMMA Multiple ==
  ASSUME NEW b \in Nat, NEW w \in Nat, NEW m \in Nat \ {0}
  PROVE  (b > w /\ (b - w) % m = 0) <=> \E k \in 1 .. b : b = w + k * m
PROOF
<1>1. ASSUME b > w, (b - w) % m = 0
      PROVE  \E k \in 1 .. b : b = w + k * m
  <2> DEFINE d == b - w
             q == d \div m
  <2>1. d \in Nat \ {0}
    BY <1>1
  <2> HIDE DEF d
  <2>2. d % m = 0
    BY <1>1 DEF d
  <2>3. q \in Nat /\ d = q * m
    BY <2>1, <2>2
  <2> HIDE DEF q
  <2>4. q # 0
    BY <2>1, <2>3
  <2>5. q <= q * m
    BY <2>3, <2>4
  <2>6. q <= d /\ d <= b
    BY <2>3, <2>5 DEF d
  <2>7. q \in 1 .. b
    BY <2>1, <2>3, <2>4, <2>6
  <2>8. b = w + q * m
    BY <2>3 DEF d
  <2> QED BY <2>7, <2>8
<1>2. ASSUME NEW k \in 1 .. b, b = w + k * m
      PROVE  b > w /\ (b - w) % m = 0
  <2>1. k \in Nat \ {0}
    OBVIOUS
  <2>2. k * m \in Nat \ {0}
    BY <2>1
  <2>3. b - w = k * m
    BY <1>2, <2>2
  <2>4. (k * m) % m = 0
    BY <2>1
  <2> QED BY <1>2, <2>2, <2>3, <2>4
<1> QED BY <1>1, <1>2

\* iteration_schedule: what is due after a batch is what is scheduled for it.
LEMMA ScheduledOps ==
  ASSUME Train!TrainingAssumption, NEW b \in Nat \ {0}
  PROVE  Train!TransformOps(b) = Train!ReferenceTransform(b)
PROOF
<1>1. /\ Schedule.discount \in Nat /\ Schedule.prune \in Nat /\ Schedule.warmup \in Nat
      /\ Schedule.recovery \in Nat
  BY DEF Train!TrainingAssumption
<1> DEFINE discount_due == Train!Due(b, Schedule.discount)
           pruning_due == b > Schedule.warmup /\ Train!Due(b - Schedule.warmup, Schedule.prune)
           recovery == Train!Due(b - Schedule.warmup, Schedule.recovery)
           discounted == Schedule.discount # 0 /\ \E k \in 1 .. b : b = k * Schedule.discount
           pruned == Schedule.prune # 0 /\ \E k \in 1 .. b : b = Schedule.warmup + k * Schedule.prune
           recovered == Schedule.recovery # 0 /\ \E k \in 1 .. b : b = Schedule.warmup + k * Schedule.recovery
<1>2. discount_due <=> discounted
  <2>1. CASE Schedule.discount = 0
    BY <2>1 DEF Train!Due
  <2>2. CASE Schedule.discount # 0
    <3> DEFINE m == Schedule.discount
    <3>1. m \in Nat \ {0}
      BY <1>1, <2>2
    <3> HIDE DEF m
    <3>2. (b > 0 /\ (b - 0) % m = 0) <=> \E k \in 1 .. b : b = 0 + k * m
      BY <3>1, Multiple
    <3>3. \A k \in 1 .. b : 0 + k * m = k * m
      BY <3>1
    <3>4. b % m = 0 <=> \E k \in 1 .. b : b = k * m
      BY <3>2, <3>3
    <3> QED BY <2>2, <3>4 DEF Train!Due, m
  <2> QED BY <2>1, <2>2
<1>3. pruning_due <=> pruned
  <2>1. CASE Schedule.prune = 0
    BY <2>1 DEF Train!Due
  <2>2. CASE Schedule.prune # 0
    <3> DEFINE w == Schedule.warmup
               m == Schedule.prune
    <3>1. w \in Nat /\ m \in Nat \ {0}
      BY <1>1, <2>2
    <3> HIDE DEF w, m
    <3>2. (b > w /\ (b - w) % m = 0) <=> \E k \in 1 .. b : b = w + k * m
      BY <3>1, Multiple
    <3> QED BY <2>2, <3>1, <3>2 DEF Train!Due, w, m
  <2> QED BY <2>1, <2>2
<1>4. b > Schedule.warmup => (recovery <=> recovered)
  <2>1. CASE Schedule.recovery = 0
    BY <2>1 DEF Train!Due
  <2>2. CASE Schedule.recovery # 0
    <3> DEFINE w == Schedule.warmup
               m == Schedule.recovery
    <3>1. w \in Nat /\ m \in Nat \ {0}
      BY <1>1, <2>2
    <3> HIDE DEF w, m
    <3>2. (b > w /\ (b - w) % m = 0) <=> \E k \in 1 .. b : b = w + k * m
      BY <3>1, Multiple
    <3> QED BY <2>2, <3>1, <3>2 DEF Train!Due, w, m
  <2> QED BY <2>1, <2>2
<1>5. pruning_due => b > Schedule.warmup
  OBVIOUS
<1>6. Train!TransformOps(b) =
        IF pruning_due
        THEN IF ~recovery /\ discount_due THEN <<Train!Op("scale_and_prune")>>
             ELSE IF ~recovery THEN <<Train!Op("prune")>>
             ELSE IF discount_due THEN <<Train!Op("scale")>> ELSE <<>>
        ELSE IF discount_due THEN <<Train!Op("scale")>> ELSE <<>>
  BY DEF Train!TransformOps
<1>7. Train!ReferenceTransform(b) =
        IF discounted /\ (pruned /\ ~recovered) THEN <<Train!Op("scale_and_prune")>>
        ELSE IF pruned /\ ~recovered THEN <<Train!Op("prune")>>
        ELSE IF discounted THEN <<Train!Op("scale")>> ELSE <<>>
  BY Zenon DEF Train!ReferenceTransform
<1> HIDE DEF discount_due, pruning_due, recovery, discounted, pruned, recovered
<1> QED BY <1>2, <1>3, <1>4, <1>5, <1>6, <1>7

LEMMA BatchOps ==
  ASSUME Train!TrainingAssumption, NEW b \in Nat
  PROVE  /\ <<Train!BatchOp(b, b * PerBatch)>> = Train!ReferenceBatch(b + 1)
         /\ \A t \in Nat : <<Train!BatchOp(b, t)>> \in Seq(TableOps)
         /\ Train!TransformOps(b) \in Seq(TableOps)
PROOF
<1>1. PerBatch \in Nat /\ Seed \in Nat
  BY DEF Train!TrainingAssumption
<1>2. /\ b * PerBatch = ((b + 1) - 1) * PerBatch /\ Seed + b = Seed + (b + 1) - 1
  BY <1>1
<1>3. <<Train!BatchOp(b, b * PerBatch)>> = Train!ReferenceBatch(b + 1)
  BY <1>2 DEF Train!BatchOp, Train!ReferenceBatch
<1>4. ASSUME NEW t \in Nat PROVE <<Train!BatchOp(b, t)>> \in Seq(TableOps)
  <2>1. Train!BatchOp(b, t) \in TableOps
    BY <1>1 DEF Train!BatchOp, TableOps
  <2> QED BY <2>1
<1>5. Train!TransformOps(b) \in Seq(TableOps)
  <2>1. Train!Op("scale") \in TableOps /\ Train!Op("prune") \in TableOps
        /\ Train!Op("scale_and_prune") \in TableOps
    BY DEF Train!Op, TableOps
  <2>2. <<Train!Op("scale")>> \in Seq(TableOps) /\ <<Train!Op("prune")>> \in Seq(TableOps)
        /\ <<Train!Op("scale_and_prune")>> \in Seq(TableOps) /\ <<>> \in Seq(TableOps)
    BY <2>1
  <2>3. Train!TransformOps(b) \in
          {<<Train!Op("scale")>>, <<Train!Op("prune")>>, <<Train!Op("scale_and_prune")>>, <<>>}
    BY DEF Train!TransformOps
  <2> QED BY <2>2, <2>3
<1> QED BY <1>3, <1>4, <1>5

\* reaches_50m divides where a product might overflow.
LEMMA BelowStage ==
  ASSUME Train!TrainingAssumption, NEW s \in Nat, NEW b \in Nat, ~Train!ReachesStage(s, b)
  PROVE  s + b * PerBatch < StageGate
PROOF
<1> DEFINE p == PerBatch
           left == StageGate - s
           q == left \div p
           x == left % p
<1>1. p \in Nat \ {0} /\ StageGate \in Nat
  BY DEF Train!TrainingAssumption
<1>2. s < StageGate /\ b <= q /\ (b = q => x # 0) /\ left \in Nat \ {0}
  <2>1. s < StageGate
    BY <1>1 DEF Train!ReachesStage
  <2>2. left \in Nat \ {0}
    BY <1>1, <2>1
  <2>3. ~(b > q) /\ ~(b = q /\ x = 0)
    BY DEF Train!ReachesStage
  <2> HIDE DEF left
  <2>4. q \in Nat
    BY <1>1, <2>2
  <2> HIDE DEF q, x
  <2> QED BY <2>1, <2>2, <2>3, <2>4
<1> HIDE DEF p, left
<1>3. q \in Nat /\ x \in Nat /\ left = q * p + x
  BY <1>1, <1>2
<1> HIDE DEF q, x
<1>4. b * p < left
  <2>1. CASE b = q
    BY <1>1, <1>2, <1>3, <2>1
  <2>2. CASE b < q
    <3>1. b * p < q * p
      BY <1>1, <1>3, <2>2
    <3>2. b * p \in Nat /\ q * p \in Nat
      BY <1>1, <1>3
    <3> QED BY <1>3, <3>1, <3>2
  <2> QED BY <1>2, <1>3, <2>1, <2>2
<1>5. b * p \in Nat
  BY <1>1
<1> QED BY <1>1, <1>4, <1>5 DEF left, p


-----------------------------------------------------------------------------
(* The parts of a state. *)

LEMMA LeftOverIs ==
  ASSUME Train!TrainingAssumption, NEW n \in Nat
  PROVE  /\ LeftOver(n) \in Nat /\ LeftOver(n) <= n /\ Train!Min({n, CheckpointInterval}) = n - LeftOver(n)
         /\ n > 0 => LeftOver(n) < n
         /\ n - LeftOver(n) <= CheckpointInterval
PROOF
<1> DEFINE c == CheckpointInterval
<1>1. c \in Nat \ {0}
  BY DEF Train!TrainingAssumption
<1> HIDE DEF c
<1>2. Train!Min({n, c}) = IF n <= c THEN n ELSE c
  BY <1>1, LesserOf
<1> DEFINE m == Train!Min({n, c})
<1>3. m = IF n <= c THEN n ELSE c
  BY <1>2
<1> HIDE DEF m
<1>4. LeftOver(n) = n - m
  BY Zenon DEF LeftOver, m, c
<1>5. LeftOver(n) \in Nat /\ LeftOver(n) <= n /\ m = n - LeftOver(n) /\ (n > 0 => LeftOver(n) < n) /\ n - LeftOver(n) <= c
  BY <1>1, <1>3, <1>4
<1> QED BY <1>5 DEF m, c

\* What is ahead never is negative.
LEMMA AheadIs ==
  ASSUME Train!TrainingAssumption, NEW r \in RunFields, CountsSound(r)
  PROVE  /\ Ahead(r) \in Nat
         /\ r.pc = "batch" => Ahead(r) > 0
PROOF
<1>1. r.remaining \in Nat /\ r.chunk \in Nat
  BY DEF RunFields
<1>2. LeftOver(r.remaining) \in Nat
  BY <1>1, LeftOverIs
<1>3. r.pc \in {"batch", "transform", "after"} => r.chunk > 0
  BY DEF CountsSound
<1> QED BY <1>1, <1>2, <1>3 DEF Ahead

\* A process that stopped keeps the checkpoints it has published.
LEMMA StoppedKeeps ==
  ASSUME TrainInvariant, run' = Train!Stopped, UNCHANGED <<backend, files>>,
         store' \in Seq(TableOps), trainer' \in TrainerFields
  PROVE  TrainInvariant'
PROOF
<1>1. Train!Stopped.pc = "stopped" /\ Train!Stopped \in RunFields /\ CountsSound(Train!Stopped)
  <2>1. Train!Stopped.pc = "stopped" /\ Train!Stopped.remaining = 0 /\ Train!Stopped.batches = 0
    BY DEF Train!Stopped
  <2>2. Train!Stopped \in RunFields
    BY DEF Train!Stopped, RunFields, RunStages
  <2> QED BY <2>1, <2>2 DEF CountsSound
<1>2. run'.pc = "stopped" /\ run' \in RunFields /\ CountsSound(run')
  BY <1>1
<1>3. TypedTraining'
  BY <1>2 DEF TrainInvariant, TypedTraining
<1>4. FilesSound(files')
  BY DEF TrainInvariant
<1>5. TablesSound(run', trainer') /\ GateSound(run', trainer') /\ PhasesSound(run', trainer')
  BY <1>2 DEF TablesSound, GateSound, PhasesSound, Boundary, Going
<1>6. StoreSound(backend', store', files', run', trainer')
  BY <1>2 DEF StoreSound, Boundary, Going
<1>7. (CountsSound(run))' /\ (FilesSound(files))' /\ (TablesSound(run, trainer))'
      /\ (StoreSound(backend, store, files, run, trainer))' /\ (GateSound(run, trainer))'
      /\ (PhasesSound(run, trainer))'
  BY <1>2, <1>4, <1>5, <1>6
<1> QED BY <1>3, <1>7 DEF TrainInvariant

LEMMA FailsKeeps ==
  ASSUME TrainInvariant, Train!Fails
  PROVE  TrainInvariant'
PROOF
<1>1. run' = Train!Stopped /\ UNCHANGED <<backend, files>> /\ store' = store /\ trainer' = trainer
  BY DEF Train!Fails, Train!Throws
<1>2. store' \in Seq(TableOps) /\ trainer' \in TrainerFields
  BY <1>1 DEF TrainInvariant, TypedTraining
<1> QED BY <1>1, <1>2, StoppedKeeps

LEMMA CommitThrowsKeeps ==
  ASSUME TrainInvariant, NEW ops \in Seq(TableOps), Train!CommitThrows(ops)
  PROVE  TrainInvariant'
PROOF
<1>1. run' = Train!Stopped /\ UNCHANGED <<backend, files>> /\ trainer' = trainer
      /\ store' \in {store, store \o ops}
  BY DEF Train!CommitThrows, Train!Throws
<1>2. store \in Seq(TableOps) /\ trainer \in TrainerFields
  BY DEF TrainInvariant, TypedTraining
<1>3. store \o ops \in Seq(TableOps)
  BY <1>2
<1>4. store' \in Seq(TableOps) /\ trainer' \in TrainerFields
  BY <1>1, <1>2, <1>3
<1> QED BY <1>1, <1>4, StoppedKeeps

\* A step to another pc, the request and the chunk kept.
LEMMA Moved ==
  ASSUME NEW r \in RunFields, NEW pc \in RunStages, NEW q, q = [r EXCEPT !.pc = pc]
  PROVE  /\ q \in RunFields /\ q.pc = pc /\ q.resume = r.resume /\ q.target = r.target
         /\ q.batches = r.batches /\ q.authorized = r.authorized /\ q.remaining = r.remaining
         /\ q.chunk = r.chunk /\ PathOf(q) = PathOf(r)
PROOF
<1>1. q.pc = pc /\ q.resume = r.resume /\ q.target = r.target
      /\ q.batches = r.batches /\ q.authorized = r.authorized /\ q.remaining = r.remaining
      /\ q.chunk = r.chunk
  BY DEF RunFields
<1>2. q \in RunFields
  BY DEF RunFields
<1> QED BY <1>1, <1>2 DEF PathOf

\* The fields of the run and of the trainer.
LEMMA TrainFields ==
  ASSUME TrainInvariant
  PROVE  /\ run \in RunFields /\ trainer \in TrainerFields /\ files \in [Names -> FileFields]
         /\ store \in Seq(TableOps) /\ backend \in {"memory", "external"}
         /\ run.pc \in RunStages /\ run.batches \in Nat /\ run.remaining \in Nat /\ run.chunk \in Nat
         /\ run.authorized \in BOOLEAN
         /\ trainer.batches \in Nat /\ trainer.trajectories \in Nat /\ trainer.tables \in Seq(TableOps)
         /\ trainer.baseline \in Nat /\ trainer.phase \in Nat
PROOF
<1>1. run \in RunFields /\ trainer \in TrainerFields /\ files \in [Names -> FileFields]
      /\ store \in Seq(TableOps) /\ backend \in {"memory", "external"}
  BY DEF TrainInvariant, TypedTraining
<1>2. run.pc \in RunStages /\ run.batches \in Nat /\ run.remaining \in Nat /\ run.chunk \in Nat
      /\ run.authorized \in BOOLEAN
  BY <1>1 DEF RunFields
<1>3. trainer.batches \in Nat /\ trainer.trajectories \in Nat /\ trainer.tables \in Seq(TableOps)
      /\ trainer.baseline \in Nat /\ trainer.phase \in Nat
  BY <1>1 DEF TrainerFields
<1> QED BY <1>1, <1>2, <1>3

LEMMA Assembled ==
  ASSUME TypedTraining', CountsSound(run'), FilesSound(files'), TablesSound(run', trainer'),
         StoreSound(backend', store', files', run', trainer'), GateSound(run', trainer'),
         PhasesSound(run', trainer')
  PROVE  TrainInvariant'
PROOF
<1>1. (CountsSound(run))' /\ (FilesSound(files))' /\ (TablesSound(run, trainer))'
      /\ (StoreSound(backend, store, files, run, trainer))' /\ (GateSound(run, trainer))'
      /\ (PhasesSound(run, trainer))'
  OBVIOUS
<1> QED BY <1>1 DEF TrainInvariant

-----------------------------------------------------------------------------
(* The steps. *)

LEMMA InitTrains ==
  ASSUME Train!TrainingAssumption, Train!Init
  PROVE  TrainInvariant
PROOF
<1>1. backend \in {"memory", "external"} /\ store \in Seq(TableOps)
  BY DEF Train!Init
<1>2. Train!NoCheckpoint \in FileFields /\ Train!NoCheckpoint.saved = FALSE
  BY DEF Train!NoCheckpoint, FileFields
<1>3. files \in [Names -> FileFields] /\ \A name \in Names : files[name].saved = FALSE
  <2>1. files = [name \in Names |-> Train!NoCheckpoint]
    BY DEF Train!Init
  <2> QED BY <1>2, <2>1
<1>4. Train!Stopped \in RunFields /\ Train!Stopped.pc = "stopped"
      /\ Train!Stopped.remaining <= Train!Stopped.batches
  BY DEF Train!Stopped, RunFields, RunStages
<1>5. run \in RunFields /\ run.pc = "stopped" /\ run.remaining <= run.batches
  BY <1>4 DEF Train!Init
<1>6. trainer \in TrainerFields
  BY DEF Train!Init, Train!NewTrainer, TrainerFields
<1>7. TypedTraining
  BY <1>1, <1>3, <1>5, <1>6 DEF TypedTraining
<1>8. CountsSound(run)
  BY <1>5 DEF CountsSound
<1>9. FilesSound(files)
  BY <1>3 DEF FilesSound
<1>10. TablesSound(run, trainer) /\ GateSound(run, trainer) /\ PhasesSound(run, trainer)
  BY <1>5 DEF TablesSound, GateSound, PhasesSound, Boundary, Going
<1>11. StoreSound(backend, store, files, run, trainer)
  BY <1>5 DEF StoreSound, Boundary, Going
<1> QED BY <1>7, <1>8, <1>9, <1>10, <1>11 DEF TrainInvariant

LEMMA Requested ==
  ASSUME NEW r \in RunFields, NEW batches \in Nat, NEW resume \in Names \cup {Train!NoPath},
         NEW target \in Names \cup {Train!NoPath}, NEW authorized \in BOOLEAN
  PROVE  [r EXCEPT !.resume = resume, !.target = target, !.batches = batches,
                   !.authorized = authorized, !.remaining = batches] \in RunFields
PROOF
BY DEF RunFields

\* A new process resumes from a checkpoint that exists, or starts with an empty store.
LEMMA StartKeeps ==
  ASSUME Train!TrainingAssumption, TrainInvariant, Train!Start
  PROVE  TrainInvariant'
PROOF
<1>1. PICK batches \in 0 .. MaxBatches, resume \in Names \cup {Train!NoPath},
           target \in Names \cup {Train!NoPath},
           authorized \in BOOLEAN :
        LET request == [Train!Stopped EXCEPT !.resume = resume, !.target = target, !.batches = batches,
                                       !.authorized = authorized, !.remaining = batches]
            fresh == backend = "external" /\ resume = Train!NoPath IN
        /\ Train!Accepted(request)
        /\ run' = [request EXCEPT !.pc = IF backend = "external" /\ resume # Train!NoPath
                                         THEN "restore" ELSE "session"]
        /\ resume = Train!NoPath /\ Train!ReachesStage(0, batches) => authorized
        /\ store' = IF fresh THEN <<>> ELSE store
        /\ files' = IF fresh THEN [name \in Names |-> Train!NoCheckpoint] ELSE files
  BY Zenon DEF Train!Start
<1> DEFINE request == [Train!Stopped EXCEPT !.resume = resume, !.target = target, !.batches = batches,
                                      !.authorized = authorized, !.remaining = batches]
           fresh == backend = "external" /\ resume = Train!NoPath
           pc == IF backend = "external" /\ resume # Train!NoPath THEN "restore" ELSE "session"
<1>2. /\ Train!Accepted(request) /\ run' = [request EXCEPT !.pc = pc]
      /\ store' = IF fresh THEN <<>> ELSE store
      /\ files' = IF fresh THEN [name \in Names |-> Train!NoCheckpoint] ELSE files
  BY <1>1, Zenon
<1>3. trainer' = Train!NewTrainer /\ backend' = backend
  BY DEF Train!Start
<1>4. batches \in Nat /\ pc \in RunStages /\ pc \in {"restore", "session"}
  BY DEF Train!TrainingAssumption, RunStages
<1>5. /\ request \in RunFields /\ request.resume = resume /\ request.target = target
      /\ request.batches = batches /\ request.remaining = batches
  <2>2. request.resume = resume /\ request.target = target
    BY DEF Train!Stopped
  <2>3. request.batches = batches /\ request.remaining = batches
    BY DEF Train!Stopped
  <2>4. request.authorized = authorized
    BY DEF Train!Stopped
  <2>6. request \in RunFields
    <3>1. Train!Stopped \in RunFields
      BY DEF Train!Stopped, RunFields, RunStages
    <3> QED BY <1>4, <3>1, Requested
  <2> QED BY <2>2, <2>3, <2>6
<1> HIDE DEF request
<1>6. /\ run' \in RunFields /\ run'.pc = pc /\ run'.resume = resume /\ run'.target = target
      /\ run'.batches = batches /\ run'.remaining = batches
  <2> HIDE DEF pc
  <2> QED BY <1>2, <1>4, <1>5, Moved
<1>7. (resume # Train!NoPath => files[resume].saved)
      /\ (batches = 0 => resume # Train!NoPath /\ PathOf(run') # Train!NoPath)
  BY <1>2, <1>5, <1>6 DEF Train!Accepted, PathOf
<1>8. backend \in {"memory", "external"} /\ store \in Seq(TableOps) /\ files \in [Names -> FileFields]
  BY TrainFields
<1>9. Train!NoCheckpoint \in FileFields /\ Train!NoCheckpoint.saved = FALSE
  BY DEF Train!NoCheckpoint, FileFields
<1>10. files' \in [Names -> FileFields]
  BY <1>2, <1>8, <1>9
<1>11. store' \in Seq(TableOps)
  BY <1>2, <1>8
<1>12. trainer' \in TrainerFields
  BY <1>3 DEF Train!NewTrainer, TrainerFields
<1>13. TypedTraining'
  BY <1>3, <1>6, <1>8, <1>10, <1>11, <1>12 DEF TypedTraining
<1>14. CountsSound(run')
  BY <1>4, <1>6, <1>7 DEF CountsSound
<1>15. FilesSound(files')
  <2>1. CASE fresh
    <3>1. \A name \in Names : files'[name].saved = FALSE
      BY <1>2, <1>9, <2>1
    <3> QED BY <3>1 DEF FilesSound
  <2>2. CASE ~fresh
    BY <1>2, <2>2 DEF TrainInvariant
  <2> QED BY <2>1, <2>2
<1>16. TablesSound(run', trainer') /\ GateSound(run', trainer') /\ PhasesSound(run', trainer')
  <2>1. run'.pc \notin Going /\ run'.pc \notin Boundary /\ run'.pc # "transform"
    BY <1>4, <1>6 DEF Going, Boundary
  <2> QED BY <2>1 DEF TablesSound, GateSound, PhasesSound
<1>17. StoreSound(backend', store', files', run', trainer')
  <2>1. run'.pc \notin Going
    BY <1>4, <1>6 DEF Going, Boundary
  <2>2. run'.pc = "restore" => backend' = "external" /\ run'.resume # Train!NoPath
    BY <1>3, <1>6
  <2>3. run'.resume # Train!NoPath => files' = files /\ files'[run'.resume].saved
    BY <1>2, <1>6, <1>7
  <2>4. backend' = "external" /\ run'.pc = "session" => run'.resume = Train!NoPath /\ store' = <<>>
    BY <1>2, <1>3, <1>6
  <2> QED BY <2>1, <2>2, <2>3, <2>4 DEF StoreSound
<1> QED BY <1>13, <1>14, <1>15, <1>16, <1>17, Assembled

\* The store of a resumed run is the checkpoint.
LEMMA RestoreKeeps ==
  ASSUME TrainInvariant, Train!Restore
  PROVE  TrainInvariant'
PROOF
<1>1. CASE Train!Fails
  BY <1>1, FailsKeeps
<1>2. CASE Train!To("session") /\ store' = files[run.resume].tables
           /\ UNCHANGED <<backend, files, trainer, invocations>>
  <2>1. run.pc = "restore" /\ run \in RunFields /\ trainer \in TrainerFields
        /\ files \in [Names -> FileFields] /\ backend \in {"memory", "external"}
    BY TrainFields DEF Train!Restore
  <2>2. backend = "external" /\ run.resume # Train!NoPath /\ files[run.resume].saved
    BY <2>1 DEF TrainInvariant, StoreSound
  <2>3. run' = [run EXCEPT !.pc = "session"] /\ "session" \in RunStages
    BY <1>2 DEF Train!To, RunStages
  <2>4. /\ run' \in RunFields /\ run'.pc = "session" /\ run'.resume = run.resume
        /\ run'.batches = run.batches /\ run'.remaining = run.remaining /\ PathOf(run') = PathOf(run)
    BY <2>1, <2>3, Moved
  <2>5. store' \in Seq(TableOps)
    <3>1. run.resume \in Names
      BY <2>1, <2>2 DEF RunFields
    <3>2. files[run.resume] \in FileFields
      BY <2>1, <3>1
    <3> QED BY <1>2, <3>2 DEF FileFields
  <2>6. TypedTraining'
    BY <1>2, <2>1, <2>4, <2>5 DEF TypedTraining
  <2>7. CountsSound(run')
    <3>1. CountsSound(run)
      BY DEF TrainInvariant
    <3>2. run.remaining <= run.batches /\ run.remaining = run.batches
          /\ (run.batches = 0 => PathOf(run) # Train!NoPath)
      BY <2>1, <3>1 DEF CountsSound
    <3> QED BY <2>4, <3>2 DEF CountsSound
  <2>8. FilesSound(files')
    BY <1>2 DEF TrainInvariant
  <2>9. TablesSound(run', trainer') /\ GateSound(run', trainer') /\ PhasesSound(run', trainer')
    BY <2>4 DEF TablesSound, GateSound, PhasesSound, Going, Boundary
  <2>10. StoreSound(backend', store', files', run', trainer')
    BY <1>2, <2>2, <2>4 DEF StoreSound, Going, Boundary
  <2> QED BY <2>6, <2>7, <2>8, <2>9, <2>10, Assembled
<1> QED BY <1>1, <1>2 DEF Train!Restore

\* Before any batch: empty tables, and the checkpoint they are resumed from.
LEMMA OpenedIsReference ==
  ASSUME Train!TrainingAssumption, TrainInvariant, run.pc = "session",
         NEW opened, opened = IF run.resume # Train!NoPath THEN Train!ResumedTrainer(files[run.resume])
                              ELSE [Train!NewTrainer EXCEPT
                                      !.tables = IF backend = "external" THEN store ELSE <<>>]
  PROVE  /\ opened \in TrainerFields /\ Train!IsReference(opened)
         /\ backend = "external" => store = opened.tables
PROOF
<1>1. run \in RunFields /\ files \in [Names -> FileFields] /\ store \in Seq(TableOps)
      /\ backend \in {"memory", "external"}
  BY TrainFields
<1>2. Train!NewTrainer = [batches |-> 0, trajectories |-> 0, tables |-> <<>>, baseline |-> 0, phase |-> 0]
  BY DEF Train!NewTrainer
<1>3. CASE run.resume # Train!NoPath
  <2> DEFINE f == files[run.resume]
  <2>1. run.resume \in Names
    BY <1>1, <1>3 DEF RunFields
  <2>2. f \in FileFields /\ f.saved
    BY <1>1, <1>3, <2>1 DEF TrainInvariant, StoreSound
  <2>3. Train!IsReference(f)
    BY <2>1, <2>2 DEF TrainInvariant, FilesSound
  <2>4. backend = "external" => store = f.tables
    BY <1>3 DEF TrainInvariant, StoreSound
  <2>5. opened = Train!ResumedTrainer(f)
    BY <1>3
  <2> HIDE DEF f
  <2>6. f.batches \in Nat /\ f.trajectories \in Nat /\ f.tables \in Seq(TableOps) /\ f.baseline \in Nat
    BY <2>2 DEF FileFields
  <2> DEFINE grown == IF backend = "memory" THEN f.tables ELSE store
  <2>7. grown = f.tables
    BY <1>1, <2>4
  <2>8. opened = [Train!NewTrainer EXCEPT !.batches = f.batches, !.trajectories = f.trajectories,
                                    !.baseline = f.baseline, !.tables = grown]
    BY <2>5, Zenon DEF Train!ResumedTrainer
  <2> HIDE DEF grown
  <2>9. /\ opened.batches = f.batches /\ opened.trajectories = f.trajectories
        /\ opened.baseline = f.baseline /\ opened.tables = f.tables
    BY <1>2, <2>7, <2>8
  <2>10. opened \in TrainerFields
    <3>1. Train!NewTrainer \in TrainerFields
      BY <1>2 DEF TrainerFields
    <3> QED BY <2>6, <2>7, <2>8, <3>1 DEF TrainerFields
  <2>11. Train!IsReference(opened)
    BY <2>3, <2>9, Zenon DEF Train!IsReference
  <2> QED BY <2>4, <2>9, <2>10, <2>11
<1>4. CASE run.resume = Train!NoPath
  <2>1. backend = "external" => store = <<>>
    BY <1>4 DEF TrainInvariant, StoreSound
  <2>2. opened = [Train!NewTrainer EXCEPT !.tables = <<>>]
    BY <1>4, <2>1
  <2>3. /\ opened.batches = 0 /\ opened.trajectories = 0 /\ opened.tables = <<>> /\ opened.baseline = 0
        /\ opened \in TrainerFields
    <3>1. opened = Train!NewTrainer
      BY <1>2, <2>2
    <3>2. <<>> \in Seq(TableOps)
      OBVIOUS
    <3>3. Train!NewTrainer \in TrainerFields
      BY <1>2, <3>2 DEF TrainerFields
    <3>4. /\ Train!NewTrainer.batches = 0 /\ Train!NewTrainer.trajectories = 0
          /\ Train!NewTrainer.tables = <<>>
          /\ Train!NewTrainer.baseline = 0
      BY <1>2
    <3> QED BY <3>1, <3>3, <3>4, Zenon
  <2>4. PerBatch \in Nat /\ Schedule.window \in Nat
    BY DEF Train!TrainingAssumption
  <2>5. opened.trajectories = opened.batches * PerBatch
    BY <2>3, <2>4
  <2>6. opened.baseline = IF Schedule.window # 0 /\ opened.batches >= Schedule.window
                          THEN Schedule.window ELSE 0
    BY <2>3, <2>4
  <2>7. opened.tables = Train!Reference(opened.batches)
    BY <2>3, ReferenceGrows
  <2>8. Train!IsReference(opened)
    BY <2>5, <2>6, <2>7, Zenon DEF Train!IsReference
  <2> QED BY <2>1, <2>3, <2>8
<1> QED BY <1>3, <1>4

\* The session begins where the checkpoint ends, and stops below the stage.
LEMMA SessionKeeps ==
  ASSUME Train!TrainingAssumption, TrainInvariant, Train!Session
  PROVE  TrainInvariant'
PROOF
<1>1. CASE Train!Fails
  BY <1>1, FailsKeeps
<1>2. CASE ~Train!Fails
  <2> DEFINE opened == IF run.resume # Train!NoPath THEN Train!ResumedTrainer(files[run.resume])
                       ELSE [Train!NewTrainer EXCEPT
                               !.tables = IF backend = "external" THEN store ELSE <<>>]
             pc == IF run.batches = 0 THEN "save" ELSE "chunk"
             phase == IF run.batches = 0 THEN Train!Disabled ELSE Train!AfterWorkerPool
  <2>1. /\ run.pc = "session" /\ run' = [run EXCEPT !.pc = pc]
        /\ (Train!ReachesStage(opened.trajectories, run.batches) => run.authorized)
        /\ trainer' = [opened EXCEPT !.phase = phase]
        /\ UNCHANGED <<backend, store, files>>
    BY <1>2 DEF Train!Session, Train!To
  <2>2. pc \in RunStages /\ phase \in Nat
    BY DEF RunStages, Train!Disabled, Train!AfterWorkerPool
  <2>3. run.batches = 0 => pc = "save" /\ phase = Train!Disabled
    OBVIOUS
  <2>4. run.batches # 0 => pc = "chunk" /\ phase = Train!AfterColdBatch
    BY DEF Train!AfterWorkerPool, Train!AfterColdBatch
  <2>5. /\ opened \in TrainerFields /\ Train!IsReference(opened)
        /\ backend = "external" => store = opened.tables
    BY <2>1, OpenedIsReference
  <2> HIDE DEF opened, pc, phase
  <2>6. /\ run \in RunFields /\ files \in [Names -> FileFields] /\ store \in Seq(TableOps)
        /\ backend \in {"memory", "external"} /\ run.batches \in Nat /\ run.remaining \in Nat
    BY TrainFields
  <2>7. run.remaining = run.batches /\ (run.batches = 0 => PathOf(run) # Train!NoPath)
    <3>1. CountsSound(run)
      BY DEF TrainInvariant
    <3> QED BY <2>1, <3>1 DEF CountsSound
  <2>8. /\ run' \in RunFields /\ run'.pc = pc /\ run'.batches = run.batches
        /\ run'.authorized = run.authorized /\ run'.remaining = run.remaining /\ PathOf(run') = PathOf(run)
    BY <2>1, <2>2, <2>6, Moved
  <2>9. /\ trainer' \in TrainerFields /\ trainer'.batches = opened.batches
        /\ trainer'.trajectories = opened.trajectories /\ trainer'.tables = opened.tables
        /\ trainer'.baseline = opened.baseline /\ trainer'.phase = phase
    BY <2>1, <2>2, <2>5 DEF TrainerFields
  <2>10. TypedTraining'
    BY <2>1, <2>6, <2>8, <2>9 DEF TypedTraining
  <2>11. CountsSound(run')
    <3>1. CASE run.batches = 0
      BY <2>3, <2>7, <2>8, <3>1 DEF CountsSound
    <3>2. CASE run.batches # 0
      BY <2>4, <2>6, <2>7, <2>8, <3>2 DEF CountsSound
    <3> QED BY <3>1, <3>2
  <2>12. FilesSound(files')
    BY <2>1 DEF TrainInvariant
  <2>13. Train!IsReference(trainer')
    BY <2>5, <2>9, Zenon DEF Train!IsReference
  <2>14. pc \in {"save", "chunk"}
    BY <2>3, <2>4
  <2>15. TablesSound(run', trainer')
    BY <2>8, <2>13, <2>14 DEF TablesSound
  <2>16. StoreSound(backend', store', files', run', trainer')
    BY <2>1, <2>5, <2>8, <2>9, <2>14 DEF StoreSound
  <2>17. Ahead(run') = run.batches
    BY <2>7, <2>8, <2>14 DEF Ahead
  <2>18. GateSound(run', trainer')
    <3>1. opened.trajectories \in Nat
      BY <2>5 DEF TrainerFields
    <3>2. ~run'.authorized => opened.trajectories + run.batches * PerBatch < StageGate
      BY <2>1, <2>6, <2>8, <3>1, BelowStage
    <3> QED BY <2>9, <2>17, <3>2 DEF GateSound
  <2>19. PhasesSound(run', trainer')
    <3>1. CASE run.batches = 0
      BY <2>3, <2>8, <2>9, <3>1 DEF PhasesSound
    <3>2. CASE run.batches # 0
      <4>1. trainer'.batches \in Nat
        BY <2>9 DEF TrainerFields
      <4>2. trainer'.batches >= run'.batches - Ahead(run') /\ Ahead(run') # 0
        BY <2>6, <2>8, <2>17, <3>2, <4>1
      <4> QED BY <2>4, <2>8, <2>9, <3>2, <4>2 DEF PhasesSound
    <3> QED BY <3>1, <3>2
  <2> QED BY <2>10, <2>11, <2>12, <2>15, <2>16, <2>18, <2>19, Assembled
<1> QED BY <1>1, <1>2

\* A chunk takes what it counts from what remains.
LEMMA ChunkKeeps ==
  ASSUME Train!TrainingAssumption, TrainInvariant, Train!Chunk
  PROVE  TrainInvariant'
PROOF
<1> DEFINE size == Train!Min({run.remaining, CheckpointInterval})
<1>1. /\ run.pc = "chunk" /\ run' = [run EXCEPT !.pc = "batch", !.chunk = size]
      /\ UNCHANGED <<backend, store, files, trainer>>
  BY DEF Train!Chunk
<1>2. /\ run \in RunFields /\ trainer \in TrainerFields /\ files \in [Names -> FileFields]
      /\ store \in Seq(TableOps) /\ backend \in {"memory", "external"}
      /\ run.batches \in Nat /\ run.remaining \in Nat
  BY TrainFields
<1>3. CountsSound(run) /\ TablesSound(run, trainer) /\ StoreSound(backend, store, files, run, trainer)
      /\ GateSound(run, trainer) /\ PhasesSound(run, trainer) /\ FilesSound(files)
  BY DEF TrainInvariant
<1>4. run.remaining > 0 /\ run.remaining <= run.batches
  BY <1>1, <1>3 DEF CountsSound
<1>5. /\ size = run.remaining - LeftOver(run.remaining) /\ LeftOver(run.remaining) \in Nat
      /\ LeftOver(run.remaining) < run.remaining /\ run.remaining - LeftOver(run.remaining) <= CheckpointInterval
  BY <1>2, <1>4, LeftOverIs
<1> HIDE DEF size
<1>6. size \in Nat /\ size > 0 /\ size <= run.remaining /\ size <= CheckpointInterval
  BY <1>2, <1>5
<1>7. /\ run' \in RunFields /\ run'.pc = "batch" /\ run'.batches = run.batches /\ run'.chunk = size
      /\ run'.authorized = run.authorized /\ run'.remaining = run.remaining
  BY <1>1, <1>2, <1>6 DEF RunFields, RunStages
<1>8. TypedTraining'
  BY <1>1, <1>2, <1>7 DEF TypedTraining
<1>9. CountsSound(run')
  BY <1>4, <1>6, <1>7 DEF CountsSound
<1>10. FilesSound(files')
  BY <1>1, <1>3
<1>11. TablesSound(run', trainer')
  <2>1. Train!IsReference(trainer)
    BY <1>1, <1>3 DEF TablesSound, Boundary
  <2> QED BY <1>1, <1>7, <2>1 DEF TablesSound
<1>12. StoreSound(backend', store', files', run', trainer')
  <2>1. backend = "external" => store = trainer.tables
    BY <1>1, <1>3 DEF StoreSound, Going, Boundary
  <2> QED BY <1>1, <1>7, <2>1 DEF StoreSound
<1>13. Ahead(run') = run.remaining /\ Ahead(run) = run.remaining
  <2>1. Ahead(run') = LeftOver(run.remaining) + size
    BY <1>7, Zenon DEF Ahead
  <2>2. Ahead(run) = run.remaining
    BY <1>1 DEF Ahead
  <2> QED BY <1>2, <1>5, <2>1, <2>2
<1>14. GateSound(run', trainer')
  <2>1. ~run.authorized => trainer.trajectories + run.remaining * PerBatch < StageGate
    BY <1>1, <1>3, <1>13 DEF GateSound, Going, Boundary
  <2> QED BY <1>1, <1>7, <1>13, <2>1 DEF GateSound
<1>15. PhasesSound(run', trainer')
  <2>1. run.batches > 0
    BY <1>2, <1>4
  <2>2. /\ trainer.batches >= run.batches - run.remaining
        /\ trainer.phase \in {Train!AfterColdBatch, Train!AfterSteadyBatch, Train!BeforeCheckpoint}
    BY <1>1, <1>3, <1>13, <2>1 DEF PhasesSound, Going, Boundary
  <2>3. Ahead(run') # 0 /\ run'.batches # 0
    BY <1>2, <1>4, <1>7, <1>13, <2>1
  <2> QED BY <1>1, <1>7, <1>13, <2>2, <2>3 DEF PhasesSound
<1> QED BY <1>8, <1>9, <1>10, <1>11, <1>12, <1>14, <1>15, Assembled

\* The late window opens once, before its first batch.
LEMMA BaselineOf ==
  ASSUME Train!TrainingAssumption, NEW t \in TrainerFields, t = trainer,
         t.baseline = IF Schedule.window # 0 /\ t.batches >= Schedule.window THEN Schedule.window ELSE 0
  PROVE  /\ Train!Baseline(t.batches + 1) \in Nat
         /\ Train!Baseline(t.batches + 1) =
              IF Schedule.window # 0 /\ t.batches + 1 >= Schedule.window THEN Schedule.window ELSE 0
PROOF
<1> DEFINE w == Schedule.window
           b == t.batches
<1>1. w \in Nat /\ b \in Nat
  BY DEF Train!TrainingAssumption, TrainerFields
<1>2. Train!Baseline(b + 1) = IF w # 0 /\ b + 1 = w /\ t.baseline = 0 THEN b + 1 ELSE t.baseline
  BY Zenon DEF Train!Baseline
<1>3. t.baseline = IF w # 0 /\ b >= w THEN w ELSE 0
  OBVIOUS
<1> HIDE DEF w, b
<1>4. /\ Train!Baseline(b + 1) \in Nat
      /\ Train!Baseline(b + 1) = IF w # 0 /\ b + 1 >= w THEN w ELSE 0
  BY <1>1, <1>2, <1>3
<1> QED BY <1>4 DEF w, b

\* A batch applies the operation of its number and leaves one fewer ahead.
LEMMA RunBatchKeeps ==
  ASSUME Train!TrainingAssumption, TrainInvariant, Train!RunBatch
  PROVE  TrainInvariant'
PROOF
<1> DEFINE b == trainer.batches
           ops == <<Train!BatchOp(trainer.batches, trainer.trajectories)>>
<1>1. /\ run \in RunFields /\ trainer \in TrainerFields /\ files \in [Names -> FileFields]
      /\ store \in Seq(TableOps) /\ backend \in {"memory", "external"}
      /\ run.batches \in Nat /\ run.remaining \in Nat /\ run.chunk \in Nat
      /\ b \in Nat /\ trainer.trajectories \in Nat /\ trainer.tables \in Seq(TableOps)
  BY TrainFields
<1>2. CountsSound(run) /\ TablesSound(run, trainer) /\ StoreSound(backend, store, files, run, trainer)
      /\ GateSound(run, trainer) /\ PhasesSound(run, trainer) /\ FilesSound(files)
  BY DEF TrainInvariant
<1>3. ops \in Seq(TableOps)
  BY <1>1, BatchOps
<1>4. CASE Train!CommitThrows(ops)
  <2> HIDE DEF ops
  <2> QED BY <1>3, <1>4, CommitThrowsKeeps
<1>5. CASE ~Train!CommitThrows(ops)
  <2>1. /\ run.pc = "batch" /\ run' = [run EXCEPT !.pc = "transform"]
        /\ trainer' = [trainer EXCEPT !.batches = @ + 1, !.trajectories = @ + PerBatch,
                                      !.tables = @ \o ops, !.baseline = Train!Baseline(b + 1)]
        /\ store' = (IF backend = "external" THEN store \o ops ELSE store)
        /\ UNCHANGED <<backend, files>>
    BY <1>5, Zenon DEF Train!RunBatch, Train!Applied, Train!To
  <2>2. Train!IsReference(trainer)
    BY <1>2, <2>1 DEF TablesSound, Boundary
  <2>3. /\ trainer.tables = Train!Reference(b) /\ trainer.trajectories = b * PerBatch
        /\ trainer.baseline = IF Schedule.window # 0 /\ b >= Schedule.window THEN Schedule.window ELSE 0
    BY <2>2 DEF Train!IsReference
  <2>4. Train!Baseline(b + 1) \in Nat
        /\ Train!Baseline(b + 1) =
             IF Schedule.window # 0 /\ b + 1 >= Schedule.window THEN Schedule.window ELSE 0
    BY <1>1, <2>3, BaselineOf
  <2>5. ops = Train!ReferenceBatch(b + 1)
    BY <1>1, <2>3, BatchOps
  <2>6. PerBatch \in Nat
    BY DEF Train!TrainingAssumption
  <2> HIDE DEF ops
  <2>7. store \o ops \in Seq(TableOps) /\ trainer.tables \o ops \in Seq(TableOps)
    BY <1>1, <1>3
  <2>8. /\ trainer'.batches = b + 1 /\ trainer'.trajectories = trainer.trajectories + PerBatch
        /\ trainer'.tables = trainer.tables \o ops /\ trainer'.baseline = Train!Baseline(b + 1)
        /\ trainer'.phase = trainer.phase
    BY <1>1, <2>1 DEF TrainerFields
  <2>9. trainer' \in TrainerFields
    <3> DEFINE n == b + 1
               m == trainer.trajectories + PerBatch
               grown == trainer.tables \o ops
               baseline == Train!Baseline(b + 1)
    <3>1. n \in Nat /\ m \in Nat /\ grown \in Seq(TableOps) /\ baseline \in Nat
      BY <1>1, <2>4, <2>6, <2>7
    <3>2. trainer' = [trainer EXCEPT !.batches = n, !.trajectories = m, !.tables = grown,
                                     !.baseline = baseline]
      BY <2>1
    <3> HIDE DEF n, m, grown, baseline
    <3> QED BY <1>1, <3>1, <3>2 DEF TrainerFields
  <2>10. "transform" \in RunStages
    BY DEF RunStages
  <2>11. /\ run' \in RunFields /\ run'.pc = "transform" /\ run'.batches = run.batches
         /\ run'.chunk = run.chunk /\ run'.authorized = run.authorized /\ run'.remaining = run.remaining
    BY <1>1, <2>1, <2>10, Moved
  <2>12. store' \in Seq(TableOps)
    BY <1>1, <2>1, <2>7
  <2>13. TypedTraining'
    BY <1>1, <2>1, <2>9, <2>11, <2>12 DEF TypedTraining
  <2>14. CountsSound(run')
    <3>1. run.remaining <= run.batches /\ run.remaining > 0 /\ run.chunk > 0 /\ run.chunk <= run.remaining
          /\ run.chunk <= CheckpointInterval
      BY <1>2, <2>1 DEF CountsSound
    <3> QED BY <2>11, <3>1 DEF CountsSound
  <2>15. FilesSound(files')
    BY <1>2, <2>1
  <2>16. TablesSound(run', trainer')
    <3>1. trainer'.batches > 0 /\ trainer'.batches - 1 = b
      <4>1. b \in Nat /\ trainer'.batches = b + 1
        BY <1>1, <2>8, Zenon
      <4> HIDE DEF b
      <4> QED BY <4>1
    <3>2. trainer'.tables = Train!Reference(trainer'.batches - 1) \o Train!ReferenceBatch(trainer'.batches)
      BY <2>3, <2>5, <2>8, <3>1, Zenon
    <3>3. trainer'.trajectories = trainer'.batches * PerBatch
      BY <1>1, <2>3, <2>6, <2>8
    <3>4. trainer'.baseline =
            IF Schedule.window # 0 /\ trainer'.batches >= Schedule.window THEN Schedule.window ELSE 0
      BY <2>4, <2>8, Zenon
    <3>5. HalfDone(trainer')
      BY <3>1, <3>2, <3>3, <3>4, Zenon DEF HalfDone
    <3> QED BY <2>11, <3>5 DEF TablesSound, Boundary
  <2>17. StoreSound(backend', store', files', run', trainer')
    <3>1. backend = "external" => store = trainer.tables
      BY <1>2, <2>1 DEF StoreSound, Going, Boundary
    <3>2. backend' = "external" => store' = trainer'.tables
      BY <2>1, <2>8, <3>1
    <3> QED BY <2>11, <3>2 DEF StoreSound
  <2>18. /\ Ahead(run) \in Nat /\ Ahead(run) > 0 /\ Ahead(run') = Ahead(run) - 1
    <3>1. Ahead(run) \in Nat /\ Ahead(run) > 0
      BY <1>1, <1>2, <2>1, AheadIs
    <3>2. Ahead(run) = LeftOver(run.remaining) + run.chunk
      BY <2>1 DEF Ahead
    <3>3. Ahead(run') = LeftOver(run.remaining) + run.chunk - 1
      BY <2>11 DEF Ahead
    <3>4. LeftOver(run.remaining) \in Nat
      BY <1>1, LeftOverIs
    <3> HIDE DEF b, ops
    <3> QED BY <1>1, <3>1, <3>2, <3>3, <3>4
  <2>19. GateSound(run', trainer')
    <3>1. ~run.authorized => trainer.trajectories + Ahead(run) * PerBatch < StageGate
      BY <1>2, <2>1 DEF GateSound, Going, Boundary
    <3> DEFINE a == Ahead(run)
               t == trainer.trajectories
    <3>2. a \in Nat /\ a > 0 /\ t \in Nat
      BY <1>1, <2>18
    <3> HIDE DEF a, t
    <3>3. (t + PerBatch) + (a - 1) * PerBatch = t + a * PerBatch
      BY <2>6, <3>2
    <3> QED BY <2>8, <2>11, <2>18, <3>1, <3>3 DEF GateSound, a, t
  <2>20. PhasesSound(run', trainer')
    <3>1. run.batches > 0
      BY <1>1, <1>2, <2>1 DEF CountsSound
    <3>2. /\ b >= run.batches - Ahead(run)
          /\ trainer.phase \in {Train!AfterColdBatch, Train!AfterSteadyBatch, Train!BeforeCheckpoint}
      BY <1>2, <2>1, <3>1 DEF PhasesSound, Going, Boundary
    <3>3. trainer'.batches >= run'.batches - Ahead(run')
      BY <1>1, <2>8, <2>11, <2>18, <3>2
    <3>4. run'.batches # 0
      BY <2>11, <3>1
    <3> QED BY <2>8, <2>11, <3>2, <3>3, <3>4 DEF PhasesSound
  <2> QED BY <2>13, <2>14, <2>15, <2>16, <2>17, <2>19, <2>20, Assembled
<1> QED BY <1>4, <1>5

\* The discount and the pruning that are due complete the batch.
LEMMA TransformKeeps ==
  ASSUME Train!TrainingAssumption, TrainInvariant, Train!Transform
  PROVE  TrainInvariant'
PROOF
<1> DEFINE b == trainer.batches
           ops == Train!TransformOps(trainer.batches)
<1>1. /\ run \in RunFields /\ trainer \in TrainerFields /\ files \in [Names -> FileFields]
      /\ store \in Seq(TableOps) /\ backend \in {"memory", "external"}
      /\ run.batches \in Nat /\ run.remaining \in Nat /\ run.chunk \in Nat
      /\ b \in Nat /\ trainer.trajectories \in Nat /\ trainer.tables \in Seq(TableOps)
  BY TrainFields
<1>2. CountsSound(run) /\ TablesSound(run, trainer) /\ StoreSound(backend, store, files, run, trainer)
      /\ GateSound(run, trainer) /\ PhasesSound(run, trainer) /\ FilesSound(files)
  BY DEF TrainInvariant
<1>3. ops \in Seq(TableOps)
  BY <1>1, BatchOps
<1>4. CASE Train!CommitThrows(ops)
  <2> HIDE DEF ops
  <2> QED BY <1>3, <1>4, CommitThrowsKeeps
<1>5. CASE ~Train!CommitThrows(ops)
  <2>1. /\ run.pc = "transform" /\ run' = [run EXCEPT !.pc = "after"]
        /\ trainer' = [trainer EXCEPT !.tables = @ \o ops]
        /\ store' = (IF backend = "external" THEN store \o ops ELSE store)
        /\ UNCHANGED <<backend, files>>
    BY <1>5, Zenon DEF Train!Transform, Train!Applied, Train!To
  <2>2. HalfDone(trainer)
    BY <1>2, <2>1 DEF TablesSound
  <2>3. /\ b > 0 /\ trainer.tables = Train!Reference(b - 1) \o Train!ReferenceBatch(b)
        /\ trainer.trajectories = b * PerBatch
        /\ trainer.baseline = IF Schedule.window # 0 /\ b >= Schedule.window THEN Schedule.window ELSE 0
    BY <2>2, Zenon DEF HalfDone
  <2>4. b \in Nat \ {0} /\ b - 1 \in Nat /\ (b - 1) + 1 = b
    BY <1>1, <2>3
  <2>5. ops = Train!ReferenceTransform(b)
    BY <2>4, ScheduledOps
  <2> HIDE DEF ops
  <2>6. trainer.tables \o ops = Train!Reference(b)
    <3>1. Train!Reference((b - 1) + 1) =
            Train!Reference(b - 1) \o Train!ReferenceBatch((b - 1) + 1)
              \o Train!ReferenceTransform((b - 1) + 1)
      BY <2>4, ReferenceGrows
    <3> QED BY <2>3, <2>4, <2>5, <3>1, Zenon
  <2>7. store \o ops \in Seq(TableOps) /\ trainer.tables \o ops \in Seq(TableOps)
    BY <1>1, <1>3
  <2>8. /\ trainer' \in TrainerFields /\ trainer'.batches = b
        /\ trainer'.trajectories = trainer.trajectories
        /\ trainer'.tables = trainer.tables \o ops /\ trainer'.baseline = trainer.baseline
        /\ trainer'.phase = trainer.phase
    <3> DEFINE grown == trainer.tables \o ops
    <3>1. trainer' = [trainer EXCEPT !.tables = grown] /\ grown \in Seq(TableOps)
      BY <2>1, <2>7
    <3> HIDE DEF grown
    <3>2. trainer' \in TrainerFields
      BY <1>1, <3>1 DEF TrainerFields
    <3>3. trainer'.tables = grown /\ trainer'.batches = b
          /\ trainer'.trajectories = trainer.trajectories /\ trainer'.baseline = trainer.baseline
          /\ trainer'.phase = trainer.phase
      BY <1>1, <3>1 DEF TrainerFields
    <3> QED BY <3>2, <3>3 DEF grown
  <2>9. "after" \in RunStages
    BY DEF RunStages
  <2>10. /\ run' \in RunFields /\ run'.pc = "after" /\ run'.batches = run.batches
         /\ run'.chunk = run.chunk /\ run'.authorized = run.authorized /\ run'.remaining = run.remaining
    BY <1>1, <2>1, <2>9, Moved
  <2>11. store' \in Seq(TableOps)
    BY <1>1, <2>1, <2>7
  <2>12. TypedTraining'
    BY <1>1, <2>1, <2>8, <2>10, <2>11 DEF TypedTraining
  <2>13. CountsSound(run')
    <3>1. run.remaining <= run.batches /\ run.remaining > 0 /\ run.chunk > 0 /\ run.chunk <= run.remaining
          /\ run.chunk <= CheckpointInterval
      BY <1>2, <2>1 DEF CountsSound
    <3> QED BY <2>10, <3>1 DEF CountsSound
  <2>14. FilesSound(files')
    BY <1>2, <2>1
  <2>15. TablesSound(run', trainer')
    <3>1. Train!IsReference(trainer')
      BY <2>3, <2>6, <2>8, Zenon DEF Train!IsReference
    <3> QED BY <2>10, <3>1 DEF TablesSound
  <2>16. StoreSound(backend', store', files', run', trainer')
    <3>1. backend = "external" => store = trainer.tables
      BY <1>2, <2>1 DEF StoreSound, Going
    <3>2. backend' = "external" => store' = trainer'.tables
      BY <2>1, <2>8, <3>1
    <3> QED BY <2>10, <3>2 DEF StoreSound
  <2>17. Ahead(run') = Ahead(run)
    BY <2>1, <2>10 DEF Ahead
  <2>18. GateSound(run', trainer')
    <3>1. ~run.authorized => trainer.trajectories + Ahead(run) * PerBatch < StageGate
      BY <1>2, <2>1 DEF GateSound, Going
    <3> QED BY <2>8, <2>10, <2>17, <3>1 DEF GateSound
  <2>19. PhasesSound(run', trainer')
    <3>1. run.batches > 0
      BY <1>1, <1>2, <2>1 DEF CountsSound
    <3>2. /\ b >= run.batches - Ahead(run)
          /\ trainer.phase \in {Train!AfterColdBatch, Train!AfterSteadyBatch, Train!BeforeCheckpoint}
      BY <1>2, <2>1, <3>1 DEF PhasesSound, Going
    <3>3. trainer'.batches >= run'.batches - Ahead(run') /\ run'.batches # 0
      BY <2>8, <2>10, <2>17, <3>1, <3>2
    <3> QED BY <2>8, <2>10, <3>2, <3>3 DEF PhasesSound
  <2> QED BY <2>12, <2>13, <2>14, <2>15, <2>16, <2>18, <2>19, Assembled
<1> QED BY <1>4, <1>5

\* The snapshots of a batch; the next batch of the chunk, or its end.
LEMMA AfterBatchKeeps ==
  ASSUME Train!TrainingAssumption, TrainInvariant, Train!AfterBatch
  PROVE  TrainInvariant'
PROOF
<1>1. /\ run \in RunFields /\ trainer \in TrainerFields /\ files \in [Names -> FileFields]
      /\ store \in Seq(TableOps) /\ backend \in {"memory", "external"}
      /\ run.batches \in Nat /\ run.remaining \in Nat /\ run.chunk \in Nat
      /\ trainer.batches \in Nat
  BY TrainFields
<1>2. CountsSound(run) /\ TablesSound(run, trainer) /\ StoreSound(backend, store, files, run, trainer)
      /\ GateSound(run, trainer) /\ PhasesSound(run, trainer) /\ FilesSound(files)
  BY DEF TrainInvariant
<1>3. CASE Train!Fails
  BY <1>3, FailsKeeps
<1>4. CASE ~Train!Fails
  <2> DEFINE phase == Train!BatchPhases(trainer.phase, trainer.batches)
             pc == IF run.chunk > 1 THEN "batch" ELSE "chunk_end"
             chunk == run.chunk - 1
  <2>1. /\ run.pc = "after" /\ run' = [run EXCEPT !.chunk = chunk, !.pc = pc]
        /\ trainer' = [trainer EXCEPT !.phase = phase]
        /\ UNCHANGED <<backend, store, files>>
    BY <1>4 DEF Train!AfterBatch
  <2>2. run.remaining <= run.batches /\ run.remaining > 0 /\ run.chunk > 0 /\ run.chunk <= run.remaining
        /\ run.chunk <= CheckpointInterval
    BY <1>2, <2>1 DEF CountsSound
  <2>3. chunk \in Nat /\ chunk <= run.remaining /\ chunk <= CheckpointInterval
        /\ (pc = "batch" => chunk > 0) /\ (pc = "chunk_end" => chunk = 0)
        /\ pc \in {"batch", "chunk_end"} /\ chunk = run.chunk - 1
    <3>1. CheckpointInterval \in Nat
      BY DEF Train!TrainingAssumption
    <3> QED BY <1>1, <2>2, <3>1
  <2> HIDE DEF chunk, pc
  <2>4. /\ run' \in RunFields /\ run'.pc = pc /\ run'.batches = run.batches
        /\ run'.chunk = chunk /\ run'.authorized = run.authorized /\ run'.remaining = run.remaining
    <3>1. pc \in RunStages
      BY <2>3 DEF RunStages
    <3> QED BY <1>1, <2>1, <2>3, <3>1 DEF RunFields
  <2>5. run.batches > 0 /\ run.batches # 0
    BY <1>1, <2>2
  <2>6. /\ trainer.batches >= run.batches - Ahead(run)
        /\ trainer.phase \in {Train!AfterColdBatch, Train!AfterSteadyBatch, Train!BeforeCheckpoint}
    BY <1>2, <2>1, <2>5 DEF PhasesSound, Going, Boundary
  <2>7. Ahead(run') = Ahead(run) /\ Ahead(run) \in Nat
    <3>1. LeftOver(run.remaining) \in Nat
      BY <1>1, LeftOverIs
    <3>2. Ahead(run) = LeftOver(run.remaining) + run.chunk - 1
      BY <2>1 DEF Ahead
    <3>3. pc = "batch" => Ahead(run') = LeftOver(run.remaining) + chunk
      BY <2>4 DEF Ahead
    <3>4. pc = "chunk_end" => Ahead(run') = LeftOver(run.remaining)
      BY <2>4 DEF Ahead
    <3> QED BY <1>1, <2>2, <2>3, <3>1, <3>2, <3>3, <3>4
  <2>8. /\ phase \in {Train!AfterColdBatch, Train!AfterSteadyBatch, Train!BeforeCheckpoint} /\ phase \in Nat
        /\ Ahead(run) = 0 => phase = Train!BeforeCheckpoint
    <3>1. Ahead(run) = 0 => trainer.batches >= run.batches
      BY <1>1, <2>6
    <3> HIDE DEF phase
    <3>2. phase =
            LET cold == IF trainer.phase = Train!AfterColdBatch THEN trainer.phase + 1 ELSE trainer.phase IN
            IF cold = Train!AfterSteadyBatch /\ trainer.batches >= run.batches THEN cold + 1 ELSE cold
      BY DEF phase, Train!BatchPhases
    <3> QED BY <2>6, <3>1, <3>2 DEF Train!AfterColdBatch, Train!AfterSteadyBatch, Train!BeforeCheckpoint
  <2> HIDE DEF phase
  <2>9. /\ trainer' \in TrainerFields /\ trainer'.batches = trainer.batches
        /\ trainer'.trajectories = trainer.trajectories /\ trainer'.tables = trainer.tables
        /\ trainer'.baseline = trainer.baseline /\ trainer'.phase = phase
    BY <1>1, <2>1, <2>8 DEF TrainerFields
  <2>10. TypedTraining'
    BY <1>1, <2>1, <2>4, <2>9 DEF TypedTraining
  <2>11. CountsSound(run')
    BY <2>2, <2>3, <2>4 DEF CountsSound
  <2>12. FilesSound(files')
    BY <1>2, <2>1
  <2>13. TablesSound(run', trainer')
    <3>1. Train!IsReference(trainer)
      BY <1>2, <2>1 DEF TablesSound, Boundary
    <3>2. Train!IsReference(trainer')
      BY <2>9, <3>1, Zenon DEF Train!IsReference
    <3> QED BY <2>3, <2>4, <3>2 DEF TablesSound
  <2>14. StoreSound(backend', store', files', run', trainer')
    <3>1. backend = "external" => store = trainer.tables
      BY <1>2, <2>1 DEF StoreSound, Going, Boundary
    <3> QED BY <2>1, <2>3, <2>4, <2>9, <3>1 DEF StoreSound
  <2>15. GateSound(run', trainer')
    <3>1. ~run.authorized => trainer.trajectories + Ahead(run) * PerBatch < StageGate
      BY <1>2, <2>1 DEF GateSound, Going, Boundary
    <3> QED BY <2>4, <2>7, <2>9, <3>1 DEF GateSound
  <2>16. PhasesSound(run', trainer')
    BY <2>3, <2>4, <2>5, <2>6, <2>7, <2>8, <2>9 DEF PhasesSound
  <2> QED BY <2>10, <2>11, <2>12, <2>13, <2>14, <2>15, <2>16, Assembled
<1> QED BY <1>3, <1>4

\* What is left after a chunk is what was ahead of its last batch.
LEMMA ChunkEndKeeps ==
  ASSUME Train!TrainingAssumption, TrainInvariant, Train!ChunkEnd
  PROVE  TrainInvariant'
PROOF
<1> DEFINE left == LeftOver(run.remaining)
           pc == IF PathOf(run) # Train!NoPath THEN "save" ELSE IF left # 0 THEN "chunk" ELSE "export"
<1>1. /\ run \in RunFields /\ trainer \in TrainerFields /\ files \in [Names -> FileFields]
      /\ store \in Seq(TableOps) /\ backend \in {"memory", "external"}
      /\ run.batches \in Nat /\ run.remaining \in Nat
  BY TrainFields
<1>2. CountsSound(run) /\ TablesSound(run, trainer) /\ StoreSound(backend, store, files, run, trainer)
      /\ GateSound(run, trainer) /\ PhasesSound(run, trainer) /\ FilesSound(files)
  BY DEF TrainInvariant
<1>3. Train!CheckpointPath = PathOf(run)
  BY DEF Train!CheckpointPath, PathOf
<1>4. /\ run.pc = "chunk_end" /\ run' = [run EXCEPT !.remaining = left, !.pc = pc]
      /\ UNCHANGED <<backend, store, files, trainer>>
  BY <1>3, Zenon DEF Train!ChunkEnd, LeftOver
<1>5. run.remaining <= run.batches /\ run.remaining > 0
  BY <1>2, <1>4 DEF CountsSound
<1>6. left \in Nat /\ left <= run.batches /\ run.batches # 0 /\ run.batches > 0
  <2>1. left \in Nat /\ left <= run.remaining
    BY <1>1, LeftOverIs
  <2> HIDE DEF left
  <2> QED BY <1>1, <1>5, <2>1
<1>7. Ahead(run) = left
  BY <1>4 DEF Ahead
<1>8. /\ pc \in {"save", "chunk", "export"} /\ (pc = "save" => PathOf(run) # Train!NoPath)
      /\ (pc = "chunk" => left # 0) /\ (pc = "export" => left = 0 /\ PathOf(run) = Train!NoPath)
  <2> HIDE DEF left
  <2> QED OBVIOUS
<1> HIDE DEF left, pc
<1>9. /\ run' \in RunFields /\ run'.pc = pc /\ run'.batches = run.batches
      /\ run'.authorized = run.authorized /\ run'.remaining = left
      /\ run'.target = run.target /\ run'.resume = run.resume
  <2>1. pc \in RunStages
    BY <1>8 DEF RunStages
  <2> QED BY <1>1, <1>4, <1>6, <2>1 DEF RunFields
<1>10. PathOf(run') = PathOf(run)
  BY <1>9 DEF PathOf
<1>11. Ahead(run') = left
  BY <1>8, <1>9 DEF Ahead
<1>12. TypedTraining'
  BY <1>1, <1>4, <1>9 DEF TypedTraining
<1>13. CountsSound(run')
  BY <1>6, <1>8, <1>9, <1>10 DEF CountsSound
<1>14. FilesSound(files')
  BY <1>2, <1>4
<1>15. TablesSound(run', trainer')
  <2>1. Train!IsReference(trainer)
    BY <1>2, <1>4 DEF TablesSound, Boundary
  <2> QED BY <1>4, <1>8, <1>9, <2>1 DEF TablesSound
<1>16. StoreSound(backend', store', files', run', trainer')
  <2>1. backend = "external" => store = trainer.tables
    BY <1>2, <1>4 DEF StoreSound, Going, Boundary
  <2> QED BY <1>4, <1>8, <1>9, <2>1 DEF StoreSound
<1>17. GateSound(run', trainer')
  <2>1. ~run.authorized => trainer.trajectories + left * PerBatch < StageGate
    BY <1>2, <1>4, <1>7 DEF GateSound, Going, Boundary
  <2> QED BY <1>4, <1>9, <1>11, <2>1 DEF GateSound
<1>18. PhasesSound(run', trainer')
  <2>1. /\ trainer.batches >= run.batches - left
        /\ trainer.phase \in {Train!AfterColdBatch, Train!AfterSteadyBatch, Train!BeforeCheckpoint}
        /\ left = 0 => trainer.phase = Train!BeforeCheckpoint
    BY <1>2, <1>4, <1>6, <1>7 DEF PhasesSound, Going, Boundary
  <2> QED BY <1>4, <1>6, <1>8, <1>9, <1>10, <1>11, <2>1 DEF PhasesSound
<1> QED BY <1>12, <1>13, <1>14, <1>15, <1>16, <1>17, <1>18, Assembled

\* A saved checkpoint is the trainer between two batches; the last one of an
\* invocation finds the snapshots at the checkpoint.
LEMMA SaveKeeps ==
  ASSUME TrainInvariant, Train!Save
  PROVE  TrainInvariant'
PROOF
<1> DEFINE last == run.remaining = 0
           path == PathOf(run)
           pc == IF last THEN "export" ELSE "chunk"
           phase == IF last THEN Train!Recorded(trainer.phase, 2) ELSE trainer.phase
<1>1. /\ run \in RunFields /\ trainer \in TrainerFields /\ files \in [Names -> FileFields]
      /\ store \in Seq(TableOps) /\ backend \in {"memory", "external"}
      /\ run.batches \in Nat /\ run.remaining \in Nat /\ trainer.phase \in Nat
  BY TrainFields
<1>2. CountsSound(run) /\ TablesSound(run, trainer) /\ StoreSound(backend, store, files, run, trainer)
      /\ GateSound(run, trainer) /\ PhasesSound(run, trainer) /\ FilesSound(files)
  BY DEF TrainInvariant
<1>3. CASE Train!Fails
  BY <1>3, FailsKeeps
<1>4. CASE ~Train!Fails
  <2>1. run.pc = "save"
    BY DEF Train!Save
  <2>2. Ahead(run) = run.remaining
    BY <2>1 DEF Ahead
  <2>3. path # Train!NoPath /\ path \in Names /\ run.remaining <= run.batches
    <3>1. PathOf(run) # Train!NoPath /\ run.remaining <= run.batches
      BY <1>2, <2>1 DEF CountsSound
    <3>2. PathOf(run) \in Names \cup {Train!NoPath}
      BY <1>1 DEF PathOf, RunFields
    <3> QED BY <3>1, <3>2
  <2>4. run.batches = 0 => trainer.phase = Train!Disabled
    BY <1>2, <2>1 DEF PhasesSound, Going, Boundary
  <2>5. run.batches > 0 =>
          /\ trainer.batches >= run.batches - run.remaining
          /\ trainer.phase \in {Train!AfterColdBatch, Train!AfterSteadyBatch, Train!BeforeCheckpoint}
          /\ run.remaining = 0 => trainer.phase = Train!BeforeCheckpoint
    BY <1>2, <2>1, <2>2 DEF PhasesSound, Going, Boundary
  <2>6. last => Train!InOrder(trainer.phase, Train!BeforeCheckpoint)
    BY <1>1, <2>4, <2>5 DEF Train!InOrder
  <2>7. Train!CheckpointPath = path
    BY DEF Train!CheckpointPath, PathOf
  <2>8. /\ files' = [files EXCEPT ![Train!CheckpointPath] = Train!CheckpointOf]
        /\ trainer' = (IF last THEN [trainer EXCEPT !.phase = Train!Recorded(@, 2)] ELSE trainer)
        /\ run' = [run EXCEPT !.pc = pc]
        /\ UNCHANGED <<backend, store>>
    BY <1>4, <2>6, Zenon DEF Train!Save, Train!To
  <2>9. Train!IsReference(trainer)
    BY <1>2, <2>1 DEF TablesSound, Boundary
  <2>10. /\ Train!CheckpointOf \in FileFields /\ Train!IsReference(Train!CheckpointOf)
    <3>1. /\ Train!CheckpointOf.batches = trainer.batches
          /\ Train!CheckpointOf.trajectories = trainer.trajectories
          /\ Train!CheckpointOf.tables = trainer.tables /\ Train!CheckpointOf.baseline = trainer.baseline
      BY DEF Train!CheckpointOf
    <3>2. Train!CheckpointOf \in FileFields
      BY <1>1 DEF Train!CheckpointOf, TrainerFields, FileFields
    <3>3. Train!IsReference(Train!CheckpointOf)
      BY <2>9, <3>1, Zenon DEF Train!IsReference
    <3> QED BY <3>2, <3>3
  <2> HIDE DEF path, pc, phase, last
  <2>11. files' \in [Names -> FileFields] /\ FilesSound(files')
    <3> DEFINE c == Train!CheckpointOf
    <3>1. files' = [files EXCEPT ![path] = c] /\ c \in FileFields /\ Train!IsReference(c)
      BY <2>7, <2>8, <2>10
    <3> HIDE DEF c
    <3>2. files' \in [Names -> FileFields]
      BY <1>1, <3>1
    <3>3. ASSUME NEW name \in Names, files'[name].saved PROVE Train!IsReference(files'[name])
      <4>1. CASE name = path
        BY <1>1, <3>1, <4>1
      <4>2. CASE name # path
        <5>1. files'[name] = files[name]
          BY <1>1, <3>1, <4>2
        <5> QED BY <1>2, <3>3, <5>1 DEF FilesSound
      <4> QED BY <4>1, <4>2
    <3> QED BY <3>2, <3>3 DEF FilesSound
  <2>12. phase \in Nat /\ (last => phase = Train!Recorded(trainer.phase, 2))
         /\ (~last => phase = trainer.phase)
    BY <1>1 DEF phase, Train!Recorded
  <2>13. /\ trainer' \in TrainerFields /\ trainer'.batches = trainer.batches
         /\ trainer'.trajectories = trainer.trajectories /\ trainer'.tables = trainer.tables
         /\ trainer'.baseline = trainer.baseline /\ trainer'.phase = phase
    <3>1. CASE last
      <4>1. trainer' = [trainer EXCEPT !.phase = phase]
        BY <2>8, <2>12, <3>1
      <4> QED BY <1>1, <2>12, <4>1 DEF TrainerFields
    <3>2. CASE ~last
      BY <1>1, <2>8, <2>12, <3>2
    <3> QED BY <3>1, <3>2
  <2>14. /\ pc \in {"export", "chunk"} /\ (pc = "export" => run.remaining = 0)
         /\ (pc = "chunk" => run.remaining # 0)
    BY DEF pc, last
  <2>15. /\ run' \in RunFields /\ run'.pc = pc /\ run'.batches = run.batches
         /\ run'.authorized = run.authorized /\ run'.remaining = run.remaining /\ PathOf(run') = path
    <3>1. pc \in RunStages
      BY <2>14 DEF RunStages
    <3> QED BY <1>1, <2>8, <3>1, Moved DEF path
  <2>16. Ahead(run') = run.remaining
    BY <2>14, <2>15 DEF Ahead
  <2>17. TypedTraining'
    BY <1>1, <2>8, <2>11, <2>13, <2>15 DEF TypedTraining
  <2>18. CountsSound(run')
    BY <1>1, <2>3, <2>14, <2>15 DEF CountsSound
  <2>19. TablesSound(run', trainer')
    <3>1. Train!IsReference(trainer')
      BY <2>9, <2>13, Zenon DEF Train!IsReference
    <3> QED BY <2>14, <2>15, <3>1 DEF TablesSound
  <2>20. StoreSound(backend', store', files', run', trainer')
    <3>1. backend = "external" => store = trainer.tables
      BY <1>2, <2>1 DEF StoreSound, Going, Boundary
    <3> QED BY <2>8, <2>13, <2>14, <2>15, <3>1 DEF StoreSound
  <2>21. GateSound(run', trainer')
    <3>1. ~run.authorized => trainer.trajectories + run.remaining * PerBatch < StageGate
      BY <1>2, <2>1, <2>2 DEF GateSound, Going, Boundary
    <3> QED BY <2>13, <2>15, <2>16, <3>1 DEF GateSound
  <2>22. PhasesSound(run', trainer')
    <3>1. CASE run.batches = 0
      <4>1. run.remaining = 0 /\ pc = "export"
        BY <1>1, <2>3, <2>14, <3>1
      <4>2. phase = Train!Disabled
        BY <2>4, <2>12, <3>1, <4>1 DEF last, Train!Recorded
      <4> QED BY <2>13, <2>15, <3>1, <4>1, <4>2 DEF PhasesSound
    <3>2. CASE run.batches # 0
      <4>1. run.batches > 0 /\ run'.batches # 0
        BY <1>1, <2>15, <3>2
      <4>2. run.remaining = 0 => phase = Train!BeforeExport
        BY <2>5, <2>12, <4>1 DEF last, Train!Recorded, Train!BeforeCheckpoint, Train!Disabled,
             Train!BeforeExport
      <4>3. run.remaining # 0 => phase = trainer.phase
        BY <2>12 DEF last
      <4>4. trainer'.batches >= run'.batches - Ahead(run')
        BY <2>5, <2>13, <2>15, <2>16, <4>1
      <4>5. CASE pc = "export"
        BY <2>3, <2>13, <2>14, <2>15, <4>1, <4>2, <4>4, <4>5 DEF PhasesSound
      <4>6. CASE pc = "chunk"
        BY <2>5, <2>13, <2>14, <2>15, <2>16, <4>1, <4>3, <4>4, <4>6 DEF PhasesSound
      <4> QED BY <2>14, <4>5, <4>6
    <3> QED BY <3>1, <3>2
  <2> QED BY <2>11, <2>17, <2>18, <2>19, <2>20, <2>21, <2>22, Assembled
<1> QED BY <1>3, <1>4

\* The export finds the snapshots in order.
LEMMA ExportKeeps ==
  ASSUME TrainInvariant, Train!Export
  PROVE  TrainInvariant'
PROOF
<1> DEFINE path == PathOf(run)
           phase == IF Train!CheckpointPath = Train!NoPath THEN Train!Recorded(trainer.phase, 2)
                    ELSE trainer.phase
           final == Train!Recorded(phase, 2)
<1>1. /\ run \in RunFields /\ trainer \in TrainerFields /\ files \in [Names -> FileFields]
      /\ store \in Seq(TableOps) /\ backend \in {"memory", "external"}
      /\ run.batches \in Nat /\ run.remaining \in Nat /\ trainer.phase \in Nat
  BY TrainFields
<1>2. CountsSound(run) /\ TablesSound(run, trainer) /\ StoreSound(backend, store, files, run, trainer)
      /\ GateSound(run, trainer) /\ PhasesSound(run, trainer) /\ FilesSound(files)
  BY DEF TrainInvariant
<1>3. CASE Train!Fails
  BY <1>3, FailsKeeps
<1>4. CASE ~Train!Fails
  <2>1. run.pc = "export"
    BY DEF Train!Export
  <2>2. Ahead(run) = run.remaining /\ run.remaining = 0
    BY <1>2, <2>1 DEF Ahead, CountsSound
  <2>3. run.batches = 0 => path # Train!NoPath
    BY <1>2, <2>1 DEF CountsSound
  <2>4. Train!CheckpointPath = path
    BY DEF Train!CheckpointPath, PathOf
  <2>5. /\ run.batches = 0 => trainer.phase = Train!Disabled
        /\ run.batches > 0 =>
             /\ trainer.phase = IF path = Train!NoPath THEN Train!BeforeCheckpoint ELSE Train!BeforeExport
             /\ trainer.batches >= run.batches - run.remaining
    BY <1>2, <2>1, <2>2 DEF PhasesSound, Going, Boundary
  <2>6. (run.batches = 0 => phase = Train!Disabled) /\ (run.batches > 0 => phase = Train!BeforeExport)
    <3> HIDE DEF path
    <3> QED BY <2>3, <2>4, <2>5 DEF Train!Recorded, Train!BeforeCheckpoint, Train!BeforeExport, Train!Disabled
  <2>7. run.batches = 0 \/ run.batches > 0
    BY <1>1
  <2>8. Train!InOrder(phase, Train!BeforeExport)
    <3> HIDE DEF phase
    <3> QED BY <2>6, <2>7 DEF Train!InOrder
  <2>9. (run.batches = 0 => final = Train!Disabled) /\ (run.batches > 0 => final = 13) /\ final \in Nat
    <3> HIDE DEF phase
    <3> QED BY <2>6, <2>7 DEF Train!Recorded, Train!BeforeExport, Train!Disabled
  <2>10. trainer' = [trainer EXCEPT !.phase = final] /\ run' = [run EXCEPT !.pc = "exported"]
         /\ UNCHANGED <<backend, store, files>>
    BY <1>4, <2>8, Zenon DEF Train!Export, Train!To
  <2> HIDE DEF path, phase, final
  <2>11. /\ trainer' \in TrainerFields /\ trainer'.batches = trainer.batches
         /\ trainer'.trajectories = trainer.trajectories /\ trainer'.tables = trainer.tables
         /\ trainer'.baseline = trainer.baseline /\ trainer'.phase = final
    BY <1>1, <2>9, <2>10 DEF TrainerFields
  <2>12. /\ run' \in RunFields /\ run'.pc = "exported" /\ run'.batches = run.batches
         /\ run'.authorized = run.authorized /\ run'.remaining = run.remaining /\ PathOf(run') = path
    <3>1. "exported" \in RunStages
      BY DEF RunStages
    <3> QED BY <1>1, <2>10, <3>1, Moved DEF path
  <2>13. Ahead(run') = run.remaining
    BY <2>12 DEF Ahead
  <2>14. TypedTraining'
    BY <1>1, <2>10, <2>11, <2>12 DEF TypedTraining
  <2>15. CountsSound(run')
    BY <1>1, <2>2, <2>3, <2>12 DEF CountsSound
  <2>16. FilesSound(files')
    BY <1>2, <2>10
  <2>17. TablesSound(run', trainer')
    <3>1. Train!IsReference(trainer)
      BY <1>2, <2>1 DEF TablesSound, Boundary
    <3>2. Train!IsReference(trainer')
      BY <2>11, <3>1, Zenon DEF Train!IsReference
    <3> QED BY <2>12, <3>2 DEF TablesSound
  <2>18. StoreSound(backend', store', files', run', trainer')
    <3>1. backend = "external" => store = trainer.tables
      BY <1>2, <2>1 DEF StoreSound, Going, Boundary
    <3> QED BY <2>10, <2>11, <2>12, <3>1 DEF StoreSound
  <2>19. GateSound(run', trainer')
    <3>1. ~run.authorized => trainer.trajectories + run.remaining * PerBatch < StageGate
      BY <1>2, <2>1, <2>2 DEF GateSound, Going, Boundary
    <3> QED BY <2>11, <2>12, <2>13, <3>1 DEF GateSound
  <2>20. PhasesSound(run', trainer')
    BY <2>5, <2>7, <2>9, <2>11, <2>12, <2>13 DEF PhasesSound
  <2> QED BY <2>14, <2>15, <2>16, <2>17, <2>18, <2>19, <2>20, Assembled
<1> QED BY <1>3, <1>4

LEMMA ExitKeeps ==
  ASSUME TrainInvariant, Train!Exit
  PROVE  TrainInvariant'
PROOF
<1>1. run' = Train!Stopped /\ UNCHANGED <<backend, files>> /\ store' = store /\ trainer' = trainer
  BY DEF Train!Exit
<1>2. store' \in Seq(TableOps) /\ trainer' \in TrainerFields
  BY <1>1, TrainFields
<1> QED BY <1>1, <1>2, StoppedKeeps

LEMMA TrainingStep ==
  ASSUME Train!TrainingAssumption, TrainInvariant, [Train!TrainingNext]_Train!vars
  PROVE  TrainInvariant'
PROOF
<1>1. CASE UNCHANGED Train!vars
  <2>1. backend' = backend /\ store' = store /\ files' = files /\ run' = run /\ trainer' = trainer
    BY <1>1 DEF Train!vars
  <2> QED BY <2>1 DEF TrainInvariant, TypedTraining
<1>2. CASE Train!Start
  BY <1>2, StartKeeps
<1>3. CASE Train!Restore
  BY <1>3, RestoreKeeps
<1>4. CASE Train!Session
  BY <1>4, SessionKeeps
<1>5. CASE Train!Chunk
  BY <1>5, ChunkKeeps
<1>6. CASE Train!RunBatch
  BY <1>6, RunBatchKeeps
<1>7. CASE Train!Transform
  BY <1>7, TransformKeeps
<1>8. CASE Train!AfterBatch
  BY <1>8, AfterBatchKeeps
<1>9. CASE Train!ChunkEnd
  BY <1>9, ChunkEndKeeps
<1>10. CASE Train!Save
  BY <1>10, SaveKeeps
<1>11. CASE Train!Export
  BY <1>11, ExportKeeps
<1>12. CASE Train!Exit
  BY <1>12, ExitKeeps
<1>13. Train!TrainingNext \/ UNCHANGED Train!vars
  OBVIOUS
<1>14. Train!TrainingNext => TrainInvariant'
  BY <1>2, <1>3, <1>4, <1>5, <1>6, <1>7, <1>8, <1>9, <1>10, <1>11, <1>12, Zenon
     DEF Train!TrainingNext
<1> QED BY <1>1, <1>13, <1>14, Zenon

LEMMA TrainIsSound ==
  ASSUME Train!TrainingAssumption, TrainInvariant
  PROVE  Train!TrainingSound
PROOF
<1>1. \A name \in Names : files[name].saved => Train!IsReference(files[name])
  BY DEF TrainInvariant, FilesSound
<1>2. run.pc \in {"chunk", "after", "chunk_end", "save", "export", "exported"} => Train!IsReference(trainer)
  BY DEF TrainInvariant, TablesSound, Boundary
<1>3. run.pc \in {"chunk", "after", "save", "export", "exported"} /\ ~run.authorized =>
        trainer.trajectories < StageGate
  <2>1. SUFFICES ASSUME run.pc \in {"chunk", "after", "save", "export", "exported"}, ~run.authorized
                 PROVE  trainer.trajectories < StageGate
    OBVIOUS
  <2>2. trainer.trajectories + Ahead(run) * PerBatch < StageGate
    BY <2>1 DEF TrainInvariant, GateSound, Going, Boundary
  <2>3. run \in RunFields /\ CountsSound(run) /\ trainer.trajectories \in Nat
    BY TrainFields DEF TrainInvariant
  <2> DEFINE a == Ahead(run)
  <2>4. a \in Nat /\ PerBatch \in Nat /\ StageGate \in Nat
    BY <2>3, AheadIs DEF Train!TrainingAssumption
  <2> HIDE DEF a
  <2>5. a * PerBatch \in Nat
    BY <2>4
  <2> QED BY <2>2, <2>3, <2>4, <2>5 DEF a
<1>4. run.pc # "phase_error"
  <2>1. run.pc \in RunStages
    BY TrainFields
  <2> QED BY <2>1 DEF RunStages
<1>5. run.pc = "exported" => trainer.phase \in {13, Train!Disabled}
  <2>1. run.batches = 0 \/ run.batches > 0
    BY TrainFields
  <2> QED BY <2>1 DEF TrainInvariant, PhasesSound, Going, Boundary
<1> QED BY <1>1, <1>2, <1>3, <1>4, <1>5 DEF Train!TrainingSound

\* The inductive invariant of the training run, for every schedule, number of
\* batches and checkpoint interval, and for any number of invocations.
THEOREM TrainingInvariance ==
  ASSUME Train!TrainingAssumption
  PROVE  Train!TrainingInit /\ [][Train!TrainingNext]_Train!vars => []TrainInvariant
PROOF
<1>1. Train!TrainingInit => TrainInvariant
  BY InitTrains DEF Train!TrainingInit
<1>2. TrainInvariant /\ [Train!TrainingNext]_Train!vars => TrainInvariant'
  BY TrainingStep
<1> QED BY <1>1, <1>2, PTL

\* Through failures, stops and resumes the tables and the checkpoints are those of
\* the uninterrupted run, the stage is not reached unauthorized, and the snapshots are in order.
THEOREM TrainingCorrect ==
  ASSUME Train!TrainingAssumption
  PROVE  Train!TrainingInit /\ [][Train!TrainingNext]_Train!vars => []Train!TrainingSound
PROOF
<1>1. TrainInvariant => Train!TrainingSound
  BY TrainIsSound
<1> QED BY <1>1, TrainingInvariance, PTL
=============================================================================
