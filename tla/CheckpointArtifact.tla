-------------------------- MODULE CheckpointArtifact --------------------------
(* MultiwayTrainingCheckpointArtifacts and publish_atomic_replace: a checkpoint *)
(* is planned, written to path.tmp section by section and renamed into place    *)
(* while the coordinator may merge, renames and writes may fail and the process *)
(* may stop.  A cell of the file is a count or a value, tagged with the version *)
(* of the tables it was read from.                                              *)
EXTENDS Naturals, Sequences

CONSTANTS
  MaxVersion,   \* bound: merges
  MaxSaves,     \* bound: saves
  MaxCrashes    \* bound: crashes

VARIABLES
  tables,       \* version of the coordinator's tables
  temp,         \* path.tmp
  dest,         \* path
  backup,       \* path.previous
  save,         \* the save under way: [pc, writer, policy, version, plan, lease, section]
  bounds        \* [saves, crashes] so far

vars == <<tables, temp, dest, backup, save, bounds>>

-----------------------------------------------------------------------------
(* The file. *)

Sections == <<"metadata", "states", "values">>
\* Items of a section: batches admit states and rows, so later versions are longer.
Items(section, version) == IF section = "metadata" THEN 1 ELSE version
\* A section is its count and its items.
Section(section, version) ==
  <<[of |-> section, count |-> Items(section, version), version |-> version]>>
  \o [i \in 1 .. Items(section, version) |-> [of |-> section, count |-> 0, version |-> version]]

\* emit: the sections in their fixed order.
Cells(version) ==
  Section("metadata", version) \o Section("states", version) \o Section("values", version)

\* The payload hash, taken as injective: it stands for the cells it covers.
Hashed(cells) == [cells |-> cells, hash |-> cells]
Mark(name) == <<[of |-> name, count |-> 0, version |-> 0]>>
Unhashed(cells) == [cells |-> cells, hash |-> Mark("absent")]
NoFile == Unhashed(Mark("none"))

\* A section is read by its count, and the next one starts behind its items.
Reads(cells, section) ==
  cells # <<>> /\ Head(cells).of = section /\ Len(cells) > Head(cells).count
Rest(cells) == SubSeq(cells, Head(cells).count + 2, Len(cells))
Parsed(cells) ==
  /\ Reads(cells, "metadata")
  /\ Reads(Rest(cells), "states")
  /\ Reads(Rest(Rest(cells)), "values")
  /\ Rest(Rest(Rest(cells))) = <<>>     \* no trailing data

\* load_verified: the sections, the hash over all of them and the end of the file.
Loads(file) == file # NoFile /\ file.hash = file.cells /\ Parsed(file.cells)
VersionOf(file) == file.cells[1].version

-----------------------------------------------------------------------------
(* Saving. *)

Idle == [pc |-> "idle", writer |-> "streamed", policy |-> "reject_non_atomic", version |-> 0,
         plan |-> 0, lease |-> FALSE, section |-> 0]

Init ==
  /\ tables = 1 /\ temp = NoFile /\ dest = NoFile /\ backup = NoFile
  /\ save = Idle /\ bounds = [saves |-> 0, crashes |-> 0]

\* The coordinator merges a batch; a lease keeps it out.
Merge == ~save.lease /\ tables < MaxVersion /\ tables' = tables + 1
         /\ UNCHANGED <<temp, dest, backup, save, bounds>>

\* The lease ends before the tables are read (mutant: no lease during the save).
BeginStreamedUnleased == [Idle EXCEPT !.pc = "plan", !.version = tables]
\* save_checkpoint_atomic takes the lease and streams from the live tables.
BeginStreamed ==
  [Idle EXCEPT !.pc = "plan", !.lease = TRUE, !.version = tables]
\* save_atomic writes a copy that checkpoint() made, under any fallback.
BeginSealed ==
  [Idle EXCEPT !.pc = "open", !.writer = "sealed", !.version = tables, !.policy = "allow"]
Begin ==
  /\ save.pc = "idle" /\ bounds.saves < MaxSaves
  /\ save' \in {BeginStreamed, BeginSealed, [BeginSealed EXCEPT !.policy = "reject_copy"]}
  /\ bounds' = [bounds EXCEPT !.saves = @ + 1]
  /\ UNCHANGED <<tables, temp, dest, backup>>

\* A throw: the streamed writer's TemporaryCheckpointFile removes path.tmp.
Throws ==
  /\ save' = Idle
  /\ temp' = IF save.writer = "streamed" /\ save.pc \notin {"plan"} THEN NoFile ELSE temp
  /\ UNCHANGED <<tables, dest, backup, bounds>>

\* The counting pass of emit fixes the planned size; the memory gates follow.
Plan ==
  /\ save.pc = "plan"
  /\ \/ save' = [save EXCEPT !.pc = "open", !.plan = Len(Cells(tables))]
        /\ UNCHANGED <<tables, temp, dest, backup, bounds>>
     \/ Throws

\* The temporary is truncated.
Open ==
  /\ save.pc = "open"
  /\ \/ save' = [save EXCEPT !.pc = "emit", !.section = 1] /\ temp' = Unhashed(<<>>)
        /\ UNCHANGED <<tables, dest, backup, bounds>>
     \/ Throws

\* One section of emit, from the live tables or from the copy.
Emit ==
  LET version == IF save.writer = "streamed" THEN tables ELSE save.version IN
  /\ save.pc = "emit"
  /\ \/ /\ temp' = Unhashed(temp.cells \o Section(Sections[save.section], version))
        /\ save' = IF save.section = Len(Sections) THEN [save EXCEPT !.pc = "close"]
                   ELSE [save EXCEPT !.section = @ + 1]
        /\ UNCHANGED <<tables, dest, backup, bounds>>
     \/ Throws

\* The hash, the flush and, for the streamed writer, the size of the file.
Close ==
  /\ save.pc = "close"
  /\ \/ /\ save.writer = "streamed" => Len(temp.cells) = save.plan
        /\ temp' = Hashed(temp.cells) /\ save' = [save EXCEPT !.pc = "rename"]
        /\ UNCHANGED <<tables, dest, backup, bounds>>
     \/ Throws

-----------------------------------------------------------------------------
(* publish_atomic_replace.  Its failures remove the temporary. *)

Published == save' = [Idle EXCEPT !.pc = "returned", !.version = save.version]
PublishFails == save' = Idle /\ temp' = NoFile

Rename ==
  /\ save.pc = "rename"
  /\ \/ dest' = temp /\ temp' = NoFile /\ Published
     \/ save' = [save EXCEPT !.pc = "fallback"] /\ UNCHANGED <<temp, dest>>
     \/ PublishFails /\ UNCHANGED dest      \* exists() of the destination fails
  /\ UNCHANGED <<tables, backup, bounds>>

\* An older backup is overwritten (mutant: path.previous is not looked for).
FallbackOverBackup ==
  /\ save.pc = "fallback"
  /\ \/ save.policy = "reject_non_atomic" /\ PublishFails /\ UNCHANGED <<dest, backup>>
     \/ /\ save.policy # "reject_non_atomic"
        /\ backup' = dest /\ dest' = NoFile /\ save' = [save EXCEPT !.pc = "place"]
        /\ UNCHANGED temp
  /\ UNCHANGED <<tables, bounds>>
\* Rename failed: refuse, copy to a new path, or move the destination away.
Fallback ==
  /\ save.pc = "fallback"
  /\ \/ /\ \/ save.policy = "reject_non_atomic"
           \/ dest = NoFile /\ save.policy = "reject_copy"
           \/ dest # NoFile /\ backup # NoFile
        /\ PublishFails /\ UNCHANGED <<dest, backup>>
     \/ /\ save.policy = "allow" /\ dest = NoFile
        /\ \E written \in 0 .. Len(temp.cells) :
             dest' = Unhashed(SubSeq(temp.cells, 1, written))
        /\ save' = [save EXCEPT !.pc = "copy"] /\ UNCHANGED <<temp, backup>>
     \/ /\ save.policy # "reject_non_atomic" /\ dest # NoFile /\ backup = NoFile
        /\ \/ backup' = dest /\ dest' = NoFile /\ save' = [save EXCEPT !.pc = "place"]
              /\ UNCHANGED temp
           \/ PublishFails /\ UNCHANGED <<dest, backup>>
  /\ UNCHANGED <<tables, bounds>>

\* copy_file ends, or fails and leaves what it wrote.
Copy ==
  /\ save.pc = "copy"
  /\ \/ dest' = temp /\ temp' = NoFile /\ Published
     \/ PublishFails /\ UNCHANGED dest
  /\ UNCHANGED <<tables, backup, bounds>>

\* A failure drops the old file (mutant: the backup is removed, not restored).
PlaceDrops ==
  /\ save.pc = "place"
  /\ \/ dest' = temp /\ temp' = NoFile /\ save' = [save EXCEPT !.pc = "clean"]
        /\ UNCHANGED backup
     \/ PublishFails /\ UNCHANGED dest /\ backup' = NoFile
  /\ UNCHANGED <<tables, bounds>>
\* The temporary takes the free path; otherwise the old file is moved back.
Place ==
  /\ save.pc = "place"
  /\ \/ dest' = temp /\ temp' = NoFile /\ save' = [save EXCEPT !.pc = "clean"]
        /\ UNCHANGED backup
     \/ PublishFails /\ dest' = backup /\ backup' = NoFile
     \/ PublishFails /\ UNCHANGED <<dest, backup>>       \* moving back fails too
  /\ UNCHANGED <<tables, bounds>>

\* The removal of the backup may fail silently.
Clean ==
  /\ save.pc = "clean"
  /\ backup' \in {NoFile, backup} /\ Published
  /\ UNCHANGED <<tables, temp, dest, bounds>>

Return == save.pc = "returned" /\ save' = Idle /\ UNCHANGED <<tables, temp, dest, backup, bounds>>

\* The process stops; the next one starts from the files.
Crash ==
  /\ save.pc # "idle" /\ bounds.crashes < MaxCrashes
  /\ save' = Idle /\ bounds' = [bounds EXCEPT !.crashes = @ + 1]
  /\ UNCHANGED <<tables, temp, dest, backup>>

ArtifactInit == Init
ArtifactNext ==
  \/ Merge \/ Begin \/ Plan \/ Open \/ Emit \/ Close
  \/ Rename \/ Fallback \/ Copy \/ Place \/ Clean \/ Return \/ Crash

ArtifactSpec == ArtifactInit /\ [][ArtifactNext]_vars

-----------------------------------------------------------------------------
(* Whatever fails, a file that loads is one version of the tables, and a save   *)
(* that returns has published the version it began with.                        *)
ArtifactSound ==
  /\ \A file \in {temp, dest, backup} :
       Loads(file) => file.cells = Cells(VersionOf(file)) /\ VersionOf(file) <= tables
  /\ save.pc = "returned" => Loads(dest) /\ VersionOf(dest) = save.version

\* No step loses the newest checkpoint that loads, at the path or beside it.
CheckpointKept ==
  \A file \in {dest, backup} : Loads(file) =>
    \E kept \in {dest', backup'} : Loads(kept) /\ VersionOf(kept) >= VersionOf(file)
=============================================================================
