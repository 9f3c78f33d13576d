------------------------------- MODULE MCEngine -------------------------------
(* Small instances of the engine's tables.  The components share no state, so *)
(* one behaviour runs one of them, or the restore of a checkpoint, chosen in   *)
(* Init, and leaves the others off.                                            *)
EXTENDS CheckpointRestore, Integers, TLC

CONSTANTS PageCount, Capacity, Readers, MaxUpdates, PageUpdates, StreamCapacity, WorkerCount,
          MaxNodes, MaxAncestry, PageWidth, MaxBatch, MaxValues, Limit, BatchSize, MaxBatches

VARIABLES
  component,
  indexed, cache, store, base, writer, reading, working,
  stage, path, stream, cursors, heap, merged, merged_rows, order,
  nodes, id_index, menus, menu_index, records, admitted,
  durable, opened, row_base, phase,
  backend, catalog, rows, pages, regret, counters, saved, ideal, batches

Cached == INSTANCE ExternalCompactPages
ASSUME CachedAssumption == Cached!CacheAssumption
Folded == INSTANCE Functions
\* Bound: merges stop when the pages together have had PageUpdates updates.
MergeBounded ==
  writer.at = "merge" /\ working' # working =>
    Folded!FoldFunction(LAMBDA a, b : a + b, 0, working') <= PageUpdates

\* Discovery: a root, a child found with two payloads, a chance state of two parents.
Candidate(id, parent, chance, payload) ==
  [id |-> id, parent |-> parent, chance |-> chance, payload |-> payload]
MCCandidates == {Candidate(5, 0, FALSE, 1), Candidate(3, 5, FALSE, 2), Candidate(1, 3, TRUE, 1),
                 Candidate(1, 4, TRUE, 1), Candidate(3, 5, FALSE, 3)}
Discovery == INSTANCE DiscoveryMerge WITH Candidates <- MCCandidates, Root <- 5, Known <- {5, 4}

\* Catalog: ids that do not ascend with depth, and menus that share a key.
Descriptor(id, parent, kind, action, menu, bets) ==
  [id |-> id, parent |-> parent, kind |-> kind, action |-> action, menu |-> menu,
   history |-> bets]
MCDescriptors ==
  {Descriptor(5, 0, "root", 0, "ab", <<>>), Descriptor(3, 5, "bet", 7, "ac", <<7>>),
   Descriptor(4, 5, "bet", 8, "ab", <<8>>), Descriptor(2, 3, "chance", 0, "ad", <<7>>),
   Descriptor(6, 2, "chance", 0, "ab", <<7>>), Descriptor(6, 3, "chance", 0, "ab", <<7>>),
   Descriptor(1, 6, "bet", 9, "ac", <<7, 9>>)}
MCMenuKey(menu) == IF menu = "ad" THEN 2 ELSE 1
Catalog == INSTANCE PublicCatalog WITH Descriptors <- MCDescriptors, MenuKey <- MCMenuKey

\* Row index: rows below, at and above one page, two of them of one state.
Shape3(state, seat, buckets) == [state |-> state, seat |-> seat, buckets |-> buckets]
MCShapes == {Shape3(1, 0, 3), Shape3(1, 1, 2), Shape3(2, 0, 5), Shape3(3, 1, 1), Shape3(2, 1, 4)}
RowIndex == INSTANCE ExternalRowIndex WITH Shapes <- MCShapes
ASSUME RowsAssumption == RowIndex!RowAssumption

\* Coordinator: a chain of states whose ids do not follow the depth.
MCParent == 1 :> 3 @@ 2 :> 1 @@ 3 :> 0
RowShape(seat, buckets, actions) == [seat |-> seat, buckets |-> buckets, actions |-> actions]
MCShape == 1 :> RowShape(1, 3, 2) @@ 2 :> RowShape(0, 1, 1) @@ 3 :> RowShape(0, 2, 1)
Delta(s, b, a, t, m) == [state |-> s, bucket |-> b, action |-> a, trajectory |-> t, amount |-> m]
MCDeltas == {Delta(3, 0, 0, 1, 2), Delta(3, 0, 0, 2, -3), Delta(1, 2, 1, 1, -2), Delta(1, 0, 1, 2, 1)}
Coord == INSTANCE Coordinator WITH Parent <- MCParent, Shape <- MCShape, Threshold <- -1,
                                   Deltas <- MCDeltas

-----------------------------------------------------------------------------
pageVars == <<indexed, cache, store, base, writer, reading, working>>
discoveryVars == <<stage, path, stream, cursors, heap, merged, merged_rows, order>>
catalogVars == <<nodes, id_index, menus, menu_index, records, admitted>>
rowVars == <<durable, opened, row_base, phase>>
coordVars == <<backend, catalog, rows, pages, regret, counters, saved, ideal, batches>>
allVars == <<component, vars, pageVars, discoveryVars, catalogVars, rowVars,
             coordVars>>

MCInit ==
  /\ component \in {"restore", "pages", "discovery", "catalog", "rows", "coordinator"}
  /\ Init /\ (component # "restore" => checkpoint = 0)
  /\ IF component = "pages" THEN Cached!Init
     ELSE /\ indexed = "off" /\ cache = "off" /\ store = "off" /\ base = "off"
          /\ writer = "off" /\ reading = "off" /\ working = "off"
  /\ IF component = "discovery" THEN Discovery!MergeInit
     ELSE /\ stage = "off" /\ path = "off" /\ stream = "off" /\ cursors = "off"
          /\ heap = "off" /\ merged = "off" /\ merged_rows = "off" /\ order = "off"
  /\ IF component = "catalog" THEN Catalog!CatalogInit
     ELSE /\ nodes = "off" /\ id_index = "off" /\ menus = "off" /\ menu_index = "off"
          /\ records = "off" /\ admitted = "off"
  /\ IF component = "rows" THEN RowIndex!RowIndexInit
     ELSE durable = "off" /\ opened = "off" /\ row_base = "off" /\ phase = "off"
  /\ IF component = "coordinator" THEN Coord!CoordInit
     ELSE /\ backend = "off" /\ catalog = "off" /\ rows = "off" /\ pages = "off"
          /\ regret = "off" /\ counters = "off" /\ saved = "off"
          /\ ideal = "off" /\ batches = "off"

MCNext ==
  /\ \/ /\ component = "restore" /\ Next
        /\ UNCHANGED <<pageVars, discoveryVars, catalogVars, rowVars, coordVars>>
     \/ /\ component = "pages" /\ Cached!Next /\ MergeBounded
        /\ UNCHANGED <<vars, discoveryVars, catalogVars, rowVars, coordVars>>
     \/ /\ component = "discovery" /\ Discovery!MergeNext
        /\ UNCHANGED <<vars, pageVars, catalogVars, rowVars, coordVars>>
     \/ /\ component = "catalog" /\ Catalog!CatalogNext
        /\ UNCHANGED <<vars, pageVars, discoveryVars, rowVars, coordVars>>
     \/ /\ component = "rows" /\ RowIndex!RowIndexNext
        /\ UNCHANGED <<vars, pageVars, discoveryVars, catalogVars, coordVars>>
     \/ /\ component = "coordinator" /\ Coord!CoordNext
        /\ UNCHANGED <<vars, pageVars, discoveryVars, catalogVars, rowVars>>
  /\ UNCHANGED component

MCSpec == MCInit /\ [][MCNext]_allVars

-----------------------------------------------------------------------------
(* The properties of the tables, on the behaviours that run them. *)

\* Resident pages are unique and found, clean ones equal their records, the writer
\* always finds a slot, and no delta or rescaling is lost, flushed or failed; the
\* three backends hold the merged batches in trajectory order, and closed tables.
StorageSound ==
  /\ component = "pages" => Cached!PagesSound
  /\ component = "coordinator" => Coord!TablesSound
\* Every discovered state is merged to its least candidate, parents first, and only
\* conflicting candidates are refused; both catalogs rebuild every descriptor and
\* recognise a state met again; no two buckets of the row index share a cell.
AdmissionSound ==
  /\ component = "discovery" => Discovery!DiscoverySound
  /\ component = "catalog" => Catalog!CatalogSound
  /\ component = "rows" => RowIndex!RowIndexSound
\* A step never moves a pinned page or a committed row, and a restored checkpoint
\* saves the same checkpoint again.
TableStepsSafe ==
  [][/\ component = "pages" => Cached!PinnedStep
     /\ component = "rows" => RowIndex!CommittedRowsStep
     /\ component = "coordinator" => Coord!RestoreStep]_allVars
=============================================================================
