----------------------------- MODULE Coordinator -----------------------------
(***************************************************************************)
(* The solver's coordinator (multiway_solver.cpp, multiway_coordinator_*   *)
(* .cpp) over its three backends: the Float64 tables, the compact pages in *)
(* memory and the external storage.  It admits batches of public states    *)
(* and rows, merges the delta streams of the workers, prunes, and saves    *)
(* and restores checkpoints; each operation runs under the exclusive lock, *)
(* so it is one step, with a disjunct for each place where it may throw.   *)
(*                                                                         *)
(* A state has at most one row, that of the player to act.  A cell is a    *)
(* regret; its strategy sum moves with it and is left out.  Amounts are    *)
(* integers; the compact cell saturates, so the order of the deltas shows. *)
(* The external tables are the cells alone: ExternalRowIndex and           *)
(* ExternalCompactPages model where they are, ExternalTransaction how a    *)
(* batch of them is made atomic.                                           *)
(***************************************************************************)
EXTENDS Integers, Sequences, FiniteSets, TLC

CONSTANTS
  Parent,        \* state id -> parent id, 0 for the root
  Shape,         \* state id -> [seat, buckets, actions]
  PageWidth,     \* compact_page_width
  MaxValues,     \* max_sparse_values
  Limit,         \* kRegretMax of a compact cell
  Threshold,     \* prune threshold; the floor is below it
  Deltas,        \* [state, bucket, action, trajectory, amount]
  BatchSize,     \* bound on the deltas of a batch
  MaxBatches     \* bound on the batches merged

States == DOMAIN Parent
Root == CHOOSE s \in States : Parent[s] = 0
Workers == {1, 2}

VARIABLES
  backend,    \* "Float64", "Compact" or "External"
  catalog,    \* admitted public states
  rows,       \* [state, offset] in infoset order
  pages,      \* compact: [state, page, offset] in checkpoint order
  regret,     \* the cells, by position; external: by name
  counters,   \* public_states_admitted, sparse_rows_admitted
  saved,      \* at most one checkpoint
  ideal,      \* history: what the cells must be
  batches     \* number of batches merged

coordVars == <<backend, catalog, rows, pages, regret, counters, saved, ideal, batches>>

\* The cells of a state.
CellsOf(s) == {[state |-> s, bucket |-> b, action |-> a] :
                 b \in 0 .. Shape[s].buckets - 1, a \in 0 .. Shape[s].actions - 1}
CellsIn(ss) == UNION {CellsOf(s) : s \in ss}
ValueCount(s) == Shape[s].buckets * Shape[s].actions
Zeros(n) == [i \in 1 .. n |-> 0]
Ascending(ss, Less(_, _)) == SortSeq([n \in 1 .. Cardinality(ss) |->
  CHOOSE s \in ss : Cardinality({t \in ss : Less(t, s)}) = n - 1], Less)

\* Infosets are ordered by seat, then state; checkpoints by state.
InfosetLess(s, t) == Shape[s].seat < Shape[t].seat \/ (Shape[s].seat = Shape[t].seat /\ s < t)
StateLess(s, t) == s < t

RowStates == {rows[i].state : i \in DOMAIN rows}
RowOf(s) == rows[CHOOSE i \in DOMAIN rows : rows[i].state = s]

-----------------------------------------------------------------------------
(* The Float64 tables. *)

\* admit_rows: offsets follow the order of the shapes, the metadata the order
\* of the infosets.
FloatRowLess(x, y) == InfosetLess(x.state, y.state)
FloatAdmit(rs, rg, shapes) ==
  LET step[n \in 0 .. Len(shapes)] ==
        IF n = 0 THEN [rows |-> rs, regret |-> rg]
        ELSE LET t == step[n - 1]
             IN  [rows |-> Append(t.rows, [state |-> shapes[n], offset |-> Len(t.regret)]),
                  regret |-> t.regret \o Zeros(ValueCount(shapes[n]))]
      all == step[Len(shapes)]
  IN  [rows |-> SortSeq(all.rows, FloatRowLess), regret |-> all.regret]

\* The position of a cell (mutant: rows of actions one cell too short).
FloatCellShort(row, c) == row.offset + c.action * (Shape[c.state].buckets - 1) + c.bucket + 1
FloatCell(row, c) == row.offset + c.action * Shape[c.state].buckets + c.bucket + 1

(* The compact pages. *)

PageOf(b) == b \div PageWidth
PageBuckets(s, p) ==
  IF (p + 1) * PageWidth <= Shape[s].buckets THEN PageWidth ELSE Shape[s].buckets - p * PageWidth
PageValues(s, p) == PageBuckets(s, p) * Shape[s].actions
PageLess(x, y) == x.state < y.state \/ (x.state = y.state /\ x.page < y.page)
HasPage(pg, s, p) == \E i \in DOMAIN pg : pg[i].state = s /\ pg[i].page = p
FindPage(pg, s, p) == pg[CHOOSE i \in DOMAIN pg : pg[i].state = s /\ pg[i].page = p]

\* admit_page appends zero cells; it throws at max_values_.
PageFits(rg, s, p) == PageValues(s, p) <= MaxValues - Len(rg)
AdmitPage(pg, rg, s, p) ==
  IF HasPage(pg, s, p) THEN [pages |-> pg, regret |-> rg]
  ELSE [pages |-> SortSeq(Append(pg, [state |-> s, page |-> p, offset |-> Len(rg)]), PageLess),
        regret |-> rg \o Zeros(PageValues(s, p))]

\* admit_rows: the first page of each row.
CompactAdmit(pg, rg, shapes) ==
  LET step[n \in 0 .. Len(shapes)] ==
        IF n = 0 THEN [pages |-> pg, regret |-> rg]
        ELSE AdmitPage(step[n - 1].pages, step[n - 1].regret, shapes[n], 0)
  IN  step[Len(shapes)]

PageCell(pg, c) ==
  LET page == FindPage(pg, c.state, PageOf(c.bucket))
  IN  page.offset + c.action * PageBuckets(c.state, page.page)
        + (c.bucket - page.page * PageWidth) + 1

\* apply_delta_to_cells saturates.
Clamped(x) == IF x > Limit THEN Limit ELSE IF x < -Limit THEN -Limit ELSE x
Summed(x, amount) == IF backend = "Float64" THEN x + amount ELSE Clamped(x + amount)

-----------------------------------------------------------------------------
\* What a reader finds in a cell; a page not admitted yet is all zeros.
Contents(c) ==
  IF backend = "Float64" THEN regret[FloatCell(RowOf(c.state), c)]
  ELSE IF backend = "External" THEN regret[c]
  ELSE IF HasPage(pages, c.state, PageOf(c.bucket)) THEN regret[PageCell(pages, c)] ELSE 0

NoCells == [c \in {} |-> 0]

CoordInit ==
  /\ backend \in {"Float64", "Compact", "External"}
  /\ catalog = {Root}
  /\ rows = <<>> /\ pages = <<>>
  /\ regret = IF backend = "External" THEN NoCells ELSE <<>>
  /\ counters = [states |-> 1, rows |-> 0]
  /\ saved = <<>>
  /\ ideal = NoCells
  /\ batches = 0

\* preflight_prepared_states and preflight_prepared_rows: parents are there or
\* in the batch, a row's state as well, and the new values fit.
Closed(ss) == \A s \in ss : s = Root \/ Parent[s] \in catalog \cup ss
NewValues(shapes) ==
  LET values(s) == IF backend = "Compact" THEN PageValues(s, 0) ELSE ValueCount(s)
      sum[n \in 0 .. Len(shapes)] == IF n = 0 THEN 0 ELSE sum[n - 1] + values(shapes[n])
  IN  sum[Len(shapes)]
InUse == IF backend = "External" THEN Cardinality(DOMAIN regret) ELSE Len(regret)

PreflightStates(ss) == Closed(ss) /\ ss \cap catalog = {}
PreflightRows(ss, rr) ==
  /\ rr \cap RowStates = {}
  /\ rr \subseteq catalog \cup ss
  /\ NewValues(Ascending(rr, InfosetLess)) <= MaxValues - InUse

Grown(cells, rr) ==
  [c \in DOMAIN cells \cup CellsIn(rr) |-> IF c \in DOMAIN cells THEN cells[c] ELSE 0]
RowLess(x, y) == x.state < y.state
WithRows(rr) == SortSeq(rows \o [n \in 1 .. Cardinality(rr) |->
                  [state |-> Ascending(rr, StateLess)[n], offset |-> 0]], RowLess)

\* The storage of a batch's rows, for each backend.
StoreRows(rr) ==
  LET shapes == Ascending(rr, InfosetLess)
      float == FloatAdmit(rows, regret, shapes)
      compact == CompactAdmit(pages, regret, shapes)
  IN  \/ /\ backend = "Float64"
         /\ rows' = float.rows /\ regret' = float.regret /\ pages' = pages
      \/ /\ backend = "Compact"
         /\ rows' = WithRows(rr) /\ pages' = compact.pages /\ regret' = compact.regret
      \/ /\ backend = "External"
         /\ rows' = WithRows(rr) /\ regret' = Grown(regret, rr) /\ pages' = pages

\* commit_prepared_batch: the catalog, its counter, the storage, its counter.
AdmitPreparedBatch(ss, rr) ==
  /\ ss \cup rr # {}
  /\ PreflightStates(ss) /\ PreflightRows(ss, rr)
  /\ catalog' = catalog \cup ss
  /\ StoreRows(rr)
  /\ counters' = [states |-> counters.states + Cardinality(ss),
                  rows |-> counters.rows + Cardinality(rr)]
  /\ ideal' = Grown(ideal, rr)
  /\ UNCHANGED <<backend, saved, batches>>

\* The storage throws: in memory the catalog keeps the states, the external
\* batch is aborted with them; the counter of the states is raised either way
\* (mutant: in memory the catalog is committed last).
KeptStatesNone(ss) == {}
KeptStates(ss) == IF backend = "External" THEN {} ELSE ss
AdmitThrows(ss, rr) ==
  /\ ss \cup rr # {}
  /\ PreflightStates(ss) /\ PreflightRows(ss, rr)
  /\ counters.states + Cardinality(ss) <= Cardinality(States)  \* bound on retries
  /\ catalog' = catalog \cup KeptStates(ss)
  /\ counters' = [counters EXCEPT !.states = @ + Cardinality(ss)]
  /\ UNCHANGED <<backend, rows, pages, regret, saved, ideal, batches>>

-----------------------------------------------------------------------------
(* merge_worker_streams. *)

CellOf(d) == [state |-> d.state, bucket |-> d.bucket, action |-> d.action]

\* delta_less: by infoset, action, bucket, then trajectory.
DeltaKey(d) == <<Shape[d.state].seat, d.state, d.action, d.bucket, d.trajectory>>
DeltaLess(d, e) ==
  LET x == DeltaKey(d)
      y == DeltaKey(e)
  IN  \E n \in 1 .. 5 : x[n] < y[n] /\ \A m \in 1 .. n - 1 : x[m] = y[m]

\* The stream of a worker in fixed order.
StreamOf(batch, owner, w) == Ascending({d \in batch : owner[d] = w}, DeltaLess)

\* The k-way merge takes the least head, the lower worker on a tie (mutant:
\* one stream after the other).
MergedConcatenated(one, two) == one \o two
Merged(one, two) ==
  LET take[n \in 0 .. Len(one) + Len(two)] ==
        IF n = 0 THEN [i |-> 0, j |-> 0, out |-> <<>>]
        ELSE LET t == take[n - 1]
                 first == t.j = Len(two) \/ (t.i < Len(one) /\ ~DeltaLess(two[t.j + 1], one[t.i + 1]))
             IN  IF first THEN [t EXCEPT !.i = @ + 1, !.out = Append(@, one[t.i + 1])]
                 ELSE [t EXCEPT !.j = @ + 1, !.out = Append(@, two[t.j + 1])]
  IN  take[Len(one) + Len(two)].out

\* The tables after each delta; fail is set by the delta that throws: it has
\* no admitted row, repeats a trajectory for its cell, or needs a page that
\* does not fit any more.
Applied(seq) ==
  LET step[n \in 0 .. Len(seq)] ==
        IF n = 0 THEN [pages |-> pages, regret |-> regret, fail |-> FALSE, count |-> 0]
        ELSE
          LET t == step[n - 1]
              d == seq[n]
              c == CellOf(d)
              p == PageOf(d.bucket)
              repeated == n > 1 /\ CellOf(seq[n - 1]) = c /\ seq[n - 1].trajectory = d.trajectory
              crowded == /\ backend = "Compact"
                         /\ ~HasPage(t.pages, d.state, p) /\ ~PageFits(t.regret, d.state, p)
              a == AdmitPage(t.pages, t.regret, d.state, p)
          IN  IF t.fail THEN t
              ELSE IF d.state \notin RowStates \/ repeated \/ crowded THEN [t EXCEPT !.fail = TRUE]
              ELSE IF backend = "Compact"
              THEN [pages |-> a.pages, fail |-> FALSE, count |-> n,
                    regret |-> [a.regret EXCEPT ![PageCell(a.pages, c)] = Summed(@, d.amount)]]
              ELSE LET at == IF backend = "Float64" THEN FloatCell(RowOf(d.state), c) ELSE c
                   IN  [t EXCEPT !.regret[at] = Summed(@, d.amount), !.count = n]
  IN  step[Len(seq)]

\* What a failed merge leaves: the Float64 cells are written only at the end
\* and the external batch is aborted, but compact cells are changed in place
\* (mutant: the Float64 cells too).
LeftTablesInPlace(t) == t
LeftTables(t) ==
  IF backend = "Compact" THEN t ELSE [t EXCEPT !.pages = pages, !.regret = regret]

\* A cell after the deltas of a batch, in the order of the trajectories.
InTrajectoryOrder(d, e) == d.trajectory < e.trajectory
IdealCell(c, batch) ==
  LET seq == Ascending({d \in batch : CellOf(d) = c}, InTrajectoryOrder)
      sum[n \in 0 .. Len(seq)] == IF n = 0 THEN ideal[c] ELSE Summed(sum[n - 1], seq[n].amount)
  IN  sum[Len(seq)]

\* History: the deltas that a merge which throws after n of them may leave in the cells,
\* the first ones of the whole batch and not of a stream.
KeptPart(batch, n) ==
  LET seq == Ascending(batch, DeltaLess)
  IN  IF backend = "Compact" THEN {seq[i] : i \in 1 .. n} ELSE {}

MergeWorkerStreams(batch, owner) ==
  LET t == Applied(Merged(StreamOf(batch, owner, 1), StreamOf(batch, owner, 2)))
      left == LeftTables(t)
  IN  /\ batches < MaxBatches
      /\ batches' = batches + 1
      /\ \/ /\ ~t.fail
            /\ pages' = t.pages /\ regret' = t.regret
            /\ ideal' = [c \in DOMAIN ideal |-> IdealCell(c, batch)]
         \/ /\ t.fail
            /\ pages' = left.pages /\ regret' = left.regret
            /\ ideal' = [c \in DOMAIN ideal |-> IdealCell(c, KeptPart(batch, t.count))]
      /\ UNCHANGED <<backend, catalog, rows, counters, saved>>

-----------------------------------------------------------------------------
\* prune_negative_regrets: every cell below the threshold is raised to it.
Pruned(x) == IF x < Threshold THEN Threshold ELSE x
PruneNegativeRegrets ==
  /\ \E c \in DOMAIN ideal : ideal[c] < Threshold
  /\ regret' = [i \in DOMAIN regret |-> Pruned(regret[i])]
  /\ ideal' = [c \in DOMAIN ideal |-> Pruned(ideal[c])]
  /\ UNCHANGED <<backend, catalog, rows, pages, counters, saved, batches>>

-----------------------------------------------------------------------------
(* checkpoint and restore_checkpoint of the backends in memory. *)

Depth(s) ==
  LET up[n \in 0 .. Cardinality(States)] == IF n = 0 THEN s
        ELSE IF up[n - 1] = 0 THEN 0 ELSE Parent[up[n - 1]]
  IN  Cardinality({n \in 1 .. Cardinality(States) : up[n] # 0})
\* Parents before children (mutant: by id).
CanonicalLessById(s, t) == s < t
CanonicalLess(s, t) == IF Depth(s) # Depth(t) THEN Depth(s) < Depth(t) ELSE s < t

RowValues(s) ==
  IF backend = "Float64" THEN SubSeq(regret, RowOf(s).offset + 1, RowOf(s).offset + ValueCount(s))
  ELSE [i \in 1 .. ValueCount(s) |->
          Contents([state |-> s, bucket |-> (i - 1) % Shape[s].buckets,
                    action |-> (i - 1) \div Shape[s].buckets])]
PageCells(pg) == SubSeq(regret, pg.offset + 1, pg.offset + PageValues(pg.state, pg.page))

Concat(seqs) ==
  LET all[n \in 0 .. Len(seqs)] == IF n = 0 THEN <<>> ELSE all[n - 1] \o seqs[n]
  IN  all[Len(seqs)]

\* The states by depth, the rows by state, the pages and their cells in the
\* order of the pages.
CheckpointValue ==
  LET shapes == Ascending(RowStates, StateLess)
  IN  [states |-> Ascending(catalog, CanonicalLess), shapes |-> shapes,
       regrets |-> Concat([n \in DOMAIN shapes |-> RowValues(shapes[n])]),
       pages |-> [i \in DOMAIN pages |-> <<pages[i].state, pages[i].page>>],
       compact |-> Concat([i \in DOMAIN pages |-> PageCells(pages[i])])]

Checkpoint ==
  /\ backend # "External"
  /\ saved = <<>>
  /\ saved' = <<[value |-> CheckpointValue, ideal |-> ideal]>>
  /\ UNCHANGED <<backend, catalog, rows, pages, regret, counters, ideal, batches>>

RestoredPages(value) ==
  LET first == CompactAdmit(<<>>, <<>>, value.shapes)
      all[n \in 0 .. Len(value.pages)] ==
        IF n = 0 THEN first
        ELSE AdmitPage(all[n - 1].pages, all[n - 1].regret, value.pages[n][1], value.pages[n][2])
  IN  all[Len(value.pages)]

\* restore_checkpoint_values walks the pages in their order and puts the cells
\* of each at its offset.
RestoredCells(pg, cells) ==
  LET start(i) == Len(Concat([j \in 1 .. i - 1 |-> Zeros(PageValues(pg[j].state, pg[j].page))]))
      owner(x) == CHOOSE i \in DOMAIN pg :
                    x \in pg[i].offset + 1 .. pg[i].offset + PageValues(pg[i].state, pg[i].page)
  IN  [x \in DOMAIN cells |-> cells[start(owner(x)) + x - pg[owner(x)].offset]]

\* A new coordinator restores: the states in the saved order, then the rows
\* one by one, so offsets follow the saved shapes, then the values.
RestoreCheckpoint ==
  LET v == saved[1].value
      float == FloatAdmit(<<>>, <<>>, v.shapes)
      compact == RestoredPages(v)
  IN  /\ saved # <<>>
      /\ catalog' = {v.states[n] : n \in DOMAIN v.states}
      /\ \/ /\ backend = "Float64"
            /\ rows' = float.rows /\ pages' = <<>> /\ regret' = v.regrets
         \/ /\ backend = "Compact"
            /\ rows' = [n \in DOMAIN v.shapes |-> [state |-> v.shapes[n], offset |-> 0]]
            /\ pages' = compact.pages
            /\ regret' = RestoredCells(compact.pages, v.compact)
      /\ counters' = [states |-> Len(v.states), rows |-> Len(v.shapes)]
      /\ ideal' = saved[1].ideal
      /\ UNCHANGED <<backend, saved, batches>>

CoordNext ==
  \/ \E ss, rr \in SUBSET States : AdmitPreparedBatch(ss, rr) \/ AdmitThrows(ss, rr)
  \/ \E batch \in SUBSET Deltas :
       /\ Cardinality(batch) \in 1 .. BatchSize
       /\ \E owner \in [batch -> Workers] : MergeWorkerStreams(batch, owner)
  \/ PruneNegativeRegrets \/ Checkpoint \/ RestoreCheckpoint

-----------------------------------------------------------------------------
\* Whatever was admitted, merged, refused or restored, and however the deltas
\* were divided between the workers, a cell holds the deltas of the merged
\* batches in the order of their trajectories.  Of a merge that threw in the
\* middle nothing is left, but for the compact cells, which keep the deltas
\* before the one that threw in the order of the whole batch.
CellsAreMergedBatches == \A c \in DOMAIN ideal : Contents(c) = ideal[c]

\* Every row has its state and every state its parent, also after a batch that
\* failed between the catalog and the storage.  The counters are the sizes of the
\* tables; an external batch that was aborted stays counted, so there the states
\* are never more than the counter says.
TablesClosed ==
  /\ RowStates \subseteq catalog
  /\ \A s \in catalog : s = Root \/ Parent[s] \in catalog
  /\ DOMAIN ideal = CellsIn(RowStates)
  /\ counters.rows = Len(rows)
  /\ IF backend = "External" THEN counters.states >= Cardinality(catalog)
     ELSE counters.states = Cardinality(catalog)

\* A restored coordinator saves the same checkpoint again, although its cells
\* lie at other positions, and parents are saved before their children.
RestoreStep ==
  RestoreCheckpoint =>
    /\ CheckpointValue' = saved[1].value
    /\ \A i, j \in DOMAIN saved[1].value.states :
         Parent[saved[1].value.states[j]] = saved[1].value.states[i] => i < j
RestoreReproduces == [][RestoreStep]_coordVars

\* The tables hold what was merged and refer only to what is admitted.
TablesSound == CellsAreMergedBatches /\ TablesClosed
=============================================================================
