-------------------------- MODULE ExternalRowIndex --------------------------
(***************************************************************************)
(* The durable index from infosets to page ranges of the external backend  *)
(* (multiway_external_row_index.cpp).  One record per public state holds a *)
(* slot for each seat; record 0 holds the next free page id, and a batch   *)
(* of rows is published together with it.  The index object keeps a copy   *)
(* of the allocator, which the append sets only after the store returned;  *)
(* the training storage drops the object and reopens the old generation    *)
(* when a batch fails.                                                     *)
(***************************************************************************)
EXTENDS Naturals, FiniteSets

CONSTANTS
  PageWidth,     \* page_width_
  Shapes,        \* [state, seat, buckets] of the rows that may be admitted
  MaxBatch       \* rows that fit in the WAL and in a segment

\* The constructor refuses a page of width 0, append_batch a row without buckets.
RowAssumption ==
  /\ PageWidth \in Nat \ {0}
  /\ Shapes \subseteq [state : Nat, seat : Nat, buckets : Nat \ {0}]
  /\ IsFiniteSet(Shapes)

VARIABLES
  durable,     \* the published generation: [row, next]
  opened,      \* next_page_id_ of the index object
  row_base,    \* the generation the training batch started from
  phase        \* "idle", "batch" or "failed"

rowVars == <<durable, opened, row_base, phase>>

Infoset(r) == <<r.state, r.seat>>
Rows(d) == DOMAIN d.row

\* The rows of a batch are numbered by state, then seat.
Before(r, s) == r.state < s.state \/ (r.state = s.state /\ r.seat < s.seat)

\* Pages of a row, rounded up (mutant: rounded down, at least one).
RowPageCountDown(r) == IF r.buckets < PageWidth THEN 1 ELSE r.buckets \div PageWidth
RowPageCount(r) == (r.buckets + PageWidth - 1) \div PageWidth

\* The pages of a set of rows, each named by its row and its number there.
PagesOf(batch) == UNION {{<<r, k>> : k \in 0 .. RowPageCount(r) - 1} : r \in batch}
TotalPages(batch) == Cardinality(PagesOf(batch))

FirstPage(r, next, batch) == next + TotalPages({s \in batch : Before(s, r)})

\* The generation append_batch publishes: the slots a state already has are
\* copied into its new record.
Published(d, next, batch, kept) ==
  [row |-> [i \in kept \cup {Infoset(r) : r \in batch} |->
              IF i \in kept THEN d.row[i]
              ELSE LET r == CHOOSE r \in batch : Infoset(r) = i
                   IN  [buckets |-> r.buckets, first |-> FirstPage(r, next, batch),
                        pages |-> RowPageCount(r)]],
   next |-> next + TotalPages(batch)]
Extended(d, next, batch) == Published(d, next, batch, Rows(d))

\* The checks that throw before anything is written.
Appendable(batch) ==
  /\ batch # {}
  /\ Cardinality(batch) <= MaxBatch
  /\ \A r, s \in batch : Infoset(r) = Infoset(s) => r = s
  /\ \A r \in batch : Infoset(r) \notin Rows(durable)

RowIndexInit ==
  /\ durable = [row |-> [i \in {} |-> 0], next |-> 1]
  /\ opened = 1
  /\ row_base = durable
  /\ phase = "idle"

BeginRowBatch ==
  /\ phase = "idle"
  /\ row_base' = durable
  /\ phase' = "batch"
  /\ UNCHANGED <<durable, opened>>

\* append_batch, which may be called more than once in a training batch.
AppendRows(batch) ==
  /\ phase = "batch"
  /\ Appendable(batch)
  /\ opened = durable.next
  /\ durable' = Extended(durable, opened, batch)
  /\ opened' = durable'.next
  /\ UNCHANGED <<row_base, phase>>

\* The store throws, before or after it has published the generation.
AppendRowsThrows(batch, published) ==
  /\ phase = "batch"
  /\ Appendable(batch)
  /\ durable' = IF published THEN Extended(durable, opened, batch) ELSE durable
  /\ phase' = "failed"
  /\ UNCHANGED <<opened, row_base>>

CommitRowBatch ==
  /\ phase = "batch"
  /\ phase' = "idle"
  /\ row_base' = durable
  /\ UNCHANGED <<durable, opened>>

\* A later part of the training batch throws.
RowBatchFails ==
  /\ phase = "batch"
  /\ phase' = "failed"
  /\ UNCHANGED <<durable, opened, row_base>>

\* abort_batch restores the files and constructs the index again (mutants: the
\* object is kept; an empty index is opened).
ReopenedKept == opened
Reopened == row_base.next
AbortRowBatchEmpty ==
  /\ phase = "failed"
  /\ durable' = [row |-> [i \in {} |-> 0], next |-> 1]
  /\ opened' = 1
  /\ phase' = "idle"
  /\ UNCHANGED row_base
AbortRowBatch ==
  /\ phase = "failed"
  /\ durable' = row_base
  /\ opened' = Reopened
  /\ phase' = "idle"
  /\ UNCHANGED row_base

RowIndexNext ==
  \/ BeginRowBatch \/ CommitRowBatch \/ RowBatchFails \/ AbortRowBatch
  \/ \E batch \in SUBSET Shapes :
       AppendRows(batch) \/ \E published \in BOOLEAN : AppendRowsThrows(batch, published)

RowIndexSpec == RowIndexInit /\ [][RowIndexNext]_rowVars

-----------------------------------------------------------------------------
(* Looking a bucket up. *)

\* locate_bucket: the last page of a row may be narrower.
BucketsOfPage(row, p) ==
  IF (p + 1) * PageWidth <= row.buckets THEN PageWidth ELSE row.buckets - p * PageWidth
LocateBucket(row, b) ==
  [page |-> row.first + b \div PageWidth, slot |-> b % PageWidth,
   width |-> BucketsOfPage(row, b \div PageWidth)]

Cells == UNION {{<<i, b>> : b \in 0 .. durable.row[i].buckets - 1} : i \in Rows(durable)}

\* Every bucket of every row has a cell of its own: no two rows share a page,
\* no two buckets share a slot, the slot lies in the page, and page ids are
\* handed out without gaps up to the allocator's.
CellsDisjoint ==
  LET at(c) == LocateBucket(durable.row[c[1]], c[2])
  IN  /\ \A c, d \in Cells : at(c).page = at(d).page => c[1] = d[1] /\ (at(c).slot = at(d).slot => c = d)
      /\ \A c \in Cells : at(c).slot < at(c).width
      /\ {at(c).page : c \in Cells} = 1 .. durable.next - 1

\* Outside a failed batch the object's allocator is the published one, so the
\* next append does not hand out a page id twice or refuse to run.
AllocatorAgrees == phase # "failed" => opened = durable.next

\* A row of a committed batch keeps its pages for ever.
CommittedRowsStep ==
  \A i \in Rows(row_base) : i \in Rows(durable') /\ durable'.row[i] = row_base.row[i]
CommittedRowsStay == [][CommittedRowsStep]_rowVars

\* No cell is handed out twice, now or by the next append.
RowIndexSound == CellsDisjoint /\ AllocatorAgrees
=============================================================================
