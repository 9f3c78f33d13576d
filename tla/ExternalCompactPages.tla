------------------------ MODULE ExternalCompactPages ------------------------
(***************************************************************************)
(* The page cache of the external backend (MultiwayExternalCompactPages,   *)
(* multiway_external_compact_pages.cpp), the batches the compact storage   *)
(* runs over it, and its two kinds of users.  Worker threads read policies *)
(* under the shared traversal lock: each pins a page, reads the cells      *)
(* without the cache's mutex, and unpins it.  One thread holding the lock  *)
(* exclusively merges deltas or rescales every page, and flushes the dirty *)
(* pages whenever they fill the cache, so a batch may be larger than it.   *)
(*                                                                         *)
(* The mutex makes every call of the cache one step; a call is an operator *)
(* from cache to cache, composed where the caller holds the lock anyway.   *)
(* The cells of a page are represented by their version: each delta or     *)
(* rescaling makes a new one, and 0 is the page of zeros.  Slots and page  *)
(* ids count from 1, and 0 is "none", as in the encoded lookup slots.      *)
(***************************************************************************)
EXTENDS Naturals, FiniteSets

CONSTANTS
  PageCount,   \* next_page_id_ - 1: the pages the row index has handed out
  Capacity,    \* pages_.size()
  Readers,     \* worker threads
  MaxUpdates   \* bound on the versions of a page

Pages == 1 .. PageCount
Slots == 1 .. Capacity
Versions == 0 .. MaxUpdates
None == 0
Absent == MaxUpdates + 1     \* no record of the page in the store

\* The constructor refuses a capacity of 0.
CacheAssumption ==
  /\ PageCount \in Nat
  /\ Capacity \in Nat \ {0}
  /\ MaxUpdates \in Nat \ {0}
  /\ IsFiniteSet(Readers)

VARIABLES
  indexed,   \* page_lookup_slots_ is in use (maximum_page_id # 0)
  cache,     \* pages_, page_lookup_slots_, next_victim_, dirty_count_, batch_open_
  store,     \* the record store of the pages
  base,      \* what the store held when the training batch began
  writer,    \* the thread holding the exclusive lock, and where it is
  reading,   \* the page each reader has pinned
  working    \* history: the contents a completed batch must leave

vars == <<indexed, cache, store, base, writer, reading, working>>

Slot == [valid : BOOLEAN, id : 0 .. PageCount, dirty : BOOLEAN,
         pin : 0 .. Cardinality(Readers) + 1, data : Versions, before : Versions]

Cache == [slot : [Slots -> Slot], lookup : [Pages -> 0 .. Capacity], victim : Slots,
          dirty_count : 0 .. Capacity, batch_open : BOOLEAN]

EmptyCache ==
  [slot |-> [s \in Slots |-> [valid |-> FALSE, id |-> None, dirty |-> FALSE,
                              pin |-> 0, data |-> 0, before |-> 0]],
   lookup |-> [p \in Pages |-> None],
   victim |-> 1, dirty_count |-> 0, batch_open |-> FALSE]

Content(st, p) == IF st[p] = Absent THEN 0 ELSE st[p]

-----------------------------------------------------------------------------
(* The calls of the cache. *)

Holds(c, s, p) == c.slot[s].valid /\ c.slot[s].id = p

\* (mutant: the scan stops one slot early)
FindShort(c, p) ==
  IF indexed THEN IF c.lookup[p] # None /\ Holds(c, c.lookup[p], p) THEN c.lookup[p] ELSE None
  ELSE IF \E s \in 1 .. Capacity - 1 : Holds(c, s, p)
       THEN CHOOSE s \in 1 .. Capacity - 1 : Holds(c, s, p) ELSE None
\* find: the slot of a resident page, through the index or by a scan.
Find(c, p) ==
  IF indexed
  THEN IF c.lookup[p] # None /\ Holds(c, c.lookup[p], p) THEN c.lookup[p] ELSE None
  ELSE IF \E s \in Slots : Holds(c, s, p)
       THEN CHOOSE s \in Slots : Holds(c, s, p) /\ \A t \in 1 .. s - 1 : ~Holds(c, t, p)
       ELSE None

\* (mutant: a pinned page may be evicted)
EvictableWhenPinned(c, s) == ~c.slot[s].valid \/ ~c.slot[s].dirty
Evictable(c, s) == ~c.slot[s].valid \/ (c.slot[s].pin = 0 /\ ~c.slot[s].dirty)

\* The victim scan starts at next_victim_ and wraps around.
Turn(c, k) == 1 + ((c.victim - 1 + k) % Capacity)
Victim(c) ==
  LET k == CHOOSE k \in 0 .. Capacity - 1 :
             Evictable(c, Turn(c, k)) /\ \A j \in 0 .. k - 1 : ~Evictable(c, Turn(c, j))
  IN  Turn(c, k)

Full(c) == \A s \in Slots : ~Evictable(c, s)

\* cache_page after forget_cached_page of what the slot held.
Reindexed(c, s, p) ==
  IF ~indexed THEN c.lookup
  ELSE [q \in Pages |->
          IF q = p THEN s
          ELSE IF c.slot[s].valid /\ c.slot[s].id = q /\ c.lookup[q] = s THEN None
               ELSE c.lookup[q]]

LoadInto(c, st, s, p) ==
  [c EXCEPT !.victim = 1 + (s % Capacity),
            !.lookup = Reindexed(c, s, p),
            !.slot[s] = [valid |-> TRUE, id |-> p, dirty |-> FALSE, pin |-> 1,
                         data |-> Content(st, p), before |-> @.before]]

\* pin and pin_existing; they differ in what a page without a record gives.
CanPin(c, p) == Find(c, p) # None \/ ~Full(c)
Pin(c, st, p) ==
  IF Find(c, p) # None THEN [c EXCEPT !.slot[Find(c, p)].pin = @ + 1]
  ELSE LoadInto(c, st, Victim(c), p)

\* (mutant: unpin takes both pins of a page)
UnpinTwice(c, p) == [c EXCEPT !.slot[Find(c, p)].pin = @ - 2]
Unpin(c, p) == [c EXCEPT !.slot[Find(c, p)].pin = @ - 1]

\* mark_dirty keeps the cells of the last committed state the first time.
MarkDirty(c, p) ==
  LET s == Find(c, p)
  IN  IF c.slot[s].dirty THEN c
      ELSE [c EXCEPT !.slot[s].before = c.slot[s].data,
                     !.slot[s].dirty = TRUE,
                     !.dirty_count = @ + 1]

\* (mutant: the bound is off by one)
BatchFullByOne(c) == c.dirty_count > Capacity
BatchFull(c) == c.dirty_count = Capacity

\* begin_batch refuses a cache with a dirty or a pinned page.
CleanBoundary(c) == \A s \in Slots : ~c.slot[s].dirty /\ c.slot[s].pin = 0
BeginBatch(c) == [c EXCEPT !.batch_open = TRUE]

DirtySlots(c) == {s \in Slots : c.slot[s].dirty}

\* What append_batch stores for the collected dirty pages.
Appended(c) ==
  [p \in Pages |->
     IF \E s \in DirtySlots(c) : c.slot[s].id = p
     THEN c.slot[CHOOSE s \in DirtySlots(c) : c.slot[s].id = p].data
     ELSE store[p]]

ClearDirty(c) ==
  [c EXCEPT !.slot = [s \in Slots |-> [c.slot[s] EXCEPT !.dirty = FALSE]],
            !.dirty_count = 0, !.batch_open = FALSE]

\* (mutant: the count is kept)
RollbackDirtyKeepsCount(c) ==
  [c EXCEPT !.slot = [s \in Slots |-> IF c.slot[s].dirty
                                      THEN [c.slot[s] EXCEPT !.dirty = FALSE, !.data = c.slot[s].before]
                                      ELSE c.slot[s]], !.batch_open = FALSE]
RollbackDirty(c) ==
  [c EXCEPT !.slot = [s \in Slots |-> IF c.slot[s].dirty
                                      THEN [c.slot[s] EXCEPT !.dirty = FALSE,
                                                             !.data = c.slot[s].before]
                                      ELSE c.slot[s]],
            !.dirty_count = 0, !.batch_open = FALSE]

\* commit_batch with append_batch returning, or throwing before or after the
\* store has published a new generation.
CommitReturns(c) == ClearDirty(c)
\* (mutant: a failed commit never rolls back)
CommitThrowsClears(c, published) == ClearDirty(c)
CommitThrows(c, published) == IF published THEN ClearDirty(c) ELSE RollbackDirty(c)

-----------------------------------------------------------------------------
Init ==
  /\ indexed \in BOOLEAN
  /\ cache = EmptyCache
  /\ store \in [Pages -> {Absent, 1}]
  /\ base = store
  /\ writer = [at |-> "idle", page |-> None, next |-> 1, dirty |-> 0]
  /\ reading = [r \in Readers |-> None]
  /\ working = [p \in Pages |-> Content(store, p)]

\* A worker thread reads a policy under the shared lock.
ReaderPin(r, p) ==
  /\ writer.at = "idle"
  /\ reading[r] = None
  /\ CanPin(cache, p)
  /\ cache' = Pin(cache, store, p)
  /\ reading' = [reading EXCEPT ![r] = p]
  /\ UNCHANGED <<indexed, store, base, writer, working>>

ReaderUnpin(r) ==
  /\ reading[r] # None
  /\ cache' = Unpin(cache, reading[r])
  /\ reading' = [reading EXCEPT ![r] = None]
  /\ UNCHANGED <<indexed, store, base, writer, working>>

\* merge_worker_streams and commit_external_regret_batch take the lock
\* exclusively, which waits for the readers, and begin a page batch.
BeginWriting(kind) ==
  /\ writer.at = "idle"
  /\ \A r \in Readers : reading[r] = None
  /\ CleanBoundary(cache)
  /\ base' = store
  /\ cache' = BeginBatch(cache)
  /\ writer' = [at |-> kind, page |-> None, next |-> 1, dirty |-> 0]
  /\ UNCHANGED <<indexed, store, reading>>

BeginMerge == BeginWriting("merge") /\ UNCHANGED working

\* A rescaling must raise the version of every page that has one.
BeginTransform ==
  /\ \A p \in Pages : working[p] < MaxUpdates
  /\ BeginWriting("transform")
  /\ working' = [p \in Pages |-> IF working[p] = 0 THEN 0 ELSE working[p] + 1]

\* pin_external_bucket: leave the page of the last cell, flush the batch if
\* its pages fill the cache, and pin the page of the next one for writing.
LeftPage == IF writer.page = None THEN cache ELSE Unpin(cache, writer.page)
Flushed(c) == IF writer.page # None /\ BatchFull(c) THEN BeginBatch(CommitReturns(c)) ELSE c

WriterMove(p) ==
  LET left == LeftPage
      flushed == Flushed(left)
  IN  /\ writer.at = "merge"
      /\ writer.page # p
      /\ store' = IF flushed = left THEN store ELSE Appended(left)
      /\ CanPin(flushed, p)
      /\ cache' = MarkDirty(Pin(flushed, store', p), p)
      /\ writer' = [writer EXCEPT !.page = p]
      /\ UNCHANGED <<indexed, base, reading, working>>

\* apply_delta on the pinned page.
WriterApply ==
  LET s == Find(cache, writer.page)
  IN  /\ writer.at = "merge"
      /\ writer.page # None
      /\ working[writer.page] < MaxUpdates
      /\ cache' = [cache EXCEPT !.slot[s].data = @ + 1]
      /\ working' = [working EXCEPT ![writer.page] = @ + 1]
      /\ UNCHANGED <<indexed, store, base, writer, reading>>

WriterUnpin ==
  /\ writer.at = "merge"
  /\ writer.page # None
  /\ cache' = Unpin(cache, writer.page)
  /\ writer' = [writer EXCEPT !.page = None, !.at = "commit"]
  /\ UNCHANGED <<indexed, store, base, reading, working>>

\* One page of transform_external_regrets: pages without a record are passed
\* over, a page the transformation leaves alone is not marked, and the batch
\* is flushed when the loop has dirtied as many pages as the cache holds.
TransformPage ==
  LET p == writer.next
      known == Find(cache, p) # None \/ store[p] # Absent
      pinned == Pin(cache, store, p)
      s == Find(pinned, p)
      marked == MarkDirty(pinned, p)
      changed == Unpin([marked EXCEPT !.slot[s].data = @ + 1], p)
      dirty == writer.dirty + 1
  IN  /\ writer.at = "transform"
      /\ p \in Pages
      /\ known => CanPin(cache, p)
      /\ IF ~known
         THEN UNCHANGED <<cache, store>> /\ writer' = [writer EXCEPT !.next = p + 1]
         ELSE IF pinned.slot[s].data = 0
         THEN /\ cache' = Unpin(pinned, p)
              /\ writer' = [writer EXCEPT !.next = p + 1]
              /\ UNCHANGED store
         ELSE /\ cache' = changed
              /\ writer' = [writer EXCEPT !.next = p + 1, !.dirty = dirty,
                                          !.at = IF dirty = Capacity THEN "flush" ELSE @]
              /\ UNCHANGED store
      /\ UNCHANGED <<indexed, base, reading, working>>

\* flush_page_batch_and_continue: commit what is dirty and open the next batch.
FlushTransform ==
  /\ writer.at = "flush"
  /\ store' = Appended(cache)
  /\ cache' = BeginBatch(CommitReturns(cache))
  /\ writer' = [writer EXCEPT !.at = "transform", !.dirty = 0]
  /\ UNCHANGED <<indexed, base, reading, working>>

EndTransform ==
  /\ writer.at = "transform"
  /\ writer.next \notin Pages
  /\ writer' = [writer EXCEPT !.at = "commit"]
  /\ UNCHANGED <<indexed, cache, store, base, reading, working>>

\* commit_batch of the pages and of the aggregate transaction.
Commit ==
  /\ writer.at = "commit"
  /\ store' = Appended(cache)
  /\ cache' = CommitReturns(cache)
  /\ writer' = [writer EXCEPT !.at = "idle"]
  /\ base' = store'
  /\ UNCHANGED <<indexed, reading, working>>

\* append_batch throws, in a flush or in the commit; the guard aborts next.
\* With published, this is also a transaction that fails after the pages.
CommitFails(published) ==
  /\ \/ writer.at \in {"commit", "flush"}
     \/ writer.at = "merge" /\ writer.page # None /\ BatchFull(LeftPage)
  /\ store' = IF published THEN Appended(LeftPage) ELSE store
  /\ cache' = CommitThrows(LeftPage, published)
  /\ writer' = [writer EXCEPT !.at = "failed", !.page = None]
  /\ UNCHANGED <<indexed, base, reading, working>>

\* A delta that does not match a row, or a cache without a free slot, throws
\* out of the merge with the page still pinned.
WriterThrows ==
  /\ writer.at \in {"merge", "transform"}
  /\ writer' = [writer EXCEPT !.at = "failed"]
  /\ UNCHANGED <<indexed, cache, store, base, reading, working>>

\* (mutant: the transaction does not restore the pages)
AbortKeepsStore ==
  /\ writer.at = "failed"
  /\ cache' = EmptyCache
  /\ writer' = [writer EXCEPT !.at = "idle", !.page = None]
  /\ working' = [p \in Pages |-> Content(base, p)]
  /\ UNCHANGED <<indexed, store, base, reading>>
\* MultiwayExternalTrainingStorage::abort_batch: the components are dropped,
\* the transaction restores their files and they are opened again.
Abort ==
  /\ writer.at = "failed"
  /\ store' = base
  /\ cache' = EmptyCache
  /\ writer' = [writer EXCEPT !.at = "idle", !.page = None]
  /\ working' = [p \in Pages |-> Content(base, p)]
  /\ UNCHANGED <<indexed, base, reading>>

Next ==
  \/ \E r \in Readers : ReaderUnpin(r) \/ \E p \in Pages : ReaderPin(r, p)
  \/ BeginMerge \/ BeginTransform
  \/ \E p \in Pages : WriterMove(p)
  \/ WriterApply \/ WriterUnpin \/ TransformPage \/ FlushTransform \/ EndTransform
  \/ Commit \/ WriterThrows \/ Abort
  \/ \E published \in BOOLEAN : CommitFails(published)

Spec == Init /\ [][Next]_vars

-----------------------------------------------------------------------------
TypeOK ==
  /\ indexed \in BOOLEAN
  /\ cache \in Cache
  /\ store \in [Pages -> Versions \cup {Absent}]
  /\ base \in [Pages -> Versions \cup {Absent}]
  /\ writer \in [at : {"idle", "merge", "transform", "flush", "commit", "failed"},
                 page : 0 .. PageCount, next : 1 .. PageCount + 1, dirty : 0 .. Capacity]
  /\ reading \in [Readers -> 0 .. PageCount]
  /\ working \in [Pages -> Versions]

\* No page is resident twice, and the index finds exactly what a scan finds,
\* whatever was evicted from a slot before.
ResidentOnce ==
  \A s \in Slots : cache.slot[s].valid =>
    /\ \A t \in Slots \ {s} : ~Holds(cache, t, cache.slot[s].id)
    /\ Find(cache, cache.slot[s].id) = s

\* A page the cache does not call dirty has the cells of its record, also after
\* a commit that threw before or after the store published it.
CleanPagesMatchStore ==
  \A s \in Slots : cache.slot[s].valid /\ ~cache.slot[s].dirty =>
    cache.slot[s].data = Content(store, cache.slot[s].id)

\* dirty_count_ counts the dirty slots: the flush that makes room depends on it.
DirtyCountExact == cache.dirty_count = Cardinality(DirtySlots(cache))

\* The thread that writes always finds a slot: a batch of any number of pages
\* goes through a cache of any capacity, and a slot is dirty only in a batch.
WriterNeverStarved ==
  /\ writer.at = "merge" => \A p \in Pages \ {writer.page} : CanPin(Flushed(LeftPage), p)
  /\ writer.at = "transform" /\ writer.next \in Pages => CanPin(cache, writer.next)

\* What a page holds: its cells in the cache, or else its record.
Logical(p) == IF Find(cache, p) # None THEN cache.slot[Find(cache, p)].data
              ELSE Content(store, p)

\* The pages hold every delta of the batch while it runs, flushed or not, a
\* rescaling reaches every page exactly once, and between batches the records
\* are those of whole batches, after a failure those of the last one.
NoUpdateLost ==
  /\ writer.at \in {"merge", "commit"} => \A p \in Pages : Logical(p) = working[p]
  /\ writer.at \in {"transform", "flush"} =>
       \A p \in Pages : p < writer.next => Logical(p) = working[p]
  /\ writer.at = "idle" => \A p \in Pages : Content(store, p) = working[p]

\* The cells a reader sees through its pin do not change and do not move to
\* another page until it unpins: no eviction, load or batch touches them.
PinnedStep ==
  \A r \in Readers : reading[r] # None /\ reading'[r] = reading[r] =>
    LET s == Find(cache, reading[r])
    IN  /\ s # None
        /\ Holds(cache', s, reading[r])
        /\ cache'.slot[s].data = cache.slot[s].data

\* The cache as a whole: what it holds, what it counts and whom it serves.
PagesSound ==
  /\ TypeOK /\ ResidentOnce /\ CleanPagesMatchStore /\ DirtyCountExact
  /\ WriterNeverStarved /\ NoUpdateLost
=============================================================================
