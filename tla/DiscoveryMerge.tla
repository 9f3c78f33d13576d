--------------------------- MODULE DiscoveryMerge ---------------------------
(***************************************************************************)
(* How the public states and rows that worker threads discover in a batch  *)
(* become one list in an order the coordinator can admit                   *)
(* (multiway_discovery.cpp).  Every worker appends to a bounded stream of  *)
(* its own and sorts and deduplicates it; the streams are merged by a scan *)
(* over their heads (the reference path) or with a heap of stream numbers  *)
(* (the tournament, for more streams than the threshold); the merged       *)
(* states are then ordered so that a parent precedes its children.         *)
(*                                                                         *)
(* A state may be reached by chance edges from two parents: its candidates *)
(* then differ in the parent and are still compatible.  What is compared   *)
(* besides (board, betting, menu, history) is the candidate's payload, and *)
(* the rows a state has follow from it as a shape.                         *)
(***************************************************************************)
EXTENDS Naturals, Sequences, FiniteSets, TLC

CONSTANTS
  WorkerCount,     \* streams.size()
  StreamCapacity,  \* public_state_capacity_ and row_capacity_ of a stream
  Candidates,      \* [id, parent, chance, payload] the workers may discover
  Root,            \* coordinator.root().public_state.id
  Known            \* ids with has_public_state_epoch

None == 0
Streams == 1 .. WorkerCount

VARIABLES
  stage,     \* "discover", "states", "rows", "order", "done" or "failed"
  path,      \* "Reference" or "Tournament"
  stream,    \* the streams: [states, rows, prepared]
  cursors,   \* scratch.cursors, counted from 1
  heap,      \* the first active_count entries of scratch.tournament
  merged,    \* the merged public states
  merged_rows,  \* the merged rows
  order      \* positions in merged, parents first

mergeVars == <<stage, path, stream, cursors, heap, merged, merged_rows, order>>

Row(c) == [key |-> c.id, shape |-> c.payload]

\* public_state_candidates_compatible (mutant: chance edges are not excepted).
CompatibleStrict(a, b) == a = b
Compatible(a, b) == a.payload = b.payload /\ (a = b \/ (a.chance /\ b.chance))

\* public_state_candidate_less; parents and edge kinds of an id decide.
CandidateLess(a, b) ==
  \/ a.id < b.id
  \/ a.id = b.id /\ a.parent < b.parent
  \/ a.id = b.id /\ a.parent = b.parent /\ ~a.chance /\ b.chance

RowShapeLess(a, b) == a.key < b.key \/ (a.key = b.key /\ a.shape < b.shape)

\* Sorting in the fixed order and keeping the first of each group of equals.
Firsts(seq, Same(_, _)) ==
  LET kept == {i \in DOMAIN seq : i = 1 \/ ~Same(seq[i - 1], seq[i])}
      nth(n) == CHOOSE i \in kept : Cardinality({j \in kept : j <= i}) = n
  IN  [n \in 1 .. Cardinality(kept) |-> seq[nth(n)]]

SameId(a, b) == a.id = b.id
SameKey(a, b) == a.key = b.key

SortedStates(s) == SortSeq(s.states, CandidateLess)
SortedRows(s) == SortSeq(s.rows, RowShapeLess)
StreamConflicts(s) ==
  \E a, b \in {s.states[i] : i \in DOMAIN s.states} : a.id = b.id /\ ~Compatible(a, b)

-----------------------------------------------------------------------------
MergeInit ==
  /\ stage = "discover"
  /\ path \in {"Reference", "Tournament"}
  /\ stream = [s \in Streams |-> [states |-> <<>>, rows |-> <<>>, prepared |-> FALSE]]
  /\ cursors = [s \in Streams |-> 1]
  /\ heap = <<>> /\ merged = <<>> /\ merged_rows = <<>> /\ order = <<>>

\* try_append_public_state and try_append_row for a state a trajectory meets.
TryAppend(s, c) ==
  /\ stage = "discover"
  /\ ~stream[s].prepared
  /\ Len(stream[s].states) < StreamCapacity
  /\ stream' = [stream EXCEPT ![s].states = Append(@, c), ![s].rows = Append(@, Row(c))]
  /\ UNCHANGED <<stage, path, cursors, heap, merged, merged_rows, order>>

\* prepare_for_merge: sort, and drop what the worker itself found twice.
PrepareForMerge(s) ==
  /\ stage = "discover"
  /\ ~stream[s].prepared
  /\ IF StreamConflicts(stream[s])
     THEN stage' = "failed" /\ UNCHANGED stream
     ELSE /\ stream' = [stream EXCEPT ![s] =
                          [states |-> Firsts(SortedStates(@), SameId),
                           rows |-> Firsts(SortedRows(@), SameKey), prepared |-> TRUE]]
          /\ UNCHANGED stage
  /\ UNCHANGED <<path, cursors, heap, merged, merged_rows, order>>

-----------------------------------------------------------------------------
(* The heap of stream numbers: the least head first, then the least stream. *)

\* The keys of a stream in the stage at hand.
Keys(s) == IF stage \in {"discover", "states"}
           THEN [i \in DOMAIN stream[s].states |-> stream[s].states[i].id]
           ELSE [i \in DOMAIN stream[s].rows |-> stream[s].rows[i].key]

Exhausted(s, cur) == cur[s] > Len(Keys(s))

HeadLess(keys, cur, s, t) ==
  IF keys[s][cur[s]] # keys[t][cur[t]] THEN keys[s][cur[s]] < keys[t][cur[t]] ELSE s < t

Swap(h, i, j) == [h EXCEPT ![i] = h[j], ![j] = h[i]]

RECURSIVE SiftUp(_, _, _, _)
SiftUp(h, i, keys, cur) ==
  IF i = 1 \/ ~HeadLess(keys, cur, h[i], h[i \div 2]) THEN h
  ELSE SiftUp(Swap(h, i, i \div 2), i \div 2, keys, cur)

\* tournament_push.
Push(h, s, keys, cur) == SiftUp(Append(h, s), Len(h) + 1, keys, cur)

RECURSIVE PushAll(_, _, _, _)
PushAll(h, s, keys, cur) ==
  IF s > WorkerCount THEN h
  ELSE PushAll(IF keys[s] = <<>> THEN h ELSE Push(h, s, keys, cur), s + 1, keys, cur)

\* The child that may move up (mutant: always the left one).
SiftChildLeft(h, i, keys, cur) == 2 * i
SiftChild(h, i, keys, cur) ==
  IF 2 * i + 1 <= Len(h) /\ HeadLess(keys, cur, h[2 * i + 1], h[2 * i]) THEN 2 * i + 1 ELSE 2 * i

RECURSIVE SiftDown(_, _, _, _)
SiftDown(h, i, keys, cur) ==
  LET child == SiftChild(h, i, keys, cur)
  IN  IF 2 * i > Len(h) \/ ~HeadLess(keys, cur, h[child], h[i]) THEN h
      ELSE SiftDown(Swap(h, i, child), child, keys, cur)

\* tournament_advance after the cursor of the stream at the top has moved.
Advance(h, keys, cur) ==
  LET top == h[1]
      shrunk == [SubSeq(h, 1, Len(h) - 1) EXCEPT ![1] = h[Len(h)]]
  IN  IF cur[top] <= Len(keys[top]) THEN SiftDown(h, 1, keys, cur)
      ELSE IF Len(h) = 1 THEN <<>> ELSE SiftDown(shrunk, 1, keys, cur)

FirstCursors == [s \in Streams |-> 1]

\* merge_multiway_discovery_streams: first the states, then the rows.
StartMerge ==
  /\ stage = "discover"
  /\ \A s \in Streams : stream[s].prepared
  /\ stage' = "states"
  /\ cursors' = FirstCursors
  /\ heap' = IF path = "Reference" THEN <<>>
             ELSE PushAll(<<>>, 1, [s \in Streams |-> Keys(s)], FirstCursors)
  /\ UNCHANGED <<path, stream, merged, merged_rows, order>>

-----------------------------------------------------------------------------
(* The reference path: one group of equal keys in a step. *)

Live == {s \in Streams : ~Exhausted(s, cursors)}
Head1(s) == Keys(s)[cursors[s]]
LeastKey == CHOOSE k \in {Head1(s) : s \in Live} : \A s \in Live : k <= Head1(s)
Group == {s \in Live : Head1(s) = LeastKey}
Passed == [s \in Streams |-> IF s \in Group THEN cursors[s] + 1 ELSE cursors[s]]

Least(cands) == CHOOSE c \in cands : \A d \in cands : ~CandidateLess(d, c)

MergeStateGroup ==
  LET cands == {stream[s].states[cursors[s]] : s \in Group}
  IN  /\ stage = "states" /\ path = "Reference" /\ Live # {}
      /\ IF \E a, b \in cands : ~Compatible(a, b)
         THEN stage' = "failed" /\ UNCHANGED <<merged, cursors>>
         ELSE /\ merged' = Append(merged, Least(cands))
              /\ cursors' = Passed
              /\ UNCHANGED stage
      /\ UNCHANGED <<path, stream, heap, merged_rows, order>>

MergeRowGroup ==
  LET shapes == {stream[s].rows[cursors[s]] : s \in Group}
  IN  /\ stage = "rows" /\ path = "Reference" /\ Live # {}
      /\ IF Cardinality(shapes) > 1
         THEN stage' = "failed" /\ UNCHANGED <<merged_rows, cursors>>
         ELSE /\ merged_rows' = Append(merged_rows, CHOOSE r \in shapes : TRUE)
              /\ cursors' = Passed
              /\ UNCHANGED stage
      /\ UNCHANGED <<path, stream, heap, merged, order>>

(* The tournament: one candidate, taken from the stream at the top. *)

Top == heap[1]
Taken == [cursors EXCEPT ![Top] = @ + 1]

\* A candidate of the last key is folded into the last output (mutant: the
\* first candidate stays, whatever the others are).
FoldStateFirst(out, c) ==
  IF out = <<>> \/ out[Len(out)].id # c.id THEN Append(out, c) ELSE out
FoldState(out, c) ==
  IF out = <<>> \/ out[Len(out)].id # c.id THEN Append(out, c)
  ELSE IF CandidateLess(c, out[Len(out)]) THEN [out EXCEPT ![Len(out)] = c] ELSE out

FoldRow(out, r) ==
  IF out = <<>> \/ out[Len(out)].key # r.key THEN Append(out, r) ELSE out

TakeState ==
  LET c == stream[Top].states[cursors[Top]]
      last == merged[Len(merged)]
  IN  /\ stage = "states" /\ heap # <<>>
      /\ IF merged # <<>> /\ last.id = c.id /\ ~Compatible(last, c)
         THEN stage' = "failed" /\ UNCHANGED <<merged, cursors, heap>>
         ELSE /\ merged' = FoldState(merged, c)
              /\ cursors' = Taken
              /\ heap' = Advance(heap, [s \in Streams |-> Keys(s)], Taken)
              /\ UNCHANGED stage
      /\ UNCHANGED <<path, stream, merged_rows, order>>

TakeRow ==
  LET r == stream[Top].rows[cursors[Top]]
      last == merged_rows[Len(merged_rows)]
  IN  /\ stage = "rows" /\ heap # <<>>
      /\ IF merged_rows # <<>> /\ last.key = r.key /\ last # r
         THEN stage' = "failed" /\ UNCHANGED <<merged_rows, cursors, heap>>
         ELSE /\ merged_rows' = FoldRow(merged_rows, r)
              /\ cursors' = Taken
              /\ heap' = Advance(heap, [s \in Streams |-> Keys(s)], Taken)
              /\ UNCHANGED stage
      /\ UNCHANGED <<path, stream, merged, order>>

StartRows ==
  /\ stage = "states"
  /\ \A s \in Streams : Exhausted(s, cursors)
  /\ stage' = "rows"
  /\ cursors' = FirstCursors
  /\ heap' = IF path = "Reference" THEN <<>>
             ELSE PushAll(<<>>, 1, [s \in Streams |-> [i \in DOMAIN stream[s].rows |->
                                                         stream[s].rows[i].key]], FirstCursors)
  /\ UNCHANGED <<path, stream, merged, merged_rows, order>>

EndRows ==
  /\ stage = "rows"
  /\ \A s \in Streams : Exhausted(s, cursors)
  /\ stage' = "order"
  /\ UNCHANGED <<path, stream, cursors, heap, merged, merged_rows, order>>

-----------------------------------------------------------------------------
(* build_parent_first_order. *)

Position(id) ==
  IF \E i \in DOMAIN merged : merged[i].id = id
  THEN CHOOSE i \in DOMAIN merged : merged[i].id = id ELSE None

\* The candidates from one up to the last whose parent is a candidate too.
RECURSIVE Chain(_, _)
Chain(i, seen) ==
  LET p == Position(merged[i].parent)
  IN  IF p = None \/ p \in seen THEN <<i>> ELSE <<i>> \o Chain(p, seen \cup {p})

Cyclic(i) ==
  LET last == Chain(i, {i})[Len(Chain(i, {i}))] IN Position(merged[last].parent) # None

\* A chain ends in the root (or a state admitted without a parent), at depth
\* 0, or in a child of an admitted state, at depth 1.
Unresolved(i) ==
  LET c == merged[i]
  IN  \/ c.parent = None /\ c.id # Root /\ c.id \notin Known
      \/ c.parent # None /\ Position(c.parent) = None /\ c.parent \notin Known

Depth(i) ==
  LET chain == Chain(i, {i})
      last == merged[chain[Len(chain)]]
  IN  IF last.parent = None THEN Len(chain) - 1 ELSE Len(chain)

\* By depth, then by id (mutant: by id alone).
OrderLessId(i, j) == merged[i].id < merged[j].id
OrderLess(i, j) ==
  IF Depth(i) # Depth(j) THEN Depth(i) < Depth(j) ELSE merged[i].id < merged[j].id

BuildParentFirstOrder ==
  /\ stage = "order"
  /\ IF \E i \in DOMAIN merged : Unresolved(i) \/ Cyclic(i)
     THEN stage' = "failed" /\ UNCHANGED order
     ELSE /\ stage' = "done"
          /\ order' = SortSeq([i \in DOMAIN merged |-> i], OrderLess)
  /\ UNCHANGED <<path, stream, cursors, heap, merged, merged_rows>>

MergeNext ==
  \/ \E s \in Streams : PrepareForMerge(s) \/ \E c \in Candidates : TryAppend(s, c)
  \/ StartMerge \/ MergeStateGroup \/ MergeRowGroup
  \/ TakeState \/ TakeRow \/ StartRows \/ EndRows \/ BuildParentFirstOrder

-----------------------------------------------------------------------------
Discovered == UNION {{stream[s].states[i] : i \in DOMAIN stream[s].states} : s \in Streams}
Merging == stage \in {"states", "rows"} /\ path = "Tournament"

\* Whichever worker met a state and whichever path merges, the merged list has
\* for each discovered id the least candidate, in the order of the ids, and
\* the rows follow the states.
MergedIsLeast ==
  stage \in {"order", "done"} =>
    /\ {c.id : c \in Discovered} = {merged[i].id : i \in DOMAIN merged}
    /\ \A i \in DOMAIN merged :
         /\ merged[i] = Least({c \in Discovered : c.id = merged[i].id})
         /\ i > 1 => merged[i - 1].id < merged[i].id
    /\ merged_rows = [i \in DOMAIN merged |-> Row(merged[i])]

\* In the tournament the stream at the top has the least head of the streams
\* that are not exhausted, the lower stream on a tie, and none is forgotten.
TournamentTopIsLeast ==
  Merging =>
    /\ {heap[i] : i \in DOMAIN heap} = Live
    /\ Len(heap) = Cardinality(Live)
    /\ \A s \in Live : s # Top =>
         HeadLess([t \in Streams |-> Keys(t)], cursors, Top, s)

\* The order of admission is a permutation in which a parent that is itself
\* discovered precedes its children.
ParentsFirst ==
  stage = "done" =>
    /\ {order[n] : n \in DOMAIN order} = DOMAIN merged
    /\ Len(order) = Len(merged)
    /\ \A n \in DOMAIN order :
         LET p == Position(merged[order[n]].parent)
         IN  p # None => \E m \in 1 .. n - 1 : order[m] = p

\* The merge refuses a batch only for two candidates of one id that differ in
\* more than the parents of two chance edges,
\* or for a parent that is neither discovered nor admitted.
RefusesOnlyConflicts ==
  stage = "failed" =>
    \/ \E a, b \in Discovered :
         a.id = b.id /\ (a.payload # b.payload \/ (a # b /\ ~(a.chance /\ b.chance)))
    \/ \E c \in Discovered :
         /\ c.id # Root
         /\ c.parent \notin Known \cup {d.id : d \in Discovered}

\* What the admission may rely on, whichever path merged the streams.
DiscoverySound ==
  MergedIsLeast /\ TournamentTopIsLeast /\ ParentsFirst /\ RefusesOnlyConflicts
=============================================================================
