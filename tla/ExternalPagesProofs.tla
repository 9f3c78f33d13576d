------------------------- MODULE ExternalPagesProofs -------------------------
(***************************************************************************)
(* Theorems about the two tables of the external pages: ExternalCompact-   *)
(* Pages, the cache, for every number of pages, slots and readers, with    *)
(* and without the page index; and ExternalRowIndex, which hands the page  *)
(* ids out, for every page width and every set of rows.                    *)
(*                                                                         *)
(* Good says what the cache promises after each of its calls, as a         *)
(* relation between the cache, the records and the pins the threads hold;  *)
(* one lemma per call shows that it is kept, and what the call leaves      *)
(* alone.  CacheInvariant adds what the lock promises: a slot is dirty     *)
(* only while a thread writes, and a thread writes only while no reader    *)
(* has a pin.  So dirty_count_ tells when every slot is dirty, which is    *)
(* the only way a writer could find no victim.                             *)
(*                                                                         *)
(* The row index is in order when the pages of its rows, counted from each *)
(* row's first, are all the pages below the allocator, each in one row.    *)
(* A batch keeps it so because its rows, in their order, cut the pages it  *)
(* adds into intervals that follow one another.                            *)
(***************************************************************************)
EXTENDS ExternalCompactPages, ExternalRowIndex, TLAPS, FiniteSetTheorems,
        FunctionTheorems, WellFoundedInduction

-----------------------------------------------------------------------------
(***************************************************************************)
(* What a cache in good order is, and what find makes of it.               *)
(***************************************************************************)
\* The fields of the cache, with counts that are not yet bounded.
SlotFields == [valid : BOOLEAN, id : 0 .. PageCount, dirty : BOOLEAN,
               pin : Nat, data : Versions, before : Versions]

\* The fields of the cache.
CacheFields == [slot : [Slots -> SlotFields], lookup : [Pages -> 0 .. Capacity], victim : Slots,
                dirty_count : Nat, batch_open : BOOLEAN]

\* The record store: each page has a version, or no record.
Records == [Pages -> Versions \cup {Absent}]

\* A page is in some slot.
Resident(c, p) == \E s \in Slots : Holds(c, s, p)

\* What a page holds: its cells in the cache, or else its record.
Value(c, st, p) == IF Find(c, p) # None THEN c.slot[Find(c, p)].data ELSE Content(st, p)

\* A cache in good order over the records st, in which pins[p] pins are on page p.
Good(c, st, pins) ==
  /\ c \in CacheFields
  /\ st \in Records
  /\ pins \in [Pages -> Nat]
  /\ \A s \in Slots : c.slot[s].valid => c.slot[s].id \in Pages
  /\ \A s, t \in Slots : c.slot[s].valid /\ c.slot[t].valid /\ c.slot[s].id = c.slot[t].id => s = t
  /\ indexed => \A s \in Slots : c.slot[s].valid => c.lookup[c.slot[s].id] = s
  /\ \A s \in Slots : c.slot[s].dirty => c.slot[s].valid
  /\ \A s \in Slots : c.slot[s].valid /\ ~ c.slot[s].dirty => c.slot[s].data = Content(st, c.slot[s].id)
  /\ \A s \in Slots : c.slot[s].dirty => c.slot[s].before = Content(st, c.slot[s].id)
  /\ \A s \in Slots : c.slot[s].pin = IF c.slot[s].valid THEN pins[c.slot[s].id] ELSE 0
  /\ \A p \in Pages : pins[p] # 0 => Resident(c, p)
  /\ c.dirty_count = Cardinality(DirtySlots(c))

\* A set of naturals has a least element.
LEMMA NatMin ==
  ASSUME NEW T, T \subseteq Nat, T # {}
  PROVE  \E x \in T : \A y \in T : x <= y
PROOF
<1> DEFINE R == {ss \in Nat \X Nat : ss[1] < ss[2]}
<1>1. IsWellFoundedOn(R, Nat)
  BY NatLessThanWellFounded DEF OpToRel
<1>2. \A x, y \in Nat : y < x => <<y, x>> \in R
  OBVIOUS
<1> HIDE DEF R
<1>3. \E x \in T : \A y \in T : ~ (<<y, x>> \in R)
  BY <1>1, WFMin, Zenon
<1>4. PICK x \in T : \A y \in T : ~ (<<y, x>> \in R)
  BY <1>3
<1>5. ASSUME NEW y \in T PROVE x <= y
  <2>1. x \in Nat /\ y \in Nat
    OBVIOUS
  <2>2. ~ (y < x)
    BY <1>2, <1>4, <2>1, Zenon
  <2> QED BY <2>1, <2>2
<1> QED BY <1>5

\* find: the slot of a resident page, whether through the index or by a scan.
LEMMA FindFacts ==
  ASSUME CacheAssumption, NEW c, NEW st, NEW pins, Good(c, st, pins), NEW p \in Pages
  PROVE  /\ Find(c, p) \in 0 .. Capacity
         /\ Find(c, p) # None => Find(c, p) \in Slots /\ Holds(c, Find(c, p), p)
         /\ \A s \in Slots : Holds(c, s, p) => Find(c, p) = s
PROOF
<1>0. Capacity \in Nat \ {0} /\ Slots = 1 .. Capacity /\ None = 0 /\ c \in CacheFields
  BY DEF CacheAssumption, Slots, None, Good
<1>1. CASE indexed
  <2>1. Find(c, p) = IF c.lookup[p] # None /\ Holds(c, c.lookup[p], p) THEN c.lookup[p] ELSE None
    BY <1>1 DEF Find
  <2>2. c.lookup[p] \in 0 .. Capacity
    BY <1>0 DEF CacheFields
  <2>3. \A s \in Slots : Holds(c, s, p) => c.lookup[p] = s
    BY <1>1 DEF Good, Holds
  <2> QED BY <1>0, <2>1, <2>2, <2>3
<1>2. CASE ~ indexed
  <2>1. CASE \E s \in Slots : Holds(c, s, p)
    <3> DEFINE S == {s \in Slots : Holds(c, s, p)}
    <3>1. PICK s \in S : \A t \in S : s <= t
      <4>1. S \subseteq Nat /\ S # {}
        BY <1>0, <2>1
      <4> HIDE DEF S
      <4> QED BY <4>1, NatMin
    <3>2. s \in Slots /\ Holds(c, s, p) /\ \A t \in 1 .. s - 1 : ~ Holds(c, t, p)
      BY <1>0, <3>1
    <3>3. Find(c, p) = CHOOSE t \in Slots : Holds(c, t, p) /\ \A u \in 1 .. t - 1 : ~ Holds(c, u, p)
      BY <1>2, <2>1 DEF Find
    <3>4. Find(c, p) \in Slots /\ Holds(c, Find(c, p), p)
      BY <3>2, <3>3
    <3>5. \A t \in Slots : Holds(c, t, p) => t = Find(c, p)
      BY <3>4 DEF Good, Holds
    <3> QED BY <1>0, <3>4, <3>5
  <2>2. CASE ~ \E s \in Slots : Holds(c, s, p)
    BY <1>0, <1>2, <2>2 DEF Find
  <2> QED BY <2>1, <2>2
<1> QED BY <1>1, <1>2

-----------------------------------------------------------------------------
(***************************************************************************)
(* The calls of the cache keep it in order.                                *)
(***************************************************************************)
\* A cache with other fields of one slot.
LEMMA SlotChanged ==
  ASSUME NEW c \in CacheFields, NEW s \in Slots, NEW f
  PROVE  /\ [c EXCEPT !.slot[s] = f].slot = [c.slot EXCEPT ![s] = f]
         /\ [c EXCEPT !.slot[s] = f].lookup = c.lookup
         /\ [c EXCEPT !.slot[s] = f].victim = c.victim
         /\ [c EXCEPT !.slot[s] = f].dirty_count = c.dirty_count
         /\ [c EXCEPT !.slot[s] = f].batch_open = c.batch_open
PROOF BY DEF CacheFields

\* begin_batch.
LEMMA BeginGood ==
  ASSUME CacheAssumption, NEW c, NEW st, NEW pins, Good(c, st, pins)
  PROVE  /\ Good(BeginBatch(c), st, pins)
         /\ BeginBatch(c).slot = c.slot
         /\ BeginBatch(c).dirty_count = c.dirty_count
         /\ \A p \in Pages : Find(BeginBatch(c), p) = Find(c, p)
         /\ \A p \in Pages : Value(BeginBatch(c), st, p) = Value(c, st, p)
PROOF
<1> DEFINE d == BeginBatch(c)
<1>1. /\ d \in CacheFields /\ d.slot = c.slot /\ d.lookup = c.lookup
      /\ d.dirty_count = c.dirty_count
  BY DEF Good, CacheFields, BeginBatch
<1> HIDE DEF d
<1>2. \A s \in Slots, p \in Pages : Holds(d, s, p) <=> Holds(c, s, p)
  BY <1>1 DEF Holds
<1>3. DirtySlots(d) = DirtySlots(c)
  BY <1>1 DEF DirtySlots
<1>4. \A p \in Pages : Resident(d, p) <=> Resident(c, p)
  BY <1>2 DEF Resident
<1>5. Good(d, st, pins)
  BY <1>1, <1>3, <1>4 DEF Good
<1>6. \A p \in Pages : Find(d, p) = Find(c, p)
  <2> TAKE p \in Pages
  <2>1. Find(c, p) # None => Holds(c, Find(c, p), p) /\ Find(c, p) \in Slots
    BY FindFacts
  <2>2. Find(d, p) # None => Holds(d, Find(d, p), p) /\ Find(d, p) \in Slots
    BY <1>5, FindFacts
  <2>3. Find(d, p) # None => Find(c, p) = Find(d, p)
    BY <1>2, <2>2, FindFacts
  <2>4. Find(c, p) # None => Find(d, p) = Find(c, p)
    BY <1>2, <1>5, <2>1, FindFacts
  <2> QED BY <2>3, <2>4
<1>7. \A p \in Pages : Value(d, st, p) = Value(c, st, p)
  BY <1>1, <1>6 DEF Value
<1> QED BY <1>1, <1>5, <1>6, <1>7 DEF d

\* Slots that hold the same pages are found alike.
LEMMA FindSame ==
  ASSUME CacheAssumption, NEW c, NEW st, NEW pins, Good(c, st, pins),
         NEW d, NEW st2, NEW pins2, Good(d, st2, pins2),
         \A s \in Slots : d.slot[s].valid = c.slot[s].valid /\ d.slot[s].id = c.slot[s].id
  PROVE  \A p \in Pages : Find(d, p) = Find(c, p)
PROOF
<1>1. \A s \in Slots, p \in Pages : Holds(d, s, p) <=> Holds(c, s, p)
  BY DEF Holds
<1> TAKE p \in Pages
<1>2. Find(c, p) # None => Holds(c, Find(c, p), p) /\ Find(c, p) \in Slots
  BY FindFacts
<1>3. Find(d, p) # None => Holds(d, Find(d, p), p) /\ Find(d, p) \in Slots
  BY FindFacts
<1>4. Find(d, p) # None => Find(c, p) = Find(d, p)
  BY <1>1, <1>3, FindFacts
<1>5. Find(c, p) # None => Find(d, p) = Find(c, p)
  BY <1>1, <1>2, FindFacts
<1> QED BY <1>4, <1>5

\* A call that changes one slot and leaves the page in it.
LEMMA OneSlot ==
  ASSUME CacheAssumption, NEW c, NEW st, NEW pins, Good(c, st, pins),
         NEW s \in Slots, NEW f \in SlotFields, NEW d \in CacheFields, NEW p \in Pages,
         Holds(c, s, p),
         d.slot = [c.slot EXCEPT ![s] = f], d.lookup = c.lookup,
         f.valid = c.slot[s].valid, f.id = c.slot[s].id,
         ~ f.dirty => f.data = Content(st, p),
         f.dirty => f.before = Content(st, p),
         d.dirty_count = Cardinality(DirtySlots(d))
  PROVE  Good(d, st, [pins EXCEPT ![p] = f.pin])
PROOF
<1> DEFINE e == [pins EXCEPT ![p] = f.pin]
<1>1. \A t \in Slots : d.slot[t] = IF t = s THEN f ELSE c.slot[t]
  BY DEF Good, CacheFields
<1>2. c.slot[s].valid /\ c.slot[s].id = p
  BY DEF Holds
<1>3. \A t \in Slots : d.slot[t].valid = c.slot[t].valid /\ d.slot[t].id = c.slot[t].id
  BY <1>1
<1>4. \A q \in Pages : Resident(d, q) <=> Resident(c, q)
  BY <1>3 DEF Resident, Holds
<1>5. e \in [Pages -> Nat] /\ e[p] = f.pin /\ \A q \in Pages \ {p} : e[q] = pins[q]
  BY DEF Good, SlotFields
<1> HIDE DEF e
<1>6. \A t \in Slots : d.slot[t].pin = IF d.slot[t].valid THEN e[d.slot[t].id] ELSE 0
  <2> TAKE t \in Slots
  <2>1. CASE t = s
    BY <1>1, <1>2, <1>3, <1>5, <2>1
  <2>2. CASE t # s
    <3>1. c.slot[t].valid => c.slot[t].id # p /\ c.slot[t].id \in Pages
      BY <1>2, <2>2 DEF Good
    <3> QED BY <1>1, <1>5, <2>2, <3>1 DEF Good
  <2> QED BY <2>1, <2>2
<1>7. \A q \in Pages : e[q] # 0 => Resident(d, q)
  <2> TAKE q \in Pages
  <2>1. Resident(c, p)
    BY DEF Resident
  <2> QED BY <1>4, <1>5, <2>1 DEF Good
<1>8. \A t \in Slots : d.slot[t].dirty => d.slot[t].valid
  BY <1>1, <1>2, <1>3 DEF Good
<1>9. /\ \A t \in Slots : d.slot[t].valid /\ ~ d.slot[t].dirty => d.slot[t].data = Content(st, d.slot[t].id)
      /\ \A t \in Slots : d.slot[t].dirty => d.slot[t].before = Content(st, d.slot[t].id)
  BY <1>1, <1>2, <1>3 DEF Good
<1>10. /\ \A t \in Slots : d.slot[t].valid => d.slot[t].id \in Pages
       /\ \A t, u \in Slots : d.slot[t].valid /\ d.slot[u].valid /\ d.slot[t].id = d.slot[u].id => t = u
       /\ indexed => \A t \in Slots : d.slot[t].valid => d.lookup[d.slot[t].id] = t
  BY <1>3 DEF Good
<1>11. st \in Records
  BY DEF Good
<1> QED BY <1>5, <1>6, <1>7, <1>8, <1>9, <1>10, <1>11 DEF Good, e

\* unpin takes one pin of a pinned page and nothing else.
LEMMA UnpinGood ==
  ASSUME CacheAssumption, NEW c, NEW st, NEW pins, Good(c, st, pins), NEW p \in Pages, pins[p] # 0
  PROVE  /\ Good(Unpin(c, p), st, [pins EXCEPT ![p] = @ - 1])
         /\ \A s \in Slots : /\ Unpin(c, p).slot[s].valid = c.slot[s].valid
                             /\ Unpin(c, p).slot[s].id = c.slot[s].id
                             /\ Unpin(c, p).slot[s].dirty = c.slot[s].dirty
                             /\ Unpin(c, p).slot[s].data = c.slot[s].data
         /\ Unpin(c, p).dirty_count = c.dirty_count
         /\ \A q \in Pages : Find(Unpin(c, p), q) = Find(c, q)
         /\ \A q \in Pages : Value(Unpin(c, p), st, q) = Value(c, st, q)
PROOF
<1> DEFINE s == Find(c, p)
           d == Unpin(c, p)
           f == [c.slot[s] EXCEPT !.pin = @ - 1]
<1>1. s \in Slots /\ Holds(c, s, p)
  BY FindFacts DEF Good, Resident
<1>2. c.slot[s] \in SlotFields /\ c \in CacheFields
  BY <1>1 DEF Good, CacheFields
<1>3. c.slot[s].pin = pins[p] /\ pins[p] \in Nat
  BY <1>1 DEF Good, Holds
<1> HIDE DEF s
<1>4. /\ f \in SlotFields /\ f.valid = c.slot[s].valid /\ f.id = c.slot[s].id
      /\ f.dirty = c.slot[s].dirty /\ f.data = c.slot[s].data /\ f.before = c.slot[s].before
      /\ f.pin = pins[p] - 1
  BY <1>2, <1>3 DEF SlotFields
<1>5. d = [c EXCEPT !.slot[s] = f]
  BY DEF Unpin, s
<1> HIDE DEF d, f
<1>6. /\ d.slot = [c.slot EXCEPT ![s] = f] /\ d.lookup = c.lookup /\ d.victim = c.victim
      /\ d.dirty_count = c.dirty_count /\ d.batch_open = c.batch_open /\ d \in CacheFields
  BY <1>1, <1>2, <1>4, <1>5 DEF CacheFields
<1>7. \A t \in Slots : /\ d.slot[t].valid = c.slot[t].valid /\ d.slot[t].id = c.slot[t].id
                       /\ d.slot[t].dirty = c.slot[t].dirty /\ d.slot[t].data = c.slot[t].data
  BY <1>1, <1>2, <1>4, <1>6 DEF CacheFields
<1>8. DirtySlots(d) = DirtySlots(c)
  BY <1>7 DEF DirtySlots
<1>9. /\ ~ f.dirty => f.data = Content(st, p)
      /\ f.dirty => f.before = Content(st, p)
  BY <1>1, <1>4 DEF Good, Holds
<1>10. Good(d, st, [pins EXCEPT ![p] = f.pin])
  <2>1. d.dirty_count = Cardinality(DirtySlots(d))
    BY <1>6, <1>8 DEF Good
  <2> QED BY <1>1, <1>4, <1>6, <1>9, <2>1, OneSlot
<1>11. [pins EXCEPT ![p] = f.pin] = [pins EXCEPT ![p] = @ - 1]
  BY <1>4
<1>12. \A q \in Pages : Find(d, q) = Find(c, q)
  BY <1>7, <1>10, FindSame
<1>13. \A q \in Pages : Value(d, st, q) = Value(c, st, q)
  BY <1>7, <1>12, FindFacts DEF Value
<1> QED BY <1>6, <1>7, <1>10, <1>11, <1>12, <1>13 DEF d

\* mark_dirty keeps the cells of the record and counts the page once.
LEMMA MarkGood ==
  ASSUME CacheAssumption, NEW c, NEW st, NEW pins, Good(c, st, pins), NEW p \in Pages, Find(c, p) # None
  PROVE  /\ Good(MarkDirty(c, p), st, pins)
         /\ \A s \in Slots : /\ MarkDirty(c, p).slot[s].valid = c.slot[s].valid
                             /\ MarkDirty(c, p).slot[s].id = c.slot[s].id
                             /\ MarkDirty(c, p).slot[s].data = c.slot[s].data
                             /\ MarkDirty(c, p).slot[s].dirty <=> c.slot[s].dirty \/ s = Find(c, p)
         /\ MarkDirty(c, p).dirty_count =
              IF c.slot[Find(c, p)].dirty THEN c.dirty_count ELSE c.dirty_count + 1
         /\ \A q \in Pages : Find(MarkDirty(c, p), q) = Find(c, q)
         /\ \A q \in Pages : Value(MarkDirty(c, p), st, q) = Value(c, st, q)
PROOF
<1> DEFINE s == Find(c, p)
           d == MarkDirty(c, p)
           f == [c.slot[s] EXCEPT !.before = c.slot[s].data, !.dirty = TRUE]
<1>1. s \in Slots /\ Holds(c, s, p)
  BY FindFacts
<1>2. c.slot[s] \in SlotFields /\ c \in CacheFields
  BY <1>1 DEF Good, CacheFields
<1>3. CASE c.slot[s].dirty
  <2>1. d = c
    BY <1>3 DEF MarkDirty
  <2> QED BY <1>3, <2>1
<1>4. CASE ~ c.slot[s].dirty
  <2>1. d = [c EXCEPT !.slot[s].before = c.slot[s].data, !.slot[s].dirty = TRUE, !.dirty_count = @ + 1]
    BY <1>4 DEF MarkDirty
  <2> HIDE DEF s
  <2>2. /\ f \in SlotFields /\ f.valid = c.slot[s].valid /\ f.id = c.slot[s].id
        /\ f.dirty /\ f.data = c.slot[s].data /\ f.before = c.slot[s].data /\ f.pin = c.slot[s].pin
    BY <1>2 DEF SlotFields
  <2>3. d.slot = [c.slot EXCEPT ![s] = f]
    <3> DEFINE g == [c.slot EXCEPT ![s].before = c.slot[s].data]
               h == [g EXCEPT ![s].dirty = TRUE]
               fs == SlotFields
    <3>1. d.slot = h
      BY <1>2, <2>1 DEF CacheFields
    <3>2. c.slot \in [Slots -> fs]
      BY <1>2 DEF CacheFields
    <3> HIDE DEF d, fs
    <3>3. g = [c.slot EXCEPT ![s] = [c.slot[s] EXCEPT !.before = c.slot[s].data]]
      OBVIOUS
    <3>4. g[s] = [c.slot[s] EXCEPT !.before = c.slot[s].data]
      BY <1>1, <3>2
    <3>5. h = [g EXCEPT ![s] = f]
      BY <3>4
    <3> HIDE DEF f, g
    <3>6. h = [c.slot EXCEPT ![s] = f]
      BY <1>1, <3>2, <3>3, <3>5
    <3> QED BY <3>1, <3>6
  <2>4. /\ d.lookup = c.lookup /\ d.victim = c.victim /\ d.batch_open = c.batch_open
        /\ d.dirty_count = c.dirty_count + 1
        /\ d = [slot |-> d.slot, lookup |-> d.lookup, victim |-> d.victim,
                dirty_count |-> d.dirty_count, batch_open |-> d.batch_open]
    BY <1>2, <2>1 DEF CacheFields
  <2> HIDE DEF d, f
  <2>5. d \in CacheFields
    BY <1>1, <1>2, <2>2, <2>3, <2>4 DEF CacheFields
  <2>6. \A t \in Slots : d.slot[t] = IF t = s THEN f ELSE c.slot[t]
    BY <1>2, <2>3 DEF CacheFields
  <2>7. \A t \in Slots : /\ d.slot[t].valid = c.slot[t].valid /\ d.slot[t].id = c.slot[t].id
                         /\ d.slot[t].data = c.slot[t].data
                         /\ d.slot[t].dirty <=> c.slot[t].dirty \/ t = s
    BY <2>2, <2>6
  <2>8. DirtySlots(d) = DirtySlots(c) \cup {s} /\ s \notin DirtySlots(c)
    BY <1>1, <1>4, <2>7 DEF DirtySlots, s
  <2>9. IsFiniteSet(DirtySlots(c))
    <3>1. IsFiniteSet(Slots)
      BY FS_Interval DEF Slots, CacheAssumption
    <3> QED BY <3>1, FS_Subset DEF DirtySlots
  <2>10. d.dirty_count = Cardinality(DirtySlots(d))
    <3>1. Cardinality(DirtySlots(c) \cup {s}) = Cardinality(DirtySlots(c)) + 1
      BY <2>8, <2>9, FS_AddElement
    <3>2. c.dirty_count = Cardinality(DirtySlots(c))
      BY DEF Good
    <3>3. d.dirty_count = c.dirty_count + 1
      BY <2>4
    <3> QED BY <2>8, <3>1, <3>2, <3>3
  <2>11. c.slot[s].data = Content(st, p) /\ c.slot[s].pin = pins[p]
    BY <1>1, <1>4 DEF Good, Holds, s
  <2>12. Good(d, st, [pins EXCEPT ![p] = f.pin])
    BY <1>1, <2>2, <2>3, <2>4, <2>5, <2>10, <2>11, OneSlot
  <2>13. [pins EXCEPT ![p] = f.pin] = pins
    BY <2>2, <2>11 DEF Good
  <2>14. Good(d, st, pins)
    BY <2>12, <2>13
  <2>15. \A q \in Pages : Find(d, q) = Find(c, q)
    BY <2>7, <2>14, FindSame
  <2>16. \A q \in Pages : Value(d, st, q) = Value(c, st, q)
    BY <2>7, <2>15, FindFacts DEF Value
  <2> QED BY <1>4, <2>4, <2>7, <2>14, <2>15, <2>16 DEF d, s
<1> QED BY <1>3, <1>4

\* The cells of a dirty page change.
LEMMA WriteGood ==
  ASSUME CacheAssumption, NEW c, NEW st, NEW pins, Good(c, st, pins), NEW p \in Pages,
         NEW s \in Slots, Holds(c, s, p), c.slot[s].dirty, c.slot[s].data < MaxUpdates,
         NEW d, d = [c EXCEPT !.slot[s].data = @ + 1]
  PROVE  /\ Good(d, st, pins)
         /\ \A t \in Slots : /\ d.slot[t].valid = c.slot[t].valid
                             /\ d.slot[t].id = c.slot[t].id
                             /\ d.slot[t].dirty = c.slot[t].dirty
         /\ d.dirty_count = c.dirty_count
         /\ \A q \in Pages : Find(d, q) = Find(c, q)
         /\ \A q \in Pages : Value(d, st, q) = IF q = p THEN Value(c, st, q) + 1 ELSE Value(c, st, q)
PROOF
<1> DEFINE f == [c.slot[s] EXCEPT !.data = @ + 1]
<1>2. c.slot[s] \in SlotFields /\ c \in CacheFields
  BY DEF Good, CacheFields
<1>3. c.slot[s].data \in Nat /\ c.slot[s].data + 1 \in Versions
  BY <1>2 DEF SlotFields, Versions, CacheAssumption
<1>4. /\ f \in SlotFields /\ f.valid = c.slot[s].valid /\ f.id = c.slot[s].id
      /\ f.dirty = c.slot[s].dirty /\ f.before = c.slot[s].before /\ f.pin = c.slot[s].pin
      /\ f.data = c.slot[s].data + 1
  BY <1>2, <1>3 DEF SlotFields
<1>5. d = [c EXCEPT !.slot[s] = f]
  OBVIOUS
<1> HIDE DEF f
<1>6. /\ d.slot = [c.slot EXCEPT ![s] = f] /\ d.lookup = c.lookup /\ d.victim = c.victim
      /\ d.dirty_count = c.dirty_count /\ d.batch_open = c.batch_open /\ d \in CacheFields
  BY <1>2, <1>4, <1>5 DEF CacheFields
<1>7. \A t \in Slots : d.slot[t] = IF t = s THEN f ELSE c.slot[t]
  BY <1>2, <1>6 DEF CacheFields
<1>8. \A t \in Slots : /\ d.slot[t].valid = c.slot[t].valid /\ d.slot[t].id = c.slot[t].id
                       /\ d.slot[t].dirty = c.slot[t].dirty
  BY <1>4, <1>7
<1>9. DirtySlots(d) = DirtySlots(c)
  BY <1>8 DEF DirtySlots
<1>10. c.slot[s].before = Content(st, p) /\ c.slot[s].pin = pins[p]
  BY DEF Good, Holds
<1>11. Good(d, st, [pins EXCEPT ![p] = f.pin])
  <2>1. d.dirty_count = Cardinality(DirtySlots(d))
    BY <1>6, <1>9 DEF Good
  <2>2. /\ f \in SlotFields /\ f.valid = c.slot[s].valid /\ f.id = c.slot[s].id
        /\ (~ f.dirty => f.data = Content(st, p)) /\ (f.dirty => f.before = Content(st, p))
    BY <1>4, <1>10
  <2>3. d \in CacheFields /\ d.slot = [c.slot EXCEPT ![s] = f] /\ d.lookup = c.lookup
    BY <1>6
  <2> QED BY <2>1, <2>2, <2>3, OneSlot
<1>12. [pins EXCEPT ![p] = f.pin] = pins
  BY <1>4, <1>10 DEF Good
<1>13. Good(d, st, pins)
  BY <1>11, <1>12
<1>14. \A q \in Pages : Find(d, q) = Find(c, q)
  BY <1>8, <1>13, FindSame
<1>15. \A q \in Pages : Value(d, st, q) = IF q = p THEN Value(c, st, q) + 1 ELSE Value(c, st, q)
  <2> TAKE q \in Pages
  <2>1. Find(c, p) = s /\ s # None
    BY FindFacts DEF Slots, None, CacheAssumption
  <2>2. CASE q = p
    BY <1>4, <1>7, <1>14, <2>1, <2>2 DEF Value
  <2>3. CASE q # p
    <3>1. Find(c, q) # s
      BY <2>1, <2>3, FindFacts DEF Holds
    <3> QED BY <1>7, <1>14, <2>3, <3>1, FindFacts DEF Value
  <2> QED BY <2>2, <2>3
<1> QED BY <1>6, <1>8, <1>13, <1>14, <1>15

\* The victim scan reaches every slot, so it finds one that can be evicted.
LEMMA VictimFacts ==
  ASSUME CacheAssumption, NEW c \in CacheFields, ~ Full(c)
  PROVE  Victim(c) \in Slots /\ Evictable(c, Victim(c))
PROOF
<1>0. /\ Capacity \in Nat \ {0} /\ Slots = 1 .. Capacity
      /\ c.victim \in Nat /\ 1 <= c.victim /\ c.victim <= Capacity
  BY DEF CacheAssumption, Slots, CacheFields
<1>1. \A k \in Nat : Turn(c, k) \in Slots
  <2> TAKE k \in Nat
  <2>1. c.victim - 1 + k \in Nat
    BY <1>0
  <2>2. (c.victim - 1 + k) % Capacity \in 0 .. Capacity - 1
    BY <1>0, <2>1
  <2> QED BY <1>0, <2>2 DEF Turn
<1>2. PICK s \in Slots : Evictable(c, s)
  BY DEF Full
<1>3. \E k \in 0 .. Capacity - 1 : Turn(c, k) = s
  <2>1. CASE s >= c.victim
    <3>1. s - c.victim \in 0 .. Capacity - 1 /\ (s - 1) % Capacity = s - 1
      BY <1>0, <2>1
    <3>2. c.victim - 1 + (s - c.victim) = s - 1
      BY <1>0
    <3>3. Turn(c, s - c.victim) = 1 + ((s - 1) % Capacity)
      BY <3>2, Zenon DEF Turn
    <3>4. Turn(c, s - c.victim) = s
      BY <1>0, <3>1, <3>3
    <3> QED BY <3>1, <3>4
  <2>2. CASE s < c.victim
    <3>1. (s + Capacity) - c.victim \in 0 .. Capacity - 1
      BY <1>0, <2>2
    <3>2. c.victim - 1 + ((s + Capacity) - c.victim) = (s - 1) + Capacity
      BY <1>0
    <3>3. ((s - 1) + Capacity) % Capacity = s - 1
      BY <1>0
    <3>4. Turn(c, (s + Capacity) - c.victim) = 1 + (((s - 1) + Capacity) % Capacity)
      BY <3>2, Zenon DEF Turn
    <3>5. Turn(c, (s + Capacity) - c.victim) = s
      BY <1>0, <3>3, <3>4
    <3> QED BY <3>1, <3>5
  <2> QED BY <1>0, <2>1, <2>2
<1> DEFINE T == {k \in 0 .. Capacity - 1 : Evictable(c, Turn(c, k))}
<1>4. T \subseteq Nat /\ T # {}
  BY <1>0, <1>2, <1>3
<1> HIDE DEF T
<1>5. PICK k \in T : \A j \in T : k <= j
  BY <1>4, NatMin
<1>6. k \in 0 .. Capacity - 1 /\ Evictable(c, Turn(c, k)) /\ \A j \in 0 .. k - 1 : ~ Evictable(c, Turn(c, j))
  BY <1>0, <1>5 DEF T
<1>7. \E n \in 0 .. Capacity - 1 : Victim(c) = Turn(c, n) /\ Evictable(c, Turn(c, n))
  BY <1>6 DEF Victim
<1> QED BY <1>0, <1>1, <1>7

\* What both ways of pinning do: the page is resident with one pin more, dirty
\* and pinned pages stay where they are, and no page changes its cells.
Pinned(c, st, pins, d, p) ==
  /\ Good(d, st, [pins EXCEPT ![p] = @ + 1])
  /\ Find(d, p) # None
  /\ d.dirty_count = c.dirty_count
  /\ \A s \in Slots : d.slot[s].dirty = c.slot[s].dirty
  /\ \A s \in Slots : c.slot[s].dirty => d.slot[s].id = c.slot[s].id
  /\ \A q \in Pages : Value(d, st, q) = Value(c, st, q)
  /\ \A q \in Pages : pins[q] # 0 =>
       Find(d, q) = Find(c, q) /\ d.slot[Find(c, q)].data = c.slot[Find(c, q)].data

\* pin of a resident page.
LEMMA PinResident ==
  ASSUME CacheAssumption, NEW c, NEW st, NEW pins, Good(c, st, pins), NEW p \in Pages, Find(c, p) # None
  PROVE  Pinned(c, st, pins, Pin(c, st, p), p)
PROOF
<1> DEFINE s == Find(c, p)
           d == Pin(c, st, p)
           f == [c.slot[s] EXCEPT !.pin = @ + 1]
<1>1. s \in Slots /\ Holds(c, s, p)
  BY FindFacts
<1>2. c.slot[s] \in SlotFields /\ c \in CacheFields
  BY <1>1 DEF Good, CacheFields
<1>3. c.slot[s].pin = pins[p] /\ pins[p] \in Nat
  BY <1>1 DEF Good, Holds
<1>5. d = [c EXCEPT !.slot[s] = f]
  BY DEF Pin
<1> HIDE DEF s
<1>4. /\ f \in SlotFields /\ f.valid = c.slot[s].valid /\ f.id = c.slot[s].id
      /\ f.dirty = c.slot[s].dirty /\ f.data = c.slot[s].data /\ f.before = c.slot[s].before
      /\ f.pin = pins[p] + 1
  BY <1>2, <1>3 DEF SlotFields
<1> HIDE DEF d, f
<1>6. /\ d.slot = [c.slot EXCEPT ![s] = f] /\ d.lookup = c.lookup /\ d.victim = c.victim
      /\ d.dirty_count = c.dirty_count /\ d.batch_open = c.batch_open /\ d \in CacheFields
  BY <1>1, <1>2, <1>4, <1>5 DEF CacheFields
<1>7. \A t \in Slots : /\ d.slot[t].valid = c.slot[t].valid /\ d.slot[t].id = c.slot[t].id
                       /\ d.slot[t].dirty = c.slot[t].dirty /\ d.slot[t].data = c.slot[t].data
  BY <1>1, <1>2, <1>4, <1>6 DEF CacheFields
<1>8. DirtySlots(d) = DirtySlots(c)
  BY <1>7 DEF DirtySlots
<1>9. /\ ~ f.dirty => f.data = Content(st, p)
      /\ f.dirty => f.before = Content(st, p)
  BY <1>1, <1>4 DEF Good, Holds
<1>10. Good(d, st, [pins EXCEPT ![p] = f.pin])
  <2>1. d.dirty_count = Cardinality(DirtySlots(d))
    BY <1>6, <1>8 DEF Good
  <2> QED BY <1>1, <1>4, <1>6, <1>9, <2>1, OneSlot
<1>11. [pins EXCEPT ![p] = f.pin] = [pins EXCEPT ![p] = @ + 1]
  BY <1>4
<1>12. \A q \in Pages : Find(d, q) = Find(c, q)
  BY <1>7, <1>10, FindSame
<1>13. \A q \in Pages : Value(d, st, q) = Value(c, st, q)
  BY <1>7, <1>12, FindFacts DEF Value
<1>14. \A q \in Pages : pins[q] # 0 => Find(c, q) \in Slots
  BY FindFacts DEF Good, Resident
<1> QED BY <1>6, <1>7, <1>10, <1>11, <1>12, <1>13, <1>14 DEF Pinned, d, s

\* pin of a page that is not resident: another is evicted.
LEMMA PinLoads ==
  ASSUME CacheAssumption, NEW c, NEW st, NEW pins, Good(c, st, pins), NEW p \in Pages,
         Find(c, p) = None, CanPin(c, p)
  PROVE  Pinned(c, st, pins, Pin(c, st, p), p)
PROOF
<1> DEFINE v == Victim(c)
           d == Pin(c, st, p)
           f == [valid |-> TRUE, id |-> p, dirty |-> FALSE, pin |-> 1,
                 data |-> Content(st, p), before |-> c.slot[v].before]
           e == [pins EXCEPT ![p] = @ + 1]
<1>1. c \in CacheFields /\ v \in Slots /\ Evictable(c, v)
  BY VictimFacts DEF CanPin, Good
<1>2. d = LoadInto(c, st, v, p)
  BY DEF Pin
<1> HIDE DEF v
<1>3. c.slot[v] \in SlotFields /\ Capacity \in Nat \ {0} /\ Slots = 1 .. Capacity
  BY <1>1 DEF CacheFields, CacheAssumption, Slots
<1>4. f \in SlotFields
  <2>1. Content(st, p) \in Versions
    <3>1. st[p] \in Versions \cup {Absent}
      BY DEF Good, Records
    <3> QED BY <3>1 DEF Content, Versions, CacheAssumption
  <2> QED BY <1>3, <2>1 DEF SlotFields, Pages, CacheAssumption
<1>5. /\ d.slot = [c.slot EXCEPT ![v] = f] /\ d.lookup = Reindexed(c, v, p)
      /\ d.victim = 1 + (v % Capacity) /\ d.dirty_count = c.dirty_count /\ d.batch_open = c.batch_open
      /\ d = [slot |-> d.slot, lookup |-> d.lookup, victim |-> d.victim,
              dirty_count |-> d.dirty_count, batch_open |-> d.batch_open]
  BY <1>1, <1>2 DEF LoadInto, CacheFields
<1>6. Reindexed(c, v, p) \in [Pages -> 0 .. Capacity]
  BY <1>1, <1>3 DEF Reindexed, CacheFields, None
<1>7. 1 + (v % Capacity) \in Slots
  BY <1>1, <1>3
<1> HIDE DEF d, f
<1>8. d \in CacheFields
  BY <1>1, <1>4, <1>5, <1>6, <1>7 DEF CacheFields
<1>9. \A t \in Slots : d.slot[t] = IF t = v THEN f ELSE c.slot[t]
  BY <1>1, <1>5 DEF CacheFields
<1>10. f.valid /\ f.id = p /\ ~ f.dirty /\ f.pin = 1 /\ f.data = Content(st, p)
  BY DEF f
<1>11. \A t \in Slots : ~ Holds(c, t, p)
  BY <1>3, FindFacts DEF None
<1>12. pins[p] = 0
  BY <1>11 DEF Good, Resident
<1>13. ~ c.slot[v].dirty /\ c.slot[v].pin = 0
  BY <1>1 DEF Evictable, Good
<1>14. \A t \in Slots : d.slot[t].dirty = c.slot[t].dirty
  <2>1. \A t \in Slots : c.slot[t].dirty \in BOOLEAN
    BY <1>1 DEF CacheFields, SlotFields
  <2>2. f.dirty = FALSE /\ c.slot[v].dirty = FALSE
    BY <1>1, <1>13, <2>1, Zenon DEF f
  <2> QED BY <1>9, <2>2
<1>15. DirtySlots(d) = DirtySlots(c)
  BY <1>14 DEF DirtySlots
<1>16. e \in [Pages -> Nat] /\ e[p] = 1 /\ \A q \in Pages \ {p} : e[q] = pins[q]
  BY <1>12 DEF Good
<1> HIDE DEF e
<1>17. Good(d, st, e)
  <2>1. \A t, u \in Slots : d.slot[t].valid /\ d.slot[u].valid /\ d.slot[t].id = d.slot[u].id => t = u
    BY <1>9, <1>10, <1>11 DEF Good, Holds
  <2>2. indexed => \A t \in Slots : d.slot[t].valid => d.lookup[d.slot[t].id] = t
    <3> SUFFICES ASSUME indexed, NEW t \in Slots, d.slot[t].valid PROVE d.lookup[d.slot[t].id] = t
      OBVIOUS
    <3>1. \A q \in Pages : d.lookup[q] = IF q = p THEN v
                                        ELSE IF c.slot[v].valid /\ c.slot[v].id = q /\ c.lookup[q] = v THEN None
                                        ELSE c.lookup[q]
      BY <1>5 DEF Reindexed
    <3>2. CASE t = v
      BY <1>9, <1>10, <3>1, <3>2
    <3>3. CASE t # v
      <4>1. d.slot[t] = c.slot[t] /\ c.slot[t].id \in Pages /\ c.slot[t].id # p
        BY <1>9, <1>11, <3>3 DEF Good, Holds
      <4>2. ~ (c.slot[v].valid /\ c.slot[v].id = c.slot[t].id)
        BY <1>1, <3>3, <4>1 DEF Good
      <4>3. c.lookup[c.slot[t].id] = t
        BY <4>1 DEF Good
      <4> QED BY <3>1, <4>1, <4>2, <4>3
    <3> QED BY <3>2, <3>3
  <2>3. /\ \A t \in Slots : d.slot[t].valid => d.slot[t].id \in Pages
        /\ \A t \in Slots : d.slot[t].dirty => d.slot[t].valid
        /\ \A t \in Slots : d.slot[t].valid /\ ~ d.slot[t].dirty => d.slot[t].data = Content(st, d.slot[t].id)
        /\ \A t \in Slots : d.slot[t].dirty => d.slot[t].before = Content(st, d.slot[t].id)
    BY <1>9, <1>10 DEF Good
  <2>4. \A t \in Slots : d.slot[t].pin = IF d.slot[t].valid THEN e[d.slot[t].id] ELSE 0
    <3> TAKE t \in Slots
    <3>1. CASE t = v
      BY <1>9, <1>10, <1>16, <3>1
    <3>2. CASE t # v
      <4>1. d.slot[t] = c.slot[t] /\ (c.slot[t].valid => c.slot[t].id \in Pages \ {p})
        BY <1>9, <1>11, <3>2 DEF Good, Holds
      <4> QED BY <1>16, <4>1 DEF Good
    <3> QED BY <3>1, <3>2
  <2>5. \A q \in Pages : e[q] # 0 => Resident(d, q)
    <3> SUFFICES ASSUME NEW q \in Pages, e[q] # 0 PROVE Resident(d, q)
      OBVIOUS
    <3>1. CASE q = p
      BY <1>1, <1>9, <1>10, <3>1 DEF Resident, Holds
    <3>2. CASE q # p
      <4>1. pins[q] # 0
        BY <1>16, <3>2
      <4>2. PICK t \in Slots : Holds(c, t, q)
        BY <4>1 DEF Good, Resident
      <4>3. t # v
        BY <1>13, <4>1, <4>2 DEF Good, Holds
      <4> QED BY <1>9, <4>2, <4>3 DEF Resident, Holds
    <3> QED BY <3>1, <3>2
  <2>6. d.dirty_count = Cardinality(DirtySlots(d))
    BY <1>5, <1>15 DEF Good
  <2>7. st \in Records
    BY DEF Good
  <2> QED BY <1>8, <1>16, <2>1, <2>2, <2>3, <2>4, <2>5, <2>6, <2>7 DEF Good
<1>18. Find(d, p) = v /\ v # None
  BY <1>1, <1>3, <1>9, <1>10, <1>17, FindFacts DEF Holds, None
<1>19. \A q \in Pages, t \in Slots : t # v => (Holds(d, t, q) <=> Holds(c, t, q))
  BY <1>9 DEF Holds
<1>20. \A q \in Pages : pins[q] # 0 =>
         Find(d, q) = Find(c, q) /\ d.slot[Find(c, q)].data = c.slot[Find(c, q)].data
  <2> SUFFICES ASSUME NEW q \in Pages, pins[q] # 0
               PROVE  Find(d, q) = Find(c, q) /\ d.slot[Find(c, q)].data = c.slot[Find(c, q)].data
    OBVIOUS
  <2>1. PICK t \in Slots : Holds(c, t, q)
    BY DEF Good, Resident
  <2>2. t # v
    BY <1>13, <2>1 DEF Good, Holds
  <2>3. Find(c, q) = t /\ Find(d, q) = t
    BY <1>17, <1>19, <2>1, <2>2, FindFacts
  <2> QED BY <1>9, <2>2, <2>3
<1>21. \A q \in Pages : Value(d, st, q) = Value(c, st, q)
  <2> TAKE q \in Pages
  <2>1. CASE q = p
    BY <1>1, <1>9, <1>10, <1>18, <2>1 DEF Value
  <2>2. CASE q # p /\ Holds(c, v, q)
    <3>1. Find(c, q) = v /\ c.slot[v].data = Content(st, q)
      BY <1>1, <1>13, <2>2, FindFacts DEF Good, Holds
    <3>2. \A t \in Slots : ~ Holds(d, t, q)
      BY <1>1, <1>9, <1>10, <2>2 DEF Holds, Good
    <3>3. Find(d, q) = None
      BY <1>17, <3>2, FindFacts
    <3> QED BY <1>18, <3>1, <3>3 DEF Value
  <2>3. CASE q # p /\ ~ Holds(c, v, q)
    <3>1. ~ Holds(d, v, q)
      BY <1>1, <1>9, <1>10, <2>3 DEF Holds
    <3>2. \A t \in Slots : Holds(d, t, q) <=> Holds(c, t, q)
      BY <1>19, <2>3, <3>1
    <3>3. Find(c, q) # None => Find(c, q) \in Slots /\ Holds(c, Find(c, q), q)
      BY FindFacts
    <3>4. Find(d, q) # None => Find(d, q) \in Slots /\ Holds(d, Find(d, q), q)
      BY <1>17, FindFacts
    <3>5. Find(d, q) = Find(c, q)
      BY <1>17, <3>2, <3>3, <3>4, FindFacts
    <3>6. Find(c, q) # None => Find(c, q) # v
      BY <2>3, <3>3
    <3> QED BY <1>9, <3>3, <3>5, <3>6 DEF Value
  <2> QED BY <2>1, <2>2, <2>3
<1>22. \A t \in Slots : c.slot[t].dirty => d.slot[t].id = c.slot[t].id
  BY <1>9, <1>13
<1> QED BY <1>5, <1>14, <1>17, <1>18, <1>20, <1>21, <1>22 DEF Pinned, d, e

\* pin and pin_existing.
LEMMA PinGood ==
  ASSUME CacheAssumption, NEW c, NEW st, NEW pins, Good(c, st, pins), NEW p \in Pages, CanPin(c, p)
  PROVE  Pinned(c, st, pins, Pin(c, st, p), p)
PROOF BY PinResident, PinLoads

\* What append_batch leaves in the store is what the pages hold.
LEMMA AppendedFacts ==
  ASSUME CacheAssumption, NEW c, NEW pins, Good(c, store, pins)
  PROVE  /\ Appended(c) \in Records
         /\ \A p \in Pages : Content(Appended(c), p) = Value(c, store, p)
PROOF
<1>1. /\ c \in CacheFields /\ store \in Records /\ Capacity \in Nat \ {0} /\ None = 0 /\ Slots = 1 .. Capacity
      /\ \A n \in Versions : n # Absent
  BY DEF Good, CacheAssumption, Slots, None, Versions, Absent
<1>2. \A s \in Slots : c.slot[s].data \in Versions
  BY <1>1 DEF CacheFields, SlotFields
<1>3. ASSUME NEW p \in Pages, NEW s \in Slots, s \in DirtySlots(c), c.slot[s].id = p
      PROVE  Appended(c)[p] = c.slot[s].data /\ Find(c, p) = s
  <2>1. \A t \in DirtySlots(c) : c.slot[t].id = p => t = s
    BY <1>3 DEF Good, DirtySlots
  <2>2. (CHOOSE t \in DirtySlots(c) : c.slot[t].id = p) = s
    BY <1>3, <2>1
  <2>3. Appended(c)[p] = c.slot[s].data
    BY <1>3, <2>2 DEF Appended
  <2>4. Holds(c, s, p)
    BY <1>3 DEF Good, DirtySlots, Holds
  <2> QED BY <2>3, <2>4, FindFacts
<1>4. ASSUME NEW p \in Pages, ~ \E s \in DirtySlots(c) : c.slot[s].id = p
      PROVE  Appended(c)[p] = store[p] /\ Value(c, store, p) = Content(store, p)
  <2>1. Appended(c)[p] = store[p]
    BY <1>4 DEF Appended
  <2>2. CASE Find(c, p) # None
    <3>1. Find(c, p) \in Slots /\ Holds(c, Find(c, p), p)
      BY <2>2, FindFacts
    <3>2. ~ c.slot[Find(c, p)].dirty
      BY <1>4, <3>1 DEF DirtySlots, Holds
    <3> QED BY <2>1, <2>2, <3>1, <3>2 DEF Good, Holds, Value
  <2>3. CASE Find(c, p) = None
    BY <2>1, <2>3 DEF Value
  <2> QED BY <2>2, <2>3
<1>5. \A s \in DirtySlots(c) : s \in Slots
  BY DEF DirtySlots
<1>6. \A p \in Pages : Appended(c)[p] \in Versions \cup {Absent}
  <2> TAKE p \in Pages
  <2>1. store[p] \in Versions \cup {Absent}
    BY <1>1 DEF Records
  <2> QED BY <1>2, <1>3, <1>4, <1>5, <2>1
<1>7. Appended(c) \in Records
  BY <1>6 DEF Appended, Records
<1>8. \A p \in Pages : Content(Appended(c), p) = Value(c, store, p)
  <2> TAKE p \in Pages
  <2>1. CASE \E s \in DirtySlots(c) : c.slot[s].id = p
    <3>1. PICK s \in DirtySlots(c) : c.slot[s].id = p
      BY <2>1
    <3>2. Appended(c)[p] = c.slot[s].data /\ Find(c, p) = s /\ s # None
      BY <1>1, <1>3, <1>5, <3>1
    <3> QED BY <1>1, <1>2, <1>5, <3>2 DEF Content, Value
  <2>2. CASE ~ \E s \in DirtySlots(c) : c.slot[s].id = p
    BY <1>4, <2>2 DEF Content
  <2> QED BY <2>1, <2>2
<1> QED BY <1>7, <1>8

\* A batch is over: no slot is dirty, and every page has its record's cells.
LEMMA AllClean ==
  ASSUME CacheAssumption, NEW c, NEW st, NEW pins, Good(c, st, pins), NEW st2 \in Records,
         NEW d \in CacheFields, d.lookup = c.lookup, d.dirty_count = 0,
         \A s \in Slots : /\ d.slot[s].valid = c.slot[s].valid
                          /\ d.slot[s].id = c.slot[s].id
                          /\ d.slot[s].pin = c.slot[s].pin
                          /\ ~ d.slot[s].dirty
                          /\ c.slot[s].valid => d.slot[s].data = Content(st2, c.slot[s].id)
  PROVE  /\ Good(d, st2, pins)
         /\ \A p \in Pages : Find(d, p) = Find(c, p)
         /\ \A p \in Pages : Value(d, st2, p) = Content(st2, p)
PROOF
<1>1. DirtySlots(d) = {}
  BY DEF DirtySlots
<1>2. Cardinality(DirtySlots(d)) = 0
  BY <1>1, FS_EmptySet
<1>3. \A p \in Pages : Resident(d, p) <=> Resident(c, p)
  BY DEF Resident, Holds
<1>4. Good(d, st2, pins)
  BY <1>2, <1>3 DEF Good
<1>5. \A p \in Pages : Find(d, p) = Find(c, p)
  BY <1>4, FindSame
<1>6. \A p \in Pages : Value(d, st2, p) = Content(st2, p)
  <2> TAKE p \in Pages
  <2>1. Find(c, p) # None => Find(c, p) \in Slots /\ Holds(c, Find(c, p), p)
    BY FindFacts
  <2> QED BY <1>5, <2>1 DEF Value, Holds
<1> QED BY <1>4, <1>5, <1>6

\* A slot whose cells are now those of the record.
LEMMA CleanSlot ==
  ASSUME NEW r \in SlotFields, NEW t, t = [r EXCEPT !.dirty = FALSE]
  PROVE  /\ t \in SlotFields /\ t.valid = r.valid /\ t.id = r.id /\ t.pin = r.pin
         /\ t.data = r.data /\ t.dirty = FALSE
PROOF
<1> QED BY DEF SlotFields

\* A slot that has its record's cells again.
LEMMA RestoredSlot ==
  ASSUME NEW r \in SlotFields, NEW t, t = [r EXCEPT !.dirty = FALSE, !.data = r.before]
  PROVE  /\ t \in SlotFields /\ t.valid = r.valid /\ t.id = r.id /\ t.pin = r.pin
         /\ t.data = r.before /\ t.dirty = FALSE
PROOF
<1> QED BY DEF SlotFields

\* commit_batch after the store has published the pages.
LEMMA ClearGood ==
  ASSUME CacheAssumption, NEW c, NEW pins, Good(c, store, pins)
  PROVE  /\ Good(ClearDirty(c), Appended(c), pins)
         /\ \A p \in Pages : Value(ClearDirty(c), Appended(c), p) = Value(c, store, p)
         /\ ClearDirty(c).dirty_count = 0
         /\ \A s \in Slots : ~ ClearDirty(c).slot[s].dirty
PROOF
<1> DEFINE d == ClearDirty(c)
<1>1. c \in CacheFields
  BY DEF Good
<1>2. \A s \in Slots : c.slot[s] \in SlotFields
  BY <1>1 DEF CacheFields
<1> DEFINE f == [s \in Slots |-> [c.slot[s] EXCEPT !.dirty = FALSE]]
<1>3. \A s \in Slots : /\ f[s] \in SlotFields
                       /\ f[s].valid = c.slot[s].valid /\ f[s].id = c.slot[s].id
                       /\ f[s].pin = c.slot[s].pin /\ f[s].data = c.slot[s].data
                       /\ f[s].dirty = FALSE
  <2> TAKE s \in Slots
  <2>1. f[s] = [c.slot[s] EXCEPT !.dirty = FALSE]
    OBVIOUS
  <2>2. c.slot[s] \in SlotFields
    BY <1>2
  <2> HIDE DEF f
  <2> QED BY <2>1, <2>2, CleanSlot, Zenon
<1>4. f \in [Slots -> SlotFields]
  <2>1. \A s \in Slots : f[s] \in SlotFields
    BY <1>3, Zenon
  <2>2. f = [s \in Slots |-> f[s]]
    BY Zenon
  <2> HIDE DEF f
  <2> QED BY <2>1, <2>2
<1>9. d = [c EXCEPT !.slot = f, !.dirty_count = 0, !.batch_open = FALSE]
  BY Zenon DEF ClearDirty
<1> HIDE DEF d, f
<1>5. d \in CacheFields /\ d.slot = f /\ d.lookup = c.lookup /\ d.dirty_count = 0
  BY <1>1, <1>4, <1>9 DEF CacheFields
<1>6. Appended(c) \in Records /\ \A p \in Pages : Content(Appended(c), p) = Value(c, store, p)
  BY AppendedFacts
<1>7. \A s \in Slots : c.slot[s].valid => d.slot[s].data = Content(Appended(c), c.slot[s].id)
  <2> SUFFICES ASSUME NEW s \in Slots, c.slot[s].valid
               PROVE  d.slot[s].data = Content(Appended(c), c.slot[s].id)
    OBVIOUS
  <2>1. c.slot[s].id \in Pages /\ Holds(c, s, c.slot[s].id)
    BY DEF Good, Holds
  <2>2. Find(c, c.slot[s].id) = s /\ s # None
    BY <2>1, FindFacts DEF Slots, None, CacheAssumption
  <2> QED BY <1>3, <1>5, <1>6, <2>1, <2>2 DEF Value
<1>8. /\ Good(d, Appended(c), pins)
      /\ \A p \in Pages : Value(d, Appended(c), p) = Content(Appended(c), p)
  BY <1>3, <1>5, <1>6, <1>7, AllClean
<1> QED BY <1>3, <1>5, <1>6, <1>8 DEF d

\* commit_batch when the store has published nothing: the records' cells again.
LEMMA RollbackGood ==
  ASSUME CacheAssumption, NEW c, NEW st, NEW pins, Good(c, st, pins)
  PROVE  /\ Good(RollbackDirty(c), st, pins)
         /\ \A s \in Slots : ~ RollbackDirty(c).slot[s].dirty
PROOF
<1> DEFINE d == RollbackDirty(c)
<1>1. c \in CacheFields
  BY DEF Good
<1>2. \A s \in Slots : c.slot[s] \in SlotFields
  BY <1>1 DEF CacheFields
<1> DEFINE f == [s \in Slots |-> IF c.slot[s].dirty
                                THEN [c.slot[s] EXCEPT !.dirty = FALSE, !.data = c.slot[s].before]
                                ELSE c.slot[s]]
<1>3. \A s \in Slots : /\ f[s] \in SlotFields
                       /\ f[s].valid = c.slot[s].valid /\ f[s].id = c.slot[s].id
                       /\ f[s].pin = c.slot[s].pin /\ ~ f[s].dirty
                       /\ f[s].data = IF c.slot[s].dirty THEN c.slot[s].before ELSE c.slot[s].data
  <2> TAKE s \in Slots
  <2>0. c.slot[s] \in SlotFields
    BY <1>2
  <2>1. CASE c.slot[s].dirty
    <3>1. f[s] = [c.slot[s] EXCEPT !.dirty = FALSE, !.data = c.slot[s].before]
      BY <2>1
    <3> DEFINE t == f[s]
               r == c.slot[s]
    <3>2. r \in SlotFields /\ t = [r EXCEPT !.dirty = FALSE, !.data = r.before]
      BY <2>0, <3>1
    <3> HIDE DEF f, t, r
    <3>3. /\ t \in SlotFields /\ t.valid = r.valid /\ t.id = r.id /\ t.pin = r.pin
          /\ t.data = r.before /\ t.dirty = FALSE
      BY <3>2, RestoredSlot
    <3> QED BY <2>1, <3>3 DEF t, r
  <2>2. CASE ~ c.slot[s].dirty
    <3>1. f[s] = c.slot[s]
      BY <2>2
    <3> HIDE DEF f
    <3> QED BY <2>0, <2>2, <3>1
  <2> QED BY <2>1, <2>2
<1>4. f \in [Slots -> SlotFields]
  <2>1. \A s \in Slots : f[s] \in SlotFields
    BY <1>3, Zenon
  <2>2. f = [s \in Slots |-> f[s]]
    BY Zenon
  <2> HIDE DEF f
  <2> QED BY <2>1, <2>2
<1>9. d = [c EXCEPT !.slot = f, !.dirty_count = 0, !.batch_open = FALSE]
  BY Zenon DEF RollbackDirty
<1> HIDE DEF d, f
<1>5. d \in CacheFields /\ d.slot = f /\ d.lookup = c.lookup /\ d.dirty_count = 0
  BY <1>1, <1>4, <1>9 DEF CacheFields
<1>6. \A s \in Slots : c.slot[s].valid => d.slot[s].data = Content(st, c.slot[s].id)
  BY <1>3, <1>5 DEF Good
<1>7. Good(d, st, pins)
  <2>1. st \in Records
    BY DEF Good
  <2> QED BY <1>3, <1>5, <1>6, <2>1, AllClean
<1> QED BY <1>3, <1>5, <1>7 DEF d

\* A cache that has just been opened.
LEMMA EmptyGood ==
  ASSUME CacheAssumption, NEW st \in Records, NEW pins \in [Pages -> Nat], \A p \in Pages : pins[p] = 0
  PROVE  /\ Good(EmptyCache, st, pins)
         /\ \A s \in Slots : ~ EmptyCache.slot[s].dirty
         /\ \A p \in Pages : Value(EmptyCache, st, p) = Content(st, p)
PROOF
<1> DEFINE c == EmptyCache
<1>0. Capacity \in Nat \ {0} /\ PageCount \in Nat /\ MaxUpdates \in Nat
  BY DEF CacheAssumption
<1>1. c \in CacheFields
  BY <1>0 DEF EmptyCache, CacheFields, SlotFields, Slots, Pages, None, Versions
<1>2. \A s \in Slots : /\ c.slot[s].valid = FALSE /\ c.slot[s].dirty = FALSE /\ c.slot[s].pin = 0
  BY DEF EmptyCache
<1>3. DirtySlots(c) = {} /\ c.dirty_count = 0
  BY <1>2 DEF DirtySlots, EmptyCache
<1> HIDE DEF c
<1>4. Good(c, st, pins)
  BY <1>1, <1>2, <1>3, FS_EmptySet DEF Good
<1>5. \A p \in Pages : Find(c, p) = None
  BY <1>2, <1>4, FindFacts DEF Holds
<1> QED BY <1>2, <1>4, <1>5 DEF c, Value

\* A cache without pins that is not all dirty has a slot to load into.
LEMMA Room ==
  ASSUME CacheAssumption, NEW c, NEW st, NEW pins, Good(c, st, pins),
         \A p \in Pages : pins[p] = 0, c.dirty_count < Capacity
  PROVE  ~ Full(c)
PROOF
<1> SUFFICES ASSUME Full(c) PROVE FALSE
  OBVIOUS
<1>1. \A s \in Slots : c.slot[s].pin = 0
  BY DEF Good
<1>2. DirtySlots(c) = Slots
  BY <1>1 DEF Full, Evictable, DirtySlots
<1>3. Cardinality(Slots) = Capacity
  <2>1. Cardinality(1 .. Capacity) = IF 1 > Capacity THEN 0 ELSE Capacity - 1 + 1
    BY FS_Interval DEF CacheAssumption
  <2> QED BY <2>1 DEF Slots, CacheAssumption
<1> QED BY <1>2, <1>3 DEF Good, CacheAssumption

-----------------------------------------------------------------------------
(***************************************************************************)
(* The invariant: where the writer is, what is pinned, dirty and stored.   *)
(***************************************************************************)
\* The pins the threads hold: one for each reader, one for the writer's page.
ReadersOf(p) == {r \in Readers : reading[r] = p}
\* The pins of each page.
PinsOf == [p \in Pages |-> Cardinality(ReadersOf(p)) + (IF writer.page = p THEN 1 ELSE 0)]

\* Where the writer may be.
Phases == {"idle", "merge", "transform", "flush", "commit", "failed"}

\* The types of the variables other than the cache and the store.
StateTypes ==
  /\ indexed \in BOOLEAN
  /\ base \in Records
  /\ writer \in [at : Phases, page : 0 .. PageCount, next : 1 .. PageCount + 1, dirty : 0 .. Capacity]
  /\ reading \in [Readers -> 0 .. PageCount]
  /\ working \in [Pages -> Versions]

\* The lock: while a thread writes no reader holds a pin, and only the merge
\* keeps a page pinned from one of its steps to the next.
LockHeld ==
  /\ writer.at # "idle" => \A r \in Readers : reading[r] = None
  /\ writer.at \notin {"merge", "failed"} => writer.page = None

\* The dirty pages of each phase.
DirtyPages ==
  /\ writer.at = "idle" => \A s \in Slots : ~ cache.slot[s].dirty
  /\ writer.at = "merge" =>
       IF writer.page = None THEN cache.dirty_count = 0 ELSE cache.slot[Find(cache, writer.page)].dirty
  /\ writer.at \in {"transform", "flush"} =>
       /\ writer.dirty = cache.dirty_count
       /\ \A s \in Slots : cache.slot[s].dirty => cache.slot[s].id < writer.next
  /\ writer.at = "transform" => writer.dirty < Capacity
  /\ writer.at = "flush" => writer.dirty = Capacity

\* What the pages hold in each phase; a rescaling is yet to reach the later ones.
Holding ==
  /\ writer.at = "idle" => \A p \in Pages : Content(store, p) = working[p]
  /\ writer.at \in {"merge", "commit"} => \A p \in Pages : Value(cache, store, p) = working[p]
  /\ writer.at \in {"transform", "flush"} =>
       \A p \in Pages : working[p] = IF p < writer.next \/ Value(cache, store, p) = 0
                                     THEN Value(cache, store, p) ELSE Value(cache, store, p) + 1

\* The inductive invariant.
CacheInvariant ==
  /\ StateTypes
  /\ Good(cache, store, PinsOf)
  /\ LockHeld
  /\ DirtyPages
  /\ Holding

\* No page is pinned.
ZeroPins == [p \in Pages |-> 0]

\* What the constants are.
LEMMA ConstantFacts ==
  ASSUME CacheAssumption
  PROVE  /\ Capacity \in Nat \ {0} /\ PageCount \in Nat /\ MaxUpdates \in Nat \ {0}
         /\ Slots = 1 .. Capacity /\ Pages = 1 .. PageCount /\ None = 0
         /\ Versions = 0 .. MaxUpdates /\ Absent = MaxUpdates + 1
         /\ IsFiniteSet(Readers)
PROOF BY DEF CacheAssumption, Slots, Pages, None, Versions, Absent

\* The readers of a page are counted.
LEMMA ReadersCount ==
  ASSUME CacheAssumption, NEW p
  PROVE  /\ IsFiniteSet(ReadersOf(p))
         /\ Cardinality(ReadersOf(p)) \in Nat
         /\ Cardinality(ReadersOf(p)) <= Cardinality(Readers)
         /\ Cardinality(Readers) \in Nat
PROOF
<1>1. ReadersOf(p) \subseteq Readers
  BY DEF ReadersOf
<1> QED BY <1>1, ConstantFacts, FS_Subset, FS_CardinalityType

\* No reader, no pin but the writer's.
LEMMA NoReaders ==
  ASSUME CacheAssumption, reading \in [Readers -> 0 .. PageCount], \A r \in Readers : reading[r] = None
  PROVE  /\ writer.page = None => PinsOf = ZeroPins
         /\ \A p \in Pages : writer.page = p => PinsOf = [ZeroPins EXCEPT ![p] = 1]
PROOF
<1>0. None = 0 /\ \A p \in Pages : p # 0
  BY ConstantFacts
<1>1. \A p \in Pages : ReadersOf(p) = {}
  BY <1>0 DEF ReadersOf
<1>2. \A p \in Pages : Cardinality(ReadersOf(p)) = 0
  BY <1>1, FS_EmptySet
<1>3. PinsOf = [p \in Pages |-> IF writer.page = p THEN 1 ELSE 0]
  BY <1>2 DEF PinsOf
<1> QED BY <1>0, <1>3 DEF ZeroPins

\* The invariant in the next state, when the index stays in use or out of it.
LEMMA SameIndex ==
  ASSUME indexed' = indexed
  PROVE  /\ \A p : Find(cache, p)' = Find(cache', p)
         /\ \A p : Value(cache, store, p)' = Value(cache', store', p)
         /\ Good(cache', store', PinsOf') => Good(cache, store, PinsOf)'
PROOF
<1>1. \A p : Find(cache, p)' = Find(cache', p)
  BY DEF Find, Holds
<1>2. \A p : Value(cache, store, p)' = Value(cache', store', p)
  BY <1>1 DEF Value, Content
<1>3. Good(cache', store', PinsOf') => Good(cache, store, PinsOf)'
  BY DEF Good, DirtySlots, Resident, Holds, Content
<1> QED BY <1>1, <1>2, <1>3

\* With no dirty page the cache adds nothing to the records.
LEMMA CleanValue ==
  ASSUME CacheAssumption, NEW c, NEW st, NEW pins, Good(c, st, pins),
         \A s \in Slots : ~ c.slot[s].dirty, NEW p \in Pages
  PROVE  Value(c, st, p) = Content(st, p)
PROOF
<1>1. Find(c, p) # None => Find(c, p) \in Slots /\ Holds(c, Find(c, p), p)
  BY FindFacts
<1> QED BY <1>1 DEF Value, Good, Holds

\* The count of dirty slots is never more than the capacity.
LEMMA DirtyCount ==
  ASSUME CacheAssumption, NEW c, NEW st, NEW pins, Good(c, st, pins)
  PROVE  /\ c.dirty_count \in 0 .. Capacity
         /\ c.dirty_count = 0 <=> \A s \in Slots : ~ c.slot[s].dirty
PROOF
<1>1. DirtySlots(c) \subseteq Slots
  BY DEF DirtySlots
<1>2. IsFiniteSet(Slots) /\ Cardinality(Slots) = Capacity
  <2>0. Slots = 1 .. Capacity /\ Capacity \in Nat /\ ~ (1 > Capacity) /\ Capacity - 1 + 1 = Capacity /\ Capacity \in Int
    BY ConstantFacts
  <2>1. /\ IsFiniteSet(1 .. Capacity)
        /\ Cardinality(1 .. Capacity) = IF 1 > Capacity THEN 0 ELSE Capacity - 1 + 1
    BY <2>0, FS_Interval
  <2> QED BY <2>0, <2>1, Zenon
<1>3. /\ IsFiniteSet(DirtySlots(c)) /\ Cardinality(DirtySlots(c)) \in Nat
      /\ Cardinality(DirtySlots(c)) <= Capacity
  BY <1>1, <1>2, FS_Subset, FS_CardinalityType
<1>4. Cardinality(DirtySlots(c)) = 0 <=> DirtySlots(c) = {}
  BY <1>3, FS_EmptySet
<1>5. DirtySlots(c) = {} <=> \A s \in Slots : ~ c.slot[s].dirty
  BY DEF DirtySlots
<1>6. c.dirty_count = Cardinality(DirtySlots(c))
  BY DEF Good
<1> QED BY <1>3, <1>4, <1>5, <1>6, ConstantFacts

\* A cache that was just opened.
LEMMA InitGood == ASSUME CacheAssumption PROVE Init => CacheInvariant
PROOF
<1> SUFFICES ASSUME Init PROVE CacheInvariant
  OBVIOUS
<1>0. /\ indexed \in BOOLEAN /\ cache = EmptyCache /\ store \in [Pages -> {Absent, 1}] /\ base = store
      /\ writer = [at |-> "idle", page |-> None, next |-> 1, dirty |-> 0]
      /\ reading = [r \in Readers |-> None] /\ working = [p \in Pages |-> Content(store, p)]
  BY DEF Init
<1>1. store \in Records
  BY <1>0, ConstantFacts DEF Records
<1>2. \A p \in Pages : Content(store, p) \in Versions
  BY <1>1, ConstantFacts DEF Records, Content
<1>3. StateTypes
  BY <1>0, <1>1, <1>2, ConstantFacts DEF StateTypes, Phases
<1>4. PinsOf = ZeroPins
  BY <1>0, <1>3, NoReaders DEF StateTypes
<1>5. /\ Good(EmptyCache, store, PinsOf) /\ \A s \in Slots : ~ EmptyCache.slot[s].dirty
  BY <1>1, <1>4, EmptyGood DEF ZeroPins
<1> QED BY <1>0, <1>3, <1>5 DEF CacheInvariant, LockHeld, DirtyPages, Holding

-----------------------------------------------------------------------------
(***************************************************************************)
(* The readers.                                                            *)
(***************************************************************************)
\* A pin more or less on the page of a reader.
LEMMA ReaderPinned ==
  ASSUME CacheAssumption, reading \in [Readers -> 0 .. PageCount], UNCHANGED writer,
         NEW r \in Readers, NEW p \in Pages,
         \/ reading[r] = None /\ reading' = [reading EXCEPT ![r] = p]
         \/ reading[r] = p /\ reading' = [reading EXCEPT ![r] = None]
  PROVE  PinsOf' = [PinsOf EXCEPT ![p] = IF reading[r] = None THEN @ + 1 ELSE @ - 1]
PROOF
<1>0. None = 0 /\ p # 0 /\ \A q \in Pages : q # 0
  BY ConstantFacts
<1>1. \A q \in Pages : q # p => ReadersOf(q)' = ReadersOf(q)
  BY <1>0 DEF ReadersOf
<1>2. Cardinality(ReadersOf(p))' = IF reading[r] = None THEN Cardinality(ReadersOf(p)) + 1
                                   ELSE Cardinality(ReadersOf(p)) - 1
  <2>1. IsFiniteSet(ReadersOf(p)) /\ Cardinality(ReadersOf(p)) \in Nat
    BY ReadersCount
  <2>2. CASE reading[r] = None
    <3>1. r \notin ReadersOf(p) /\ ReadersOf(p)' = ReadersOf(p) \cup {r}
      BY <1>0, <2>2 DEF ReadersOf
    <3>2. Cardinality(ReadersOf(p) \cup {r}) = Cardinality(ReadersOf(p)) + 1
      BY <2>1, <3>1, FS_AddElement
    <3> QED BY <2>2, <3>1, <3>2
  <2>3. CASE reading[r] # None
    <3>1. r \in ReadersOf(p) /\ ReadersOf(p)' = ReadersOf(p) \ {r}
      BY <1>0, <2>3 DEF ReadersOf
    <3>2. Cardinality(ReadersOf(p) \ {r}) = Cardinality(ReadersOf(p)) - 1
      BY <2>1, <3>1, FS_RemoveElement
    <3> QED BY <2>3, <3>1, <3>2
  <2> QED BY <2>2, <2>3
<1>3. PinsOf' = [q \in Pages |-> Cardinality(ReadersOf(q))' + (IF writer.page = q THEN 1 ELSE 0)]
  BY DEF PinsOf
<1>4. \A q \in Pages : Cardinality(ReadersOf(q)) \in Nat
  BY ReadersCount
<1>5. ASSUME NEW q \in Pages
      PROVE  PinsOf'[q] = IF q = p THEN (IF reading[r] = None THEN PinsOf[q] + 1 ELSE PinsOf[q] - 1)
                          ELSE PinsOf[q]
  <2>1. PinsOf[q] = Cardinality(ReadersOf(q)) + (IF writer.page = q THEN 1 ELSE 0)
    BY DEF PinsOf
  <2>2. PinsOf'[q] = Cardinality(ReadersOf(q))' + (IF writer.page = q THEN 1 ELSE 0)
    BY <1>3
  <2>3. q # p => Cardinality(ReadersOf(q))' = Cardinality(ReadersOf(q))
    BY <1>1
  <2>4. Cardinality(ReadersOf(q)) \in Nat
    BY <1>4
  <2>5. CASE q = p
    BY <1>2, <2>1, <2>2, <2>4, <2>5
  <2>6. CASE q # p
    BY <2>1, <2>2, <2>3, <2>6
  <2> QED BY <2>5, <2>6
<1>6. PinsOf = [q \in Pages |-> PinsOf[q]] /\ PinsOf' = [q \in Pages |-> PinsOf'[q]]
  BY DEF PinsOf
<1> QED BY <1>5, <1>6

\* A page that a reader has pinned has a pin, and no page more than one for each
\* thread.
LEMMA PinsNatural ==
  ASSUME CacheAssumption, NEW p \in Pages
  PROVE  /\ PinsOf[p] \in Nat
         /\ ReadersOf(p) # {} => PinsOf[p] # 0
         /\ PinsOf[p] <= Cardinality(Readers) + 1
PROOF
<1>1. /\ IsFiniteSet(ReadersOf(p)) /\ Cardinality(ReadersOf(p)) \in Nat
      /\ Cardinality(ReadersOf(p)) <= Cardinality(Readers) /\ Cardinality(Readers) \in Nat
  BY ReadersCount
<1>2. ReadersOf(p) # {} => Cardinality(ReadersOf(p)) # 0
  BY <1>1, FS_EmptySet
<1> QED BY <1>1, <1>2 DEF PinsOf

\* A reader pins a page: no other reader sees its own cells move.
LEMMA ReaderPinKeeps ==
  ASSUME CacheAssumption, CacheInvariant, NEW r \in Readers, NEW p \in Pages, ReaderPin(r, p)
  PROVE  CacheInvariant' /\ PinnedStep
PROOF
<1>0. /\ writer.at = "idle" /\ reading[r] = None /\ CanPin(cache, p)
      /\ cache' = Pin(cache, store, p) /\ reading' = [reading EXCEPT ![r] = p]
      /\ UNCHANGED <<indexed, store, base, writer, working>>
  BY DEF ReaderPin
<1>1. StateTypes /\ Good(cache, store, PinsOf) /\ LockHeld /\ DirtyPages /\ Holding
  BY DEF CacheInvariant
<1>2. Pinned(cache, store, PinsOf, cache', p)
  BY <1>0, <1>1, PinGood
<1>3. PinsOf' = [PinsOf EXCEPT ![p] = @ + 1]
  BY <1>0, <1>1, ReaderPinned DEF StateTypes
<1>4. Good(cache', store', PinsOf')
  BY <1>0, <1>2, <1>3 DEF Pinned
<1>5. StateTypes'
  BY <1>0, <1>1, ConstantFacts DEF StateTypes
<1>6. LockHeld'
  BY <1>0, <1>1 DEF LockHeld
<1>7. DirtyPages'
  BY <1>0, <1>1, <1>2 DEF DirtyPages, Pinned
<1>8. Holding'
  BY <1>0, <1>1 DEF Holding, Content
<1>9. CacheInvariant'
  BY <1>0, <1>4, <1>5, <1>6, <1>7, <1>8, SameIndex DEF CacheInvariant
<1>10. PinnedStep
  <2> SUFFICES ASSUME NEW q \in Readers, reading[q] # None, reading'[q] = reading[q]
               PROVE  LET s == Find(cache, reading[q])
                      IN  /\ s # None
                          /\ Holds(cache', s, reading[q])
                          /\ cache'.slot[s].data = cache.slot[s].data
    BY DEF PinnedStep
  <2> DEFINE n == reading[q]
  <2>1. n \in Pages
    BY <1>1, ConstantFacts DEF StateTypes
  <2>2. PinsOf[n] # 0
    BY <2>1, PinsNatural DEF ReadersOf
  <2>3. Find(cache', n) = Find(cache, n) /\ cache'.slot[Find(cache, n)].data = cache.slot[Find(cache, n)].data
    BY <1>2, <2>1, <2>2 DEF Pinned
  <2>4. Find(cache, n) # None
    <3>1. Resident(cache, n)
      BY <1>1, <2>1, <2>2 DEF Good
    <3> QED BY <1>1, <2>1, <3>1, FindFacts, ConstantFacts DEF Resident
  <2>5. Holds(cache', Find(cache', n), n)
    BY <1>2, <2>1, <2>3, <2>4, FindFacts DEF Pinned
  <2> QED BY <2>3, <2>4, <2>5
<1> QED BY <1>9, <1>10

\* A reader is done with its page.
LEMMA ReaderUnpinKeeps ==
  ASSUME CacheAssumption, CacheInvariant, NEW r \in Readers, ReaderUnpin(r)
  PROVE  CacheInvariant' /\ PinnedStep
PROOF
<1> DEFINE p == reading[r]
<1>0. /\ p # None /\ cache' = Unpin(cache, p) /\ reading' = [reading EXCEPT ![r] = None]
      /\ UNCHANGED <<indexed, store, base, writer, working>>
  BY DEF ReaderUnpin
<1>1. StateTypes /\ Good(cache, store, PinsOf) /\ LockHeld /\ DirtyPages /\ Holding
  BY DEF CacheInvariant
<1>2. p \in Pages
  BY <1>0, <1>1, ConstantFacts DEF StateTypes
<1>3. PinsOf[p] # 0
  BY <1>2, PinsNatural DEF ReadersOf
<1>4. /\ Good(Unpin(cache, p), store, [PinsOf EXCEPT ![p] = @ - 1])
      /\ \A s \in Slots : /\ Unpin(cache, p).slot[s].valid = cache.slot[s].valid
                          /\ Unpin(cache, p).slot[s].id = cache.slot[s].id
                          /\ Unpin(cache, p).slot[s].dirty = cache.slot[s].dirty
                          /\ Unpin(cache, p).slot[s].data = cache.slot[s].data
      /\ \A q \in Pages : Find(Unpin(cache, p), q) = Find(cache, q)
  BY <1>1, <1>2, <1>3, UnpinGood
<1>5. PinsOf' = [PinsOf EXCEPT ![p] = @ - 1]
  BY <1>0, <1>1, <1>2, ReaderPinned DEF StateTypes
<1>6. Good(cache', store', PinsOf')
  BY <1>0, <1>4, <1>5
<1>7. writer.at = "idle"
  BY <1>0, <1>1 DEF LockHeld
<1>8. StateTypes'
  BY <1>0, <1>1, ConstantFacts DEF StateTypes
<1>9. LockHeld'
  BY <1>0, <1>1, <1>7 DEF LockHeld
<1>10. DirtyPages'
  BY <1>0, <1>1, <1>4, <1>7 DEF DirtyPages
<1>11. Holding'
  BY <1>0, <1>1, <1>7 DEF Holding, Content
<1>12. CacheInvariant'
  BY <1>0, <1>6, <1>8, <1>9, <1>10, <1>11, SameIndex DEF CacheInvariant
<1>13. PinnedStep
  <2> SUFFICES ASSUME NEW q \in Readers, reading[q] # None, reading'[q] = reading[q]
               PROVE  LET s == Find(cache, reading[q])
                      IN  /\ s # None
                          /\ Holds(cache', s, reading[q])
                          /\ cache'.slot[s].data = cache.slot[s].data
    BY DEF PinnedStep
  <2> DEFINE n == reading[q]
  <2>1. n \in Pages
    BY <1>1, ConstantFacts DEF StateTypes
  <2>2. PinsOf[n] # 0
    BY <2>1, PinsNatural DEF ReadersOf
  <2>3. Resident(cache, n)
    BY <1>1, <2>1, <2>2 DEF Good
  <2>4. Find(cache, n) \in Slots /\ Holds(cache, Find(cache, n), n) /\ Find(cache, n) # None
    BY <1>1, <2>1, <2>3, FindFacts, ConstantFacts DEF Resident
  <2> QED BY <1>0, <1>4, <2>4 DEF Holds
<1> QED BY <1>12, <1>13

-----------------------------------------------------------------------------
(***************************************************************************)
(* The writer.                                                             *)
(***************************************************************************)
\* The lock is taken exclusively and a page batch begins.
LEMMA BeginKeeps ==
  ASSUME CacheAssumption, CacheInvariant, NEW kind \in {"merge", "transform"},
         kind = "merge" => BeginMerge, kind = "transform" => BeginTransform
  PROVE  CacheInvariant'
PROOF
<1>0. /\ writer.at = "idle" /\ \A r \in Readers : reading[r] = None
      /\ base' = store /\ cache' = BeginBatch(cache)
      /\ writer' = [at |-> kind, page |-> None, next |-> 1, dirty |-> 0]
      /\ UNCHANGED <<indexed, store, reading>>
      /\ kind = "merge" => working' = working
      /\ kind = "transform" => /\ \A p \in Pages : working[p] < MaxUpdates
                               /\ working' = [p \in Pages |-> IF working[p] = 0 THEN 0 ELSE working[p] + 1]
  BY DEF BeginMerge, BeginTransform, BeginWriting
<1>1. StateTypes /\ Good(cache, store, PinsOf) /\ LockHeld /\ DirtyPages /\ Holding
  BY DEF CacheInvariant
<1>2. /\ Good(cache', store, PinsOf) /\ cache'.slot = cache.slot /\ cache'.dirty_count = cache.dirty_count
      /\ \A p \in Pages : Value(cache', store, p) = Value(cache, store, p)
  BY <1>0, <1>1, BeginGood
<1>3. \A s \in Slots : ~ cache.slot[s].dirty
  BY <1>0, <1>1 DEF DirtyPages
<1>4. \A p \in Pages : Value(cache, store, p) = working[p]
  BY <1>0, <1>1, <1>3, CleanValue DEF Holding
<1>5. cache.dirty_count = 0
  BY <1>1, <1>3, DirtyCount
<1>6. PinsOf' = PinsOf
  <2>1. reading' \in [Readers -> 0 .. PageCount] /\ writer'.page = None /\ writer.page = None
    BY <1>0, <1>1 DEF StateTypes, LockHeld
  <2> QED BY <1>0, <2>1 DEF PinsOf, ReadersOf
<1>7. StateTypes'
  <2>1. base' \in Records
    BY <1>0, <1>1 DEF Good
  <2>2. writer' \in [at : Phases, page : 0 .. PageCount, next : 1 .. PageCount + 1, dirty : 0 .. Capacity]
    BY <1>0, ConstantFacts DEF Phases
  <2>3. working' \in [Pages -> Versions]
    BY <1>0, <1>1, ConstantFacts DEF StateTypes
  <2> QED BY <1>0, <1>1, <2>1, <2>2, <2>3 DEF StateTypes
<1>8. LockHeld'
  BY <1>0 DEF LockHeld
<1>9. DirtyPages'
  BY <1>0, <1>2, <1>3, <1>5, ConstantFacts DEF DirtyPages
<1>10. \A p \in Pages : Value(cache', store', p) = working[p] /\ p \in Nat /\ ~ (p < 1) /\ working[p] \in Nat
  BY <1>0, <1>1, <1>2, <1>4, ConstantFacts DEF StateTypes
<1>11. Holding'
  <2>1. /\ kind = "merge" => \A p \in Pages : Value(cache', store', p) = working'[p]
        /\ kind = "transform" =>
             \A p \in Pages : working'[p] = IF p < 1 \/ Value(cache', store', p) = 0
                                            THEN Value(cache', store', p) ELSE Value(cache', store', p) + 1
    BY <1>0, <1>10
  <2> QED BY <1>0, <2>1, SameIndex DEF Holding
<1> QED BY <1>0, <1>2, <1>6, <1>7, <1>8, <1>9, <1>11, SameIndex DEF CacheInvariant

\* The cache once the writer has left the page of its last cell.
LEMMA LeftGood ==
  ASSUME CacheAssumption, CacheInvariant, writer.at # "idle"
  PROVE  /\ Good(LeftPage, store, ZeroPins)
         /\ \A s \in Slots : LeftPage.slot[s].dirty = cache.slot[s].dirty
         /\ LeftPage.dirty_count = cache.dirty_count
         /\ \A p \in Pages : Value(LeftPage, store, p) = Value(cache, store, p)
PROOF
<1>1. StateTypes /\ Good(cache, store, PinsOf) /\ \A r \in Readers : reading[r] = None
  BY DEF CacheInvariant, LockHeld
<1>2. CASE writer.page = None
  BY <1>1, <1>2, NoReaders DEF LeftPage, StateTypes
<1>3. CASE writer.page # None
  <2> DEFINE p == writer.page
  <2>1. p \in Pages
    BY <1>1, <1>3, ConstantFacts DEF StateTypes
  <2>2. PinsOf = [ZeroPins EXCEPT ![p] = 1]
    BY <1>1, <2>1, NoReaders DEF StateTypes
  <2>3. PinsOf[p] # 0 /\ [PinsOf EXCEPT ![p] = @ - 1] = ZeroPins
    BY <2>1, <2>2 DEF ZeroPins
  <2>4. LeftPage = Unpin(cache, p)
    BY <1>3 DEF LeftPage
  <2> QED BY <1>1, <2>1, <2>3, <2>4, UnpinGood
<1> QED BY <1>2, <1>3

\* A flush that makes room: the records take what the cache had, and the next
\* page always finds a slot.
LEMMA FlushedGood ==
  ASSUME CacheAssumption, CacheInvariant, writer.at = "merge", NEW st,
         st = IF Flushed(LeftPage) = LeftPage THEN store ELSE Appended(LeftPage)
  PROVE  /\ Good(Flushed(LeftPage), st, ZeroPins)
         /\ \A p \in Pages : Value(Flushed(LeftPage), st, p) = Value(cache, store, p)
         /\ ~ Full(Flushed(LeftPage))
PROOF
<1> DEFINE c == LeftPage
           f == Flushed(c)
<1>0. /\ Good(c, store, ZeroPins) /\ c.dirty_count = cache.dirty_count
      /\ \A p \in Pages : Value(c, store, p) = Value(cache, store, p)
  BY LeftGood
<1>1. c.dirty_count \in 0 .. Capacity
  BY <1>0, DirtyCount
<1>2. \A p \in Pages : ZeroPins[p] = 0
  BY DEF ZeroPins
<1>3. CASE writer.page # None /\ BatchFull(c)
  <2>1. f = BeginBatch(ClearDirty(c))
    BY <1>3 DEF Flushed, CommitReturns
  <2>2. /\ Good(ClearDirty(c), Appended(c), ZeroPins) /\ ClearDirty(c).dirty_count = 0
        /\ \A p \in Pages : Value(ClearDirty(c), Appended(c), p) = Value(c, store, p)
    BY <1>0, ClearGood
  <2>3. /\ Good(f, Appended(c), ZeroPins) /\ f.dirty_count = 0
        /\ \A p \in Pages : Value(f, Appended(c), p) = Value(c, store, p)
    BY <2>1, <2>2, BeginGood
  <2>4. f # c
    BY <1>3, <2>3, ConstantFacts DEF BatchFull
  <2>5. ~ Full(f)
    BY <1>2, <2>3, Room, ConstantFacts
  <2> QED BY <1>0, <2>3, <2>4, <2>5
<1>4. CASE ~ (writer.page # None /\ BatchFull(c))
  <2>1. f = c
    BY <1>4 DEF Flushed
  <2>2. c.dirty_count < Capacity
    <3>1. CASE writer.page = None
      BY <1>0, <3>1, ConstantFacts DEF CacheInvariant, DirtyPages
    <3>2. CASE ~ BatchFull(c)
      BY <1>1, <3>2, ConstantFacts DEF BatchFull
    <3> QED BY <1>4, <3>1, <3>2
  <2>3. ~ Full(f)
    BY <1>0, <1>2, <2>1, <2>2, Room
  <2> QED BY <1>0, <2>1, <2>3
<1> QED BY <1>3, <1>4

\* pin_external_bucket: the writer goes to the page of the next cell.
LEMMA MoveKeeps ==
  ASSUME CacheAssumption, CacheInvariant, NEW p \in Pages, WriterMove(p)
  PROVE  CacheInvariant'
PROOF
<1> DEFINE f == Flushed(LeftPage)
           d == Pin(f, store', p)
<1>0. /\ writer.at = "merge"
      /\ store' = IF f = LeftPage THEN store ELSE Appended(LeftPage)
      /\ CanPin(f, p) /\ cache' = MarkDirty(d, p)
      /\ writer' = [writer EXCEPT !.page = p]
      /\ UNCHANGED <<indexed, base, reading, working>>
  BY DEF WriterMove
<1>1. StateTypes /\ LockHeld /\ Holding
  BY DEF CacheInvariant
<1>2. /\ Good(f, store', ZeroPins)
      /\ \A q \in Pages : Value(f, store', q) = Value(cache, store, q)
  BY <1>0, FlushedGood
<1>3. Pinned(f, store', ZeroPins, d, p)
  <2> HIDE DEF f, d
  <2> QED BY <1>0, <1>2, PinGood DEF d
<1>4. /\ Good(d, store', [ZeroPins EXCEPT ![p] = @ + 1]) /\ Find(d, p) # None
      /\ \A q \in Pages : Value(d, store', q) = Value(f, store', q)
  BY <1>3 DEF Pinned
<1>5. [ZeroPins EXCEPT ![p] = @ + 1] = [ZeroPins EXCEPT ![p] = 1]
  BY DEF ZeroPins
<1> HIDE DEF f, d
<1>6. /\ Good(cache', store', [ZeroPins EXCEPT ![p] = @ + 1])
      /\ Find(cache', p) = Find(d, p)
      /\ cache'.slot[Find(d, p)].dirty
      /\ \A q \in Pages : Value(cache', store', q) = Value(d, store', q)
  <2>1. Find(d, p) \in Slots
    BY <1>4, FindFacts
  <2> QED BY <1>0, <1>4, <2>1, MarkGood
<1>7. writer'.at = "merge" /\ writer'.page = p
  BY <1>0, <1>1 DEF StateTypes
<1>8. PinsOf' = [ZeroPins EXCEPT ![p] = 1]
  <2>1. reading' = reading /\ reading \in [Readers -> 0 .. PageCount] /\ \A r \in Readers : reading[r] = None
    BY <1>0, <1>1 DEF StateTypes, LockHeld
  <2>2. \A q \in Pages : ReadersOf(q)' = {} /\ q # None
    BY <2>1, ConstantFacts DEF ReadersOf
  <2>3. \A q \in Pages : Cardinality(ReadersOf(q))' = 0
    BY <2>2, FS_EmptySet
  <2>4. PinsOf' = [q \in Pages |-> IF p = q THEN 1 ELSE 0]
    BY <1>7, <2>3 DEF PinsOf
  <2> QED BY <2>4 DEF ZeroPins
<1>9. StateTypes'
  <2>1. writer' \in [at : Phases, page : 0 .. PageCount, next : 1 .. PageCount + 1, dirty : 0 .. Capacity]
    <3>1. writer \in [at : Phases, page : 0 .. PageCount, next : 1 .. PageCount + 1, dirty : 0 .. Capacity]
      BY <1>1 DEF StateTypes
    <3>2. p \in 0 .. PageCount
      BY ConstantFacts
    <3>3. writer' = [writer EXCEPT !.page = p]
      BY <1>0
    <3> QED BY <3>1, <3>2, <3>3
  <2> QED BY <1>0, <1>1, <2>1 DEF StateTypes
<1>10. LockHeld'
  BY <1>0, <1>1, <1>7 DEF LockHeld
<1>11. DirtyPages'
  <2>1. p # None
    BY ConstantFacts
  <2> QED BY <1>0, <1>6, <1>7, <2>1, SameIndex DEF DirtyPages
<1>12. Holding'
  BY <1>0, <1>1, <1>2, <1>4, <1>6, <1>7, SameIndex DEF Holding
<1> QED BY <1>0, <1>5, <1>6, <1>8, <1>9, <1>10, <1>11, <1>12, SameIndex DEF CacheInvariant

\* What the writer may be.
WriterType == [at : Phases, page : 0 .. PageCount, next : 1 .. PageCount + 1, dirty : 0 .. Capacity]

\* The pins once the writer keeps no page.
LEMMA PinsReleased ==
  ASSUME CacheAssumption, CacheInvariant, writer.at # "idle", reading' = reading, writer'.page = None
  PROVE  PinsOf' = ZeroPins
PROOF
<1>1. reading \in [Readers -> 0 .. PageCount] /\ \A r \in Readers : reading[r] = None
  BY DEF CacheInvariant, StateTypes, LockHeld
<1>2. \A q \in Pages : ReadersOf(q)' = {} /\ q # None
  BY <1>1, ConstantFacts DEF ReadersOf
<1>3. \A q \in Pages : Cardinality(ReadersOf(q))' = 0
  BY <1>2, FS_EmptySet
<1>4. PinsOf' = [q \in Pages |-> 0]
  BY <1>2, <1>3 DEF PinsOf
<1> QED BY <1>4 DEF ZeroPins

\* apply_delta.
LEMMA ApplyKeeps ==
  ASSUME CacheAssumption, CacheInvariant, WriterApply
  PROVE  CacheInvariant'
PROOF
<1> DEFINE p == writer.page
           s == Find(cache, p)
<1>0. /\ writer.at = "merge" /\ p # None /\ working[p] < MaxUpdates
      /\ cache' = [cache EXCEPT !.slot[s].data = @ + 1]
      /\ working' = [working EXCEPT ![p] = @ + 1]
      /\ UNCHANGED <<indexed, store, base, writer, reading>>
  BY DEF WriterApply
<1>1. StateTypes /\ Good(cache, store, PinsOf) /\ LockHeld /\ DirtyPages /\ Holding
  BY DEF CacheInvariant
<1>2. p \in Pages
  BY <1>0, <1>1, ConstantFacts DEF StateTypes
<1>3. cache.slot[s].dirty /\ Value(cache, store, p) = working[p]
  BY <1>0, <1>1, <1>2 DEF DirtyPages, Holding
<1>4. PinsOf[p] # 0
  <2>1. Cardinality(ReadersOf(p)) \in Nat
    BY ReadersCount
  <2> QED BY <1>2, <2>1 DEF PinsOf
<1>5. Resident(cache, p)
  BY <1>1, <1>2, <1>4 DEF Good
<1>6. s \in Slots /\ Holds(cache, s, p) /\ s # None
  BY <1>1, <1>2, <1>5, FindFacts, ConstantFacts DEF Resident
<1>7. cache.slot[s].data < MaxUpdates
  BY <1>0, <1>3, <1>6 DEF Value
<1>8. /\ Good(cache', store, PinsOf)
      /\ \A t \in Slots : cache'.slot[t].dirty = cache.slot[t].dirty
      /\ \A q \in Pages : Find(cache', q) = Find(cache, q)
      /\ \A q \in Pages : Value(cache', store, q) =
           IF q = p THEN Value(cache, store, q) + 1 ELSE Value(cache, store, q)
  <2> HIDE DEF s, p
  <2> QED BY <1>0, <1>1, <1>2, <1>3, <1>6, <1>7, WriteGood
<1>9. PinsOf' = PinsOf
  BY <1>0 DEF PinsOf, ReadersOf
<1>10. StateTypes'
  <2>1. working' \in [Pages -> Versions]
    BY <1>0, <1>1, <1>2, ConstantFacts DEF StateTypes
  <2> QED BY <1>0, <1>1, <2>1 DEF StateTypes
<1>11. LockHeld'
  BY <1>0, <1>1 DEF LockHeld
<1>12. DirtyPages'
  BY <1>0, <1>2, <1>3, <1>6, <1>8, SameIndex DEF DirtyPages
<1>13. Holding'
  <2>1. \A q \in Pages : Value(cache', store', q) = working'[q]
    <3> TAKE q \in Pages
    <3>1. Value(cache, store, q) = working[q]
      BY <1>0, <1>1 DEF Holding
    <3>2. working'[q] = IF q = p THEN working[q] + 1 ELSE working[q]
      BY <1>0, <1>1 DEF StateTypes
    <3> QED BY <1>0, <1>8, <3>1, <3>2
  <2> QED BY <1>0, <2>1, SameIndex DEF Holding
<1> QED BY <1>0, <1>8, <1>9, <1>10, <1>11, <1>12, <1>13, SameIndex DEF CacheInvariant

\* The merge leaves its last page.
LEMMA UnpinKeeps ==
  ASSUME CacheAssumption, CacheInvariant, WriterUnpin
  PROVE  CacheInvariant'
PROOF
<1>0. /\ writer.at = "merge" /\ writer.page # None /\ cache' = LeftPage
      /\ writer' = [writer EXCEPT !.page = None, !.at = "commit"]
      /\ UNCHANGED <<indexed, store, base, reading, working>>
  BY DEF WriterUnpin, LeftPage
<1>1. StateTypes /\ LockHeld /\ Holding
  BY DEF CacheInvariant
<1>2. /\ writer' \in WriterType /\ writer'.at = "commit" /\ writer'.page = None
  <2>1. writer \in WriterType
    BY <1>1 DEF StateTypes, WriterType
  <2>2. None \in 0 .. PageCount /\ "commit" \in Phases
    BY ConstantFacts DEF Phases
  <2>3. writer' = [writer EXCEPT !.page = None, !.at = "commit"]
    BY <1>0
  <2> QED BY <2>1, <2>2, <2>3 DEF WriterType
<1>3. /\ Good(cache', store', PinsOf')
      /\ \A p \in Pages : Value(cache', store', p) = Value(cache, store, p)
  BY <1>0, <1>2, LeftGood, PinsReleased
<1>4. StateTypes'
  BY <1>0, <1>1, <1>2 DEF StateTypes, WriterType
<1>5. LockHeld' /\ DirtyPages'
  BY <1>0, <1>1, <1>2 DEF LockHeld, DirtyPages
<1>6. Holding'
  BY <1>0, <1>1, <1>2, <1>3, SameIndex DEF Holding
<1> QED BY <1>0, <1>3, <1>4, <1>5, <1>6, SameIndex DEF CacheInvariant

\* flush_page_batch_and_continue.
LEMMA FlushKeeps ==
  ASSUME CacheAssumption, CacheInvariant, FlushTransform
  PROVE  CacheInvariant'
PROOF
<1> DEFINE c == ClearDirty(cache)
<1>0. /\ writer.at = "flush" /\ store' = Appended(cache) /\ cache' = BeginBatch(c)
      /\ writer' = [writer EXCEPT !.at = "transform", !.dirty = 0]
      /\ UNCHANGED <<indexed, base, reading, working>>
  BY DEF FlushTransform, CommitReturns
<1>1. StateTypes /\ Good(cache, store, PinsOf) /\ LockHeld /\ Holding
  BY DEF CacheInvariant
<1>2. /\ Good(c, store', PinsOf) /\ c.dirty_count = 0 /\ \A s \in Slots : ~ c.slot[s].dirty
      /\ \A p \in Pages : Value(c, store', p) = Value(cache, store, p)
  BY <1>0, <1>1, ClearGood
<1> HIDE DEF c
<1>3. /\ Good(cache', store', PinsOf) /\ cache'.slot = c.slot /\ cache'.dirty_count = 0
      /\ \A p \in Pages : Value(cache', store', p) = Value(cache, store, p)
  BY <1>0, <1>2, BeginGood
<1>4. /\ writer' \in WriterType /\ writer'.at = "transform" /\ writer'.dirty = 0
      /\ writer'.page = writer.page /\ writer'.next = writer.next
  <2>1. writer \in WriterType
    BY <1>1 DEF StateTypes, WriterType
  <2>2. 0 \in 0 .. Capacity /\ "transform" \in Phases
    BY ConstantFacts DEF Phases
  <2>3. writer' = [writer EXCEPT !.at = "transform", !.dirty = 0]
    BY <1>0
  <2> QED BY <2>1, <2>2, <2>3 DEF WriterType
<1>5. PinsOf' = PinsOf
  BY <1>0, <1>4 DEF PinsOf, ReadersOf
<1>6. StateTypes'
  BY <1>0, <1>1, <1>4 DEF StateTypes, WriterType
<1>7. LockHeld'
  BY <1>0, <1>1, <1>4 DEF LockHeld
<1>8. DirtyPages'
  BY <1>2, <1>3, <1>4, ConstantFacts DEF DirtyPages
<1>9. Holding'
  BY <1>0, <1>1, <1>3, <1>4, SameIndex DEF Holding
<1> QED BY <1>0, <1>3, <1>5, <1>6, <1>7, <1>8, <1>9, SameIndex DEF CacheInvariant

\* The rescaling has passed every page.
LEMMA EndTransformKeeps ==
  ASSUME CacheAssumption, CacheInvariant, EndTransform
  PROVE  CacheInvariant'
PROOF
<1>0. /\ writer.at = "transform" /\ writer.next \notin Pages
      /\ writer' = [writer EXCEPT !.at = "commit"]
      /\ UNCHANGED <<indexed, cache, store, base, reading, working>>
  BY DEF EndTransform
<1>1. StateTypes /\ Good(cache, store, PinsOf) /\ LockHeld /\ Holding
  BY DEF CacheInvariant
<1>2. writer \in WriterType
  BY <1>1 DEF StateTypes, WriterType
<1>3. /\ writer' \in WriterType /\ writer'.at = "commit" /\ writer'.page = writer.page
  <2>1. writer' = [writer EXCEPT !.at = "commit"] /\ "commit" \in Phases
    BY <1>0 DEF Phases
  <2> QED BY <1>2, <2>1 DEF WriterType
<1>4. PinsOf' = PinsOf
  BY <1>0, <1>3 DEF PinsOf, ReadersOf
<1>5. \A p \in Pages : p < writer.next
  BY <1>0, <1>2, ConstantFacts DEF WriterType
<1>6. \A p \in Pages : Value(cache, store, p) = working[p]
  BY <1>0, <1>1, <1>5 DEF Holding
<1>7. StateTypes'
  BY <1>0, <1>1, <1>3 DEF StateTypes, WriterType
<1>8. LockHeld' /\ DirtyPages'
  BY <1>0, <1>1, <1>3 DEF LockHeld, DirtyPages
<1>9. Holding'
  BY <1>0, <1>3, <1>6, SameIndex DEF Holding
<1> QED BY <1>0, <1>1, <1>4, <1>7, <1>8, <1>9, SameIndex DEF CacheInvariant

\* The batch is committed.
LEMMA CommitKeeps ==
  ASSUME CacheAssumption, CacheInvariant, Commit
  PROVE  CacheInvariant'
PROOF
<1>0. /\ writer.at = "commit" /\ store' = Appended(cache) /\ cache' = ClearDirty(cache)
      /\ writer' = [writer EXCEPT !.at = "idle"] /\ base' = store'
      /\ UNCHANGED <<indexed, reading, working>>
  BY DEF Commit, CommitReturns
<1>1. StateTypes /\ Good(cache, store, PinsOf) /\ LockHeld /\ Holding
  BY DEF CacheInvariant
<1>2. /\ Good(cache', store', PinsOf) /\ \A s \in Slots : ~ cache'.slot[s].dirty
  BY <1>0, <1>1, ClearGood
<1>3. store' \in Records /\ \A p \in Pages : Content(store', p) = Value(cache, store, p)
  BY <1>0, <1>1, AppendedFacts
<1>4. /\ writer' \in WriterType /\ writer'.at = "idle" /\ writer'.page = writer.page
  <2>1. writer' = [writer EXCEPT !.at = "idle"] /\ "idle" \in Phases /\ writer \in WriterType
    BY <1>0, <1>1 DEF Phases, StateTypes, WriterType
  <2> QED BY <2>1 DEF WriterType
<1>5. PinsOf' = PinsOf
  BY <1>0, <1>4 DEF PinsOf, ReadersOf
<1>6. StateTypes'
  BY <1>0, <1>1, <1>3, <1>4 DEF StateTypes, WriterType
<1>7. LockHeld'
  BY <1>0, <1>1, <1>4 DEF LockHeld
<1>8. DirtyPages'
  BY <1>2, <1>4 DEF DirtyPages
<1>9. Holding'
  <2>1. \A p \in Pages : Content(store', p) = working'[p]
    BY <1>0, <1>1, <1>3 DEF Holding
  <2> QED BY <1>4, <2>1 DEF Holding, Content
<1> QED BY <1>0, <1>2, <1>5, <1>6, <1>7, <1>8, <1>9, SameIndex DEF CacheInvariant

\* append_batch throws, or the merge does.
LEMMA FailKeeps ==
  ASSUME CacheAssumption, CacheInvariant,
         (\E published \in BOOLEAN : CommitFails(published)) \/ WriterThrows
  PROVE  CacheInvariant'
PROOF
<1>1. StateTypes /\ Good(cache, store, PinsOf) /\ LockHeld
  BY DEF CacheInvariant
<1>2. writer.at # "idle" /\ UNCHANGED <<indexed, base, reading, working>>
  BY DEF CommitFails, WriterThrows
<1>3. writer \in WriterType /\ None \in 0 .. PageCount /\ "failed" \in Phases
  BY <1>1, ConstantFacts DEF StateTypes, WriterType, Phases
<1>4. /\ writer' \in WriterType /\ writer'.at = "failed" /\ Good(cache', store', PinsOf')
  <2>1. CASE WriterThrows
    <3>1. writer' = [writer EXCEPT !.at = "failed"] /\ UNCHANGED <<cache, store>>
      BY <2>1 DEF WriterThrows
    <3>2. writer' \in WriterType /\ writer'.at = "failed" /\ writer'.page = writer.page
      BY <1>3, <3>1 DEF WriterType
    <3>3. PinsOf' = PinsOf
      BY <1>2, <3>2 DEF PinsOf, ReadersOf
    <3> QED BY <1>1, <3>1, <3>2, <3>3
  <2>2. CASE \E published \in BOOLEAN : CommitFails(published)
    <3> DEFINE c == LeftPage
    <3>1. PICK published \in BOOLEAN : CommitFails(published)
      BY <2>2
    <3>2. /\ store' = IF published THEN Appended(c) ELSE store
          /\ cache' = CommitThrows(c, published)
          /\ writer' = [writer EXCEPT !.at = "failed", !.page = None]
      BY <3>1 DEF CommitFails
    <3>3. writer' \in WriterType /\ writer'.at = "failed" /\ writer'.page = None
      <4>1. writer' = [writer EXCEPT !.at = "failed", !.page = None]
        BY <3>2
      <4> QED BY <1>3, <4>1 DEF WriterType
    <3>4. PinsOf' = ZeroPins
      BY <1>2, <3>3, PinsReleased
    <3>5. Good(c, store, ZeroPins)
      BY <1>2, LeftGood
    <3> HIDE DEF c
    <3>6. CASE published
      <4>1. store' = Appended(c) /\ cache' = ClearDirty(c)
        BY <3>2, <3>6 DEF CommitThrows
      <4> QED BY <3>3, <3>4, <3>5, <4>1, ClearGood
    <3>7. CASE ~ published
      <4>1. store' = store /\ cache' = RollbackDirty(c)
        BY <3>2, <3>7 DEF CommitThrows
      <4> QED BY <3>3, <3>4, <3>5, <4>1, RollbackGood
    <3> QED BY <3>6, <3>7
  <2> QED BY <2>1, <2>2
<1>5. StateTypes'
  BY <1>1, <1>2, <1>4 DEF StateTypes, WriterType
<1>6. LockHeld' /\ DirtyPages' /\ Holding'
  BY <1>1, <1>2, <1>4 DEF LockHeld, DirtyPages, Holding
<1> QED BY <1>2, <1>4, <1>5, <1>6, SameIndex DEF CacheInvariant

\* abort_batch: everything is opened again from the restored files.
LEMMA AbortKeeps ==
  ASSUME CacheAssumption, CacheInvariant, Abort
  PROVE  CacheInvariant'
PROOF
<1>0. /\ writer.at = "failed" /\ store' = base /\ cache' = EmptyCache
      /\ writer' = [writer EXCEPT !.at = "idle", !.page = None]
      /\ working' = [p \in Pages |-> Content(base, p)]
      /\ UNCHANGED <<indexed, base, reading>>
  BY DEF Abort
<1>1. StateTypes /\ LockHeld
  BY DEF CacheInvariant
<1>2. /\ writer' \in WriterType /\ writer'.at = "idle" /\ writer'.page = None
  <2>1. writer' = [writer EXCEPT !.at = "idle", !.page = None] /\ writer \in WriterType
        /\ "idle" \in Phases /\ None \in 0 .. PageCount
    BY <1>0, <1>1, ConstantFacts DEF Phases, StateTypes, WriterType
  <2> QED BY <2>1 DEF WriterType
<1>3. PinsOf' = ZeroPins
  BY <1>0, <1>2, PinsReleased
<1>4. Good(cache', store', PinsOf') /\ \A s \in Slots : ~ cache'.slot[s].dirty
  <2>1. base \in Records /\ ZeroPins \in [Pages -> Nat] /\ \A p \in Pages : ZeroPins[p] = 0
    BY <1>1 DEF StateTypes, ZeroPins
  <2> QED BY <1>0, <1>3, <2>1, EmptyGood
<1>5. \A p \in Pages : Content(base, p) \in Versions
  BY <1>1, ConstantFacts DEF StateTypes, Records, Content
<1>6. StateTypes'
  BY <1>0, <1>1, <1>2, <1>5 DEF StateTypes, WriterType
<1>7. LockHeld' /\ DirtyPages'
  BY <1>2, <1>4 DEF LockHeld, DirtyPages
<1>8. Holding'
  <2>1. \A p \in Pages : Content(store', p) = working'[p]
    BY <1>0
  <2> QED BY <1>2, <2>1 DEF Holding, Content
<1> QED BY <1>0, <1>4, <1>6, <1>7, <1>8, SameIndex DEF CacheInvariant

\* One page of transform_external_regrets.
LEMMA TransformKeeps ==
  ASSUME CacheAssumption, CacheInvariant, TransformPage
  PROVE  CacheInvariant'
PROOF
<1> DEFINE p == writer.next
           known == Find(cache, p) # None \/ store[p] # Absent
           pinned == Pin(cache, store, p)
           s == Find(pinned, p)
           marked == MarkDirty(pinned, p)
           written == [marked EXCEPT !.slot[s].data = @ + 1]
           dirty == writer.dirty + 1
           one == [ZeroPins EXCEPT ![p] = @ + 1]
<1>0. /\ writer.at = "transform" /\ p \in Pages
      /\ known => CanPin(cache, p)
      /\ UNCHANGED <<indexed, store, base, reading, working>>
  BY DEF TransformPage
<1>1. StateTypes /\ Good(cache, store, PinsOf) /\ LockHeld /\ DirtyPages /\ Holding
  BY DEF CacheInvariant
<1>2. PinsOf = ZeroPins /\ writer.page = None
  <2>1. writer.page = None /\ \A r \in Readers : reading[r] = None
    BY <1>0, <1>1 DEF LockHeld
  <2> QED BY <1>1, <2>1, NoReaders DEF StateTypes
<1>3. writer \in WriterType
  BY <1>1 DEF StateTypes, WriterType
<1>4. /\ writer.dirty = cache.dirty_count /\ writer.dirty < Capacity
      /\ \A t \in Slots : cache.slot[t].dirty => cache.slot[t].id < p
  BY <1>0, <1>1 DEF DirtyPages
<1>5. \A q \in Pages : working[q] = IF q < p \/ Value(cache, store, q) = 0
                                    THEN Value(cache, store, q) ELSE Value(cache, store, q) + 1
  BY <1>0, <1>1 DEF Holding
<1>6. /\ p \in Nat /\ p + 1 \in 1 .. PageCount + 1 /\ writer.dirty \in Nat /\ dirty \in 0 .. Capacity
      /\ \A q \in Pages : q \in Nat /\ (q < p + 1 <=> q < p \/ q = p)
  BY <1>0, <1>3, <1>4, ConstantFacts DEF WriterType
\* A step that leaves the records, and whose cache is in order with zero pins.
<1>7. ASSUME writer' \in WriterType, writer'.at \in {"transform", "flush"}, writer'.page = None,
             writer'.next = p + 1, writer'.dirty = cache'.dirty_count,
             writer'.at = "transform" => writer'.dirty < Capacity,
             writer'.at = "flush" => writer'.dirty = Capacity,
             Good(cache', store, ZeroPins),
             \A t \in Slots : cache'.slot[t].dirty => cache'.slot[t].id < p + 1,
             \A q \in Pages : q # p => Value(cache', store, q) = Value(cache, store, q),
             working[p] = Value(cache', store, p)
      PROVE  CacheInvariant'
  <2>1. PinsOf' = ZeroPins
    BY <1>0, <1>7, PinsReleased
  <2>2. StateTypes'
    BY <1>0, <1>1, <1>7 DEF StateTypes, WriterType
  <2>3. LockHeld'
    BY <1>0, <1>1, <1>7 DEF LockHeld
  <2>4. DirtyPages'
    BY <1>7 DEF DirtyPages
  <2>5. Holding'
    <3>1. \A q \in Pages : working[q] = IF q < p + 1 \/ Value(cache', store, q) = 0
                                        THEN Value(cache', store, q) ELSE Value(cache', store, q) + 1
      BY <1>5, <1>6, <1>7
    <3> QED BY <1>0, <1>7, <3>1, SameIndex DEF Holding
  <2> QED BY <1>0, <1>7, <2>1, <2>2, <2>3, <2>4, <2>5, SameIndex DEF CacheInvariant
\* A page passed over: only the loop moves on.
<1>8. ASSUME writer' = [writer EXCEPT !.next = p + 1]
      PROVE  /\ writer' \in WriterType /\ writer'.at = "transform" /\ writer'.page = None
             /\ writer'.next = p + 1 /\ writer'.dirty = writer.dirty
  BY <1>0, <1>2, <1>3, <1>6, <1>8 DEF WriterType
<1>9. CASE ~ known
  <2>1. cache' = cache /\ writer' = [writer EXCEPT !.next = p + 1]
    BY <1>9 DEF TransformPage
  <2>2. Value(cache, store, p) = 0
    BY <1>9 DEF Value, Content
  <2>3. working[p] = Value(cache', store, p)
    BY <1>0, <1>5, <2>1, <2>2
  <2>4. \A t \in Slots : cache'.slot[t].dirty => cache'.slot[t].id < p + 1
    <3> SUFFICES ASSUME NEW t \in Slots, cache.slot[t].dirty PROVE cache.slot[t].id < p + 1
      BY <2>1
    <3>1. cache.slot[t].id \in Pages
      BY <1>1 DEF Good
    <3> QED BY <1>4, <1>6, <3>1
  <2> QED BY <1>1, <1>2, <1>4, <1>7, <1>8, <2>1, <2>3, <2>4
<1>10. CASE known
  <2>1. Pinned(cache, store, ZeroPins, pinned, p)
    BY <1>0, <1>1, <1>2, <1>10, PinGood
  <2>2. /\ Good(pinned, store, one) /\ Find(pinned, p) # None
        /\ pinned.dirty_count = cache.dirty_count
        /\ \A t \in Slots : pinned.slot[t].dirty = cache.slot[t].dirty
        /\ \A t \in Slots : cache.slot[t].dirty => pinned.slot[t].id = cache.slot[t].id
        /\ \A q \in Pages : Value(pinned, store, q) = Value(cache, store, q)
    BY <2>1 DEF Pinned
  <2>3. s \in Slots /\ Holds(pinned, s, p)
    BY <1>0, <2>2, FindFacts
  <2>4. pinned.slot[s].data = Value(cache, store, p)
    BY <1>0, <2>2 DEF Value
  <2>5. one[p] # 0 /\ [one EXCEPT ![p] = @ - 1] = ZeroPins
    BY <1>0 DEF ZeroPins
  <2>6. ~ pinned.slot[s].dirty
    BY <1>4, <1>6, <2>2, <2>3 DEF Holds
  <2>7. \A t \in Slots : cache.slot[t].dirty => cache.slot[t].id \in Pages
    BY <1>1 DEF Good
  <2>8. CASE pinned.slot[s].data = 0
    <3>1. cache' = Unpin(pinned, p) /\ writer' = [writer EXCEPT !.next = p + 1]
      BY <1>10, <2>8 DEF TransformPage
    <3> HIDE DEF pinned, s, one
    <3>2. /\ Good(cache', store, [one EXCEPT ![p] = @ - 1])
          /\ cache'.dirty_count = pinned.dirty_count
          /\ \A t \in Slots : cache'.slot[t].dirty = pinned.slot[t].dirty /\ cache'.slot[t].id = pinned.slot[t].id
          /\ \A q \in Pages : Value(cache', store, q) = Value(pinned, store, q)
      <4>1. /\ p \in Pages /\ one[p] # 0 /\ Good(pinned, store, one)
            /\ cache' = Unpin(pinned, p)
        BY <1>0, <2>2, <2>5, <3>1
      <4>2. p \in Pages /\ one[p] # 0
        BY <1>0, <2>5
      <4> HIDE DEF p
      <4> QED BY <4>1, <4>2, UnpinGood
    <3>3. \A t \in Slots : cache'.slot[t].dirty => cache'.slot[t].id < p + 1
      BY <1>4, <1>6, <2>2, <2>7, <3>2
    <3>4. working[p] = Value(cache', store, p)
      BY <1>0, <1>5, <2>2, <2>4, <2>8, <3>2
    <3>5. Good(cache', store, ZeroPins) /\ cache'.dirty_count = writer.dirty
          /\ \A q \in Pages : q # p => Value(cache', store, q) = Value(cache, store, q)
      BY <1>4, <2>2, <2>5, <3>2
    <3> QED BY <1>4, <1>7, <1>8, <3>1, <3>3, <3>4, <3>5
  <2>9. CASE pinned.slot[s].data # 0
    <3>1. /\ cache' = Unpin(written, p)
          /\ writer' = [writer EXCEPT !.next = p + 1, !.dirty = dirty,
                                      !.at = IF dirty = Capacity THEN "flush" ELSE @]
      BY <1>10, <2>9 DEF TransformPage
    <3>2. /\ Good(marked, store, one)
          /\ \A t \in Slots : /\ marked.slot[t].valid = pinned.slot[t].valid
                              /\ marked.slot[t].id = pinned.slot[t].id
                              /\ marked.slot[t].data = pinned.slot[t].data
                              /\ marked.slot[t].dirty <=> pinned.slot[t].dirty \/ t = s
          /\ marked.dirty_count = pinned.dirty_count + 1
          /\ \A q \in Pages : Value(marked, store, q) = Value(pinned, store, q)
      <4> HIDE DEF pinned, one
      <4> QED BY <1>0, <2>2, <2>6, MarkGood
    <3> HIDE DEF marked
    <3>3. pinned.slot[s].data < MaxUpdates
      <4>1. working[p] \in 0 .. MaxUpdates /\ working[p] = pinned.slot[s].data + 1
        BY <1>0, <1>1, <1>5, <1>6, <2>4, <2>9, ConstantFacts DEF StateTypes
      <4>2. pinned.slot[s].data \in Nat
        <5>1. pinned.slot \in [Slots -> SlotFields]
          BY <2>2 DEF Good, CacheFields
        <5>2. pinned.slot[s] \in SlotFields
          BY <2>3, <5>1
        <5> HIDE DEF pinned
        <5>3. pinned.slot[s].data \in Versions
          BY <5>2 DEF SlotFields
        <5> QED BY <5>3, ConstantFacts
      <4> QED BY <4>1, <4>2, ConstantFacts
    <3> HIDE DEF pinned, s, one
    <3>4. /\ Good(written, store, one)
          /\ \A t \in Slots : /\ written.slot[t].valid = marked.slot[t].valid
                              /\ written.slot[t].id = marked.slot[t].id
                              /\ written.slot[t].dirty = marked.slot[t].dirty
          /\ written.dirty_count = marked.dirty_count
          /\ \A q \in Pages : Value(written, store, q) =
                IF q = p THEN Value(marked, store, q) + 1 ELSE Value(marked, store, q)
      <4>1. Holds(marked, s, p) /\ marked.slot[s].dirty /\ marked.slot[s].data < MaxUpdates
        BY <2>3, <3>2, <3>3 DEF Holds
      <4>2. written = [marked EXCEPT !.slot[s].data = @ + 1]
        OBVIOUS
      <4> HIDE DEF written
      <4> QED BY <1>0, <2>3, <3>2, <4>1, <4>2, WriteGood
    <3> HIDE DEF written
    <3>5. /\ Good(cache', store, [one EXCEPT ![p] = @ - 1])
          /\ cache'.dirty_count = written.dirty_count
          /\ \A t \in Slots : cache'.slot[t].dirty = written.slot[t].dirty /\ cache'.slot[t].id = written.slot[t].id
          /\ \A q \in Pages : Value(cache', store, q) = Value(written, store, q)
      <4>1. /\ p \in Pages /\ one[p] # 0 /\ Good(written, store, one)
            /\ cache' = Unpin(written, p)
        BY <1>0, <2>5, <3>1, <3>4
      <4>2. p \in Pages /\ one[p] # 0
        BY <1>0, <2>5
      <4> HIDE DEF p
      <4> QED BY <4>1, <4>2, UnpinGood
    <3>6. \A t \in Slots : cache'.slot[t].dirty => cache'.slot[t].id < p + 1
      <4> SUFFICES ASSUME NEW t \in Slots, cache'.slot[t].dirty PROVE cache'.slot[t].id < p + 1
        OBVIOUS
      <4>1. cache'.slot[t].id = pinned.slot[t].id /\ (pinned.slot[t].dirty \/ t = s)
        BY <3>2, <3>4, <3>5
      <4>2. CASE t = s
        BY <1>6, <2>3, <4>1, <4>2 DEF Holds
      <4>3. CASE pinned.slot[t].dirty
        BY <1>4, <1>6, <2>2, <2>7, <4>1, <4>3
      <4> QED BY <4>1, <4>2, <4>3
    <3>7. working[p] = Value(cache', store, p)
      BY <1>0, <1>5, <1>6, <2>2, <2>4, <2>9, <3>2, <3>4, <3>5
    <3>8. Good(cache', store, ZeroPins) /\ cache'.dirty_count = dirty
          /\ \A q \in Pages : q # p => Value(cache', store, q) = Value(cache, store, q)
      BY <1>4, <2>2, <2>5, <3>2, <3>4, <3>5
    <3>9. /\ writer' \in WriterType /\ writer'.page = None /\ writer'.next = p + 1 /\ writer'.dirty = dirty
          /\ writer'.at = IF dirty = Capacity THEN "flush" ELSE "transform"
      BY <1>0, <1>2, <1>3, <1>6, <3>1 DEF WriterType, Phases
    <3>10. /\ writer'.at \in {"transform", "flush"}
           /\ writer'.at = "transform" => dirty < Capacity
           /\ writer'.at = "flush" => dirty = Capacity
      BY <1>6, <3>9, ConstantFacts
    <3> QED BY <1>7, <3>6, <3>7, <3>8, <3>9, <3>10
  <2> QED BY <2>8, <2>9
<1> QED BY <1>9, <1>10

-----------------------------------------------------------------------------
(***************************************************************************)
(* The theorems.                                                           *)
(***************************************************************************)
\* While a thread writes, a step leaves no pinned reader to disturb.
LEMMA NoReaderPinned ==
  ASSUME \A r \in Readers : reading[r] = None
  PROVE  PinnedStep
PROOF BY DEF PinnedStep

\* Every step keeps the invariant, and disturbs no pinned page.
LEMMA StepKeeps ==
  ASSUME CacheAssumption, CacheInvariant, [Next]_vars
  PROVE  CacheInvariant' /\ (Next => PinnedStep)
PROOF
<1>1. LockHeld
  BY DEF CacheInvariant
<1>2. CASE Next
  <2>1. ASSUME NEW r \in Readers, ReaderUnpin(r) \/ \E p \in Pages : ReaderPin(r, p)
        PROVE  CacheInvariant' /\ PinnedStep
    BY <2>1, ReaderPinKeeps, ReaderUnpinKeeps
  <2>2. CASE BeginMerge
    <3>1. \A r \in Readers : reading[r] = None
      BY <2>2 DEF BeginMerge, BeginWriting
    <3> QED BY <2>2, <3>1, BeginKeeps, NoReaderPinned
  <2>3. CASE BeginTransform
    <3>1. \A r \in Readers : reading[r] = None
      BY <2>3 DEF BeginTransform, BeginWriting
    <3> QED BY <2>3, <3>1, BeginKeeps, NoReaderPinned
  <2>4. ASSUME NEW p \in Pages, WriterMove(p) PROVE CacheInvariant' /\ PinnedStep
    <3>1. writer.at # "idle"
      BY <2>4 DEF WriterMove
    <3> QED BY <1>1, <2>4, <3>1, MoveKeeps, NoReaderPinned DEF LockHeld
  <2>5. CASE WriterApply
    <3>1. writer.at # "idle"
      BY <2>5 DEF WriterApply
    <3> QED BY <1>1, <2>5, <3>1, ApplyKeeps, NoReaderPinned DEF LockHeld
  <2>6. CASE WriterUnpin
    <3>1. writer.at # "idle"
      BY <2>6 DEF WriterUnpin
    <3> QED BY <1>1, <2>6, <3>1, UnpinKeeps, NoReaderPinned DEF LockHeld
  <2>7. CASE TransformPage
    <3>1. writer.at # "idle"
      BY <2>7 DEF TransformPage
    <3> QED BY <1>1, <2>7, <3>1, TransformKeeps, NoReaderPinned DEF LockHeld
  <2>8. CASE FlushTransform
    <3>1. writer.at # "idle"
      BY <2>8 DEF FlushTransform
    <3> QED BY <1>1, <2>8, <3>1, FlushKeeps, NoReaderPinned DEF LockHeld
  <2>9. CASE EndTransform
    <3>1. writer.at # "idle"
      BY <2>9 DEF EndTransform
    <3> QED BY <1>1, <2>9, <3>1, EndTransformKeeps, NoReaderPinned DEF LockHeld
  <2>10. CASE Commit
    <3>1. writer.at # "idle"
      BY <2>10 DEF Commit
    <3> QED BY <1>1, <2>10, <3>1, CommitKeeps, NoReaderPinned DEF LockHeld
  <2>11. CASE WriterThrows \/ \E published \in BOOLEAN : CommitFails(published)
    <3>1. writer.at # "idle"
      BY <2>11 DEF WriterThrows, CommitFails
    <3> QED BY <1>1, <2>11, <3>1, FailKeeps, NoReaderPinned DEF LockHeld
  <2>12. CASE Abort
    <3>1. writer.at # "idle"
      BY <2>12 DEF Abort
    <3> QED BY <1>1, <2>12, <3>1, AbortKeeps, NoReaderPinned DEF LockHeld
  <2> QED BY <1>2, <2>1, <2>2, <2>3, <2>4, <2>5, <2>6, <2>7, <2>8, <2>9, <2>10, <2>11, <2>12 DEF Next
<1>3. CASE UNCHANGED vars
  <2>1. UNCHANGED <<indexed, cache, store, base, writer, reading, working>>
    BY <1>3 DEF vars
  <2>2. CacheInvariant'
    <3>0. StateTypes /\ Good(cache, store, PinsOf) /\ LockHeld /\ DirtyPages /\ Holding
      BY DEF CacheInvariant
    <3>1. PinsOf' = PinsOf
      BY <2>1 DEF PinsOf, ReadersOf
    <3>2. Good(cache, store, PinsOf)'
      BY <2>1, <3>0, <3>1, SameIndex
    <3>3. StateTypes' /\ LockHeld'
      BY <2>1, <3>0 DEF StateTypes, LockHeld
    <3>4. DirtyPages'
      BY <2>1, <3>0, SameIndex DEF DirtyPages
    <3>5. Holding'
      BY <2>1, <3>0, SameIndex DEF Holding, Content
    <3> QED BY <3>2, <3>3, <3>4, <3>5 DEF CacheInvariant
  <2>3. Next => PinnedStep
    BY <1>2
  <2> QED BY <2>2, <2>3
<1> QED BY <1>2, <1>3

\* What the invariant implies.
LEMMA CacheIsSound ==
  ASSUME CacheAssumption, CacheInvariant
  PROVE  PagesSound
PROOF
<1>1. StateTypes /\ Good(cache, store, PinsOf) /\ LockHeld /\ DirtyPages /\ Holding
  BY DEF CacheInvariant
<1>2. cache \in Cache
  <2>1. cache \in CacheFields /\ cache.dirty_count \in 0 .. Capacity
    BY <1>1, DirtyCount DEF Good
  <2>2. ASSUME NEW s \in Slots PROVE cache.slot[s] \in Slot
    <3>1. cache.slot[s] \in SlotFields
      BY <2>1 DEF CacheFields
    <3>2. cache.slot[s].pin \in 0 .. Cardinality(Readers) + 1
      <4>1. cache.slot[s].pin = IF cache.slot[s].valid THEN PinsOf[cache.slot[s].id] ELSE 0
        BY <1>1 DEF Good
      <4>2. cache.slot[s].valid => cache.slot[s].id \in Pages
        BY <1>1 DEF Good
      <4>3. Cardinality(Readers) \in Nat
        BY ReadersCount
      <4> QED BY <4>1, <4>2, <4>3, PinsNatural
    <3> QED BY <3>1, <3>2 DEF SlotFields, Slot
  <2>3. cache.slot \in [Slots -> Slot]
    BY <2>1, <2>2 DEF CacheFields
  <2> QED BY <2>1, <2>3 DEF CacheFields, Cache
<1>3. TypeOK
  BY <1>1, <1>2 DEF TypeOK, StateTypes, Good, Records, Phases
<1>4. ResidentOnce
  <2> SUFFICES ASSUME NEW s \in Slots, cache.slot[s].valid
               PROVE  /\ \A t \in Slots \ {s} : ~ Holds(cache, t, cache.slot[s].id)
                      /\ Find(cache, cache.slot[s].id) = s
    BY DEF ResidentOnce
  <2>1. cache.slot[s].id \in Pages /\ Holds(cache, s, cache.slot[s].id)
    BY <1>1 DEF Good, Holds
  <2>2. \A t \in Slots : Holds(cache, t, cache.slot[s].id) => Find(cache, cache.slot[s].id) = t
    BY <1>1, <2>1, FindFacts
  <2> QED BY <2>1, <2>2
<1>5. CleanPagesMatchStore /\ DirtyCountExact
  BY <1>1 DEF CleanPagesMatchStore, DirtyCountExact, Good
<1>6. WriterNeverStarved
  <2>1. ASSUME writer.at = "merge", NEW p \in Pages PROVE CanPin(Flushed(LeftPage), p)
    <3>1. ~ Full(Flushed(LeftPage))
      BY <2>1, FlushedGood
    <3> QED BY <3>1 DEF CanPin
  <2>2. ASSUME writer.at = "transform" PROVE CanPin(cache, writer.next)
    <3>1. cache.dirty_count < Capacity
      BY <1>1, <2>2 DEF DirtyPages
    <3>2. PinsOf = ZeroPins
      <4>1. writer.page = None /\ \A r \in Readers : reading[r] = None
        BY <1>1, <2>2 DEF LockHeld
      <4> QED BY <1>1, <4>1, NoReaders DEF StateTypes
    <3>3. \A p \in Pages : PinsOf[p] = 0
      BY <3>2 DEF ZeroPins
    <3>4. ~ Full(cache)
      BY <1>1, <3>1, <3>3, Room
    <3> QED BY <3>4 DEF CanPin
  <2> QED BY <2>1, <2>2 DEF WriterNeverStarved
<1>7. NoUpdateLost
  <2>1. \A p : Logical(p) = Value(cache, store, p)
    BY DEF Logical, Value
  <2> QED BY <1>1, <2>1 DEF NoUpdateLost, Holding
<1> QED BY <1>3, <1>4, <1>5, <1>6, <1>7 DEF PagesSound

\* The invariant: the cache, its counts and the pages of every phase.
THEOREM CacheInvariance == ASSUME CacheAssumption PROVE Spec => []CacheInvariant
PROOF
<1>1. Init => CacheInvariant
  BY InitGood
<1>2. CacheInvariant /\ [Next]_vars => CacheInvariant'
  BY StepKeeps
<1> QED BY <1>1, <1>2, PTL DEF Spec

\* For any number of pages, slots and readers: no page is resident twice, a clean
\* page has its record's cells, dirty_count_ is exact, the writer always finds a
\* slot, and neither a flush, an eviction nor a failed commit loses an update.
THEOREM PagesAreSound == ASSUME CacheAssumption PROVE Spec => []PagesSound
PROOF
<1>1. CacheInvariant => PagesSound
  BY CacheIsSound
<1> QED BY <1>1, CacheInvariance, PTL

\* For any number of pages, slots and readers: the cells that a reader sees through
\* its pin neither change nor move until it unpins.
THEOREM PinnedCellsStay == ASSUME CacheAssumption PROVE Spec => [][PinnedStep]_vars
PROOF
<1>1. CacheInvariant /\ [Next]_vars => [PinnedStep]_vars
  BY StepKeeps
<1> QED BY <1>1, CacheInvariance, PTL DEF Spec


-----------------------------------------------------------------------------
(***************************************************************************)
(* The row index: pages of a row, of a set of rows, and of a batch.        *)
(***************************************************************************)
\* Quotient and remainder.
LEMMA Quotients ==
  ASSUME NEW i \in Nat, NEW n \in Nat \ {0}
  PROVE  i \div n \in Nat /\ i % n \in 0 .. n - 1 /\ i = (i \div n) * n + (i % n)
PROOF OBVIOUS

\* Products keep the order.
LEMMA Products ==
  ASSUME NEW a \in Nat, NEW b \in Nat, NEW n \in Nat \ {0}
  PROVE  /\ a * n \in Nat /\ b * n \in Nat
         /\ (a + 1) * n = a * n + n
         /\ a < b => a * n + n <= b * n
         /\ a * n < b * n => a < b
PROOF
<1>1. a * n \in Nat /\ b * n \in Nat /\ (a + 1) * n = a * n + n
  OBVIOUS
<1>2. ASSUME NEW x \in Nat, NEW y \in Nat, x < y PROVE x * n + n <= y * n
  <2>1. (y - x) \in Nat /\ (y - x) - 1 \in Nat
    BY <1>2
  <2>2. y * n = x * n + (y - x) * n
    BY <1>2, <2>1
  <2>3. (y - x) * n = ((y - x) - 1) * n + n
    BY <2>1
  <2>4. ((y - x) - 1) * n \in Nat /\ x * n \in Nat /\ y * n \in Nat
    BY <2>1
  <2> QED BY <2>2, <2>3, <2>4
<1>3. b < a => b * n + n <= a * n
  BY <1>2
<1>4. a * n < b * n => a < b
  <2>1. CASE a = b
    BY <1>1, <2>1
  <2>2. CASE b < a
    BY <1>1, <1>3, <2>2
  <2> QED BY <2>1, <2>2
<1> QED BY <1>1, <1>2, <1>4

\* A row has enough pages for its buckets, and a bucket on each of them.
LEMMA RowPages ==
  ASSUME RowAssumption, NEW r, r.buckets \in Nat \ {0}
  PROVE  /\ RowPageCount(r) \in Nat \ {0}
         /\ \A b \in 0 .. r.buckets - 1 :
              /\ b \div PageWidth \in 0 .. RowPageCount(r) - 1
              /\ b % PageWidth \in 0 .. PageWidth - 1
              /\ b = (b \div PageWidth) * PageWidth + (b % PageWidth)
         /\ \A k \in 0 .. RowPageCount(r) - 1 :
              /\ k * PageWidth \in 0 .. r.buckets - 1
              /\ (k * PageWidth) \div PageWidth = k
PROOF
<1> DEFINE W == PageWidth
           B == r.buckets
           n == RowPageCount(r)
<1>0. W \in Nat \ {0} /\ B \in Nat \ {0} /\ B + W - 1 \in Nat
  BY DEF RowAssumption
<1>1. n = (B + W - 1) \div W
  BY DEF RowPageCount
<1> HIDE DEF W, B, n
<1>2. n \in Nat /\ (B + W - 1) % W \in 0 .. W - 1 /\ B + W - 1 = n * W + ((B + W - 1) % W)
  BY <1>0, <1>1, Quotients
<1>3. n * W \in Nat /\ n * W <= B + W - 1 /\ B <= n * W
  BY <1>0, <1>2
<1>4. n # 0
  <2>1. n = 0 => n * W = 0
    BY <1>0
  <2> QED BY <1>0, <1>3, <2>1
<1>5. ASSUME NEW b \in 0 .. B - 1
      PROVE  b \div W \in 0 .. n - 1 /\ b % W \in 0 .. W - 1 /\ b = (b \div W) * W + (b % W)
  <2>1. b \in Nat /\ b < B
    BY <1>0
  <2>2. b \div W \in Nat /\ b % W \in 0 .. W - 1 /\ b = (b \div W) * W + (b % W)
    BY <1>0, <2>1, Quotients
  <2> DEFINE q == b \div W
  <2>3. q * W \in Nat /\ q * W < n * W
    BY <1>0, <1>3, <2>1, <2>2
  <2> HIDE DEF q
  <2>4. q < n
    BY <1>0, <1>2, <2>2, <2>3, Products DEF q
  <2> QED BY <1>2, <2>2, <2>4 DEF q
<1>6. ASSUME NEW k \in 0 .. n - 1
      PROVE  k * W \in 0 .. B - 1 /\ (k * W) \div W = k
  <2>1. k \in Nat /\ k < n
    BY <1>2
  <2>2. k * W \in Nat /\ k * W + W <= n * W
    BY <1>0, <1>2, <2>1, Products
  <2>3. k * W \in 0 .. B - 1
    BY <1>0, <1>3, <2>2
  <2> DEFINE q == (k * W) \div W
  <2>4. q \in Nat /\ (k * W) % W \in 0 .. W - 1 /\ k * W = q * W + ((k * W) % W)
    BY <1>0, <2>2, Quotients
  <2> HIDE DEF q
  <2>5. ~ (q < k)
    <3>1. q < k => q * W + W <= k * W
      BY <1>0, <2>1, <2>4, Products
    <3>2. q * W \in Nat
      BY <1>0, <2>4
    <3> QED BY <1>0, <2>2, <2>4, <3>1, <3>2
  <2>6. ~ (k < q)
    <3>1. k < q => k * W + W <= q * W
      BY <1>0, <2>1, <2>4, Products
    <3>2. q * W \in Nat
      BY <1>0, <2>4
    <3> QED BY <1>0, <2>2, <2>4, <3>1, <3>2
  <2> QED BY <2>1, <2>3, <2>4, <2>5, <2>6 DEF q
<1> QED BY <1>2, <1>4, <1>5, <1>6 DEF W, B, n

\* A batch the index may be given.
IsBatch(batch) ==
  /\ batch \subseteq Shapes
  /\ \A r, s \in batch : Infoset(r) = Infoset(s) => r = s

\* The pages before those of a row.
Start(r, batch) == TotalPages({s \in batch : Before(s, r)})

\* The pages of one row, as named pairs, are as many as append_batch counts.
LEMMA RowPagesCounted ==
  ASSUME RowAssumption, NEW r \in Shapes
  PROVE  /\ RowPageCount(r) \in Nat \ {0}
         /\ IsFiniteSet(PagesOf({r}))
         /\ TotalPages({r}) = RowPageCount(r)
PROOF
<1> DEFINE n == RowPageCount(r)
           f == [k \in 0 .. n - 1 |-> <<r, k>>]
<1>1. n \in Nat \ {0}
  BY RowPages DEF RowAssumption
<1> HIDE DEF n
<1>2. PagesOf({r}) = {<<r, k>> : k \in 0 .. n - 1}
  BY DEF PagesOf, n
<1>3. f \in Bijection(0 .. n - 1, PagesOf({r}))
  <2>1. f \in [0 .. n - 1 -> PagesOf({r})]
    BY <1>2
  <2>2. \A a, b \in 0 .. n - 1 : f[a] = f[b] => a = b
    OBVIOUS
  <2>3. \A t \in PagesOf({r}) : \E s \in 0 .. n - 1 : f[s] = t
    BY <1>2
  <2> HIDE DEF f
  <2> QED BY <2>1, <2>2, <2>3, Fun_IsBij
<1>4. ExistsBijection(0 .. n - 1, PagesOf({r}))
  BY <1>3 DEF ExistsBijection
<1>5. IsFiniteSet(0 .. n - 1) /\ Cardinality(0 .. n - 1) = n
  <2>1. 0 \in Int /\ n - 1 \in Int /\ ~ (0 > n - 1) /\ n - 1 - 0 + 1 = n
    BY <1>1
  <2>2. /\ IsFiniteSet(0 .. n - 1)
        /\ Cardinality(0 .. n - 1) = IF 0 > n - 1 THEN 0 ELSE n - 1 - 0 + 1
    BY <2>1, FS_Interval, Zenon
  <2> QED BY <2>1, <2>2, Zenon
<1>6. IsFiniteSet(PagesOf({r})) /\ Cardinality(PagesOf({r})) = n
  BY <1>4, <1>5, FS_Bijection
<1> QED BY <1>1, <1>6 DEF TotalPages, n

\* The pages of a set of rows are finitely many.
LEMMA PagesCounted ==
  ASSUME RowAssumption, NEW S, S \subseteq Shapes
  PROVE  IsFiniteSet(PagesOf(S)) /\ TotalPages(S) \in Nat
PROOF
<1> DEFINE f == [r \in S |-> PagesOf({r})]
           T == {PagesOf({r}) : r \in S}
<1>1. IsFiniteSet(S)
  BY FS_Subset DEF RowAssumption
<1>2. f \in Surjection(S, T)
  <2>1. f \in [S -> T]
    OBVIOUS
  <2>2. \A t \in T : \E s \in S : f[s] = t
    OBVIOUS
  <2> HIDE DEF f, T
  <2> QED BY <2>1, <2>2, Fun_IsSurj
<1>3. IsFiniteSet(T)
  BY <1>1, <1>2, FS_Surjection
<1>4. \A t \in T : IsFiniteSet(t)
  BY RowPagesCounted
<1>5. IsFiniteSet(UNION T)
  <2> HIDE DEF T
  <2> QED BY <1>3, <1>4, FS_UNION
<1>6. UNION T = PagesOf(S)
  BY DEF PagesOf
<1> QED BY <1>5, <1>6, FS_CardinalityType DEF TotalPages

\* A row's pages and those of other rows are counted together.
LEMMA PagesAdded ==
  ASSUME RowAssumption, NEW S, S \subseteq Shapes, NEW r \in Shapes, r \notin S,
         NEW T, T \subseteq Shapes, S \cup {r} \subseteq T
  PROVE  TotalPages(S) + RowPageCount(r) <= TotalPages(T)
PROOF
<1>1. /\ IsFiniteSet(PagesOf(S)) /\ IsFiniteSet(PagesOf({r})) /\ IsFiniteSet(PagesOf(T))
      /\ TotalPages(S) \in Nat /\ TotalPages({r}) = RowPageCount(r) /\ TotalPages(T) \in Nat
  BY PagesCounted, RowPagesCounted
<1>2. PagesOf(S) \cap PagesOf({r}) = {}
  BY DEF PagesOf
<1>3. PagesOf(S) \cup PagesOf({r}) \in SUBSET PagesOf(T)
  BY DEF PagesOf
<1>4. Cardinality(PagesOf(S) \cap PagesOf({r})) = 0
  BY <1>2, FS_EmptySet
<1>5. Cardinality(PagesOf(S) \cup PagesOf({r}))
        = Cardinality(PagesOf(S)) + Cardinality(PagesOf({r})) - Cardinality(PagesOf(S) \cap PagesOf({r}))
  BY <1>1, FS_Union
<1>6. Cardinality(PagesOf(S) \cup PagesOf({r})) <= Cardinality(PagesOf(T))
  BY <1>1, <1>3, FS_Subset
<1>7. RowPageCount(r) \in Nat
  BY RowPagesCounted
<1> QED BY <1>1, <1>4, <1>5, <1>6, <1>7 DEF TotalPages

\* The fields of a row that may be admitted.
LEMMA RowFields ==
  ASSUME RowAssumption, NEW r \in Shapes
  PROVE  r.state \in Nat /\ r.seat \in Nat /\ r.buckets \in Nat \ {0}
PROOF BY DEF RowAssumption

\* FirstPage gives the rows of a batch consecutive pages that do not overlap.
LEMMA PagesOfBatch ==
  ASSUME RowAssumption, NEW batch, IsBatch(batch)
  PROVE  /\ TotalPages(batch) \in Nat
         /\ \A r \in batch : Start(r, batch) \in Nat
         /\ \A r \in batch : Start(r, batch) + RowPageCount(r) <= TotalPages(batch)
         /\ \A r, s \in batch : \A k \in 0 .. RowPageCount(r) - 1, l \in 0 .. RowPageCount(s) - 1 :
              Start(r, batch) + k = Start(s, batch) + l => r = s
         /\ \A q \in 0 .. TotalPages(batch) - 1 :
              \E r \in batch : \E k \in 0 .. RowPageCount(r) - 1 : q = Start(r, batch) + k
PROOF
<1> DEFINE Low(r) == {s \in batch : Before(s, r)}
           A(r) == Start(r, batch)
           n(r) == RowPageCount(r)
           total == TotalPages(batch)
<1>0. batch \subseteq Shapes /\ \A r, s \in batch : Infoset(r) = Infoset(s) => r = s
  BY DEF IsBatch
<1>1. \A r \in batch : A(r) \in Nat /\ n(r) \in Nat \ {0} /\ A(r) = TotalPages(Low(r))
  BY <1>0, PagesCounted, RowPagesCounted DEF Start
<1>2. total \in Nat /\ IsFiniteSet(PagesOf(batch))
  BY <1>0, PagesCounted
<1>3. \A r \in batch : ~ Before(r, r)
  BY <1>0, RowFields DEF Before
<1>4. ASSUME NEW r \in batch PROVE A(r) + n(r) <= total
  <2>1. r \notin Low(r) /\ Low(r) \cup {r} \subseteq batch /\ Low(r) \subseteq Shapes
    BY <1>0, <1>3
  <2> QED BY <1>0, <1>1, <2>1, PagesAdded
<1>5. ASSUME NEW r \in batch, NEW s \in batch, Before(s, r) PROVE A(s) + n(s) <= A(r)
  <2>1. s \notin Low(s) /\ Low(s) \subseteq Shapes /\ Low(r) \subseteq Shapes
    BY <1>0, <1>3
  <2>2. Low(s) \cup {s} \subseteq Low(r)
    <3> SUFFICES ASSUME NEW t \in batch, Before(t, s) PROVE Before(t, r)
      BY <1>5
    <3> QED BY <1>0, <1>5, RowFields DEF Before
  <2>3. A(s) = TotalPages(Low(s)) /\ A(r) = TotalPages(Low(r)) /\ s \in Shapes
    BY <1>0, <1>1
  <2> HIDE DEF A, Low, n
  <2>4. TotalPages(Low(s)) + RowPageCount(s) <= TotalPages(Low(r))
    BY <2>1, <2>2, <2>3, PagesAdded
  <2> QED BY <2>3, <2>4 DEF n
<1>6. ASSUME NEW r \in batch, NEW s \in batch, r # s PROVE Before(r, s) \/ Before(s, r)
  <2>1. r.state # s.state \/ r.seat # s.seat
    BY <1>0, <1>6 DEF Infoset
  <2> QED BY <1>0, <2>1, RowFields DEF Before
<1> HIDE DEF A, n, total, Low
<1>7. ASSUME NEW r \in batch, NEW s \in batch, NEW k \in 0 .. n(r) - 1, NEW l \in 0 .. n(s) - 1,
             A(r) + k = A(s) + l
      PROVE  r = s
  <2>1. A(r) \in Nat /\ A(s) \in Nat /\ n(r) \in Nat \ {0} /\ n(s) \in Nat \ {0}
    BY <1>1
  <2>2. k \in Nat /\ k < n(r) /\ l \in Nat /\ l < n(s)
    BY <2>1
  <2>3. CASE Before(r, s)
    <3>1. A(r) + n(r) <= A(s)
      BY <1>5, <2>3
    <3> QED BY <1>7, <2>1, <2>2, <3>1
  <2>4. CASE Before(s, r)
    <3>1. A(s) + n(s) <= A(r)
      BY <1>5, <2>4
    <3> QED BY <1>7, <2>1, <2>2, <3>1
  <2> QED BY <1>6, <2>3, <2>4
\* The pages fill 0 .. total - 1, since they are as many and all different.
<1>8. ASSUME NEW q \in 0 .. total - 1
      PROVE  \E r \in batch : \E k \in 0 .. n(r) - 1 : q = A(r) + k
  <2> DEFINE P == PagesOf(batch)
             I == 0 .. total - 1
             f == [x \in P |-> A(x[1]) + x[2]]
  <2>1. \A x \in P : x[1] \in batch /\ x[2] \in 0 .. n(x[1]) - 1 /\ x = <<x[1], x[2]>>
    BY DEF PagesOf, n
  <2>2. \A x \in P : f[x] \in I
    <3> TAKE x \in P
    <3>1. /\ x[1] \in batch /\ x[2] \in 0 .. n(x[1]) - 1 /\ f[x] = A(x[1]) + x[2]
          /\ A(x[1]) \in Nat /\ n(x[1]) \in Nat \ {0} /\ A(x[1]) + n(x[1]) <= total
      BY <1>1, <1>4, <2>1
    <3> HIDE DEF f
    <3> QED BY <1>2, <3>1
  <2>3. \A x, y \in P : f[x] = f[y] => x = y
    <3> SUFFICES ASSUME NEW x \in P, NEW y \in P, f[x] = f[y] PROVE x = y
      OBVIOUS
    <3>1. x[1] \in batch /\ y[1] \in batch /\ x[2] \in 0 .. n(x[1]) - 1 /\ y[2] \in 0 .. n(y[1]) - 1
      BY <2>1
    <3>2. A(x[1]) + x[2] = A(y[1]) + y[2]
      OBVIOUS
    <3>3. x[1] = y[1]
      BY <1>7, <3>1, <3>2
    <3>4. A(x[1]) \in Nat /\ n(x[1]) \in Nat
      BY <1>1, <3>1
    <3>5. x[2] = y[2]
      <4>1. x[2] \in Nat /\ y[2] \in Nat
        BY <3>1, <3>3, <3>4
      <4> QED BY <3>2, <3>3, <3>4, <4>1
    <3> QED BY <2>1, <3>3, <3>5
  <2>4. f \in [P -> I]
    BY <2>2
  <2> HIDE DEF f, P, I
  <2>5. f \in Injection(P, I)
    BY <2>3, <2>4, Fun_IsInj
  <2>6. IsFiniteSet(I) /\ Cardinality(I) = total
    <3>1. 0 \in Int /\ total - 1 \in Int /\ total - 1 - 0 + 1 = total /\ (0 > total - 1 <=> total = 0)
      BY <1>2
    <3>2. /\ IsFiniteSet(0 .. total - 1)
          /\ Cardinality(0 .. total - 1) = IF 0 > total - 1 THEN 0 ELSE total - 1 - 0 + 1
      BY <3>1, FS_Interval, Zenon
    <3> QED BY <3>1, <3>2, Zenon DEF I
  <2>7. Cardinality(P) = total
    BY DEF P, total, TotalPages
  <2>8. f \in Surjection(P, I)
    BY <2>5, <2>6, <2>7, FS_Injection
  <2>9. \E x \in P : f[x] = q
    <3>1. \A t \in I : \E x \in P : f[x] = t
      BY <2>8, Fun_SurjectionProperties
    <3> QED BY <3>1 DEF I
  <2>10. PICK x \in P : f[x] = q
    BY <2>9
  <2>11. f[x] = A(x[1]) + x[2]
    BY DEF f
  <2> QED BY <2>1, <2>10, <2>11 DEF P
<1> QED BY <1>1, <1>2, <1>4, <1>7, <1>8 DEF A, n, total

-----------------------------------------------------------------------------
(***************************************************************************)
(* The rows of the index, from one generation to the next.                 *)
(***************************************************************************)
PageIn(row) == 0 .. RowPageCount(row) - 1

\* A generation of the index: the rows have pages of their own, and together
\* all the pages below the allocator.
IndexInOrder(d) ==
  /\ d.next \in Nat \ {0}
  /\ \A i \in Rows(d) : d.row[i].buckets \in Nat \ {0} /\ d.row[i].first \in Nat \ {0}
  /\ \A i \in Rows(d) : \A k \in PageIn(d.row[i]) : d.row[i].first + k < d.next
  /\ \A i, j \in Rows(d) : \A k \in PageIn(d.row[i]), l \in PageIn(d.row[j]) :
       d.row[i].first + k = d.row[j].first + l => i = j
  /\ \A q \in 1 .. d.next - 1 :
       \E i \in Rows(d) : \E k \in PageIn(d.row[i]) : q = d.row[i].first + k

\* The rows of one generation are in another, with the same pages.
RowsKept(d, e) == \A i \in Rows(d) : i \in Rows(e) /\ e.row[i] = d.row[i]

IndexInvariant ==
  /\ IndexInOrder(durable)
  /\ IndexInOrder(row_base)
  /\ RowsKept(row_base, durable)
  /\ phase # "failed" => opened = durable.next

\* append_batch: the new rows get the pages after the allocator's.
LEMMA ExtendedInOrder ==
  ASSUME RowAssumption, NEW d, IndexInOrder(d), NEW batch, IsBatch(batch),
         \A r \in batch : Infoset(r) \notin Rows(d)
  PROVE  IndexInOrder(Extended(d, d.next, batch)) /\ RowsKept(d, Extended(d, d.next, batch))
PROOF
<1> DEFINE e == Extended(d, d.next, batch)
           New == {Infoset(r) : r \in batch}
           R(i) == CHOOSE r \in batch : Infoset(r) = i
           total == TotalPages(batch)
           A(r) == Start(r, batch)
           n(r) == RowPageCount(r)
<1>0. batch \subseteq Shapes /\ \A r, s \in batch : Infoset(r) = Infoset(s) => r = s
  BY DEF IsBatch
<1>1. /\ Rows(e) = Rows(d) \cup New /\ e.next = d.next + total
      /\ \A i \in Rows(d) : e.row[i] = d.row[i]
  BY DEF Extended, Published, Rows
<1>2. \A i \in New : i \notin Rows(d) /\ R(i) \in batch /\ Infoset(R(i)) = i
  OBVIOUS
<1>3. ASSUME NEW i \in New
      PROVE  /\ e.row[i] = [buckets |-> R(i).buckets, first |-> d.next + A(R(i)), pages |-> n(R(i))]
  <2>1. i \in Rows(d) \cup New /\ i \notin Rows(d)
    BY <1>2
  <2> QED BY <2>1 DEF Extended, Published, Rows, FirstPage, Start
<1> HIDE DEF e, New, R, total, A, n
<1>4. ASSUME NEW i \in New
      PROVE  /\ e.row[i].buckets = R(i).buckets /\ e.row[i].first = d.next + A(R(i))
             /\ RowPageCount(e.row[i]) = n(R(i)) /\ PageIn(e.row[i]) = 0 .. n(R(i)) - 1
             /\ R(i) \in batch /\ R(i).buckets \in Nat \ {0}
  <2>1. e.row[i].buckets = R(i).buckets /\ e.row[i].first = d.next + A(R(i))
    <3> DEFINE x == e.row[i]
               b == R(i).buckets
               f == d.next + A(R(i))
               m == n(R(i))
    <3>1. x = [buckets |-> b, first |-> f, pages |-> m]
      BY <1>3
    <3> HIDE DEF x, b, f, m
    <3>2. x.buckets = b /\ x.first = f
      BY <3>1
    <3> QED BY <3>2 DEF x, b, f
  <2>2. R(i) \in batch /\ R(i).buckets \in Nat \ {0}
    BY <1>0, <1>2, RowFields
  <2>3. RowPageCount(e.row[i]) = n(R(i))
    BY <2>1 DEF RowPageCount, n
  <2> QED BY <2>1, <2>2, <2>3 DEF PageIn
<1>5. \A i \in Rows(d) : PageIn(e.row[i]) = PageIn(d.row[i]) /\ e.row[i] = d.row[i]
  BY <1>1
<1>6. /\ total \in Nat /\ d.next \in Nat \ {0}
      /\ \A r \in batch : A(r) \in Nat /\ n(r) \in Nat \ {0} /\ A(r) + n(r) <= total
      /\ \A r, s \in batch : \A k \in 0 .. n(r) - 1, l \in 0 .. n(s) - 1 : A(r) + k = A(s) + l => r = s
      /\ \A q \in 0 .. total - 1 : \E r \in batch : \E k \in 0 .. n(r) - 1 : q = A(r) + k
  BY <1>0, PagesOfBatch, RowPagesCounted DEF IndexInOrder, total, A, n
<1>7. ASSUME NEW i \in Rows(e)
      PROVE  /\ e.row[i].buckets \in Nat \ {0} /\ e.row[i].first \in Nat \ {0}
             /\ \A k \in PageIn(e.row[i]) : e.row[i].first + k < e.next
  <2>1. CASE i \in Rows(d)
    <3>1. /\ d.row[i].buckets \in Nat \ {0} /\ d.row[i].first \in Nat \ {0}
          /\ \A k \in PageIn(d.row[i]) : d.row[i].first + k < d.next
      BY <2>1 DEF IndexInOrder
    <3>2. \A k \in PageIn(d.row[i]) : k \in Nat
      BY <3>1, RowPages DEF PageIn
    <3> QED BY <1>1, <1>5, <1>6, <2>1, <3>1, <3>2
  <2>2. CASE i \in New
    <3>1. A(R(i)) \in Nat /\ n(R(i)) \in Nat \ {0} /\ A(R(i)) + n(R(i)) <= total
      BY <1>4, <1>6, <2>2
    <3>2. \A k \in 0 .. n(R(i)) - 1 : (d.next + A(R(i))) + k < d.next + total
      <4> DEFINE a == A(R(i))
                 m == n(R(i))
                 f == d.next
      <4>1. a \in Nat /\ m \in Nat \ {0} /\ a + m <= total /\ total \in Nat /\ f \in Nat
        BY <1>6, <3>1
      <4> HIDE DEF a, m, f
      <4>2. \A k \in 0 .. m - 1 : (f + a) + k < f + total
        BY <4>1
      <4> QED BY <4>2 DEF a, m, f
    <3> DEFINE a == A(R(i))
               m == n(R(i))
               x == e.row[i].first
               g == d.next
    <3>3. x = g + a /\ PageIn(e.row[i]) = 0 .. m - 1 /\ a \in Nat /\ g \in Nat \ {0} /\ e.next = g + total
      BY <1>1, <1>4, <1>6, <2>2, <3>1
    <3>4. \A k \in 0 .. m - 1 : (g + a) + k < g + total
      BY <3>2
    <3>5. e.row[i].buckets \in Nat \ {0}
      BY <1>4, <2>2
    <3> HIDE DEF a, m, x, g
    <3>6. x \in Nat \ {0} /\ \A k \in PageIn(e.row[i]) : x + k < e.next
      BY <3>3, <3>4
    <3> QED BY <3>5, <3>6 DEF x
  <2> QED BY <1>1, <2>1, <2>2
\* The new pages are not below the allocator, where the old ones are.
<1>8. ASSUME NEW i \in New, NEW k \in PageIn(e.row[i])
      PROVE  k \in Nat /\ e.row[i].first + k = d.next + (A(R(i)) + k) /\ A(R(i)) + k \in Nat
  <2> DEFINE a == A(R(i))
             m == n(R(i))
             f == e.row[i].first
             g == d.next
  <2>1. a \in Nat /\ m \in Nat \ {0} /\ k \in 0 .. m - 1 /\ f = g + a /\ g \in Nat
    BY <1>4, <1>6
  <2> HIDE DEF a, m, f, g
  <2>2. k \in Nat /\ f + k = g + (a + k) /\ a + k \in Nat
    BY <2>1
  <2> QED BY <2>2 DEF a, f, g
<1>9. ASSUME NEW i \in Rows(d), NEW k \in PageIn(e.row[i])
      PROVE  e.row[i].first + k < d.next
  BY <1>5 DEF IndexInOrder
<1>10. ASSUME NEW i \in Rows(e), NEW j \in Rows(e), NEW k \in PageIn(e.row[i]), NEW l \in PageIn(e.row[j]),
              e.row[i].first + k = e.row[j].first + l
       PROVE  i = j
  <2>1. CASE i \in Rows(d) /\ j \in Rows(d)
    BY <1>5, <1>10, <2>1 DEF IndexInOrder
  <2>2. CASE i \in Rows(d) /\ j \in New
    BY <1>6, <1>8, <1>9, <1>10, <2>2
  <2>3. CASE i \in New /\ j \in Rows(d)
    BY <1>6, <1>8, <1>9, <1>10, <2>3
  <2>4. CASE i \in New /\ j \in New
    <3> DEFINE x == A(R(i)) + k
               y == A(R(j)) + l
               g == d.next
    <3>1. g + x = g + y /\ x \in Nat /\ y \in Nat /\ g \in Nat
      BY <1>6, <1>8, <1>10, <2>4
    <3> HIDE DEF x, y, g
    <3>2. x = y
      BY <3>1
    <3>3. A(R(i)) + k = A(R(j)) + l
      BY <3>2 DEF x, y
    <3>4. /\ R(i) \in batch /\ R(j) \in batch
          /\ k \in 0 .. n(R(i)) - 1 /\ l \in 0 .. n(R(j)) - 1
      BY <1>4, <2>4
    <3>5. R(i) = R(j)
      BY <1>6, <3>3, <3>4
    <3> QED BY <1>2, <2>4, <3>5
  <2> QED BY <1>1, <2>1, <2>2, <2>3, <2>4
<1>11. ASSUME NEW q \in 1 .. e.next - 1
       PROVE  \E i \in Rows(e) : \E k \in PageIn(e.row[i]) : q = e.row[i].first + k
  <2>1. CASE q < d.next
    <3>1. q \in 1 .. d.next - 1
      BY <1>1, <1>6, <2>1
    <3>2. \E i \in Rows(d) : \E k \in PageIn(d.row[i]) : q = d.row[i].first + k
      BY <3>1 DEF IndexInOrder
    <3> QED BY <1>1, <1>5, <3>2
  <2>2. CASE ~ (q < d.next)
    <3>1. q - d.next \in 0 .. total - 1 /\ q = d.next + (q - d.next)
      BY <1>1, <1>6, <2>2
    <3>2. PICK r \in batch : \E k \in 0 .. n(r) - 1 : q - d.next = A(r) + k
      BY <1>6, <3>1
    <3>3. PICK k \in 0 .. n(r) - 1 : q - d.next = A(r) + k
      BY <3>2
    <3> DEFINE i == Infoset(r)
    <3>4. i \in New
      BY DEF New
    <3>5. R(i) = r
      BY <1>0, <1>2, <3>4
    <3> HIDE DEF i
    <3>6. k \in PageIn(e.row[i]) /\ i \in Rows(e)
      BY <1>1, <1>4, <3>4, <3>5
    <3>7. q = e.row[i].first + k
      BY <1>8, <3>1, <3>3, <3>4, <3>5, <3>6
    <3> QED BY <3>6, <3>7
  <2> QED BY <2>1, <2>2
<1>12. e.next \in Nat \ {0}
  BY <1>1, <1>6
<1>13. IndexInOrder(e)
  BY <1>7, <1>10, <1>11, <1>12 DEF IndexInOrder
<1>14. RowsKept(d, e)
  BY <1>1 DEF RowsKept
<1> QED BY <1>13, <1>14 DEF e

\* The index of a new file.
LEMMA EmptyInOrder ==
  ASSUME NEW d, d = [row |-> [i \in {} |-> 0], next |-> 1]
  PROVE  IndexInOrder(d)
PROOF BY DEF IndexInOrder, Rows

\* Every call keeps the index in order and the committed rows in place: the
\* store may publish a batch and throw, and the object is then reopened.
LEMMA IndexStep ==
  ASSUME RowAssumption, IndexInvariant, [RowIndexNext]_rowVars
  PROVE  IndexInvariant' /\ CommittedRowsStep
PROOF
<1>0. /\ IndexInOrder(durable) /\ IndexInOrder(row_base) /\ RowsKept(row_base, durable)
      /\ phase # "failed" => opened = durable.next
  BY DEF IndexInvariant
<1>1. ASSUME NEW batch \in SUBSET Shapes, Appendable(batch), phase = "batch"
      PROVE  /\ IndexInOrder(Extended(durable, opened, batch))
             /\ RowsKept(durable, Extended(durable, opened, batch))
  <2>1. IsBatch(batch) /\ \A r \in batch : Infoset(r) \notin Rows(durable)
    BY <1>1 DEF Appendable, IsBatch
  <2> QED BY <1>0, <1>1, <2>1, ExtendedInOrder
<1>2. ASSUME NEW batch \in SUBSET Shapes, AppendRows(batch)
      PROVE  IndexInvariant' /\ CommittedRowsStep
  <2>1. /\ phase = "batch" /\ Appendable(batch) /\ durable' = Extended(durable, opened, batch)
        /\ opened' = durable'.next /\ row_base' = row_base
    BY <1>2 DEF AppendRows
  <2>2. IndexInOrder(durable') /\ RowsKept(durable, durable')
    BY <1>1, <2>1
  <2>3. RowsKept(row_base, durable')
    BY <1>0, <2>2 DEF RowsKept
  <2> QED BY <1>0, <2>1, <2>2, <2>3 DEF IndexInvariant, CommittedRowsStep, RowsKept, IndexInOrder, Rows
<1>3. ASSUME NEW batch \in SUBSET Shapes, NEW published \in BOOLEAN, AppendRowsThrows(batch, published)
      PROVE  IndexInvariant' /\ CommittedRowsStep
  <2>1. /\ phase = "batch" /\ Appendable(batch) /\ phase' = "failed" /\ row_base' = row_base
        /\ durable' = IF published THEN Extended(durable, opened, batch) ELSE durable
    BY <1>3 DEF AppendRowsThrows
  <2>2. IndexInOrder(durable') /\ RowsKept(durable, durable')
    BY <1>0, <1>1, <2>1 DEF RowsKept
  <2>3. RowsKept(row_base, durable')
    BY <1>0, <2>2 DEF RowsKept
  <2> QED BY <1>0, <2>1, <2>2, <2>3 DEF IndexInvariant, CommittedRowsStep, RowsKept, IndexInOrder, Rows
<1>4. CASE BeginRowBatch \/ CommitRowBatch
  <2>1. row_base' = durable /\ durable' = durable /\ opened' = opened /\ phase # "failed"
    BY <1>4 DEF BeginRowBatch, CommitRowBatch
  <2> QED BY <1>0, <2>1 DEF IndexInvariant, CommittedRowsStep, RowsKept, IndexInOrder, Rows
<1>5. CASE RowBatchFails
  BY <1>0, <1>5 DEF RowBatchFails, IndexInvariant, CommittedRowsStep, RowsKept, IndexInOrder, Rows
<1>6. CASE AbortRowBatch
  BY <1>0, <1>6 DEF AbortRowBatch, Reopened, IndexInvariant, CommittedRowsStep, RowsKept, IndexInOrder, Rows
<1>7. CASE UNCHANGED rowVars
  BY <1>0, <1>7 DEF rowVars, IndexInvariant, CommittedRowsStep, RowsKept, IndexInOrder, Rows
<1> QED BY <1>2, <1>3, <1>4, <1>5, <1>6, <1>7 DEF RowIndexNext

\* Every bucket has a cell of its own.
LEMMA IndexIsSound ==
  ASSUME RowAssumption, IndexInvariant
  PROVE  RowIndexSound
PROOF
<1> DEFINE row(c) == durable.row[c[1]]
           at(c) == LocateBucket(row(c), c[2])
           W == PageWidth
<1>0. IndexInOrder(durable) /\ W \in Nat \ {0}
  BY DEF IndexInvariant, RowAssumption
<1>1. ASSUME NEW c \in Cells
      PROVE  /\ c[1] \in Rows(durable) /\ c[2] \in 0 .. row(c).buckets - 1 /\ c = <<c[1], c[2]>>
             /\ row(c).buckets \in Nat \ {0} /\ row(c).first \in Nat \ {0} /\ c[2] \in Nat
  <2>1. c[1] \in Rows(durable) /\ c[2] \in 0 .. row(c).buckets - 1 /\ c = <<c[1], c[2]>>
    BY DEF Cells
  <2>2. row(c).buckets \in Nat \ {0} /\ row(c).first \in Nat \ {0}
    BY <1>0, <2>1 DEF IndexInOrder
  <2> QED BY <2>1, <2>2
<1>2. \A c : at(c).page = row(c).first + (c[2] \div W) /\ at(c).slot = c[2] % W
             /\ at(c).width = BucketsOfPage(row(c), c[2] \div W)
  BY DEF LocateBucket
<1>3. ASSUME NEW c \in Cells
      PROVE  /\ c[2] \div W \in PageIn(row(c)) /\ c[2] \div W \in Nat
             /\ c[2] % W \in 0 .. W - 1 /\ c[2] = (c[2] \div W) * W + (c[2] % W)
  <2>1. c[2] \in 0 .. row(c).buckets - 1 /\ row(c).buckets \in Nat \ {0}
    BY <1>1
  <2>2. /\ RowPageCount(row(c)) \in Nat \ {0}
        /\ c[2] \div W \in 0 .. RowPageCount(row(c)) - 1
        /\ c[2] % W \in 0 .. W - 1 /\ c[2] = (c[2] \div W) * W + (c[2] % W)
    BY <2>1, RowPages
  <2> QED BY <2>2 DEF PageIn
<1> HIDE DEF row, at, W
<1>4. ASSUME NEW c \in Cells, NEW d \in Cells, at(c).page = at(d).page
      PROVE  c[1] = d[1] /\ (at(c).slot = at(d).slot => c = d)
  <2>1. row(c).first + (c[2] \div W) = row(d).first + (d[2] \div W)
    BY <1>2, <1>4
  <2>2. c[1] = d[1]
    <3>1. /\ c[1] \in Rows(durable) /\ d[1] \in Rows(durable)
          /\ c[2] \div W \in PageIn(durable.row[c[1]]) /\ d[2] \div W \in PageIn(durable.row[d[1]])
          /\ durable.row[c[1]].first + (c[2] \div W) = durable.row[d[1]].first + (d[2] \div W)
      BY <1>1, <1>3, <2>1 DEF row
    <3> QED BY <1>0, <3>1 DEF IndexInOrder
  <2>3. row(c).first = row(d).first
    BY <2>2 DEF row
  <2>4. c[2] \div W = d[2] \div W
    <3>1. row(c).first \in Nat /\ c[2] \div W \in Nat /\ d[2] \div W \in Nat
      BY <1>1, <1>3
    <3> DEFINE x == c[2] \div W
               y == d[2] \div W
               f == row(c).first
    <3>2. f + x = f + y /\ f \in Nat /\ x \in Nat /\ y \in Nat
      BY <2>1, <2>3, <3>1
    <3> HIDE DEF x, y, f
    <3>3. x = y
      BY <3>2
    <3> QED BY <3>3 DEF x, y
  <2>5. ASSUME at(c).slot = at(d).slot PROVE c = d
    <3>1. c[2] % W = d[2] % W
      BY <1>2, <2>5
    <3>2. c[2] = (c[2] \div W) * W + (c[2] % W) /\ d[2] = (d[2] \div W) * W + (d[2] % W)
      BY <1>3
    <3>3. c[2] = d[2]
      BY <2>4, <3>1, <3>2, Zenon
    <3> QED BY <1>1, <2>2, <3>3
  <2> QED BY <2>2, <2>5
<1>5. ASSUME NEW c \in Cells PROVE at(c).slot < at(c).width
  <2> DEFINE p == c[2] \div W
             t == c[2] % W
             B == row(c).buckets
  <2>1. p \in Nat /\ t \in 0 .. W - 1 /\ c[2] = p * W + t /\ c[2] \in 0 .. B - 1 /\ B \in Nat \ {0}
    BY <1>1, <1>3
  <2>2. at(c).slot = t /\ at(c).width = IF (p + 1) * W <= B THEN W ELSE B - p * W
    BY <1>2 DEF BucketsOfPage, W
  <2> HIDE DEF p, t, B
  <2>3. p * W \in Nat
    BY <1>0, <2>1
  <2>4. t < W /\ t < B - p * W
    BY <1>0, <2>1, <2>3
  <2> QED BY <2>2, <2>4
<1>6. {at(c).page : c \in Cells} = 1 .. durable.next - 1
  <2>1. ASSUME NEW c \in Cells PROVE at(c).page \in 1 .. durable.next - 1
    <3>1. /\ c[1] \in Rows(durable) /\ c[2] \div W \in PageIn(durable.row[c[1]])
          /\ c[2] \div W \in Nat /\ durable.row[c[1]].first \in Nat \ {0}
      BY <1>1, <1>3 DEF row
    <3>2. durable.row[c[1]].first + (c[2] \div W) < durable.next /\ durable.next \in Nat
      BY <1>0, <3>1 DEF IndexInOrder
    <3>3. at(c).page = durable.row[c[1]].first + (c[2] \div W)
      BY <1>2 DEF row
    <3> DEFINE x == c[2] \div W
               f == durable.row[c[1]].first
    <3>4. x \in Nat /\ f \in Nat \ {0} /\ f + x < durable.next /\ durable.next \in Nat /\ at(c).page = f + x
      BY <3>1, <3>2, <3>3
    <3> HIDE DEF x, f
    <3> QED BY <3>4
  <2>2. ASSUME NEW q \in 1 .. durable.next - 1 PROVE \E c \in Cells : at(c).page = q
    <3>1. PICK i \in Rows(durable) : \E k \in PageIn(durable.row[i]) : q = durable.row[i].first + k
      BY <1>0 DEF IndexInOrder
    <3>2. PICK k \in PageIn(durable.row[i]) : q = durable.row[i].first + k
      BY <3>1
    <3> DEFINE c == <<i, k * W>>
    <3>3. k * W \in 0 .. durable.row[i].buckets - 1 /\ (k * W) \div W = k
      <4>1. durable.row[i].buckets \in Nat \ {0}
        BY <1>0 DEF IndexInOrder
      <4> QED BY <4>1, RowPages DEF PageIn, W
    <3>4. c \in Cells
      BY <3>3 DEF Cells
    <3>5. row(c) = durable.row[i] /\ c[2] = k * W
      BY DEF row
    <3>6. at(c).page = q
      BY <1>2, <3>2, <3>3, <3>5
    <3> QED BY <3>4, <3>6
  <2> HIDE DEF at
  <2> QED BY <2>1, <2>2
<1>7. CellsDisjoint
  <2>1. \A c : at(c) = LocateBucket(durable.row[c[1]], c[2])
    BY DEF at, row
  <2> QED BY <1>4, <1>5, <1>6, <2>1 DEF CellsDisjoint
<1>8. AllocatorAgrees
  BY DEF AllocatorAgrees, IndexInvariant
<1> QED BY <1>7, <1>8 DEF RowIndexSound

\* The inductive invariant: both generations are in order, the published one has
\* the rows of the one the batch started from, and the object agrees with it.
THEOREM IndexInvariance == ASSUME RowAssumption PROVE RowIndexSpec => []IndexInvariant
PROOF
<1>1. RowIndexInit => IndexInvariant
  <2> SUFFICES ASSUME RowIndexInit PROVE IndexInvariant
    OBVIOUS
  <2>1. durable = [row |-> [i \in {} |-> 0], next |-> 1] /\ row_base = durable /\ opened = 1
    BY DEF RowIndexInit
  <2>2. IndexInOrder(durable) /\ durable.next = 1
    BY <2>1, EmptyInOrder
  <2> QED BY <2>1, <2>2 DEF IndexInvariant, RowsKept, Rows
<1>2. IndexInvariant /\ [RowIndexNext]_rowVars => IndexInvariant'
  BY IndexStep
<1> QED BY <1>1, <1>2, PTL DEF RowIndexSpec

\* For every page width and every set of rows: no two rows share a page, no two
\* buckets a cell, page ids are handed out without gaps, and after any failed
\* append and reopening the next append starts at the published allocator.
THEOREM EveryBucketItsCell == ASSUME RowAssumption PROVE RowIndexSpec => []RowIndexSound
PROOF
<1>1. IndexInvariant => RowIndexSound
  BY IndexIsSound
<1> QED BY <1>1, IndexInvariance, PTL

\* For every page width and every set of rows: a row of a committed batch keeps
\* its pages, whatever later batches append, fail or take back.
THEOREM CommittedRowsAreKept == ASSUME RowAssumption PROVE RowIndexSpec => CommittedRowsStay
PROOF
<1>1. IndexInvariant /\ [RowIndexNext]_rowVars => [CommittedRowsStep]_rowVars
  BY IndexStep
<1> QED BY <1>1, IndexInvariance, PTL DEF RowIndexSpec, CommittedRowsStay
=============================================================================
