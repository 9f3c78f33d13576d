---------------------------- MODULE PublicCatalog ----------------------------
(***************************************************************************)
(* The packed catalog of public states in memory (multiway_public_catalog  *)
(* .cpp) and its external counterpart (multiway_external_public_catalog    *)
(* .cpp), given the same admissions.  A node keeps its parent, the edge it *)
(* was reached by and a handle of its menu; the history of a state is not  *)
(* kept but rebuilt from the betting edges of its ancestors.  Menus are    *)
(* pooled: two states share a menu when their keys and the menus agree,    *)
(* and different menus may have one key.                                   *)
(***************************************************************************)
EXTENDS Naturals, Sequences, FiniteSets, TLC

CONSTANTS
  Descriptors,    \* [id, parent, kind, action, menu, history] that may be admitted
  MenuKey(_),     \* canonical_menu_id of a menu
  MaxNodes,       \* max_nodes_
  MaxAncestry     \* maximum_ancestry_depth_ of the external catalog

VARIABLES
  nodes,       \* nodes_: [id, parent, kind, action, menu_handle]
  id_index,    \* index_: [id, node_index] by id
  menus,       \* menus_
  menu_index,  \* menu_index_: [key, handle] by key, then handle
  records,     \* the external catalog: id -> [node, menu]
  admitted     \* history: id -> the descriptor admitted first

catalogVars == <<nodes, id_index, menus, menu_index, records, admitted>>

-----------------------------------------------------------------------------
IndexLess(a, b) == a.id < b.id
MenuIndexLess(a, b) == a.key < b.key \/ (a.key = b.key /\ a.handle < b.handle)

\* Positions of the entries with a key: lower_bound .. upper_bound.
Hits(mindex, key) == {i \in DOMAIN mindex : mindex[i].key = key}

\* find_menu_by_key: the handle of an equal menu among those of its key
\* (mutant: the first entry of the key is taken without comparing).
FindMenuByKeyOnly(pool, mindex, menu) ==
  LET hits == Hits(mindex, MenuKey(menu))
  IN  IF hits = {} THEN 0 ELSE mindex[CHOOSE i \in hits : \A j \in hits : i <= j].handle
FindMenuByKey(pool, mindex, menu) ==
  LET equal == {i \in Hits(mindex, MenuKey(menu)) : pool[mindex[i].handle] = menu}
  IN  IF equal = {} THEN 0 ELSE mindex[CHOOSE i \in equal : \A j \in equal : i <= j].handle

\* node(id), by binary search in the index.
Node(id) ==
  LET found == {i \in DOMAIN id_index : id_index[i].id = id}
  IN  IF found = {} THEN 0 ELSE id_index[CHOOSE i \in found : TRUE].node_index

Contains(id) == Node(id) # 0

\* pack_node drops the history and keeps the acting edge of a betting action.
PackNode(d, handle) ==
  [id |-> d.id, parent |-> d.parent, kind |-> d.kind,
   action |-> IF d.kind = "bet" THEN d.action ELSE 0, menu_handle |-> handle]

\* Appending one menu to the pool and to the index kept sorted.
WithMenu(pool, mindex, menu) ==
  [pool |-> Append(pool, menu),
   mindex |-> SortSeq(Append(mindex, [key |-> MenuKey(menu), handle |-> Len(pool) + 1]),
                      MenuIndexLess)]

\* The menus a batch resolves in order, the pending ones first: the pool and
\* the index grow as if they were already appended (mutant: the pending menus
\* of the batch are not searched).
ResolveIgnoringPending(pool, mindex, batch) ==
  LET fresh == {i \in DOMAIN batch : FindMenuByKey(pool, mindex, batch[i].menu) = 0}
      rank(i) == Cardinality({j \in fresh : j <= i})
      entry == [n \in 1 .. Cardinality(fresh) |->
                  batch[CHOOSE i \in fresh : rank(i) = n].menu]
  IN  [pool |-> pool \o entry,
       mindex |-> SortSeq(mindex \o [n \in DOMAIN entry |->
                            [key |-> MenuKey(entry[n]), handle |-> Len(pool) + n]],
                          MenuIndexLess)]
ResolveMenus(pool, mindex, batch) ==
  LET step[n \in 0 .. Len(batch)] ==
        IF n = 0 THEN [pool |-> pool, mindex |-> mindex]
        ELSE LET r == step[n - 1]
             IN  IF FindMenuByKey(r.pool, r.mindex, batch[n].menu) # 0 THEN r
                 ELSE WithMenu(r.pool, r.mindex, batch[n].menu)
  IN  step[Len(batch)]

\* The new nodes take the next positions; the two sorted indexes are merged.
Reindexed(batch) ==
  SortSeq(id_index \o [n \in DOMAIN batch |-> [id |-> batch[n].id, node_index |-> Len(nodes) + n]],
          IndexLess)

ById(ds) == SortSeq([n \in 1 .. Cardinality(ds) |->
                       CHOOSE d \in ds : Cardinality({e \in ds : e.id <= d.id}) = n], IndexLess)

\* The external catalog stores the node and the whole menu under the id.
ExternalRecord(d) == [node |-> PackNode(d, 0), menu |-> d.menu]
ExternalAppend(batch) ==
  [id \in DOMAIN records \cup {batch[n].id : n \in DOMAIN batch} |->
     IF id \in DOMAIN records THEN records[id]
     ELSE ExternalRecord(batch[CHOOSE n \in DOMAIN batch : batch[n].id = id])]

-----------------------------------------------------------------------------
CatalogInit ==
  /\ nodes = <<>> /\ id_index = <<>> /\ menus = <<>> /\ menu_index = <<>>
  /\ records = [id \in {} |-> 0]
  /\ admitted = [id \in {} |-> 0]

Remember(ds) ==
  admitted' = [id \in DOMAIN admitted \cup {d.id : d \in ds} |->
                 IF id \in DOMAIN admitted THEN admitted[id] ELSE CHOOSE d \in ds : d.id = id]

\* admit: one state, when its parent is there (admit_public_state).
Admit(d) ==
  LET found == FindMenuByKey(menus, menu_index, d.menu)
      r == IF found # 0 THEN [pool |-> menus, mindex |-> menu_index]
           ELSE WithMenu(menus, menu_index, d.menu)
      handle == IF found # 0 THEN found ELSE Len(menus) + 1
  IN  /\ ~Contains(d.id)
      /\ Len(nodes) < MaxNodes
      /\ d.parent = 0 \/ Contains(d.parent)
      /\ menus' = r.pool
      /\ menu_index' = r.mindex
      /\ nodes' = Append(nodes, PackNode(d, handle))
      /\ id_index' = Reindexed(<<d>>)
      /\ records' = ExternalAppend(<<d>>)
      /\ Remember({d})

\* admit_batch of the states that classify_new_states marks as new, sorted by
\* id: a child may precede its parent in nodes_.
AdmitBatch(ds) ==
  LET batch == ById(ds)
      r == ResolveMenus(menus, menu_index, batch)
  IN  /\ Cardinality(ds) > 1
      /\ \A d, e \in ds : d.id = e.id => d = e
      /\ \A d \in ds : ~Contains(d.id)
      /\ \A d \in ds : d.parent = 0 \/ Contains(d.parent) \/ \E e \in ds : e.id = d.parent
      /\ Cardinality(ds) <= MaxNodes - Len(nodes)
      /\ menus' = r.pool
      /\ menu_index' = r.mindex
      /\ nodes' = nodes \o [n \in DOMAIN batch |->
                              PackNode(batch[n], FindMenuByKey(r.pool, r.mindex, batch[n].menu))]
      /\ id_index' = Reindexed(batch)
      /\ records' = ExternalAppend(batch)
      /\ Remember(ds)

CatalogNext ==
  \/ \E d \in Descriptors : Admit(d)
  \/ \E ds \in SUBSET Descriptors : AdmitBatch(ds)

-----------------------------------------------------------------------------
(* Rebuilding a descriptor. *)

\* The ancestors of a node from itself up to the root, at most bound of them.
Ancestry(Lookup(_), id, bound) ==
  LET chain[n \in 0 .. bound] ==
        IF n = 0 THEN <<>>
        ELSE LET c == chain[n - 1]
                 next == IF c = <<>> THEN id ELSE c[Len(c)].parent
             IN  IF next = 0 THEN c ELSE Append(c, Lookup(next))
  IN  chain[bound]

Complete(chain) == chain # <<>> /\ chain[Len(chain)].parent = 0

\* The betting edges of the ancestors, root first.
HistoryOf(chain) ==
  LET bets == {i \in DOMAIN chain : chain[i].kind = "bet"}
      nth(n) == CHOOSE i \in bets : Cardinality({j \in bets : j >= i}) = n
  IN  [n \in 1 .. Cardinality(bets) |-> chain[nth(n)].action]

InMemoryNode(id) == nodes[Node(id)]
ExternalNode(id) == records[id].node

Described(node, menu, chain) ==
  [id |-> node.id, parent |-> node.parent, kind |-> node.kind, action |-> node.action,
   menu |-> menu, history |-> HistoryOf(chain)]

\* reconstruct of the two catalogs.
Reconstruct(id) ==
  Described(InMemoryNode(id), menus[InMemoryNode(id).menu_handle],
            Ancestry(InMemoryNode, id, Len(nodes)))
ExternalReconstruct(id) ==
  Described(ExternalNode(id), records[id].menu, Ancestry(ExternalNode, id, MaxAncestry))

\* compatible_with_descriptor: does a later candidate describe the same state
\* (mutant: the parent must be the same, whatever the edge)?
CompatibleSameParent(d) ==
  LET here == Reconstruct(d.id)
  IN  here.menu = d.menu /\ here.history = d.history /\ here.parent = d.parent
CompatibleWithDescriptor(d) ==
  LET here == Reconstruct(d.id)
      chance == here.kind = "chance" /\ d.kind = "chance"
  IN  /\ here.menu = d.menu
      /\ here.history = d.history
      /\ here.parent = d.parent \/ chance
      /\ (here.kind = d.kind /\ here.action = d.action) \/ chance

-----------------------------------------------------------------------------
\* The index finds every node and nothing else, in the order of the ids, and
\* the menu index has one entry per pooled menu; no two pooled menus are equal.
IndexesSound ==
  /\ Len(id_index) = Len(nodes)
  /\ \A i \in DOMAIN id_index : /\ nodes[id_index[i].node_index].id = id_index[i].id
                                /\ i > 1 => id_index[i - 1].id < id_index[i].id
  /\ {menu_index[i].handle : i \in DOMAIN menu_index} = DOMAIN menus
  /\ \A i \in DOMAIN menu_index : /\ menu_index[i].key = MenuKey(menus[menu_index[i].handle])
                                  /\ i > 1 => MenuIndexLess(menu_index[i - 1], menu_index[i])
  /\ \A h, k \in DOMAIN menus : menus[h] = menus[k] => h = k

\* Both catalogs rebuild exactly the descriptor that was admitted, with its
\* history, although neither stores it and a batch appends children first.
ReconstructExact ==
  \A id \in DOMAIN admitted :
    /\ Contains(id)
    /\ Complete(Ancestry(InMemoryNode, id, Len(nodes)))
    /\ Reconstruct(id) = admitted[id]
    /\ ExternalReconstruct(id) = admitted[id]

\* A state met again by another trajectory is recognised, also when it was
\* admitted under another parent by a chance edge.
LaterCandidatesRecognised ==
  \A d \in Descriptors : Contains(d.id) => CompatibleWithDescriptor(d)

\* Both catalogs find, rebuild and recognise every admitted state.
CatalogSound == IndexesSound /\ ReconstructExact /\ LaterCandidatesRecognised
=============================================================================
