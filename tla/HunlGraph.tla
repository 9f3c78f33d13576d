------------------------------ MODULE HunlGraph ------------------------------
(* The solve graph of a heads-up game: HUNLTree::build as a recursion, and      *)
(* HUNLFlatBuilder::build as its loop over a stack of frames, the topological   *)
(* order, the slices by depth and their worker ranges.                          *)
EXTENDS HunlRules

CONSTANTS
  Configs,   \* with depth_limit, bucketed and class (the suit class of a card)
  Chunks     \* worker ranges of a slice
VARIABLES cfg, graph, stack, order
vars == <<cfg, graph, stack, order>>

-----------------------------------------------------------------------------
(* Children of a state. *)

Cards(c, s) == SetToSortSeq(ChanceOutcomes(c, s), <)
Children(c, s) ==
  IF s.cur_player = -1
  THEN [i \in 1 .. Len(Cards(c, s)) |-> ApplyChance(s, Cards(c, s)[i])]
  ELSE [i \in 1 .. Len(LegalActions(c, s)) |-> ApplyPlayer(c, s, LegalActions(c, s)[i])]

\* MemoKey::from_state compares every field: chips, streets, histories, board, turn.
MemoKey(s) == s
Found(nodes, s) == \E i \in 1 .. Len(nodes) : MemoKey(nodes[i].state) = MemoKey(s)

\* HUNLTree::build_node: nodes are numbered when they are first met, children after it.
RECURSIVE BuildNode(_, _, _, _)
RECURSIVE BuildAll(_, _, _, _)
BuildNode(c, s, depth, nodes) ==
  LET leaf == IsTerminal(s)
      limited == ~leaf /\ c.depth_limit # 0 /\ depth >= c.depth_limit
      added == Append(nodes, [state |-> s, limited |-> limited]) IN
  IF Found(nodes, s) THEN nodes
  ELSE IF leaf \/ limited THEN added
  ELSE BuildAll(c, Children(c, s), depth + 1, added)
BuildAll(c, children, depth, nodes) ==
  IF children = <<>> THEN nodes
  ELSE BuildAll(c, Tail(children), depth, BuildNode(c, Head(children), depth, nodes))
Tree(c) == BuildAll(c, <<Initial(c)>>, 0, <<>>)

-----------------------------------------------------------------------------
(* The flat builder. *)

\* can_collapse_public_chance: one outcome stands for its class.
CanCollapse(c, s) ==
  c.bucketed /\ s.cur_player = -1 /\ s.pending = 1 /\ s.street \in {Turn, River}
Outcomes(c, s) ==
  LET cards == Cards(c, s)
      first == SelectSeq(cards, LAMBDA card : \A other \in ToSet(cards) :
                 other < card => c.class[other] # c.class[card])
      ClassSize(card) == Cardinality({other \in ToSet(cards) : c.class[other] = c.class[card]}) IN
  IF CanCollapse(c, s)
  THEN [i \in 1 .. Len(first) |-> [card |-> first[i], weight |-> ClassSize(first[i])]]
  ELSE [i \in 1 .. Len(cards) |-> [card |-> cards[i], weight |-> 1]]

\* HUNLFlatBuilderMemoKey::from_state: every field again.
FlatMemoKey(s) == s
Node(s, depth) ==
  [state |-> s, type |-> "new", depth |-> depth, actions |-> <<>>, outcomes |-> <<>>,
   children |-> <<>>, infoset |-> 0]
Frame(node) == [node |-> node, next |-> 0]

\* The street is enough (mutant: nodes of several histories share their infoset).
FlatKeyByStreet(c, s) == [hole |-> c.holes[s.cur_player], board |-> ToSet(s.board), street |-> s.street, history |-> <<>>]
\* make_flat_infoset_key.
FlatKey(c, s) == InfosetKey(c, s, s.cur_player)

\* HUNLFlatSolveGraph::build over the tree: the infosets are numbered by their first node.
FlatOf(c, tree, slots) ==
  LET Index(s) == CHOOSE i \in 1 .. Len(tree) : tree[i].state = s
      Type(i) == LET s == tree[i].state IN
                 CASE tree[i].limited -> "limited"
                   [] s.folded[0] \/ s.folded[1] -> "fold"
                   [] s.street = Showdown -> "showdown"
                   [] s.cur_player = -1 /\ slots[i] # <<>> -> "chance"
                   [] OTHER -> "decision"
      decisions == {i \in 1 .. Len(tree) : Type(i) = "decision"}
      key == [i \in decisions |-> FlatKey(c, tree[i].state)]
      FirstOf(i) == Min({j \in decisions : key[j] = key[i]})
      Infoset(i) == Cardinality({FirstOf(j) : j \in {k \in decisions : FirstOf(k) <= FirstOf(i)}}) IN
  [i \in 1 .. Len(tree) |->
     [state |-> tree[i].state, type |-> Type(i), infoset |-> IF i \in decisions THEN Infoset(i) ELSE 0,
      children |-> [slot \in 1 .. Len(slots[i]) |-> Index(slots[i][slot])]]]
FlatOfTree(c) ==
  LET tree == Tree(c)
      Slots(node) == IF IsTerminal(node.state) \/ node.limited THEN <<>> ELSE Children(c, node.state)
  IN FlatOf(c, tree, [i \in 1 .. Len(tree) |-> Slots(tree[i])])

Init ==
  /\ cfg \in {c \in Configs : Validate(c)}
  /\ graph = [nodes |-> <<Node(Initial(cfg), 0)>>, keys |-> <<>>, error |-> FALSE]
  /\ stack = <<Frame(1)>>
  /\ order = [pc |-> "build", ready |-> <<>>, indegree |-> <<>>, forward |-> <<>>, depths |-> <<>>,
              depth_order |-> <<>>, slices |-> <<>>, ranges |-> <<>>]

Top == Last(stack)
TopNode == graph.nodes[Top.node]
Classified(type) == graph' = [graph EXCEPT !.nodes[Top.node].type = type]
Limited == cfg.depth_limit # 0 /\ TopNode.depth >= cfg.depth_limit

\* A frame is met: a terminal or limited node is left at once.
Leaf ==
  /\ stack # <<>> /\ TopNode.type = "new" /\ (IsTerminal(TopNode.state) \/ Limited)
  /\ Classified(IF ~IsTerminal(TopNode.state) THEN "limited"
                ELSE IF TopNode.state.folded[0] \/ TopNode.state.folded[1] THEN "fold" ELSE "showdown")
  /\ stack' = Front(stack) /\ UNCHANGED <<cfg, order>>
Inner(node) == node.type = "new" /\ ~IsTerminal(node.state) /\ ~Limited
OpenChance ==
  /\ stack # <<>> /\ Inner(TopNode) /\ TopNode.state.cur_player = -1
  /\ LET outcomes == Outcomes(cfg, TopNode.state) IN
     graph' = [graph EXCEPT !.nodes[Top.node].type = "chance", !.nodes[Top.node].outcomes = outcomes,
                            !.nodes[Top.node].children = [i \in 1 .. Len(outcomes) |-> 0]]
  /\ UNCHANGED <<cfg, stack, order>>
\* A decision joins the infoset of its key, which must have as many actions.
OpenDecision ==
  /\ stack # <<>> /\ Inner(TopNode) /\ TopNode.state.cur_player # -1
  /\ LET actions == LegalActions(cfg, TopNode.state)
         key == FlatKey(cfg, TopNode.state)
         known == {i \in 1 .. Len(graph.keys) : graph.keys[i].key = key}
         id == IF known = {} THEN Len(graph.keys) + 1 ELSE CHOOSE i \in known : TRUE
         agrees == known = {} \/ /\ graph.keys[id].actions = Len(actions)
                                 /\ graph.keys[id].player = TopNode.state.cur_player IN
     graph' = [graph EXCEPT
       !.error = @ \/ ~agrees \/ actions = <<>>,
       !.keys = IF known # {} THEN @
                ELSE Append(@, [key |-> key, actions |-> Len(actions), player |-> TopNode.state.cur_player]),
       !.nodes[Top.node].type = "decision", !.nodes[Top.node].actions = actions,
       !.nodes[Top.node].children = [i \in 1 .. Len(actions) |-> 0], !.nodes[Top.node].infoset = id]
  /\ UNCHANGED <<cfg, stack, order>>

\* The next child, by action or by card, is found or made, and then built before its siblings.
ChildState ==
  LET slot == Top.next + 1 IN
  IF TopNode.type = "chance" THEN ApplyChance(TopNode.state, TopNode.outcomes[slot].card)
  ELSE ApplyPlayer(cfg, TopNode.state, TopNode.actions[slot])
VisitChild(s) ==
  /\ LET known == {i \in 1 .. Len(graph.nodes) : FlatMemoKey(graph.nodes[i].state) = FlatMemoKey(s)}
         index == IF known = {} THEN Len(graph.nodes) + 1 ELSE CHOOSE i \in known : TRUE
         moved == [stack EXCEPT ![Len(stack)].next = @ + 1] IN
     /\ graph' = [graph EXCEPT !.nodes = (IF known = {} THEN Append(@, Node(s, TopNode.depth + 1)) ELSE @),
                               !.nodes[Top.node].children[Top.next + 1] = index]
     /\ stack' = IF known = {} THEN Append(moved, Frame(index)) ELSE moved
  /\ UNCHANGED <<cfg, order>>
Visit ==
  /\ stack # <<>> /\ TopNode.type \in {"chance", "decision"} /\ Top.next < Len(TopNode.children)
  /\ VisitChild(ChildState)
Leave ==
  /\ stack # <<>> /\ TopNode.type \in {"chance", "decision"} /\ Top.next = Len(TopNode.children)
  /\ stack' = Front(stack) /\ UNCHANGED <<cfg, graph, order>>

-----------------------------------------------------------------------------
(* finalize_graph. *)

Nodes == 1 .. Len(graph.nodes)
Edges == {<<parent, slot>> \in Nodes \X (1 .. 20) : slot <= Len(graph.nodes[parent].children)}
ChildOf(edge) == graph.nodes[edge[1]].children[edge[2]]

StartOrder ==
  /\ stack = <<>> /\ order.pc = "build"
  /\ LET indegree == [n \in Nodes |-> Cardinality({e \in Edges : ChildOf(e) = n})] IN
     order' = [order EXCEPT !.pc = "order", !.indegree = indegree, !.depths = [n \in Nodes |-> 0],
                            !.ready = SelectSeq([n \in Nodes |-> n], LAMBDA n : indegree[n] = 0)]
  /\ UNCHANGED <<cfg, graph, stack>>
\* The first ready node; its children become ready when it was their last parent.
PopReady ==
  /\ order.pc = "order" /\ order.ready # <<>>
  /\ LET node == Head(order.ready)
         children == graph.nodes[node].children
         Count(n) == Cardinality({i \in 1 .. Len(children) : children[i] = n})
         indegree == [n \in Nodes |-> order.indegree[n] - Count(n)]
         freed == SelectSeq(children, LAMBDA n : indegree[n] = 0) IN
     order' = [order EXCEPT
       !.ready = Tail(@) \o freed, !.indegree = indegree, !.forward = Append(@, node),
       !.depths = [n \in Nodes |-> IF Count(n) > 0 THEN Max({@[n], @[node] + 1}) ELSE @[n]]]
  /\ UNCHANGED <<cfg, graph, stack>>

\* make_ranges_for_slice without the remainder (mutant).
RangesForEven(begin, count) ==
  LET target == Max({1, Min({count, Chunks})}) IN
  IF count = 0 THEN <<>>
  ELSE [i \in 1 .. target |-> <<begin + (i - 1) * (count \div target), begin + i * (count \div target)>>]
\* make_ranges_for_slice: half-open ranges, the remainder over the first of them.
RangesFor(begin, count) ==
  LET target == Max({1, Min({count, Chunks})})
      Width(i) == (count \div target) + (IF i <= count % target THEN 1 ELSE 0)
      From(i) == begin + (i - 1) * (count \div target) + Min({i - 1, count % target}) IN
  IF count = 0 THEN <<>> ELSE [i \in 1 .. target |-> <<From(i), From(i) + Width(i)>>]

Slice ==
  /\ order.pc = "order" /\ order.ready = <<>>
  /\ LET depth == 1 + Max(Range(order.depths))
         OfDepth(d) == SelectSeq(order.forward, LAMBDA n : order.depths[n] = d - 1)
         begins[d \in 1 .. depth] == IF d = 1 THEN 0 ELSE begins[d - 1] + Len(OfDepth(d - 1)) IN
     order' = [order EXCEPT
       !.pc = IF Len(order.forward) = Len(graph.nodes) THEN "done" ELSE "cyclic",
       !.depth_order = FlattenSeq([d \in 1 .. depth |-> OfDepth(d)]),
       !.slices = [d \in 1 .. depth |-> <<begins[d], Len(OfDepth(d))>>],
       !.ranges = [d \in 1 .. depth |-> RangesFor(begins[d], Len(OfDepth(d)))]]
  /\ UNCHANGED <<cfg, graph, stack>>

GraphInit == Init
GraphNext ==
  \/ Leaf \/ OpenChance \/ OpenDecision \/ Visit \/ Leave \/ StartOrder \/ PopReady \/ Slice

-----------------------------------------------------------------------------
State(n) == graph.nodes[n].state
Position(n) == CHOOSE i \in 1 .. Len(order.forward) : order.forward[i] = n
RECURSIVE Ancestors(_)
Ancestors(n) ==
  LET parents == {e[1] : e \in {f \in Edges : ChildOf(f) = n}} IN
  parents \cup UNION {Ancestors(p) : p \in parents}
Covered(d) == UNION {order.ranges[d][i][1] .. order.ranges[d][i][2] - 1 : i \in 1 .. Len(order.ranges[d])}

\* The finished graph: without collapsed chance it is the graph built from the recursive
\* tree, node for node; every slot leads to the state of its action or card; the chance
\* weights are all the cards; the nodes of an infoset share player and menu and none is
\* below another; a forward pass meets parents first, and the worker ranges of a depth
\* cover it once, with every edge leading to a deeper slice.
GraphSound ==
  /\ ~graph.error /\ order.pc # "cyclic"
  /\ order.pc = "done" =>
       /\ ~cfg.bucketed =>
            FlatOfTree(cfg) = [n \in Nodes |->
              [state |-> State(n), type |-> graph.nodes[n].type, infoset |-> graph.nodes[n].infoset,
               children |-> graph.nodes[n].children]]
       /\ \A n \in Nodes :
            /\ graph.nodes[n].type = "decision" =>
                 [i \in 1 .. Len(graph.nodes[n].children) |-> State(graph.nodes[n].children[i])]
                 = Children(cfg, State(n))
            /\ graph.nodes[n].type = "chance" =>
                 /\ FoldSeq(LAMBDA o, sum : o.weight + sum, 0, graph.nodes[n].outcomes)
                    = Cardinality(ChanceOutcomes(cfg, State(n)))
                 /\ \A i \in 1 .. Len(graph.nodes[n].outcomes) :
                      State(graph.nodes[n].children[i])
                      = ApplyChance(State(n), graph.nodes[n].outcomes[i].card)
            /\ \A m \in Nodes :
                 graph.nodes[n].type = "decision" /\ graph.nodes[m].infoset = graph.nodes[n].infoset =>
                   /\ State(m).cur_player = State(n).cur_player
                   /\ graph.nodes[m].actions = graph.nodes[n].actions /\ m \notin Ancestors(n)
       /\ \A e \in Edges : /\ Position(e[1]) < Position(ChildOf(e))
                           /\ order.depths[e[1]] < order.depths[ChildOf(e)]
       /\ ToSet(order.depth_order) = Nodes /\ Len(order.depth_order) = Len(graph.nodes)
       /\ \A d \in 1 .. Len(order.slices) :
            /\ Covered(d) = order.slices[d][1] .. order.slices[d][1] + order.slices[d][2] - 1
            /\ \A i \in 1 .. Len(order.ranges[d]) - 1 : order.ranges[d][i][2] = order.ranges[d][i + 1][1]
            /\ \A i \in Covered(d) : order.depths[order.depth_order[i + 1]] = d - 1
=============================================================================
