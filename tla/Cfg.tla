-------------------------------- MODULE Cfg --------------------------------
(***************************************************************************)
(* The control-flow graph of coral-reef-stubs/src/cfg: nodes in layout       *)
(* order, lists of successors and predecessors, and the traversals the       *)
(* passes share.  Nodes are 1 .. n here and 0 .. n-1 in the code; node 1 is   *)
(* the entry.                                                               *)
(***************************************************************************)
EXTENDS Naturals, Sequences, FiniteSets, SequencesExt

Entry == 1

\* A finite set in the order of a strict total order on it.
SortedBy(S, before(_, _)) ==
    [r \in 1 .. Cardinality(S) |->
        CHOOSE x \in S : Cardinality({y \in S : before(y, x)}) = r - 1]
Ascending(S) == SortedBy(S, <)

\* CFGBuilder::build: the edge list in the order the edges were added.
Build(n, edges) ==
    [n    |-> n,
     succ |-> [b \in 1 .. n |-> LET mine == SelectSeq(edges, LAMBDA e : e[1] = b)
                                IN  [i \in DOMAIN mine |-> mine[i][2]]],
     pred |-> [b \in 1 .. n |-> LET mine == SelectSeq(edges, LAMBDA e : e[2] = b)
                                IN  [i \in DOMAIN mine |-> mine[i][1]]]]

Nodes(g) == 1 .. g.n
Succs(g, b) == ToSet(g.succ[b])
Preds(g, b) == ToSet(g.pred[b])

\* rpo_dfs: a depth first visit in successor order; order is the post order.
RECURSIVE RpoDfs(_, _, _)
RpoDfs(g, node, st) ==
    IF node \in st.visited THEN st
    ELSE LET entered == [st EXCEPT !.visited = @ \cup {node}]
             after == FoldLeft(LAMBDA acc, s : RpoDfs(g, s, acc), entered, g.succ[node])
         IN  [after EXCEPT !.order = Append(@, node)]

PostOrder(g) == RpoDfs(g, Entry, [visited |-> {}, order |-> << >>]).order
ReversePostOrder(g) == Reverse(PostOrder(g))

\* CFG::disconnect_block: the node loses its edges.
DisconnectBlock(g, id) ==
    [g EXCEPT !.succ = [b \in Nodes(g) |->
                           IF b = id THEN << >> ELSE SelectSeq(g.succ[b], LAMBDA s : s # id)],
              !.pred = [b \in Nodes(g) |->
                           IF b = id THEN << >> ELSE SelectSeq(g.pred[b], LAMBDA p : p # id)]]

\* The nodes a path of edges leads to; what a breadth first search finds.
RECURSIVE ReachFrom(_, _)
ReachFrom(g, seen) ==
    LET next == seen \cup UNION {Succs(g, b) : b \in seen}
    IN  IF next = seen THEN seen ELSE ReachFrom(g, next)

Reachable(g) == ReachFrom(g, {Entry})

\* Reference: a dominates b when no path from the entry avoids a on its way to b.
StrictlyWithout(g, a) ==
    [g EXCEPT !.succ = [b \in Nodes(g) |-> IF b = a THEN << >> ELSE g.succ[b]]]
DominatesRef(g, a, b) == a = b \/ b \notin ReachFrom(StrictlyWithout(g, a), {Entry} \ {a})

\* The dominator tree of the reachable nodes and its numbers in the order of
\* compute_dom_dfs_pre, the lower child first; CfgDom shows that dom.rs
\* computes them.
Idom(g, b) ==
    LET above == {a \in Reachable(g) \ {b} : DominatesRef(g, a, b)}
    IN  CHOOSE a \in above : \A c \in above : DominatesRef(g, c, a)

RECURSIVE DomTreeFrom(_, _)
DomTreeFrom(g, b) ==
    LET children == {c \in Reachable(g) \ {Entry, b} : Idom(g, c) = b}
    IN  FoldLeft(LAMBDA acc, c : acc \o DomTreeFrom(g, c), <<b>>, Ascending(children))

DomDfsPre(g) ==
    LET order == DomTreeFrom(g, Entry)
    IN  [b \in Nodes(g) |-> IF b \in ToSet(order)
                            THEN (CHOOSE i \in DOMAIN order : order[i] = b) - 1 ELSE 0]

HasLoop(g) == \E b \in Reachable(g) : \E s \in Succs(g, b) : DominatesRef(g, s, b)
=============================================================================
