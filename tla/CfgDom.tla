------------------------------- MODULE CfgDom -------------------------------
(***************************************************************************)
(* The dominator and loop analysis of coral-reef-stubs/src/cfg/dom.rs: the    *)
(* Cooper-Harvey-Kennedy iteration, the nesting depth of natural loops, the   *)
(* pre-order numbers of the dominator tree, and the search for the header of  *)
(* the loop a block is in.  The analysis is computed on demand, cached, and   *)
(* dropped when a block is disconnected.                                     *)
(*                                                                         *)
(* None (the code's None) is 0; nodes are 1 .. n.                             *)
(***************************************************************************)
EXTENDS Cfg, FiniteSetsExt, Functions, TLC

CONSTANT Graphs      \* the control-flow graphs of the instance

ASSUME GraphsAssumption == \A g \in Graphs : g.n \in Nat \ {0}

VARIABLES g,          \* the graph
          phase,      \* "rpo", "doms", "loops", "pre", "ready", "walk", "answer"
          rpo,        \* the reverse post order
          doms,       \* node -> immediate dominator or None
          at,         \* position in rpo
          changed,    \* something changed in this iteration
          iterations, \* iterations begun
          todo,       \* loops: sources of edges not yet looked at
          headers,    \* loops: processed_headers
          depth,      \* loop_depth
          pre,        \* dom_dfs_pre
          stack,      \* pre: nodes to number
          node,       \* walk: the node loop_header_index looks at
          ask,        \* the node loop_header_index was called for
          answer      \* and what it returned

vars == <<g, phase, rpo, doms, at, changed, iterations, todo, headers, depth, pre, stack,
          node, ask, answer>>
domVars == <<rpo, doms, at, changed, iterations>>
loopVars == <<todo, headers, depth>>
preVars == <<pre, stack>>
walkVars == <<node, ask, answer>>

None == 0
NoDoms(h) == [b \in Nodes(h) |-> IF b = Entry THEN Entry ELSE None]
Zero(h) == [b \in Nodes(h) |-> 0]

Init ==
    /\ g \in Graphs
    /\ phase = "doms"
    /\ rpo = ReversePostOrder(g) /\ doms = NoDoms(g)
    /\ at = 2 /\ changed = FALSE /\ iterations = 1
    /\ todo = {} /\ headers = {} /\ depth = Zero(g)
    /\ pre = Zero(g) /\ stack = << >>
    /\ node = None /\ ask = None /\ answer = None

-----------------------------------------------------------------------------
(* compute_dominators                                                       *)

RpoNumber(b) == IF b \in ToSet(rpo) THEN CHOOSE i \in DOMAIN rpo : rpo[i] = b ELSE 1

\* intersect: the later finger moves up until the fingers meet.
RECURSIVE Intersect(_, _)
Intersect(b1, b2) ==
    IF b1 = b2 THEN b1
    ELSE IF RpoNumber(b1) > RpoNumber(b2) THEN Intersect(doms[b1], b2)
    ELSE Intersect(b1, doms[b2])

\* The new immediate dominator of b from the predecessors that have one.
NewIdom(b) ==
    LET known == SelectSeq(g.pred[b], LAMBDA p : doms[p] # None)
    IN  IF known = << >> THEN Entry
        ELSE FoldLeft(LAMBDA acc, p : Intersect(p, acc), Head(known), Tail(known))

\* Mutant: every visit counts as a change.
VisitBlock_AlwaysChanged ==
    /\ phase = "doms" /\ at <= Len(rpo)
    /\ doms' = [doms EXCEPT ![rpo[at]] = NewIdom(rpo[at])]
    /\ changed' = TRUE
    /\ at' = at + 1
    /\ UNCHANGED <<g, phase, rpo, iterations, loopVars, preVars, walkVars>>

VisitBlock ==
    /\ phase = "doms" /\ at <= Len(rpo)
    /\ LET b == rpo[at]
       IN  /\ doms' = [doms EXCEPT ![b] = NewIdom(b)]
           /\ changed' = (changed \/ doms[b] # NewIdom(b))
    /\ at' = at + 1
    /\ UNCHANGED <<g, phase, rpo, iterations, loopVars, preVars, walkVars>>

\* The end of an iteration: another one when something changed.  Mutant: only
\* one iteration.
EndIteration_Once ==
    /\ phase = "doms" /\ at > Len(rpo)
    /\ phase' = "loops"
    /\ todo' = {b \in Nodes(g) : g.succ[b] # << >>}
    /\ UNCHANGED <<g, domVars, headers, depth, preVars, walkVars>>

EndIteration ==
    /\ phase = "doms" /\ at > Len(rpo)
    /\ IF changed
       THEN /\ iterations' = iterations + 1 /\ at' = 2 /\ changed' = FALSE
            /\ UNCHANGED <<phase, todo>>
       ELSE /\ phase' = "loops"
            /\ todo' = {b \in Nodes(g) : g.succ[b] # << >>}
            /\ UNCHANGED <<iterations, at, changed>>
    /\ UNCHANGED <<g, rpo, doms, headers, depth, preVars, walkVars>>

-----------------------------------------------------------------------------
(* Loops                                                                    *)

\* dom_path_reaches, and dominates: up the tree from b until a or the root.
RECURSIVE Dominates(_, _)
Dominates(a, b) ==
    a = b \/ (doms[b] \notin {None, b} /\ Dominates(a, doms[b]))

IsBackEdge(from, to) == Dominates(to, from)

\* detect_back_edges
HasBackEdge == \E from \in Nodes(g) : \E to \in Succs(g, from) :
              doms[to] # None /\ IsBackEdge(from, to)

\* The natural loop of a back edge: backwards from the latch, the header a wall.
RECURSIVE Backwards(_, _)
Backwards(wall, seen) ==
    LET more == seen \cup UNION {Preds(g, b) : b \in seen \ wall}
    IN  IF more = seen THEN seen ELSE Backwards(wall, more)

NaturalLoop(header, latch) == Backwards({header}, {header, latch})

\* The edges of one source in order; the first back edge to a header counts.
AddLoop(acc, from, to) ==
    IF to \in acc.headers \/ ~IsBackEdge(from, to) THEN acc
    ELSE [headers |-> acc.headers \cup {to},
          depth   |-> [b \in Nodes(g) |-> acc.depth[b]
                          + (IF b \in NaturalLoop(to, from) THEN 1 ELSE 0)]]

\* compute_loop_depth: the sources come in the order of a hash map.
LoopSource ==
    /\ phase = "loops" /\ todo # {}
    /\ \E from \in todo :
         LET new == FoldLeft(LAMBDA acc, to : AddLoop(acc, from, to),
                             [headers |-> headers, depth |-> depth],
                             IF HasBackEdge THEN g.succ[from] ELSE << >>)
         IN  /\ todo' = todo \ {from}
             /\ headers' = new.headers
             /\ depth' = new.depth
    /\ UNCHANGED <<g, phase, domVars, preVars, walkVars>>

EndLoops ==
    /\ phase = "loops" /\ todo = {}
    /\ phase' = "pre" /\ stack' = <<Entry>>
    /\ UNCHANGED <<g, domVars, loopVars, pre, walkVars>>

-----------------------------------------------------------------------------
(* compute_dom_dfs_pre                                                      *)

Children(b) == {c \in Nodes(g) \ {b} : doms[c] = b}
Numbered == IF stack = <<Entry>> /\ pre = Zero(g) THEN 0
            ELSE 1 + Max({pre[b] : b \in Nodes(g)})

\* The children are pushed from the highest down, so that the lowest is popped
\* first.  Mutant: taken from the front, as from a queue.
Push_Queue(rest, b) == rest \o SetToSortSeq(Children(b), <)
Push(rest, b) == SetToSortSeq(Children(b), <) \o rest

NumberNode ==
    /\ phase = "pre" /\ stack # << >>
    /\ pre' = [pre EXCEPT ![Head(stack)] = Numbered]
    /\ stack' = Push(Tail(stack), Head(stack))
    /\ UNCHANGED <<g, phase, domVars, loopVars, walkVars>>

EndPre ==
    /\ phase = "pre" /\ stack = << >>
    /\ phase' = "ready"
    /\ UNCHANGED <<g, domVars, loopVars, preVars, walkVars>>

-----------------------------------------------------------------------------
(* Queries and changes                                                      *)

IsHeader(b) == \E p \in Preds(g, b) : Dominates(b, p)

\* loop_header_index(b).  Mutant: the walk starts one level too high.
AskHeader_Parent ==
    /\ phase = "ready"
    /\ \E b \in Nodes(g) :
         /\ ask' = b /\ node' = IF doms[b] = None THEN b ELSE doms[b]
         /\ answer' = None
         /\ phase' = IF depth[b] = 0 THEN "answer" ELSE "walk"
    /\ UNCHANGED <<g, domVars, loopVars, preVars>>

AskHeader ==
    /\ phase = "ready"
    /\ \E b \in Nodes(g) :
         /\ ask' = b /\ node' = b /\ answer' = None
         /\ phase' = IF depth[b] = 0 THEN "answer" ELSE "walk"
    /\ UNCHANGED <<g, domVars, loopVars, preVars>>

WalkUp ==
    /\ phase = "walk"
    /\ LET parent == doms[node]
       IN  IF parent = None THEN phase' = "answer" /\ UNCHANGED <<node, answer>>
           ELSE IF IsHeader(parent)
           THEN phase' = "answer" /\ answer' = parent /\ UNCHANGED node
           ELSE node' = parent /\ UNCHANGED <<phase, answer>>
    /\ UNCHANGED <<g, domVars, loopVars, preVars, ask>>

\* disconnect_block, as fix_entry_live_in uses it: on a block that the entry
\* does not reach.  The cached analysis is dropped and computed again.
\* Mutant: the cache stays.
Disconnect_KeepCache ==
    /\ phase = "ready"
    /\ \E b \in Nodes(g) \ Reachable(g) :
         /\ g.succ[b] # << >> \/ g.pred[b] # << >>
         /\ g' = DisconnectBlock(g, b)
    /\ UNCHANGED <<phase, domVars, loopVars, preVars, walkVars>>

Disconnect ==
    /\ phase = "ready"
    /\ \E b \in Nodes(g) \ Reachable(g) :
         /\ g.succ[b] # << >> \/ g.pred[b] # << >>
         /\ g' = DisconnectBlock(g, b)
    /\ phase' = "doms" /\ rpo' = ReversePostOrder(g') /\ doms' = NoDoms(g)
    /\ at' = 2 /\ changed' = FALSE /\ iterations' = 1
    /\ todo' = {} /\ headers' = {} /\ depth' = Zero(g)
    /\ pre' = Zero(g) /\ stack' = << >>
    /\ UNCHANGED walkVars

Answered == phase = "answer" /\ UNCHANGED vars

Next == \/ VisitBlock \/ EndIteration \/ LoopSource \/ EndLoops \/ NumberNode \/ EndPre
        \/ AskHeader \/ WalkUp \/ Disconnect \/ Answered

Spec == Init /\ [][Next]_vars

-----------------------------------------------------------------------------

Known == phase # "doms"          \* the dominators are computed
Ready == phase \in {"ready", "walk", "answer"}

(***************************************************************************)
(* dominates: what the walk up the computed tree says of two blocks is what    *)
(* the paths of the graph say, for every graph, reducible or not.             *)
(***************************************************************************)
DominatorsCorrect ==
    Known => \A a, b \in Reachable(g) : Dominates(a, b) <=> DominatesRef(g, a, b)

(***************************************************************************)
(* The assertion of compute_dominators that the iteration converges: it does  *)
(* after at most as many iterations as there are blocks.                      *)
(***************************************************************************)
DominatorsConverge == iterations <= Max({g.n, 2})

(***************************************************************************)
(* loop_depth: the number of loops around a block, when every header has one   *)
(* latch; whatever the order of the hash map.  A disconnected block is in no    *)
(* loop.                                                                    *)
(***************************************************************************)
Latches(h) == {p \in Preds(g, h) \cap Reachable(g) : DominatesRef(g, h, p)}
LoopOf(h) == {b \in Nodes(g) : \/ b = h
                               \/ ReachFrom(StrictlyWithout(g, h), {b}) \cap (Latches(h) \ {h}) # {}}
HeadersRef == {h \in Reachable(g) : Latches(h) # {}}
LoopDepths ==
    Ready /\ (\A h \in HeadersRef : Cardinality(Latches(h)) = 1)
        => /\ \A b \in Reachable(g) : depth[b] = Cardinality({h \in HeadersRef : b \in LoopOf(h)})
           /\ \A b \in Nodes(g) : g.succ[b] = << >> /\ g.pred[b] = << >> => depth[b] = 0

(***************************************************************************)
(* dom_dfs_pre: the numbers are those of a depth first walk of the dominator   *)
(* tree, so that the blocks a block dominates are an interval; the order of    *)
(* the coalescing sets of to_cssa relies on it.                               *)
(***************************************************************************)
PreOrderNests ==
    Ready => \A a, b, c \in Reachable(g) :
                /\ pre[a] = pre[b] => a = b
                /\ DominatesRef(g, a, b) => pre[a] <= pre[b]
                /\ DominatesRef(g, a, c) /\ pre[a] <= pre[b] /\ pre[b] <= pre[c]
                        => DominatesRef(g, a, b)

(***************************************************************************)
(* loop_header_index, which the spiller calls for every block: it answers with *)
(* the nearest loop header above the block in the dominator tree.  The walk     *)
(* gets to the entry, its own parent, where it stays for ever, only when there  *)
(* is no such header: for the headers of outermost loops.                      *)
(***************************************************************************)
Above(h, b) == h \in HeadersRef /\ (h # b \/ b = Entry) /\ DominatesRef(g, h, b)
NearestHeader(b) ==
    IF b \in Reachable(g) /\ \E h \in HeadersRef : Above(h, b)
    THEN CHOOSE h \in HeadersRef : Above(h, b) /\ \A k \in HeadersRef : Above(k, b) => k = h \/ Above(k, h)
    ELSE None
HeaderQueryAnswers ==
    /\ phase = "answer" /\ depth[ask] # 0 => answer = NearestHeader(ask)
    /\ phase = "walk" /\ node = Entry /\ Entry \notin HeadersRef => NearestHeader(ask) = None
=============================================================================
