------------------------------- MODULE ToCssa -------------------------------
(***************************************************************************)
(* to_cssa.rs: conversion to conventional SSA form.  Coalescing sets collect   *)
(* the values and the places of a phi that can share one register; a source    *)
(* or destination that interferes with the set of its phi gets a copy.        *)
(*                                                                         *)
(* A node is an SSA value at its definition or a phi at the start of its block  *)
(* or at the end of a predecessor.  st.sets maps a set to its nodes and        *)
(* st.of a node to its set.                                                  *)
(***************************************************************************)
EXTENDS RepairSsa

AtStart == 0
AtEnd == 1000        \* usize::MAX of the code: after every instruction

SsaNode(f, v) == LET p == DefPlace(f, v) IN [kind |-> "ssa", n |-> v, b |-> p[1], ip |-> p[2] + 1]
PhiNode(q, b, ip) == [kind |-> "phi", n |-> q, b |-> b, ip |-> ip]

\* add_ssa: a value is pushed when it is first met.
AddSsa(f, nodes, v) ==
    IF SsaNode(f, v) \in ToSet(nodes) THEN nodes ELSE Append(nodes, SsaNode(f, v))

\* The operands of a phi instruction at place ip of block b, each a value and
\* the phi's node.
AddPhis(f, nodes, b, i, vals, ip) ==
    FoldLeft(LAMBDA acc, k : Append(AddSsa(f, acc, vals[k]), PhiNode(i.phi[k], b, ip)),
             nodes, [k \in DOMAIN vals |-> k])

\* The nodes a block pushes: those of its PhiDsts, then those of its PhiSrcs.
BlockNodes(f, nodes, b) ==
    FoldLeft(LAMBDA acc, i : CASE i.op = "phidsts" -> AddPhis(f, acc, b, i, i.dst, AtStart)
                               [] i.op = "phisrcs" -> AddPhis(f, acc, b, i, i.src, AtEnd)
                               [] OTHER -> acc,
             nodes, f.blocks[b])

\* init_sets: the nodes in the order of the dominator tree and of the code; the
\* sort is stable, nodes of the same place stay as they were pushed.
SortedNodes(f) ==
    LET pre == DomDfsPre(f.cfg)
        pushed == FoldLeft(LAMBDA acc, b : BlockNodes(f, acc, b), << >>, [b \in Blocks(f) |-> b])
        before(j, k) == LET m == pushed[j]
                            n == pushed[k]
                        IN  \/ pre[m.b] < pre[n.b]
                            \/ pre[m.b] = pre[n.b] /\ (m.ip < n.ip \/ (m.ip = n.ip /\ j < k))
        sorted == SortedBy(DOMAIN pushed, before)
    IN  [r \in DOMAIN sorted |-> pushed[sorted[r]]]

NodeOf(nodes, kind, n) == Min({k \in DOMAIN nodes : nodes[k].kind = kind /\ nodes[k].n = n})

\* A value is a set of its own; the nodes of a phi belong to one set, which
\* lists the first of them.
InitSets(nodes) ==
    [of |-> [k \in DOMAIN nodes |-> NodeOf(nodes, nodes[k].kind, nodes[k].n)],
     sets |-> [k \in DOMAIN nodes |->
                  IF k = NodeOf(nodes, nodes[k].kind, nodes[k].n) THEN {k} ELSE {}]]

NodeDominates(f, p, c) ==
    IF p.b = c.b THEN p.ip <= c.ip ELSE DominatesRef(f.cfg, p.b, c.b)

PhiSsaInterferes(live, p, v) ==
    IF p.ip = AtStart THEN v \in live.live_in[p.b] ELSE v \in live.live_out[p.b]

NodesInterfere(f, live, m, n) ==
    CASE m.kind = "ssa" /\ n.kind = "ssa" -> Interferes(f, live, m.n, n.n)
      [] m.kind = "ssa" /\ n.kind = "phi" -> PhiSsaInterferes(live, n, m.n)
      [] m.kind = "phi" /\ n.kind = "ssa" -> PhiSsaInterferes(live, m, n.n)
      [] OTHER -> m.b = n.b /\ m.ip = n.ip

\* sets_interfere: each node against the nearest one above it in the tree.  A set
\* interferes with itself: the merged iteration meets every node twice.
\* Mutant: the sets never interfere.
SetsInterfere_Never(f, live, nodes, xs, ys) == FALSE

SetsInterfere(f, live, nodes, xs, ys) ==
    LET RECURSIVE Pop(_, _)
        Pop(dom, n) == IF dom = << >> \/ NodeDominates(f, nodes[Last(dom)], nodes[n]) THEN dom
                       ELSE Pop(Front(dom), n)
        visit(acc, n) ==
            LET dom == Pop(acc.dom, n)
            IN  [dom |-> Append(dom, n),
                 hit |-> acc.hit \/ (dom # << >>
                                     /\ NodesInterfere(f, live, nodes[n], nodes[Last(dom)]))]
    IN  xs = ys \/ FoldLeft(visit, [dom |-> << >>, hit |-> FALSE], Ascending(xs \cup ys)).hit

\* sets_merge
MergeSets(st, a, b) ==
    IF a = b THEN st
    ELSE [of |-> [k \in DOMAIN st.of |-> IF k \in st.sets[b] THEN a ELSE st.of[k]],
          sets |-> [st.sets EXCEPT ![a] = @ \cup st.sets[b], ![b] = {}]]

\* One destination or source of a phi: joined to the set of the phi, or given a
\* temporary and an entry <<dst, src>> of the parallel copy.
JoinPhi(f, live, nodes, acc, q, v) ==
    LET ps == acc.st.of[NodeOf(nodes, "phi", q)]
        vs == acc.st.of[NodeOf(nodes, "ssa", v)]
        tmp == acc.ssa + 1
    IN  IF SetsInterfere(f, live, nodes, acc.st.sets[ps], acc.st.sets[vs])
        THEN [acc EXCEPT !.ssa = tmp, !.vals = Append(@, tmp), !.copied = Append(@, v)]
        ELSE [acc EXCEPT !.st = MergeSets(@, ps, vs), !.vals = Append(@, v)]

\* The temporaries of one phi instruction, in order.
JoinPhis(f, live, nodes, acc, i, vals) ==
    FoldLeft(LAMBDA a, k : JoinPhi(f, live, nodes, a, i.phi[k], vals[k]),
             [st |-> acc.st, ssa |-> acc.ssa, vals |-> << >>, copied |-> << >>],
             [k \in DOMAIN vals |-> k])

\* The phi instruction with its joined operands j, and the parallel copy of the
\* temporaries among them: after the destinations, before the sources.
WithCopy(i, j, old) ==
    LET temps == SelectSeq(j.vals, LAMBDA v : v > old)
        copy(dst, src) == IF j.copied = << >> THEN << >> ELSE <<Instr("pcopy", dst, src)>>
    IN  IF i.op = "phidsts" THEN <<[i EXCEPT !.dst = j.vals]>> \o copy(j.copied, temps)
        ELSE copy(temps, j.copied) \o <<[i EXCEPT !.src = j.vals]>>

Joined(acc, i, j) ==
    [st |-> j.st, ssa |-> j.ssa, instrs |-> acc.instrs \o WithCopy(i, j, acc.ssa)]

CssaInstr(f, live, nodes, acc, i) ==
    IF i.op \notin {"phidsts", "phisrcs"} THEN [acc EXCEPT !.instrs = Append(@, i)]
    ELSE Joined(acc, i, JoinPhis(f, live, nodes, acc, i,
                                 IF i.op = "phidsts" THEN i.dst ELSE i.src))

CssaBlock(f, live, nodes, acc, b) ==
    LET r == FoldLeft(LAMBDA a, i : CssaInstr(f, live, nodes, a, i),
                      [st |-> acc.st, ssa |-> acc.ssa, instrs |-> << >>], f.blocks[b])
    IN  [st |-> r.st, ssa |-> r.ssa, blocks |-> Append(acc.blocks, r.instrs)]

ToCssa(f, live, nodes) ==
    LET r == FoldLeft(LAMBDA a, b : CssaBlock(f, live, nodes, a, b),
                      [st |-> InitSets(nodes), ssa |-> f.ssa, blocks |-> << >>],
                      [b \in Blocks(f) |-> b])
    IN  [f EXCEPT !.blocks = r.blocks, !.ssa = r.ssa]
=============================================================================
