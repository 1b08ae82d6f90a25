---------------------------- MODULE LowerParCopy ----------------------------
(***************************************************************************)
(* lower_par_copy (codegen/lower_par_copies.rs): the sequentialization of    *)
(* one OpParCopy, which assigns all its destinations at once, into OpCopy    *)
(* and OpSwap instructions that run one after the other.                    *)
(*                                                                          *)
(* A node of the copy graph is a register or a constant.  Nodes 0..NumDst-1  *)
(* are the destinations, in the order of pc.dsts_srcs; the NumSrc nodes      *)
(* after them are what is only read.  The code appends each instruction to   *)
(* a straight-line program; here `reg' and `tmp' are what the machine holds  *)
(* after the instructions emitted so far.                                   *)
(***************************************************************************)
EXTENDS Integers, Sequences, FiniteSets, LowerCopySwap

CONSTANTS
    NumDst,      \* destinations of the parallel copy
    NumSrc,      \* nodes that are only sources
    TmpComps,    \* components of pc.tmp, 0 when pc.tmp is None
    Sm70,        \* whether the shader model is SM70 or later
    Bit,         \* a register value is a set of bits
    InitVal,     \* the value every node holds before the parallel copy
    Kinds        \* the files and constant kinds the nodes are taken from

Dst == 0 .. NumDst - 1
Node == 0 .. NumDst + NumSrc - 1
None == -1
Val == SUBSET Bit

ASSUME SizeAssumption == NumDst \in Nat \ {0} /\ NumSrc \in Nat
ASSUME TmpAssumption == TmpComps \in 0 .. 2
ASSUME SmAssumption == Sm70 \in BOOLEAN
ASSUME ValAssumption == InitVal \in [Node -> Val]
ASSUME KindsAssumption == Kinds \subseteq SrcKind

VARIABLES
    copies,      \* input: the source of every destination (pc.dsts_srcs)
    kind,        \* input: the register file or constant kind of every node
    phase,       \* which loop of lower_par_copy is running
    src,         \* graph.nodes[n].src, -1 for none
    numReads,    \* graph.nodes[n].num_reads
    ready,       \* the stack of destinations nobody reads any more
    i,           \* the index of the running for loop
    p,           \* the node being overwritten in a cycle broken with pc.tmp
    reg,         \* machine: the value in every node
    tmp,         \* machine: the values in the components of pc.tmp
    emitted      \* the <<op, dst, src>> kinds of the instructions emitted

vars == <<copies, kind, phase, src, numReads, ready, i, p, reg, tmp, emitted>>
input == <<copies, kind>>

----------------------------------------------------------------------------
(* Inputs: the parallel copies that assign_regs builds.                      *)

\* Both sides are in one file, except for constants that go to a register
\* file or to spill memory, and a Pin of a uniform vector into GPRs.
ParCopyPair(d, s) ==
    \/ d = s
    \/ d \in {"GPR", "Mem"} /\ s \in ConstKind
    \/ d = "GPR" /\ s = "UGPR"

\* The cycle that starts at node n, if it is in one.
InCycle(f, n) ==
    LET iter[k \in 0 .. NumDst] == IF k = 0 THEN n
                                   ELSE IF iter[k-1] \in DOMAIN f THEN f[iter[k-1]]
                                   ELSE iter[k-1]
    IN  f[n] # n /\ \E k \in 2 .. NumDst : iter[k] = n

\* Mutant: copies between barriers are taken for plain copies.
CopyNeedsTmp_NoBar(d, s) == d = "Mem" /\ s # "GPR"

\* copy_needs_tmp
CopyNeedsTmp(d, s) ==
    \/ d = "Mem" /\ s # "GPR"
    \/ d = "Bar" /\ s = "Bar"

\* The temporaries that the asserts and expects of the pass ask for.
TmpSuffices(f, k) ==
    \A d \in Dst :
        /\ f[d] # d /\ CopyNeedsTmp(k[d], k[f[d]]) => TmpComps >= 1
        /\ InCycle(f, d) /\ k[d] \in {"Bar", "Mem"} => TmpComps = 2

WellFormed(f, k) ==
    /\ \A d \in Dst : k[d] \in RegFile \ {"Carry"}
    /\ \A d \in Dst : ParCopyPair(k[d], k[f[d]])
    \* a constant gets a node of its own for every use
    /\ \A d, e \in Dst : f[d] = f[e] /\ k[f[d]] \in ConstKind => d = e
    /\ TmpSuffices(f, k)

Init ==
    /\ copies \in [Dst -> Node]
    /\ kind \in [Node -> Kinds]
    /\ WellFormed(copies, kind)
    /\ phase = "build"
    /\ src = [n \in Node |-> None]
    /\ numReads = [n \in Node |-> 0]
    /\ ready = << >>
    /\ i = 0
    /\ p = 0
    /\ reg = InitVal
    /\ tmp = [c \in {0, 1} |-> {}]
    /\ emitted = {}

----------------------------------------------------------------------------
(* CopyGraph                                                                *)

AddEdge(g, d, s) == [src |-> [g.src EXCEPT ![d] = s],
                     reads |-> [g.reads EXCEPT ![s] = @ + 1]]

\* Mutant: the removed edge still counts as a read.
DelEdge_KeepReads(g, d, s) == [g EXCEPT !.src[d] = None]

DelEdge(g, d, s) == [src |-> [g.src EXCEPT ![d] = None],
                     reads |-> [g.reads EXCEPT ![s] = @ - 1]]

Graph == [src |-> src, reads |-> numReads]

SetGraph(g) == src' = g.src /\ numReads' = g.reads

----------------------------------------------------------------------------
(* The loops of lower_par_copy                                              *)

\* One round of the loop over pc.dsts_srcs that adds the edges.
BuildEdge ==
    /\ phase = "build" /\ i < NumDst
    /\ SetGraph(IF copies[i] # i THEN AddEdge(Graph, i, copies[i]) ELSE Graph)
    /\ i' = i + 1
    /\ UNCHANGED <<input, phase, ready, p, reg, tmp, emitted>>

BuildDone ==
    /\ phase = "build" /\ i = NumDst
    /\ phase' = "scan" /\ i' = 0
    /\ UNCHANGED <<input, src, numReads, ready, p, reg, tmp, emitted>>

\* Mutant: every destination is pushed, read or not.
ScanReady_PushAll ==
    /\ phase = "scan" /\ i < NumDst
    /\ ready' = Append(ready, i)
    /\ i' = i + 1
    /\ UNCHANGED <<input, phase, src, numReads, p, reg, tmp, emitted>>

\* The loop that pushes the destinations nobody reads.
ScanReady ==
    /\ phase = "scan" /\ i < NumDst
    /\ ready' = IF numReads[i] = 0 THEN Append(ready, i) ELSE ready
    /\ i' = i + 1
    /\ UNCHANGED <<input, phase, src, numReads, p, reg, tmp, emitted>>

ScanDone ==
    /\ phase = "scan" /\ i = NumDst
    /\ phase' = "ready" /\ i' = 0
    /\ UNCHANGED <<input, src, numReads, ready, p, reg, tmp, emitted>>

Top == ready[Len(ready)]
Popped == SubSeq(ready, 1, Len(ready) - 1)

\* Mutant: a source that became ready is not pushed.
CopyReady_NoPush ==
    /\ phase = "ready" /\ ready # << >> /\ src[Top] # None
    /\ reg' = [reg EXCEPT ![Top] = reg[src[Top]]]
    /\ SetGraph(DelEdge(Graph, Top, src[Top]))
    /\ ready' = Popped
    /\ UNCHANGED <<input, phase, i, p, tmp, emitted>>

\* ready.pop() returned a destination with a source: emit the copy.
CopyReady ==
    /\ phase = "ready" /\ ready # << >> /\ src[Top] # None
    /\ LET d == Top
           s == src[Top]
           g == DelEdge(Graph, d, s)
       IN  /\ reg' = [reg EXCEPT ![d] = reg[s]]
           /\ IF CopyNeedsTmp(kind[d], kind[s])
              THEN /\ tmp' = [tmp EXCEPT ![0] = reg[s]]
                   /\ emitted' = emitted \cup {<<"copy", "GPR", kind[s]>>,
                                               <<"copy", kind[d], "GPR">>}
              ELSE /\ tmp' = tmp
                   /\ emitted' = emitted \cup {<<"copy", kind[d], kind[s]>>}
           /\ SetGraph(g)
           /\ ready' = IF g.reads[s] = 0 THEN Append(Popped, s) ELSE Popped
    /\ UNCHANGED <<input, phase, i, p>>

\* Mutant: the stack is looked at, not popped.
SkipReady_Peek ==
    /\ phase = "ready" /\ ready # << >> /\ src[Top] = None
    /\ UNCHANGED vars

\* ready.pop() returned a node without a source.
SkipReady ==
    /\ phase = "ready" /\ ready # << >> /\ src[Top] = None
    /\ ready' = Popped
    /\ UNCHANGED <<input, phase, src, numReads, i, p, reg, tmp, emitted>>

ReadyDone ==
    /\ phase = "ready" /\ ready = << >>
    /\ phase' = "cycles" /\ i' = 0
    /\ UNCHANGED <<input, src, numReads, ready, p, reg, tmp, emitted>>

\* cycle_use_swap; its assert on pc.tmp is TmpSuffices.
CycleUseSwap(file) ==
    CASE file = "GPR" -> TmpComps = 0
      [] file \in {"Bar", "Mem"} -> FALSE
      [] OTHER -> TRUE

\* Mutant: the loop runs over one node too many.
SkipIsolated_OneMore ==
    /\ phase = "cycles" /\ i <= NumDst /\ src[i] = None
    /\ i' = i + 1
    /\ UNCHANGED <<input, phase, src, numReads, ready, p, reg, tmp, emitted>>

\* The next destination has no edge left.
SkipIsolated ==
    /\ phase = "cycles" /\ i < NumDst /\ src[i] = None
    /\ i' = i + 1
    /\ UNCHANGED <<input, phase, src, numReads, ready, p, reg, tmp, emitted>>

\* One round of the swap loop: i <- j <- k becomes i <- k.
SwapStep ==
    /\ phase = "cycles" /\ i < NumDst /\ src[i] # None
    /\ CycleUseSwap(kind[i])
    /\ LET j == src[i]
           k == src[j]
           g == DelEdge(DelEdge(Graph, i, j), j, k)
       IN  /\ reg' = LowerSwap(reg, j, k, kind[j], Sm70)
           /\ emitted' = emitted \cup {<<"swap", kind[j], kind[k]>>}
           /\ SetGraph(IF i = k THEN g ELSE AddEdge(g, i, k))
           \* the break leaves the loop; the for loop then goes on with i + 1
           /\ i' = IF i = k THEN i + 1 ELSE i
    /\ UNCHANGED <<input, phase, ready, p, tmp>>

\* Save the head of the cycle in pc.tmp.comp(0).
TmpSave ==
    /\ phase = "cycles" /\ i < NumDst /\ src[i] # None
    /\ ~CycleUseSwap(kind[i])
    /\ p' = i
    /\ tmp' = [tmp EXCEPT ![0] = reg[i]]
    /\ emitted' = emitted \cup {<<"copy", "GPR", kind[i]>>}
    /\ phase' = "tmp"
    /\ UNCHANGED <<input, src, numReads, ready, i, reg>>

\* p := its source, through pc.tmp.comp(1) for Bar and Mem.
TmpMove ==
    /\ phase = "tmp" /\ src[p] # i
    /\ LET j == src[p]
       IN  /\ reg' = [reg EXCEPT ![p] = reg[j]]
           /\ IF kind[i] \in {"Bar", "Mem"}
              THEN /\ tmp' = [tmp EXCEPT ![1] = reg[j]]
                   /\ emitted' = emitted \cup {<<"copy", "GPR", kind[j]>>,
                                               <<"copy", kind[p], "GPR">>}
              ELSE /\ tmp' = tmp
                   /\ emitted' = emitted \cup {<<"copy", kind[p], kind[j]>>}
           /\ SetGraph(DelEdge(Graph, p, j))
           /\ p' = j
    /\ UNCHANGED <<input, phase, ready, i>>

\* Mutant: the last node gets the head's present value, not the saved one.
TmpRestore_Unsaved ==
    /\ phase = "tmp" /\ src[p] = i
    /\ reg' = [reg EXCEPT ![p] = reg[i]]
    /\ emitted' = emitted \cup {<<"copy", kind[p], "GPR">>}
    /\ SetGraph(DelEdge(Graph, p, i))
    /\ phase' = "cycles" /\ i' = i + 1
    /\ UNCHANGED <<input, ready, p, tmp>>

\* The last node of the cycle gets the saved value.
TmpRestore ==
    /\ phase = "tmp" /\ src[p] = i
    /\ reg' = [reg EXCEPT ![p] = tmp[0]]
    /\ emitted' = emitted \cup {<<"copy", kind[p], "GPR">>}
    /\ SetGraph(DelEdge(Graph, p, i))
    /\ phase' = "cycles" /\ i' = i + 1
    /\ UNCHANGED <<input, ready, p, tmp>>

Finish ==
    /\ phase = "cycles" /\ i = NumDst
    /\ phase' = "done"
    /\ UNCHANGED <<input, src, numReads, ready, i, p, reg, tmp, emitted>>

\* The straight-line program is complete; the pass goes on elsewhere.
Returned == phase = "done" /\ UNCHANGED vars

Next ==
    \/ BuildEdge \/ BuildDone \/ ScanReady \/ ScanDone
    \/ CopyReady \/ SkipReady \/ ReadyDone
    \/ SkipIsolated \/ SwapStep \/ TmpSave \/ TmpMove \/ TmpRestore \/ Finish
    \/ Returned

Spec == Init /\ [][Next]_vars

\* The pass is a loop of one thread that nothing blocks.
FairSpec == Spec /\ WF_vars(Next)
----------------------------------------------------------------------------
(* Properties                                                               *)

TypeOK ==
    /\ copies \in [Dst -> Node]
    /\ kind \in [Node -> Kinds]
    /\ phase \in {"build", "scan", "ready", "cycles", "tmp", "done"}
    /\ src \in [Node -> Node \cup {None}]
    /\ numReads \in [Node -> Int]
    /\ ready \in Seq(Node)
    /\ i \in 0 .. NumDst
    /\ p \in Node
    /\ reg \in [Node -> Val]
    /\ tmp \in [{0, 1} -> Val]
    /\ emitted \subseteq {"copy", "swap"} \X SrcKind \X SrcKind

Readers(n) == {d \in Dst : src[d] = n}

\* num_reads, which decides when a register may be overwritten, is the number
\* of copies that still have to read the node (no underflow of the usize).
ReadsCounted == \A n \in Node : numReads[n] = Cardinality(Readers(n))

\* Where the value of a pending copy is: the head of a cycle that is being
\* broken with pc.tmp has its value saved there.
Holds(n) == IF phase = "tmp" /\ n = i THEN tmp[0] ELSE reg[n]

\* The value that a pending copy has to read is still where the copy will
\* look for it: no instruction emitted so far has overwritten it.
PendingValueKept ==
    \A d \in Dst : src[d] # None => Holds(src[d]) = InitVal[copies[d]]

\* The comment after the ready loop: what is left are isolated nodes and
\* cycles, that is, a node has a source if and only if one node reads it
\* (with it, the debug_assert on isolated nodes and the expects on src(j)).
OnlyCyclesLeft ==
    phase \in {"cycles", "done"} =>
        \A n \in Node :
            numReads[n] = (IF src[n] = None THEN 0 ELSE 1)

\* The emitted program does what the parallel copy says: every destination
\* gets the value its source had before, everything else keeps its value.
ParallelSemantics ==
    phase = "done" =>
        \A n \in Node : reg[n] = InitVal[IF n \in Dst THEN copies[n] ELSE n]

\* lower_copy_swap has machine instructions for every OpCopy and OpSwap this
\* pass emits: none of its asserts or ice! branches is reached.
EmittedLowerable ==
    \A e \in emitted :
        IF e[1] = "copy" THEN CanLowerCopy(e[2], e[3])
        ELSE CanLowerSwap(e[2], e[3])

\* The pass ends: every edge is removed and no cycle is walked for ever.
Terminates == <>(phase = "done")
----------------------------------------------------------------------------
(* The inductive invariant                                                  *)

\* Only destinations have a source, and no node is its own source.
GraphShape ==
    /\ \A n \in Node \ Dst : src[n] = None /\ reg[n] = InitVal[n]
    /\ \A d \in Dst : src[d] # d

\* The first two loops: the edges are the copies, nothing has been emitted.
BuildInv ==
    phase \in {"build", "scan"} =>
        /\ reg = InitVal
        /\ \A d \in Dst :
              src[d] = IF (phase = "scan" \/ d < i) /\ copies[d] # d
                       THEN copies[d] ELSE None

\* A destination without a source has its final value.
DoneHasValue ==
    phase # "build" =>
        \A d \in Dst : src[d] = None => reg[d] = InitVal[copies[d]]

InSeq(s, n) == \E m \in 1 .. Len(s) : s[m] = n

\* The stack holds unread nodes, and every unread destination with a source.
ReadyInv ==
    /\ phase = "build" => ready = << >>
    /\ phase \in {"scan", "ready"} =>
          \A n \in Node : InSeq(ready, n) => numReads[n] = 0
    /\ \A d \in Dst :
          /\ \/ phase = "scan" /\ d < i
             \/ phase = "ready"
          /\ numReads[d] = 0 /\ src[d] # None
          => InSeq(ready, d)

\* Two destinations never wait for one source, everything that is waited for
\* waits itself, and everything that waits is waited for.  While a cycle is
\* broken with pc.tmp this holds but for its two ends p and i.
CycleInv ==
    phase \in {"cycles", "tmp", "done"} =>
        /\ \A d, e \in Dst : src[d] # None /\ src[d] = src[e] => d = e
        /\ \A d \in Dst : src[d] # None =>
              /\ src[d] \in Dst
              /\ src[src[d]] # None \/ (phase = "tmp" /\ src[d] = i)
        /\ \A d \in Dst :
              \/ src[d] # None /\ (phase = "tmp" => d # p)
              \/ phase = "tmp" /\ d = i
              => \E e \in Dst : src[e] = d
        /\ \A d \in Dst : d < i => src[d] = None
        /\ phase = "done" => i = NumDst

TmpInv ==
    phase = "tmp" =>
        /\ i \in Dst /\ p \in Dst
        /\ src[p] # None
        /\ p # i => src[i] = None /\ \A d \in Dst : src[d] # p

Inductive ==
    /\ TypeOK /\ ReadsCounted /\ GraphShape /\ BuildInv /\ DoneHasValue
    /\ PendingValueKept /\ ReadyInv /\ CycleInv /\ TmpInv
----------------------------------------------------------------------------
(* Refinement                                                               *)

\* The destinations that have their final value: those without an edge, once
\* the edges are there.
Delivered == IF phase = "build" THEN {} ELSE {d \in Dst : src[d] = None}

Parallel == INSTANCE ParallelCopy
                WITH wanted <- [d \in Dst |-> InitVal[copies[d]]],
                     held <- [d \in Delivered |-> reg[d]]

\* lower_par_copy implements OpParCopy: every instruction it emits serves some
\* destinations with the values from before the copy, for good, or none; a
\* register that was served is neither used as scratch space nor written again.
ImplementsParCopy == Parallel!Spec
============================================================================
