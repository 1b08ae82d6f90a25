------------------------------- MODULE MidEnd -------------------------------
(***************************************************************************)
(* The passes of codegen/pipeline.rs that change the control flow, the SSA    *)
(* form or the places of values: opt_dce, opt_jump_thread, fix_entry_live_in   *)
(* (with repair_ssa), and the two parts of assign_regs, to_cssa and the          *)
(* assignment of registers.  One action each, in the order of the pipeline.     *)
(* want is what the function did before the first pass, for every outcome of    *)
(* its branches.                                                             *)
(***************************************************************************)
EXTENDS AssignRegs

CONSTANTS Functions,   \* the functions of the instance
          Outcomes,     \* outcomes of the conditional branches, by id
          Fuel         \* the blocks an execution may visit

ASSUME FuelAssumption == Fuel \in Nat \ {0}

VARIABLES f, want, stage

vars == <<f, want, stage>>

\* Every value in a place of its own.
Apart(g) == [v \in 1 .. g.ssa |-> v]
Does(g) == [c \in Outcomes |-> Run(g, c, Fuel, Apart(g), TRUE)]

Init ==
    /\ f \in Functions
    /\ want = Does(f)
    /\ stage = "front_end"

Pass(from, to, g) ==
    /\ stage = from
    /\ ~f.failed
    /\ f' = g
    /\ stage' = to
    /\ UNCHANGED want

Dce == Pass("front_end", "dce", OptDce(f))
JumpThread == Pass("dce", "threaded", OptJumpThread(f))
FixEntry == Pass("threaded", "ssa", FixEntryLiveIn(f))
Cssa == /\ stage = "ssa"
        /\ \E live \in {Liveness(f)}, nodes \in {SortedNodes(f)} :
              Pass("ssa", "cssa", ToCssa(f, live, nodes))
Assign == /\ stage = "cssa"
          /\ \E up \in BOOLEAN, live \in {Liveness(f)} : \E env \in {Environment(f, live, up)} :
                \E st \in {FirstPasses(env)} : Pass("cssa", "regs", AssignRegs(env, st))
Done == (stage = "regs" \/ f.failed) /\ UNCHANGED vars

Next == Dce \/ JumpThread \/ FixEntry \/ Cssa \/ Assign \/ Done

Spec == Init /\ [][Next]_vars

-----------------------------------------------------------------------------

(***************************************************************************)
(* No pass fails: repair_ssa "can always trace backward to a definition", and    *)
(* in assign_regs every phi source of a predecessor belongs to a phi of the       *)
(* block, every value that is read has a register and no two values that live     *)
(* together get the same one.                                                *)
(***************************************************************************)
PassesSucceed == ~f.failed

(***************************************************************************)
(* Whatever its branches decide, the function stores what it stored before     *)
(* the passes, except where it stored an undefined value.                     *)
(***************************************************************************)
SemanticsKept ==
    stage \in {"dce", "threaded", "ssa", "cssa"} /\ ~f.failed =>
        \A c \in Outcomes : Agrees(want[c], Run(f, c, Fuel, Apart(f), TRUE))

(***************************************************************************)
(* fix_entry_live_in "Fixes SSA dominance violations": after it every value    *)
(* has one definition, which dominates its uses, and every phi has a source    *)
(* from each predecessor of its block.                                       *)
(***************************************************************************)
DominatedBy(p, q) == IF p[1] = q[1] THEN p[2] < q[2] ELSE DominatesRef(f.cfg, p[1], q[1])
IsSsa == stage \in {"ssa", "cssa"}
StrictSsa ==
    IsSsa =>
      /\ \A v \in DefsOf(f) : Cardinality(DefPlaces(f, v)) = 1
      /\ \A b \in Reachable(f.cfg) : \A k \in DOMAIN f.blocks[b] :
           /\ \A v \in ToSet(f.blocks[b][k].src) :
                 \E p \in DefPlaces(f, v) : DominatedBy(p, <<b, k>>)
           /\ f.blocks[b][k].op = "phidsts" =>
                 \A q \in ToSet(f.blocks[b][k].phi) : \A r \in Preds(f.cfg, b) :
                    \E j \in PhiSrcsOf(f.blocks[r]) : q \in ToSet(f.blocks[r][j].phi)

(***************************************************************************)
(* SimpleLiveness: a value is live into a block exactly when some path leads   *)
(* from it to a use with no definition on the way.                            *)
(***************************************************************************)
RECURSIVE NeededFrom(_, _)
NeededFrom(v, seen) ==
    LET from == {b \in seen : v \notin BlockUses(f, b) /\ v \notin BlockDefs(f, b)}
        more == seen \cup UNION {Succs(f.cfg, b) : b \in from}
    IN  IF more = seen THEN seen ELSE NeededFrom(v, more)
LiveInRef(v, b) == /\ v \notin BlockDefs(f, b)
                   /\ \E c \in NeededFrom(v, {b}) : v \in BlockUses(f, c) /\ v \notin BlockDefs(f, c)
LivenessExact ==
    IsSsa => LET live == Liveness(f)
             IN  \A b \in Reachable(f.cfg) : live.live_in[b] = {v \in UsesOf(f) : LiveInRef(v, b)}

(***************************************************************************)
(* to_cssa, the phi congruence property: the values of a phi can be replaced    *)
(* by one and the phi removed, and the function still stores the same.         *)
(***************************************************************************)
PhiPairs(i) == LET vals == IF i.op = "phidsts" THEN i.dst ELSE i.src
               IN  {<<i.phi[k], vals[k]>> : k \in DOMAIN vals}
Webs == LET pairs == UNION {PhiPairs(i) : i \in {j \in Instrs(f) : j.op \in {"phidsts", "phisrcs"}}}
        IN  FoldSet(LAMBDA p, rep : Union(rep, p[2], f.ssa + p[1]),
                    [v \in 1 .. f.ssa + f.phi |-> v], pairs)
PhiCongruence ==
    stage = "cssa" =>
        \A webs \in {Webs} : \A c \in Outcomes : Agrees(want[c], Run(f, c, Fuel, webs, FALSE))

(***************************************************************************)
(* The same for functions without critical edges, as opt_jump_thread and the    *)
(* spiller want them: no block with several successors is one of several        *)
(* predecessors of another.                                                  *)
(***************************************************************************)
CriticalEdge == \E b \in Reachable(f.cfg) : /\ Cardinality(Preds(f.cfg, b)) > 1
                                              /\ \E p \in Preds(f.cfg, b) : Len(f.cfg.succ[p]) > 1
PhiCongruenceSplit == ~CriticalEdge => PhiCongruence

(***************************************************************************)
(* assign_regs: with the registers each block takes over, those allocated for    *)
(* an edge back and the copies on the edges in place of the phis, the function    *)
(* stores what it stored before the passes.                                   *)
(***************************************************************************)
AllocationKeeps ==
    stage = "regs" /\ ~f.failed =>
        \A c \in Outcomes : Agrees(want[c], Run(f, c, Fuel, Apart(f), FALSE))

(***************************************************************************)
(* The same for functions without critical edges.                             *)
(***************************************************************************)
AllocationKeepsSplit == ~CriticalEdge => AllocationKeeps
=============================================================================
