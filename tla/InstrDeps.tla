----------------------------- MODULE InstrDeps -----------------------------
(***************************************************************************)
(* How instructions are made to wait for each other: calc_instr_deps/ and   *)
(* opt_instr_sched_postpass.rs.                                             *)
(*                                                                          *)
(* An instruction may signal a scoreboard barrier when it has read its      *)
(* sources (rd_bar) and another one when it has written its destinations    *)
(* (wr_bar), and waits, before it issues, for the barriers of wt_bar_mask.  *)
(* Two passes choose those barriers.  "serial" is assign_deps_serial, which *)
(* the pipeline runs, followed by the post-RA scheduler, which reorders the *)
(* instructions of a block with their masks already in place.  "barriers"   *)
(* is assign_barriers, the analysis of calc_instr_deps: one pass over the   *)
(* code in layout order finds who waits for whom, a second one gives the    *)
(* dependencies that somebody waits for one of the few barriers.            *)
(*                                                                          *)
(* Code is the sequence of all instructions in layout order.  An            *)
(* instruction has a block b, a kind k, registers dst and src, and, for a    *)
(* branch, a target block (0 for OpExit) and whether it is conditional.      *)
(* Kinds: "alu" (fixed latency), "var" (needs a scoreboard), "mem" (needs a  *)
(* scoreboard, SideEffect::Memory), "sync" (OpBar: code motion barrier       *)
(* without operands) and "bra" (Bra and Exit).  Instructions are not         *)
(* predicated: no pass of the pipeline makes one.                            *)
(***************************************************************************)
EXTENDS Naturals, Sequences, FiniteSets, FiniteSetsExt, SequencesExt

CONSTANTS
    Regs,       \* the registers
    NumBars,    \* BarAlloc::num_bars, 6 in the code
    Modes,      \* a subset of {"serial", "barriers"}
    Codes       \* the instruction sequences the passes are given

ASSUME NumBarsAssumption == NumBars \in Nat /\ NumBars >= 2
ASSUME ModesAssumption == Modes \subseteq {"serial", "barriers"}

\* Layout order: the instructions of a block follow each other.
ASSUME CodesAssumption ==
    \A text \in Codes :
        /\ text \in Seq([b : Nat, k : {"alu", "var", "mem", "sync", "bra"},
                         dst : SUBSET Regs, src : SUBSET Regs, to : Nat, cond : BOOLEAN])
        /\ \A i, j \in 1 .. Len(text) : i <= j => text[i].b <= text[j].b

VARIABLES
    mode,       \* the pass that is used
    code,       \* the instructions in layout order
    stage,      \* the pass that runs: "serial", "sched", "graph", "bars", "done"
    ip,         \* the instruction the pass has come to
    uses,       \* RegTracker<RegUse>: the last write or the reads of a register
    active,     \* DepGraph::active: signalled and not waited for yet
    first_wait, \* DepNode::first_wait, 0 for None
    instr_waits,\* DepGraph::instr_waits
    bar_dep,    \* BarAlloc::bar_dep, 0 for a free barrier
    deps,       \* InstrDeps of each instruction
    order       \* the scheduled tail of the code, indices into code

depVars == <<mode, code, stage, ip, uses, active, first_wait, instr_waits,
             bar_dep, deps, order>>

Bars == 0 .. NumBars - 1
NoBar == NumBars
NoDeps == [wt |-> {}, rd |-> NoBar, wr |-> NoBar]

Instrs == 1 .. Len(code)
IsBranch(i) == code[i].k = "bra"
NeedsScoreboard(i) == code[i].k \in {"var", "mem"}
SameBlock(i, j) == code[i].b = code[j].b

\* Two instructions whose order matters: they share a register that one of
\* them writes, both access memory, or one is a code motion barrier.
Touches(i) == code[i].dst \cup code[i].src
IsMotionBarrier(i) == code[i].k \in {"sync", "bra"}
IsMemory(i) == code[i].k = "mem"
Conflict(i, j) == \/ code[i].dst \cap Touches(j) # {}
                  \/ code[j].dst \cap Touches(i) # {}
                  \/ IsMemory(i) /\ IsMemory(j)
                  \/ IsMotionBarrier(i) \/ IsMotionBarrier(j)

Init ==
    /\ mode \in Modes
    /\ code \in Codes
    /\ stage = IF mode = "serial" THEN "serial" ELSE "graph"
    /\ ip = 1
    /\ uses = [r \in Regs |-> [k |-> "None", deps |-> {}]]
    /\ active = {}
    /\ first_wait = [d \in 1 .. 2 * Len(code) |-> 0]
    /\ instr_waits = [i \in Instrs |-> {}]
    /\ bar_dep = [b \in Bars |-> 0]
    /\ deps = [i \in Instrs |-> NoDeps]
    /\ order = << >>

-----------------------------------------------------------------------------
(* assign_deps_serial: barrier 0 stands for every write, barrier 1 for      *)
(* every read.                                                              *)

SerialSignals(i) ==
    IF code[i].k \in {"sync", "bra"} THEN {}
    ELSE (IF code[i].dst # {} THEN {0} ELSE {})
            \cup (IF code[i].src # {} THEN {1} ELSE {})

\* The wait mask wt of the loop, which starts empty in every block.
SerialMask(i) ==
    UNION {SerialSignals(j) : j \in {j \in 1 .. i - 1 : SameBlock(i, j)}}

SerialDeps(i) ==
    [wt |-> IF IsBranch(i) THEN Bars
            ELSE IF code[i].k = "sync" THEN {}
            ELSE SerialMask(i),
     rd |-> IF 1 \in SerialSignals(i) THEN 1 ELSE NoBar,
     wr |-> IF 0 \in SerialSignals(i) THEN 0 ELSE NoBar]

AssignDepsSerial ==
    /\ stage = "serial"
    /\ deps' = [i \in Instrs |-> SerialDeps(i)]
    /\ stage' = "sched"
    /\ UNCHANGED <<mode, code, ip, uses, active, first_wait, instr_waits, bar_dep, order>>

-----------------------------------------------------------------------------
(* opt_instr_sched_postpass: the blocks one by one.  generate_order picks   *)
(* instructions from the bottom of the block up, any of those whose         *)
(* dependents are placed; which one is a matter of estimated cycles, which  *)
(* are left out.  The model places the last block first.                     *)

\* An access of r between i and j hides the edge from i to j.
WrittenBetween(i, j, r) == \E k \in i + 1 .. j - 1 : r \in code[k].dst

\* Mutant: no edge from a read to the next write.
RegEdge_NoWar(i, j) ==
    \E r \in code[i].dst \cap Touches(j) : ~WrittenBetween(i, j, r)

\* Edges of uses: RaW and WaW to what comes before the next write, WaR to it.
RegEdge(i, j) ==
    \/ \E r \in code[i].dst \cap Touches(j) : ~WrittenBetween(i, j, r)
    \/ \E r \in code[i].src \cap code[j].dst : ~WrittenBetween(i, j, r)

\* Edges of side_effect_type: to the nearest memory operation, to the nearest
\* code motion barrier, and from a barrier to everything before the next one.
SideEffectEdge(i, j) ==
    \/ IsMemory(i) /\ IsMemory(j) /\ ~ \E k \in i + 1 .. j - 1 : IsMemory(k)
    \/ /\ IsMotionBarrier(i) \/ IsMotionBarrier(j)
       /\ ~ \E k \in i + 1 .. j - 1 : IsMotionBarrier(k)

DepEdge(i, j) == i < j /\ SameBlock(i, j) /\ (RegEdge(i, j) \/ SideEffectEdge(i, j))

Unplaced == Instrs \ ToSet(order)

\* use_count = 0: everything that depends on i is placed.
Ready(i) == \A j \in Unplaced : ~DepEdge(i, j)

\* One turn of the loop of generate_order.
Schedule(i) ==
    /\ stage = "sched"
    /\ i \in Unplaced
    /\ code[i].b = Max({code[j].b : j \in Unplaced})
    /\ Ready(i)
    /\ order' = <<i>> \o order
    /\ UNCHANGED <<mode, code, stage, ip, uses, active, first_wait, instr_waits, bar_dep, deps>>

EndSchedule ==
    /\ stage = "sched"
    /\ Unplaced = {}
    /\ stage' = "done"
    /\ UNCHANGED <<mode, code, ip, uses, active, first_wait, instr_waits, bar_dep, deps, order>>

-----------------------------------------------------------------------------
(* assign_barriers, first loop: the dependencies.  Instruction i has the     *)
(* dependencies RdDep(i) and WrDep(i); a wait for the write is a wait for    *)
(* the read (DepNode::read_dep).                                            *)

RdDep(i) == 2 * i - 1
WrDep(i) == 2 * i
ReadDepOf(d) == d - 1
IsWriteDep(d) == d % 2 = 0

NoUse == [k |-> "None", deps |-> {}]

\* RegUse::add_read, set_write, clear_write and clear as (new use, waits).
AddRead(u, d) ==
    IF u.k = "Reads" THEN [use |-> [u EXCEPT !.deps = @ \cup {d}], waits |-> {}]
    ELSE [use |-> [k |-> "Reads", deps |-> {d}], waits |-> u.deps]

SetWrite(u, d) == [use |-> [k |-> "Write", deps |-> {d}], waits |-> u.deps]

ClearWrite(u) == IF u.k = "Write" THEN [use |-> NoUse, waits |-> u.deps]
                 ELSE [use |-> u, waits |-> {}]

ClearUse(u) == [use |-> NoUse, waits |-> u.deps]

\* What the sources and then the destinations of instruction i do to the use
\* of register r.  Waits on the instruction's own read are left out.
UseAfter(i, r) ==
    LET afterSrc ==
            IF r \notin code[i].src THEN [use |-> uses[r], waits |-> {}]
            ELSE IF NeedsScoreboard(i) THEN AddRead(uses[r], RdDep(i))
            ELSE ClearWrite(uses[r])
        afterDst ==
            IF r \notin code[i].dst THEN [use |-> afterSrc.use, waits |-> {}]
            ELSE IF NeedsScoreboard(i) THEN SetWrite(afterSrc.use, WrDep(i))
            ELSE ClearUse(afterSrc.use)
    IN  [use |-> afterDst.use,
         waits |-> afterSrc.waits \cup (afterDst.waits \ {RdDep(i)})]

\* DepGraph::add_waits: reads covered by a waited write leave the active set,
\* then every dependency still active is recorded as waited for here.
CoveredReads(waits) == {ReadDepOf(d) : d \in {w \in waits : IsWriteDep(w)}}

AddWaits(act, waits) == (act \ CoveredReads(waits)) \cap waits

RecordWaits(waits, act) ==
    LET kept == AddWaits(act, waits)
    IN  /\ first_wait' = [d \in DOMAIN first_wait |->
                            IF d \in kept THEN ip ELSE first_wait[d]]
        /\ instr_waits' = [instr_waits EXCEPT ![ip] = kept]
        /\ active' = (act \ CoveredReads(waits)) \ kept

GraphStep == /\ stage = "graph"
             /\ ip \in Instrs
             /\ ip' = ip + 1
             /\ UNCHANGED <<mode, code, stage, bar_dep, deps, order>>

\* DepGraph::add_barrier: a branch waits for everything.
GraphBranch ==
    /\ GraphStep
    /\ IsBranch(ip)
    /\ RecordWaits(active, active)
    /\ UNCHANGED uses

\* Every other instruction.  add_signal makes a dependency active only when
\* the instruction has a register to signal.
GraphInstr ==
    /\ GraphStep
    /\ ~IsBranch(ip)
    /\ uses' = [r \in Regs |-> UseAfter(ip, r).use]
    /\ LET signals == IF NeedsScoreboard(ip)
                      THEN (IF code[ip].src # {} THEN {RdDep(ip)} ELSE {})
                              \cup (IF code[ip].dst # {} THEN {WrDep(ip)} ELSE {})
                      ELSE {}
       IN  RecordWaits(UNION {UseAfter(ip, r).waits : r \in Regs}, active \cup signals)

EndGraph ==
    /\ stage = "graph"
    /\ ip > Len(code)
    /\ stage' = "bars"
    /\ ip' = 1
    /\ UNCHANGED <<mode, code, uses, active, first_wait, instr_waits, bar_dep, deps, order>>

-----------------------------------------------------------------------------
(* assign_barriers, second loop: the barriers.                              *)

\* DepGraph::dep_is_waited_after
IsWaitedAfter(d) == first_wait[d] > ip

FreeBars(bd) == {b \in Bars : bd[b] = 0}

\* free_some_bar: the barrier of the oldest dependency.
FreeSomeBar(bd) == CHOOSE b \in Bars : \A c \in Bars : bd[b] <= bd[c]

\* A barrier for dependency d when somebody waits for it later: a free one,
\* or one that is taken away, in which case this instruction waits for it.
\* Mutant: a barrier is taken away without waiting for it.
TakeBar_NoWait(a, d) ==
    LET free == FreeBars(a.bd)
        bar  == IF free # {} THEN Min(free) ELSE FreeSomeBar(a.bd)
    IN  IF ~IsWaitedAfter(d) THEN [a EXCEPT !.bar = NoBar]
        ELSE [bd |-> [a.bd EXCEPT ![bar] = d], bar |-> bar, wt |-> a.wt]

TakeBar(a, d) ==
    LET free == FreeBars(a.bd)
        bar  == IF free # {} THEN Min(free) ELSE FreeSomeBar(a.bd)
    IN  IF ~IsWaitedAfter(d) THEN [a EXCEPT !.bar = NoBar]
        ELSE [bd |-> [a.bd EXCEPT ![bar] = d],
              bar |-> bar,
              wt |-> IF free # {} THEN a.wt ELSE a.wt \cup {bar}]

AllocBars ==
    /\ stage = "bars"
    /\ ip \in Instrs
    /\ LET waited == {b \in Bars : bar_dep[b] \in instr_waits[ip] \ {0}}
           start == [bd |-> [b \in Bars |-> IF b \in waited THEN 0 ELSE bar_dep[b]],
                     bar |-> NoBar, wt |-> waited]
           rd == IF NeedsScoreboard(ip) THEN TakeBar(start, RdDep(ip)) ELSE start
           wr == IF NeedsScoreboard(ip) THEN TakeBar(rd, WrDep(ip)) ELSE start
       IN  /\ bar_dep' = wr.bd
           /\ deps' = [deps EXCEPT ![ip] = [wt |-> wr.wt, rd |-> rd.bar, wr |-> wr.bar]]
    /\ ip' = ip + 1
    /\ UNCHANGED <<mode, code, stage, uses, active, first_wait, instr_waits, order>>

EndBars ==
    /\ stage = "bars"
    /\ ip > Len(code)
    /\ order' = [i \in Instrs |-> i]
    /\ stage' = "done"
    /\ UNCHANGED <<mode, code, ip, uses, active, first_wait, instr_waits, bar_dep, deps>>

DepsNext ==
    \/ AssignDepsSerial \/ EndSchedule
    \/ \E i \in Instrs : Schedule(i)
    \/ GraphBranch \/ GraphInstr \/ EndGraph
    \/ AllocBars \/ EndBars

\* The passes by themselves; CalcDelays goes on with the result.
DepsSpec == Init /\ [][DepsNext]_depVars

-----------------------------------------------------------------------------

(***************************************************************************)
(* The scheduler works on one block after the other and only draws edges to *)
(* the nearest dependent; the order it makes still keeps every two           *)
(* conflicting instructions of a block, however far apart, in their order.   *)
(***************************************************************************)
ScheduleKeepsConflicts ==
    \A p, q \in DOMAIN order :
        p < q /\ SameBlock(order[p], order[q]) /\ Conflict(order[p], order[q])
            => order[p] < order[q]

=============================================================================
