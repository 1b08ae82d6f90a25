----------------------------- MODULE CalcDelays -----------------------------
(***************************************************************************)
(* calc_delays: the cycles between an instruction and the next one, found by *)
(* a backward data flow over the blocks, and the machine that runs the code. *)
(*                                                                          *)
(* Cycles are counted from the end of a block.  A block's input maps each     *)
(* register to its next reads and writes, each with the cycles from the      *)
(* start of the block to it (AccumulatedDelay).  A block is processed from    *)
(* its last instruction up: an instruction starts early enough for every      *)
(* later access of its registers, in this block or beyond, and for every      *)
(* barrier it signals to be active, two cycles later, when it is waited for.  *)
(* Predicates, the Kepler A memory barrier and the splitting of long delays   *)
(* into nops are left out; every pair of instructions has the same latencies. *)
(*                                                                          *)
(* The machine issues the instructions in order.  Operations that need a      *)
(* scoreboard stay in flight until a wait for their barrier: the slowest      *)
(* hardware.  Nothing else takes longer than its delay: the fastest.  In the  *)
(* serial mode every instruction is protected by its barriers alone.          *)
(***************************************************************************)
EXTENDS InstrDeps, Cfg

CONSTANTS
    RawLatency, WarLatency, WawLatency, \* ShaderModel::raw_latency, ...
    UpperBound,                         \* ShaderModel::latency_upper_bound
    MaxRounds                           \* the rounds of the data flow are counted up to this

ASSUME LatencyAssumption ==
    /\ {RawLatency, WarLatency, WawLatency, UpperBound, MaxRounds} \subseteq Nat
    /\ \A l \in {RawLatency, WarLatency, WawLatency} : l <= UpperBound

VARIABLES
    phase,      \* "deps", "flow", "run", "stop"
    instr_cycles, \* cycles from the start of the instruction to the end of its block
    state_in,   \* DelayRegTracker per block
    todo,       \* the blocks left in this round of the data flow
    changed,    \* whether this round changed a state
    rounds,     \* rounds so far, up to MaxRounds
    pc,         \* the position in order of the next instruction
    busy,       \* operations in flight: [bar, rw, reg, at]
    since,      \* cycles since a register was read (r) and written (w) by an
                \* instruction of fixed latency, and since a barrier was signalled
    clean       \* no instruction has issued into a hazard

flowVars == <<instr_cycles, state_in, todo, changed, rounds>>
machineVars == <<pc, busy, since, clean>>
allVars == <<depVars, phase, flowVars, machineVars>>

Blocks == {code[i].b : i \in Instrs}
InBlock(b) == {i \in Instrs : code[i].b = b}
LastOf(b) == Max(InBlock(b))

\* Function edges: fall-through first, then the branch target.
FallsThrough(b) == ~IsBranch(LastOf(b)) \/ code[LastOf(b)].cond
BlockSuccs(b) ==
    (IF FallsThrough(b) /\ b + 1 \in Blocks THEN <<b + 1>> ELSE << >>)
        \o (IF IsBranch(LastOf(b)) /\ code[LastOf(b)].to # 0 THEN <<code[LastOf(b)].to>> ELSE << >>)
CodeCfg == [n |-> Cardinality(Blocks), succ |-> [b \in Blocks |-> BlockSuccs(b)]]

NoTime == UpperBound + 2
NoUses == [r \in Regs |-> {}]

DelaysInit ==
    /\ Init
    /\ phase = "deps"
    /\ instr_cycles = [i \in Instrs |-> 0]
    /\ state_in = [b \in Blocks |-> NoUses]
    /\ todo = << >> /\ changed = FALSE /\ rounds = 0
    /\ pc = 1
    /\ busy = {}
    /\ since = [r |-> [r \in Regs |-> NoTime], w |-> [r \in Regs |-> NoTime],
                bar |-> [b \in Bars |-> NoTime]]
    /\ clean = TRUE

AssignDeps ==
    /\ phase = "deps"
    /\ stage # "done"
    /\ DepsNext
    /\ UNCHANGED <<phase, flowVars, machineVars>>

\* The serial mode runs as scheduled; the other one computes delays.
StartFlow ==
    /\ phase = "deps" /\ stage = "done"
    /\ IF mode = "serial" THEN phase' = "run" /\ UNCHANGED <<todo, changed>>
       ELSE phase' = "flow" /\ todo' = PostOrder(CodeCfg) /\ changed' = FALSE
    /\ UNCHANGED <<depVars, instr_cycles, state_in, rounds, machineVars>>

-----------------------------------------------------------------------------
(* The data flow.  uses[r] is a set of [rw, at, d].                           *)

\* Mutant: the join keeps the largest delay.
JoinUses_Largest(us, vs) ==
    {u \in us \cup vs : \A v \in us \cup vs : v.rw = u.rw /\ v.at = u.at => u.d >= v.d}

\* The join of the successors: the smallest delay for each access.
JoinUses(us, vs) ==
    {u \in us \cup vs : \A v \in us \cup vs : v.rw = u.rw /\ v.at = u.at => u.d <= v.d}

StateOut(b) ==
    FoldLeft(LAMBDA acc, s : [r \in Regs |-> JoinUses(acc[r], state_in[s][r])],
             NoUses, BlockSuccs(b))

\* dependency_to_cycle
ToCycle(cyc, i, use, latency) ==
    IF SameBlock(use.at, i) /\ use.at > i THEN cyc[use.at] + latency
    ELSE IF latency >= use.d THEN latency - use.d ELSE 0

\* set_write: the uses of r once the destinations of i are recorded.
AfterWrite(st, i, r) ==
    IF r \in code[i].dst THEN {[rw |-> "w", at |-> i, d |-> 0]} ELSE st.uses[r]

\* The cycles the accesses recorded for r ask of instruction i.  Its sources
\* come after its destinations and meet the write of i itself.
StartsFor(st, i, r) ==
    {ToCycle(st.cyc, i, u, IF u.rw = "w" THEN WawLatency ELSE RawLatency) :
        u \in IF r \in code[i].dst THEN st.uses[r] ELSE {}}
      \cup
    {ToCycle(st.cyc, i, u, WarLatency) :
        u \in IF r \in code[i].src THEN {v \in AfterWrite(st, i, r) : v.rw = "w"} ELSE {}}

\* A barrier takes two cycles to become active.
BarStarts(st, i) == {st.bars[b] + 2 : b \in {deps[i].rd, deps[i].wr} \ {NoBar}}

\* BlockDelayScheduler::process_instr
ProcessInstr(st, i) ==
    LET start == Max({st.cycle + 1} \cup BarStarts(st, i)
                        \cup UNION {StartsFor(st, i, r) : r \in Regs})
        use(r) == IF r \in code[i].src
                  THEN {u \in AfterWrite(st, i, r) : u.rw # "r" \/ u.at # i}
                          \cup {[rw |-> "r", at |-> i, d |-> 0]}
                  ELSE AfterWrite(st, i, r)
    IN  [uses  |-> [r \in Regs |-> use(r)],
         cyc   |-> [st.cyc EXCEPT ![i] = start],
         bars  |-> [b \in Bars |-> IF b \in deps[i].wt THEN start ELSE st.bars[b]],
         cycle |-> start]

BlockInstrs(b) == Reverse(SetToSortSeq(InBlock(b), <))

\* The transfer function: process the block, then add its cycles to what is
\* used after it; accesses too far away to matter are dropped.
Transfer(b, out) ==
    LET st == FoldLeft(ProcessInstr,
                       [uses |-> out, cyc |-> instr_cycles, bars |-> [x \in Bars |-> 0],
                        cycle |-> 0], BlockInstrs(b))
        later(u) == [u EXCEPT !.d = @ + st.cycle
                                      - (IF code[u.at].b = b THEN st.cyc[u.at] ELSE 0)]
    IN  [cyc |-> st.cyc,
         uses |-> [r \in Regs |-> {u \in {later(v) : v \in st.uses[r]} : u.d <= UpperBound}]]

\* BackwardDataflow::solve, one block.
FlowBlock ==
    /\ phase = "flow" /\ todo # << >>
    /\ LET b == Head(todo)
           t == Transfer(b, StateOut(b))
       IN  /\ instr_cycles' = t.cyc
           /\ state_in' = [state_in EXCEPT ![b] = t.uses]
           /\ changed' = (changed \/ t.uses # state_in[b])
    /\ todo' = Tail(todo)
    /\ UNCHANGED <<depVars, phase, rounds, machineVars>>

\* Another round when something changed, else the delays are final.
FlowRound ==
    /\ phase = "flow" /\ todo = << >>
    /\ rounds' = Min({rounds + 1, MaxRounds})
    /\ changed' = FALSE
    /\ IF changed THEN todo' = PostOrder(CodeCfg) /\ UNCHANGED phase
       ELSE phase' = "run" /\ UNCHANGED todo
    /\ UNCHANGED <<depVars, instr_cycles, state_in, machineVars>>

-----------------------------------------------------------------------------
(* The machine.                                                             *)

\* deps.delay: the cycles to the next instruction, at least MIN_INSTR_DELAY.
Delay(i) ==
    IF mode = "serial" THEN 1
    ELSE Max({1, instr_cycles[i] - (IF i < LastOf(code[i].b) THEN instr_cycles[i + 1] ELSE 0)})

\* Waiting for a write also waits for the reads of the same instruction.
AfterWait(i) ==
    LET done == {u \in busy : u.bar \in deps[i].wt}
    IN  {u \in busy \ done : u.rw = "w" \/ ~ \E v \in done : v.rw = "w" /\ v.at = u.at}

InFlight(i) ==
    IF ~NeedsScoreboard(i) /\ (mode = "barriers" \/ code[i].k \in {"sync", "bra"}) THEN {}
    ELSE {[bar |-> deps[i].rd, rw |-> "r", reg |-> r, at |-> i] : r \in code[i].src}
            \cup {[bar |-> deps[i].wr, rw |-> "w", reg |-> r, at |-> i] : r \in code[i].dst}

\* Instruction i may issue: its sources are written, its destinations are
\* neither being written nor still to be read, and, with delays, enough cycles
\* have gone by and the barriers it waits for are active.
NoHazard(i) ==
    /\ \A u \in AfterWait(i) : /\ u.reg \in code[i].src => u.rw # "w"
                               /\ u.reg \notin code[i].dst
    /\ mode = "barriers" =>
         /\ \A r \in code[i].src : since.w[r] >= RawLatency
         /\ \A r \in code[i].dst : since.w[r] >= WawLatency /\ since.r[r] >= WarLatency
         /\ \A b \in deps[i].wt : since.bar[b] >= 2

Later(t, d) == IF t + d > NoTime THEN NoTime ELSE t + d

Since(i) ==
    LET d == Delay(i)
        fixed == ~NeedsScoreboard(i)
    IN  [r |-> [r \in Regs |-> IF fixed /\ r \in code[i].src THEN d ELSE Later(since.r[r], d)],
         w |-> [r \in Regs |-> IF fixed /\ r \in code[i].dst THEN d ELSE Later(since.w[r], d)],
         bar |-> [b \in Bars |-> IF b \in {deps[i].rd, deps[i].wr} THEN d
                                 ELSE Later(since.bar[b], d)]]

\* The position of the first instruction of block b.
BlockStart(b) == Min({p \in DOMAIN order : code[order[p]].b = b})

\* The next position: the next instruction, or the target of a branch.
NextPc(i) ==
    LET next == {p \in {pc + 1} : p \in DOMAIN order}
    IN  IF ~IsBranch(i) THEN next
        ELSE (IF code[i].cond THEN next ELSE {})
                \cup (IF code[i].to # 0 THEN {BlockStart(code[i].to)} ELSE {})

Issue ==
    /\ phase = "run"
    /\ LET i == order[pc]
       IN  /\ clean' = (clean /\ NoHazard(i))
           /\ busy' = AfterWait(i) \cup InFlight(i)
           /\ since' = Since(i)
           /\ IF NextPc(i) = {} THEN phase' = "stop" /\ UNCHANGED pc
              ELSE pc' \in NextPc(i) /\ UNCHANGED phase
    /\ UNCHANGED <<depVars, flowVars>>

Done == phase = "stop" /\ UNCHANGED allVars

Next == AssignDeps \/ StartFlow \/ FlowBlock \/ FlowRound \/ Issue \/ Done

Spec == DelaysInit /\ [][Next]_allVars

-----------------------------------------------------------------------------

(***************************************************************************)
(* Whatever path is taken through the code, no instruction issues while a     *)
(* register it needs is in flight or before the latency of what it depends on *)
(* is over, and no barrier is waited for before it is active.  The serial     *)
(* pass empties its state at the end of a block without a wait, and relies on *)
(* the branch that ends the block to wait for everything: its promise is for  *)
(* code in which every block ends with one.                                   *)
(***************************************************************************)
HazardFree ==
    (mode = "serial" => \A b \in Blocks : IsBranch(LastOf(b))) => clean

(***************************************************************************)
(* "For back-cycles we assume the best and recompute when new data is          *)
(* available": the rounds of the data flow come to an end, here before the     *)
(* bound on their number.                                                     *)
(***************************************************************************)
FlowCompletes == phase = "flow" => rounds < MaxRounds
=============================================================================
