------------------------------ MODULE RegAlloc ------------------------------
(***************************************************************************)
(* Register assignment inside a basic block, for one register file:         *)
(* RegAllocator and VecRegAllocator (assign_regs/reg_allocator.rs),         *)
(* instr_assign_regs_file (instr_assign.rs), and the Copy, Pin and Unpin     *)
(* arms of assign_regs_instr (block.rs).                                    *)
(*                                                                          *)
(* An instruction reads vectors of SSA values that must lie in consecutive, *)
(* aligned registers.  The allocator moves values out of the way with a     *)
(* parallel copy that runs just before the instruction.  `val' is what the  *)
(* machine registers hold before the instruction that is being assigned;    *)
(* a value is named by the SSA value it belongs to.                         *)
(***************************************************************************)
EXTENDS Integers, Sequences, FiniteSets

CONSTANTS
    RegCount,     \* registers of the file (reg_count)
    NumSSA,       \* SSA names; a name is used again when its value is dead
    MaxComps,     \* components of the widest vector, a power of two
    MaxOperands,  \* sources, vector destinations and pinned vectors at one time
    MaxSrcs,      \* bound: sources of one instruction
    MaxDsts,      \* bound: destinations of one instruction
    MaxPinned,    \* vectors that OpPin holds in place at one time
    MaxInstrs     \* bound: instructions of the block

Reg == 0 .. RegCount - 1
SSA == 1 .. NumSSA
None == -1
Junk == 0        \* what a register holds that belongs to no live value

ASSUME SizeAssumption ==
    /\ RegCount \in Nat \ {0} /\ NumSSA \in Nat /\ NumSSA >= RegCount
    /\ MaxComps \in {1, 2, 4} /\ MaxOperands \in Nat /\ MaxSrcs \in Nat
    /\ MaxDsts \in Nat /\ MaxPinned \in Nat /\ MaxInstrs \in Nat

\* assign_regs: "An instruction can have at most 4 vector sources or
\* destinations.  In order to ensure we always succeed at allocation [...] we
\* need at least 16 GPRs", for vectors of up to 4 components.
ASSUME EnoughRegs == RegCount >= MaxOperands * MaxComps

VARIABLES
    ssaReg,       \* RegAllocator.ssa_reg, a function on the allocated values
    regSsa,       \* RegAllocator.reg_ssa
    used,         \* RegAllocator.used
    pinned,       \* RegAllocator.pinned
    vpin,         \* VecRegAllocator.pinned
    evicted,      \* VecRegAllocator.evicted: value -> register it is still in
    pcopy,        \* the parallel copy before the instruction, <<dst, src>>*
    instr,        \* the instruction: op, srcs, dsts, killed
    mode,         \* which way through the handler was chosen
    pc,           \* the step of the handler
    n,            \* operand being handled, from 1
    c,            \* component being moved, from 0
    tgt,          \* register range that collect_vector moves a vector to
    srcReg,       \* registers written into the instruction's sources
    dstReg,       \* and into its destinations
    val,          \* machine: value in every register
    ip            \* instructions finished

alloc == <<ssaReg, regSsa, used, pinned>>
vra == <<vpin, evicted, pcopy>>
operands == <<srcReg, dstReg>>
vars == <<alloc, vra, instr, mode, pc, n, c, tgt, operands, val, ip>>

----------------------------------------------------------------------------
(* Helpers                                                                  *)

Live == DOMAIN ssaReg
Comps(vec) == {vec[k] : k \in DOMAIN vec}
EmptyFn == [s \in {} |-> None]
Minimum(S) == CHOOSE x \in S : \A y \in S : x <= y

Image(f) == {f[s] : s \in DOMAIN f}
Without(f, S) == [t \in DOMAIN f \ S |-> f[t]]
Overlay(f, m) == [t \in DOMAIN f \cup DOMAIN m |-> IF t \in DOMAIN m THEN m[t] ELSE f[t]]

\* New places for values: one value, or the components of a vector from
\* register reg on.
One(s, r) == [t \in {s} |-> r]
VecMap(vec, reg) ==
    [s \in Comps(vec) |-> reg + (CHOOSE k \in DOMAIN vec : vec[k] = s) - 1]

Align(comps) == CASE comps = 1 -> 1 [] comps = 2 -> 2 [] OTHER -> 4

RangeOf(reg, comps) == reg .. reg + comps - 1

\* try_find_unset_reg_range: the lowest aligned range free of `set'.
FindUnset(set, start, comps) ==
    LET fits == {r \in start .. RegCount - comps :
                    r % Align(comps) = 0 /\ RangeOf(r, comps) \cap set = {}}
    IN  IF fits = {} THEN None ELSE Minimum(fits)

\* try_get_vec_reg
TryGetVecReg(vec) ==
    IF /\ Comps(vec) \subseteq Live
       /\ ssaReg[vec[1]] % Align(Len(vec)) = 0
       /\ \A k \in DOMAIN vec : ssaReg[vec[k]] = ssaReg[vec[1]] + k - 1
    THEN ssaReg[vec[1]] ELSE None

\* try_get_ssa for a set of registers
Occupants(regs) == {regSsa[r] : r \in regs \cap used}

\* free_ssa of the values `gone', then assign_reg for the places of `m'.
Reassign(gone, m) ==
    LET regs == {ssaReg[s] : s \in gone}
    IN  /\ ssaReg' = Overlay(Without(ssaReg, gone), m)
        /\ regSsa' = [r \in Reg |-> IF r \in Image(m) THEN CHOOSE s \in DOMAIN m : m[s] = r
                                    ELSE regSsa[r]]
        /\ used' = (used \ regs) \cup Image(m)
        /\ pinned' = pinned \ regs

----------------------------------------------------------------------------
(* The instructions that reach the allocator                                *)

Injective(vec) == \A j, k \in DOMAIN vec : vec[j] = vec[k] => j = k

\* A vector of different live values.
SrcVector ==
    {v \in UNION {[1 .. k -> Live] : k \in 1 .. MaxComps} : Injective(v)}

\* legalize makes the vector sources of an instruction identical or disjoint;
\* the sources are listed vectors first, which is the order in which
\* instr_remap_srcs_file collects them.
LegalSrcs(srcs) ==
    \A j, k \in DOMAIN srcs :
        /\ j < k => Len(srcs[k]) = 1 \/ Len(srcs[j]) > 1
        /\ Len(srcs[j]) > 1 /\ Len(srcs[k]) > 1 =>
              \/ srcs[j] = srcs[k]
              \/ Comps(srcs[j]) \cap Comps(srcs[k]) = {}

\* OpPin pins whole vectors: a pinned value is used as a scalar or with others
\* that are pinned beside it.
PinnedTogether(vec) ==
    (\E k \in DOMAIN vec : ssaReg[vec[k]] \in pinned) =>
        TryGetVecReg(vec) # None /\ \A k \in DOMAIN vec : ssaReg[vec[k]] \in pinned

VecIdx(seq) == {k \in DOMAIN seq : Len(seq[k]) > 1}
AllComps(seq) == UNION {Comps(seq[k]) : k \in DOMAIN seq}

\* Mutant: vector destinations are counted after the sources are killed.
FitsMaxLive_LateVectors(dsts, killed) ==
    /\ Cardinality(Live) <= RegCount
    /\ Cardinality(Live \ killed) + Cardinality(AllComps(dsts)) <= RegCount

\* LiveSet::insert_instr_top_down: vector destinations go live before the
\* sources are killed, scalar ones after; assign_regs provides as many
\* registers as are ever live.
FitsMaxLive(dsts, killed) ==
    LET vecs == UNION {Comps(dsts[k]) : k \in VecIdx(dsts)}
    IN  /\ Cardinality(Live) + Cardinality(vecs) <= RegCount
        /\ Cardinality(Live \ killed) + Cardinality(AllComps(dsts)) <= RegCount

\* Destinations are new values; they get the lowest names that are dead.
DeadName(k) ==
    CHOOSE s \in SSA \ Live : Cardinality({t \in SSA \ Live : t < s}) = k

FreshDsts(shape) ==
    LET off[d \in 1 .. Len(shape)] ==
            IF d = 1 THEN 0 ELSE off[d - 1] + shape[d - 1]
    IN  [d \in 1 .. Len(shape) |->
            [k \in 1 .. shape[d] |-> DeadName(off[d] + k - 1)]]

\* SSA form: a destination is a new value.
NewValues(dsts) ==
    /\ \A d \in DOMAIN dsts : Comps(dsts[d]) \subseteq SSA \ Live /\ Injective(dsts[d])
    /\ \A d, e \in DOMAIN dsts : d # e => Comps(dsts[d]) \cap Comps(dsts[e]) = {}

\* Registers that OpPin holds, counted in aligned ranges.
PinnedRanges(P) == {r \div MaxComps : r \in P}

OperandCount(srcs, dsts) ==
    Len(srcs) + Cardinality(VecIdx(dsts)) + Cardinality(PinnedRanges(pinned))

----------------------------------------------------------------------------
(* instr_assign_regs_file: the choice between its four ways                  *)

\* Vector sources all of whose components die here, each vector once.
KilledVecs(srcs, killed) ==
    {k \in VecIdx(srcs) : /\ Comps(srcs[k]) \subseteq killed
                          /\ \A j \in 1 .. k - 1 : srcs[j] # srcs[k]}

\* The order of falling size, later operands first (the code sorts stably by
\* size and then takes from the end), and the position in it.
Before(seq, j, k) == Len(seq[j]) > Len(seq[k]) \/ (Len(seq[j]) = Len(seq[k]) /\ j > k)
Rank(seq, idx, k) == Cardinality({j \in idx : Before(seq, j, k)})

\* vec_dst.killed: the killed source whose registers the destination takes.
MappedSrcs(srcs, dsts, killed, d) ==
    LET kv == KilledVecs(srcs, killed)
    IN  {k \in kv : /\ Rank(srcs, kv, k) = Rank(dsts, VecIdx(dsts), d)
                    /\ Len(srcs[k]) >= Len(dsts[d])}

DstsMapToKilled(srcs, dsts, killed) ==
    \A d \in VecIdx(dsts) : MappedSrcs(srcs, dsts, killed, d) # {}

\* Unused ranges for the vector destinations, each behind the ones before it.
TrivialRegs(dsts) ==
    LET idx == VecIdx(dsts)
        behind(f, d) ==
            {m \in 0 .. RegCount + MaxComps :
                \A e \in idx : Before(dsts, e, d) => m >= f[e] + Len(dsts[e])}
    IN  {f \in [idx -> Reg] :
            \A d \in idx : f[d] = FindUnset(used, Minimum(behind(f, d)), Len(dsts[d]))}

CouldTriviallyAllocate(dsts) == TrivialRegs(dsts) # {}

ChooseMode(i) ==
    IF i.op \in {"pin", "unpin"}
    THEN IF Cardinality(i.killed) = Len(i.srcs[1]) THEN "pinMove" ELSE "pinCopy"
    ELSE IF VecIdx(i.dsts) = {} THEN "easy"
    ELSE IF DstsMapToKilled(i.srcs, i.dsts, i.killed) THEN "mapped"
    ELSE IF CouldTriviallyAllocate(i.dsts) THEN "trivial"
    ELSE "general"

----------------------------------------------------------------------------
(* Init: the live-in values of the block, in any registers.  The names of    *)
(* SSA values carry no meaning, so the value in register r is called r + 1.  *)

NoInstr == [op |-> "none", srcs |-> << >>, dsts |-> << >>, killed |-> {}]

Init ==
    /\ used \in SUBSET Reg
    /\ pinned \in {{}} \cup
          (IF MaxPinned = 0 THEN {}
           ELSE {P \in SUBSET used : \E r \in Reg : r % MaxComps = 0
                                         /\ P \subseteq RangeOf(r, MaxComps)})
    /\ ssaReg = [s \in {r + 1 : r \in used} |-> s - 1]
    /\ regSsa = [r \in Reg |-> IF r \in used THEN r + 1 ELSE Junk]
    /\ val = [r \in Reg |-> IF r \in used THEN r + 1 ELSE Junk]
    /\ vpin = {} /\ evicted = EmptyFn /\ pcopy = << >>
    /\ instr = NoInstr /\ mode = "easy"
    /\ pc = "idle" /\ n = 1 /\ c = 0 /\ tgt = None
    /\ srcReg = << >> /\ dstReg = << >>
    /\ ip = 0

----------------------------------------------------------------------------
(* Actions                                                                  *)

\* Read the next instruction, choose the way and make the VecRegAllocator.
AtInstr == pc = "idle" /\ ip < MaxInstrs

\* The registers of the destinations that are known at the start.
FirstDstRegs(dsts, way) ==
    [d \in DOMAIN dsts |-> IF way = "trivial" /\ d \in VecIdx(dsts)
                           THEN (CHOOSE f \in TrivialRegs(dsts) : TRUE)[d] ELSE None]

\* Mutant: the VecRegAllocator starts without the pinned registers.
Begin_NoPins(i) ==
    /\ instr' = i
    /\ mode' = ChooseMode(i)
    /\ pc' = CASE mode' = "trivial" -> "assign"
               [] mode' = "pinCopy" -> "alloc"
               [] OTHER -> "collect"
    /\ n' = 1
    /\ vpin' = {} /\ evicted' = EmptyFn /\ pcopy' = << >>
    /\ srcReg' = [k \in DOMAIN i.srcs |-> None]
    /\ dstReg' = FirstDstRegs(i.dsts, mode')
    /\ UNCHANGED <<alloc, c, tgt, val, ip>>

Begin(i) ==
    /\ instr' = i
    /\ mode' = ChooseMode(i)
    /\ pc' = CASE mode' = "trivial" -> "assign"
               [] mode' = "pinCopy" -> "alloc"
               [] OTHER -> "collect"
    /\ n' = 1
    /\ vpin' = pinned /\ evicted' = EmptyFn /\ pcopy' = << >>
    /\ srcReg' = [k \in DOMAIN i.srcs |-> None]
    /\ dstReg' = FirstDstRegs(i.dsts, mode')
    /\ UNCHANGED <<alloc, c, tgt, val, ip>>

\* Names are left for all destinations of this shape.
NamesLeft(shape) ==
    Len(shape) * MaxComps <= NumSSA - Cardinality(Live)

\* The default arm: any sources, vector and scalar destinations.  Vectors are
\* listed first: the code gives them registers before the scalars.
BeginInstr ==
    /\ AtInstr
    /\ \E ns \in 0 .. MaxSrcs, nd \in 0 .. MaxDsts :
       \E srcs \in [1 .. ns -> SrcVector], shape \in [1 .. nd -> 1 .. MaxComps] :
           /\ LegalSrcs(srcs) /\ NamesLeft(shape) /\ NewValues(FreshDsts(shape))
           /\ \A d \in 2 .. nd : shape[d] <= shape[d - 1]
           /\ \A k \in DOMAIN srcs : PinnedTogether(srcs[k])
           /\ LET dsts == FreshDsts(shape)
              IN  /\ OperandCount(srcs, dsts) <= MaxOperands
                  /\ \E killed \in SUBSET AllComps(srcs) :
                        /\ FitsMaxLive(dsts, killed)
                        /\ Begin([op |-> "instr", srcs |-> srcs, dsts |-> dsts,
                                  killed |-> killed])

\* OpCopy of a value of this file.
BeginCopy ==
    /\ AtInstr
    /\ \E s \in Live : \E killed \in SUBSET {s} :
           /\ NamesLeft(<<1>>) /\ NewValues(FreshDsts(<<1>>))
           /\ FitsMaxLive(FreshDsts(<<1>>), killed)
           /\ Begin([op |-> "copy", srcs |-> <<<<s>>>>, dsts |-> FreshDsts(<<1>>),
                     killed |-> killed])

\* OpPin and OpUnpin of a vector of this file.
BeginPin ==
    /\ AtInstr
    /\ \E op \in {"pin", "unpin"}, vec \in SrcVector :
       \E killed \in SUBSET Comps(vec) :
           /\ IF op = "pin" THEN Cardinality(PinnedRanges(pinned)) < MaxPinned
              ELSE \A s \in Comps(vec) : ssaReg[s] \in pinned
           /\ Cardinality(PinnedRanges(pinned)) < MaxOperands
           /\ NamesLeft(<<Len(vec)>>) /\ PinnedTogether(vec)
           /\ LET dsts == FreshDsts(<<Len(vec)>>)
              IN  /\ NewValues(dsts) /\ FitsMaxLive(dsts, killed)
                  /\ Begin([op |-> op, srcs |-> <<vec>>, dsts |-> dsts,
                            killed |-> killed])

\* collect_vector, first case: the vector already lies in a fitting range.
CollectInPlace ==
    /\ pc = "collect" /\ n <= Len(instr.srcs)
    /\ LET vec == instr.srcs[n]
           reg == TryGetVecReg(vec)
       IN  /\ reg # None
           /\ vpin' = vpin \cup RangeOf(reg, Len(vec))
           /\ srcReg' = [srcReg EXCEPT ![n] = reg]
    /\ n' = n + 1
    /\ UNCHANGED <<alloc, evicted, pcopy, instr, mode, pc, c, tgt, dstReg, val, ip>>

\* The range collect_vector moves a vector to: an unused one, or the one that
\* fits the place of a component, or any that is not pinned.
CollectRange(vec) ==
    LET len == Len(vec)
        unused == FindUnset(used, 0, len)
        base(k) == (ssaReg[vec[k]] \div Align(len)) * Align(len)
        partial == {k \in DOMAIN vec :
                       /\ vec[k] \in Live
                       /\ ssaReg[vec[k]] = base(k) + k - 1
                       /\ base(k) + len <= RegCount
                       /\ RangeOf(base(k), len) \cap vpin = {}}
    IN  IF unused # None THEN unused
        ELSE IF partial # {} THEN base(Minimum(partial))
        ELSE FindUnset(vpin, 0, len)

CollectElsewhere ==
    /\ pc = "collect" /\ n <= Len(instr.srcs)
    /\ TryGetVecReg(instr.srcs[n]) = None
    /\ tgt' = CollectRange(instr.srcs[n])
    /\ tgt' # None
    /\ c' = 0 /\ pc' = "move"
    /\ UNCHANGED <<alloc, vra, instr, mode, n, operands, val, ip>>

\* The rest of collect_vector's loop after a component is in place.
NextComponent ==
    IF c + 1 < Len(instr.srcs[n])
    THEN c' = c + 1 /\ UNCHANGED <<pc, n, srcReg>>
    ELSE /\ srcReg' = [srcReg EXCEPT ![n] = tgt]
         /\ n' = n + 1 /\ c' = 0 /\ pc' = "collect"

Moving == instr.srcs[n][c + 1]

\* move_ssa_to_reg, the component is where it should be.
MoveStay ==
    /\ pc = "move" /\ Moving \in Live /\ ssaReg[Moving] = tgt + c
    /\ vpin' = vpin \cup {tgt + c}
    /\ NextComponent
    /\ UNCHANGED <<alloc, evicted, pcopy, instr, mode, tgt, dstReg, val, ip>>

\* Mutant: a value that was not in a register of its own is not copied.
PlaceEvicting_NoCopy(s, new, old) ==
    LET out == Occupants({new})
    IN  /\ Reassign(out \cup ({s} \cap Live), One(s, new))
        /\ evicted' = Overlay(Without(evicted, {s}), [t \in out |-> new])
        /\ pcopy' = IF s \in Live THEN Append(pcopy, <<new, old>>) ELSE pcopy
        /\ vpin' = vpin \cup {new}

\* Put s, whose value the parallel copy finds in `old', into `new'; the value
\* in `new', if there is one, is evicted.
PlaceEvicting(s, new, old) ==
    LET out == Occupants({new})
    IN  /\ Reassign(out \cup ({s} \cap Live), One(s, new))
        /\ evicted' = Overlay(Without(evicted, {s}), [t \in out |-> new])
        /\ pcopy' = Append(pcopy, <<new, old>>)
        /\ vpin' = vpin \cup {new}

\* move_ssa_to_reg, the component is in another register.
MoveAllocated ==
    /\ pc = "move" /\ Moving \in Live /\ ssaReg[Moving] # tgt + c
    /\ PlaceEvicting(Moving, tgt + c, ssaReg[Moving])
    /\ NextComponent
    /\ UNCHANGED <<instr, mode, tgt, dstReg, val, ip>>

\* move_ssa_to_reg, the component was evicted by an earlier operand.
MoveEvicted ==
    /\ pc = "move" /\ Moving \in DOMAIN evicted
    /\ PlaceEvicting(Moving, tgt + c, evicted[Moving])
    /\ NextComponent
    /\ UNCHANGED <<instr, mode, tgt, dstReg, val, ip>>

\* All sources are collected.  A destination that takes the registers of a
\* killed source learns them here, before the source is freed.
CollectDone ==
    /\ pc = "collect" /\ n > Len(instr.srcs)
    /\ pc' = CASE mode = "general" -> "alloc"
               [] mode = "pinMove" -> "finish"
               [] OTHER -> "free"
    /\ dstReg' = IF mode # "mapped" THEN dstReg
                 ELSE [d \in DOMAIN dstReg |->
                          IF d \notin VecIdx(instr.dsts) THEN None
                          ELSE TryGetVecReg(instr.srcs[CHOOSE k \in DOMAIN instr.srcs :
                                 k \in MappedSrcs(instr.srcs, instr.dsts, instr.killed, d)])]
    /\ n' = 1
    /\ UNCHANGED <<alloc, vra, instr, mode, c, tgt, srcReg, val, ip>>

NextVecDst == {d \in VecIdx(instr.dsts) \cup
                   (IF mode = "pinCopy" THEN {1} ELSE {}) : dstReg[d] = None}

\* alloc_vector: an unused range, or else one that is not pinned and whose
\* values are evicted.
AllocVector ==
    /\ pc = "alloc" /\ NextVecDst # {}
    /\ LET d == Minimum(NextVecDst)
           vec == instr.dsts[d]
           unused == FindUnset(used, 0, Len(vec))
           reg == IF unused # None THEN unused ELSE FindUnset(vpin, 0, Len(vec))
           range == RangeOf(reg, Len(vec))
           out == Occupants(range)
       IN  /\ reg # None
           /\ Reassign(out, VecMap(vec, reg))
           /\ vpin' = vpin \cup range
           /\ evicted' = Overlay(evicted, [s \in out |-> ssaReg[s]])
           /\ dstReg' = [dstReg EXCEPT ![d] = reg]
    /\ UNCHANGED <<pcopy, instr, mode, pc, n, c, tgt, srcReg, val, ip>>

AllocDone ==
    /\ pc = "alloc" /\ NextVecDst = {}
    /\ pc' = IF mode = "pinCopy" THEN "finish" ELSE "free"
    /\ UNCHANGED <<alloc, vra, instr, mode, n, c, tgt, operands, val, ip>>

\* The places of all vector destinations, whose ranges are known.
DstMap(dsts, regs) ==
    LET idx == VecIdx(dsts)
        owner(s) == CHOOSE d \in idx : s \in Comps(dsts[d])
    IN  [s \in UNION {Comps(dsts[d]) : d \in idx} |->
            VecMap(dsts[owner(s)], regs[owner(s)])[s]]

\* assign_pin_vec_reg for all vector destinations.
AssignDsts ==
    /\ pc = "assign"
    /\ Reassign({}, DstMap(instr.dsts, dstReg))
    /\ vpin' = vpin \cup Image(DstMap(instr.dsts, dstReg))
    /\ pc' = IF mode = "trivial" THEN "collect" ELSE "finish"
    /\ UNCHANGED <<evicted, pcopy, instr, mode, n, c, tgt, operands, val, ip>>

\* Mutant: free_ssa leaves the register pinned.
Freed_KeepPin(S) ==
    /\ ssaReg' = Without(ssaReg, S)
    /\ used' = used \ {ssaReg[s] : s \in S}
    /\ UNCHANGED <<regSsa, pinned>>

\* free_killed for the sources; vpin keeps their registers from the values
\* that finish places.
Freed(S) == Reassign(S, EmptyFn)

FreeKilled ==
    /\ pc = "free"
    /\ Freed(instr.killed)
    /\ pc' = IF mode = "mapped" THEN "assign" ELSE "finish"
    /\ UNCHANGED <<vra, instr, mode, n, c, tgt, operands, val, ip>>

\* Mutant: finish takes any unused register, pinned by an operand or not.
FinishOne_IgnorePins ==
    /\ pc = "finish" /\ DOMAIN evicted # {}
    /\ LET old == Minimum({evicted[s] : s \in DOMAIN evicted})
           s == CHOOSE t \in DOMAIN evicted : evicted[t] = old
           new == Minimum(Reg \ used)
       IN  /\ pcopy' = Append(pcopy, <<new, old>>)
           /\ Reassign({}, One(s, new))
           /\ vpin' = vpin \cup {new}
           /\ evicted' = Without(evicted, {s})
    /\ UNCHANGED <<instr, mode, pc, n, c, tgt, operands, val, ip>>

\* VecRegAllocator::finish, one evicted value, in the order of registers.
FinishOne ==
    /\ pc = "finish" /\ DOMAIN evicted # {}
    /\ LET old == Minimum({evicted[s] : s \in DOMAIN evicted})
           s == CHOOSE t \in DOMAIN evicted : evicted[t] = old
           free == Reg \ (used \cup vpin)
           new == Minimum(free)
       IN  /\ free # {}
           /\ pcopy' = Append(pcopy, <<new, old>>)
           /\ Reassign({}, One(s, new))
           /\ vpin' = vpin \cup {new}
           /\ evicted' = Without(evicted, {s})
    /\ UNCHANGED <<instr, mode, pc, n, c, tgt, operands, val, ip>>

FinishDone ==
    /\ pc = "finish" /\ DOMAIN evicted = {}
    /\ pc' = CASE mode = "pinMove" -> "rename"
               [] mode = "pinCopy" -> "pinCopy"
               [] OTHER -> "scalar"
    /\ UNCHANGED <<alloc, vra, instr, mode, n, c, tgt, operands, val, ip>>

NextScalarDst == {d \in DOMAIN instr.dsts : dstReg[d] = None}

AssignScalar(d, reg) ==
    /\ Reassign({}, One(instr.dsts[d][1], reg))
    /\ dstReg' = [dstReg EXCEPT ![d] = reg]
    /\ UNCHANGED <<vra, instr, mode, pc, n, c, tgt, srcReg, val, ip>>

\* try_coalesce: the source of the copy died, so its register is not used.
CanCoalesce == instr.op = "copy" /\ srcReg[1] \notin used

Coalesce ==
    /\ pc = "scalar" /\ NextScalarDst # {} /\ CanCoalesce
    /\ AssignScalar(1, srcReg[1])

\* alloc_scalar.  The register of the phi web, or one that suits a later
\* vector use, is preferred; these hints may name any register, so the result
\* may be any unused one.
AllocScalar ==
    /\ pc = "scalar" /\ NextScalarDst # {} /\ ~CanCoalesce
    /\ \E reg \in Reg \ used : AssignScalar(Minimum(NextScalarDst), reg)

\* Pin and Unpin of a vector that dies: the destination takes its registers.
PinRename ==
    /\ pc = "rename"
    /\ Reassign(Comps(instr.srcs[1]), VecMap(instr.dsts[1], srcReg[1]))
    /\ dstReg' = [dstReg EXCEPT ![1] = srcReg[1]]
    /\ pc' = "scalar"
    /\ UNCHANGED <<vra, instr, mode, n, c, tgt, srcReg, val, ip>>

\* Pin and Unpin of a vector that lives on: a second parallel copy reads it.
PinCopy ==
    /\ pc = "pinCopy"
    /\ Freed(instr.killed)
    /\ pc' = "scalar"
    /\ UNCHANGED <<vra, instr, mode, n, c, tgt, operands, val, ip>>

----------------------------------------------------------------------------
(* The machine                                                              *)

\* Register contents after the parallel copy `copies'.
AfterCopy(v, copies) ==
    [r \in Reg |->
        IF \E k \in DOMAIN copies : copies[k][1] = r
        THEN v[copies[CHOOSE k \in DOMAIN copies : copies[k][1] = r][2]]
        ELSE v[r]]

\* The value that the instruction writes to register r, if it does.
WrittenTo(r) ==
    {s \in AllComps(instr.dsts) :
        \E d \in DOMAIN instr.dsts : \E k \in DOMAIN instr.dsts[d] :
            instr.dsts[d][k] = s /\ r = dstReg[d] + k - 1}

\* Dead values become junk so that their names can be used again.
LiveOnly(v, live) == [r \in Reg |-> IF v[r] \in live THEN v[r] ELSE Junk]

\* Registers after the copy and the instruction.
AfterInstr ==
    [r \in Reg |-> IF WrittenTo(r) # {} THEN CHOOSE s \in WrittenTo(r) : TRUE
                   ELSE AfterCopy(val, pcopy)[r]]

NextInstr ==
    /\ pc' = "idle" /\ instr' = NoInstr /\ mode' = "easy"
    /\ vpin' = {} /\ evicted' = EmptyFn /\ pcopy' = << >>
    /\ srcReg' = << >> /\ dstReg' = << >> /\ n' = 1 /\ c' = 0 /\ tgt' = None
    /\ ip' = ip + 1

\* The instruction is assigned; OpPin pins its destination, and destinations
\* that are never read (dsts_killed) are freed.
EmitInstr ==
    /\ pc = "scalar" /\ NextScalarDst = {}
    /\ \E dead \in SUBSET AllComps(instr.dsts) :
          LET regs == {ssaReg[s] : s \in dead}
              pins == {ssaReg[s] : s \in AllComps(instr.dsts)}
          IN  /\ ssaReg' = Without(ssaReg, dead)
              /\ used' = used \ regs
              /\ pinned' = (IF instr.op = "pin" THEN pinned \cup pins ELSE pinned) \ regs
              /\ UNCHANGED regSsa
    /\ val' = LiveOnly(AfterInstr, DOMAIN ssaReg')
    /\ NextInstr

\* The block has no more instructions.
BlockDone == pc = "idle" /\ ip = MaxInstrs /\ UNCHANGED vars

Next ==
    \/ BeginInstr \/ BeginCopy \/ BeginPin
    \/ CollectInPlace \/ CollectElsewhere \/ CollectDone
    \/ MoveStay \/ MoveAllocated \/ MoveEvicted
    \/ AllocVector \/ AllocDone \/ AssignDsts \/ FreeKilled
    \/ FinishOne \/ FinishDone \/ Coalesce \/ AllocScalar
    \/ EmitInstr \/ PinRename \/ PinCopy \/ BlockDone

Spec == Init /\ [][Next]_vars

----------------------------------------------------------------------------
(* Properties                                                               *)

\* The four tables of RegAllocator agree: a register is used if and only if
\* exactly one value lives in it, and only used registers stay pinned.
TablesAgree ==
    /\ used = {ssaReg[s] : s \in Live}
    /\ \A s \in Live : regSsa[ssaReg[s]] = s
    /\ pinned \subseteq used
    /\ DOMAIN evicted \cap Live = {}

\* Between instructions every live value is in the register the table names:
\* no parallel copy and no destination has overwritten it.
LiveValuesHeld == pc = "idle" => \A s \in Live : val[ssaReg[s]] = s

\* When an instruction runs, after its parallel copy, every source operand
\* names an aligned range that holds the components in order.
SourcesHeld ==
    /\ (pc = "scalar" /\ mode # "pinCopy") \/ pc = "rename" =>
          \A k \in DOMAIN instr.srcs :
              /\ srcReg[k] % Align(Len(instr.srcs[k])) = 0
              /\ \A j \in DOMAIN instr.srcs[k] :
                    AfterCopy(val, pcopy)[srcReg[k] + j - 1] = instr.srcs[k][j]
    /\ pc = "pinCopy" =>
          \A s \in Comps(instr.srcs[1]) : AfterCopy(val, pcopy)[ssaReg[s]] = s

\* A parallel copy writes each register once (lower_par_copy asserts it), and
\* reads registers as they were before the instruction.
CopyWellFormed ==
    \A j, k \in DOMAIN pcopy :
        /\ pcopy[j][1] = pcopy[k][1] => j = k
        /\ pcopy[k][1] # pcopy[k][2]

\* The asserts, expects and ice! of the allocator: it always finds registers
\* (the claim about 16 GPRs), never moves a pinned operand, never loses a value.
AssertsHold ==
    /\ pc = "collect" /\ n <= Len(instr.srcs) =>
          \/ TryGetVecReg(instr.srcs[n]) # None
          \/ CollectRange(instr.srcs[n]) # None
    /\ pc = "move" =>
          /\ tgt + c \notin vpin
          /\ Moving \in Live \cup DOMAIN evicted
          /\ Moving \in Live => ssaReg[Moving] \notin vpin
    /\ pc = "alloc" =>
          \A d \in NextVecDst : FindUnset(vpin, 0, Len(instr.dsts[d])) # None
    /\ pc = "assign" =>
          \A d \in VecIdx(instr.dsts) :
              /\ dstReg[d] # None
              /\ RangeOf(dstReg[d], Len(instr.dsts[d])) \cap used = {}
    /\ pc \in {"free", "pinCopy", "rename"} => instr.killed \subseteq Live
    /\ pc = "finish" /\ DOMAIN evicted # {} => Reg \ (used \cup vpin) # {}
    /\ pc = "scalar" /\ NextScalarDst # {} => Reg \ used # {}

\* A pinned value is not moved or evicted while it lives.
PinnedStay ==
    [][\A s \in Live : ssaReg[s] \in pinned =>
           \/ s \in instr.killed
           \/ s \in DOMAIN ssaReg' /\ ssaReg'[s] = ssaReg[s]]_vars
=============================================================================
