------------------------- MODULE RegAllocRoomProofs -------------------------
(***************************************************************************)
(* The allocator always finds registers, for every file that is large       *)
(* enough for the operands and the live values.                             *)
(*                                                                          *)
(* Two counts carry the argument.  Every operand pins registers of one      *)
(* aligned block of MaxComps registers only (Blocks), so that while         *)
(* operands are left some block is not pinned.  The values that have or     *)
(* need a register, evicted ones included, are at every step a subset of    *)
(* the ones LiveSet::insert_instr_top_down counted (Room).                  *)
(***************************************************************************)
EXTENDS RegAllocProofs, FunctionTheorems

----------------------------------------------------------------------------
(* The inductive invariant                                                  *)

BlockOf(r) == r \div MaxComps

\* Blocks that are pinned, the one a vector is being moved to included.
PinnedBlocks ==
    PinnedRanges(vpin) \cup (IF pc = "move" THEN {BlockOf(tgt)} ELSE {})

\* Operands that have still to get a block.
SrcsLeft ==
    IF pc = "alloc" THEN 0
    ELSE IF pc = "move" THEN Len(instr.srcs) - n ELSE Len(instr.srcs) - n + 1
DstsLeft ==
    IF mode = "pinMove" THEN {}
    ELSE {d \in VecIdx(instr.dsts) \cup (IF mode = "pinCopy" THEN {1} ELSE {}) :
             dstReg[d] = None \/ Planned}

Blocks ==
    (Collecting \/ pc = "alloc") /\ instr.op # "copy" =>
        /\ n <= Len(instr.srcs) + 1
        /\ Cardinality(PinnedBlocks) + SrcsLeft + Cardinality(DstsLeft) <= MaxOperands

\* The values that need registers before the sources die, and after.
VecDsts == UNION {Comps(instr.dsts[d]) : d \in VecIdx(instr.dsts)}
EarlyValues ==
    Live \cup DOMAIN evicted \cup (IF mode = "pinCopy" THEN Dsts ELSE VecDsts)
LateValues == (Live \cup DOMAIN evicted \cup Dsts) \ instr.killed

EarlyFit == BeforeFree => Cardinality(EarlyValues) <= RegCount
LateFit == pc # "idle" => Cardinality(LateValues) <= RegCount
EvictedFit ==
    pc = "finish" \/ (pc = "assign" /\ mode = "mapped") =>
        Cardinality(used \cup vpin) + Cardinality(DOMAIN evicted) <= RegCount

Room == EarlyFit /\ LateFit /\ EvictedFit

\* Planned ranges are pinned already, or aligned.
PlansFit ==
    Planned =>
        \A d \in VecIdx(instr.dsts) :
            /\ mode = "mapped" => RangeOf(dstReg[d], Len(instr.dsts[d])) \subseteq vpin
            /\ mode = "trivial" => dstReg[d] % Align(Len(instr.dsts[d])) = 0

\* OpCopy moves nothing.
CopyPlain ==
    instr.op = "copy" =>
        pc # "move" /\ pc # "alloc" /\ DOMAIN evicted = {} /\ Len(instr.srcs[1]) = 1

\* Killed values are gone once they are freed.
KilledGone == ~BeforeFree => (Live \cup DOMAIN evicted) \cap instr.killed = {}

Fits == Blocks /\ Room /\ PlansFit /\ CopyPlain /\ KilledGone

----------------------------------------------------------------------------
(* Counting                                                                 *)

\* The sets of registers and of values are finite.
LEMMA FiniteAll ==
    /\ IsFiniteSet(Reg) /\ Cardinality(Reg) = RegCount
    /\ \A S : S \subseteq Reg => IsFiniteSet(S) /\ Cardinality(S) \in Nat /\ Cardinality(S) <= RegCount
    /\ \A S : S \subseteq SSA => IsFiniteSet(S) /\ Cardinality(S) \in Nat
<1>1. IsFiniteSet(Reg) /\ Cardinality(Reg) = RegCount
      BY FS_Interval, SizeAssumption DEF Reg
<1>2. IsFiniteSet(SSA)
      BY FS_Interval, SizeAssumption DEF SSA
<1> QED BY <1>1, <1>2, FS_Subset, FS_CardinalityType

\* The blocks of a set of registers are a finite set.
LEMMA FiniteBlocks ==
    ASSUME NEW S \in SUBSET Reg
    PROVE  IsFiniteSet(PinnedRanges(S)) /\ Cardinality(PinnedRanges(S)) \in Nat
<1> DEFINE f == [r \in S |-> r \div MaxComps]
<1>1. f \in Surjection(S, PinnedRanges(S))
      BY Fun_IsSurj DEF PinnedRanges
<1>2. IsFiniteSet(S)
      BY FiniteAll
<1> QED BY <1>1, <1>2, FS_Surjection, FS_CardinalityType

\* An aligned range lies in one block.
LEMMA OneBlock ==
    ASSUME NEW reg \in Nat, NEW len \in Nat \ {0}, len <= MaxComps, reg % Align(len) = 0,
           NEW r \in RangeOf(reg, len)
    PROVE  r \in Nat /\ BlockOf(r) = BlockOf(reg)
<1>1. r \in Nat /\ reg <= r /\ r < reg + len
      BY DEF RangeOf
<1>2. CASE MaxComps = 1
      BY <1>1, <1>2 DEF BlockOf
<1>3. CASE MaxComps = 2
  <2>1. CASE len = 1
        BY <1>1, <2>1 DEF BlockOf
  <2>2. CASE len = 2
        BY <1>1, <1>3, <2>2 DEF BlockOf, Align
  <2> QED BY <1>3, <2>1, <2>2
<1>4. CASE MaxComps = 4
  <2>1. CASE len = 1
        BY <1>1, <2>1 DEF BlockOf
  <2>2. CASE len = 2
    <3>1. reg % 2 = 0 /\ (r = reg \/ r = reg + 1)
          BY <1>1, <2>2 DEF Align
    <3>2. (reg + 1) \div 4 = reg \div 4
          BY <3>1
    <3> QED BY <1>4, <3>1, <3>2 DEF BlockOf
  <2>3. CASE len = 3 \/ len = 4
        BY <1>1, <1>4, <2>3 DEF BlockOf, Align
  <2> QED BY <1>4, <2>1, <2>2, <2>3
<1> QED BY <1>2, <1>3, <1>4, SizeAssumption

\* Pinning an aligned range adds at most one block.
LEMMA AddRange ==
    ASSUME NEW S \in SUBSET Reg, NEW reg \in Nat, NEW len \in Nat \ {0}, len <= MaxComps,
           reg % Align(len) = 0, NEW T, T \subseteq RangeOf(reg, len)
    PROVE  PinnedRanges(S \cup T) \subseteq PinnedRanges(S) \cup {BlockOf(reg)}
<1>1. ASSUME NEW r \in T PROVE BlockOf(r) = BlockOf(reg)
      BY OneBlock
<1> QED BY <1>1 DEF PinnedRanges, BlockOf

\* A block that is not pinned has an aligned range for every vector.
LEMMA BlockServes ==
    ASSUME NEW S \in SUBSET Reg, Cardinality(PinnedRanges(S)) < MaxOperands,
           NEW len \in Nat \ {0}, len <= MaxComps
    PROVE  FindUnset(S, 0, len) # None
<1> DEFINE all == 0 .. MaxOperands - 1
           fits == {r \in 0 .. RegCount - len : r % Align(len) = 0 /\ RangeOf(r, len) \cap S = {}}
<1>1. PICK b \in all : b \notin PinnedRanges(S)
  <2>1. IsFiniteSet(all) /\ Cardinality(all) = MaxOperands
    <3>1. MaxOperands \in Nat /\ MaxOperands # 0
          BY FiniteBlocks, SizeAssumption
    <3> QED BY <3>1, FS_Interval
  <2>2. ASSUME all \subseteq PinnedRanges(S) PROVE FALSE
    <3>1. Cardinality(all) <= Cardinality(PinnedRanges(S))
          BY <2>2, FiniteBlocks, FS_Subset
    <3> HIDE DEF all
    <3> QED BY <2>1, <3>1, FiniteBlocks, SizeAssumption
  <2> QED BY <2>2
<1> DEFINE r == b * MaxComps
<1>2. r \in Nat /\ r + MaxComps <= MaxOperands * MaxComps /\ r % Align(len) = 0 /\ BlockOf(r) = b
  <2>1. b \in Nat /\ b + 1 <= MaxOperands /\ MaxOperands \in Nat
        BY SizeAssumption
  <2>2. CASE MaxComps = 1
        BY <2>1, <2>2 DEF Align, BlockOf
  <2>3. CASE MaxComps = 2
    <3>1. r = 2 * b /\ (2 * b) \div 2 = b /\ (2 * b) % 2 = 0 /\ (2 * b) % 1 = 0 /\ MaxOperands * MaxComps = 2 * MaxOperands
          BY <2>1, <2>3
    <3>2. Align(len) \in {1, 2}
          BY <2>3 DEF Align
    <3> QED BY <2>1, <2>3, <3>1, <3>2 DEF BlockOf
  <2>4. CASE MaxComps = 4
    <3>1. r = 4 * b /\ (4 * b) \div 4 = b /\ (4 * b) % 4 = 0 /\ (4 * b) % 2 = 0 /\ (4 * b) % 1 = 0 /\ MaxOperands * MaxComps = 4 * MaxOperands
          BY <2>1, <2>4
    <3>2. Align(len) \in {1, 2, 4}
          BY DEF Align
    <3> QED BY <2>1, <2>4, <3>1, <3>2 DEF BlockOf
  <2> QED BY <2>2, <2>3, <2>4, SizeAssumption
<1> HIDE DEF r
<1>3. r \in 0 .. RegCount - len
      BY <1>2, SizeAssumption, EnoughRegs
<1>4. ASSUME NEW x \in RangeOf(r, len), x \in S PROVE FALSE
  <2>1. BlockOf(x) = b
        BY <1>2, OneBlock
  <2> QED BY <1>1, <1>4, <2>1 DEF PinnedRanges, BlockOf
<1>5. fits # {} /\ fits \in SUBSET Nat
      BY <1>2, <1>3, <1>4
<1>6. Minimum(fits) \in Nat /\ FindUnset(S, 0, len) = Minimum(fits)
      BY <1>5, SmallestNumber DEF FindUnset
<1> QED BY <1>6 DEF None

\* As many registers are used as values live; both are finite.
LEMMA UsedCount ==
    ASSUME Inv
    PROVE  /\ IsFiniteSet(Live) /\ IsFiniteSet(used) /\ IsFiniteSet(vpin) /\ IsFiniteSet(DOMAIN evicted)
           /\ Cardinality(Live) \in Nat /\ Cardinality(used) \in Nat /\ Cardinality(DOMAIN evicted) \in Nat
           /\ Cardinality(used) <= Cardinality(Live)
<1>1. Live \subseteq SSA /\ used \subseteq Reg /\ vpin \subseteq Reg /\ DOMAIN evicted \subseteq SSA
      BY DEF Inv, TableTypes, CopyTypes
<1>2. IsFiniteSet(Live) /\ IsFiniteSet(used) /\ IsFiniteSet(vpin) /\ IsFiniteSet(DOMAIN evicted)
      BY <1>1, FiniteAll
<1>3. ssaReg \in [Live -> used]
      BY DEF Inv, Tables, TableTypes
<1>4. ssaReg \in Surjection(Live, used)
      BY <1>3, Fun_IsSurj DEF Inv, Tables
<1>5. Cardinality(used) <= Cardinality(Live)
      BY <1>2, <1>4, FS_Surjection
<1> QED BY <1>2, <1>5, FS_CardinalityType

\* The values of the early and the late count are finite sets.
LEMMA ValuesFinite ==
    ASSUME Inv
    PROVE  /\ EarlyValues \subseteq SSA /\ LateValues \subseteq SSA /\ VecDsts \subseteq Dsts
           /\ IsFiniteSet(EarlyValues) /\ IsFiniteSet(LateValues)
           /\ Cardinality(EarlyValues) \in Nat /\ Cardinality(LateValues) \in Nat
<1>1. Live \subseteq SSA /\ DOMAIN evicted \subseteq SSA
      BY DEF Inv, TableTypes, CopyTypes
<1>2. Dsts \subseteq SSA
      BY Operands, VectorFacts DEF Inv, Dsts, AllComps
<1>3. VecDsts \subseteq Dsts
      BY DEF VecDsts, Dsts, AllComps, VecIdx
<1>4. EarlyValues \subseteq SSA /\ LateValues \subseteq SSA
      BY <1>1, <1>2, <1>3 DEF EarlyValues, LateValues
<1> QED BY <1>3, <1>4, FiniteAll

\* Before the sources are freed there is room for the evicted values.
LEMMA EarlyRoom ==
    ASSUME Inv, Room, BeforeFree
    PROVE  /\ Cardinality(used) + Cardinality(DOMAIN evicted) <= RegCount
           /\ used \cup vpin = used
<1>1. Cardinality(Live \cup DOMAIN evicted) = Cardinality(Live) + Cardinality(DOMAIN evicted)
  <2>1. Live \cap DOMAIN evicted = {}
        BY DEF Inv
  <2>2. Cardinality(Live \cap DOMAIN evicted) = 0
        BY <2>1, FS_EmptySet
  <2>3. Cardinality(Live \cup DOMAIN evicted)
          = Cardinality(Live) + Cardinality(DOMAIN evicted) - Cardinality(Live \cap DOMAIN evicted)
        BY UsedCount, FS_Union
  <2> QED BY <2>2, <2>3, UsedCount
<1>2. Live \cup DOMAIN evicted \in SUBSET EarlyValues
      BY DEF EarlyValues
<1>3. Cardinality(Live \cup DOMAIN evicted) <= Cardinality(EarlyValues)
      BY <1>2, ValuesFinite, FS_Subset
<1>4. Cardinality(EarlyValues) <= RegCount
      BY DEF Room, EarlyFit
<1>5. used \cup vpin = used
      BY DEF Inv, VpinUsed
<1> QED BY <1>1, <1>3, <1>4, <1>5, UsedCount, ValuesFinite, SizeAssumption

\* Counts of smaller sets are smaller.
LEMMA SmallerCount ==
    ASSUME NEW S, NEW T, IsFiniteSet(T), S \subseteq T
    PROVE  IsFiniteSet(S) /\ Cardinality(S) \in Nat /\ Cardinality(T) \in Nat /\ Cardinality(S) <= Cardinality(T)
BY FS_Subset, FS_CardinalityType

\* A set of registers that is smaller than the file leaves one free.
LEMMA OneFree ==
    ASSUME NEW S, S \subseteq Reg, Cardinality(S) < RegCount
    PROVE  Reg \ S # {}
<1>1. ASSUME Reg \ S = {} PROVE FALSE
  <2>1. S = Reg
        BY <1>1
  <2> QED BY <2>1, FiniteAll, SizeAssumption
<1> QED BY <1>1

\* The operands left are finitely many.
LEMMA DstsLeftFinite ==
    ASSUME OperandTypes
    PROVE  IsFiniteSet(DstsLeft) /\ Cardinality(DstsLeft) \in Nat
<1>1. DstsLeft \subseteq (1 .. Len(instr.dsts)) \cup {1}
      BY Operands DEF DstsLeft, VecIdx
<1>2. IsFiniteSet((1 .. Len(instr.dsts)) \cup {1})
  <2>1. IsFiniteSet(1 .. Len(instr.dsts))
        BY Operands, FS_Interval
  <2> QED BY <2>1, FS_AddElement
<1> QED BY <1>1, <1>2, SmallerCount

----------------------------------------------------------------------------
(* What the counts give                                                     *)

\* collect_vector finds a range when a block is left.
LEMMA CollectFinds ==
    ASSUME Inv, NEW vec \in Vector, FindUnset(vpin, 0, Len(vec)) # None
    PROVE  CollectRange(vec) # None
<1> DEFINE len == Len(vec)
           unused == FindUnset(used, 0, len)
           base(k) == (ssaReg[vec[k]] \div Align(len)) * Align(len)
           partial == {k \in DOMAIN vec :
                          /\ vec[k] \in Live
                          /\ ssaReg[vec[k]] = base(k) + k - 1
                          /\ base(k) + len <= RegCount
                          /\ RangeOf(base(k), len) \cap vpin = {}}
<1>1. CollectRange(vec) = IF unused # None THEN unused
                          ELSE IF partial # {} THEN base(Minimum(partial)) ELSE FindUnset(vpin, 0, len)
      BY DEF CollectRange
<1>2. ASSUME partial # {} PROVE base(Minimum(partial)) # None
  <2>1. partial \in SUBSET Nat
        BY VectorFacts
  <2>2. Minimum(partial) \in partial
        BY <1>2, <2>1, SmallestNumber
  <2> DEFINE x == ssaReg[vec[Minimum(partial)]]
  <2>3. x \in Nat
        BY <2>2, RegNat DEF Inv, TableTypes
  <2>4. Align(len) \in {1, 2, 4}
        BY DEF Align
  <2> HIDE DEF x, partial
  <2>5. (x \div Align(len)) * Align(len) >= 0
    <3>1. CASE Align(len) = 1
          BY <2>3, <3>1
    <3>2. CASE Align(len) = 2
          BY <2>3, <3>2
    <3>3. CASE Align(len) = 4
          BY <2>3, <3>3
    <3> QED BY <2>4, <3>1, <3>2, <3>3
  <2> QED BY <2>5 DEF None, x
<1> QED BY <1>1, <1>2

\* While operands are left, fewer blocks than MaxOperands are pinned.
LEMMA BlockLeft ==
    ASSUME Inv, Blocks, instr.op # "copy",
           \/ pc = "collect" /\ n <= Len(instr.srcs)
           \/ pc = "alloc" /\ DstsLeft # {}
    PROVE  Cardinality(PinnedRanges(vpin)) < MaxOperands
<1>1. PinnedBlocks = PinnedRanges(vpin)
      BY DEF PinnedBlocks
<1>2. Cardinality(PinnedRanges(vpin)) \in Nat
      BY FiniteBlocks DEF Inv, CopyTypes
<1>3. Cardinality(DstsLeft) \in Nat /\ IsFiniteSet(DstsLeft)
      BY DstsLeftFinite DEF Inv
<1>4. Cardinality(PinnedRanges(vpin)) + SrcsLeft + Cardinality(DstsLeft) <= MaxOperands
      BY <1>1 DEF Blocks, Collecting
<1>5. Len(instr.srcs) \in Nat /\ n \in Nat
      BY Operands DEF Inv, OperandTypes
<1>6. CASE pc = "collect" /\ n <= Len(instr.srcs)
  <2>1. SrcsLeft = Len(instr.srcs) - n + 1
        BY <1>6 DEF SrcsLeft
  <2> QED BY <1>2, <1>3, <1>4, <1>5, <1>6, <2>1, SizeAssumption
<1>7. CASE pc = "alloc" /\ DstsLeft # {}
  <2>1. SrcsLeft = 0 /\ Cardinality(DstsLeft) # 0
        BY <1>3, <1>7, FS_EmptySet DEF SrcsLeft
  <2> QED BY <1>2, <1>3, <1>4, <2>1, SizeAssumption
<1> QED BY <1>6, <1>7

\* The source of OpCopy lies in its register.
LEMMA CopyInPlace ==
    ASSUME Inv, CopyPlain, instr.op = "copy", pc = "collect", n <= Len(instr.srcs)
    PROVE  TryGetVecReg(instr.srcs[n]) # None
<1> DEFINE v == instr.srcs[n]
<1>1. n = 1 /\ n \in DOMAIN instr.srcs /\ v \in Vector /\ Len(v) = 1
      BY Operands DEF Inv, InstrOK, OperandTypes, CopyPlain
<1>2. DOMAIN v = {1}
      BY <1>1, VectorFacts
<1>3. v[1] \in Live
  <2>1. v[1] \in Srcs
        BY <1>1, <1>2, Operands DEF Inv
  <2> QED BY <2>1 DEF Inv, SrcsKept, BeforeFree, Collecting, CopyPlain
<1> DEFINE reg == ssaReg[v[1]]
<1>4. reg \in Nat /\ reg # None
      BY <1>3, RegNat DEF Inv, TableTypes
<1>5. reg % Align(Len(v)) = 0
      BY <1>1, <1>4 DEF Align
<1>6. \A k \in DOMAIN v : v[k] \in Live /\ ssaReg[v[k]] = reg + k - 1
      BY <1>2, <1>3, <1>4
<1> HIDE DEF v, reg
<1>7. v \in Vector /\ reg \in Int
      BY <1>1, <1>4
<1>8. TryGetVecReg(v) = reg
      BY <1>4, <1>5, <1>6, <1>7, InPlaceGiven
<1> QED BY <1>4, <1>8 DEF v

\* No assertion of the allocator fails in a state of the invariant.
LEMMA FitsAsserts ==
    ASSUME Inv, Fits
    PROVE  AssertsHold
<1>1. ASSUME pc = "collect", n <= Len(instr.srcs)
      PROVE  TryGetVecReg(instr.srcs[n]) # None \/ CollectRange(instr.srcs[n]) # None
  <2>1. CASE instr.op = "copy"
        BY <1>1, <2>1, CopyInPlace DEF Fits
  <2>2. CASE instr.op # "copy"
    <3>1. Cardinality(PinnedRanges(vpin)) < MaxOperands
          BY <1>1, <2>2, BlockLeft DEF Fits
    <3>2. n \in DOMAIN instr.srcs /\ instr.srcs[n] \in Vector
          BY <1>1, Operands DEF Inv, OperandTypes
    <3>3. Len(instr.srcs[n]) \in Nat \ {0} /\ Len(instr.srcs[n]) <= MaxComps
          BY <3>2, VectorFacts
    <3>4. FindUnset(vpin, 0, Len(instr.srcs[n])) # None
          BY <3>1, <3>3, BlockServes DEF Inv, CopyTypes
    <3> QED BY <3>2, <3>4, CollectFinds
  <2> QED BY <2>1, <2>2
<1>2. ASSUME pc = "move"
      PROVE  /\ tgt + c \notin vpin
             /\ Moving \in Live \cup DOMAIN evicted
             /\ Moving \in Live => ssaReg[Moving] \notin vpin
      BY <1>2, MovingFacts
<1>3. ASSUME pc = "alloc", NEW d \in NextVecDst
      PROVE  FindUnset(vpin, 0, Len(instr.dsts[d])) # None
  <2>1. instr.op # "copy" /\ mode # "pinMove"
        BY <1>3 DEF Fits, CopyPlain, Inv, Places
  <2>2. d \in DstsLeft
        BY <2>1 DEF NextVecDst, DstsLeft
  <2>3. Cardinality(PinnedRanges(vpin)) < MaxOperands
        BY <1>3, <2>1, <2>2, BlockLeft DEF Fits
  <2>4. d \in DOMAIN instr.dsts
        BY Operands DEF NextVecDst, VecIdx, Inv, InstrOK
  <2>5. Len(instr.dsts[d]) \in Nat \ {0} /\ Len(instr.dsts[d]) <= MaxComps
        BY <2>4, Operands, VectorFacts DEF Inv
  <2> QED BY <2>3, <2>5, BlockServes DEF Inv, CopyTypes
<1>4. ASSUME pc = "assign", NEW d \in VecIdx(instr.dsts)
      PROVE  dstReg[d] # None /\ RangeOf(dstReg[d], Len(instr.dsts[d])) \cap used = {}
      BY <1>4 DEF Inv, Plans, DstsGiven, Planned, VecIdx
<1>5. ASSUME pc \in {"free", "pinCopy", "rename"} PROVE instr.killed \subseteq Live
  <2>1. CASE pc \in {"pinCopy", "rename"}
        BY <2>1 DEF Inv, SrcsKept, NoneLeft, InstrOK, BeforeFree
  <2>2. CASE pc = "free"
    <3>1. BeforeFree /\ DoneSrcs = DOMAIN instr.srcs
          BY <2>2 DEF BeforeFree, DoneSrcs, Collecting, Inv, Places
    <3>2. ASSUME NEW s \in instr.killed PROVE s \in Live
      <4>1. PICK k \in DOMAIN instr.srcs : s \in Comps(instr.srcs[k])
            BY DEF Inv, InstrOK, Srcs, AllComps
      <4>2. PICK j \in DOMAIN instr.srcs[k] : s = instr.srcs[k][j]
            BY <4>1 DEF Comps
      <4>3. Collected(k)
            BY <3>1 DEF Inv, SrcsCollected
      <4> QED BY <3>1, <4>2, <4>3 DEF Collected
    <3> QED BY <3>2
  <2> QED BY <1>5, <2>1, <2>2
<1>6. ASSUME pc = "finish", DOMAIN evicted # {} PROVE Reg \ (used \cup vpin) # {}
  <2>1. used \cup vpin \subseteq Reg /\ Cardinality(used \cup vpin) \in Nat
        BY FiniteAll DEF Inv, TableTypes, CopyTypes
  <2>2. Cardinality(DOMAIN evicted) \in Nat /\ Cardinality(DOMAIN evicted) # 0
        BY <1>6, UsedCount, FS_EmptySet
  <2>3. Cardinality(used \cup vpin) + Cardinality(DOMAIN evicted) <= RegCount
        BY <1>6 DEF Fits, Room, EvictedFit, LateFit
  <2>4. Cardinality(used \cup vpin) < RegCount
        BY <2>1, <2>2, <2>3, SizeAssumption
  <2> QED BY <2>1, <2>4, OneFree
<1>7. ASSUME pc = "scalar", NextScalarDst # {} PROVE Reg \ used # {}
  <2>1. PICK d \in DOMAIN instr.dsts : dstReg[d] = None
        BY <1>7 DEF NextScalarDst
  <2>2. instr.dsts[d][1] \in Dsts /\ instr.dsts[d][1] \notin Live
    <3>1. instr.dsts[d] \in Vector
          BY Operands DEF Inv
    <3>2. 1 \in DOMAIN instr.dsts[d] /\ instr.dsts[d][1] \in Comps(instr.dsts[d])
          BY <3>1, VectorFacts
    <3>3. Comps(instr.dsts[d]) \cap Live = {}
          BY <2>1 DEF Inv, DstsPlaced
    <3> QED BY <3>2, <3>3, Operands DEF Inv
  <2>3. Live \subseteq LateValues /\ instr.dsts[d][1] \in LateValues
    <3>1. Live \cap instr.killed = {}
          BY <1>7 DEF Fits, KilledGone, BeforeFree, Collecting
    <3>2. instr.dsts[d][1] \notin instr.killed
          BY <2>2 DEF Inv, InstrOK
    <3> QED BY <2>2, <3>1, <3>2 DEF LateValues
  <2>4. Cardinality(Live) < Cardinality(LateValues)
    <3>1. Live \in SUBSET LateValues /\ Live # LateValues
          BY <2>2, <2>3
    <3>2. Cardinality(Live) <= Cardinality(LateValues) /\ Cardinality(Live) # Cardinality(LateValues)
          BY <3>1, ValuesFinite, FS_Subset
    <3> QED BY <3>2, ValuesFinite, UsedCount
  <2>5. Cardinality(LateValues) <= RegCount
        BY <1>7 DEF Fits, Room, EvictedFit, LateFit
  <2>6. Cardinality(used) < RegCount /\ used \subseteq Reg
        BY <2>4, <2>5, UsedCount, ValuesFinite, SizeAssumption DEF Inv, TableTypes
  <2> QED BY <2>6, OneFree
<1> QED BY <1>1, <1>2, <1>3, <1>4, <1>5, <1>6, <1>7 DEF AssertsHold

----------------------------------------------------------------------------
(* Values come and go                                                       *)

\* The values `gained' get a register, and `lost' give theirs up.
Turnover(gained, lost) ==
    /\ instr' = instr /\ mode' = mode
    /\ Live' \cup DOMAIN evicted' = ((Live \cup DOMAIN evicted) \ lost) \cup gained

\* The values that live after free_ssa and assign_reg.
LEMMA LiveAfter ==
    ASSUME NEW gone, NEW m, Reassign(gone, m)
    PROVE  Live' = (Live \ gone) \cup DOMAIN m
BY DEF Reassign, Overlay, Without, Live

\* Destinations and killed sources may come and go: the counts do not grow.
LEMMA TurnoverFits ==
    ASSUME Inv, Inv', Room, KilledGone, pc # "idle", NEW gained, NEW lost, Turnover(gained, lost),
           gained \subseteq Dsts, lost \subseteq instr.killed,
           BeforeFree' => BeforeFree /\ gained \subseteq EarlyValues,
           ~BeforeFree' => ~BeforeFree \/ lost = instr.killed
    PROVE  EarlyFit' /\ LateFit' /\ KilledGone'
<1>1. instr' = instr /\ mode' = mode /\ Dsts' = Dsts /\ VecDsts' = VecDsts
      BY SameInstr DEF Turnover, VecDsts
<1>2. Live' \cup DOMAIN evicted' = ((Live \cup DOMAIN evicted) \ lost) \cup gained
      BY DEF Turnover
<1>3. Dsts \cap instr.killed = {}
      BY DEF Inv, InstrOK
<1>4. EarlyFit'
  <2>1. ASSUME BeforeFree' PROVE Cardinality(EarlyValues') <= RegCount
    <3>1. EarlyValues' \subseteq EarlyValues
          BY <1>1, <1>2, <2>1 DEF EarlyValues
    <3>2. Cardinality(EarlyValues) <= RegCount
          BY <2>1 DEF Room, EarlyFit
    <3>3. Cardinality(EarlyValues') <= Cardinality(EarlyValues) /\ Cardinality(EarlyValues') \in Nat
          BY <3>1, ValuesFinite, SmallerCount
    <3> QED BY <3>2, <3>3, ValuesFinite, SizeAssumption
  <2> QED BY <2>1 DEF EarlyFit
<1>5. LateFit'
  <2>1. LateValues' \subseteq LateValues
        BY <1>1, <1>2 DEF LateValues
  <2>2. Cardinality(LateValues) <= RegCount
        BY DEF Room, LateFit
  <2>3. Cardinality(LateValues') <= Cardinality(LateValues) /\ Cardinality(LateValues') \in Nat
        BY <2>1, ValuesFinite, SmallerCount
  <2>4. Cardinality(LateValues') <= RegCount
        BY <2>2, <2>3, ValuesFinite, SizeAssumption
  <2> QED BY <2>4 DEF LateFit
<1>6. KilledGone'
  <2>1. ASSUME ~BeforeFree' PROVE (Live' \cup DOMAIN evicted') \cap instr.killed = {}
    <3>1. CASE ~BeforeFree
          BY <1>2, <1>3, <3>1 DEF KilledGone
    <3>2. CASE lost = instr.killed
          BY <1>2, <1>3, <3>2
    <3> QED BY <2>1, <3>1, <3>2
  <2> QED BY <1>1, <2>1 DEF KilledGone
<1> QED BY <1>4, <1>5, <1>6

\* Nothing is evicted or freed: the counts stay.
LEMMA QuietFits ==
    ASSUME Inv, Inv', Room, KilledGone, pc # "idle", instr' = instr, mode' = mode,
           Live' = Live, evicted' = evicted, BeforeFree' <=> BeforeFree
    PROVE  EarlyFit' /\ LateFit' /\ KilledGone'
<1>1. Turnover({}, {})
      BY DEF Turnover
<1> QED BY <1>1, TurnoverFits

AtFree == pc = "free"

\* Ranges planned in the registers of killed sources are pinned.
LEMMA PlannedInSources == Inv /\ AtFree => PlansFit
<1> SUFFICES ASSUME Inv, pc = "free" PROVE PlansFit
    BY DEF AtFree
<1>1. ASSUME NEW d \in VecIdx(instr.dsts), mode = "mapped", NEW r \in RangeOf(dstReg[d], Len(instr.dsts[d]))
      PROVE  r \in vpin
  <2>1. PICK s \in instr.killed : ssaReg[s] = r
    <3>1. Planned /\ d \in DOMAIN instr.dsts
          BY <1>1 DEF Planned, VecIdx
    <3> QED BY <1>1, <3>1 DEF Inv, Plans
  <2>2. PICK k \in DOMAIN instr.srcs : s \in Comps(instr.srcs[k])
        BY DEF Inv, InstrOK, Srcs, AllComps
  <2>3. PICK j \in DOMAIN instr.srcs[k] : s = instr.srcs[k][j]
        BY <2>2 DEF Comps
  <2>4. BeforeFree /\ k \in DoneSrcs
        BY <1>1 DEF BeforeFree, DoneSrcs, Collecting
  <2>5. Collected(k)
        BY <2>4 DEF Inv, SrcsCollected
  <2> QED BY <2>1, <2>3, <2>4, <2>5 DEF Collected
<1>2. mode # "trivial" \/ ~Planned
      BY DEF Planned
<1> QED BY <1>1, <1>2 DEF PlansFit

\* The same of the next state.
LEMMA PlannedInSourcesNext == Inv' /\ AtFree' => PlansFit'
BY PlannedInSources, PTL

\* No plan, nothing to fit.
LEMMA NoPlans ==
    ASSUME Inv', Planned' => pc' = "free"
    PROVE  PlansFit'
<1>1. CASE Planned'
      BY <1>1, PlannedInSourcesNext DEF AtFree
<1>2. CASE ~Planned'
      BY <1>2 DEF PlansFit
<1> QED BY <1>1, <1>2

\* No operand needs a block any more.
LEMMA NoBlocks ==
    ASSUME ~Collecting', pc' # "alloc"
    PROVE  Blocks'
BY DEF Blocks

\* All vector destinations have registers.
LEMMA AllocDoneFits ==
    ASSUME Inv, Inv', Fits, AllocDone
    PROVE  Fits'
<1>1. /\ pc = "alloc" /\ pc' = (IF mode = "pinCopy" THEN "finish" ELSE "free")
      /\ instr' = instr /\ mode' = mode /\ ssaReg' = ssaReg /\ used' = used /\ vpin' = vpin
      /\ evicted' = evicted
      BY DEF AllocDone, alloc, vra
<1>2. BeforeFree /\ BeforeFree' /\ Live' = Live
      BY <1>1 DEF BeforeFree, Collecting, Live
<1>3. EarlyFit' /\ LateFit' /\ KilledGone'
      BY <1>1, <1>2, QuietFits DEF Fits
<1>4. EvictedFit'
      BY <1>1, <1>2, EarlyRoom DEF Fits, EvictedFit
<1>5. PlansFit'
      BY <1>1, NoPlans DEF Planned
<1>6. Blocks'
      BY <1>1, NoBlocks DEF Collecting
<1>7. CopyPlain'
      BY <1>1 DEF Fits, CopyPlain
<1> QED BY <1>3, <1>4, <1>5, <1>6, <1>7 DEF Fits, Room

\* finish() has re-homed every evicted value.
LEMMA FinishDoneFits ==
    ASSUME Inv, Inv', Fits, FinishDone
    PROVE  Fits'
<1>1. /\ pc = "finish" /\ instr' = instr /\ mode' = mode /\ ssaReg' = ssaReg /\ evicted' = evicted
      /\ pc' = CASE mode = "pinMove" -> "rename" [] mode = "pinCopy" -> "pinCopy" [] OTHER -> "scalar"
      BY DEF FinishDone, alloc, vra
<1>2. (BeforeFree' <=> BeforeFree) /\ Live' = Live /\ pc' \in {"rename", "pinCopy", "scalar"}
      BY <1>1 DEF BeforeFree, Collecting, Live
<1>3. EarlyFit' /\ LateFit' /\ KilledGone'
      BY <1>1, <1>2, QuietFits DEF Fits
<1>4. EvictedFit' /\ PlansFit' /\ Blocks'
      BY <1>2 DEF EvictedFit, PlansFit, Planned, Blocks, Collecting
<1>5. CopyPlain'
      BY <1>1, <1>2 DEF Fits, CopyPlain
<1> QED BY <1>3, <1>4, <1>5 DEF Fits, Room

\* All sources are collected.
LEMMA CollectDoneFits ==
    ASSUME Inv, Inv', Fits, CollectDone
    PROVE  Fits'
<1>1. /\ pc = "collect" /\ n > Len(instr.srcs) /\ instr' = instr /\ mode' = mode /\ ssaReg' = ssaReg
      /\ evicted' = evicted /\ used' = used /\ vpin' = vpin /\ n' = 1
      /\ pc' = CASE mode = "general" -> "alloc" [] mode = "pinMove" -> "finish" [] OTHER -> "free"
      BY DEF CollectDone, alloc, vra
<1>2. BeforeFree /\ BeforeFree' /\ Live' = Live
      BY <1>1 DEF BeforeFree, Collecting, Live
<1>3. EarlyFit' /\ LateFit' /\ KilledGone'
      BY <1>1, <1>2, QuietFits DEF Fits
<1>4. EvictedFit'
      BY <1>1, <1>2, EarlyRoom DEF Fits, EvictedFit
<1>5. PlansFit'
      BY <1>1, NoPlans DEF Planned
<1>6. Blocks'
  <2>1. CASE mode # "general"
        BY <1>1, <2>1, NoBlocks DEF Collecting
  <2>2. CASE mode = "general"
    <3>1. dstReg' = dstReg /\ pc' = "alloc"
          BY <1>1, <2>2 DEF CollectDone
    <3>2. PinnedBlocks' = PinnedBlocks /\ SrcsLeft' = 0 /\ DstsLeft' = DstsLeft
          BY <1>1, <3>1 DEF PinnedBlocks, SrcsLeft, DstsLeft, Planned
    <3>3. Len(instr.srcs) \in Nat /\ n \in Nat
          BY Operands DEF Inv, OperandTypes
    <3>4. ASSUME instr.op # "copy" PROVE Cardinality(PinnedBlocks) + Cardinality(DstsLeft) <= MaxOperands
      <4>1. n <= Len(instr.srcs) + 1 /\ Cardinality(PinnedBlocks) + SrcsLeft + Cardinality(DstsLeft) <= MaxOperands
            BY <1>1, <3>4 DEF Fits, Blocks, Collecting
      <4>2. SrcsLeft = 0
            BY <1>1, <3>3, <4>1 DEF SrcsLeft
      <4>3. Cardinality(PinnedBlocks) \in Nat /\ Cardinality(DstsLeft) \in Nat
            BY <1>1, FiniteBlocks, DstsLeftFinite DEF PinnedBlocks, Inv, CopyTypes
      <4> QED BY <4>1, <4>2, <4>3, SizeAssumption
    <3>5. Cardinality(PinnedBlocks) \in Nat /\ Cardinality(DstsLeft) \in Nat
          BY <1>1, FiniteBlocks, DstsLeftFinite DEF PinnedBlocks, Inv, CopyTypes
    <3>6. ASSUME instr'.op # "copy"
          PROVE  Cardinality(PinnedBlocks') + SrcsLeft' + Cardinality(DstsLeft') <= MaxOperands
          BY <1>1, <3>2, <3>4, <3>5, <3>6
    <3>7. n' <= Len(instr'.srcs) + 1
          BY <1>1, <3>3
    <3> QED BY <3>6, <3>7 DEF Blocks
  <2> QED BY <2>1, <2>2
<1>7. CopyPlain'
      BY <1>1 DEF Fits, CopyPlain, Inv, InstrOK
<1> QED BY <1>3, <1>4, <1>5, <1>6, <1>7 DEF Fits, Room

----------------------------------------------------------------------------
(* Collecting the sources                                                   *)

\* One element more counts at most one more.
LEMMA OneMore ==
    ASSUME NEW S, IsFiniteSet(S), NEW x, NEW T, T \subseteq S \cup {x}
    PROVE  /\ IsFiniteSet(T) /\ Cardinality(S) \in Nat /\ Cardinality(T) \in Nat
           /\ Cardinality(T) <= Cardinality(S) + 1
<1>1. IsFiniteSet(S \cup {x}) /\ Cardinality(S) \in Nat
      BY FS_AddElement, FS_CardinalityType
<1>2. Cardinality(S \cup {x}) <= Cardinality(S) + 1
      BY <1>1, FS_AddElement
<1>3. IsFiniteSet(T) /\ Cardinality(T) \in Nat /\ Cardinality(T) <= Cardinality(S \cup {x})
      BY <1>1, SmallerCount
<1> QED BY <1>1, <1>2, <1>3, FS_CardinalityType

\* Pinned blocks are finitely many.
LEMMA PinnedBlocksFinite ==
    ASSUME Inv
    PROVE  IsFiniteSet(PinnedBlocks) /\ Cardinality(PinnedBlocks) \in Nat
<1>1. IsFiniteSet(PinnedRanges(vpin))
      BY FiniteBlocks DEF Inv, CopyTypes
<1>2. IsFiniteSet(PinnedRanges(vpin) \cup {BlockOf(tgt)})
      BY <1>1, FS_AddElement
<1>3. PinnedBlocks \subseteq PinnedRanges(vpin) \cup {BlockOf(tgt)}
      BY DEF PinnedBlocks
<1> QED BY <1>2, <1>3, SmallerCount

\* The source that is being collected, and the blocks left for it.
LEMMA CollectBlocks ==
    ASSUME Inv, Blocks, pc = "collect", n <= Len(instr.srcs)
    PROVE  /\ n \in DOMAIN instr.srcs /\ instr.srcs[n] \in Vector
           /\ n \in Nat /\ Len(instr.srcs) \in Nat /\ Cardinality(DstsLeft) \in Nat
           /\ IsFiniteSet(PinnedBlocks) /\ Cardinality(PinnedBlocks) \in Nat
           /\ PinnedBlocks = PinnedRanges(vpin)
           /\ instr.op # "copy" =>
                 Cardinality(PinnedBlocks) + (Len(instr.srcs) - n + 1) + Cardinality(DstsLeft) <= MaxOperands
<1>1. n \in DOMAIN instr.srcs /\ instr.srcs[n] \in Vector /\ n \in Nat /\ Len(instr.srcs) \in Nat
      BY Operands DEF Inv, OperandTypes
<1>2. PinnedBlocks = PinnedRanges(vpin) /\ SrcsLeft = Len(instr.srcs) - n + 1
      BY DEF PinnedBlocks, SrcsLeft
<1>3. Cardinality(DstsLeft) \in Nat
      BY DstsLeftFinite DEF Inv
<1>4. instr.op # "copy" => Cardinality(PinnedBlocks) + SrcsLeft + Cardinality(DstsLeft) <= MaxOperands
      BY DEF Blocks, Collecting
<1> QED BY <1>1, <1>2, <1>3, <1>4, PinnedBlocksFinite

\* collect_vector of a vector in place.
LEMMA CollectInPlaceFits ==
    ASSUME Inv, Inv', Fits, CollectInPlace
    PROVE  Fits'
<1> DEFINE vec == instr.srcs[n]
           reg == TryGetVecReg(vec)
<1>1. /\ pc = "collect" /\ pc' = pc /\ n <= Len(instr.srcs) /\ n' = n + 1 /\ reg # None
      /\ instr' = instr /\ mode' = mode /\ ssaReg' = ssaReg /\ evicted' = evicted /\ dstReg' = dstReg
      /\ vpin' = vpin \cup RangeOf(reg, Len(vec))
      BY DEF CollectInPlace, alloc
<1>2. BeforeFree /\ BeforeFree' /\ Live' = Live /\ ~Planned /\ ~Planned'
      BY <1>1 DEF BeforeFree, Collecting, Live, Planned
<1>3. EarlyFit' /\ LateFit' /\ KilledGone'
      BY <1>1, <1>2, QuietFits DEF Fits
<1>4. EvictedFit' /\ PlansFit'
      BY <1>1, <1>2 DEF EvictedFit, PlansFit
<1>5. CopyPlain'
      BY <1>1 DEF Fits, CopyPlain
<1>6. /\ n \in DOMAIN instr.srcs /\ vec \in Vector
      /\ n \in Nat /\ Len(instr.srcs) \in Nat /\ Cardinality(DstsLeft) \in Nat
      /\ IsFiniteSet(PinnedBlocks) /\ Cardinality(PinnedBlocks) \in Nat
      /\ PinnedBlocks = PinnedRanges(vpin)
      /\ instr.op # "copy" =>
            Cardinality(PinnedBlocks) + (Len(instr.srcs) - n + 1) + Cardinality(DstsLeft) <= MaxOperands
      BY <1>1, CollectBlocks DEF Fits
<1>7. Blocks'
  <2>1. reg \in Nat /\ reg % Align(Len(vec)) = 0 /\ Len(vec) \in Nat \ {0} /\ Len(vec) <= MaxComps
        BY <1>1, <1>6, InPlaceFacts, VectorFacts, RegNat DEF Inv
  <2>2. PinnedBlocks' \subseteq PinnedBlocks \cup {BlockOf(reg)}
    <3> HIDE DEF vec, reg
    <3>1. PinnedRanges(vpin') \subseteq PinnedRanges(vpin) \cup {BlockOf(reg)}
          BY <1>1, <2>1, AddRange DEF Inv, CopyTypes
    <3> QED BY <1>1, <1>6, <3>1 DEF PinnedBlocks
  <2>3. Cardinality(PinnedBlocks') <= Cardinality(PinnedBlocks) + 1 /\ Cardinality(PinnedBlocks') \in Nat
        BY <1>6, <2>2, OneMore
  <2>4. DstsLeft' = DstsLeft /\ SrcsLeft' = Len(instr.srcs) - (n + 1) + 1
        BY <1>1, <1>2 DEF DstsLeft, SrcsLeft
  <2>5. n' <= Len(instr.srcs) + 1
        BY <1>1, <1>6
  <2>6. instr.op # "copy" =>
           Cardinality(PinnedBlocks') + (Len(instr.srcs) - (n + 1) + 1) + Cardinality(DstsLeft) <= MaxOperands
    <3>1. \A a, b, d, l, m, k \in Nat :
             b <= a + 1 /\ a + (l - m + 1) + d <= k => b + (l - (m + 1) + 1) + d <= k
          OBVIOUS
    <3>2. MaxOperands \in Nat
          BY SizeAssumption
    <3> HIDE DEF vec, reg
    <3> QED BY <1>6, <2>3, <3>1, <3>2
  <2> QED BY <1>1, <2>4, <2>5, <2>6 DEF Blocks
<1> QED BY <1>3, <1>4, <1>5, <1>7 DEF Fits, Room

\* collect_vector chooses a range: the block counts from now on.
LEMMA CollectElsewhereFits ==
    ASSUME Inv, Inv', Fits, CollectElsewhere
    PROVE  Fits'
<1>1. /\ pc = "collect" /\ pc' = "move" /\ n <= Len(instr.srcs) /\ n' = n
      /\ TryGetVecReg(instr.srcs[n]) = None
      /\ instr' = instr /\ mode' = mode /\ ssaReg' = ssaReg /\ evicted' = evicted /\ dstReg' = dstReg
      /\ vpin' = vpin
      BY DEF CollectElsewhere, alloc, vra, operands
<1>2. BeforeFree /\ BeforeFree' /\ Live' = Live /\ ~Planned /\ ~Planned'
      BY <1>1 DEF BeforeFree, Collecting, Live, Planned
<1>3. EarlyFit' /\ LateFit' /\ KilledGone'
      BY <1>1, <1>2, QuietFits DEF Fits
<1>4. EvictedFit' /\ PlansFit'
      BY <1>1, <1>2 DEF EvictedFit, PlansFit
<1>5. instr.op # "copy"
      BY <1>1, CopyInPlace DEF Fits
<1>6. CopyPlain'
      BY <1>1, <1>5 DEF CopyPlain
<1>7. Blocks'
  <2>1. PinnedBlocks' \subseteq PinnedBlocks \cup {BlockOf(tgt')}
        BY <1>1 DEF PinnedBlocks
  <2>2. Cardinality(PinnedBlocks') <= Cardinality(PinnedBlocks) + 1 /\ Cardinality(PinnedBlocks') \in Nat
        BY <2>1, PinnedBlocksFinite, OneMore
  <2>3. DstsLeft' = DstsLeft /\ SrcsLeft' = Len(instr.srcs) - n
        BY <1>1, <1>2 DEF DstsLeft, SrcsLeft
  <2>4. /\ n \in Nat /\ Len(instr.srcs) \in Nat /\ Cardinality(DstsLeft) \in Nat
        /\ Cardinality(PinnedBlocks) \in Nat
        /\ Cardinality(PinnedBlocks) + (Len(instr.srcs) - n + 1) + Cardinality(DstsLeft) <= MaxOperands
        BY <1>1, <1>5, CollectBlocks DEF Fits
  <2>5. n <= Len(instr.srcs) + 1
        BY <1>1, <2>4
  <2>6. Cardinality(PinnedBlocks') + (Len(instr.srcs) - n) + Cardinality(DstsLeft) <= MaxOperands
        BY <2>2, <2>4, SizeAssumption
  <2> QED BY <1>1, <2>3, <2>5, <2>6 DEF Blocks
<1> QED BY <1>3, <1>4, <1>6, <1>7 DEF Fits, Room

\* A component reached its place in the range that was chosen.
LEMMA MoveFits ==
    ASSUME Inv, Inv', Fits, pc = "move", NextComponent, Turnover({}, {}),
           tgt' = tgt, dstReg' = dstReg, vpin' = vpin \cup {tgt + c}
    PROVE  Fits'
<1>1. instr' = instr /\ mode' = mode
      BY DEF Turnover
<1>2. (pc' = "move" /\ n' = n) \/ (pc' = "collect" /\ n' = n + 1)
      BY DEF NextComponent
<1>3. BeforeFree /\ BeforeFree' /\ ~Planned /\ ~Planned'
      BY <1>2 DEF BeforeFree, Collecting, Planned
<1>4. EarlyFit' /\ LateFit' /\ KilledGone'
      BY <1>3, TurnoverFits DEF Fits
<1>5. EvictedFit' /\ PlansFit'
      BY <1>2, <1>3 DEF EvictedFit, PlansFit
<1>6. instr.op # "copy"
      BY DEF Fits, CopyPlain
<1>7. CopyPlain'
      BY <1>1, <1>6 DEF CopyPlain
<1>8. PinnedBlocks' \subseteq PinnedBlocks
  <2> DEFINE len == Len(instr.srcs[n])
             reg == tgt
  <2>1. len \in Nat \ {0} /\ len <= MaxComps /\ c \in Nat
        BY MovingFacts, VectorFacts
  <2>2. reg \in Nat /\ reg % Align(len) = 0 /\ c < len
        BY DEF Inv, MoveOK, OperandTypes
  <2>3. {reg + c} \subseteq RangeOf(reg, len)
        BY <2>1, <2>2 DEF RangeOf
  <2>4. vpin \in SUBSET Reg
        BY DEF Inv, CopyTypes
  <2> HIDE DEF len, reg
  <2>5. PinnedRanges(vpin \cup {reg + c}) \subseteq PinnedRanges(vpin) \cup {BlockOf(reg)}
        BY <2>1, <2>2, <2>3, <2>4, AddRange
  <2> QED BY <1>2, <2>5 DEF PinnedBlocks, reg
<1>9. Blocks'
  <2>1. Cardinality(PinnedBlocks') \in Nat /\ Cardinality(PinnedBlocks) \in Nat
        /\ Cardinality(PinnedBlocks') <= Cardinality(PinnedBlocks)
        BY <1>8, PinnedBlocksFinite, SmallerCount
  <2>2. DstsLeft' = DstsLeft /\ Cardinality(DstsLeft) \in Nat
        BY <1>1, <1>3, DstsLeftFinite DEF DstsLeft, Inv
  <2>3. n \in Nat /\ Len(instr.srcs) \in Nat /\ n <= Len(instr.srcs)
        BY MovingFacts, Operands DEF Inv
  <2>4. SrcsLeft = Len(instr.srcs) - n /\ SrcsLeft' = Len(instr.srcs) - n
        BY <1>1, <1>2, <2>3 DEF SrcsLeft
  <2>5. Cardinality(PinnedBlocks) + (Len(instr.srcs) - n) + Cardinality(DstsLeft) <= MaxOperands
        BY <1>6, <2>4 DEF Fits, Blocks, Collecting
  <2>6. Cardinality(PinnedBlocks') + (Len(instr.srcs) - n) + Cardinality(DstsLeft) <= MaxOperands
        BY <2>1, <2>2, <2>3, <2>5, SizeAssumption
  <2>7. n' <= Len(instr.srcs) + 1
        BY <1>2, <2>3
  <2> QED BY <1>1, <2>2, <2>4, <2>6, <2>7 DEF Blocks
<1> QED BY <1>4, <1>5, <1>7, <1>9 DEF Fits, Room

\* An eviction keeps all values.
LEMMA PlaceTurnover ==
    ASSUME Inv, NEW s \in Live \cup DOMAIN evicted, NEW new, NEW old, PlaceEvicting(s, new, old),
           instr' = instr, mode' = mode
    PROVE  Turnover({}, {})
<1> DEFINE out == Occupants({new})
<1>1. out \subseteq Live
      BY OneEach DEF Inv
<1>2. Live' = (Live \ (out \cup ({s} \cap Live))) \cup DOMAIN One(s, new)
      BY LiveAfter DEF PlaceEvicting
<1>3. DOMAIN evicted' = (DOMAIN evicted \ {s}) \cup out
      BY DEF PlaceEvicting, Overlay, Without
<1>4. DOMAIN One(s, new) = {s}
      BY DEF One
<1> HIDE DEF out
<1>5. Live' \cup DOMAIN evicted' = Live \cup DOMAIN evicted
      BY <1>1, <1>2, <1>3, <1>4
<1> QED BY <1>5 DEF Turnover

\* move_ssa_to_reg of a component in place.
LEMMA MoveStayFits ==
    ASSUME Inv, Inv', Fits, MoveStay
    PROVE  Fits'
<1>1. /\ pc = "move" /\ NextComponent /\ tgt' = tgt /\ dstReg' = dstReg /\ vpin' = vpin \cup {tgt + c}
      /\ instr' = instr /\ mode' = mode /\ ssaReg' = ssaReg /\ evicted' = evicted
      BY DEF MoveStay, alloc
<1>2. Turnover({}, {})
      BY <1>1 DEF Turnover, Live
<1> QED BY <1>1, <1>2, MoveFits

\* move_ssa_to_reg from another register.
LEMMA MoveAllocatedFits ==
    ASSUME Inv, Inv', Fits, MoveAllocated
    PROVE  Fits'
<1>1. /\ pc = "move" /\ NextComponent /\ tgt' = tgt /\ dstReg' = dstReg /\ Moving \in Live
      /\ instr' = instr /\ mode' = mode /\ PlaceEvicting(Moving, tgt + c, ssaReg[Moving])
      BY DEF MoveAllocated
<1>2. Turnover({}, {})
      BY <1>1, PlaceTurnover
<1>3. vpin' = vpin \cup {tgt + c}
      BY <1>1 DEF PlaceEvicting
<1> QED BY <1>1, <1>2, <1>3, MoveFits

\* move_ssa_to_reg of a value that was evicted.
LEMMA MoveEvictedFits ==
    ASSUME Inv, Inv', Fits, MoveEvicted
    PROVE  Fits'
<1>1. /\ pc = "move" /\ NextComponent /\ tgt' = tgt /\ dstReg' = dstReg /\ Moving \in DOMAIN evicted
      /\ instr' = instr /\ mode' = mode /\ PlaceEvicting(Moving, tgt + c, evicted[Moving])
      BY DEF MoveEvicted
<1>2. Turnover({}, {})
      BY <1>1, PlaceTurnover
<1>3. vpin' = vpin \cup {tgt + c}
      BY <1>1 DEF PlaceEvicting
<1> QED BY <1>1, <1>2, <1>3, MoveFits

----------------------------------------------------------------------------
(* Freeing                                                                  *)

\* free_killed: what the sources give up makes room.
LEMMA FreeKilledFits ==
    ASSUME Inv, Inv', Fits, FreeKilled
    PROVE  Fits'
<1>1. /\ pc = "free" /\ pc' = (IF mode = "mapped" THEN "assign" ELSE "finish")
      /\ instr' = instr /\ mode' = mode /\ evicted' = evicted /\ vpin' = vpin /\ dstReg' = dstReg
      /\ Reassign(instr.killed, EmptyFn)
      BY DEF FreeKilled, vra, operands, Freed
<1>2. instr.killed \subseteq Live
      BY <1>1, FitsAsserts DEF AssertsHold
<1>3. Live' = Live \ instr.killed
  <2>1. DOMAIN EmptyFn = {}
        BY DEF EmptyFn
  <2> QED BY <1>1, <2>1, LiveAfter
<1>4. Turnover({}, instr.killed)
      BY <1>1, <1>2, <1>3 DEF Turnover, Inv
<1>5. BeforeFree /\ ~BeforeFree'
      BY <1>1 DEF BeforeFree, Collecting, Inv, Places
<1>6. EarlyFit' /\ LateFit' /\ KilledGone'
      BY <1>1, <1>4, <1>5, TurnoverFits DEF Fits
<1>7. EvictedFit'
  <2>1. used' \subseteq used
    <3>1. Image(EmptyFn) = {}
          BY DEF Image, EmptyFn
    <3> QED BY <1>1, <3>1 DEF Reassign
  <2>2. used' \cup vpin' \subseteq used
        BY <1>1, <1>5, <2>1, EarlyRoom DEF Fits
  <2>3. Cardinality(used' \cup vpin') <= Cardinality(used) /\ Cardinality(used' \cup vpin') \in Nat
        BY <2>2, UsedCount, SmallerCount
  <2>4. Cardinality(used) + Cardinality(DOMAIN evicted) <= RegCount
        BY <1>5, EarlyRoom DEF Fits
  <2>5. Cardinality(used' \cup vpin') + Cardinality(DOMAIN evicted) <= RegCount
        BY <2>3, <2>4, UsedCount, SizeAssumption
  <2> QED BY <1>1, <2>5 DEF EvictedFit
<1>8. PlansFit'
      BY <1>1 DEF PlansFit, Planned, Fits
<1>9. Blocks'
      BY <1>1 DEF Blocks, Collecting
<1>10. CopyPlain'
      BY <1>1 DEF Fits, CopyPlain
<1> QED BY <1>6, <1>7, <1>8, <1>9, <1>10 DEF Fits, Room

\* The OpPin arm frees the sources that die.
LEMMA PinCopyFits ==
    ASSUME Inv, Inv', Fits, PinCopy
    PROVE  Fits'
<1>1. /\ pc = "pinCopy" /\ pc' = "scalar" /\ instr' = instr /\ mode' = mode /\ evicted' = evicted
      /\ Reassign(instr.killed, EmptyFn)
      BY DEF PinCopy, vra, Freed
<1>2. Live' = Live \ instr.killed /\ DOMAIN evicted = {}
  <2>1. DOMAIN EmptyFn = {}
        BY DEF EmptyFn
  <2> QED BY <1>1, <2>1, LiveAfter DEF Inv, NoneLeft
<1>3. Turnover({}, instr.killed)
      BY <1>1, <1>2 DEF Turnover
<1>4. ~BeforeFree'
      BY <1>1 DEF BeforeFree, Collecting
<1>5. EarlyFit' /\ LateFit' /\ KilledGone'
      BY <1>1, <1>3, <1>4, TurnoverFits DEF Fits
<1>6. EvictedFit' /\ PlansFit' /\ Blocks' /\ CopyPlain'
      BY <1>1 DEF EvictedFit, PlansFit, Planned, Blocks, Collecting, Fits, CopyPlain
<1> QED BY <1>5, <1>6 DEF Fits, Room

\* The OpPin arm renames a vector that dies.
LEMMA PinRenameFits ==
    ASSUME Inv, Inv', Fits, PinRename
    PROVE  Fits'
<1>1. /\ pc = "rename" /\ pc' = "scalar" /\ instr' = instr /\ mode' = mode /\ evicted' = evicted
      /\ Reassign(Comps(instr.srcs[1]), VecMap(instr.dsts[1], srcReg[1]))
      BY DEF PinRename, vra
<1>2. /\ DOMAIN evicted = {} /\ mode = "pinMove" /\ instr.killed = Srcs
      /\ DOMAIN instr.srcs = {1} /\ DOMAIN instr.dsts = {1}
      BY <1>1, Operands DEF Inv, NoneLeft, Places, InstrOK
<1>3. Comps(instr.srcs[1]) = Srcs /\ Comps(instr.dsts[1]) = Dsts
      BY <1>2 DEF Srcs, Dsts, AllComps
<1>4. DOMAIN VecMap(instr.dsts[1], srcReg[1]) = Dsts
      BY <1>3 DEF VecMap
<1>5. Live' = (Live \ Srcs) \cup Dsts
      BY <1>1, <1>3, <1>4, LiveAfter
<1>6. Turnover(Dsts, instr.killed)
      BY <1>1, <1>2, <1>5 DEF Turnover
<1>7. ~BeforeFree'
      BY <1>1 DEF BeforeFree, Collecting
<1>8. EarlyFit' /\ LateFit' /\ KilledGone'
      BY <1>1, <1>6, <1>7, TurnoverFits DEF Fits
<1>9. EvictedFit' /\ PlansFit' /\ Blocks' /\ CopyPlain'
      BY <1>1 DEF EvictedFit, PlansFit, Planned, Blocks, Collecting, Fits, CopyPlain
<1> QED BY <1>8, <1>9 DEF Fits, Room

----------------------------------------------------------------------------
(* Giving registers to destinations and to evicted values                   *)

\* alloc_vector takes one block for one destination.
LEMMA AllocVectorFits ==
    ASSUME Inv, Inv', Fits, AllocVector
    PROVE  Fits'
<1> DEFINE d == Minimum(NextVecDst)
           vec == instr.dsts[d]
           len == Len(vec)
           unused == FindUnset(used, 0, len)
           reg == IF unused # None THEN unused ELSE FindUnset(vpin, 0, len)
           range == RangeOf(reg, len)
           out == Occupants(range)
<1>1. /\ pc = "alloc" /\ NextVecDst # {} /\ reg # None /\ Reassign(out, VecMap(vec, reg))
      /\ vpin' = vpin \cup range /\ evicted' = Overlay(evicted, [s \in out |-> ssaReg[s]])
      /\ dstReg' = [dstReg EXCEPT ![d] = reg]
      /\ pc' = pc /\ instr' = instr /\ mode' = mode /\ n' = n
      BY DEF AllocVector
<1>2. mode \in {"general", "pinCopy"} /\ instr.op # "copy"
      BY <1>1 DEF Inv, Places, Fits, CopyPlain
<1>3. NextVecDst \in SUBSET Nat
      BY Operands DEF Inv, NextVecDst, VecIdx
<1>4. d \in NextVecDst
      BY <1>1, <1>3, SmallestNumber
<1>5. d \in DOMAIN instr.dsts /\ dstReg[d] = None /\ (mode = "general" => d \in VecIdx(instr.dsts))
      BY <1>2, <1>4, Operands DEF NextVecDst, VecIdx, Inv, InstrOK
<1>6. vec \in Vector /\ len \in Nat \ {0} /\ len <= MaxComps
      BY <1>5, Operands, VectorFacts DEF Inv
<1>7. reg \in Nat /\ reg % Align(len) = 0
  <2> HIDE DEF len
  <2>1. CASE unused # None
        BY <1>6, <2>1, FoundRange, RegNat
  <2>2. CASE unused = None
        BY <1>1, <1>6, <2>2, FoundRange, RegNat
  <2> QED BY <2>1, <2>2
<1> HIDE DEF d, len, reg
<1>8. ~Planned /\ ~Planned' /\ BeforeFree /\ BeforeFree'
      BY <1>1 DEF Planned, BeforeFree
<1>9. Turnover(Comps(vec), {})
  <2>1. out \subseteq Live
        BY OneEach DEF Inv
  <2>2. Live' = (Live \ out) \cup Comps(vec)
    <3>1. DOMAIN VecMap(vec, reg) = Comps(vec)
          BY DEF VecMap
    <3>2. Live' = (Live \ out) \cup DOMAIN VecMap(vec, reg)
          BY <1>1, LiveAfter
    <3> QED BY <3>1, <3>2
  <2>3. DOMAIN evicted' = DOMAIN evicted \cup out
        BY <1>1 DEF Overlay
  <2> HIDE DEF out, vec
  <2> QED BY <1>1, <2>1, <2>2, <2>3 DEF Turnover
<1>10. Comps(vec) \subseteq Dsts /\ Comps(vec) \subseteq EarlyValues
  <2>1. Comps(vec) \subseteq Dsts
        BY <1>5 DEF Dsts, AllComps
  <2>2. CASE mode = "pinCopy"
        BY <2>1, <2>2 DEF EarlyValues
  <2>3. CASE mode = "general"
        BY <1>5, <2>1, <2>3 DEF EarlyValues, VecDsts
  <2> QED BY <1>2, <2>1, <2>2, <2>3
<1>11. EarlyFit' /\ LateFit' /\ KilledGone'
       BY <1>1, <1>8, <1>9, <1>10, TurnoverFits DEF Fits
<1>12. EvictedFit' /\ PlansFit' /\ CopyPlain'
       BY <1>1, <1>2, <1>8 DEF EvictedFit, PlansFit, CopyPlain
<1>13. Blocks'
  <2>1. PinnedBlocks' \subseteq PinnedBlocks \cup {BlockOf(reg)}
    <3>1. vpin \in SUBSET Reg
          BY DEF Inv, CopyTypes
    <3>2. PinnedRanges(vpin') \subseteq PinnedRanges(vpin) \cup {BlockOf(reg)}
          BY <1>1, <1>6, <1>7, <3>1, AddRange
    <3> QED BY <1>1, <3>2 DEF PinnedBlocks
  <2>2. Cardinality(PinnedBlocks') <= Cardinality(PinnedBlocks) + 1 /\ Cardinality(PinnedBlocks') \in Nat
        BY <2>1, PinnedBlocksFinite, OneMore
  <2>3. d \in DstsLeft /\ DstsLeft' = DstsLeft \ {d}
    <3>1. \A e \in DOMAIN instr.dsts : dstReg'[e] = IF e = d THEN reg ELSE dstReg[e]
          BY <1>1, <1>5 DEF Inv, OperandTypes
    <3>2. DstsLeft \subseteq DOMAIN instr.dsts
          BY <1>2, Operands DEF DstsLeft, VecIdx, Inv, InstrOK
    <3>3. d \in DstsLeft
          BY <1>2, <1>4 DEF DstsLeft, NextVecDst
    <3>4. DstsLeft = {e \in VecIdx(instr.dsts) \cup (IF mode = "pinCopy" THEN {1} ELSE {}) : dstReg[e] = None}
          BY <1>2, <1>8 DEF DstsLeft
    <3>5. DstsLeft' = {e \in VecIdx(instr.dsts) \cup (IF mode = "pinCopy" THEN {1} ELSE {}) : dstReg'[e] = None}
          BY <1>1, <1>2, <1>8 DEF DstsLeft
    <3>6. VecIdx(instr.dsts) \cup (IF mode = "pinCopy" THEN {1} ELSE {}) \subseteq DOMAIN instr.dsts
          BY <1>2, Operands DEF VecIdx, Inv, InstrOK
    <3> HIDE DEF vec, range, out, unused
    <3> QED BY <1>1, <3>1, <3>3, <3>4, <3>5, <3>6
  <2>4. IsFiniteSet(DstsLeft) /\ Cardinality(DstsLeft) \in Nat
        BY DstsLeftFinite DEF Inv
  <2>5. Cardinality(DstsLeft') = Cardinality(DstsLeft) - 1
        BY <2>3, <2>4, FS_RemoveElement
  <2>6. SrcsLeft = 0 /\ SrcsLeft' = 0
        BY <1>1 DEF SrcsLeft
  <2>7. n <= Len(instr.srcs) + 1 /\ Cardinality(PinnedBlocks) + 0 + Cardinality(DstsLeft) <= MaxOperands
        BY <1>1, <1>2, <2>6 DEF Fits, Blocks
  <2>8. Cardinality(PinnedBlocks') + 0 + Cardinality(DstsLeft') <= MaxOperands
        BY <2>2, <2>4, <2>5, <2>7, PinnedBlocksFinite, SizeAssumption
  <2> QED BY <1>1, <2>6, <2>7, <2>8 DEF Blocks
<1> QED BY <1>11, <1>12, <1>13 DEF Fits, Room

\* A union counts at most as much as its parts.
LEMMA UnionCount ==
    ASSUME NEW S, NEW T, IsFiniteSet(S), IsFiniteSet(T)
    PROVE  /\ IsFiniteSet(S \cup T) /\ Cardinality(S \cup T) <= Cardinality(S) + Cardinality(T)
           /\ Cardinality(S) \in Nat /\ Cardinality(T) \in Nat /\ Cardinality(S \cup T) \in Nat
<1>1. IsFiniteSet(S \cup T) /\ IsFiniteSet(S \cap T)
      BY FS_Union, FS_Subset
<1>2. Cardinality(S \cup T) = Cardinality(S) + Cardinality(T) - Cardinality(S \cap T)
      BY FS_Union
<1>3. Cardinality(S) \in Nat /\ Cardinality(T) \in Nat /\ Cardinality(S \cup T) \in Nat /\ Cardinality(S \cap T) \in Nat
      BY <1>1, FS_CardinalityType
<1> QED BY <1>1, <1>2, <1>3

\* The chosen ranges are in a block each, or in registers that are pinned.
LEMMA AssignDstsFits ==
    ASSUME Inv, Inv', Fits, AssignDsts
    PROVE  Fits'
<1> DEFINE m == DstMap(instr.dsts, dstReg)
           idx == VecIdx(instr.dsts)
<1>1. /\ pc = "assign" /\ pc' = (IF mode = "trivial" THEN "collect" ELSE "finish")
      /\ Reassign({}, m) /\ vpin' = vpin \cup Image(m) /\ evicted' = evicted
      /\ instr' = instr /\ mode' = mode /\ n' = n /\ dstReg' = dstReg
      BY DEF AssignDsts, operands
<1>2. mode \in {"mapped", "trivial"}
      BY <1>1 DEF Inv, Places
<1>3. DOMAIN m = VecDsts
      BY DEF DstMap, VecDsts
<1>4. Live' = Live \cup VecDsts
      BY <1>1, <1>3, LiveAfter
<1>5. Turnover(VecDsts, {})
      BY <1>1, <1>4 DEF Turnover
<1>6. (BeforeFree' <=> BeforeFree) /\ Planned /\ ~Planned' /\ VecDsts \subseteq EarlyValues
      BY <1>1, <1>2, ValuesFinite DEF BeforeFree, Collecting, Planned, EarlyValues
<1>7. EarlyFit' /\ LateFit' /\ KilledGone'
      BY <1>1, <1>5, <1>6, ValuesFinite, TurnoverFits DEF Fits
<1>8. PlansFit' /\ CopyPlain'
      BY <1>1, <1>2, <1>6 DEF PlansFit, Fits, CopyPlain
<1>9. ASSUME NEW s \in DOMAIN m PROVE \E d \in idx : m[s] \in RangeOf(dstReg[d], Len(instr.dsts[d]))
  <2>1. \A d, e \in idx :
           d # e => RangeOf(dstReg[d], Len(instr.dsts[d])) \cap RangeOf(dstReg[e], Len(instr.dsts[e])) = {}
        BY <1>6 DEF Inv, Plans
  <2> QED BY <2>1, DstMapFacts DEF Inv
<1> HIDE DEF m
<1>10. EvictedFit'
  <2>1. CASE mode = "mapped"
    <3>1. Image(m) \subseteq vpin
          BY <1>6, <1>9, <2>1 DEF Image, Fits, PlansFit
    <3>2. used' \subseteq used \cup Image(m)
          BY <1>1 DEF Reassign
    <3>3. used' \cup vpin' \subseteq used \cup vpin
          BY <1>1, <3>1, <3>2
    <3>4. IsFiniteSet(used \cup vpin)
          BY UsedCount, FS_Union
    <3>5. /\ Cardinality(used' \cup vpin') <= Cardinality(used \cup vpin)
          /\ Cardinality(used' \cup vpin') \in Nat /\ Cardinality(used \cup vpin) \in Nat
          BY <3>3, <3>4, SmallerCount
    <3>6. Cardinality(used \cup vpin) + Cardinality(DOMAIN evicted) <= RegCount
          BY <1>1, <2>1 DEF Fits, Room, EvictedFit
    <3>7. Cardinality(used' \cup vpin') + Cardinality(DOMAIN evicted) <= RegCount
          BY <3>5, <3>6, UsedCount, SizeAssumption
    <3> QED BY <1>1, <3>7 DEF EvictedFit
  <2>2. CASE mode = "trivial"
        BY <1>1, <2>2 DEF EvictedFit
  <2> QED BY <1>2, <2>1, <2>2
<1>11. Blocks'
  <2>1. CASE mode = "mapped"
        BY <1>1, <2>1, NoBlocks DEF Collecting
  <2>2. CASE mode = "trivial"
    <3> DEFINE new == {BlockOf(dstReg[d]) : d \in idx}
    <3>1. idx \subseteq DOMAIN instr.dsts /\ IsFiniteSet(idx)
      <4>1. idx \subseteq 1 .. Len(instr.dsts) /\ idx \subseteq DOMAIN instr.dsts
            BY Operands DEF VecIdx, Inv
      <4>2. IsFiniteSet(1 .. Len(instr.dsts))
            BY Operands, FS_Interval DEF Inv
      <4> QED BY <4>1, <4>2, FS_Subset
    <3>2. IsFiniteSet(new) /\ Cardinality(new) <= Cardinality(idx)
      <4> DEFINE f == [d \in idx |-> BlockOf(dstReg[d])]
      <4>1. f \in Surjection(idx, new)
            BY Fun_IsSurj
      <4> QED BY <3>1, <4>1, FS_Surjection
    <3>3. ASSUME NEW d \in idx, NEW r \in RangeOf(dstReg[d], Len(instr.dsts[d]))
          PROVE  BlockOf(r) = BlockOf(dstReg[d])
      <4> DEFINE reg == dstReg[d]
                 len == Len(instr.dsts[d])
      <4>1. len \in Nat \ {0} /\ len <= MaxComps
            BY <3>1, Operands, VectorFacts DEF Inv
      <4>2. reg \in Nat
        <5>1. reg \in Int
              BY <3>1 DEF Inv, OperandTypes
        <5>2. reg \in RangeOf(reg, len)
              BY <4>1, <5>1 DEF RangeOf
        <5>3. reg \in Reg
              BY <1>6, <3>1, <5>2 DEF Inv, Plans
        <5> QED BY <5>3, RegNat
      <4>3. reg % Align(len) = 0
            BY <1>6, <2>2 DEF Fits, PlansFit
      <4> HIDE DEF reg, len
      <4>4. BlockOf(r) = BlockOf(reg)
            BY <3>3, <4>1, <4>2, <4>3, OneBlock DEF reg, len
      <4> QED BY <4>4 DEF reg
    <3>4. PinnedBlocks' \subseteq PinnedBlocks \cup new
      <4>1. ASSUME NEW r \in Image(m) PROVE BlockOf(r) \in new
            BY <1>9, <3>3 DEF Image
      <4>2. PinnedRanges(vpin') \subseteq PinnedRanges(vpin) \cup new
            BY <1>1, <4>1 DEF PinnedRanges, BlockOf
      <4> QED BY <1>1, <2>2, <4>2 DEF PinnedBlocks
    <3> HIDE DEF new
    <3>5. /\ IsFiniteSet(PinnedBlocks \cup new) /\ Cardinality(new) \in Nat /\ Cardinality(PinnedBlocks) \in Nat
          /\ Cardinality(PinnedBlocks \cup new) <= Cardinality(PinnedBlocks) + Cardinality(new)
          BY <3>2, PinnedBlocksFinite, UnionCount
    <3>6. /\ Cardinality(PinnedBlocks') \in Nat /\ Cardinality(PinnedBlocks \cup new) \in Nat
          /\ Cardinality(PinnedBlocks') <= Cardinality(PinnedBlocks \cup new)
          BY <3>4, <3>5, SmallerCount
    <3>7. DstsLeft = idx /\ DstsLeft' = {}
      <4>1. \A d \in idx : dstReg[d] # None
            BY <1>1 DEF Inv, DstsGiven
      <4>2. DstsLeft = idx
            BY <1>6, <2>2 DEF DstsLeft
      <4>3. DstsLeft' = {}
            BY <1>1, <1>6, <2>2, <4>1 DEF DstsLeft
      <4> QED BY <4>2, <4>3
    <3>8. Cardinality(idx) \in Nat /\ Cardinality(DstsLeft') = 0
          BY <3>1, <3>7, FS_CardinalityType, FS_EmptySet
    <3>9. n \in Nat /\ Len(instr.srcs) \in Nat
          BY Operands DEF Inv, OperandTypes
    <3>10. SrcsLeft = Len(instr.srcs) - n + 1 /\ SrcsLeft' = Len(instr.srcs) - n + 1
           BY <1>1, <2>2 DEF SrcsLeft
    <3>11. instr.op # "copy"
           BY <2>2 DEF Inv, InstrOK
    <3>12. /\ n <= Len(instr.srcs) + 1
           /\ Cardinality(PinnedBlocks) + (Len(instr.srcs) - n + 1) + Cardinality(idx) <= MaxOperands
           BY <1>1, <2>2, <3>7, <3>10, <3>11 DEF Fits, Blocks, Collecting
    <3>13. \A a, b, e, i, k, x \in Nat, l \in Int :
              b <= x /\ x <= a + e /\ e <= i /\ a + l + i <= k => b + l + 0 <= k
           OBVIOUS
    <3>14. MaxOperands \in Nat /\ Len(instr.srcs) - n + 1 \in Int
           BY <3>9, SizeAssumption
    <3>15. Cardinality(PinnedBlocks') + (Len(instr.srcs) - n + 1) + 0 <= MaxOperands
           BY <3>2, <3>5, <3>6, <3>8, <3>12, <3>13, <3>14
    <3> QED BY <1>1, <3>8, <3>10, <3>12, <3>15 DEF Blocks
  <2> QED BY <1>2, <2>1, <2>2
<1> QED BY <1>7, <1>8, <1>10, <1>11 DEF Fits, Room

\* finish() takes one register for one evicted value.
LEMMA FinishOneFits ==
    ASSUME Inv, Inv', Fits, FinishOne
    PROVE  Fits'
<1>1. /\ pc = "finish" /\ pc' = pc /\ instr' = instr /\ mode' = mode
      BY DEF FinishOne
<1>2. PICK s \in DOMAIN evicted, new \in Reg :
         /\ Reassign({}, One(s, new)) /\ vpin' = vpin \cup {new} /\ evicted' = Without(evicted, {s})
      BY FinishOneFacts
<1>3. DOMAIN One(s, new) = {s} /\ Image(One(s, new)) = {new}
      BY DEF One, Image
<1>4. Live' = Live \cup {s} /\ DOMAIN evicted' = DOMAIN evicted \ {s}
  <2>1. Live' = (Live \ {}) \cup DOMAIN One(s, new)
        BY <1>2, LiveAfter
  <2>2. DOMAIN evicted' = DOMAIN evicted \ {s}
        BY <1>2 DEF Without
  <2> QED BY <1>3, <2>1, <2>2
<1>5. Turnover({}, {})
      BY <1>1, <1>2, <1>4 DEF Turnover
<1>6. BeforeFree' <=> BeforeFree
      BY <1>1 DEF BeforeFree, Collecting
<1>7. EarlyFit' /\ LateFit' /\ KilledGone'
      BY <1>1, <1>5, <1>6, TurnoverFits DEF Fits
<1>8. PlansFit' /\ Blocks'
      BY <1>1 DEF PlansFit, Planned, Blocks, Collecting
<1>9. CopyPlain'
  <2>1. DOMAIN evicted # {}
        BY <1>2
  <2>2. instr'.op # "copy"
        BY <1>1, <2>1 DEF Fits, CopyPlain
  <2> QED BY <2>2 DEF CopyPlain
<1>10. EvictedFit'
  <2>1. used' \cup vpin' \subseteq (used \cup vpin) \cup {new}
        BY <1>2, <1>3 DEF Reassign
  <2>2. IsFiniteSet(used \cup vpin)
        BY UsedCount, FS_Union
  <2>3. /\ Cardinality(used' \cup vpin') <= Cardinality(used \cup vpin) + 1
        /\ Cardinality(used' \cup vpin') \in Nat /\ Cardinality(used \cup vpin) \in Nat
        BY <2>1, <2>2, OneMore
  <2>4. Cardinality(DOMAIN evicted') = Cardinality(DOMAIN evicted) - 1
        BY <1>2, <1>4, UsedCount, FS_RemoveElement
  <2>5. Cardinality(used \cup vpin) + Cardinality(DOMAIN evicted) <= RegCount
        BY <1>1 DEF Fits, Room, EvictedFit
  <2>6. Cardinality(used' \cup vpin') + Cardinality(DOMAIN evicted') <= RegCount
        BY <2>3, <2>4, <2>5, UsedCount, SizeAssumption
  <2> QED BY <2>6 DEF EvictedFit
<1> QED BY <1>7, <1>8, <1>9, <1>10 DEF Fits, Room

\* A scalar destination gets a register.
LEMMA AssignScalarFits ==
    ASSUME Inv, Inv', Fits, pc = "scalar", NEW d \in DOMAIN instr.dsts, NEW reg, AssignScalar(d, reg)
    PROVE  Fits'
<1>1. /\ pc' = pc /\ instr' = instr /\ mode' = mode /\ evicted' = evicted
      /\ Reassign({}, One(instr.dsts[d][1], reg))
      BY DEF AssignScalar, vra
<1>2. instr.dsts[d][1] \in Dsts
  <2>1. 1 \in DOMAIN instr.dsts[d]
        BY Operands, VectorFacts DEF Inv
  <2> QED BY <2>1, Operands DEF Inv
<1>3. Live' = Live \cup {instr.dsts[d][1]}
  <2>1. DOMAIN One(instr.dsts[d][1], reg) = {instr.dsts[d][1]}
        BY DEF One
  <2>2. Live' = (Live \ {}) \cup DOMAIN One(instr.dsts[d][1], reg)
        BY <1>1, LiveAfter
  <2> QED BY <2>1, <2>2
<1>4. Turnover({instr.dsts[d][1]}, {})
      BY <1>1, <1>3 DEF Turnover
<1>5. ~BeforeFree /\ ~BeforeFree'
      BY <1>1 DEF BeforeFree, Collecting
<1>6. EarlyFit' /\ LateFit' /\ KilledGone'
      BY <1>2, <1>4, <1>5, TurnoverFits DEF Fits
<1>7. EvictedFit' /\ PlansFit' /\ Blocks' /\ CopyPlain'
      BY <1>1 DEF EvictedFit, PlansFit, Planned, Blocks, Collecting, Fits, CopyPlain
<1> QED BY <1>6, <1>7 DEF Fits, Room

\* try_coalesce and alloc_scalar.
LEMMA ScalarFits ==
    ASSUME Inv, Inv', Fits, Coalesce \/ AllocScalar
    PROVE  Fits'
<1>1. CASE Coalesce
  <2>1. pc = "scalar" /\ instr.op = "copy" /\ AssignScalar(1, srcReg[1])
        BY <1>1 DEF Coalesce, CanCoalesce
  <2>2. 1 \in DOMAIN instr.dsts
        BY <2>1, Operands DEF Inv, InstrOK
  <2> QED BY <2>1, <2>2, AssignScalarFits
<1>2. CASE AllocScalar
  <2>1. pc = "scalar" /\ NextScalarDst # {}
        BY <1>2 DEF AllocScalar
  <2>2. PICK reg \in Reg \ used : AssignScalar(Minimum(NextScalarDst), reg)
        BY <1>2 DEF AllocScalar
  <2>3. NextScalarDst \in SUBSET Nat
        BY Operands DEF Inv, NextScalarDst
  <2>4. Minimum(NextScalarDst) \in NextScalarDst
        BY <2>1, <2>3, SmallestNumber
  <2>5. Minimum(NextScalarDst) \in DOMAIN instr.dsts
        BY <2>4 DEF NextScalarDst
  <2> QED BY <2>1, <2>2, <2>5, AssignScalarFits
<1> QED BY <1>1, <1>2

----------------------------------------------------------------------------
(* Between instructions                                                     *)

\* Between instructions nothing is to be counted.
LEMMA IdleFits ==
    ASSUME pc' = "idle", instr' = NoInstr
    PROVE  Fits'
<1>1. Blocks' /\ PlansFit' /\ EarlyFit' /\ LateFit' /\ EvictedFit'
      BY DEF Blocks, PlansFit, EarlyFit, LateFit, EvictedFit, Planned, Collecting, BeforeFree
<1>2. instr'.op = "none" /\ instr'.killed = {}
      BY DEF NoInstr
<1>3. CopyPlain' /\ KilledGone'
      BY <1>2 DEF CopyPlain, KilledGone
<1> QED BY <1>1, <1>3 DEF Fits, Room

\* The block starts between instructions.
LEMMA InitFits == Init => Fits
<1> SUFFICES ASSUME Init PROVE Fits
    OBVIOUS
<1>1. pc = "idle" /\ instr = NoInstr
      BY DEF Init
<1>2. Blocks /\ PlansFit /\ EarlyFit /\ LateFit /\ EvictedFit
      BY <1>1 DEF Blocks, PlansFit, EarlyFit, LateFit, EvictedFit, Planned, Collecting, BeforeFree
<1>3. instr.op = "none" /\ instr.killed = {}
      BY <1>1 DEF NoInstr
<1>4. CopyPlain /\ KilledGone
      BY <1>3 DEF CopyPlain, KilledGone
<1> QED BY <1>2, <1>4 DEF Fits, Room

\* A stuttering step changes no count.
LEMMA StutterFits ==
    ASSUME Fits, UNCHANGED vars
    PROVE  Fits'
<1>1. /\ ssaReg' = ssaReg /\ regSsa' = regSsa /\ used' = used /\ pinned' = pinned /\ vpin' = vpin
      /\ evicted' = evicted /\ pcopy' = pcopy /\ instr' = instr /\ mode' = mode /\ pc' = pc /\ n' = n
      /\ c' = c /\ tgt' = tgt /\ srcReg' = srcReg /\ dstReg' = dstReg
      BY DEF vars, alloc, vra, operands
<1>2. /\ Live' = Live /\ Planned' = Planned /\ Collecting' = Collecting /\ BeforeFree' = BeforeFree
      /\ Dsts' = Dsts /\ VecDsts' = VecDsts
      BY <1>1 DEF Live, Planned, Collecting, BeforeFree, Dsts, VecDsts
<1>3. PinnedBlocks' = PinnedBlocks /\ SrcsLeft' = SrcsLeft /\ DstsLeft' = DstsLeft
      BY <1>1, <1>2 DEF PinnedBlocks, SrcsLeft, DstsLeft
<1>4. EarlyValues' = EarlyValues /\ LateValues' = LateValues
      BY <1>1, <1>2 DEF EarlyValues, LateValues
<1>5. Blocks'
      BY <1>1, <1>2, <1>3 DEF Fits, Blocks
<1>6. Room'
      BY <1>1, <1>2, <1>4 DEF Fits, Room, EarlyFit, LateFit, EvictedFit
<1>7. PlansFit'
      BY <1>1, <1>2 DEF Fits, PlansFit
<1>8. CopyPlain' /\ KilledGone'
      BY <1>1, <1>2 DEF Fits, CopyPlain, KilledGone
<1> QED BY <1>5, <1>6, <1>7, <1>8 DEF Fits

----------------------------------------------------------------------------
(* An instruction starts                                                    *)

\* could_trivially_allocate finds aligned ranges.
LEMMA TrivialAligned ==
    ASSUME NEW dsts \in Seq(Vector), NEW f \in TrivialRegs(dsts), NEW d \in VecIdx(dsts)
    PROVE  f[d] % Align(Len(dsts[d])) = 0
<1> DEFINE idx == VecIdx(dsts)
           behind == {m \in 0 .. RegCount + MaxComps :
                           \A e \in idx : Before(dsts, e, d) => m >= f[e] + Len(dsts[e])}
<1>1. f \in [idx -> Reg] /\ f[d] = FindUnset(used, Minimum(behind), Len(dsts[d]))
      BY DEF TrivialRegs
<1>2. d \in DOMAIN dsts /\ dsts[d] \in Vector
      BY ElementOfSeq, LenProperties DEF VecIdx
<1>3. Len(dsts[d]) \in Nat \ {0} /\ Len(dsts[d]) <= MaxComps
      BY <1>2, VectorFacts
<1>4. f[d] \in Reg /\ f[d] # None
      BY <1>1, RegNat
<1>5. behind \in SUBSET Nat
      BY SizeAssumption
<1>6. RegCount + MaxComps \in behind
  <2>1. ASSUME NEW e \in idx PROVE RegCount + MaxComps >= f[e] + Len(dsts[e])
    <3>1. e \in DOMAIN dsts /\ dsts[e] \in Vector
          BY ElementOfSeq, LenProperties DEF VecIdx
    <3>2. Len(dsts[e]) \in Nat /\ Len(dsts[e]) <= MaxComps
          BY <3>1, VectorFacts
    <3>3. f[e] \in Nat /\ f[e] <= RegCount
          BY <1>1, SizeAssumption DEF Reg
    <3>4. \A x, y, a, b \in Nat : x <= a /\ y <= b => a + b >= x + y
          OBVIOUS
    <3>5. RegCount \in Nat /\ MaxComps \in Nat
          BY SizeAssumption
    <3> QED BY <3>2, <3>3, <3>4, <3>5
  <2>2. RegCount + MaxComps \in 0 .. RegCount + MaxComps
        BY SizeAssumption
  <2> QED BY <2>1, <2>2
<1> HIDE DEF behind
<1>7. Minimum(behind) \in Nat
      BY <1>5, <1>6, SmallestNumber
<1> QED BY <1>1, <1>3, <1>4, <1>7, FoundRange

\* The counts hold when the handler starts.
LEMMA BeginFits ==
    ASSUME Inv, Inv', pc = "idle", NEW i, Legal(i), Counted(i), Begin(i)
    PROVE  Fits'
<1>1. /\ instr' = i /\ mode' = ChooseMode(i)
      /\ pc' = CASE mode' = "trivial" -> "assign" [] mode' = "pinCopy" -> "alloc" [] OTHER -> "collect"
      /\ n' = 1 /\ vpin' = pinned /\ evicted' = EmptyFn
      /\ dstReg' = FirstDstRegs(i.dsts, mode')
      /\ ssaReg' = ssaReg /\ used' = used
      BY DEF Begin, alloc
<1>2. /\ mode' \in {"easy", "mapped", "trivial", "general", "pinMove", "pinCopy"}
      /\ mode' \in {"pinMove", "pinCopy"} =>
            Len(i.srcs) = 1 /\ Len(i.dsts) = 1 /\ Len(i.srcs[1]) = Len(i.dsts[1])
      /\ i.op = "copy" => mode' = "easy"
      /\ mode' = "easy" => VecIdx(i.dsts) = {}
      /\ mode' = "trivial" => TrivialRegs(i.dsts) # {}
      BY <1>1, ModeFacts
<1>3. /\ pc' \in {"assign", "alloc", "collect"} /\ (pc' = "assign" <=> mode' = "trivial")
      /\ (pc' = "alloc" <=> mode' = "pinCopy")
      BY <1>1, <1>2
<1>4. BeforeFree' /\ (Planned' <=> mode' = "trivial") /\ (Collecting' <=> mode' # "pinCopy")
      BY <1>3 DEF BeforeFree, Planned, Collecting
<1>5. Live' = Live /\ Dsts' = AllComps(i.dsts) /\ DOMAIN evicted' = {}
      BY <1>1 DEF Live, Dsts, EmptyFn
<1>6. mode' \in {"pinMove", "pinCopy"} <=> i.op \in {"pin", "unpin"}
      BY <1>1 DEF ChooseMode
<1>7. DOMAIN i.dsts = 1 .. Len(i.dsts) /\ Len(i.dsts) \in Nat /\ Len(i.srcs) \in Nat
      BY LenProperties DEF Legal
<1> DEFINE idx == VecIdx(i.dsts)
           vecs == UNION {Comps(i.dsts[k]) : k \in idx}
<1>8. VecDsts' = vecs
      BY <1>1 DEF VecDsts
<1>9. CopyPlain'
  <2>1. i.op = "copy" => Len(i.srcs[1]) = 1
        BY DEF Counted
  <2> QED BY <1>1, <1>2, <1>3, <1>5, <2>1 DEF CopyPlain
<1>10. KilledGone' /\ EvictedFit'
      BY <1>2, <1>3, <1>4 DEF KilledGone, EvictedFit
<1>11. PlansFit'
  <2>1. ASSUME mode' = "trivial", NEW d \in idx PROVE dstReg'[d] % Align(Len(i.dsts[d])) = 0
    <3> DEFINE f == CHOOSE f \in TrivialRegs(i.dsts) : TRUE
    <3>1. f \in TrivialRegs(i.dsts)
          BY <1>2, <2>1
    <3>2. dstReg' = [e \in DOMAIN i.dsts |-> IF mode' = "trivial" /\ e \in idx THEN f[e] ELSE None]
          BY <1>1 DEF FirstDstRegs
    <3> HIDE DEF f
    <3>3. dstReg'[d] = f[d]
          BY <2>1, <3>2 DEF VecIdx
    <3>4. f[d] % Align(Len(i.dsts[d])) = 0
          BY <2>1, <3>1, TrivialAligned DEF Legal
    <3> QED BY <3>3, <3>4
  <2>2. Planned' => mode' # "mapped"
        BY <1>4
  <2> QED BY <1>1, <1>4, <2>1, <2>2 DEF PlansFit
<1>12. /\ IsFiniteSet(Live) /\ IsFiniteSet(vecs) /\ IsFiniteSet(AllComps(i.dsts))
       /\ IsFiniteSet(Live \ i.killed)
  <2>1. Live \subseteq SSA
        BY DEF Inv, TableTypes
  <2>2. AllComps(i.dsts) \subseteq SSA
        BY DEF Legal, NewValues, AllComps
  <2>3. vecs \subseteq AllComps(i.dsts)
        BY DEF AllComps, VecIdx
  <2>4. Live \ i.killed \subseteq SSA /\ vecs \subseteq SSA
        BY <2>1, <2>2, <2>3
  <2> QED BY <2>1, <2>2, <2>4, FiniteAll
<1>13. /\ Cardinality(Live) + Cardinality(vecs) <= RegCount
       /\ Cardinality(Live \ i.killed) + Cardinality(AllComps(i.dsts)) <= RegCount
      BY DEF Counted, FitsMaxLive
<1> HIDE DEF vecs
<1>14. /\ Cardinality(Live \cup vecs) <= RegCount
       /\ Cardinality((Live \ i.killed) \cup AllComps(i.dsts)) <= RegCount
       /\ Cardinality((Live \ i.killed) \cup AllComps(i.dsts)) \in Nat
  <2>1. \A a, b, u, k \in Nat : u <= a + b /\ a + b <= k => u <= k
        OBVIOUS
  <2>2. Cardinality(Live \cup vecs) <= RegCount
        BY <1>12, <1>13, <2>1, UnionCount, SizeAssumption
  <2>3. Cardinality((Live \ i.killed) \cup AllComps(i.dsts)) <= RegCount
        BY <1>12, <1>13, <2>1, UnionCount, SizeAssumption
  <2>4. Cardinality((Live \ i.killed) \cup AllComps(i.dsts)) \in Nat
        BY <1>12, UnionCount
  <2> QED BY <2>2, <2>3, <2>4
<1>15. EarlyFit'
  <2>1. CASE mode' # "pinCopy"
    <3>1. EarlyValues' = Live \cup vecs
          BY <1>5, <1>8, <2>1 DEF EarlyValues
    <3> QED BY <1>14, <3>1 DEF EarlyFit
  <2>2. CASE mode' = "pinCopy"
    <3>1. EarlyValues' = Live \cup AllComps(i.dsts)
          BY <1>5, <2>2 DEF EarlyValues
    <3>2. DOMAIN i.dsts = {1}
      <4>1. DOMAIN i.dsts = 1 .. 1
            BY <1>2, <1>7, <2>2, Zenon
      <4> QED BY <4>1
    <3>3. CASE Len(i.dsts[1]) > 1
      <4>1. vecs = AllComps(i.dsts)
            BY <3>2, <3>3 DEF vecs, AllComps, VecIdx
      <4> QED BY <1>14, <3>1, <4>1 DEF EarlyFit
    <3>4. CASE ~(Len(i.dsts[1]) > 1)
      <4>1. i.srcs[1] \in Vector /\ Len(i.srcs[1]) = 1 /\ AllComps(i.srcs) = Comps(i.srcs[1])
        <5>1. i.srcs \in Seq(Vector) /\ DOMAIN i.srcs = 1 .. Len(i.srcs) /\ Len(i.srcs) = 1
              BY <1>2, <2>2, LenProperties DEF Legal
        <5>2. DOMAIN i.srcs = {1}
              BY <5>1
        <5>3. i.srcs[1] \in Vector
              BY <5>1, <5>2, ElementOfSeq
        <5>4. Len(i.srcs[1]) = Len(i.dsts[1]) /\ Len(i.srcs[1]) \in Nat \ {0}
              BY <1>2, <2>2, <5>3, VectorFacts
        <5>5. Len(i.srcs[1]) = 1
          <6>1. \A x \in Nat \ {0} : ~(x > 1) => x = 1
                OBVIOUS
          <6> QED BY <3>4, <5>4, <6>1
        <5> QED BY <5>2, <5>3, <5>5 DEF AllComps
      <4>2. IsFiniteSet(Comps(i.srcs[1])) /\ Cardinality(Comps(i.srcs[1])) = 1 /\ i.killed \subseteq Comps(i.srcs[1])
            BY <4>1, CompsCount DEF Legal
      <4>3. Cardinality(i.killed) # 1
            BY <1>1, <2>2, <4>1 DEF ChooseMode
      <4>4. i.killed = {}
        <5>1. PICK s : Comps(i.srcs[1]) = {s}
              BY <4>2, FS_Singleton
        <5>2. i.killed # {s}
              BY <4>3, FS_Singleton
        <5> QED BY <4>2, <5>1, <5>2
      <4>5. EarlyValues' = (Live \ i.killed) \cup AllComps(i.dsts)
            BY <3>1, <4>4
      <4> QED BY <1>14, <4>5 DEF EarlyFit
    <3> QED BY <3>3, <3>4
  <2> QED BY <2>1, <2>2
<1>16. LateFit'
  <2>1. LateValues' \subseteq (Live \ i.killed) \cup AllComps(i.dsts)
        BY <1>1, <1>5 DEF LateValues
  <2>2. IsFiniteSet((Live \ i.killed) \cup AllComps(i.dsts))
        BY <1>12, UnionCount
  <2>3. /\ Cardinality(LateValues') \in Nat
        /\ Cardinality(LateValues') <= Cardinality((Live \ i.killed) \cup AllComps(i.dsts))
        BY <2>1, <2>2, SmallerCount
  <2>4. Cardinality(LateValues') <= RegCount
        BY <1>14, <2>3, SizeAssumption
  <2> QED BY <2>4 DEF LateFit
<1>17. PinnedBlocks' = PinnedRanges(pinned) /\ Cardinality(PinnedRanges(pinned)) \in Nat
  <2>1. pinned \in SUBSET Reg
        BY DEF Inv, Tables, TableTypes
  <2>2. PinnedBlocks' = PinnedRanges(pinned)
        BY <1>1, <1>3 DEF PinnedBlocks
  <2> QED BY <2>1, <2>2, FiniteBlocks
<1>18. Blocks'
  <2>1. CASE i.op = "copy"
        BY <1>1, <2>1 DEF Blocks
  <2>2. CASE i.op = "instr"
    <3>1. mode' \notin {"pinMove", "pinCopy"}
          BY <1>6, <2>2
    <3>2. IsFiniteSet(idx)
      <4>1. idx \subseteq 1 .. Len(i.dsts) /\ IsFiniteSet(1 .. Len(i.dsts))
            BY <1>7, FS_Interval DEF VecIdx
      <4> QED BY <4>1, FS_Subset
    <3>3. DstsLeft' \subseteq idx
          BY <1>1, <3>1 DEF DstsLeft
    <3>4. Cardinality(DstsLeft') \in Nat /\ Cardinality(idx) \in Nat /\ Cardinality(DstsLeft') <= Cardinality(idx)
          BY <3>2, <3>3, SmallerCount
    <3>5. SrcsLeft' = Len(i.srcs) - 1 + 1
          BY <1>1, <1>3, <3>1 DEF SrcsLeft
    <3>6. Len(i.srcs) + Cardinality(idx) + Cardinality(PinnedRanges(pinned)) <= MaxOperands
          BY <2>2 DEF Counted, OperandCount
    <3>7. \A a, b, d, l, k \in Nat : d <= b /\ l + b + a <= k => a + (l - 1 + 1) + d <= k /\ 1 <= l + 1
          OBVIOUS
    <3>8. /\ Cardinality(PinnedRanges(pinned)) + (Len(i.srcs) - 1 + 1) + Cardinality(DstsLeft') <= MaxOperands
          /\ 1 <= Len(i.srcs) + 1
          BY <1>7, <1>17, <3>4, <3>6, <3>7, SizeAssumption
    <3> QED BY <1>1, <1>17, <3>5, <3>8 DEF Blocks
  <2>3. CASE i.op \in {"pin", "unpin"}
    <3>1. mode' \in {"pinMove", "pinCopy"} /\ Len(i.srcs) = 1 /\ DOMAIN i.dsts = {1}
      <4>1. mode' \in {"pinMove", "pinCopy"}
            BY <1>6, <2>3, Zenon
      <4>2. Len(i.srcs) = 1 /\ DOMAIN i.dsts = 1 .. 1
            BY <1>2, <1>7, <4>1, Zenon
      <4> QED BY <4>1, <4>2
    <3>2. Cardinality(PinnedRanges(pinned)) < MaxOperands
          BY <2>3 DEF Counted
    <3>3. CASE mode' = "pinMove"
      <4>1. SrcsLeft' = 1 /\ Cardinality(DstsLeft') = 0
        <5>1. SrcsLeft' = 1 - 1 + 1
              BY <1>1, <1>3, <3>1, <3>3 DEF SrcsLeft
        <5>2. DstsLeft' = {}
              BY <3>3 DEF DstsLeft
        <5> QED BY <5>1, <5>2, FS_EmptySet
      <4>2. Cardinality(PinnedRanges(pinned)) + 1 + 0 <= MaxOperands /\ 1 <= 1 + 1
            BY <1>17, <3>2, SizeAssumption
      <4> QED BY <1>1, <1>17, <3>1, <4>1, <4>2 DEF Blocks
    <3>4. CASE mode' = "pinCopy"
      <4>1. SrcsLeft' = 0
            BY <1>3, <3>4 DEF SrcsLeft
      <4>2. DstsLeft' \subseteq {1}
            BY <1>1, <3>1 DEF DstsLeft, VecIdx
      <4>3. IsFiniteSet({1}) /\ Cardinality({1}) = 1
            BY FS_Singleton
      <4>4. Cardinality(DstsLeft') \in Nat /\ Cardinality(DstsLeft') <= 1
            BY <4>2, <4>3, SmallerCount
      <4>5. Cardinality(PinnedRanges(pinned)) + 0 + Cardinality(DstsLeft') <= MaxOperands /\ 1 <= 1 + 1
            BY <1>17, <3>2, <4>4, SizeAssumption
      <4> QED BY <1>1, <1>17, <3>1, <4>1, <4>5 DEF Blocks
    <3> QED BY <3>1, <3>3, <3>4
  <2> QED BY <2>1, <2>2, <2>3 DEF Counted
<1> QED BY <1>9, <1>10, <1>11, <1>15, <1>16, <1>18 DEF Fits, Room

\* The three arms start with the counts.
LEMMA BeginsFits ==
    ASSUME Inv, Inv', BeginInstr \/ BeginCopy \/ BeginPin
    PROVE  Fits'
<1>1. pc = "idle"
      BY DEF BeginInstr, BeginCopy, BeginPin, AtInstr
<1>2. PICK i : Legal(i) /\ Counted(i) /\ Begin(i)
      BY BeginInstrLegal, BeginCopyLegal, BeginPinLegal
<1> QED BY <1>1, <1>2, BeginFits

----------------------------------------------------------------------------
(* The invariant                                                            *)

\* The end of an instruction leaves nothing to be counted.
LEMMA EmitInstrFits ==
    ASSUME EmitInstr
    PROVE  Fits'
<1>1. pc' = "idle" /\ instr' = NoInstr
      BY DEF EmitInstr, NextInstr
<1> QED BY <1>1, IdleFits

\* Every step keeps the counts.
LEMMA NextFits ==
    ASSUME Inv, Inv', Fits, Next
    PROVE  Fits'
BY BeginsFits, CollectInPlaceFits, CollectElsewhereFits, CollectDoneFits, MoveStayFits, MoveAllocatedFits,
   MoveEvictedFits, AllocVectorFits, AllocDoneFits, AssignDstsFits, FreeKilledFits, FinishOneFits,
   FinishDoneFits, ScalarFits, EmitInstrFits, PinRenameFits, PinCopyFits, StutterFits
   DEF Next, BlockDone

\* Every operand pins one aligned block of registers at most, and the values
\* that have or need a register, the evicted ones included, stay within the
\* number that LiveSet::insert_instr_top_down counted.
THEOREM RoomInvariant == Spec => [](Inv /\ Fits)
<1>1. Inv /\ Fits /\ [Next]_vars => Fits'
      BY NextInv, NextFits, StutterFits
<1> QED BY <1>1, AllocatorInvariant, InitFits, PTL DEF Spec

\* No assertion, unwrap or expect of the allocator fails: with registers for
\* MaxOperands vectors of the greatest width ("we need at least 16 GPRs") and
\* for the greatest number of live values, collect_vector, alloc_vector,
\* finish and alloc_scalar always find registers that are not pinned, and
\* what is freed or moved has a register.
THEOREM AssertsHoldHolds == Spec => []AssertsHold
<1>1. Inv /\ Fits => AssertsHold
      BY FitsAsserts
<1> QED BY <1>1, RoomInvariant, PTL
=============================================================================
