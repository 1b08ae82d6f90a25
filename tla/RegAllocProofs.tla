--------------------------- MODULE RegAllocProofs ---------------------------
(***************************************************************************)
(* Register assignment loses no value, for every file size, vector width,   *)
(* operand count and number of instructions.                                *)
(*                                                                          *)
(* The properties are not inductive by themselves: while an instruction is  *)
(* assigned, a value may be in the register its table names only after the  *)
(* parallel copy, or in none (evicted), and a vector already collected must *)
(* outlive every later eviction.  Inv adds where each value is at every     *)
(* step of the handler, and who may own a register that the                 *)
(* VecRegAllocator has pinned.                                              *)
(***************************************************************************)
EXTENDS RegAlloc, FiniteSetTheorems, SequenceTheorems, WellFoundedInduction, TLAPS

----------------------------------------------------------------------------
(* The inductive invariant                                                  *)

\* The values the instruction reads, the values it writes, and the registers
\* after the parallel copy so far.
Srcs == AllComps(instr.srcs)
Dsts == AllComps(instr.dsts)
Copied == AfterCopy(val, pcopy)

\* The sources are being collected; they are not freed yet.
Collecting == pc \in {"collect", "move"} \/ (pc = "assign" /\ mode = "trivial")
BeforeFree ==
    \/ Collecting
    \/ pc \in {"alloc", "free", "rename", "pinCopy"}
    \/ pc = "finish" /\ mode \in {"pinMove", "pinCopy"}

\* Vector destinations have a range, but are not assigned to it.
Planned == pc = "assign" \/ (pc = "free" /\ mode = "mapped")

\* A vector of different values.
Vector == {v \in Seq(SSA) : Len(v) \in 1 .. MaxComps /\ Injective(v)}

\* Types of the tables.
TableTypes ==
    /\ Live \subseteq SSA /\ ssaReg \in [Live -> Reg]
    /\ regSsa \in [Reg -> SSA \cup {Junk}] /\ used \subseteq Reg

\* The first three parts of TablesAgree.
Tables ==
    /\ used = {ssaReg[s] : s \in Live}
    /\ \A s \in Live : regSsa[ssaReg[s]] = s
    /\ pinned \subseteq used

\* Types of the VecRegAllocator and of the machine.
CopyTypes ==
    /\ vpin \subseteq Reg
    /\ DOMAIN evicted \subseteq SSA /\ evicted \in [DOMAIN evicted -> Reg]
    /\ pcopy \in Seq(Reg \X Reg)
    /\ val \in [Reg -> SSA \cup {Junk}]

\* Types of the operands.
OperandTypes ==
    /\ instr.srcs \in Seq(Vector) /\ instr.dsts \in Seq(Vector)
    /\ n \in Nat \ {0} /\ c \in Nat /\ tgt \in Int
    /\ srcReg \in [DOMAIN instr.srcs -> Int]
    /\ dstReg \in [DOMAIN instr.dsts -> Int]

\* The instruction.
InstrOK ==
    /\ instr.killed \subseteq Srcs /\ Srcs \cap Dsts = {}
    /\ LegalSrcs(instr.srcs)
    /\ \A d, e \in DOMAIN instr.dsts :
          d # e => Comps(instr.dsts[d]) \cap Comps(instr.dsts[e]) = {}
    /\ mode \in {"pinMove", "pinCopy"} =>
          /\ Len(instr.srcs) = 1 /\ Len(instr.dsts) = 1
          /\ Len(instr.srcs[1]) = Len(instr.dsts[1])
    /\ instr.op = "copy" =>
          Len(instr.srcs) = 1 /\ Len(instr.dsts) = 1 /\ mode = "easy"
    /\ mode = "pinMove" => instr.killed = Srcs
    /\ mode = "easy" => VecIdx(instr.dsts) = {}
    /\ mode = "mapped" => DstsMapToKilled(instr.srcs, instr.dsts, instr.killed)

\* The ways through the handler.
Places ==
    <<pc, mode>> \in
        ({"idle"} \X {"easy"})
        \cup ({"collect", "move"} \X {"easy", "mapped", "trivial", "general", "pinMove"})
        \cup ({"assign"} \X {"mapped", "trivial"})
        \cup ({"alloc"} \X {"general", "pinCopy"})
        \cup ({"free"} \X {"easy", "mapped", "trivial", "general"})
        \cup ({"finish", "scalar"} \X
                {"easy", "mapped", "trivial", "general", "pinMove", "pinCopy"})
        \cup {<<"rename", "pinMove">>, <<"pinCopy", "pinCopy">>}

\* No VecRegAllocator exists between instructions.
AtIdle == pc = "idle" =>
    vpin = {} /\ evicted = EmptyFn /\ pcopy = << >> /\ instr = NoInstr

\* A live value is in its register once the copy has run; an evicted one is
\* still where it was, in a register that nothing else has been placed in
\* without pinning it.
Held == \A s \in Live \ Dsts : Copied[ssaReg[s]] = s
EvictedHeld ==
    \A s \in DOMAIN evicted : s \notin Dsts /\ val[evicted[s]] = s /\ evicted[s] \in vpin
\* Only pinned registers are destinations of the copy, so that no register is
\* chosen twice.
CopyOK == CopyWellFormed /\ \A k \in DOMAIN pcopy : pcopy[k][1] \in vpin
\* What OpPin holds is pinned for the operands too; pinned registers hold
\* values until the sources are freed; no source is lost before that.
PinsKnown == pc # "idle" => pinned \subseteq vpin
VpinUsed == BeforeFree => vpin \subseteq used
SrcsKept == BeforeFree => Srcs \subseteq Live \cup DOMAIN evicted
NoneLeft == pc \in {"scalar", "rename", "pinCopy"} => DOMAIN evicted = {}

\* Source k is in its registers, which stay pinned.
Collected(k) ==
    /\ srcReg[k] % Align(Len(instr.srcs[k])) = 0
    /\ \A j \in DOMAIN instr.srcs[k] :
          /\ srcReg[k] + j - 1 \in vpin
          /\ Copied[srcReg[k] + j - 1] = instr.srcs[k][j]
          /\ BeforeFree => /\ instr.srcs[k][j] \in Live
                           /\ ssaReg[instr.srcs[k][j]] = srcReg[k] + j - 1

\* The sources collected so far.
DoneSrcs ==
    IF Collecting THEN 1 .. n - 1
    ELSE IF mode = "pinCopy" \/ pc = "idle" THEN {} ELSE DOMAIN instr.srcs

SrcsCollected == DoneSrcs \subseteq DOMAIN instr.srcs /\ \A k \in DoneSrcs : Collected(k)

\* Values that were collected, components of the vector being moved included.
Settled ==
    (UNION {Comps(instr.srcs[k]) : k \in DoneSrcs})
    \cup (IF pc = "move" THEN {instr.srcs[n][k] : k \in 1 .. c} ELSE {})

\* A pinned register belongs to a destination, to OpPin or to a collected
\* value, so that a component still to be moved is in none.
VpinOwners ==
    Collecting =>
        \A s \in Live : ssaReg[s] \in vpin =>
            s \in Dsts \/ ssaReg[s] \in pinned \/ s \in Settled

\* A source with a component held by OpPin is held whole and lies in place.
PinsTogether ==
    Collecting =>
        \A k \in DOMAIN instr.srcs :
            (\E s \in Comps(instr.srcs[k]) : s \in Live /\ ssaReg[s] \in pinned) =>
                /\ TryGetVecReg(instr.srcs[k]) # None
                /\ \A s \in Comps(instr.srcs[k]) : ssaReg[s] \in pinned

\* collect_vector is moving components to a range whose rest is not pinned.
MoveOK ==
    pc = "move" =>
        LET vec == instr.srcs[n]
        IN  /\ n <= Len(instr.srcs) /\ c < Len(vec)
            /\ tgt >= 0 /\ tgt + Len(vec) <= RegCount /\ tgt % Align(Len(vec)) = 0
            /\ \A j \in c .. Len(vec) - 1 : tgt + j \notin vpin
            /\ \A k \in 1 .. c : /\ vec[k] \in Live /\ ssaReg[vec[k]] = tgt + k - 1
                                 /\ tgt + k - 1 \in vpin
            /\ \A k \in c + 1 .. Len(vec) : vec[k] \in Live => ssaReg[vec[k]] \notin vpin

\* Destination d has its registers.
Placed(d) ==
    \A k \in DOMAIN instr.dsts[d] :
        /\ instr.dsts[d][k] \in Live /\ ssaReg[instr.dsts[d][k]] = dstReg[d] + k - 1
        /\ pc # "scalar" => dstReg[d] + k - 1 \in vpin
        /\ dstReg[d] + k - 1 \notin pinned

DstsPlaced ==
    \A d \in DOMAIN instr.dsts :
        IF dstReg[d] # None /\ ~Planned THEN Placed(d)
        ELSE Comps(instr.dsts[d]) \cap Live = {}

\* The ranges planned for destinations are free, or will be when the sources
\* die, and do not overlap.
Plans ==
    Planned =>
        /\ \A d \in DOMAIN instr.dsts :
              IF d \notin VecIdx(instr.dsts) THEN dstReg[d] = None
              ELSE \A r \in RangeOf(dstReg[d], Len(instr.dsts[d])) :
                      /\ r \in Reg
                      /\ pc = "assign" => r \notin used
                      /\ pc = "free" => \E s \in instr.killed : ssaReg[s] = r
        /\ \A d, e \in VecIdx(instr.dsts) :
              d # e => RangeOf(dstReg[d], Len(instr.dsts[d]))
                         \cap RangeOf(dstReg[e], Len(instr.dsts[e])) = {}

\* Which destinations have registers at which step.
DstsGiven ==
    /\ \/ pc \in {"free", "finish", "scalar"} /\ mode # "pinMove"
       \/ mode = "trivial" \/ pc = "assign"
       => \A d \in VecIdx(instr.dsts) : dstReg[d] # None
    /\ \/ mode = "pinCopy" /\ pc \in {"finish", "pinCopy", "scalar"}
       \/ mode = "pinMove" /\ pc = "scalar"
       => dstReg[1] # None
    /\ mode = "pinMove" /\ pc # "scalar" => dstReg[1] = None
    /\ mode = "mapped" /\ Collecting => \A d \in DOMAIN instr.dsts : dstReg[d] = None

Inv == /\ TableTypes /\ CopyTypes /\ OperandTypes /\ InstrOK /\ Places /\ AtIdle
       /\ Tables /\ DOMAIN evicted \cap Live = {}
       /\ Held /\ EvictedHeld /\ CopyOK /\ PinsKnown /\ VpinUsed /\ SrcsKept /\ NoneLeft
       /\ SrcsCollected /\ VpinOwners /\ PinsTogether /\ MoveOK
       /\ DstsPlaced /\ Plans /\ DstsGiven

----------------------------------------------------------------------------
(* Numbers, ranges and vectors                                              *)

\* Minimum is the smallest number of a set of naturals.
LEMMA SmallestNumber ==
    ASSUME NEW S \in SUBSET Nat, S # {}
    PROVE  Minimum(S) \in S /\ \A y \in S : Minimum(S) <= y
<1>1. PICK x \in S : \A y \in S : ~ (<<y, x>> \in OpToRel(<, Nat))
      BY NatLessThanWellFounded, WFMin
<1>2. ASSUME NEW y \in S PROVE x <= y
  <2>1. x \in Nat /\ y \in Nat
        OBVIOUS
  <2>2. <<y, x>> \in Nat \X Nat /\ <<y, x>>[1] = y /\ <<y, x>>[2] = x
        BY <2>1
  <2>3. y < x => <<y, x>> \in OpToRel(<, Nat)
        BY <2>2, Zenon DEF OpToRel
  <2>4. ~(y < x)
        BY <1>1, <2>3
  <2> QED BY <2>1, <2>4
<1>3. \E x1 \in S : \A y \in S : x1 <= y
      BY <1>2
<1> QED BY <1>3 DEF Minimum

\* Reg is a set of numbers.
LEMMA RegNat == Reg \subseteq Nat /\ \A r \in Reg : r # None
BY SizeAssumption DEF Reg, None

\* What try_find_unset_reg_range finds.
LEMMA FoundRange ==
    ASSUME NEW set, NEW start \in Nat, NEW len \in Nat \ {0},
           FindUnset(set, start, len) # None
    PROVE  LET r == FindUnset(set, start, len)
           IN  /\ r \in Reg /\ r >= start /\ r + len <= RegCount /\ r % Align(len) = 0
               /\ RangeOf(r, len) \subseteq Reg /\ RangeOf(r, len) \cap set = {}
<1> DEFINE fits == {r \in start .. RegCount - len :
                       r % Align(len) = 0 /\ RangeOf(r, len) \cap set = {}}
<1>1. FindUnset(set, start, len) = Minimum(fits) /\ fits # {}
      BY DEF FindUnset
<1>2. fits \in SUBSET Nat
      BY SizeAssumption
<1>3. Minimum(fits) \in fits
  <2> HIDE DEF fits
  <2> QED BY <1>1, <1>2, SmallestNumber
<1>4. ASSUME NEW r \in fits
      PROVE  /\ r \in Reg /\ r >= start /\ r + len <= RegCount /\ r % Align(len) = 0
             /\ RangeOf(r, len) \subseteq Reg /\ RangeOf(r, len) \cap set = {}
      BY SizeAssumption DEF Reg, RangeOf
<1> QED BY <1>1, <1>3, <1>4

\* A vector is a sequence without repetition.
LEMMA VectorFacts ==
    ASSUME NEW v \in Vector
    PROVE  /\ Len(v) \in Nat \ {0} /\ Len(v) <= MaxComps /\ DOMAIN v = 1 .. Len(v) /\ 1 \in DOMAIN v
           /\ \A k \in DOMAIN v : v[k] \in SSA /\ v[k] \in Comps(v)
           /\ \A j, k \in DOMAIN v : v[j] = v[k] => j = k
           /\ Comps(v) \subseteq SSA
           /\ \A s \in Comps(v) : \E k \in DOMAIN v : v[k] = s
<1>1. v \in Seq(SSA) /\ Len(v) \in 1 .. MaxComps /\ Injective(v)
      BY DEF Vector
<1>2. Len(v) \in Nat /\ DOMAIN v = 1 .. Len(v)
      BY <1>1, LenProperties
<1>3. Len(v) \in Nat \ {0} /\ Len(v) <= MaxComps /\ 1 \in DOMAIN v
      BY <1>1, <1>2, SizeAssumption
<1>4. \A k \in DOMAIN v : v[k] \in SSA
      BY <1>1, <1>2, ElementOfSeq
<1> QED BY <1>1, <1>2, <1>3, <1>4 DEF Injective, Comps

\* The registers of a vector, by component.
LEMMA RangeOfVec ==
    ASSUME NEW v \in Vector, NEW r \in Int
    PROVE  \A x : x \in RangeOf(r, Len(v)) <=> \E k \in DOMAIN v : x = r + k - 1
<1>1. Len(v) \in Nat /\ DOMAIN v = 1 .. Len(v)
      BY VectorFacts
<1>2. ASSUME NEW m \in Nat, NEW x PROVE x \in r .. (r + m - 1) <=> \E k \in 1 .. m : x = r + k - 1
  <2>1. ASSUME x \in r .. (r + m - 1) PROVE \E k \in 1 .. m : x = r + k - 1
    <3>1. x \in Int /\ (x - r) + 1 \in 1 .. m /\ x = r + ((x - r) + 1) - 1
          BY <2>1
    <3> QED BY <3>1
  <2>2. ASSUME NEW k \in 1 .. m, x = r + k - 1 PROVE x \in r .. (r + m - 1)
        BY <2>2
  <2> QED BY <2>1, <2>2
<1>3. RangeOf(r, Len(v)) = r .. (r + Len(v) - 1)
      BY DEF RangeOf
<1>4. \A x : x \in r .. (r + Len(v) - 1) <=> \E k \in 1 .. Len(v) : x = r + k - 1
      BY <1>1, <1>2, Zenon
<1> QED BY <1>1, <1>3, <1>4, Zenon

\* The places that a vector takes from register r on.
LEMMA VecMapFacts ==
    ASSUME NEW v \in Vector, NEW r \in Int
    PROVE  /\ DOMAIN VecMap(v, r) = Comps(v)
           /\ \A k \in DOMAIN v : VecMap(v, r)[v[k]] = r + k - 1
           /\ Image(VecMap(v, r)) = RangeOf(r, Len(v))
           /\ \A s, t \in Comps(v) : VecMap(v, r)[s] = VecMap(v, r)[t] => s = t
<1>1. DOMAIN VecMap(v, r) = Comps(v)
      BY DEF VecMap
<1>2. ASSUME NEW k \in DOMAIN v PROVE VecMap(v, r)[v[k]] = r + k - 1
  <2>1. v[k] \in Comps(v) /\ \A j \in DOMAIN v : v[j] = v[k] => j = k
        BY VectorFacts
  <2>2. (CHOOSE j \in DOMAIN v : v[j] = v[k]) = k
        BY <2>1
  <2> QED BY <2>1, <2>2 DEF VecMap
<1>3. \A x : x \in Image(VecMap(v, r)) <=> \E k \in DOMAIN v : x = r + k - 1
      BY <1>1, <1>2, VectorFacts DEF Image
<1>4. \A x : x \in RangeOf(r, Len(v)) <=> \E k \in DOMAIN v : x = r + k - 1
      BY RangeOfVec
<1>5. \A j, k \in DOMAIN v : r + j - 1 = r + k - 1 => j = k
      BY VectorFacts
<1>6. \A s, t \in Comps(v) : VecMap(v, r)[s] = VecMap(v, r)[t] => s = t
  <2> SUFFICES ASSUME NEW s \in Comps(v), NEW t \in Comps(v), VecMap(v, r)[s] = VecMap(v, r)[t]
               PROVE  s = t
      OBVIOUS
  <2>1. PICK j \in DOMAIN v : v[j] = s
        BY VectorFacts
  <2>2. PICK k \in DOMAIN v : v[k] = t
        BY VectorFacts
  <2>3. r + j - 1 = r + k - 1
        BY <1>2, <2>1, <2>2
  <2> QED BY <1>5, <2>1, <2>2, <2>3
<1>7. Image(VecMap(v, r)) = RangeOf(r, Len(v))
      BY <1>3, <1>4
<1> QED BY <1>1, <1>2, <1>6, <1>7

\* One place for one value.
LEMMA OneFacts ==
    ASSUME NEW s, NEW r
    PROVE  DOMAIN One(s, r) = {s} /\ One(s, r)[s] = r /\ Image(One(s, r)) = {r}
BY DEF One, Image

----------------------------------------------------------------------------
(* The tables and the parallel copy                                         *)

\* What reassigning registers needs.
Assignable(gone, m) ==
    /\ gone \subseteq Live /\ DOMAIN m \subseteq SSA
    /\ \A s \in DOMAIN m : m[s] \in Reg /\ s \notin Live \ gone
    /\ \A s, t \in DOMAIN m : m[s] = m[t] => s = t
    /\ \A s \in Live \ gone : \A t \in DOMAIN m : ssaReg[s] # m[t]

\* What it does.
Effect(gone, m) ==
    /\ Live' = (Live \ gone) \cup DOMAIN m
    /\ \A s \in Live \ gone : s \in Live' /\ ssaReg'[s] = ssaReg[s]
    /\ \A s \in DOMAIN m : s \in Live' /\ ssaReg'[s] = m[s]
    /\ used' = (used \ {ssaReg[s] : s \in gone}) \cup Image(m)
    /\ pinned' = pinned \ {ssaReg[s] : s \in gone}

\* A register holds one value.
LEMMA OneEach ==
    ASSUME Tables
    PROVE  /\ \A s, t \in Live : ssaReg[s] = ssaReg[t] => s = t
           /\ \A R, t : t \in Occupants(R) <=> t \in Live /\ ssaReg[t] \in R
BY DEF Tables, Occupants

\* free_ssa and assign_reg, pointwise.
LEMMA ReassignEffect ==
    ASSUME TableTypes, NEW gone, NEW m, Assignable(gone, m), Reassign(gone, m)
    PROVE  Effect(gone, m)
<1>1. DOMAIN Overlay(Without(ssaReg, gone), m) = (Live \ gone) \cup DOMAIN m
      BY DEF Overlay, Without, Live
<1>2. ASSUME NEW s \in DOMAIN m PROVE Overlay(Without(ssaReg, gone), m)[s] = m[s]
      BY DEF Overlay, Without
<1>3. ASSUME NEW s \in Live \ gone PROVE Overlay(Without(ssaReg, gone), m)[s] = ssaReg[s]
  <2>1. s \notin DOMAIN m
        BY DEF Assignable
  <2> QED BY <2>1 DEF Overlay, Without, Live
<1>4. ssaReg' = Overlay(Without(ssaReg, gone), m)
      BY DEF Reassign
<1>5. used' = (used \ {ssaReg[s] : s \in gone}) \cup Image(m) /\ pinned' = pinned \ {ssaReg[s] : s \in gone}
      BY DEF Reassign
<1>6. Live' = (Live \ gone) \cup DOMAIN m
      BY <1>1, <1>4 DEF Live
<1> QED BY <1>2, <1>3, <1>4, <1>5, <1>6 DEF Effect

\* free_ssa and assign_reg keep the tables of the allocator consistent when
\* the registers given are free or freed, and each is given once.
LEMMA ReassignTables ==
    ASSUME TableTypes, Tables, NEW gone, NEW m, Assignable(gone, m), Reassign(gone, m)
    PROVE  TableTypes' /\ Tables'
<1>1. Effect(gone, m)
      BY ReassignEffect
<1>2. \A s, t \in Live : ssaReg[s] = ssaReg[t] => s = t
      BY OneEach
<1>3. Live' = (Live \ gone) \cup DOMAIN m
      BY <1>1 DEF Effect
<1>4. \A s \in Live' : ssaReg'[s] \in Reg /\ s \in SSA
      BY <1>1 DEF Effect, Assignable, TableTypes
<1>5. ssaReg' \in [Live' -> Reg]
  <2>1. ssaReg' = [t \in DOMAIN ssaReg' |-> ssaReg'[t]]
        BY DEF Reassign, Overlay
  <2> QED BY <1>4, <2>1 DEF Live
<1>6. ASSUME NEW x PROVE x \in used' <=> \E s \in Live' : ssaReg'[s] = x
  <2>1. x \in used' <=> (x \in used /\ ~ \E s \in gone : ssaReg[s] = x) \/ (\E s \in DOMAIN m : m[s] = x)
        BY <1>1 DEF Effect, Image
  <2>2. (x \in used /\ ~ \E s \in gone : ssaReg[s] = x) <=> \E s \in Live \ gone : ssaReg[s] = x
        BY <1>2 DEF Tables, Assignable
  <2>3. (\E s \in Live' : ssaReg'[s] = x) <=>
            (\E s \in Live \ gone : ssaReg[s] = x) \/ (\E s \in DOMAIN m : m[s] = x)
        BY <1>1 DEF Effect
  <2> QED BY <2>1, <2>2, <2>3
<1>7. used' = {ssaReg'[s] : s \in Live'} /\ used' \subseteq Reg
      BY <1>4, <1>6
<1>8. regSsa' = [r \in Reg |-> IF r \in Image(m) THEN CHOOSE s \in DOMAIN m : m[s] = r ELSE regSsa[r]]
      BY DEF Reassign
<1>9. ASSUME NEW s \in DOMAIN m PROVE regSsa'[m[s]] = s
  <2>1. m[s] \in Image(m) /\ m[s] \in Reg
        BY DEF Image, Assignable
  <2>2. \A t \in DOMAIN m : m[t] = m[s] => t = s
        BY DEF Assignable
  <2>3. (CHOOSE t \in DOMAIN m : m[t] = m[s]) = s
        BY <2>2
  <2> QED BY <1>8, <2>1, <2>3
<1>10. ASSUME NEW s \in Live \ gone PROVE regSsa'[ssaReg[s]] = s
  <2>1. ssaReg[s] \notin Image(m) /\ ssaReg[s] \in Reg
        BY DEF Image, Assignable, TableTypes
  <2> QED BY <1>8, <2>1 DEF Tables
<1>11. \A s \in Live' : regSsa'[ssaReg'[s]] = s
       BY <1>1, <1>9, <1>10 DEF Effect
<1>12. regSsa' \in [Reg -> SSA \cup {Junk}]
  <2>1. ASSUME NEW r \in Reg, r \in Image(m) PROVE (CHOOSE s \in DOMAIN m : m[s] = r) \in SSA
        BY <2>1 DEF Image, Assignable
  <2>2. \A r \in Reg : regSsa[r] \in SSA \cup {Junk}
        BY DEF TableTypes
  <2> QED BY <1>8, <2>1, <2>2
<1>13. pinned' \subseteq used'
  <2>1. ASSUME NEW x \in pinned' PROVE x \in used'
    <3>1. x \in pinned /\ x \notin {ssaReg[s] : s \in gone}
          BY <1>1, <2>1 DEF Effect
    <3>2. x \in used
          BY <3>1 DEF Tables
    <3> QED BY <1>1, <3>1, <3>2 DEF Effect
  <2> QED BY <2>1
<1>14. Live' \subseteq SSA
       BY <1>4
<1> QED BY <1>5, <1>7, <1>11, <1>12, <1>13, <1>14 DEF TableTypes, Tables

\* What a parallel copy leaves in the registers.
LEMMA CopyUntouched ==
    ASSUME NEW v, NEW p, NEW r \in Reg, \A k \in DOMAIN p : p[k][1] # r
    PROVE  AfterCopy(v, p)[r] = v[r]
BY DEF AfterCopy

\* An empty parallel copy changes nothing.
LEMMA CopyEmpty ==
    ASSUME NEW v \in [Reg -> SSA \cup {Junk}]
    PROVE  AfterCopy(v, << >>) = v
<1>1. ~ \E k \in DOMAIN << >> : TRUE
      OBVIOUS
<1> QED BY <1>1 DEF AfterCopy

Longer(q, p, new, old) == q = Append(p, <<new, old>>)
OnceEach(p) == \A j, k \in DOMAIN p : p[j][1] = p[k][1] => j = k

\* A copy into a register that was no destination changes that register only.
LEMMA CopyAppend ==
    ASSUME NEW v, NEW p \in Seq(Reg \X Reg), OnceEach(p), NEW new \in Reg, NEW old \in Reg,
           \A k \in DOMAIN p : p[k][1] # new, NEW q, Longer(q, p, new, old)
    PROVE  /\ q \in Seq(Reg \X Reg) /\ OnceEach(q)
           /\ \A k \in DOMAIN q : q[k] = <<new, old>> \/ \E j \in DOMAIN p : q[k] = p[j]
           /\ AfterCopy(v, q)[new] = v[old]
           /\ \A r \in Reg \ {new} : AfterCopy(v, q)[r] = AfterCopy(v, p)[r]
<1>1. /\ q \in Seq(Reg \X Reg) /\ Len(p) \in Nat /\ DOMAIN p = 1 .. Len(p)
      /\ DOMAIN q = 1 .. (Len(p) + 1) /\ q[Len(p) + 1] = <<new, old>>
      /\ \A k \in 1 .. Len(p) : q[k] = p[k]
  <2>1. <<new, old>> \in Reg \X Reg
        OBVIOUS
  <2> QED BY <2>1, AppendProperties, LenProperties DEF Longer
<1> DEFINE last == Len(p) + 1
<1>2. last \in DOMAIN q /\ q[last] = <<new, old>> /\ \A k \in DOMAIN q : k = last \/ (k \in DOMAIN p /\ q[k] = p[k])
      BY <1>1
<1>3. \A k \in DOMAIN p : k \in DOMAIN q /\ q[k] = p[k]
      BY <1>1
<1> HIDE DEF last
<1>4. q[last][1] = new /\ q[last][2] = old
      BY <1>2
<1>5. OnceEach(q)
      BY <1>2, <1>4 DEF OnceEach
<1>6. \A k \in DOMAIN q : q[k] = <<new, old>> \/ \E j \in DOMAIN p : q[k] = p[j]
      BY <1>2
<1>7. AfterCopy(v, q)[new] = v[old]
  <2>1. \A k \in DOMAIN q : q[k][1] = new => k = last
        BY <1>2, <1>4, <1>5 DEF OnceEach
  <2>2. (CHOOSE k \in DOMAIN q : q[k][1] = new) = last
        BY <1>2, <1>4, <2>1
  <2> QED BY <1>2, <1>4, <2>2 DEF AfterCopy
<1>8. ASSUME NEW r \in Reg \ {new} PROVE AfterCopy(v, q)[r] = AfterCopy(v, p)[r]
  <2>1. CASE \A k \in DOMAIN p : p[k][1] # r
    <3>1. \A k \in DOMAIN q : q[k][1] # r
          BY <1>2, <1>4, <2>1
    <3> QED BY <2>1, <3>1, CopyUntouched
  <2>2. CASE \E k \in DOMAIN p : p[k][1] = r
    <3>1. PICK k \in DOMAIN p : p[k][1] = r
          BY <2>2
    <3>2. (CHOOSE j \in DOMAIN p : p[j][1] = r) = k
          BY <3>1 DEF OnceEach
    <3>3. k \in DOMAIN q /\ q[k] = p[k] /\ \A j \in DOMAIN q : q[j][1] = r => j = k
          BY <1>3, <1>5, <3>1 DEF OnceEach
    <3>4. (CHOOSE j \in DOMAIN q : q[j][1] = r) = k
          BY <3>1, <3>3
    <3>5. AfterCopy(v, p)[r] = v[p[k][2]]
          BY <3>1, <3>2 DEF AfterCopy
    <3>6. AfterCopy(v, q)[r] = v[q[k][2]]
          BY <3>1, <3>3, <3>4 DEF AfterCopy
    <3> QED BY <3>3, <3>5, <3>6
  <2> QED BY <2>1, <2>2
<1> QED BY <1>1, <1>5, <1>6, <1>7, <1>8

----------------------------------------------------------------------------
(* The instruction                                                          *)

\* The operands of the instruction are vectors of its sources and destinations.
LEMMA Operands ==
    ASSUME OperandTypes
    PROVE  /\ Len(instr.srcs) \in Nat /\ DOMAIN instr.srcs = 1 .. Len(instr.srcs)
           /\ Len(instr.dsts) \in Nat /\ DOMAIN instr.dsts = 1 .. Len(instr.dsts)
           /\ \A k \in DOMAIN instr.srcs : instr.srcs[k] \in Vector
           /\ \A k \in DOMAIN instr.dsts : instr.dsts[k] \in Vector
           /\ \A k \in DOMAIN instr.srcs : \A j \in DOMAIN instr.srcs[k] : instr.srcs[k][j] \in Srcs
           /\ \A k \in DOMAIN instr.dsts : \A j \in DOMAIN instr.dsts[k] : instr.dsts[k][j] \in Dsts
<1>1. /\ Len(instr.srcs) \in Nat /\ DOMAIN instr.srcs = 1 .. Len(instr.srcs)
      /\ Len(instr.dsts) \in Nat /\ DOMAIN instr.dsts = 1 .. Len(instr.dsts)
      BY LenProperties DEF OperandTypes
<1>2. /\ \A k \in DOMAIN instr.srcs : instr.srcs[k] \in Vector
      /\ \A k \in DOMAIN instr.dsts : instr.dsts[k] \in Vector
      BY <1>1, ElementOfSeq DEF OperandTypes
<1> QED BY <1>1, <1>2 DEF Srcs, Dsts, AllComps, Comps

\* Facts about the operands carry over a step that leaves the instruction alone.
LEMMA SameInstr ==
    ASSUME instr' = instr, mode' = mode
    PROVE  Srcs' = Srcs /\ Dsts' = Dsts /\ (InstrOK => InstrOK')
BY DEF Srcs, Dsts, InstrOK

\* Facts about the parallel copy carry over a step that leaves it alone.
LEMMA SameCopy ==
    ASSUME val' = val, pcopy' = pcopy
    PROVE  Copied' = Copied
BY DEF Copied

\* Facts about the tables carry over a step that leaves them alone.
LEMMA SameTables ==
    ASSUME ssaReg' = ssaReg, regSsa' = regSsa, used' = used, pinned' = pinned
    PROVE  /\ Live' = Live /\ (TableTypes => TableTypes') /\ (Tables => Tables')
           /\ \A v : TryGetVecReg(v)' = TryGetVecReg(v)
BY DEF Live, TableTypes, Tables, TryGetVecReg

----------------------------------------------------------------------------
(* Steps that change no table                                               *)

\* All vector destinations have registers: the invariant is kept.
LEMMA AllocDoneInv ==
    ASSUME Inv, AllocDone
    PROVE  Inv'
<1>1. /\ pc = "alloc" /\ NextVecDst = {} /\ pc' = IF mode = "pinCopy" THEN "finish" ELSE "free"
      /\ ssaReg' = ssaReg /\ regSsa' = regSsa /\ used' = used /\ pinned' = pinned
      /\ vpin' = vpin /\ evicted' = evicted /\ pcopy' = pcopy
      /\ instr' = instr /\ mode' = mode /\ n' = n /\ c' = c /\ tgt' = tgt
      /\ srcReg' = srcReg /\ dstReg' = dstReg /\ val' = val
      BY DEF AllocDone, alloc, vra, operands
<1>2. Live' = Live /\ Srcs' = Srcs /\ Dsts' = Dsts /\ Copied' = Copied
      BY <1>1, SameInstr, SameCopy, SameTables
<1>3. mode \in {"general", "pinCopy"}
      BY <1>1 DEF Inv, Places
<1>4. TableTypes' /\ Tables' /\ CopyTypes' /\ OperandTypes' /\ InstrOK' /\ (DOMAIN evicted \cap Live = {})'
      BY <1>1, <1>2, SameInstr, SameTables DEF Inv, CopyTypes, OperandTypes
<1>5. Places' /\ AtIdle' /\ PinsKnown' /\ NoneLeft' /\ VpinOwners' /\ PinsTogether' /\ MoveOK' /\ Plans'
      BY <1>1, <1>3 DEF Inv, Places, AtIdle, PinsKnown, NoneLeft, VpinOwners, PinsTogether, MoveOK, Plans,
                  Planned, Collecting
<1>6. Held' /\ EvictedHeld' /\ CopyOK'
      BY <1>1, <1>2 DEF Inv, Held, EvictedHeld, CopyOK, CopyWellFormed
<1>7. BeforeFree /\ BeforeFree' /\ ~Planned /\ ~Planned' /\ ~Collecting /\ ~Collecting'
      BY <1>1, <1>3 DEF BeforeFree, Planned, Collecting
<1>8. VpinUsed' /\ SrcsKept'
      BY <1>1, <1>2, <1>7 DEF Inv, VpinUsed, SrcsKept
<1>9. SrcsCollected'
  <2>1. DoneSrcs' = DoneSrcs
        BY <1>1, <1>7 DEF DoneSrcs
  <2>2. \A k : Collected(k) => Collected(k)'
        BY <1>1, <1>2, <1>7 DEF Collected
  <2> QED BY <1>1, <2>1, <2>2 DEF Inv, SrcsCollected
<1>10. DstsPlaced'
  <2>1. \A d : Placed(d) => Placed(d)'
        BY <1>1, <1>2 DEF Placed
  <2> QED BY <1>1, <1>2, <1>7, <2>1 DEF Inv, DstsPlaced
<1>11. DstsGiven'
  <2>1. \A d \in VecIdx(instr.dsts) \cup (IF mode = "pinCopy" THEN {1} ELSE {}) : dstReg[d] # None
        BY <1>1 DEF NextVecDst
  <2> QED BY <1>1, <1>3, <2>1 DEF DstsGiven
<1> QED BY <1>4, <1>5, <1>6, <1>8, <1>9, <1>10, <1>11 DEF Inv

\* finish() has re-homed every evicted value: the invariant is kept.
LEMMA FinishDoneInv ==
    ASSUME Inv, FinishDone
    PROVE  Inv'
<1>1. /\ pc = "finish" /\ DOMAIN evicted = {}
      /\ pc' = CASE mode = "pinMove" -> "rename" [] mode = "pinCopy" -> "pinCopy" [] OTHER -> "scalar"
      /\ ssaReg' = ssaReg /\ regSsa' = regSsa /\ used' = used /\ pinned' = pinned
      /\ vpin' = vpin /\ evicted' = evicted /\ pcopy' = pcopy
      /\ instr' = instr /\ mode' = mode /\ n' = n /\ c' = c /\ tgt' = tgt
      /\ srcReg' = srcReg /\ dstReg' = dstReg /\ val' = val
      BY DEF FinishDone, alloc, vra, operands
<1>2. Live' = Live /\ Srcs' = Srcs /\ Dsts' = Dsts /\ Copied' = Copied
      BY <1>1, SameInstr, SameCopy, SameTables
<1>3. mode \in {"easy", "mapped", "trivial", "general", "pinMove", "pinCopy"}
      BY <1>1 DEF Inv, Places
<1>4. TableTypes' /\ Tables' /\ CopyTypes' /\ OperandTypes' /\ InstrOK' /\ (DOMAIN evicted \cap Live = {})'
      BY <1>1, <1>2, SameInstr, SameTables DEF Inv, CopyTypes, OperandTypes
<1>5. Places' /\ AtIdle' /\ PinsKnown' /\ NoneLeft' /\ VpinOwners' /\ PinsTogether' /\ MoveOK' /\ Plans'
      BY <1>1, <1>3 DEF Inv, Places, AtIdle, PinsKnown, NoneLeft, VpinOwners, PinsTogether, MoveOK, Plans,
                  Planned, Collecting
<1>6. Held' /\ EvictedHeld' /\ CopyOK'
      BY <1>1, <1>2 DEF Inv, Held, EvictedHeld, CopyOK, CopyWellFormed
<1>7. (BeforeFree' => BeforeFree) /\ ~Planned /\ ~Planned' /\ ~Collecting /\ ~Collecting'
      BY <1>1, <1>3 DEF BeforeFree, Planned, Collecting
<1>8. VpinUsed' /\ SrcsKept'
      BY <1>1, <1>2, <1>7 DEF Inv, VpinUsed, SrcsKept
<1>9. SrcsCollected'
  <2>1. DoneSrcs' = DoneSrcs
        BY <1>1, <1>3, <1>7 DEF DoneSrcs
  <2>2. \A k : Collected(k) => Collected(k)'
        BY <1>1, <1>2, <1>7 DEF Collected
  <2> QED BY <1>1, <2>1, <2>2 DEF Inv, SrcsCollected
<1>10. DstsPlaced'
  <2>1. \A d : Placed(d) => Placed(d)'
        BY <1>1, <1>2 DEF Placed
  <2> QED BY <1>1, <1>2, <1>7, <2>1 DEF Inv, DstsPlaced
<1>11. DstsGiven'
       BY <1>1, <1>3, <1>7 DEF Inv, DstsGiven
<1> QED BY <1>4, <1>5, <1>6, <1>8, <1>9, <1>10, <1>11 DEF Inv

\* A vector that try_get_vec_reg finds lies in its registers in order.
LEMMA InPlaceFacts ==
    ASSUME TableTypes, Tables, NEW v \in Vector, TryGetVecReg(v) # None
    PROVE  LET reg == TryGetVecReg(v)
           IN  /\ reg \in Reg /\ reg = ssaReg[v[1]] /\ reg % Align(Len(v)) = 0
               /\ \A k \in DOMAIN v : v[k] \in Live /\ ssaReg[v[k]] = reg + k - 1 /\ reg + k - 1 \in used
               /\ RangeOf(reg, Len(v)) \subseteq used
<1>1. /\ Comps(v) \subseteq Live /\ ssaReg[v[1]] % Align(Len(v)) = 0
      /\ \A k \in DOMAIN v : ssaReg[v[k]] = ssaReg[v[1]] + k - 1
      /\ TryGetVecReg(v) = ssaReg[v[1]]
      BY DEF TryGetVecReg
<1>2. \A k \in DOMAIN v : v[k] \in Live /\ ssaReg[v[k]] \in used
      BY <1>1, VectorFacts DEF Tables
<1>3. ssaReg[v[1]] \in Reg
      BY <1>2, VectorFacts DEF TableTypes
<1>4. \A x \in RangeOf(ssaReg[v[1]], Len(v)) : \E k \in DOMAIN v : x = ssaReg[v[1]] + k - 1
      BY <1>3, RangeOfVec, RegNat
<1> QED BY <1>1, <1>2, <1>3, <1>4

\* The other way round.
LEMMA InPlaceGiven ==
    ASSUME NEW v \in Vector, NEW reg \in Int, reg # None, reg % Align(Len(v)) = 0,
           \A k \in DOMAIN v : v[k] \in Live /\ ssaReg[v[k]] = reg + k - 1
    PROVE  TryGetVecReg(v) = reg
<1>1. Comps(v) \subseteq Live
      BY VectorFacts
<1>2. 1 \in DOMAIN v /\ reg + 1 - 1 = reg
      BY VectorFacts
<1>3. ssaReg[v[1]] = reg
      BY <1>2
<1> QED BY <1>1, <1>3 DEF TryGetVecReg

\* collect_vector of a vector that lies in place keeps the invariant.
LEMMA CollectInPlaceInv ==
    ASSUME Inv, CollectInPlace
    PROVE  Inv'
<1> DEFINE vec == instr.srcs[n]
           reg == TryGetVecReg(vec)
<1>1. /\ pc = "collect" /\ n <= Len(instr.srcs) /\ reg # None
      /\ vpin' = vpin \cup RangeOf(reg, Len(vec)) /\ srcReg' = [srcReg EXCEPT ![n] = reg]
      /\ n' = n + 1 /\ pc' = pc
      /\ ssaReg' = ssaReg /\ regSsa' = regSsa /\ used' = used /\ pinned' = pinned
      /\ evicted' = evicted /\ pcopy' = pcopy
      /\ instr' = instr /\ mode' = mode /\ c' = c /\ tgt' = tgt
      /\ dstReg' = dstReg /\ val' = val
      BY DEF CollectInPlace, alloc
<1>2. Live' = Live /\ Srcs' = Srcs /\ Dsts' = Dsts /\ Copied' = Copied
      BY <1>1, SameInstr, SameCopy, SameTables
<1>3. mode \in {"easy", "mapped", "trivial", "general", "pinMove"}
      BY <1>1 DEF Inv, Places
<1>4. n \in DOMAIN instr.srcs /\ vec \in Vector /\ n \in Nat
      BY <1>1, Operands DEF Inv, OperandTypes
<1>5. /\ reg \in Reg /\ reg % Align(Len(vec)) = 0
      /\ \A k \in DOMAIN vec : vec[k] \in Live /\ ssaReg[vec[k]] = reg + k - 1 /\ reg + k - 1 \in used
      /\ RangeOf(reg, Len(vec)) \subseteq used
  <2> HIDE DEF vec
  <2> QED BY <1>1, <1>4, InPlaceFacts DEF Inv
<1>6. /\ \A k \in DOMAIN vec : reg + k - 1 \in vpin'
      /\ \A x \in vpin' : x \in vpin \/ \E k \in DOMAIN vec : x = reg + k - 1
  <2> HIDE DEF vec, reg
  <2>1. reg \in Int
        BY <1>5, RegNat
  <2> QED BY <1>1, <1>4, <2>1, RangeOfVec
<1> HIDE DEF reg
<1>7. TableTypes' /\ Tables' /\ InstrOK' /\ (DOMAIN evicted \cap Live = {})'
      BY <1>1, <1>2, SameInstr, SameTables DEF Inv
<1>8. CopyTypes'
      BY <1>1, <1>5 DEF Inv, CopyTypes, TableTypes
<1>9. OperandTypes'
  <2>1. reg \in Int
        BY <1>5, RegNat
  <2> QED BY <1>1, <1>4, <2>1 DEF Inv, OperandTypes
<1>10. Places' /\ AtIdle' /\ NoneLeft' /\ MoveOK' /\ Plans'
      BY <1>1, <1>3 DEF Inv, Places, AtIdle, NoneLeft, MoveOK, Plans, Planned
<1>11. Held' /\ EvictedHeld' /\ CopyOK' /\ PinsKnown'
      BY <1>1, <1>2 DEF Inv, Held, EvictedHeld, CopyOK, CopyWellFormed, PinsKnown
<1>12. BeforeFree /\ BeforeFree' /\ ~Planned /\ ~Planned' /\ Collecting /\ Collecting'
      BY <1>1, <1>3 DEF BeforeFree, Planned, Collecting
<1>13. VpinUsed' /\ SrcsKept'
      BY <1>1, <1>2, <1>5, <1>12 DEF Inv, VpinUsed, SrcsKept
<1>14. DoneSrcs = 1 .. n - 1 /\ DoneSrcs' = DoneSrcs \cup {n} /\ n \notin DoneSrcs
  <2>1. DoneSrcs = 1 .. n - 1 /\ DoneSrcs' = 1 .. n' - 1
        BY <1>12 DEF DoneSrcs
  <2> QED BY <1>1, <1>4, <2>1
<1>15. SrcsCollected'
  <2>1. ASSUME NEW k \in DoneSrcs PROVE Collected(k)'
    <3>1. Collected(k) /\ k # n /\ k \in DOMAIN instr.srcs
          BY <1>14 DEF Inv, SrcsCollected
    <3>2. srcReg'[k] = srcReg[k]
          BY <1>1, <3>1 DEF Inv, OperandTypes
    <3> QED BY <1>1, <1>2, <1>12, <3>1, <3>2 DEF Collected
  <2>2. ASSUME NEW m, m = n PROVE Collected(m)'
    <3>1. srcReg'[m] = reg /\ instr'.srcs[m] = vec
          BY <1>1, <1>4, <2>2 DEF Inv, OperandTypes
    <3>2. \A k \in DOMAIN vec : Copied[reg + k - 1] = vec[k]
      <4>1. ASSUME NEW k \in DOMAIN vec PROVE Copied[reg + k - 1] = vec[k]
        <5>1. vec[k] \in Live /\ ssaReg[vec[k]] = reg + k - 1 /\ vec[k] \in Srcs
              BY <1>4, <1>5, Operands DEF Inv
        <5>2. vec[k] \notin Dsts
              BY <5>1 DEF Inv, InstrOK
        <5> QED BY <5>1, <5>2 DEF Inv, Held
      <4> QED BY <4>1
    <3> QED BY <1>1, <1>2, <1>5, <1>6, <3>1, <3>2 DEF Collected
  <2>3. \A k \in DoneSrcs' : k \in DOMAIN instr.srcs /\ Collected(k)'
        BY <1>4, <1>14, <2>1, <2>2 DEF Inv, SrcsCollected
  <2> QED BY <1>1, <2>3 DEF SrcsCollected
<1>16. VpinOwners'
  <2>1. Settled' = Settled \cup Comps(vec)
        BY <1>1, <1>14 DEF Settled
  <2>2. ASSUME NEW s \in Live, ssaReg[s] \in vpin' PROVE s \in Dsts \/ ssaReg[s] \in pinned \/ s \in Settled'
    <3>1. CASE ssaReg[s] \in vpin
          BY <1>12, <2>1, <3>1 DEF Inv, VpinOwners
    <3>2. CASE \E k \in DOMAIN vec : ssaReg[s] = reg + k - 1
      <4>1. PICK k \in DOMAIN vec : ssaReg[s] = reg + k - 1
            BY <3>2
      <4>2. vec[k] \in Live /\ ssaReg[vec[k]] = ssaReg[s]
            BY <1>5, <4>1
      <4>3. s = vec[k]
            BY <4>2, OneEach DEF Inv
      <4> QED BY <1>4, <2>1, <4>3, VectorFacts
    <3> QED BY <1>6, <2>2, <3>1, <3>2
  <2> QED BY <1>1, <1>2, <2>2 DEF VpinOwners
<1>17. PinsTogether'
       BY <1>1, <1>2, <1>12, SameTables DEF Inv, PinsTogether
<1>18. DstsPlaced' /\ DstsGiven'
  <2>1. \A d : Placed(d) => Placed(d)'
        BY <1>1, <1>2 DEF Placed
  <2>2. DstsPlaced'
        BY <1>1, <1>2, <1>12, <2>1 DEF Inv, DstsPlaced
  <2> QED BY <1>1, <1>12, <2>2 DEF Inv, DstsGiven
<1> QED BY <1>7, <1>8, <1>9, <1>10, <1>11, <1>13, <1>15, <1>16, <1>17, <1>18 DEF Inv

\* The range that collect_vector chooses is aligned and free of operands.
LEMMA CollectRangeFacts ==
    ASSUME TableTypes, vpin \subseteq used, NEW vec \in Vector, CollectRange(vec) # None
    PROVE  LET r == CollectRange(vec)
           IN  /\ r \in Nat /\ r + Len(vec) <= RegCount /\ r % Align(Len(vec)) = 0
               /\ RangeOf(r, Len(vec)) \cap vpin = {}
<1> DEFINE len == Len(vec)
           unused == FindUnset(used, 0, len)
           base(k) == (ssaReg[vec[k]] \div Align(len)) * Align(len)
           partial == {k \in DOMAIN vec :
                          /\ vec[k] \in Live
                          /\ ssaReg[vec[k]] = base(k) + k - 1
                          /\ base(k) + len <= RegCount
                          /\ RangeOf(base(k), len) \cap vpin = {}}
           Good(r) == /\ r \in Nat /\ r + len <= RegCount /\ r % Align(len) = 0
                      /\ RangeOf(r, len) \cap vpin = {}
<1>1. len \in Nat \ {0} /\ DOMAIN vec \subseteq Nat
      BY VectorFacts
<1>2. CollectRange(vec) = IF unused # None THEN unused
                          ELSE IF partial # {} THEN base(Minimum(partial))
                          ELSE FindUnset(vpin, 0, len)
      BY DEF CollectRange
<1>3. ASSUME unused # None PROVE Good(unused)
  <2> HIDE DEF len
  <2>1. unused \in Reg /\ unused + len <= RegCount /\ unused % Align(len) = 0 /\ RangeOf(unused, len) \cap used = {}
        BY <1>1, <1>3, FoundRange
  <2> QED BY <2>1, RegNat
<1>4. ASSUME FindUnset(vpin, 0, len) # None PROVE Good(FindUnset(vpin, 0, len))
  <2> HIDE DEF len
  <2>1. LET r == FindUnset(vpin, 0, len)
        IN  r \in Reg /\ r + len <= RegCount /\ r % Align(len) = 0 /\ RangeOf(r, len) \cap vpin = {}
        BY <1>1, <1>4, FoundRange
  <2> QED BY <2>1, RegNat
<1>5. ASSUME NEW k \in partial PROVE Good(base(k))
  <2>1. ssaReg[vec[k]] \in Nat
        BY RegNat DEF TableTypes
  <2>2. \A x \in Nat : \A a \in {1, 2, 4} : (x \div a) * a \in Nat /\ ((x \div a) * a) % a = 0
    <3>1. \A x \in Nat : (x \div 1) * 1 \in Nat /\ ((x \div 1) * 1) % 1 = 0
          OBVIOUS
    <3>2. \A x \in Nat : (x \div 2) * 2 \in Nat /\ ((x \div 2) * 2) % 2 = 0
          OBVIOUS
    <3>3. \A x \in Nat : (x \div 4) * 4 \in Nat /\ ((x \div 4) * 4) % 4 = 0
          OBVIOUS
    <3> QED BY <3>1, <3>2, <3>3
  <2>3. Align(len) \in {1, 2, 4}
        BY DEF Align
  <2>4. base(k) \in Nat /\ base(k) % Align(len) = 0
    <3> HIDE DEF len
    <3> QED BY <2>1, <2>2, <2>3
  <2>5. base(k) + len <= RegCount /\ RangeOf(base(k), len) \cap vpin = {}
        BY <1>5
  <2> HIDE DEF base, len
  <2> QED BY <2>4, <2>5
<1>6. partial # {} => Minimum(partial) \in partial
  <2>1. partial \in SUBSET Nat
        BY <1>1
  <2> HIDE DEF partial
  <2> QED BY <2>1, SmallestNumber
<1>7. Good(CollectRange(vec))
  <2> HIDE DEF Good, partial, base, unused, len
  <2> QED BY <1>2, <1>3, <1>4, <1>5, <1>6
<1> QED BY <1>7

\* collect_vector's choice of a range keeps the invariant: the range is free of
\* pinned registers, so no collected vector is disturbed.
LEMMA CollectElsewhereInv ==
    ASSUME Inv, CollectElsewhere
    PROVE  Inv'
<1> DEFINE vec == instr.srcs[n]
<1>1. /\ pc = "collect" /\ n <= Len(instr.srcs) /\ TryGetVecReg(vec) = None
      /\ tgt' = CollectRange(vec) /\ tgt' # None
      /\ c' = 0 /\ pc' = "move"
      /\ ssaReg' = ssaReg /\ regSsa' = regSsa /\ used' = used /\ pinned' = pinned
      /\ vpin' = vpin /\ evicted' = evicted /\ pcopy' = pcopy
      /\ instr' = instr /\ mode' = mode /\ n' = n
      /\ srcReg' = srcReg /\ dstReg' = dstReg /\ val' = val
      BY DEF CollectElsewhere, alloc, vra, operands
<1>2. Live' = Live /\ Srcs' = Srcs /\ Dsts' = Dsts /\ Copied' = Copied
      BY <1>1, SameInstr, SameCopy, SameTables
<1>3. mode \in {"easy", "mapped", "trivial", "general", "pinMove"}
      BY <1>1 DEF Inv, Places
<1>4. n \in DOMAIN instr.srcs /\ vec \in Vector /\ n \in Nat
      BY <1>1, Operands DEF Inv, OperandTypes
<1>5. BeforeFree /\ BeforeFree' /\ ~Planned /\ ~Planned' /\ Collecting /\ Collecting'
      BY <1>1, <1>3 DEF BeforeFree, Planned, Collecting
<1>6. /\ tgt' \in Nat /\ tgt' + Len(vec) <= RegCount /\ tgt' % Align(Len(vec)) = 0
      /\ RangeOf(tgt', Len(vec)) \cap vpin = {}
  <2>1. vpin \subseteq used
        BY <1>5 DEF Inv, VpinUsed
  <2> HIDE DEF vec
  <2> QED BY <1>1, <1>4, <2>1, CollectRangeFacts DEF Inv
<1>7. TableTypes' /\ Tables' /\ InstrOK' /\ CopyTypes' /\ (DOMAIN evicted \cap Live = {})'
      BY <1>1, <1>2, SameInstr, SameTables DEF Inv, CopyTypes
<1>8. OperandTypes'
      BY <1>1, <1>6 DEF Inv, OperandTypes
<1>9. Places' /\ AtIdle' /\ NoneLeft' /\ Plans'
      BY <1>1, <1>3 DEF Inv, Places, AtIdle, NoneLeft, Plans, Planned
<1>10. Held' /\ EvictedHeld' /\ CopyOK' /\ PinsKnown'
      BY <1>1, <1>2 DEF Inv, Held, EvictedHeld, CopyOK, CopyWellFormed, PinsKnown
<1>11. VpinUsed' /\ SrcsKept'
      BY <1>1, <1>2, <1>5 DEF Inv, VpinUsed, SrcsKept
<1>12. DoneSrcs = 1 .. n - 1 /\ DoneSrcs' = DoneSrcs
      BY <1>1, <1>5 DEF DoneSrcs
<1>13. SrcsCollected'
  <2>1. \A k : Collected(k) => Collected(k)'
        BY <1>1, <1>2, <1>5 DEF Collected
  <2> QED BY <1>1, <1>12, <2>1 DEF Inv, SrcsCollected
<1>14. VpinOwners'
  <2>1. Settled \subseteq Settled'
        BY <1>1, <1>12 DEF Settled
  <2> QED BY <1>1, <1>2, <1>5, <2>1 DEF Inv, VpinOwners
<1>15. PinsTogether'
       BY <1>1, <1>2, <1>5, SameTables DEF Inv, PinsTogether
<1>16. ASSUME NEW k \in DOMAIN vec, vec[k] \in Live, ssaReg[vec[k]] \in vpin PROVE FALSE
  <2>1. vec[k] \in Srcs /\ vec[k] \notin Dsts /\ vec[k] \in Comps(vec)
        BY <1>4, Operands, VectorFacts DEF Inv, InstrOK
  <2>2. ssaReg[vec[k]] \notin pinned
        BY <1>1, <1>4, <1>5, <1>16, <2>1 DEF Inv, PinsTogether
  <2>3. vec[k] \in Settled
        BY <1>5, <1>16, <2>1, <2>2 DEF Inv, VpinOwners
  <2>4. PICK m \in DoneSrcs : vec[k] \in Comps(instr.srcs[m])
        BY <1>1, <2>3 DEF Settled
  <2>5. m \in DOMAIN instr.srcs /\ m < n /\ Collected(m) /\ instr.srcs[m] \in Vector
        BY <1>4, <1>12, <2>4, Operands DEF Inv, SrcsCollected
  <2>6. Len(vec) # 1
    <3>1. ASSUME Len(vec) = 1 PROVE FALSE
      <4>1. DOMAIN vec = {1} /\ k = 1
            BY <1>4, <1>16, <3>1, VectorFacts
      <4>2. ssaReg[vec[1]] \in Nat /\ ssaReg[vec[1]] # None
            BY <1>16, <4>1, RegNat DEF Inv, TableTypes
      <4>3. ssaReg[vec[1]] % 1 = 0 /\ ssaReg[vec[1]] = ssaReg[vec[1]] + 1 - 1
            BY <4>2
      <4>4. Align(Len(vec)) = 1
            BY <3>1 DEF Align
      <4>5. TryGetVecReg(vec) = ssaReg[vec[1]]
        <5> HIDE DEF vec
        <5> QED BY <1>4, <1>16, <4>1, <4>2, <4>3, <4>4, InPlaceGiven
      <4> QED BY <1>1, <4>2, <4>5
    <3> QED BY <3>1
  <2>7. Len(vec) > 1 /\ Len(instr.srcs[m]) > 1
    <3>1. Len(vec) > 1
      <4>1. Len(vec) \in Nat \ {0}
            BY <1>4, VectorFacts
      <4>2. \A m1 \in Nat \ {0} : m1 # 1 => m1 > 1
            OBVIOUS
      <4> HIDE DEF vec
      <4> QED BY <2>6, <4>1, <4>2, Zenon
    <3>2. Len(vec) = 1 \/ Len(instr.srcs[m]) > 1
          BY <1>4, <2>5 DEF Inv, InstrOK, LegalSrcs
    <3> QED BY <2>6, <3>1, <3>2
  <2>8. instr.srcs[m] = vec
    <3>1. instr.srcs[m] = vec \/ Comps(instr.srcs[m]) \cap Comps(vec) = {}
          BY <1>4, <2>5, <2>7 DEF Inv, InstrOK, LegalSrcs
    <3> QED BY <2>1, <2>4, <3>1
  <2>9. /\ srcReg[m] % Align(Len(vec)) = 0
        /\ \A j \in DOMAIN vec : vec[j] \in Live /\ ssaReg[vec[j]] = srcReg[m] + j - 1
        BY <1>5, <2>5, <2>8 DEF Collected
  <2>10. srcReg[m] \in Int /\ srcReg[m] # None
    <3>1. 1 \in DOMAIN vec
          BY <1>4, VectorFacts
    <3>2. ssaReg[vec[1]] \in Nat /\ ssaReg[vec[1]] = srcReg[m] + 1 - 1
          BY <2>9, <3>1, RegNat DEF Inv, TableTypes
    <3>3. srcReg[m] \in Int
          BY <2>5 DEF Inv, OperandTypes
    <3> QED BY <3>2, <3>3 DEF None
  <2>11. TryGetVecReg(vec) = srcReg[m]
    <3> HIDE DEF vec
    <3> QED BY <1>4, <2>9, <2>10, InPlaceGiven
  <2> QED BY <1>1, <2>10, <2>11
<1>17. MoveOK'
  <2>1. Len(vec) \in Nat \ {0} /\ DOMAIN vec = 1 .. Len(vec)
        BY <1>4, VectorFacts
  <2>2. \A j \in 0 .. Len(vec) - 1 : tgt' + j \in RangeOf(tgt', Len(vec))
    <3>1. \A r, m \in Nat : \A j \in 0 .. m - 1 : r + j \in RangeOf(r, m)
          BY DEF RangeOf
    <3> HIDE DEF vec
    <3> QED BY <1>6, <2>1, <3>1
  <2>3. \A j \in 0 .. Len(vec) - 1 : tgt' + j \notin vpin
        BY <1>6, <2>2
  <2>4. instr'.srcs[n'] = vec
        BY <1>1
  <2> HIDE DEF vec
  <2>5. n' <= Len(instr'.srcs) /\ c' < Len(vec) /\ 1 .. c' = {} /\ c' + 1 = 1
        BY <1>1, <2>1
  <2> QED BY <1>1, <1>2, <1>6, <1>16, <2>1, <2>3, <2>4, <2>5 DEF MoveOK
<1>18. DstsPlaced' /\ DstsGiven'
  <2>1. \A d : Placed(d) => Placed(d)'
        BY <1>1, <1>2 DEF Placed
  <2>2. DstsPlaced'
        BY <1>1, <1>2, <1>5, <2>1 DEF Inv, DstsPlaced
  <2> QED BY <1>1, <1>5, <2>2 DEF Inv, DstsGiven
<1> QED BY <1>7, <1>8, <1>9, <1>10, <1>11, <1>13, <1>14, <1>15, <1>17, <1>18 DEF Inv

----------------------------------------------------------------------------
(* Moving the components of a vector                                        *)

\* What every way of placing the component `Moving' in register tgt + c does.
Advance ==
    /\ instr' = instr /\ mode' = mode /\ tgt' = tgt /\ dstReg' = dstReg /\ val' = val
    /\ pinned' = pinned /\ vpin' = vpin \cup {tgt + c} /\ vpin' \subseteq used'
    /\ Moving \in Live' /\ ssaReg'[Moving] = tgt + c
    /\ \A s \in Live' \ {Moving} : s \in Live /\ ssaReg'[s] = ssaReg[s]
    /\ \A s \in Live : ssaReg[s] \in vpin => s \in Live' /\ ssaReg'[s] = ssaReg[s]
    /\ Srcs \subseteq Live' \cup DOMAIN evicted'
    /\ \A r \in vpin : Copied'[r] = Copied[r]

\* The component that collect_vector moves is a source that is still somewhere.
LEMMA MovingFacts ==
    ASSUME Inv, pc = "move"
    PROVE  /\ n \in DOMAIN instr.srcs /\ instr.srcs[n] \in Vector
           /\ c \in Nat /\ c + 1 \in DOMAIN instr.srcs[n]
           /\ Moving \in Srcs /\ Moving \notin Dsts /\ Moving \in Live \cup DOMAIN evicted
           /\ tgt + c \in Reg /\ tgt + c \notin vpin
           /\ Moving \in Live => ssaReg[Moving] \notin vpin
           /\ BeforeFree /\ Collecting /\ ~Planned
<1>1. BeforeFree /\ Collecting /\ ~Planned
      BY DEF BeforeFree, Collecting, Planned
<1>2. n \in DOMAIN instr.srcs /\ instr.srcs[n] \in Vector /\ c \in Nat
      BY Operands DEF Inv, OperandTypes, MoveOK
<1> DEFINE vec == instr.srcs[n]
<1>3. Len(vec) \in Nat /\ DOMAIN vec = 1 .. Len(vec)
      BY <1>2, VectorFacts
<1>4. c < Len(vec) /\ tgt \in Int /\ tgt >= 0 /\ tgt + Len(vec) <= RegCount
      BY DEF Inv, MoveOK, OperandTypes
<1>5. \A m \in Nat : \A t \in Int : c < m /\ t >= 0 /\ t + m <= RegCount =>
          c + 1 \in 1 .. m /\ c \in c .. m - 1 /\ c + 1 \in c + 1 .. m /\ t + c \in 0 .. RegCount - 1
      BY <1>2, SizeAssumption
<1>6. c + 1 \in DOMAIN vec /\ c \in c .. Len(vec) - 1 /\ c + 1 \in c + 1 .. Len(vec) /\ tgt + c \in Reg
  <2> HIDE DEF vec
  <2> QED BY <1>3, <1>4, <1>5 DEF Reg
<1>7. Moving \in Srcs /\ Moving \notin Dsts
      BY <1>2, <1>6, Operands DEF Inv, InstrOK, Moving
<1>8. Moving \in Live \cup DOMAIN evicted
      BY <1>1, <1>7 DEF Inv, SrcsKept
<1>9. tgt + c \notin vpin /\ (Moving \in Live => ssaReg[Moving] \notin vpin)
      BY <1>6 DEF Inv, MoveOK, Moving
<1> QED BY <1>1, <1>2, <1>6, <1>7, <1>8, <1>9

\* What both ways of moving a component to its place keep.
LEMMA AdvanceInv ==
    ASSUME Inv, pc = "move", NextComponent, Advance,
           TableTypes', Tables', CopyTypes', (DOMAIN evicted \cap Live = {})',
           Held', EvictedHeld', CopyOK'
    PROVE  Inv'
<1> DEFINE vec == instr.srcs[n]
<1>1. /\ instr' = instr /\ mode' = mode /\ tgt' = tgt /\ dstReg' = dstReg /\ val' = val
      /\ pinned' = pinned /\ vpin' = vpin \cup {tgt + c} /\ vpin' \subseteq used'
      /\ Moving \in Live' /\ ssaReg'[Moving] = tgt + c
      BY DEF Advance
<1>2. Srcs' = Srcs /\ Dsts' = Dsts /\ InstrOK'
      BY <1>1, SameInstr DEF Inv
<1>3. mode \in {"easy", "mapped", "trivial", "general", "pinMove"}
      BY DEF Inv, Places
<1>4. /\ n \in DOMAIN instr.srcs /\ n \in Nat /\ vec \in Vector
      /\ c \in Nat /\ c + 1 \in DOMAIN vec /\ Moving = vec[c + 1]
      /\ Moving \in Srcs /\ Moving \notin Dsts
      /\ tgt + c \in Reg /\ tgt + c \notin vpin
      BY MovingFacts DEF Moving, Inv, OperandTypes
<1>5. Len(vec) \in Nat \ {0} /\ DOMAIN vec = 1 .. Len(vec) /\ tgt \in Int
      BY <1>4, VectorFacts DEF Inv, OperandTypes
<1> HIDE DEF vec
<1>6. \/ /\ c + 1 < Len(vec) /\ c' = c + 1 /\ pc' = "move" /\ n' = n /\ srcReg' = srcReg
      \/ /\ c + 1 = Len(vec) /\ srcReg' = [srcReg EXCEPT ![n] = tgt] /\ n' = n + 1 /\ c' = 0 /\ pc' = "collect"
  <2>1. c + 1 < Len(vec) \/ c + 1 = Len(vec)
    <3>1. \A m \in Nat : c + 1 \in 1 .. m => c + 1 < m \/ c + 1 = m
          BY <1>4
    <3> QED BY <1>4, <1>5, <3>1
  <2>2. ~(c + 1 < Len(vec)) => c + 1 = Len(vec)
        BY <2>1
  <2> QED BY <2>2 DEF NextComponent, vec
<1>7. BeforeFree /\ BeforeFree' /\ ~Planned /\ ~Planned' /\ Collecting /\ Collecting'
      BY <1>1, <1>3, <1>6 DEF BeforeFree, Planned, Collecting
<1>8. OperandTypes'
  <2>1. n' \in Nat \ {0} /\ c' \in Nat
        BY <1>4, <1>6 DEF Inv, OperandTypes
  <2>2. srcReg' \in [DOMAIN instr.srcs -> Int]
        BY <1>4, <1>5, <1>6 DEF Inv, OperandTypes
  <2> QED BY <1>1, <1>5, <2>1, <2>2 DEF Inv, OperandTypes
<1>9. Places' /\ AtIdle' /\ NoneLeft' /\ Plans'
      BY <1>1, <1>3, <1>6 DEF Inv, Places, AtIdle, NoneLeft, Plans, Planned
<1>10. PinsKnown' /\ VpinUsed' /\ SrcsKept'
      BY <1>1, <1>2, <1>6 DEF Inv, PinsKnown, VpinUsed, SrcsKept, Advance
<1>11. \A s, t \in Live' : ssaReg'[s] = ssaReg'[t] => s = t
      BY DEF Tables
<1>12. \A s \in Live' \ {Moving} : s \in Live /\ ssaReg'[s] = ssaReg[s]
      BY DEF Advance
<1>13. \A s \in Live : ssaReg[s] \in vpin => s \in Live' /\ ssaReg'[s] = ssaReg[s]
      BY DEF Advance
<1>14. \A k \in 1 .. c + 1 : vec[k] \in Live' /\ ssaReg'[vec[k]] = tgt + k - 1 /\ tgt + k - 1 \in vpin'
  <2>1. ASSUME NEW k \in 1 .. c PROVE vec[k] \in Live' /\ ssaReg'[vec[k]] = tgt + k - 1 /\ tgt + k - 1 \in vpin'
    <3>1. vec[k] \in Live /\ ssaReg[vec[k]] = tgt + k - 1 /\ tgt + k - 1 \in vpin
          BY DEF Inv, MoveOK, vec
    <3> QED BY <1>1, <1>13, <3>1
  <2>2. \A k \in 1 .. c + 1 : k \in 1 .. c \/ k = c + 1
        BY <1>4
  <2>3. tgt + (c + 1) - 1 = tgt + c
        BY <1>4, <1>5
  <2> QED BY <1>1, <1>4, <2>1, <2>2, <2>3
<1>15. SrcsCollected'
  <2>1. ASSUME NEW k \in 1 .. n - 1 PROVE k \in DOMAIN instr.srcs /\ Collected(k)'
    <3>1. k \in DoneSrcs
          BY <1>7 DEF DoneSrcs
    <3>2. Collected(k) /\ k \in DOMAIN instr.srcs /\ k # n
          BY <1>4, <3>1 DEF Inv, SrcsCollected
    <3>3. srcReg'[k] = srcReg[k]
          BY <1>6, <3>2 DEF Inv, OperandTypes
    <3>4. ASSUME NEW j \in DOMAIN instr.srcs[k]
          PROVE  /\ srcReg[k] + j - 1 \in vpin' /\ Copied'[srcReg[k] + j - 1] = instr.srcs[k][j]
                 /\ instr.srcs[k][j] \in Live' /\ ssaReg'[instr.srcs[k][j]] = srcReg[k] + j - 1
      <4>1. /\ srcReg[k] + j - 1 \in vpin /\ Copied[srcReg[k] + j - 1] = instr.srcs[k][j]
            /\ instr.srcs[k][j] \in Live /\ ssaReg[instr.srcs[k][j]] = srcReg[k] + j - 1
            BY <1>7, <3>2 DEF Collected
      <4> QED BY <1>1, <1>13, <4>1 DEF Advance
    <3>5. srcReg[k] % Align(Len(instr.srcs[k])) = 0
          BY <3>2 DEF Collected
    <3> QED BY <1>1, <3>2, <3>3, <3>4, <3>5 DEF Collected
  <2>2. DoneSrcs' = 1 .. n' - 1
        BY <1>7 DEF DoneSrcs
  <2>3. CASE n' = n
        BY <1>1, <2>1, <2>2, <2>3 DEF SrcsCollected
  <2>4. CASE c + 1 = Len(vec) /\ srcReg' = [srcReg EXCEPT ![n] = tgt] /\ n' = n + 1
    <3>1. ASSUME NEW m, m = n PROVE Collected(m)'
      <4>1. srcReg'[m] = tgt /\ instr'.srcs[m] = vec
            BY <1>1, <1>4, <2>4, <3>1 DEF Inv, OperandTypes, vec
      <4>2. tgt % Align(Len(vec)) = 0
            BY DEF Inv, MoveOK, vec
      <4>3. ASSUME NEW j \in DOMAIN vec
            PROVE  /\ tgt + j - 1 \in vpin' /\ Copied'[tgt + j - 1] = vec[j]
                   /\ vec[j] \in Live' /\ ssaReg'[vec[j]] = tgt + j - 1
        <5>1. j \in 1 .. c + 1
              BY <1>5, <2>4
        <5>2. vec[j] \in Live' /\ ssaReg'[vec[j]] = tgt + j - 1 /\ tgt + j - 1 \in vpin'
              BY <1>14, <5>1
        <5>3. vec[j] \notin Dsts'
              BY <1>2, <1>4, Operands DEF Inv, InstrOK, vec
        <5> QED BY <5>2, <5>3 DEF Held
      <4> QED BY <4>1, <4>2, <4>3 DEF Collected
    <3>2. \A k \in 1 .. n' - 1 : k \in 1 .. n - 1 \/ k = n
          BY <1>4, <2>4
    <3> QED BY <1>1, <1>4, <2>1, <2>2, <3>1, <3>2 DEF SrcsCollected
  <2> QED BY <1>6, <2>3, <2>4
<1>16. VpinOwners'
  <2>1. Settled \cup {Moving} \subseteq Settled'
    <3>1. DoneSrcs = 1 .. n - 1 /\ DoneSrcs' = 1 .. n' - 1
          BY <1>7 DEF DoneSrcs
    <3> DEFINE U == UNION {Comps(instr.srcs[k]) : k \in 1 .. n - 1}
    <3>2. Settled = U \cup {vec[k] : k \in 1 .. c}
          BY <3>1 DEF Settled, vec
    <3>3. CASE c' = c + 1 /\ pc' = "move" /\ n' = n
      <4>1. Settled' = U \cup {vec[k] : k \in 1 .. c + 1}
            BY <1>1, <3>1, <3>3 DEF Settled, vec
      <4>2. c + 1 \in 1 .. c + 1 /\ 1 .. c \subseteq 1 .. c + 1
            BY <1>4
      <4>3. {vec[k] : k \in 1 .. c} \cup {Moving} \subseteq {vec[k] : k \in 1 .. c + 1}
            BY <1>4, <4>2
      <4> HIDE DEF U
      <4> QED BY <3>2, <4>1, <4>3
    <3>4. CASE n' = n + 1 /\ pc' = "collect" /\ c + 1 = Len(vec)
      <4>1. Settled' = UNION {Comps(instr.srcs[k]) : k \in 1 .. n}
        <5>1. 1 .. n' - 1 = 1 .. n
              BY <1>4, <3>4
        <5> QED BY <1>1, <3>1, <3>4, <5>1 DEF Settled
      <4>2. n \in 1 .. n /\ 1 .. n - 1 \subseteq 1 .. n
            BY <1>4 DEF Inv, OperandTypes
      <4>3. Comps(vec) \subseteq Settled'
            BY <4>1, <4>2 DEF vec
      <4>4. \A k \in 1 .. c + 1 : vec[k] \in Comps(vec)
            BY <1>4, <1>5, <3>4, VectorFacts
      <4>5. c + 1 \in 1 .. c + 1 /\ 1 .. c \subseteq 1 .. c + 1
            BY <1>4
      <4>6. Moving \in Settled' /\ {vec[k] : k \in 1 .. c} \subseteq Settled'
            BY <1>4, <4>3, <4>4, <4>5
      <4>7. U \subseteq Settled'
            BY <4>1, <4>2
      <4> HIDE DEF U
      <4> QED BY <3>2, <4>6, <4>7
    <3> QED BY <1>6, <3>3, <3>4
  <2>2. ASSUME NEW s \in Live', ssaReg'[s] \in vpin' PROVE s \in Dsts \/ ssaReg'[s] \in pinned \/ s \in Settled'
    <3>1. CASE s = Moving
          BY <2>1, <3>1
    <3>2. CASE s # Moving
      <4>1. s \in Live /\ ssaReg'[s] = ssaReg[s]
            BY <1>12, <3>2
      <4>2. ssaReg'[s] # tgt + c
            BY <1>1, <1>11, <3>2
      <4>3. ssaReg[s] \in vpin
            BY <1>1, <2>2, <4>1, <4>2
      <4>4. s \in Dsts \/ ssaReg[s] \in pinned \/ s \in Settled
            BY <1>7, <4>1, <4>3 DEF Inv, VpinOwners
      <4> QED BY <2>1, <4>1, <4>4
    <3> QED BY <3>1, <3>2
  <2> QED BY <1>1, <1>2, <2>2 DEF VpinOwners
<1>17. PinsTogether'
  <2>1. pinned \subseteq vpin
        BY DEF Inv, PinsKnown
  <2>2. ASSUME NEW k \in DOMAIN instr.srcs, NEW s \in Comps(instr.srcs[k]), s \in Live', ssaReg'[s] \in pinned
        PROVE  TryGetVecReg(instr.srcs[k])' # None /\ \A t \in Comps(instr.srcs[k]) : ssaReg'[t] \in pinned
    <3>1. s \in Live /\ ssaReg[s] \in pinned
          BY <1>1, <1>4, <1>12, <2>1, <2>2
    <3>2. TryGetVecReg(instr.srcs[k]) # None /\ \A t \in Comps(instr.srcs[k]) : ssaReg[t] \in pinned
          BY <1>7, <3>1 DEF Inv, PinsTogether
    <3>3. Comps(instr.srcs[k]) \subseteq Live
          BY <3>2 DEF TryGetVecReg
    <3>4. \A t \in Comps(instr.srcs[k]) : t \in Live' /\ ssaReg'[t] = ssaReg[t]
          BY <1>13, <2>1, <3>2, <3>3
    <3>5. instr.srcs[k] \in Vector
          BY Operands DEF Inv
    <3>6. \A j \in DOMAIN instr.srcs[k] : ssaReg'[instr.srcs[k][j]] = ssaReg[instr.srcs[k][j]]
          BY <3>4, <3>5, VectorFacts
    <3>7. 1 \in DOMAIN instr.srcs[k]
          BY <3>5, VectorFacts
    <3>8. TryGetVecReg(instr.srcs[k])' = TryGetVecReg(instr.srcs[k])
      <4>1. Comps(instr.srcs[k]) \subseteq Live'
            BY <3>4
      <4> QED BY <1>1, <3>3, <3>6, <3>7, <4>1 DEF TryGetVecReg
    <3> QED BY <3>2, <3>4, <3>8
  <2>3. instr'.srcs = instr.srcs
        BY <1>1
  <2> QED BY <1>1, <2>2, <2>3 DEF PinsTogether
<1>18. MoveOK'
  <2> SUFFICES ASSUME pc' = "move" PROVE MoveOK'
      BY DEF MoveOK
  <2>1. c + 1 < Len(vec) /\ c' = c + 1 /\ n' = n /\ instr'.srcs[n'] = vec /\ instr'.srcs = instr.srcs
        BY <1>1, <1>6 DEF vec
  <2>2. /\ n <= Len(instr.srcs) /\ tgt >= 0 /\ tgt + Len(vec) <= RegCount /\ tgt % Align(Len(vec)) = 0
        /\ \A j \in c .. Len(vec) - 1 : tgt + j \notin vpin
        /\ \A k \in c + 1 .. Len(vec) : vec[k] \in Live => ssaReg[vec[k]] \notin vpin
        BY DEF Inv, MoveOK, vec
  <2>3. \A j \in c' .. Len(vec) - 1 : tgt + j \notin vpin'
    <3>1. \A j \in c' .. Len(vec) - 1 : j \in c .. Len(vec) - 1 /\ tgt + j # tgt + c
          BY <1>4, <1>5, <2>1
    <3> QED BY <1>1, <2>2, <3>1
  <2>4. ASSUME NEW k \in c' + 1 .. Len(vec), vec[k] \in Live' PROVE ssaReg'[vec[k]] \notin vpin'
    <3>1. k \in c + 1 .. Len(vec) /\ k # c + 1 /\ k \in DOMAIN vec
          BY <1>4, <1>5, <2>1
    <3>2. vec[k] # Moving
          BY <1>4, <3>1, VectorFacts
    <3>3. vec[k] \in Live /\ ssaReg'[vec[k]] = ssaReg[vec[k]]
          BY <1>12, <2>4, <3>2
    <3>4. ssaReg[vec[k]] \notin vpin
          BY <2>2, <3>1, <3>3
    <3>5. ssaReg'[vec[k]] # tgt + c
          BY <1>1, <1>11, <2>4, <3>2
    <3> QED BY <1>1, <3>3, <3>4, <3>5
  <2>5. c' < Len(vec) /\ n' <= Len(instr'.srcs)
        BY <2>1, <2>2
  <2> QED BY <1>1, <1>14, <2>1, <2>2, <2>3, <2>4, <2>5 DEF MoveOK
<1>19. DstsPlaced'
  <2>1. ASSUME NEW d \in DOMAIN instr.dsts, dstReg[d] # None PROVE Placed(d)'
    <3>1. Placed(d)
          BY <1>7, <2>1 DEF Inv, DstsPlaced
    <3>2. ASSUME NEW k \in DOMAIN instr.dsts[d]
          PROVE  /\ instr.dsts[d][k] \in Live' /\ ssaReg'[instr.dsts[d][k]] = dstReg[d] + k - 1
                 /\ dstReg[d] + k - 1 \in vpin' /\ dstReg[d] + k - 1 \notin pinned
      <4>1. /\ instr.dsts[d][k] \in Live /\ ssaReg[instr.dsts[d][k]] = dstReg[d] + k - 1
            /\ dstReg[d] + k - 1 \in vpin /\ dstReg[d] + k - 1 \notin pinned
            BY <3>1 DEF Placed
      <4> QED BY <1>1, <1>13, <4>1
    <3> QED BY <1>1, <3>2 DEF Placed
  <2>2. ASSUME NEW d \in DOMAIN instr.dsts, dstReg[d] = None PROVE Comps(instr.dsts[d]) \cap Live' = {}
    <3>1. Comps(instr.dsts[d]) \cap Live = {}
          BY <1>7, <2>2 DEF Inv, DstsPlaced
    <3>2. Comps(instr.dsts[d]) \subseteq Dsts
          BY DEF Dsts, AllComps
    <3> QED BY <1>4, <1>12, <3>1, <3>2
  <2>3. instr'.dsts = instr.dsts
        BY <1>1
  <2> QED BY <1>1, <1>7, <2>1, <2>2, <2>3 DEF DstsPlaced
<1>20. DstsGiven'
       BY <1>1, <1>3, <1>6, <1>7 DEF Inv, DstsGiven
<1> QED BY <1>2, <1>8, <1>9, <1>10, <1>15, <1>16, <1>17, <1>18, <1>19, <1>20 DEF Inv

\* A destination that is in a register is there for good.
LEMMA DstsLive ==
    ASSUME OperandTypes, DstsPlaced, ~Planned, NEW s \in Live, s \in Dsts
    PROVE  \E d \in DOMAIN instr.dsts : \E k \in DOMAIN instr.dsts[d] :
               /\ dstReg[d] # None /\ Placed(d) /\ s = instr.dsts[d][k] /\ ssaReg[s] = dstReg[d] + k - 1
<1>1. PICK d \in DOMAIN instr.dsts : s \in Comps(instr.dsts[d])
      BY DEF Dsts, AllComps
<1>2. dstReg[d] # None /\ Placed(d)
      BY <1>1 DEF DstsPlaced
<1>3. PICK k \in DOMAIN instr.dsts[d] : instr.dsts[d][k] = s
      BY <1>1 DEF Comps
<1> QED BY <1>2, <1>3 DEF Placed

\* A destination that has registers keeps them pinned until the scalars come.
LEMMA DstsPinned ==
    ASSUME OperandTypes, DstsPlaced, ~Planned, pc # "scalar", NEW s \in Live, s \in Dsts
    PROVE  ssaReg[s] \in vpin
BY DstsLive DEF Placed

\* move_ssa_to_reg of a component in place keeps the invariant.
LEMMA MoveStayInv ==
    ASSUME Inv, MoveStay
    PROVE  Inv'
<1>1. /\ pc = "move" /\ Moving \in Live /\ ssaReg[Moving] = tgt + c /\ vpin' = vpin \cup {tgt + c}
      /\ NextComponent
      /\ ssaReg' = ssaReg /\ regSsa' = regSsa /\ used' = used /\ pinned' = pinned
      /\ evicted' = evicted /\ pcopy' = pcopy
      /\ instr' = instr /\ mode' = mode /\ tgt' = tgt /\ dstReg' = dstReg /\ val' = val
      BY DEF MoveStay, alloc
<1>2. Live' = Live /\ Srcs' = Srcs /\ Dsts' = Dsts /\ Copied' = Copied
      BY <1>1, SameInstr, SameCopy, SameTables
<1>3. TableTypes' /\ Tables' /\ (DOMAIN evicted \cap Live = {})'
      BY <1>1, <1>2, SameTables DEF Inv
<1>4. tgt + c \in Reg /\ BeforeFree
      BY <1>1, MovingFacts
<1>5. CopyTypes'
      BY <1>1, <1>4 DEF Inv, CopyTypes
<1>6. Held' /\ EvictedHeld' /\ CopyOK'
      BY <1>1, <1>2 DEF Inv, Held, EvictedHeld, CopyOK, CopyWellFormed
<1>7. tgt + c \in used
      BY <1>1 DEF Inv, Tables
<1>8. Advance
      BY <1>1, <1>2, <1>4, <1>7 DEF Inv, Advance, VpinUsed, SrcsKept
<1> QED BY <1>1, <1>3, <1>5, <1>6, <1>8, AdvanceInv

\* Putting a value into a register and evicting the one that is there.
LEMMA PlaceFacts ==
    ASSUME Inv, pc = "move", NEW s, s = Moving, NEW new, new = tgt + c, NEW old,
           \/ s \in Live /\ ssaReg[s] # new /\ old = ssaReg[s]
           \/ s \in DOMAIN evicted /\ old = evicted[s],
           PlaceEvicting(s, new, old),
           instr' = instr, mode' = mode, tgt' = tgt, dstReg' = dstReg, val' = val
    PROVE  /\ TableTypes' /\ Tables' /\ CopyTypes' /\ (DOMAIN evicted \cap Live = {})'
           /\ Held' /\ EvictedHeld' /\ CopyOK' /\ Advance
<1> DEFINE out == Occupants({new})
           gone == out \cup ({s} \cap Live)
           m == One(s, new)
<1>1. /\ Reassign(gone, m) /\ evicted' = Overlay(Without(evicted, {s}), [t \in out |-> new])
      /\ pcopy' = Append(pcopy, <<new, old>>) /\ vpin' = vpin \cup {new}
      BY DEF PlaceEvicting
<1>2. /\ s \in Srcs /\ s \notin Dsts /\ new \in Reg /\ new \notin vpin
      /\ s \in Live => ssaReg[s] \notin vpin
      /\ BeforeFree /\ ~Planned
      BY MovingFacts
<1>3. vpin \subseteq used /\ pinned \subseteq vpin /\ DOMAIN evicted \cap Live = {}
      BY <1>2 DEF Inv, VpinUsed, PinsKnown
<1>4. \A t : t \in out <=> t \in Live /\ ssaReg[t] = new
      BY OneEach DEF Inv
<1>5. s \notin out /\ out \subseteq Live /\ out \cap DOMAIN evicted = {}
      BY <1>3, <1>4
<1>6. \A t \in out : t \notin Dsts
      BY <1>2, <1>4, DstsPinned DEF Inv
<1>7. DOMAIN m = {s} /\ m[s] = new /\ Image(m) = {new}
      BY OneFacts
<1> HIDE DEF out, m
<1>8. s \in SSA
      BY DEF Inv, TableTypes, CopyTypes
<1>9. \A t \in Live \ gone : t # s /\ ssaReg[t] # new
      BY <1>4
<1>10. Assignable(gone, m)
      BY <1>2, <1>5, <1>7, <1>8, <1>9 DEF Assignable
<1>11. \A x \in {ssaReg[t] : t \in gone} : x \notin vpin
      BY <1>2, <1>4
<1> HIDE DEF gone
<1>12. TableTypes' /\ Tables'
      BY <1>1, <1>10, ReassignTables DEF Inv
<1>13. Effect(gone, m)
      BY <1>1, <1>10, ReassignEffect DEF Inv
<1>14. /\ Live' = (Live \ gone) \cup {s} /\ ssaReg'[s] = new
       /\ \A t \in Live \ gone : t \in Live' /\ ssaReg'[t] = ssaReg[t]
       /\ used' = (used \ {ssaReg[t] : t \in gone}) \cup {new}
       /\ pinned' = pinned \ {ssaReg[t] : t \in gone}
      BY <1>7, <1>13 DEF Effect
<1>15. pinned' = pinned /\ vpin' \subseteq used'
      BY <1>1, <1>3, <1>11, <1>14
<1>16. /\ DOMAIN evicted' = (DOMAIN evicted \ {s}) \cup out
       /\ \A t \in out : evicted'[t] = new
       /\ \A t \in DOMAIN evicted \ {s} : evicted'[t] = evicted[t]
       /\ evicted' = [t \in DOMAIN evicted' |-> evicted'[t]]
  <2>1. DOMAIN evicted' = (DOMAIN evicted \ {s}) \cup out
        BY <1>1 DEF Overlay, Without
  <2>2. \A t \in out : evicted'[t] = new
        BY <1>1 DEF Overlay, Without
  <2>3. ASSUME NEW t \in DOMAIN evicted \ {s} PROVE evicted'[t] = evicted[t]
    <3>1. t \notin out
          BY <1>5
    <3> QED BY <1>1, <3>1 DEF Overlay, Without
  <2>4. evicted' = [t \in DOMAIN evicted' |-> evicted'[t]]
        BY <1>1 DEF Overlay
  <2> QED BY <2>1, <2>2, <2>3, <2>4
<1>17. gone \cap Live = gone /\ \A t \in gone : t \in out \/ t = s
       BY <1>5 DEF gone
<1>18. (DOMAIN evicted \cap Live = {})'
  <2>1. ASSUME NEW t \in DOMAIN evicted', t \in Live' PROVE FALSE
    <3>1. t # s
          BY <1>5, <1>16, <2>1
    <3>2. t \in Live /\ t \notin gone
          BY <1>14, <2>1, <3>1
    <3>3. t \notin out
          BY <3>2 DEF gone
    <3> QED BY <1>3, <1>16, <2>1, <3>2, <3>3
  <2> QED BY <2>1
<1>19. \A k \in DOMAIN pcopy : pcopy[k][1] \in vpin /\ pcopy[k][1] # pcopy[k][2]
       BY DEF Inv, CopyOK, CopyWellFormed
<1>20. ASSUME NEW r \in Reg, r \notin vpin PROVE Copied[r] = val[r]
  <2>1. \A k \in DOMAIN pcopy : pcopy[k][1] # r
        BY <1>19, <1>20
  <2> QED BY <2>1, CopyUntouched DEF Copied
<1>21. old \in Reg /\ val[old] = s /\ old # new
  <2>1. CASE s \in Live /\ ssaReg[s] # new /\ old = ssaReg[s]
    <3>1. old \in Reg /\ old \notin vpin
          BY <1>2, <2>1 DEF Inv, TableTypes
    <3>2. Copied[old] = s
          BY <1>2, <2>1 DEF Inv, Held
    <3> QED BY <1>20, <2>1, <3>1, <3>2
  <2>2. CASE s \in DOMAIN evicted /\ old = evicted[s]
    <3>1. old \in Reg
          BY <2>2 DEF Inv, CopyTypes
    <3>2. val[old] = s /\ old \in vpin
          BY <2>2 DEF Inv, EvictedHeld
    <3> QED BY <1>2, <3>1, <3>2
  <2> QED BY <2>1, <2>2
<1>22. /\ pcopy' \in Seq(Reg \X Reg) /\ OnceEach(pcopy')
       /\ \A k \in DOMAIN pcopy' : pcopy'[k] = <<new, old>> \/ \E j \in DOMAIN pcopy : pcopy'[k] = pcopy[j]
       /\ Copied'[new] = val[old]
       /\ \A r \in Reg \ {new} : Copied'[r] = Copied[r]
  <2>1. pcopy \in Seq(Reg \X Reg) /\ OnceEach(pcopy) /\ \A k \in DOMAIN pcopy : pcopy[k][1] # new
        BY <1>2, <1>19 DEF Inv, CopyTypes, CopyOK, CopyWellFormed, OnceEach
  <2>2. Copied' = AfterCopy(val, pcopy') /\ Copied = AfterCopy(val, pcopy)
        BY <1>1 DEF Copied
  <2>3. Longer(pcopy', pcopy, new, old)
        BY <1>1 DEF Longer
  <2> QED BY <1>2, <1>21, <2>1, <2>2, <2>3, CopyAppend
<1>23. CopyTypes'
  <2>1. \A t \in DOMAIN evicted' : t \in SSA /\ evicted'[t] \in Reg
        BY <1>2, <1>5, <1>16 DEF Inv, CopyTypes, TableTypes
  <2>2. DOMAIN evicted' \subseteq SSA /\ evicted' \in [DOMAIN evicted' -> Reg]
        BY <1>16, <2>1
  <2> QED BY <1>1, <1>2, <1>22, <2>2 DEF Inv, CopyTypes
<1>24. CopyOK'
  <2>1. ASSUME NEW k \in DOMAIN pcopy' PROVE pcopy'[k][1] \in vpin' /\ pcopy'[k][1] # pcopy'[k][2]
    <3>1. CASE pcopy'[k] = <<new, old>>
          BY <1>1, <1>21, <3>1
    <3>2. CASE \E j \in DOMAIN pcopy : pcopy'[k] = pcopy[j]
          BY <1>1, <1>19, <3>2
    <3> QED BY <1>22, <3>1, <3>2
  <2> QED BY <1>22, <2>1 DEF CopyOK, CopyWellFormed, OnceEach
<1>25. Srcs' = Srcs /\ Dsts' = Dsts
       BY SameInstr
<1>26. Held'
  <2>1. ASSUME NEW t \in Live', t \notin Dsts PROVE Copied'[ssaReg'[t]] = t
    <3>1. CASE t = s
          BY <1>14, <1>21, <1>22, <3>1
    <3>2. CASE t # s
      <4>1. t \in Live \ gone
            BY <1>14, <3>2
      <4>2. ssaReg'[t] = ssaReg[t] /\ ssaReg[t] # new /\ ssaReg[t] \in Reg /\ Copied[ssaReg[t]] = t
            BY <1>9, <1>14, <2>1, <4>1 DEF Inv, Held, TableTypes
      <4> QED BY <1>22, <4>2
    <3> QED BY <3>1, <3>2
  <2> QED BY <1>25, <2>1 DEF Held
<1>27. EvictedHeld'
  <2>1. ASSUME NEW t \in DOMAIN evicted' PROVE t \notin Dsts /\ val[evicted'[t]] = t /\ evicted'[t] \in vpin'
    <3>1. CASE t \in out
      <4>1. t \in Live /\ ssaReg[t] = new /\ t \notin Dsts
            BY <1>4, <1>6, <3>1
      <4>2. Copied[new] = t
            BY <4>1 DEF Inv, Held
      <4> QED BY <1>1, <1>2, <1>16, <1>20, <3>1, <4>1, <4>2
    <3>2. CASE t \in DOMAIN evicted \ {s}
          BY <1>1, <1>16, <3>2 DEF Inv, EvictedHeld
    <3> QED BY <1>16, <3>1, <3>2
  <2> QED BY <1>25, <2>1 DEF EvictedHeld
<1>28. Srcs \subseteq Live' \cup DOMAIN evicted'
  <2>1. ASSUME NEW t \in Srcs PROVE t \in Live' \cup DOMAIN evicted'
    <3>1. t \in Live \cup DOMAIN evicted
          BY <1>2 DEF Inv, SrcsKept
    <3> QED BY <1>14, <1>16, <1>17, <3>1
  <2> QED BY <2>1
<1>29. Advance
  <2>1. \A t \in Live' \ {s} : t \in Live /\ ssaReg'[t] = ssaReg[t]
        BY <1>14
  <2>2. ASSUME NEW t \in Live, ssaReg[t] \in vpin PROVE t \in Live' /\ ssaReg'[t] = ssaReg[t]
    <3>1. t \notin gone
          BY <1>11, <2>2
    <3> QED BY <1>14, <3>1
  <2>3. \A r \in vpin : Copied'[r] = Copied[r]
        BY <1>2, <1>22 DEF Inv, CopyTypes
  <2>4. s \in Live'
        BY <1>14
  <2> QED BY <1>1, <1>14, <1>15, <1>28, <2>1, <2>2, <2>3, <2>4 DEF Advance
<1> QED BY <1>12, <1>18, <1>23, <1>24, <1>26, <1>27, <1>29

\* move_ssa_to_reg from another register keeps the invariant.
LEMMA MoveAllocatedInv ==
    ASSUME Inv, MoveAllocated
    PROVE  Inv'
<1>1. /\ pc = "move" /\ Moving \in Live /\ ssaReg[Moving] # tgt + c
      /\ PlaceEvicting(Moving, tgt + c, ssaReg[Moving]) /\ NextComponent
      /\ instr' = instr /\ mode' = mode /\ tgt' = tgt /\ dstReg' = dstReg /\ val' = val
      BY DEF MoveAllocated
<1>2. /\ TableTypes' /\ Tables' /\ CopyTypes' /\ (DOMAIN evicted \cap Live = {})'
      /\ Held' /\ EvictedHeld' /\ CopyOK' /\ Advance
      BY <1>1, PlaceFacts
<1> QED BY <1>1, <1>2, AdvanceInv

\* move_ssa_to_reg of a value that was evicted keeps the invariant.
LEMMA MoveEvictedInv ==
    ASSUME Inv, MoveEvicted
    PROVE  Inv'
<1>1. /\ pc = "move" /\ Moving \in DOMAIN evicted
      /\ PlaceEvicting(Moving, tgt + c, evicted[Moving]) /\ NextComponent
      /\ instr' = instr /\ mode' = mode /\ tgt' = tgt /\ dstReg' = dstReg /\ val' = val
      BY DEF MoveEvicted
<1>2. /\ TableTypes' /\ Tables' /\ CopyTypes' /\ (DOMAIN evicted \cap Live = {})'
      /\ Held' /\ EvictedHeld' /\ CopyOK' /\ Advance
      BY <1>1, PlaceFacts
<1> QED BY <1>1, <1>2, AdvanceInv

----------------------------------------------------------------------------
(* Freeing the sources                                                      *)

\* free_killed takes the dead sources out of the tables and moves nothing.
LEMMA FreedFacts ==
    ASSUME Inv, ~Collecting, instr.killed \subseteq Live, Freed(instr.killed),
           instr' = instr, mode' = mode, val' = val, vpin' = vpin, evicted' = evicted, pcopy' = pcopy,
           srcReg' = srcReg, dstReg' = dstReg, n' = n, c' = c, tgt' = tgt,
           ~BeforeFree', ~Collecting', DoneSrcs' = DoneSrcs, pc # "idle", pc' # "idle", Planned' <=> Planned
    PROVE  /\ TableTypes' /\ Tables' /\ CopyTypes' /\ OperandTypes' /\ InstrOK'
           /\ (DOMAIN evicted \cap Live = {})' /\ AtIdle'
           /\ Held' /\ EvictedHeld' /\ CopyOK' /\ PinsKnown' /\ VpinUsed' /\ SrcsKept'
           /\ SrcsCollected' /\ VpinOwners' /\ PinsTogether'
           /\ (pc' = "scalar" \/ pc # "scalar") => DstsPlaced'
           /\ used' = used \ {ssaReg[s] : s \in instr.killed}
           /\ Live' = Live \ instr.killed
           /\ pinned' = pinned \ {ssaReg[s] : s \in instr.killed}
<1> DEFINE gone == instr.killed
           regs == {ssaReg[s] : s \in gone}
<1>1. Reassign(gone, EmptyFn) /\ DOMAIN EmptyFn = {} /\ Image(EmptyFn) = {}
      BY DEF Freed, EmptyFn, Image
<1>2. Assignable(gone, EmptyFn)
      BY <1>1 DEF Assignable
<1>3. TableTypes' /\ Tables'
      BY <1>1, <1>2, ReassignTables DEF Inv
<1>4. Effect(gone, EmptyFn)
      BY <1>1, <1>2, ReassignEffect DEF Inv
<1>5. /\ Live' = Live \ gone /\ used' = used \ regs /\ pinned' = pinned \ regs
      /\ \A s \in Live' : s \in Live /\ ssaReg'[s] = ssaReg[s]
      /\ \A s \in Live \ gone : s \in Live' /\ ssaReg'[s] = ssaReg[s]
      BY <1>1, <1>4 DEF Effect
<1>6. Srcs' = Srcs /\ Dsts' = Dsts /\ Copied' = Copied /\ InstrOK'
      BY SameInstr, SameCopy DEF Inv
<1>7. CopyTypes' /\ OperandTypes' /\ AtIdle' /\ VpinOwners' /\ PinsTogether' /\ VpinUsed' /\ SrcsKept'
      BY DEF Inv, CopyTypes, OperandTypes, AtIdle, VpinOwners, PinsTogether, VpinUsed, SrcsKept
<1>8. (DOMAIN evicted \cap Live = {})' /\ Held' /\ EvictedHeld' /\ CopyOK' /\ PinsKnown'
  <2>1. (DOMAIN evicted \cap Live = {})' /\ PinsKnown'
        BY <1>5 DEF Inv, PinsKnown
  <2>2. Held'
        BY <1>5, <1>6 DEF Inv, Held
  <2> QED BY <1>6, <2>1, <2>2 DEF Inv, EvictedHeld, CopyOK, CopyWellFormed
<1>9. SrcsCollected'
  <2>1. \A k : Collected(k) => Collected(k)'
        BY <1>6 DEF Collected
  <2> QED BY <2>1 DEF Inv, SrcsCollected
<1>10. ASSUME pc' = "scalar" \/ pc # "scalar" PROVE DstsPlaced'
  <2>1. ASSUME NEW d \in DOMAIN instr.dsts, Placed(d) PROVE Placed(d)'
    <3>1. ASSUME NEW k \in DOMAIN instr.dsts[d]
          PROVE  /\ instr.dsts[d][k] \in Live' /\ ssaReg'[instr.dsts[d][k]] = dstReg[d] + k - 1
                 /\ pc' # "scalar" => dstReg[d] + k - 1 \in vpin
                 /\ dstReg[d] + k - 1 \notin pinned'
      <4>1. instr.dsts[d][k] \notin gone
        <5>1. instr.dsts[d][k] \in Dsts
              BY Operands DEF Inv
        <5> QED BY <5>1 DEF Inv, InstrOK
      <4>2. /\ instr.dsts[d][k] \in Live /\ ssaReg[instr.dsts[d][k]] = dstReg[d] + k - 1
            /\ pc # "scalar" => dstReg[d] + k - 1 \in vpin
            /\ dstReg[d] + k - 1 \notin pinned
            BY <2>1 DEF Placed
      <4> QED BY <1>5, <1>10, <4>1, <4>2
    <3> QED BY <3>1 DEF Placed
  <2>2. ASSUME NEW d \in DOMAIN instr.dsts, Comps(instr.dsts[d]) \cap Live = {}
        PROVE  Comps(instr.dsts[d]) \cap Live' = {}
        BY <1>5, <2>2
  <2>3. instr'.dsts = instr.dsts
        OBVIOUS
  <2> QED BY <2>1, <2>2, <2>3 DEF Inv, DstsPlaced
<1> QED BY <1>3, <1>5, <1>6, <1>7, <1>8, <1>9, <1>10

\* free_killed keeps the invariant.
LEMMA FreeKilledInv ==
    ASSUME Inv, FreeKilled
    PROVE  Inv'
<1>1. /\ pc = "free" /\ Freed(instr.killed) /\ pc' = IF mode = "mapped" THEN "assign" ELSE "finish"
      /\ vpin' = vpin /\ evicted' = evicted /\ pcopy' = pcopy
      /\ instr' = instr /\ mode' = mode /\ n' = n /\ c' = c /\ tgt' = tgt
      /\ srcReg' = srcReg /\ dstReg' = dstReg /\ val' = val
      BY DEF FreeKilled, vra, operands
<1>2. mode \in {"easy", "mapped", "trivial", "general"}
      BY <1>1 DEF Inv, Places
<1>3. BeforeFree /\ ~BeforeFree' /\ ~Collecting /\ ~Collecting' /\ (Planned <=> Planned')
      BY <1>1, <1>2 DEF BeforeFree, Planned, Collecting
<1>4. DoneSrcs = DOMAIN instr.srcs /\ DoneSrcs' = DoneSrcs
      BY <1>1, <1>2, <1>3 DEF DoneSrcs
<1>5. instr.killed \subseteq Live
  <2>1. ASSUME NEW s \in instr.killed PROVE s \in Live
    <3>1. PICK k \in DOMAIN instr.srcs : s \in Comps(instr.srcs[k])
          BY DEF Inv, InstrOK, Srcs, AllComps
    <3>2. Collected(k)
          BY <1>4 DEF Inv, SrcsCollected
    <3> QED BY <1>3, <3>1, <3>2 DEF Collected, Comps
  <2> QED BY <2>1
<1>6. /\ TableTypes' /\ Tables' /\ CopyTypes' /\ OperandTypes' /\ InstrOK'
      /\ (DOMAIN evicted \cap Live = {})' /\ AtIdle'
      /\ Held' /\ EvictedHeld' /\ CopyOK' /\ PinsKnown' /\ VpinUsed' /\ SrcsKept'
      /\ SrcsCollected' /\ VpinOwners' /\ PinsTogether' /\ DstsPlaced'
      /\ used' = used \ {ssaReg[s] : s \in instr.killed}
      BY <1>1, <1>3, <1>4, <1>5, FreedFacts
<1>7. Places' /\ NoneLeft' /\ MoveOK'
      BY <1>1, <1>2 DEF Places, NoneLeft, MoveOK
<1>8. DstsGiven'
      BY <1>1, <1>2, <1>3 DEF Inv, DstsGiven
<1>9. Plans'
  <2>1. CASE mode = "mapped"
    <3>1. Planned
          BY <1>1, <2>1 DEF Planned
    <3>2. pc' = "assign" /\ dstReg' = dstReg /\ instr' = instr
          BY <1>1, <2>1
    <3>3. ASSUME NEW r, \E s \in instr.killed : ssaReg[s] = r PROVE r \notin used'
          BY <1>6, <3>3
    <3> QED BY <1>1, <3>1, <3>2, <3>3 DEF Inv, Plans
  <2>2. CASE mode # "mapped"
        BY <1>1, <2>2 DEF Plans, Planned
  <2> QED BY <2>1, <2>2
<1> QED BY <1>6, <1>7, <1>8, <1>9 DEF Inv

\* Pinning by a copy keeps the invariant.
LEMMA PinCopyInv ==
    ASSUME Inv, PinCopy
    PROVE  Inv'
<1>1. /\ pc = "pinCopy" /\ Freed(instr.killed) /\ pc' = "scalar"
      /\ vpin' = vpin /\ evicted' = evicted /\ pcopy' = pcopy
      /\ instr' = instr /\ mode' = mode /\ n' = n /\ c' = c /\ tgt' = tgt
      /\ srcReg' = srcReg /\ dstReg' = dstReg /\ val' = val
      BY DEF PinCopy, vra, operands
<1>2. mode = "pinCopy"
      BY <1>1 DEF Inv, Places
<1>3. BeforeFree /\ ~BeforeFree' /\ ~Collecting /\ ~Collecting' /\ ~Planned /\ ~Planned'
      BY <1>1, <1>2 DEF BeforeFree, Planned, Collecting
<1>4. DoneSrcs' = DoneSrcs
      BY <1>1, <1>2, <1>3 DEF DoneSrcs
<1>5. instr.killed \subseteq Live
      BY <1>1, <1>3 DEF Inv, InstrOK, SrcsKept, NoneLeft
<1>6. /\ TableTypes' /\ Tables' /\ CopyTypes' /\ OperandTypes' /\ InstrOK'
      /\ (DOMAIN evicted \cap Live = {})' /\ AtIdle'
      /\ Held' /\ EvictedHeld' /\ CopyOK' /\ PinsKnown' /\ VpinUsed' /\ SrcsKept'
      /\ SrcsCollected' /\ VpinOwners' /\ PinsTogether' /\ DstsPlaced'
      BY <1>1, <1>3, <1>4, <1>5, FreedFacts
<1>7. Places' /\ NoneLeft' /\ MoveOK' /\ Plans'
      BY <1>1, <1>2, <1>3 DEF Inv, Places, NoneLeft, MoveOK, Plans
<1>8. DstsGiven'
  <2>1. VecIdx(instr.dsts) \subseteq {1} /\ dstReg[1] # None
        BY <1>1, <1>2, Operands DEF Inv, InstrOK, DstsGiven, VecIdx
  <2> QED BY <1>1, <1>2, <1>3, <2>1 DEF Inv, DstsGiven
<1> QED BY <1>6, <1>7, <1>8 DEF Inv

----------------------------------------------------------------------------
(* Giving registers to values that have none                                *)

\* What happens elsewhere: an operand that has its register keeps it.
Keeps ==
    /\ instr' = instr /\ mode' = mode /\ srcReg' = srcReg
    /\ pinned' = pinned /\ vpin \subseteq vpin'
    /\ \A s \in Live : ssaReg[s] \in vpin \/ pc = "scalar" => s \in Live' /\ ssaReg'[s] = ssaReg[s]
    /\ \A r \in vpin : Copied'[r] = Copied[r]

\* Sources stay collected when other values are given registers.
LEMMA KeepsSrcs ==
    ASSUME Inv, Keeps, BeforeFree' => BeforeFree, DoneSrcs' = DoneSrcs
    PROVE  SrcsCollected'
<1>1. ASSUME NEW k \in DoneSrcs PROVE Collected(k)'
  <2>1. Collected(k)
        BY DEF Inv, SrcsCollected
  <2>2. instr' = instr /\ srcReg' = srcReg
        BY DEF Keeps
  <2>3. ASSUME NEW j \in DOMAIN instr.srcs[k]
        PROVE  /\ srcReg[k] + j - 1 \in vpin'
               /\ Copied'[srcReg[k] + j - 1] = instr.srcs[k][j]
               /\ BeforeFree' => /\ instr.srcs[k][j] \in Live'
                                 /\ ssaReg'[instr.srcs[k][j]] = srcReg[k] + j - 1
    <3>1. srcReg[k] + j - 1 \in vpin /\ Copied[srcReg[k] + j - 1] = instr.srcs[k][j]
          BY <2>1 DEF Collected
    <3>2. BeforeFree => instr.srcs[k][j] \in Live /\ ssaReg[instr.srcs[k][j]] = srcReg[k] + j - 1
          BY <2>1 DEF Collected
    <3> QED BY <3>1, <3>2 DEF Keeps
  <2>4. srcReg[k] % Align(Len(instr.srcs[k])) = 0
        BY <2>1 DEF Collected
  <2> QED BY <2>2, <2>3, <2>4 DEF Collected
<1>2. instr' = instr /\ DoneSrcs \subseteq DOMAIN instr.srcs
      BY DEF Keeps, Inv, SrcsCollected
<1> QED BY <1>1, <1>2 DEF SrcsCollected

\* Destinations stay placed when other values are given registers.
LEMMA KeepsPlaced ==
    ASSUME Inv, Keeps, NEW d \in DOMAIN instr.dsts, Placed(d), dstReg'[d] = dstReg[d], pc' = "scalar" <=> pc = "scalar"
    PROVE  Placed(d)'
<1>1. instr' = instr /\ pinned' = pinned
      BY DEF Keeps
<1>2. ASSUME NEW k \in DOMAIN instr.dsts[d]
      PROVE  /\ instr.dsts[d][k] \in Live' /\ ssaReg'[instr.dsts[d][k]] = dstReg[d] + k - 1
             /\ pc' # "scalar" => dstReg[d] + k - 1 \in vpin'
             /\ dstReg[d] + k - 1 \notin pinned
  <2>1. /\ instr.dsts[d][k] \in Live /\ ssaReg[instr.dsts[d][k]] = dstReg[d] + k - 1
        /\ pc # "scalar" => dstReg[d] + k - 1 \in vpin
        /\ dstReg[d] + k - 1 \notin pinned
        BY DEF Placed
  <2> QED BY <2>1 DEF Keeps
<1> QED BY <1>1, <1>2 DEF Placed

\* The range that alloc_vector takes holds no operand.
LEMMA AllocVectorFacts ==
    ASSUME Inv, AllocVector
    PROVE  \E d \in DOMAIN instr.dsts, reg \in Reg :
             LET vec == instr.dsts[d]
                 range == RangeOf(reg, Len(vec))
                 out == Occupants(range)
             IN  /\ dstReg[d] = None /\ range \subseteq Reg /\ range \cap vpin = {}
                 /\ Reassign(out, VecMap(vec, reg))
                 /\ vpin' = vpin \cup range /\ evicted' = Overlay(evicted, [s \in out |-> ssaReg[s]])
                 /\ dstReg' = [dstReg EXCEPT ![d] = reg]
<1> DEFINE d == Minimum(NextVecDst)
           vec == instr.dsts[d]
           unused == FindUnset(used, 0, Len(vec))
           reg == IF unused # None THEN unused ELSE FindUnset(vpin, 0, Len(vec))
           range == RangeOf(reg, Len(vec))
           out == Occupants(range)
<1>1. /\ pc = "alloc" /\ NextVecDst # {} /\ reg # None /\ Reassign(out, VecMap(vec, reg))
      /\ vpin' = vpin \cup range /\ evicted' = Overlay(evicted, [s \in out |-> ssaReg[s]])
      /\ dstReg' = [dstReg EXCEPT ![d] = reg]
      BY DEF AllocVector
<1>2. mode \in {"general", "pinCopy"}
      BY <1>1 DEF Inv, Places
<1>3. d \in DOMAIN instr.dsts /\ dstReg[d] = None
  <2>1. NextVecDst \subseteq DOMAIN instr.dsts
        BY <1>2, Operands DEF Inv, InstrOK, NextVecDst, VecIdx
  <2>2. NextVecDst \in SUBSET Nat
        BY <2>1, Operands DEF Inv
  <2>3. d \in NextVecDst
        BY <1>1, <2>2, SmallestNumber
  <2> QED BY <2>1, <2>3 DEF NextVecDst
<1> HIDE DEF d
<1>4. vec \in Vector /\ Len(vec) \in Nat \ {0}
      BY <1>3, Operands, VectorFacts DEF Inv
<1>5. vpin \subseteq used
      BY <1>1 DEF Inv, VpinUsed, BeforeFree
<1> HIDE DEF vec
<1>6. reg \in Reg /\ range \subseteq Reg /\ range \cap vpin = {}
  <2>1. CASE unused # None
    <3>1. unused \in Reg /\ RangeOf(unused, Len(vec)) \subseteq Reg /\ RangeOf(unused, Len(vec)) \cap used = {}
          BY <1>4, <2>1, FoundRange
    <3> QED BY <1>5, <2>1, <3>1
  <2>2. CASE unused = None
    <3>1. reg = FindUnset(vpin, 0, Len(vec))
          BY <2>2
    <3> HIDE DEF unused
    <3> QED BY <1>1, <1>4, <2>2, <3>1, FoundRange
  <2> QED BY <2>1, <2>2
<1> HIDE DEF reg
<1> QED BY <1>1, <1>3, <1>6 DEF vec

\* alloc_vector, evicting or not, keeps the invariant.
LEMMA AllocVectorInv ==
    ASSUME Inv, AllocVector
    PROVE  Inv'
<1>a. PICK d \in DOMAIN instr.dsts, reg \in Reg :
        /\ dstReg[d] = None /\ RangeOf(reg, Len(instr.dsts[d])) \subseteq Reg
        /\ RangeOf(reg, Len(instr.dsts[d])) \cap vpin = {}
        /\ Reassign(Occupants(RangeOf(reg, Len(instr.dsts[d]))), VecMap(instr.dsts[d], reg))
        /\ vpin' = vpin \cup RangeOf(reg, Len(instr.dsts[d]))
        /\ evicted' = Overlay(evicted, [s \in Occupants(RangeOf(reg, Len(instr.dsts[d]))) |-> ssaReg[s]])
        /\ dstReg' = [dstReg EXCEPT ![d] = reg]
      BY AllocVectorFacts
<1> DEFINE vec == instr.dsts[d]
           range == RangeOf(reg, Len(vec))
           out == Occupants(range)
           m == VecMap(vec, reg)
<1>1. /\ pc = "alloc" /\ reg # None /\ Reassign(out, m)
      /\ vpin' = vpin \cup range /\ evicted' = Overlay(evicted, [s \in out |-> ssaReg[s]])
      /\ dstReg' = [dstReg EXCEPT ![d] = reg]
      /\ pcopy' = pcopy /\ instr' = instr /\ mode' = mode /\ pc' = pc /\ n' = n /\ c' = c /\ tgt' = tgt
      /\ srcReg' = srcReg /\ val' = val
  <2>1. /\ pc = "alloc"
        /\ pcopy' = pcopy /\ instr' = instr /\ mode' = mode /\ pc' = pc /\ n' = n /\ c' = c /\ tgt' = tgt
        /\ srcReg' = srcReg /\ val' = val
        BY DEF AllocVector
  <2> QED BY <1>a, <2>1, RegNat
<1>2. mode \in {"general", "pinCopy"}
      BY <1>1 DEF Inv, Places
<1>3. BeforeFree /\ BeforeFree' /\ ~Planned /\ ~Planned' /\ ~Collecting /\ ~Collecting'
      BY <1>1, <1>2 DEF BeforeFree, Planned, Collecting
<1>4. d \in DOMAIN instr.dsts /\ dstReg[d] = None
      BY <1>a
<1>5. vec \in Vector /\ Len(vec) \in Nat \ {0}
      BY <1>4, Operands, VectorFacts DEF Inv
<1>6. vpin \subseteq used /\ pinned \subseteq vpin /\ DOMAIN evicted \cap Live = {}
      BY <1>1, <1>3 DEF Inv, VpinUsed, PinsKnown
<1>7. reg \in Reg /\ range \subseteq Reg /\ range \cap vpin = {}
      BY <1>a
<1> HIDE DEF vec
<1>8. reg \in Int
      BY <1>7, RegNat
<1>9. /\ DOMAIN m = Comps(vec) /\ \A k \in DOMAIN vec : m[vec[k]] = reg + k - 1
      /\ Image(m) = range /\ \A s, t \in Comps(vec) : m[s] = m[t] => s = t
      BY <1>5, <1>8, VecMapFacts
<1>10. \A k \in DOMAIN vec : reg + k - 1 \in range /\ vec[k] \in Comps(vec)
      BY <1>5, <1>8, RangeOfVec, VectorFacts
<1>11. \A t : t \in out <=> t \in Live /\ ssaReg[t] \in range
      BY OneEach DEF Inv
<1>12. \A s \in DOMAIN m : m[s] \in range
      BY <1>9 DEF Image
<1> HIDE DEF out, range, m
<1>13. Comps(vec) \cap Live = {} /\ Comps(vec) \subseteq SSA /\ Comps(vec) \subseteq Dsts
  <2>1. Comps(vec) \cap Live = {}
        BY <1>3, <1>4 DEF Inv, DstsPlaced, vec
  <2>2. Comps(vec) \subseteq Dsts
        BY <1>4 DEF Dsts, AllComps, vec
  <2> QED BY <1>5, <2>1, <2>2, VectorFacts
<1>14. Assignable(out, m)
      BY <1>7, <1>9, <1>11, <1>12, <1>13 DEF Assignable
<1>15. TableTypes' /\ Tables'
      BY <1>1, <1>14, ReassignTables DEF Inv
<1>16. /\ Live' = (Live \ out) \cup Comps(vec)
       /\ \A s \in Live \ out : s \in Live' /\ ssaReg'[s] = ssaReg[s]
       /\ \A s \in Comps(vec) : s \in Live' /\ ssaReg'[s] = m[s]
       /\ used' = (used \ {ssaReg[t] : t \in out}) \cup range
       /\ pinned' = pinned \ {ssaReg[t] : t \in out}
  <2>1. Effect(out, m)
        BY <1>1, <1>14, ReassignEffect DEF Inv
  <2> QED BY <1>9, <2>1 DEF Effect
<1>17. \A x \in {ssaReg[t] : t \in out} : x \in range
       BY <1>11
<1>18. pinned' = pinned /\ vpin' \subseteq used'
       BY <1>1, <1>6, <1>7, <1>16, <1>17
<1>19. /\ DOMAIN evicted' = DOMAIN evicted \cup out
       /\ \A t \in out : evicted'[t] = ssaReg[t]
       /\ \A t \in DOMAIN evicted : evicted'[t] = evicted[t]
       /\ evicted' = [t \in DOMAIN evicted' |-> evicted'[t]]
  <2>1. DOMAIN evicted' = DOMAIN evicted \cup out
        BY <1>1 DEF Overlay
  <2>2. \A t \in out : evicted'[t] = ssaReg[t]
        BY <1>1 DEF Overlay
  <2>3. ASSUME NEW t \in DOMAIN evicted PROVE evicted'[t] = evicted[t]
    <3>1. t \notin out
          BY <1>6, <1>11
    <3> QED BY <1>1, <3>1 DEF Overlay
  <2>4. evicted' = [t \in DOMAIN evicted' |-> evicted'[t]]
        BY <1>1 DEF Overlay
  <2> QED BY <2>1, <2>2, <2>3, <2>4
<1>20. Srcs' = Srcs /\ Dsts' = Dsts /\ Copied' = Copied /\ InstrOK'
       BY <1>1, SameInstr, SameCopy DEF Inv
<1>21. \A t \in DOMAIN evicted : t \notin Dsts /\ val[evicted[t]] = t /\ evicted[t] \in vpin
       BY DEF Inv, EvictedHeld
<1>22. (DOMAIN evicted \cap Live = {})'
  <2>1. ASSUME NEW t \in DOMAIN evicted', t \in Live' PROVE FALSE
    <3>1. CASE t \in out
      <4>1. t \in Comps(vec) /\ t \in Live
            BY <1>11, <1>16, <2>1, <3>1
      <4> QED BY <1>13, <4>1
    <3>2. CASE t \in DOMAIN evicted
          BY <1>6, <1>13, <1>16, <1>21, <2>1, <3>2
    <3> QED BY <1>19, <2>1, <3>1, <3>2
  <2> QED BY <2>1
<1>23. CopyTypes'
  <2>1. \A t \in DOMAIN evicted' : t \in SSA /\ evicted'[t] \in Reg
        BY <1>11, <1>19 DEF Inv, CopyTypes, TableTypes
  <2>2. DOMAIN evicted' \subseteq SSA /\ evicted' \in [DOMAIN evicted' -> Reg]
        BY <1>19, <2>1
  <2> QED BY <1>1, <1>7, <2>2 DEF Inv, CopyTypes
<1>24. OperandTypes'
       BY <1>1, <1>4, <1>8 DEF Inv, OperandTypes
<1>25. Places' /\ AtIdle' /\ PinsKnown' /\ NoneLeft' /\ VpinOwners' /\ PinsTogether' /\ MoveOK' /\ Plans'
       BY <1>1, <1>2, <1>3, <1>6, <1>18 DEF Inv, Places, AtIdle, PinsKnown, NoneLeft, VpinOwners, PinsTogether, MoveOK,
                   Plans
<1>26. Held'
  <2>1. ASSUME NEW t \in Live', t \notin Dsts PROVE t \in Live /\ ssaReg'[t] = ssaReg[t]
        BY <1>13, <1>16, <2>1
  <2> QED BY <1>20, <2>1 DEF Inv, Held
<1>27. EvictedHeld'
  <2>1. ASSUME NEW t \in DOMAIN evicted' PROVE t \notin Dsts /\ val[evicted'[t]] = t /\ evicted'[t] \in vpin'
    <3>1. CASE t \in out
      <4>1. t \in Live /\ ssaReg[t] \in range /\ ssaReg[t] \notin vpin /\ ssaReg[t] \in Reg
            BY <1>7, <1>11, <3>1
      <4>2. t \notin Dsts
            BY <1>1, <1>3, <4>1, DstsPinned DEF Inv
      <4>3. Copied[ssaReg[t]] = t
            BY <4>1, <4>2 DEF Inv, Held
      <4>4. Copied[ssaReg[t]] = val[ssaReg[t]]
        <5>1. \A k \in DOMAIN pcopy : pcopy[k][1] # ssaReg[t]
              BY <4>1 DEF Inv, CopyOK
        <5> QED BY <4>1, <5>1, CopyUntouched DEF Copied
      <4> QED BY <1>1, <1>19, <3>1, <4>1, <4>2, <4>3, <4>4
    <3>2. CASE t \in DOMAIN evicted
          BY <1>1, <1>19, <1>21, <3>2
    <3> QED BY <1>19, <3>1, <3>2
  <2> QED BY <1>1, <1>20, <2>1 DEF EvictedHeld
<1>28. CopyOK'
       BY <1>1 DEF Inv, CopyOK, CopyWellFormed
<1>29. VpinUsed' /\ SrcsKept'
  <2>1. Srcs \subseteq Live' \cup DOMAIN evicted'
        BY <1>3, <1>16, <1>19 DEF Inv, SrcsKept
  <2> QED BY <1>18, <1>20, <2>1 DEF VpinUsed, SrcsKept
<1>30. Keeps
  <2>1. ASSUME NEW s \in Live, ssaReg[s] \in vpin PROVE s \in Live' /\ ssaReg'[s] = ssaReg[s]
    <3>1. s \notin out
          BY <1>7, <1>11, <2>1
    <3> QED BY <1>16, <3>1
  <2> QED BY <1>1, <1>18, <1>20, <2>1 DEF Keeps
<1>31. SrcsCollected'
  <2>1. DoneSrcs' = DoneSrcs
        BY <1>1, <1>3 DEF DoneSrcs
  <2> QED BY <1>3, <1>30, <2>1, KeepsSrcs
<1>32. DstsPlaced'
  <2>1. ASSUME NEW e \in DOMAIN instr.dsts, e # d, dstReg[e] # None PROVE dstReg'[e] = dstReg[e] /\ Placed(e)'
    <3>1. dstReg'[e] = dstReg[e] /\ Placed(e)
          BY <1>1, <1>3, <2>1 DEF Inv, OperandTypes, DstsPlaced
    <3> QED BY <1>1, <1>30, <3>1, KeepsPlaced
  <2>2. ASSUME NEW e \in DOMAIN instr.dsts, e # d, dstReg[e] = None
        PROVE  dstReg'[e] = None /\ Comps(instr.dsts[e]) \cap Live' = {}
    <3>1. dstReg'[e] = None /\ Comps(instr.dsts[e]) \cap Live = {}
          BY <1>1, <1>3, <2>2 DEF Inv, OperandTypes, DstsPlaced
    <3>2. Comps(instr.dsts[e]) \cap Comps(vec) = {}
          BY <1>4, <2>2 DEF Inv, InstrOK, vec
    <3> QED BY <1>16, <3>1, <3>2
  <2>3. ASSUME NEW e, e = d PROVE dstReg'[e] # None /\ Placed(e)'
    <3>1. dstReg'[e] = reg /\ instr'.dsts[e] = vec
          BY <1>1, <1>4, <2>3 DEF Inv, OperandTypes, vec
    <3>2. ASSUME NEW k \in DOMAIN vec
          PROVE  /\ vec[k] \in Live' /\ ssaReg'[vec[k]] = reg + k - 1
                 /\ reg + k - 1 \in vpin' /\ reg + k - 1 \notin pinned'
          BY <1>1, <1>6, <1>7, <1>9, <1>10, <1>16, <1>18
    <3> QED BY <1>1, <3>1, <3>2 DEF Placed
  <2>4. instr'.dsts = instr.dsts
        BY <1>1
  <2> QED BY <1>3, <2>1, <2>2, <2>3, <2>4 DEF DstsPlaced
<1>33. DstsGiven'
       BY <1>1, <1>2, <1>3 DEF Inv, DstsGiven
<1> QED BY <1>15, <1>20, <1>22, <1>23, <1>24, <1>25, <1>26, <1>27, <1>28, <1>29, <1>31, <1>32, <1>33 DEF Inv

\* finish moves an evicted value to a register that nobody needs.
LEMMA FinishOneFacts ==
    ASSUME Inv, FinishOne
    PROVE  \E s \in DOMAIN evicted, new \in Reg :
             /\ new \notin used /\ new \notin vpin
             /\ pcopy' = Append(pcopy, <<new, evicted[s]>>) /\ Reassign({}, One(s, new))
             /\ vpin' = vpin \cup {new} /\ evicted' = Without(evicted, {s})
<1> DEFINE olds == {evicted[t] : t \in DOMAIN evicted}
           old == Minimum(olds)
           s == CHOOSE t \in DOMAIN evicted : evicted[t] = old
           free == Reg \ (used \cup vpin)
           new == Minimum(free)
<1>1. /\ DOMAIN evicted # {} /\ free # {} /\ pcopy' = Append(pcopy, <<new, old>>)
      /\ Reassign({}, One(s, new)) /\ vpin' = vpin \cup {new} /\ evicted' = Without(evicted, {s})
      BY DEF FinishOne
<1>2. s \in DOMAIN evicted /\ evicted[s] = old
  <2>1. olds \in SUBSET Nat /\ olds # {}
        BY <1>1, RegNat DEF Inv, CopyTypes
  <2>2. old \in olds
    <3> HIDE DEF olds
    <3> QED BY <2>1, SmallestNumber
  <2> HIDE DEF old
  <2> QED BY <2>1, <2>2
<1>3. new \in Reg /\ new \notin used /\ new \notin vpin
  <2>1. free \in SUBSET Nat
        BY RegNat
  <2>2. new \in free
    <3> HIDE DEF free
    <3> QED BY <1>1, <2>1, SmallestNumber
  <2> QED BY <2>2
<1> HIDE DEF old, s, new, free
<1> QED BY <1>1, <1>2, <1>3

\* finish() of one evicted value keeps the invariant.
LEMMA FinishOneInv ==
    ASSUME Inv, FinishOne
    PROVE  Inv'
<1>a. PICK s \in DOMAIN evicted, new \in Reg :
        /\ new \notin used /\ new \notin vpin
        /\ pcopy' = Append(pcopy, <<new, evicted[s]>>) /\ Reassign({}, One(s, new))
        /\ vpin' = vpin \cup {new} /\ evicted' = Without(evicted, {s})
      BY FinishOneFacts
<1> DEFINE old == evicted[s]
           m == One(s, new)
<1>1. /\ pc = "finish" /\ pcopy' = Append(pcopy, <<new, old>>)
      /\ Reassign({}, m) /\ vpin' = vpin \cup {new} /\ evicted' = Without(evicted, {s})
      /\ instr' = instr /\ mode' = mode /\ pc' = pc /\ n' = n /\ c' = c /\ tgt' = tgt
      /\ srcReg' = srcReg /\ dstReg' = dstReg /\ val' = val
  <2>1. /\ pc = "finish"
        /\ instr' = instr /\ mode' = mode /\ pc' = pc /\ n' = n /\ c' = c /\ tgt' = tgt
        /\ srcReg' = srcReg /\ dstReg' = dstReg /\ val' = val
        BY DEF FinishOne, operands
  <2> QED BY <1>a, <2>1
<1>2. mode \in {"easy", "mapped", "trivial", "general", "pinMove", "pinCopy"}
      BY <1>1 DEF Inv, Places
<1>3. ~Planned /\ ~Planned' /\ ~Collecting /\ ~Collecting' /\ (BeforeFree <=> BeforeFree')
      BY <1>1, <1>2 DEF BeforeFree, Planned, Collecting
<1>4. old \in Reg /\ s \in DOMAIN evicted /\ evicted[s] = old
      BY DEF Inv, CopyTypes
<1>5. new \in Reg /\ new \notin used /\ new \notin vpin
      BY <1>a
<1> HIDE DEF old
<1>6. DOMAIN m = {s} /\ m[s] = new /\ Image(m) = {new}
      BY OneFacts
<1> HIDE DEF m
<1>7. s \in SSA /\ s \notin Live /\ s \notin Dsts /\ val[old] = s /\ old \in vpin /\ old # new
      BY <1>4, <1>5 DEF Inv, CopyTypes, EvictedHeld
<1>8. \A t \in Live : ssaReg[t] \in used /\ ssaReg[t] # new /\ t # s
      BY <1>5, <1>7 DEF Inv, Tables
<1>9. Assignable({}, m)
      BY <1>5, <1>6, <1>7, <1>8 DEF Assignable
<1>10. TableTypes' /\ Tables'
      BY <1>1, <1>9, ReassignTables DEF Inv
<1>11. /\ Live' = Live \cup {s} /\ ssaReg'[s] = new
       /\ \A t \in Live : t \in Live' /\ ssaReg'[t] = ssaReg[t]
       /\ used' = used \cup {new} /\ pinned' = pinned
  <2>1. Effect({}, m)
        BY <1>1, <1>9, ReassignEffect DEF Inv
  <2> QED BY <1>6, <2>1 DEF Effect
<1>12. DOMAIN evicted' = DOMAIN evicted \ {s} /\ \A t \in DOMAIN evicted' : evicted'[t] = evicted[t]
      BY <1>1 DEF Without
<1>13. /\ pcopy' \in Seq(Reg \X Reg) /\ OnceEach(pcopy')
       /\ \A k \in DOMAIN pcopy' : pcopy'[k] = <<new, old>> \/ \E j \in DOMAIN pcopy : pcopy'[k] = pcopy[j]
       /\ Copied'[new] = val[old]
       /\ \A r \in Reg \ {new} : Copied'[r] = Copied[r]
  <2>1. pcopy \in Seq(Reg \X Reg) /\ OnceEach(pcopy) /\ \A k \in DOMAIN pcopy : pcopy[k][1] # new
        BY <1>5 DEF Inv, CopyTypes, CopyOK, CopyWellFormed, OnceEach
  <2>2. Copied' = AfterCopy(val, pcopy') /\ Copied = AfterCopy(val, pcopy)
        BY <1>1 DEF Copied
  <2>3. Longer(pcopy', pcopy, new, old)
        BY <1>1 DEF Longer
  <2> QED BY <1>4, <1>5, <2>1, <2>2, <2>3, CopyAppend
<1>14. Srcs' = Srcs /\ Dsts' = Dsts /\ InstrOK'
       BY <1>1, SameInstr DEF Inv
<1>15. CopyTypes'
  <2>1. \A t \in DOMAIN evicted' : t \in SSA /\ evicted'[t] \in Reg
        BY <1>12 DEF Inv, CopyTypes
  <2>2. evicted' = [t \in DOMAIN evicted' |-> evicted'[t]]
        BY <1>1 DEF Without
  <2>3. DOMAIN evicted' \subseteq SSA /\ evicted' \in [DOMAIN evicted' -> Reg]
        BY <2>1, <2>2
  <2> QED BY <1>1, <1>5, <1>13, <2>3 DEF Inv, CopyTypes
<1>16. OperandTypes' /\ Places' /\ AtIdle' /\ NoneLeft' /\ VpinOwners' /\ PinsTogether' /\ MoveOK' /\ Plans'
       BY <1>1, <1>2, <1>3 DEF Inv, OperandTypes, Places, AtIdle, NoneLeft, VpinOwners, PinsTogether, MoveOK,
                   Plans
<1>17. (DOMAIN evicted \cap Live = {})' /\ PinsKnown'
       BY <1>1, <1>11, <1>12 DEF Inv, PinsKnown
<1>18. CopyOK'
  <2>1. ASSUME NEW k \in DOMAIN pcopy' PROVE pcopy'[k][1] \in vpin' /\ pcopy'[k][1] # pcopy'[k][2]
    <3>1. CASE pcopy'[k] = <<new, old>>
          BY <1>1, <1>7, <3>1
    <3>2. CASE \E j \in DOMAIN pcopy : pcopy'[k] = pcopy[j]
          BY <1>1, <3>2 DEF Inv, CopyOK, CopyWellFormed
    <3> QED BY <1>13, <3>1, <3>2
  <2> QED BY <1>13, <2>1 DEF CopyOK, CopyWellFormed, OnceEach
<1>19. Held'
  <2>1. ASSUME NEW t \in Live', t \notin Dsts PROVE Copied'[ssaReg'[t]] = t
    <3>1. CASE t = s
          BY <1>7, <1>11, <1>13, <3>1
    <3>2. CASE t # s
      <4>1. t \in Live
            BY <1>11, <3>2
      <4>2. ssaReg'[t] = ssaReg[t] /\ ssaReg[t] # new /\ ssaReg[t] \in Reg /\ Copied[ssaReg[t]] = t
            BY <1>8, <1>11, <2>1, <4>1 DEF Inv, Held, TableTypes
      <4> QED BY <1>13, <4>2
    <3> QED BY <3>1, <3>2
  <2> QED BY <1>14, <2>1 DEF Held
<1>20. EvictedHeld'
       BY <1>1, <1>12, <1>14 DEF Inv, EvictedHeld
<1>21. VpinUsed' /\ SrcsKept'
       BY <1>1, <1>3, <1>11, <1>12, <1>14 DEF Inv, VpinUsed, SrcsKept
<1>22. Keeps
  <2>1. \A r \in vpin : Copied'[r] = Copied[r]
        BY <1>5, <1>13 DEF Inv, CopyTypes
  <2> QED BY <1>1, <1>11, <2>1 DEF Keeps
<1>23. SrcsCollected'
  <2>1. DoneSrcs' = DoneSrcs
        BY <1>1, <1>3 DEF DoneSrcs
  <2> QED BY <1>3, <1>22, <2>1, KeepsSrcs
<1>24. DstsPlaced' /\ DstsGiven'
  <2>1. ASSUME NEW e \in DOMAIN instr.dsts, dstReg[e] # None PROVE Placed(e)'
    <3>1. Placed(e)
          BY <1>3, <2>1 DEF Inv, DstsPlaced
    <3> QED BY <1>1, <1>22, <3>1, KeepsPlaced
  <2>2. ASSUME NEW e \in DOMAIN instr.dsts, dstReg[e] = None PROVE Comps(instr.dsts[e]) \cap Live' = {}
    <3>1. Comps(instr.dsts[e]) \cap Live = {} /\ Comps(instr.dsts[e]) \subseteq Dsts
          BY <1>3, <2>2 DEF Inv, DstsPlaced, Dsts, AllComps
    <3> QED BY <1>7, <1>11, <3>1
  <2>3. instr'.dsts = instr.dsts
        BY <1>1
  <2>4. DstsPlaced'
        BY <1>1, <1>3, <2>1, <2>2, <2>3 DEF DstsPlaced
  <2> QED BY <1>1, <1>3, <2>4 DEF Inv, DstsGiven
<1> QED BY <1>10, <1>14, <1>15, <1>16, <1>17, <1>18, <1>19, <1>20, <1>21, <1>23, <1>24 DEF Inv

\* A scalar destination takes a register that is not used.
LEMMA AssignScalarInv ==
    ASSUME Inv, pc = "scalar", NEW d \in DOMAIN instr.dsts, dstReg[d] = None, NEW reg \in Reg \ used, AssignScalar(d, reg)
    PROVE  Inv'
<1> DEFINE s == instr.dsts[d][1]
           m == One(s, reg)
<1>1. /\ Reassign({}, m) /\ dstReg' = [dstReg EXCEPT ![d] = reg]
      /\ vpin' = vpin /\ evicted' = evicted /\ pcopy' = pcopy
      /\ instr' = instr /\ mode' = mode /\ pc' = pc /\ n' = n /\ c' = c /\ tgt' = tgt
      /\ srcReg' = srcReg /\ val' = val
      BY DEF AssignScalar, vra
<1>2. mode \in {"easy", "mapped", "trivial", "general"}
  <2>1. mode \in {"easy", "mapped", "trivial", "general", "pinMove", "pinCopy"}
        BY DEF Inv, Places
  <2>2. mode \in {"pinMove", "pinCopy"} => d = 1 /\ dstReg[1] # None
        BY Operands DEF Inv, InstrOK, DstsGiven
  <2> QED BY <2>1, <2>2
<1>3. ~Planned /\ ~Planned' /\ ~Collecting /\ ~Collecting' /\ ~BeforeFree /\ ~BeforeFree'
      BY <1>1, <1>2 DEF BeforeFree, Planned, Collecting
<1>4. instr.dsts[d] \in Vector /\ DOMAIN instr.dsts[d] = {1} /\ Comps(instr.dsts[d]) = {s}
  <2>1. d \notin VecIdx(instr.dsts)
        BY <1>2 DEF Inv, DstsGiven
  <2>2. instr.dsts[d] \in Vector
        BY Operands DEF Inv
  <2>3. Len(instr.dsts[d]) \in Nat \ {0} /\ ~(Len(instr.dsts[d]) > 1) /\ DOMAIN instr.dsts[d] = 1 .. Len(instr.dsts[d])
        BY <2>1, <2>2, VectorFacts DEF VecIdx
  <2>4. \A k \in Nat \ {0} : ~(k > 1) => 1 .. k = {1}
        OBVIOUS
  <2>5. DOMAIN instr.dsts[d] = {1}
        BY <2>3, <2>4
  <2> QED BY <2>2, <2>5 DEF Comps
<1>5. s \in SSA /\ s \in Dsts /\ s \notin Live
  <2>1. s \in SSA /\ s \in Dsts
        BY <1>4, Operands, VectorFacts DEF Inv
  <2> QED BY <1>3, <1>4, <2>1 DEF Inv, DstsPlaced
<1> HIDE DEF s
<1>6. DOMAIN m = {s} /\ m[s] = reg /\ Image(m) = {reg}
      BY OneFacts
<1> HIDE DEF m
<1>7. \A t \in Live : ssaReg[t] \in used /\ ssaReg[t] # reg /\ t # s
      BY <1>5 DEF Inv, Tables
<1>8. Assignable({}, m)
      BY <1>5, <1>6, <1>7 DEF Assignable
<1>9. TableTypes' /\ Tables'
      BY <1>1, <1>8, ReassignTables DEF Inv
<1>10. /\ Live' = Live \cup {s} /\ ssaReg'[s] = reg
       /\ \A t \in Live : t \in Live' /\ ssaReg'[t] = ssaReg[t]
       /\ used' = used \cup {reg} /\ pinned' = pinned
  <2>1. Effect({}, m)
        BY <1>1, <1>8, ReassignEffect DEF Inv
  <2> QED BY <1>6, <2>1 DEF Effect
<1>11. Srcs' = Srcs /\ Dsts' = Dsts /\ Copied' = Copied /\ InstrOK'
       BY <1>1, SameInstr, SameCopy DEF Inv
<1>12. OperandTypes'
  <2>1. reg \in Int
        BY RegNat
  <2> QED BY <1>1, <2>1 DEF Inv, OperandTypes
<1>13. CopyTypes' /\ Places' /\ AtIdle' /\ NoneLeft' /\ VpinOwners' /\ PinsTogether' /\ MoveOK' /\ Plans'
       BY <1>1, <1>2, <1>3 DEF Inv, CopyTypes, Places, AtIdle, NoneLeft, VpinOwners, PinsTogether, MoveOK,
                   Plans
<1>14. DOMAIN evicted' = {} /\ (DOMAIN evicted \cap Live = {})' /\ PinsKnown' /\ VpinUsed' /\ SrcsKept' /\ CopyOK'
  <2>1. DOMAIN evicted' = {}
        BY <1>1 DEF Inv, NoneLeft
  <2> QED BY <1>1, <1>3, <1>10, <2>1 DEF Inv, PinsKnown, VpinUsed, SrcsKept, CopyOK, CopyWellFormed
<1>15. Held' /\ EvictedHeld'
  <2>1. Held'
        BY <1>5, <1>10, <1>11 DEF Inv, Held
  <2> QED BY <1>14, <2>1 DEF EvictedHeld
<1>16. Keeps
       BY <1>1, <1>10, <1>11 DEF Keeps
<1>17. SrcsCollected'
  <2>1. DoneSrcs' = DoneSrcs
        BY <1>1, <1>3 DEF DoneSrcs
  <2> QED BY <1>3, <1>16, <2>1, KeepsSrcs
<1>18. DstsPlaced'
  <2>1. ASSUME NEW e \in DOMAIN instr.dsts, e # d, dstReg[e] # None PROVE dstReg'[e] = dstReg[e] /\ Placed(e)'
    <3>1. dstReg'[e] = dstReg[e] /\ Placed(e)
          BY <1>1, <1>3, <2>1 DEF Inv, OperandTypes, DstsPlaced
    <3> QED BY <1>1, <1>16, <3>1, KeepsPlaced
  <2>2. ASSUME NEW e \in DOMAIN instr.dsts, e # d, dstReg[e] = None
        PROVE  dstReg'[e] = None /\ Comps(instr.dsts[e]) \cap Live' = {}
    <3>1. dstReg'[e] = None /\ Comps(instr.dsts[e]) \cap Live = {}
          BY <1>1, <1>3, <2>2 DEF Inv, OperandTypes, DstsPlaced
    <3>2. s \notin Comps(instr.dsts[e])
          BY <1>4, <2>2 DEF Inv, InstrOK
    <3> QED BY <1>10, <3>1, <3>2
  <2>3. dstReg'[d] # None /\ Placed(d)'
    <3>1. dstReg'[d] = reg /\ instr' = instr
          BY <1>1 DEF Inv, OperandTypes
    <3>2. reg # None /\ reg + 1 - 1 = reg
          BY RegNat
    <3>3. reg \notin pinned'
          BY <1>10 DEF Inv, Tables
    <3>4. s \in Live' /\ ssaReg'[s] = reg + 1 - 1
          BY <1>10, <3>2
    <3>5. instr.dsts[d][1] = s
          BY DEF s
    <3> QED BY <1>1, <1>4, <3>1, <3>2, <3>3, <3>4, <3>5 DEF Placed
  <2>4. instr'.dsts = instr.dsts
        BY <1>1
  <2> QED BY <1>3, <2>1, <2>2, <2>3, <2>4 DEF DstsPlaced
<1>19. DstsGiven'
  <2>1. \A e \in VecIdx(instr.dsts) : dstReg[e] # None /\ e # d /\ e \in DOMAIN instr.dsts
        BY <1>2 DEF Inv, DstsGiven, VecIdx
  <2>2. \A e \in VecIdx(instr.dsts) : dstReg'[e] # None
        BY <1>1, <2>1 DEF Inv, OperandTypes
  <2> QED BY <1>1, <1>2, <1>3, <2>2 DEF DstsGiven
<1> QED BY <1>9, <1>11, <1>12, <1>13, <1>14, <1>15, <1>17, <1>18, <1>19 DEF Inv

\* alloc_scalar keeps the invariant.
LEMMA AllocScalarInv ==
    ASSUME Inv, AllocScalar
    PROVE  Inv'
<1>1. pc = "scalar" /\ NextScalarDst # {}
      BY DEF AllocScalar
<1>2. PICK reg \in Reg \ used : AssignScalar(Minimum(NextScalarDst), reg)
      BY DEF AllocScalar
<1>3. NextScalarDst \in SUBSET Nat
      BY Operands DEF Inv, NextScalarDst
<1>4. Minimum(NextScalarDst) \in NextScalarDst
      BY <1>1, <1>3, SmallestNumber
<1>5. Minimum(NextScalarDst) \in DOMAIN instr.dsts /\ dstReg[Minimum(NextScalarDst)] = None
      BY <1>4 DEF NextScalarDst
<1> QED BY <1>1, <1>2, <1>5, AssignScalarInv

\* try_coalesce keeps the invariant.
LEMMA CoalesceInv ==
    ASSUME Inv, Coalesce
    PROVE  Inv'
<1>1. pc = "scalar" /\ NextScalarDst # {} /\ instr.op = "copy" /\ srcReg[1] \notin used /\ AssignScalar(1, srcReg[1])
      BY DEF Coalesce, CanCoalesce
<1>2. DOMAIN instr.srcs = {1} /\ DOMAIN instr.dsts = {1} /\ mode = "easy"
      BY <1>1, Operands DEF Inv, InstrOK
<1>3. dstReg[1] = None
      BY <1>1, <1>2 DEF NextScalarDst
<1>4. srcReg[1] \in Reg
  <2>1. 1 \in DoneSrcs
        BY <1>1, <1>2 DEF DoneSrcs, Collecting
  <2>2. Collected(1)
        BY <2>1 DEF Inv, SrcsCollected
  <2>3. 1 \in DOMAIN instr.srcs[1]
        BY <1>2, Operands, VectorFacts DEF Inv
  <2>4. srcReg[1] + 1 - 1 \in vpin
        BY <2>2, <2>3 DEF Collected
  <2>5. srcReg[1] \in Int
        BY <1>2 DEF Inv, OperandTypes
  <2>6. srcReg[1] + 1 - 1 = srcReg[1]
        BY <2>5
  <2> QED BY <2>4, <2>6 DEF Inv, CopyTypes
<1> QED BY <1>1, <1>2, <1>3, <1>4, AssignScalarInv

\* Pinning a dying vector in place keeps the invariant.
LEMMA PinRenameInv ==
    ASSUME Inv, PinRename
    PROVE  Inv'
<1> DEFINE src == instr.srcs[1]
           dst == instr.dsts[1]
           reg == srcReg[1]
           gone == Comps(src)
           m == VecMap(dst, reg)
<1>1. /\ pc = "rename" /\ Reassign(gone, m) /\ dstReg' = [dstReg EXCEPT ![1] = reg] /\ pc' = "scalar"
      /\ vpin' = vpin /\ evicted' = evicted /\ pcopy' = pcopy
      /\ instr' = instr /\ mode' = mode /\ n' = n /\ c' = c /\ tgt' = tgt
      /\ srcReg' = srcReg /\ val' = val
      BY DEF PinRename, vra
<1>2. mode = "pinMove"
      BY <1>1 DEF Inv, Places
<1>3. ~Planned /\ ~Planned' /\ ~Collecting /\ ~Collecting' /\ BeforeFree /\ ~BeforeFree'
      BY <1>1, <1>2 DEF BeforeFree, Planned, Collecting
<1>4. DOMAIN instr.srcs = {1} /\ DOMAIN instr.dsts = {1} /\ src \in Vector /\ dst \in Vector /\ DOMAIN dst = DOMAIN src
  <2>1. DOMAIN instr.srcs = {1} /\ DOMAIN instr.dsts = {1} /\ Len(src) = Len(dst)
        BY <1>2, Operands DEF Inv, InstrOK
  <2>2. src \in Vector /\ dst \in Vector
        BY <2>1, Operands DEF Inv
  <2> QED BY <2>1, <2>2, VectorFacts
<1>5. DoneSrcs' = DoneSrcs /\ 1 \in DoneSrcs
      BY <1>1, <1>2, <1>3, <1>4 DEF DoneSrcs
<1>6. reg \in Int /\ \A k \in DOMAIN src : src[k] \in Live /\ ssaReg[src[k]] = reg + k - 1 /\ reg + k - 1 \in vpin
  <2>1. Collected(1)
        BY <1>5 DEF Inv, SrcsCollected
  <2>2. reg \in Int
        BY <1>4 DEF Inv, OperandTypes
  <2> QED BY <1>3, <2>1, <2>2 DEF Collected
<1>7. gone \subseteq Live /\ gone \subseteq Srcs /\ Comps(dst) \subseteq Dsts /\ gone \cap Dsts = {} /\ Dsts \subseteq Comps(dst)
  <2>1. gone \subseteq Live
        BY <1>6 DEF Comps
  <2>2. gone \subseteq Srcs /\ Comps(dst) \subseteq Dsts /\ Dsts \subseteq Comps(dst)
        BY <1>4 DEF Srcs, Dsts, AllComps
  <2> QED BY <2>1, <2>2 DEF Inv, InstrOK
<1>8. Comps(dst) \cap Live = {} /\ Comps(dst) \subseteq SSA
  <2>1. dstReg[1] = None
        BY <1>1, <1>2 DEF Inv, DstsGiven
  <2> QED BY <1>3, <1>4, <2>1, VectorFacts DEF Inv, DstsPlaced
<1>9. \A k \in DOMAIN dst : src[k] \in gone
      BY <1>4, VectorFacts
<1>10. \A s \in Comps(dst) : \E k \in DOMAIN dst : dst[k] = s
      BY <1>4, VectorFacts
<1> HIDE DEF src, dst, reg
<1>11. /\ DOMAIN m = Comps(dst) /\ \A k \in DOMAIN dst : m[dst[k]] = reg + k - 1
       /\ \A s, t \in Comps(dst) : m[s] = m[t] => s = t
       BY <1>4, <1>6, VecMapFacts
<1> HIDE DEF m
<1>12. ASSUME NEW s \in Comps(dst) PROVE m[s] \in Reg /\ \E t \in gone : ssaReg[t] = m[s]
  <2>1. PICK k \in DOMAIN dst : dst[k] = s
        BY <1>10
  <2>2. m[s] = ssaReg[src[k]] /\ src[k] \in gone /\ src[k] \in Live
        BY <1>4, <1>6, <1>9, <1>11, <2>1
  <2> QED BY <2>2 DEF Inv, TableTypes
<1> HIDE DEF gone
<1>13. \A s, t \in Live : ssaReg[s] = ssaReg[t] => s = t
       BY OneEach DEF Inv
<1>14. Assignable(gone, m)
  <2>1. ASSUME NEW s \in Live \ gone, NEW t \in DOMAIN m PROVE ssaReg[s] # m[t]
    <3>1. PICK u \in gone : ssaReg[u] = m[t]
          BY <1>11, <1>12
    <3> QED BY <1>7, <1>13, <3>1
  <2>2. \A s \in DOMAIN m : m[s] \in Reg /\ s \notin Live /\ s \in SSA
        BY <1>8, <1>11, <1>12
  <2> QED BY <1>7, <1>11, <2>1, <2>2 DEF Assignable
<1>15. TableTypes' /\ Tables'
       BY <1>1, <1>14, ReassignTables DEF Inv
<1>16. /\ Live' = (Live \ gone) \cup Comps(dst)
       /\ \A s \in Live \ gone : s \in Live' /\ ssaReg'[s] = ssaReg[s]
       /\ \A s \in Comps(dst) : s \in Live' /\ ssaReg'[s] = m[s]
       /\ pinned' = pinned \ {ssaReg[t] : t \in gone}
  <2>1. Effect(gone, m)
        BY <1>1, <1>14, ReassignEffect DEF Inv
  <2> QED BY <1>11, <2>1 DEF Effect
<1>17. Srcs' = Srcs /\ Dsts' = Dsts /\ Copied' = Copied /\ InstrOK'
       BY <1>1, SameInstr, SameCopy DEF Inv
<1>18. OperandTypes'
       BY <1>1, <1>6 DEF Inv, OperandTypes
<1>19. CopyTypes' /\ Places' /\ AtIdle' /\ NoneLeft' /\ VpinOwners' /\ PinsTogether' /\ MoveOK' /\ Plans'
       BY <1>1, <1>2, <1>3 DEF Inv, CopyTypes, Places, AtIdle, NoneLeft, VpinOwners, PinsTogether, MoveOK,
                   Plans
<1>20. DOMAIN evicted' = {} /\ (DOMAIN evicted \cap Live = {})' /\ PinsKnown' /\ VpinUsed' /\ SrcsKept' /\ CopyOK'
  <2>1. DOMAIN evicted' = {}
        BY <1>1 DEF Inv, NoneLeft
  <2> QED BY <1>1, <1>3, <1>16, <2>1 DEF Inv, PinsKnown, VpinUsed, SrcsKept, CopyOK, CopyWellFormed
<1>21. Held' /\ EvictedHeld'
  <2>1. ASSUME NEW t \in Live', t \notin Dsts PROVE t \in Live /\ ssaReg'[t] = ssaReg[t]
        BY <1>7, <1>16, <2>1
  <2>2. Held'
        BY <1>17, <2>1 DEF Inv, Held
  <2> QED BY <1>20, <2>2 DEF EvictedHeld
<1>22. SrcsCollected'
  <2>1. \A k : Collected(k) => Collected(k)'
        BY <1>1, <1>3, <1>17 DEF Collected
  <2> QED BY <1>1, <1>5, <2>1 DEF Inv, SrcsCollected
<1>23. dstReg'[1] = reg /\ reg # None
  <2>1. 1 \in DOMAIN src
        BY <1>4, VectorFacts
  <2>2. reg + 1 - 1 \in Reg
        BY <1>6, <2>1 DEF Inv, CopyTypes
  <2>3. reg + 1 - 1 = reg
        BY <1>6
  <2> QED BY <1>1, <1>4, <2>2, <2>3, RegNat DEF Inv, OperandTypes
<1>24. DstsPlaced'
  <2>1. ASSUME NEW k \in DOMAIN dst
        PROVE  /\ dst[k] \in Live' /\ ssaReg'[dst[k]] = reg + k - 1
               /\ reg + k - 1 \notin pinned'
    <3>1. dst[k] \in Comps(dst)
          BY <1>4, VectorFacts
    <3>2. reg + k - 1 = ssaReg[src[k]] /\ src[k] \in gone
          BY <1>4, <1>6, <1>9
    <3> QED BY <1>11, <1>16, <3>1, <3>2
  <2>2. instr'.dsts = instr.dsts /\ instr.dsts[1] = dst
        BY <1>1 DEF dst
  <2>3. ASSUME NEW e, e = 1 PROVE Placed(e)'
        BY <1>1, <1>23, <2>1, <2>2, <2>3 DEF Placed
  <2> QED BY <1>3, <1>4, <1>23, <2>2, <2>3 DEF DstsPlaced
<1>25. DstsGiven'
       BY <1>1, <1>2, <1>3, <1>23 DEF DstsGiven
<1> QED BY <1>15, <1>17, <1>18, <1>19, <1>20, <1>21, <1>22, <1>24, <1>25 DEF Inv

\* The places of all vector destinations.
LEMMA DstMapFacts ==
    ASSUME OperandTypes, InstrOK,
           \A d, e \in VecIdx(instr.dsts) :
              d # e => RangeOf(dstReg[d], Len(instr.dsts[d])) \cap RangeOf(dstReg[e], Len(instr.dsts[e])) = {}
    PROVE  LET m == DstMap(instr.dsts, dstReg)
           IN  /\ \A s : s \in DOMAIN m <=> \E d \in VecIdx(instr.dsts) : s \in Comps(instr.dsts[d])
               /\ \A d \in VecIdx(instr.dsts) : \A k \in DOMAIN instr.dsts[d] :
                     m[instr.dsts[d][k]] = dstReg[d] + k - 1
               /\ \A s, t \in DOMAIN m : m[s] = m[t] => s = t
               /\ \A s \in DOMAIN m : \E d \in VecIdx(instr.dsts) :
                     s \in Comps(instr.dsts[d]) /\ m[s] \in RangeOf(dstReg[d], Len(instr.dsts[d]))
<1> DEFINE idx == VecIdx(instr.dsts)
           owner(s) == CHOOSE d \in idx : s \in Comps(instr.dsts[d])
           m == DstMap(instr.dsts, dstReg)
<1>1. m = [s \in UNION {Comps(instr.dsts[d]) : d \in idx} |->
              VecMap(instr.dsts[owner(s)], dstReg[owner(s)])[s]]
      BY DEF DstMap
<1>2. \A s : s \in DOMAIN m <=> \E d \in idx : s \in Comps(instr.dsts[d])
      BY <1>1
<1>3. ASSUME NEW d \in idx
      PROVE  d \in DOMAIN instr.dsts /\ instr.dsts[d] \in Vector /\ dstReg[d] \in Int
      BY Operands DEF VecIdx, OperandTypes
<1>4. ASSUME NEW d \in idx, NEW s \in Comps(instr.dsts[d])
      PROVE  m[s] = VecMap(instr.dsts[d], dstReg[d])[s]
  <2>1. \A e \in idx : s \in Comps(instr.dsts[e]) => e = d
        BY <1>3, <1>4 DEF InstrOK
  <2>2. owner(s) = d
        BY <1>4, <2>1
  <2>3. s \in UNION {Comps(instr.dsts[e]) : e \in idx}
        BY <1>4
  <2> QED BY <1>1, <2>2, <2>3
<1> HIDE DEF m, idx
<1>5. ASSUME NEW d \in idx, NEW k \in DOMAIN instr.dsts[d]
      PROVE  m[instr.dsts[d][k]] = dstReg[d] + k - 1
  <2>1. instr.dsts[d][k] \in Comps(instr.dsts[d])
        BY <1>3, VectorFacts
  <2> QED BY <1>3, <1>4, <2>1, VecMapFacts
<1>6. ASSUME NEW d \in idx, NEW s \in Comps(instr.dsts[d])
      PROVE  m[s] \in RangeOf(dstReg[d], Len(instr.dsts[d]))
  <2>1. PICK k \in DOMAIN instr.dsts[d] : instr.dsts[d][k] = s
        BY <1>3, VectorFacts
  <2>2. m[s] = dstReg[d] + k - 1
        BY <1>5, <2>1
  <2> QED BY <1>3, <2>2, RangeOfVec
<1>7. ASSUME NEW s \in DOMAIN m, NEW t \in DOMAIN m, m[s] = m[t] PROVE s = t
  <2>1. PICK d \in idx : s \in Comps(instr.dsts[d])
        BY <1>2
  <2>2. PICK e \in idx : t \in Comps(instr.dsts[e])
        BY <1>2
  <2>3. m[s] \in RangeOf(dstReg[d], Len(instr.dsts[d])) /\ m[s] \in RangeOf(dstReg[e], Len(instr.dsts[e]))
        BY <1>6, <1>7, <2>1, <2>2
  <2>4. d = e
        BY <2>3 DEF idx
  <2>5. VecMap(instr.dsts[d], dstReg[d])[s] = VecMap(instr.dsts[d], dstReg[d])[t]
        BY <1>4, <1>7, <2>1, <2>2, <2>4
  <2> QED BY <1>3, <2>1, <2>2, <2>4, <2>5, VecMapFacts
<1>8. \A s \in DOMAIN m : \E d \in idx :
                     s \in Comps(instr.dsts[d]) /\ m[s] \in RangeOf(dstReg[d], Len(instr.dsts[d]))
      BY <1>2, <1>6
<1> QED BY <1>2, <1>5, <1>7, <1>8 DEF m, idx

\* Assigning the chosen ranges to the vector destinations keeps the invariant.
LEMMA AssignDstsInv ==
    ASSUME Inv, AssignDsts
    PROVE  Inv'
<1> DEFINE idx == VecIdx(instr.dsts)
           m == DstMap(instr.dsts, dstReg)
<1>1. /\ pc = "assign" /\ Reassign({}, m) /\ vpin' = vpin \cup Image(m)
      /\ pc' = (IF mode = "trivial" THEN "collect" ELSE "finish")
      /\ evicted' = evicted /\ pcopy' = pcopy
      /\ instr' = instr /\ mode' = mode /\ n' = n /\ c' = c /\ tgt' = tgt
      /\ srcReg' = srcReg /\ dstReg' = dstReg /\ val' = val
      BY DEF AssignDsts, operands
<1>2. mode \in {"mapped", "trivial"}
      BY <1>1 DEF Inv, Places
<1>3. /\ Planned /\ ~Planned' /\ (Collecting <=> Collecting') /\ (BeforeFree <=> BeforeFree')
      /\ (BeforeFree <=> mode = "trivial") /\ (Collecting <=> mode = "trivial")
      BY <1>1, <1>2 DEF BeforeFree, Planned, Collecting
<1>4. /\ \A d \in DOMAIN instr.dsts :
            IF d \notin idx THEN dstReg[d] = None
            ELSE \A r \in RangeOf(dstReg[d], Len(instr.dsts[d])) : r \in Reg /\ r \notin used
      /\ \A d, e \in idx :
            d # e => RangeOf(dstReg[d], Len(instr.dsts[d])) \cap RangeOf(dstReg[e], Len(instr.dsts[e])) = {}
      BY <1>1, <1>3 DEF Inv, Plans
<1>5. \A d \in idx : d \in DOMAIN instr.dsts /\ dstReg[d] # None
      BY <1>1 DEF Inv, DstsGiven, VecIdx
<1>6. /\ \A s : s \in DOMAIN m <=> \E d \in idx : s \in Comps(instr.dsts[d])
      /\ \A d \in idx : \A k \in DOMAIN instr.dsts[d] : m[instr.dsts[d][k]] = dstReg[d] + k - 1
      /\ \A s, t \in DOMAIN m : m[s] = m[t] => s = t
      /\ \A s \in DOMAIN m : \E d \in idx :
            s \in Comps(instr.dsts[d]) /\ m[s] \in RangeOf(dstReg[d], Len(instr.dsts[d]))
      BY <1>4, DstMapFacts DEF Inv
<1> HIDE DEF m, idx
<1>7. \A s \in DOMAIN m : m[s] \in Reg /\ m[s] \notin used
      BY <1>4, <1>5, <1>6
<1>8. \A d \in DOMAIN instr.dsts : Comps(instr.dsts[d]) \cap Live = {} /\ Comps(instr.dsts[d]) \subseteq Dsts
      BY <1>3 DEF Inv, DstsPlaced, Dsts, AllComps
<1>9. \A s \in DOMAIN m : s \notin Live /\ s \in Dsts
      BY <1>5, <1>6, <1>8
<1>10. \A s \in DOMAIN m : s \in SSA
      BY <1>5, <1>6, Operands, VectorFacts DEF Inv
<1>11. Assignable({}, m)
  <2>1. \A s \in Live : ssaReg[s] \in used
        BY DEF Inv, Tables
  <2> QED BY <1>6, <1>7, <1>9, <1>10, <2>1 DEF Assignable
<1>12. TableTypes' /\ Tables'
       BY <1>1, <1>11, ReassignTables DEF Inv
<1>13. /\ Live' = Live \cup DOMAIN m /\ used' = used \cup Image(m) /\ pinned' = pinned
       /\ \A t \in Live : t \in Live' /\ ssaReg'[t] = ssaReg[t]
       /\ \A t \in DOMAIN m : t \in Live' /\ ssaReg'[t] = m[t]
  <2>1. Effect({}, m)
        BY <1>1, <1>11, ReassignEffect DEF Inv
  <2> QED BY <2>1 DEF Effect
<1>14. Srcs' = Srcs /\ Dsts' = Dsts /\ Copied' = Copied /\ InstrOK' /\ Srcs \cap Dsts = {}
       BY <1>1, SameInstr, SameCopy DEF Inv, InstrOK
<1>15. CopyTypes'
       BY <1>1, <1>7 DEF Inv, CopyTypes, Image
<1>16. OperandTypes' /\ Places' /\ AtIdle' /\ NoneLeft' /\ MoveOK' /\ Plans'
       BY <1>1, <1>2, <1>3 DEF Inv, OperandTypes, Places, AtIdle, NoneLeft, MoveOK, Plans
<1>17. (DOMAIN evicted \cap Live = {})' /\ PinsKnown' /\ VpinUsed' /\ SrcsKept' /\ CopyOK'
  <2>1. \A t \in DOMAIN evicted : t \notin Dsts
        BY DEF Inv, EvictedHeld
  <2>2. (DOMAIN evicted \cap Live = {})'
        BY <1>1, <1>9, <1>13, <2>1 DEF Inv
  <2>3. CopyOK' /\ PinsKnown'
        BY <1>1, <1>13 DEF Inv, CopyOK, CopyWellFormed, PinsKnown
  <2> QED BY <1>1, <1>3, <1>13, <1>14, <2>2, <2>3 DEF Inv, VpinUsed, SrcsKept
<1>18. Held' /\ EvictedHeld'
  <2>1. Held'
        BY <1>9, <1>13, <1>14 DEF Inv, Held
  <2> QED BY <1>1, <1>14, <2>1 DEF Inv, EvictedHeld
<1>19. Keeps
       BY <1>1, <1>13, <1>14 DEF Keeps
<1>20. DoneSrcs' = DoneSrcs /\ Settled' = Settled
  <2>1. DoneSrcs' = DoneSrcs
        BY <1>1, <1>3 DEF DoneSrcs
  <2> QED BY <1>1, <2>1 DEF Settled
<1>21. SrcsCollected'
       BY <1>3, <1>19, <1>20, KeepsSrcs
<1>22. VpinOwners'
  <2>1. ASSUME Collecting, NEW s \in Live', ssaReg'[s] \in vpin'
        PROVE  s \in Dsts \/ ssaReg'[s] \in pinned \/ s \in Settled
    <3>1. CASE s \in DOMAIN m
          BY <1>9, <3>1
    <3>2. CASE s \in Live
      <4>1. ssaReg'[s] = ssaReg[s] /\ ssaReg[s] \in used
            BY <1>13, <3>2 DEF Inv, Tables
      <4>2. ssaReg[s] \in vpin
            BY <1>1, <1>7, <2>1, <4>1 DEF Image
      <4> QED BY <2>1, <3>2, <4>1, <4>2 DEF Inv, VpinOwners
    <3> QED BY <1>13, <3>1, <3>2
  <2> QED BY <1>3, <1>13, <1>14, <1>20, <2>1 DEF VpinOwners
<1>23. PinsTogether'
  <2>1. ASSUME Collecting, NEW k \in DOMAIN instr.srcs, NEW s \in Comps(instr.srcs[k]), s \in Live', ssaReg'[s] \in pinned
        PROVE  TryGetVecReg(instr.srcs[k])' # None /\ \A t \in Comps(instr.srcs[k]) : ssaReg'[t] \in pinned
    <3>1. s \in Srcs
          BY <2>1 DEF Srcs, AllComps
    <3>2. s \in Live /\ ssaReg[s] \in pinned
          BY <1>9, <1>13, <1>14, <2>1, <3>1
    <3>3. TryGetVecReg(instr.srcs[k]) # None /\ \A t \in Comps(instr.srcs[k]) : ssaReg[t] \in pinned
          BY <2>1, <3>2 DEF Inv, PinsTogether
    <3>4. Comps(instr.srcs[k]) \subseteq Live
          BY <3>3 DEF TryGetVecReg
    <3>5. instr.srcs[k] \in Vector
          BY Operands DEF Inv
    <3>6. \A j \in DOMAIN instr.srcs[k] : ssaReg'[instr.srcs[k][j]] = ssaReg[instr.srcs[k][j]]
          BY <1>13, <3>4, <3>5, VectorFacts
    <3>7. 1 \in DOMAIN instr.srcs[k]
          BY <3>5, VectorFacts
    <3>8. TryGetVecReg(instr.srcs[k])' = TryGetVecReg(instr.srcs[k])
      <4>1. Comps(instr.srcs[k]) \subseteq Live'
            BY <1>13, <3>4
      <4> QED BY <1>1, <3>4, <3>6, <3>7, <4>1 DEF TryGetVecReg
    <3> QED BY <1>13, <3>3, <3>4, <3>8
  <2>2. instr'.srcs = instr.srcs
        BY <1>1
  <2> QED BY <1>3, <1>13, <2>1, <2>2 DEF PinsTogether
<1>24. DstsPlaced'
  <2>1. ASSUME NEW d \in idx PROVE Placed(d)'
    <3>1. ASSUME NEW k \in DOMAIN instr.dsts[d]
          PROVE  /\ instr.dsts[d][k] \in Live' /\ ssaReg'[instr.dsts[d][k]] = dstReg[d] + k - 1
                 /\ dstReg[d] + k - 1 \in vpin' /\ dstReg[d] + k - 1 \notin pinned'
      <4>1. instr.dsts[d][k] \in DOMAIN m
            BY <1>5, <1>6, Operands, VectorFacts DEF Inv
      <4>2. m[instr.dsts[d][k]] = dstReg[d] + k - 1
            BY <1>6
      <4>3. m[instr.dsts[d][k]] \notin pinned
            BY <1>7, <4>1 DEF Inv, Tables
      <4> QED BY <1>1, <1>13, <4>1, <4>2, <4>3 DEF Image
    <3> QED BY <1>1, <3>1 DEF Placed
  <2>2. ASSUME NEW d \in DOMAIN instr.dsts, d \notin idx PROVE dstReg[d] = None /\ Comps(instr.dsts[d]) \cap Live' = {}
    <3>1. \A e \in idx : Comps(instr.dsts[d]) \cap Comps(instr.dsts[e]) = {}
          BY <1>5, <2>2 DEF Inv, InstrOK
    <3>2. Comps(instr.dsts[d]) \cap DOMAIN m = {}
          BY <1>6, <3>1
    <3> QED BY <1>4, <1>8, <1>13, <2>2, <3>2
  <2>3. instr'.dsts = instr.dsts
        BY <1>1
  <2> QED BY <1>1, <1>3, <1>5, <2>1, <2>2, <2>3 DEF DstsPlaced
<1>25. DstsGiven'
       BY <1>1, <1>2, <1>3, <1>5 DEF DstsGiven, idx
<1> QED BY <1>12, <1>14, <1>15, <1>16, <1>17, <1>18, <1>21, <1>22, <1>23, <1>24, <1>25 DEF Inv

----------------------------------------------------------------------------
(* Between instructions                                                     *)

\* All that has to be seen to between two instructions.
Idle ==
    /\ TableTypes /\ Tables
    /\ pc = "idle" /\ mode = "easy" /\ n = 1 /\ c = 0 /\ tgt = None
    /\ vpin = {} /\ evicted = EmptyFn /\ pcopy = << >> /\ instr = NoInstr
    /\ srcReg = << >> /\ dstReg = << >>
    /\ val \in [Reg -> SSA \cup {Junk}] /\ \A s \in Live : val[ssaReg[s]] = s

\* Between instructions the invariant says little more than the properties.
LEMMA IdleInv == Idle => Inv
<1> SUFFICES ASSUME Idle PROVE Inv
    OBVIOUS
<1>1. /\ TableTypes /\ Tables
      /\ pc = "idle" /\ mode = "easy" /\ n = 1 /\ c = 0 /\ tgt = None
      /\ vpin = {} /\ evicted = EmptyFn /\ pcopy = << >> /\ instr = NoInstr
      /\ srcReg = << >> /\ dstReg = << >>
      /\ val \in [Reg -> SSA \cup {Junk}] /\ \A s \in Live : val[ssaReg[s]] = s
      BY DEF Idle
<1>2. instr.srcs = << >> /\ instr.dsts = << >> /\ instr.killed = {} /\ instr.op = "none" /\ DOMAIN << >> = {}
      BY <1>1 DEF NoInstr
<1>3. Srcs = {} /\ Dsts = {} /\ VecIdx(instr.dsts) = {} /\ DOMAIN evicted = {}
      BY <1>1, <1>2 DEF Srcs, Dsts, AllComps, VecIdx, EmptyFn
<1>4. ~Planned /\ ~Collecting /\ ~BeforeFree
      BY <1>1 DEF Planned, Collecting, BeforeFree
<1>5. Copied = val
      BY <1>1, CopyEmpty DEF Copied
<1>6. CopyTypes
  <2>1. evicted \in [DOMAIN evicted -> Reg]
        BY <1>1, <1>3 DEF EmptyFn
  <2>2. << >> \in Seq(Reg \X Reg)
        BY EmptySeq
  <2> QED BY <1>1, <1>3, <2>1, <2>2 DEF CopyTypes
<1>7. OperandTypes
  <2>1. << >> \in Seq(Vector)
        BY EmptySeq
  <2>2. << >> \in [DOMAIN << >> -> Int]
        OBVIOUS
  <2> QED BY <1>1, <1>2, <2>1, <2>2 DEF OperandTypes, None
<1>8. InstrOK
      BY <1>1, <1>2, <1>3 DEF InstrOK, LegalSrcs, DstsMapToKilled
<1>9. Places /\ AtIdle /\ PinsKnown /\ VpinUsed /\ SrcsKept /\ NoneLeft
      BY <1>1, <1>4 DEF Places, AtIdle, PinsKnown, VpinUsed, SrcsKept, NoneLeft
<1>10. Held /\ EvictedHeld /\ CopyOK
      BY <1>1, <1>2, <1>3, <1>5 DEF Held, EvictedHeld, CopyOK, CopyWellFormed
<1>11. SrcsCollected /\ VpinOwners /\ PinsTogether /\ MoveOK /\ DstsPlaced /\ Plans /\ DstsGiven
      BY <1>1, <1>2, <1>3, <1>4 DEF SrcsCollected, DoneSrcs, VpinOwners, PinsTogether, MoveOK, DstsPlaced, Plans, DstsGiven
<1> QED BY <1>1, <1>3, <1>6, <1>7, <1>8, <1>9, <1>10, <1>11 DEF Inv

\* The same of the next state.
LEMMA IdleInvNext == Idle' => Inv'
BY IdleInv, PTL

\* The live-in values satisfy the invariant.
LEMMA InitInv == Init => Inv
<1> SUFFICES ASSUME Init PROVE Idle
    BY IdleInv
<1>1. /\ used \subseteq Reg /\ pinned \subseteq used
      /\ ssaReg = [s \in {r + 1 : r \in used} |-> s - 1]
      /\ regSsa = [r \in Reg |-> IF r \in used THEN r + 1 ELSE Junk]
      /\ val = [r \in Reg |-> IF r \in used THEN r + 1 ELSE Junk]
      BY DEF Init
<1>2. /\ pc = "idle" /\ mode = "easy" /\ n = 1 /\ c = 0 /\ tgt = None
      /\ vpin = {} /\ evicted = EmptyFn /\ pcopy = << >> /\ instr = NoInstr
      /\ srcReg = << >> /\ dstReg = << >>
      BY DEF Init
<1>3. \A r \in Reg : r \in Nat /\ r + 1 \in SSA /\ (r + 1) - 1 = r
      BY SizeAssumption DEF Reg, SSA
<1>4. Live = {r + 1 : r \in used}
      BY <1>1 DEF Live
<1>5. \A s \in Live : s \in SSA /\ ssaReg[s] \in used /\ ssaReg[s] + 1 = s
      BY <1>1, <1>3, <1>4
<1>6. \A r \in used : r + 1 \in Live /\ ssaReg[r + 1] = r
      BY <1>1, <1>3, <1>4
<1>7. \A r \in Reg : (IF r \in used THEN r + 1 ELSE Junk) \in SSA \cup {Junk}
      BY <1>3
<1>8. regSsa \in [Reg -> SSA \cup {Junk}] /\ val \in [Reg -> SSA \cup {Junk}]
      BY <1>1, <1>7
<1>9. \A s \in Live : regSsa[ssaReg[s]] = s /\ val[ssaReg[s]] = s
      BY <1>1, <1>5
<1>10. ssaReg \in [Live -> Reg]
      BY <1>1, <1>4, <1>5
<1>11. TableTypes /\ Tables
  <2>1. \A r : r \in used <=> \E s \in Live : ssaReg[s] = r
        BY <1>5, <1>6
  <2>2. used = {ssaReg[s] : s \in Live}
        BY <2>1
  <2>3. Live \subseteq SSA
        BY <1>5
  <2> QED BY <1>1, <1>8, <1>9, <1>10, <2>2, <2>3 DEF TableTypes, Tables
<1> QED BY <1>2, <1>8, <1>9, <1>11 DEF Idle

\* The machine state after the instruction.
LEMMA EmitInstrInv ==
    ASSUME Inv, EmitInstr
    PROVE  Inv'
<1> SUFFICES Idle'
    BY IdleInvNext
<1>1. /\ pc = "scalar" /\ NextScalarDst = {} /\ NextInstr
      /\ val' = LiveOnly(AfterInstr, DOMAIN ssaReg')
      BY DEF EmitInstr
<1>2. PICK dead \in SUBSET AllComps(instr.dsts) :
        /\ ssaReg' = Without(ssaReg, dead) /\ used' = used \ {ssaReg[s] : s \in dead} /\ regSsa' = regSsa
        /\ pinned' = (IF instr.op = "pin" THEN pinned \cup {ssaReg[s] : s \in AllComps(instr.dsts)} ELSE pinned)
                        \ {ssaReg[s] : s \in dead}
      BY DEF EmitInstr
<1> DEFINE gone == {ssaReg[s] : s \in dead}
<1>3. \A s, t \in Live : ssaReg[s] = ssaReg[t] => s = t
      BY OneEach DEF Inv
<1>4. ~Planned
      BY <1>1 DEF Planned
<1>5. ASSUME NEW d \in DOMAIN instr.dsts PROVE Placed(d)
      BY <1>1, <1>4 DEF Inv, DstsPlaced, NextScalarDst
<1>6. ASSUME NEW s \in Dsts
      PROVE  s \in Live /\ \E d \in DOMAIN instr.dsts : \E k \in DOMAIN instr.dsts[d] :
                 instr.dsts[d][k] = s /\ ssaReg[s] = dstReg[d] + k - 1
  <2>1. PICK d \in DOMAIN instr.dsts : s \in Comps(instr.dsts[d])
        BY DEF Dsts, AllComps
  <2>2. PICK k \in DOMAIN instr.dsts[d] : instr.dsts[d][k] = s
        BY <2>1 DEF Comps
  <2> QED BY <1>5, <2>2 DEF Placed
<1>7. Dsts = AllComps(instr.dsts)
      BY DEF Dsts
<1>8. Live' = Live \ dead /\ (\A s \in Live' : ssaReg'[s] = ssaReg[s]) /\ ssaReg' = [s \in Live' |-> ssaReg'[s]]
      BY <1>2 DEF Without, Live
<1>9. \A s \in Live \ dead : ssaReg[s] \notin gone
      BY <1>3, <1>6, <1>7
<1>10. \A s \in Live : s \in SSA /\ ssaReg[s] \in Reg /\ ssaReg[s] \in used /\ regSsa[ssaReg[s]] = s
      BY DEF Inv, TableTypes, Tables
<1>11. \A r \in used : \E s \in Live : ssaReg[s] = r
      BY DEF Inv, Tables
<1>12. TableTypes'
  <2>1. ssaReg' \in [Live' -> Reg]
        BY <1>8, <1>10
  <2> QED BY <1>2, <1>8, <1>10, <2>1 DEF Inv, TableTypes
<1>13. Tables'
  <2>1. ASSUME NEW r PROVE r \in used' <=> \E s \in Live' : ssaReg'[s] = r
        BY <1>2, <1>8, <1>9, <1>10, <1>11
  <2>2. \A s \in Live' : regSsa'[ssaReg'[s]] = s
        BY <1>2, <1>8, <1>10
  <2>3. pinned' \subseteq used'
    <3>1. \A r \in pinned : r \in used
          BY DEF Inv, Tables
    <3>2. \A s \in AllComps(instr.dsts) : ssaReg[s] \in used
          BY <1>6, <1>7, <1>10
    <3> QED BY <1>2, <3>1, <3>2
  <2> QED BY <2>1, <2>2, <2>3 DEF Tables
<1>14. ASSUME NEW s \in Live PROVE AfterInstr[ssaReg[s]] = s
  <2> DEFINE r == ssaReg[s]
  <2>1. r \in Reg
        BY <1>10
  <2>2. ASSUME NEW t \in WrittenTo(r) PROVE t = s /\ t \in Dsts
    <3>1. t \in Dsts
          BY <1>7, <2>2 DEF WrittenTo
    <3>2. PICK d \in DOMAIN instr.dsts : \E k \in DOMAIN instr.dsts[d] : instr.dsts[d][k] = t /\ r = dstReg[d] + k - 1
          BY <2>2 DEF WrittenTo
    <3>3. PICK k \in DOMAIN instr.dsts[d] : instr.dsts[d][k] = t /\ r = dstReg[d] + k - 1
          BY <3>2
    <3>4. t \in Live /\ ssaReg[t] = r
          BY <1>5, <3>3 DEF Placed
    <3> QED BY <1>3, <3>1, <3>4
  <2>3. CASE s \in Dsts
    <3>1. s \in WrittenTo(r)
          BY <1>6, <1>7, <2>3 DEF WrittenTo
    <3>2. WrittenTo(r) # {} /\ (CHOOSE t \in WrittenTo(r) : TRUE) = s
          BY <2>2, <3>1
    <3> HIDE DEF r
    <3>3. AfterInstr[r] = s
          BY <2>1, <3>2 DEF AfterInstr
    <3> QED BY <3>3 DEF r
  <2>4. CASE s \notin Dsts
    <3>1. WrittenTo(r) = {}
          BY <2>2, <2>4
    <3>2. AfterCopy(val, pcopy)[r] = s
          BY <2>4 DEF Inv, Held, Copied
    <3> HIDE DEF r
    <3>3. AfterInstr[r] = s
          BY <2>1, <3>1, <3>2 DEF AfterInstr
    <3> QED BY <3>3 DEF r
  <2> QED BY <2>3, <2>4
<1>15. \A s \in Live' : val'[ssaReg'[s]] = s
       BY <1>1, <1>8, <1>10, <1>14 DEF LiveOnly, Live
<1>16. val' \in [Reg -> SSA \cup {Junk}]
  <2>1. \A r \in Reg : (IF AfterInstr[r] \in Live' THEN AfterInstr[r] ELSE Junk) \in SSA \cup {Junk}
        BY <1>8, <1>10
  <2>2. val' = [r \in Reg |-> IF AfterInstr[r] \in Live' THEN AfterInstr[r] ELSE Junk]
        BY <1>1 DEF LiveOnly, Live
  <2> QED BY <2>1, <2>2
<1> QED BY <1>1, <1>12, <1>13, <1>15, <1>16 DEF Idle, NextInstr

----------------------------------------------------------------------------
(* The ranges of vector destinations                                        *)

\* Before orders the operands.
LEMMA BeforeOrder ==
    ASSUME NEW seq, NEW idx \in SUBSET Nat, \A k \in idx : Len(seq[k]) \in Nat
    PROVE  /\ \A j, k \in idx : j # k => Before(seq, j, k) \/ Before(seq, k, j)
           /\ \A i, j, k \in idx : Before(seq, i, j) /\ Before(seq, j, k) => Before(seq, i, k)
           /\ \A j \in idx : ~Before(seq, j, j)
<1>1. ASSUME NEW j \in idx, NEW k \in idx, j # k PROVE Before(seq, j, k) \/ Before(seq, k, j)
  <2>1. \A a, b \in Nat : a > b \/ b > a \/ a = b
        OBVIOUS
  <2>2. j > k \/ k > j
        BY <1>1
  <2>3. Len(seq[j]) > Len(seq[k]) \/ Len(seq[k]) > Len(seq[j]) \/ Len(seq[j]) = Len(seq[k])
        BY <2>1
  <2> QED BY <2>2, <2>3, Zenon DEF Before
<1>2. ASSUME NEW i \in idx, NEW j \in idx, NEW k \in idx, Before(seq, i, j), Before(seq, j, k)
      PROVE  Before(seq, i, k)
  <2>1. \A a, b, d \in Nat : a > b /\ b > d => a > d
        OBVIOUS
  <2>2. i \in Nat /\ j \in Nat /\ k \in Nat /\ Len(seq[i]) \in Nat /\ Len(seq[j]) \in Nat /\ Len(seq[k]) \in Nat
        OBVIOUS
  <2> QED BY <1>2, <2>1, <2>2, Zenon DEF Before
<1>3. ASSUME NEW j \in idx, Before(seq, j, j) PROVE FALSE
  <2>1. \A a \in Nat : ~(a > a)
        OBVIOUS
  <2> QED BY <1>3, <2>1, Zenon DEF Before
<1> QED BY <1>1, <1>2, <1>3

\* Different operands have different ranks.
LEMMA RankInjective ==
    ASSUME NEW seq, NEW idx \in SUBSET Nat, IsFiniteSet(idx), \A k \in idx : Len(seq[k]) \in Nat,
           NEW j \in idx, NEW k \in idx, Rank(seq, idx, j) = Rank(seq, idx, k)
    PROVE  j = k
<1> DEFINE Below(x) == {i \in idx : Before(seq, i, x)}
<1>1. /\ \A x, y \in idx : x # y => Before(seq, x, y) \/ Before(seq, y, x)
      /\ \A i, x, y \in idx : Before(seq, i, x) /\ Before(seq, x, y) => Before(seq, i, y)
      /\ \A x \in idx : ~Before(seq, x, x)
      BY BeforeOrder
<1>2. ASSUME NEW x \in idx, NEW y \in idx, Before(seq, x, y), Rank(seq, idx, x) = Rank(seq, idx, y)
      PROVE  FALSE
  <2>1. Below(x) \in SUBSET Below(y) /\ x \in Below(y) /\ x \notin Below(x) /\ Below(y) \in SUBSET idx
        BY <1>1, <1>2
  <2>2. Cardinality(Below(x)) = Cardinality(Below(y))
        BY <1>2 DEF Rank
  <2> HIDE DEF Below
  <2>3. IsFiniteSet(Below(y))
        BY <2>1, FS_Subset
  <2>4. Below(y) = Below(x)
        BY <2>1, <2>2, <2>3, FS_Subset
  <2> QED BY <2>1, <2>4
<1> QED BY <1>1, <1>2

\* Destinations that take the registers of killed sources take those of
\* different ones.
LEMMA MappedApart ==
    ASSUME OperandTypes, InstrOK, NEW d \in VecIdx(instr.dsts), NEW e \in VecIdx(instr.dsts), d # e,
           NEW k \in MappedSrcs(instr.srcs, instr.dsts, instr.killed, d),
           NEW l \in MappedSrcs(instr.srcs, instr.dsts, instr.killed, e)
    PROVE  Comps(instr.srcs[k]) \cap Comps(instr.srcs[l]) = {}
<1> DEFINE kv == KilledVecs(instr.srcs, instr.killed)
           idx == VecIdx(instr.dsts)
<1>1. /\ k \in kv /\ l \in kv
      /\ Rank(instr.srcs, kv, k) = Rank(instr.dsts, idx, d)
      /\ Rank(instr.srcs, kv, l) = Rank(instr.dsts, idx, e)
      BY DEF MappedSrcs
<1>2. idx \in SUBSET Nat /\ IsFiniteSet(idx) /\ \A x \in idx : Len(instr.dsts[x]) \in Nat
  <2>1. idx \in SUBSET (1 .. Len(instr.dsts)) /\ Len(instr.dsts) \in Nat
        BY Operands DEF VecIdx
  <2>2. IsFiniteSet(1 .. Len(instr.dsts))
        BY <2>1, FS_Interval
  <2>3. \A x \in idx : instr.dsts[x] \in Vector
        BY Operands DEF VecIdx
  <2>4. \A x \in idx : Len(instr.dsts[x]) \in Nat
        BY <2>3, VectorFacts
  <2> HIDE DEF idx
  <2>5. IsFiniteSet(idx)
        BY <2>1, <2>2, FS_Subset
  <2> QED BY <2>1, <2>4, <2>5
<1>3. k # l
  <2> HIDE DEF idx, kv
  <2>1. k = l => Rank(instr.dsts, idx, d) = Rank(instr.dsts, idx, e)
        BY <1>1
  <2>2. d \in idx /\ e \in idx
        BY DEF idx
  <2> QED BY <1>2, <2>1, <2>2, RankInjective
<1>4. /\ k \in DOMAIN instr.srcs /\ l \in DOMAIN instr.srcs /\ Len(instr.srcs[k]) > 1 /\ Len(instr.srcs[l]) > 1
      /\ \A j \in 1 .. k - 1 : instr.srcs[j] # instr.srcs[k]
      /\ \A j \in 1 .. l - 1 : instr.srcs[j] # instr.srcs[l]
      BY <1>1 DEF KilledVecs, VecIdx
<1>5. k \in 1 .. l - 1 \/ l \in 1 .. k - 1
  <2>1. k \in Nat \ {0} /\ l \in Nat \ {0}
        BY <1>4, Operands
  <2> QED BY <1>3, <2>1
<1>6. instr.srcs[k] # instr.srcs[l]
      BY <1>4, <1>5
<1> QED BY <1>4, <1>6 DEF InstrOK, LegalSrcs

\* All sources are collected; the destinations that take the registers of a
\* killed source get disjoint ranges: the invariant is kept.
LEMMA CollectDoneInv ==
    ASSUME Inv, CollectDone
    PROVE  Inv'
<1> DEFINE idx == VecIdx(instr.dsts)
           mapped(d) == MappedSrcs(instr.srcs, instr.dsts, instr.killed, d)
           from(d) == CHOOSE k \in DOMAIN instr.srcs : k \in mapped(d)
<1>1. /\ pc = "collect" /\ n > Len(instr.srcs)
      /\ pc' = CASE mode = "general" -> "alloc" [] mode = "pinMove" -> "finish" [] OTHER -> "free"
      /\ dstReg' = IF mode # "mapped" THEN dstReg
                   ELSE [d \in DOMAIN dstReg |-> IF d \notin idx THEN None ELSE TryGetVecReg(instr.srcs[from(d)])]
      /\ n' = 1
      /\ ssaReg' = ssaReg /\ regSsa' = regSsa /\ used' = used /\ pinned' = pinned
      /\ vpin' = vpin /\ evicted' = evicted /\ pcopy' = pcopy
      /\ instr' = instr /\ mode' = mode /\ c' = c /\ tgt' = tgt
      /\ srcReg' = srcReg /\ val' = val
      BY DEF CollectDone, alloc, vra
<1>2. mode \in {"easy", "mapped", "trivial", "general", "pinMove"}
      BY <1>1 DEF Inv, Places
<1>3. /\ Collecting /\ ~Collecting' /\ BeforeFree /\ BeforeFree' /\ ~Planned /\ (Planned' <=> mode = "mapped")
      BY <1>1, <1>2 DEF BeforeFree, Planned, Collecting
<1>4. Live' = Live /\ Srcs' = Srcs /\ Dsts' = Dsts /\ Copied' = Copied /\ InstrOK'
      BY <1>1, SameInstr, SameCopy, SameTables DEF Inv
<1>5. DoneSrcs = DOMAIN instr.srcs /\ DoneSrcs' = DoneSrcs
  <2>1. DoneSrcs = 1 .. n - 1 /\ DoneSrcs' = DOMAIN instr.srcs
        BY <1>1, <1>2, <1>3 DEF DoneSrcs
  <2>2. DOMAIN instr.srcs = 1 .. Len(instr.srcs) /\ Len(instr.srcs) \in Nat /\ n \in Nat
        BY Operands DEF Inv, OperandTypes
  <2>3. DoneSrcs \subseteq DOMAIN instr.srcs
        BY DEF Inv, SrcsCollected
  <2>4. \A m \in Nat : n > m => 1 .. m \subseteq 1 .. n - 1
        BY <2>2
  <2> QED BY <1>1, <2>1, <2>2, <2>3, <2>4
<1>6. ASSUME NEW k \in DOMAIN instr.srcs
      PROVE  /\ instr.srcs[k] \in Vector /\ TryGetVecReg(instr.srcs[k]) = srcReg[k] /\ srcReg[k] \in Reg
             /\ srcReg[k] \in Int /\ srcReg[k] # None
             /\ \A j \in DOMAIN instr.srcs[k] :
                   instr.srcs[k][j] \in Live /\ ssaReg[instr.srcs[k][j]] = srcReg[k] + j - 1 /\ srcReg[k] + j - 1 \in Reg
  <2>1. Collected(k)
        BY <1>5 DEF Inv, SrcsCollected
  <2>2. instr.srcs[k] \in Vector /\ srcReg[k] \in Int /\ 1 \in DOMAIN instr.srcs[k]
        BY Operands, VectorFacts DEF Inv, OperandTypes
  <2>3. \A j \in DOMAIN instr.srcs[k] :
           instr.srcs[k][j] \in Live /\ ssaReg[instr.srcs[k][j]] = srcReg[k] + j - 1 /\ srcReg[k] + j - 1 \in Reg
        BY <1>3, <2>1 DEF Collected, Inv, CopyTypes
  <2>4. srcReg[k] + 1 - 1 = srcReg[k]
        BY <2>2
  <2>5. srcReg[k] \in Reg
        BY <2>2, <2>3, <2>4
  <2>6. srcReg[k] # None /\ srcReg[k] % Align(Len(instr.srcs[k])) = 0
        BY <2>1, <2>5, RegNat DEF Collected
  <2>7. TryGetVecReg(instr.srcs[k]) = srcReg[k]
        BY <2>2, <2>3, <2>6, InPlaceGiven
  <2> QED BY <2>2, <2>3, <2>5, <2>6, <2>7
<1>7. ASSUME mode = "mapped", NEW d \in idx
      PROVE  /\ from(d) \in mapped(d) /\ from(d) \in DOMAIN instr.srcs
             /\ d \in DOMAIN instr.dsts /\ dstReg'[d] = srcReg[from(d)]
  <2>1. mapped(d) # {}
        BY <1>7 DEF Inv, InstrOK, DstsMapToKilled
  <2>2. mapped(d) \subseteq DOMAIN instr.srcs
        BY DEF MappedSrcs, KilledVecs, VecIdx
  <2> HIDE DEF mapped
  <2>3. from(d) \in mapped(d) /\ from(d) \in DOMAIN instr.srcs
        BY <2>1, <2>2
  <2>4. d \in DOMAIN instr.dsts /\ DOMAIN dstReg = DOMAIN instr.dsts
        BY DEF VecIdx, Inv, OperandTypes
  <2>5. dstReg'[d] = TryGetVecReg(instr.srcs[from(d)])
    <3> HIDE DEF from, idx
    <3>1. dstReg' = [e \in DOMAIN dstReg |-> IF e \notin idx THEN None ELSE TryGetVecReg(instr.srcs[from(e)])]
          BY <1>1, <1>7
    <3> QED BY <1>7, <2>4, <3>1
  <2> QED BY <1>6, <2>3, <2>4, <2>5
<1>8. ASSUME mode = "mapped", NEW d \in idx, NEW r \in RangeOf(dstReg'[d], Len(instr.dsts[d]))
      PROVE  r \in Reg /\ \E s \in instr.killed : s \in Comps(instr.srcs[from(d)]) /\ s \in Live /\ ssaReg[s] = r
  <2> DEFINE k == from(d)
  <2>1. k \in DOMAIN instr.srcs /\ dstReg'[d] = srcReg[k] /\ instr.dsts[d] \in Vector /\ srcReg[k] \in Int
    <3> HIDE DEF from
    <3>1. k \in DOMAIN instr.srcs /\ dstReg'[d] = srcReg[k] /\ d \in DOMAIN instr.dsts
          BY <1>7, <1>8
    <3> QED BY <1>6, <3>1, Operands DEF Inv
  <2>2. Len(instr.srcs[k]) >= Len(instr.dsts[d]) /\ Comps(instr.srcs[k]) \subseteq instr.killed
        BY <1>7, <1>8 DEF MappedSrcs, KilledVecs
  <2> HIDE DEF k
  <2>3. PICK j \in DOMAIN instr.dsts[d] : r = srcReg[k] + j - 1
        BY <1>8, <2>1, RangeOfVec
  <2>4. instr.srcs[k] \in Vector
        BY <1>6, <2>1
  <2>5. /\ DOMAIN instr.dsts[d] = 1 .. Len(instr.dsts[d]) /\ DOMAIN instr.srcs[k] = 1 .. Len(instr.srcs[k])
        /\ Len(instr.dsts[d]) \in Nat /\ Len(instr.srcs[k]) \in Nat
        BY <2>1, <2>4, VectorFacts
  <2>6. \A a, b \in Nat : a >= b => 1 .. b \subseteq 1 .. a
        OBVIOUS
  <2>7. j \in DOMAIN instr.srcs[k]
        BY <2>2, <2>5, <2>6
  <2>8. instr.srcs[k][j] \in Comps(instr.srcs[k])
        BY <2>4, <2>7, VectorFacts
  <2>9. r \in Reg /\ instr.srcs[k][j] \in Live /\ ssaReg[instr.srcs[k][j]] = r
        BY <1>6, <2>1, <2>3, <2>7
  <2> QED BY <2>2, <2>8, <2>9 DEF k
<1> HIDE DEF from
<1>9. TableTypes' /\ Tables' /\ CopyTypes' /\ (DOMAIN evicted \cap Live = {})'
      BY <1>1, <1>4, SameTables DEF Inv, CopyTypes
<1>10. OperandTypes'
  <2>1. dstReg' \in [DOMAIN instr.dsts -> Int]
    <3>1. CASE mode # "mapped"
          BY <1>1, <3>1 DEF Inv, OperandTypes
    <3>2. CASE mode = "mapped"
      <4>1. dstReg' = [d \in DOMAIN instr.dsts |-> IF d \notin idx THEN None ELSE TryGetVecReg(instr.srcs[from(d)])]
            BY <1>1, <3>2 DEF Inv, OperandTypes
      <4>2. ASSUME NEW d \in DOMAIN instr.dsts PROVE dstReg'[d] \in Int
        <5>1. CASE d \in idx
          <6>1. dstReg'[d] = srcReg[from(d)] /\ from(d) \in DOMAIN instr.srcs
                BY <1>7, <3>2, <5>1
          <6> QED BY <1>6, <6>1
        <5>2. CASE d \notin idx
          <6>1. dstReg'[d] = None
                BY <4>1, <5>2
          <6> QED BY <6>1 DEF None
        <5> QED BY <5>1, <5>2
      <4> HIDE DEF idx
      <4> QED BY <4>1, <4>2
    <3> QED BY <3>1, <3>2
  <2> QED BY <1>1, <2>1 DEF Inv, OperandTypes
<1>11. Places' /\ AtIdle' /\ PinsKnown' /\ NoneLeft' /\ VpinOwners' /\ PinsTogether' /\ MoveOK'
      BY <1>1, <1>2, <1>3 DEF Inv, Places, AtIdle, PinsKnown, NoneLeft, VpinOwners, PinsTogether, MoveOK
<1>12. Held' /\ EvictedHeld' /\ CopyOK'
      BY <1>1, <1>4 DEF Inv, Held, EvictedHeld, CopyOK, CopyWellFormed
<1>13. VpinUsed' /\ SrcsKept'
      BY <1>1, <1>3, <1>4 DEF Inv, VpinUsed, SrcsKept
<1>14. SrcsCollected'
  <2>1. \A k : Collected(k) => Collected(k)'
        BY <1>1, <1>3, <1>4 DEF Collected
  <2> QED BY <1>1, <1>5, <2>1 DEF Inv, SrcsCollected
<1>15. DstsPlaced'
  <2>1. \A d : Placed(d) /\ dstReg'[d] = dstReg[d] => Placed(d)'
        BY <1>1, <1>2, <1>4 DEF Placed
  <2>2. CASE mode # "mapped"
        BY <1>1, <1>3, <1>4, <2>1, <2>2 DEF Inv, DstsPlaced
  <2>3. CASE mode = "mapped"
    <3>1. \A d \in DOMAIN instr.dsts : Comps(instr.dsts[d]) \cap Live = {}
          BY <1>3, <2>3 DEF Inv, DstsPlaced, DstsGiven
    <3> QED BY <1>1, <1>3, <1>4, <2>3, <3>1 DEF DstsPlaced
  <2> QED BY <2>2, <2>3
<1>16. Plans'
  <2> SUFFICES ASSUME mode = "mapped" PROVE Plans'
      BY <1>3 DEF Plans
  <2>1. pc' = "free" /\ instr'.dsts = instr.dsts /\ instr'.killed = instr.killed /\ ssaReg' = ssaReg
        BY <1>1
  <2>2. ASSUME NEW d \in DOMAIN instr.dsts, d \notin idx PROVE dstReg'[d] = None
        BY <1>1, <2>2 DEF Inv, OperandTypes
  <2>3. ASSUME NEW d \in idx, NEW e \in idx, d # e, NEW r \in RangeOf(dstReg'[d], Len(instr.dsts[d])),
               r \in RangeOf(dstReg'[e], Len(instr.dsts[e]))
        PROVE  FALSE
    <3>1. PICK s \in Live : s \in Comps(instr.srcs[from(d)]) /\ ssaReg[s] = r
          BY <1>8
    <3>2. PICK t \in Live : t \in Comps(instr.srcs[from(e)]) /\ ssaReg[t] = r
          BY <1>8, <2>3
    <3>3. s = t
          BY <3>1, <3>2, OneEach DEF Inv
    <3>4. Comps(instr.srcs[from(d)]) \cap Comps(instr.srcs[from(e)]) = {}
          BY <1>7, <2>3, MappedApart DEF Inv
    <3> QED BY <3>1, <3>2, <3>3, <3>4
  <2>4. \A d \in idx : \A r \in RangeOf(dstReg'[d], Len(instr.dsts[d])) :
            r \in Reg /\ \E s \in instr.killed : ssaReg[s] = r
        BY <1>8
  <2>5. \A d, e \in idx : d # e =>
            RangeOf(dstReg'[d], Len(instr.dsts[d])) \cap RangeOf(dstReg'[e], Len(instr.dsts[e])) = {}
        BY <2>3
  <2>6. idx' = idx
        BY <2>1
  <2> HIDE DEF idx
  <2>7. VecIdx(instr.dsts)' = idx
        BY <2>6 DEF idx
  <2> QED BY <2>1, <2>2, <2>4, <2>5, <2>7 DEF Plans
<1>17. DstsGiven'
  <2>1. mode \in {"easy", "mapped", "trivial"} => \A d \in idx : dstReg'[d] # None
    <3>1. CASE mode = "easy"
          BY <3>1 DEF Inv, InstrOK
    <3>2. CASE mode = "trivial"
          BY <1>1, <3>2 DEF Inv, DstsGiven
    <3>3. CASE mode = "mapped"
          BY <1>6, <1>7, <3>3, RegNat
    <3> QED BY <3>1, <3>2, <3>3
  <2>2. mode = "pinMove" => dstReg'[1] = None
        BY <1>1 DEF Inv, DstsGiven
  <2> QED BY <1>1, <1>2, <1>3, <2>1, <2>2 DEF DstsGiven
<1> QED BY <1>4, <1>9, <1>10, <1>11, <1>12, <1>13, <1>14, <1>15, <1>16, <1>17 DEF Inv

----------------------------------------------------------------------------
(* The start of an instruction                                              *)

\* The ranges that instr_assign_regs_file finds without moving anything.
LEMMA TrivialFacts ==
    ASSUME NEW dsts \in Seq(Vector), NEW f \in TrivialRegs(dsts)
    PROVE  /\ \A d \in VecIdx(dsts) :
                 /\ f[d] \in Reg /\ RangeOf(f[d], Len(dsts[d])) \subseteq Reg
                 /\ RangeOf(f[d], Len(dsts[d])) \cap used = {}
           /\ \A d, e \in VecIdx(dsts) :
                 d # e => RangeOf(f[d], Len(dsts[d])) \cap RangeOf(f[e], Len(dsts[e])) = {}
<1> DEFINE idx == VecIdx(dsts)
           behind(d) == {m \in 0 .. RegCount + MaxComps :
                           \A e \in idx : Before(dsts, e, d) => m >= f[e] + Len(dsts[e])}
<1>1. f \in [idx -> Reg] /\ \A d \in idx : f[d] = FindUnset(used, Minimum(behind(d)), Len(dsts[d]))
      BY DEF TrivialRegs
<1>2. idx \in SUBSET Nat /\ \A d \in idx : Len(dsts[d]) \in Nat \ {0} /\ Len(dsts[d]) <= MaxComps
  <2>1. \A d \in idx : d \in DOMAIN dsts /\ DOMAIN dsts = 1 .. Len(dsts) /\ Len(dsts) \in Nat
        BY LenProperties DEF VecIdx
  <2>2. \A d \in idx : dsts[d] \in Vector
        BY <2>1, ElementOfSeq
  <2> QED BY <2>1, <2>2, VectorFacts
<1> HIDE DEF idx
<1>3. ASSUME NEW d \in idx PROVE Minimum(behind(d)) \in behind(d) /\ Minimum(behind(d)) \in Nat
  <2>1. behind(d) \in SUBSET Nat
        BY SizeAssumption
  <2>2. RegCount + MaxComps \in behind(d)
    <3>1. ASSUME NEW e \in idx PROVE RegCount + MaxComps >= f[e] + Len(dsts[e])
      <4>1. f[e] \in 0 .. RegCount - 1
            BY <1>1 DEF Reg
      <4>2. \A x \in 0 .. RegCount - 1 : \A l \in Nat : l <= MaxComps => RegCount + MaxComps >= x + l
            BY SizeAssumption
      <4> QED BY <1>2, <4>1, <4>2
    <3>2. RegCount + MaxComps \in 0 .. RegCount + MaxComps
          BY SizeAssumption
    <3> QED BY <3>1, <3>2
  <2> HIDE DEF behind
  <2>3. Minimum(behind(d)) \in behind(d)
        BY <2>1, <2>2, SmallestNumber
  <2> QED BY <2>1, <2>3
<1>4. ASSUME NEW d \in idx
      PROVE  /\ f[d] \in Reg /\ RangeOf(f[d], Len(dsts[d])) \subseteq Reg
             /\ RangeOf(f[d], Len(dsts[d])) \cap used = {}
             /\ \A e \in idx : Before(dsts, e, d) => f[d] >= f[e] + Len(dsts[e])
  <2> DEFINE start == Minimum(behind(d))
  <2>1. start \in Nat /\ \A e \in idx : Before(dsts, e, d) => start >= f[e] + Len(dsts[e])
        BY <1>3
  <2>2. f[d] = FindUnset(used, start, Len(dsts[d])) /\ f[d] \in Reg
        BY <1>1
  <2> HIDE DEF start
  <2>3. FindUnset(used, start, Len(dsts[d])) # None
        BY <2>2, RegNat
  <2>4. f[d] >= start /\ RangeOf(f[d], Len(dsts[d])) \subseteq Reg /\ RangeOf(f[d], Len(dsts[d])) \cap used = {}
        BY <1>2, <2>1, <2>2, <2>3, FoundRange
  <2>5. ASSUME NEW e \in idx, Before(dsts, e, d) PROVE f[d] >= f[e] + Len(dsts[e])
    <3>1. \A x, y, z \in Nat : x >= y /\ y >= z => x >= z
          OBVIOUS
    <3>2. f[d] \in Nat /\ f[e] \in Nat /\ f[e] + Len(dsts[e]) \in Nat
      <4>1. f[d] \in Nat /\ f[e] \in Nat /\ Len(dsts[e]) \in Nat
            BY <1>1, <1>2, RegNat
      <4>2. \A x, y \in Nat : x + y \in Nat
            OBVIOUS
      <4> QED BY <4>1, <4>2, Zenon
    <3> QED BY <2>1, <2>4, <2>5, <3>1, <3>2
  <2> QED BY <2>2, <2>4, <2>5
<1>5. ASSUME NEW d \in idx, NEW e \in idx, Before(dsts, e, d)
      PROVE  RangeOf(f[d], Len(dsts[d])) \cap RangeOf(f[e], Len(dsts[e])) = {}
  <2>1. \A x, y, k, l \in Nat : x >= y + l => RangeOf(x, k) \cap RangeOf(y, l) = {}
        BY DEF RangeOf
  <2>2. f[d] \in Nat /\ f[e] \in Nat /\ Len(dsts[d]) \in Nat /\ Len(dsts[e]) \in Nat
        BY <1>1, <1>2, RegNat
  <2>3. f[d] >= f[e] + Len(dsts[e])
        BY <1>4, <1>5
  <2> QED BY <2>1, <2>2, <2>3
<1>6. \A d, e \in idx : d # e => Before(dsts, e, d) \/ Before(dsts, d, e)
      BY <1>2, BeforeOrder
<1> QED BY <1>4, <1>5, <1>6 DEF idx

\* The instruction that Begin is given.
Legal(i) ==
    /\ i.srcs \in Seq(Vector) /\ i.dsts \in Seq(Vector)
    /\ AllComps(i.srcs) \subseteq Live /\ i.killed \subseteq AllComps(i.srcs)
    /\ LegalSrcs(i.srcs) /\ NewValues(i.dsts)
    /\ \A k \in DOMAIN i.srcs : PinnedTogether(i.srcs[k])
    /\ i.op \in {"pin", "unpin"} =>
          Len(i.srcs) = 1 /\ Len(i.dsts) = 1 /\ Len(i.srcs[1]) = Len(i.dsts[1])
    /\ i.op = "copy" => Len(i.srcs) = 1 /\ Len(i.dsts) = 1 /\ VecIdx(i.dsts) = {}

\* What the code and the analyses before it promise of the next instruction.
Counted(i) ==
    /\ FitsMaxLive(i.dsts, i.killed)
    /\ i.op \in {"instr", "copy", "pin", "unpin"}
    /\ i.op = "copy" => Len(i.srcs[1]) = 1
    /\ i.op = "instr" => OperandCount(i.srcs, i.dsts) <= MaxOperands
    /\ i.op \in {"pin", "unpin"} => Cardinality(PinnedRanges(pinned)) < MaxOperands

\* A vector has as many values as components.
LEMMA CompsCount ==
    ASSUME NEW v \in Vector
    PROVE  IsFiniteSet(Comps(v)) /\ Cardinality(Comps(v)) = Len(v)
<1>1. Len(v) \in Nat /\ DOMAIN v = 1 .. Len(v) /\ \A j, k \in DOMAIN v : v[j] = v[k] => j = k
      BY VectorFacts
<1>2. v \in [1 .. Len(v) -> Comps(v)]
  <2>1. v \in Seq(SSA)
        BY DEF Vector
  <2>2. v = [k \in 1 .. Len(v) |-> v[k]]
        BY <1>1, <2>1
  <2>3. \A k \in 1 .. Len(v) : v[k] \in Comps(v)
        BY <1>1, VectorFacts
  <2> QED BY <2>2, <2>3
<1>3. v \in Bijection(1 .. Len(v), Comps(v))
  <2>1. \A s \in Comps(v) : \E k \in 1 .. Len(v) : v[k] = s
        BY <1>1, VectorFacts
  <2> QED BY <1>1, <1>2, <2>1 DEF Bijection, Injection, Surjection, IsInjective
<1>4. IsFiniteSet(1 .. Len(v)) /\ Cardinality(1 .. Len(v)) = Len(v)
  <2>1. \A m \in Nat : IsFiniteSet(1 .. m) /\ Cardinality(1 .. m) = m
    <3>1. ASSUME NEW m \in Nat PROVE IsFiniteSet(1 .. m) /\ Cardinality(1 .. m) = m
      <4>1. IsFiniteSet(1 .. m) /\ Cardinality(1 .. m) = IF 1 > m THEN 0 ELSE m - 1 + 1
            BY FS_Interval
      <4> QED BY <4>1
    <3> QED BY <3>1
  <2> QED BY <1>1, <2>1
<1>5. ExistsBijection(1 .. Len(v), Comps(v))
      BY <1>3 DEF ExistsBijection
<1> QED BY <1>4, <1>5, FS_Bijection

\* Registers are integers.
LEMMA RegInt == \A r \in Reg : r \in Int
BY SizeAssumption DEF Reg

\* A function on 1 .. k is a sequence.
LEMMA FunIsSeq ==
    ASSUME NEW S, NEW k \in Nat, NEW f \in [1 .. k -> S]
    PROVE  f \in Seq(S) /\ Len(f) = k /\ DOMAIN f = 1 .. k
OBVIOUS

\* A vector of live values.
LEMMA SrcVectorFacts ==
    ASSUME TableTypes, NEW v \in SrcVector
    PROVE  v \in Vector /\ Comps(v) \subseteq Live
<1>1. PICK k \in 1 .. MaxComps : v \in [1 .. k -> Live]
      BY DEF SrcVector
<1>2. Injective(v)
      BY DEF SrcVector
<1>3. v \in [1 .. k -> SSA] /\ k \in Nat /\ Comps(v) \subseteq Live
      BY <1>1, SizeAssumption DEF TableTypes, Comps
<1>4. v \in Seq(SSA) /\ Len(v) = k
      BY <1>3
<1> QED BY <1>2, <1>3, <1>4 DEF Vector

\* The destinations are vectors of the given shape.
LEMMA FreshFacts ==
    ASSUME NEW nd \in Nat, NEW shape \in [1 .. nd -> 1 .. MaxComps], NewValues(FreshDsts(shape))
    PROVE  /\ FreshDsts(shape) \in Seq(Vector) /\ Len(FreshDsts(shape)) = nd
           /\ DOMAIN FreshDsts(shape) = 1 .. nd
           /\ \A d \in 1 .. nd : Len(FreshDsts(shape)[d]) = shape[d]
<1> DEFINE fresh == FreshDsts(shape)
<1>1. Len(shape) = nd
      BY FunIsSeq
<1>2. PICK g : fresh = [d \in 1 .. Len(shape) |-> [k \in 1 .. shape[d] |-> g[d][k]]]
  <2> DEFINE off == CHOOSE h : h = [d \in 1 .. Len(shape) |-> IF d = 1 THEN 0 ELSE h[d - 1] + shape[d - 1]]
             names == [d \in 1 .. Len(shape) |-> [k \in 1 .. shape[d] |-> DeadName(off[d] + k - 1)]]
  <2>1. fresh = names
        BY DEF FreshDsts
  <2>2. names = [d \in 1 .. Len(shape) |-> [k \in 1 .. shape[d] |-> names[d][k]]]
    <3> HIDE DEF off
    <3> QED OBVIOUS
  <2> HIDE DEF names, fresh
  <2> QED BY <2>1, <2>2
<1>3. \A d \in 1 .. nd : Comps(fresh[d]) \subseteq SSA /\ Injective(fresh[d])
      BY <1>1, <1>2 DEF NewValues
<1> HIDE DEF fresh
<1>4. DOMAIN fresh = 1 .. nd
      BY <1>1, <1>2
<1>5. ASSUME NEW d \in 1 .. nd PROVE fresh[d] \in Vector /\ Len(fresh[d]) = shape[d]
  <2>1. shape[d] \in 1 .. MaxComps /\ shape[d] \in Nat
        BY SizeAssumption
  <2>2. fresh[d] = [k \in 1 .. shape[d] |-> g[d][k]]
        BY <1>1, <1>2
  <2>3. \A k \in 1 .. shape[d] : fresh[d][k] \in SSA
        BY <1>3, <2>2 DEF Comps
  <2>4. fresh[d] \in [1 .. shape[d] -> SSA]
        BY <2>2, <2>3
  <2>5. fresh[d] \in Seq(SSA) /\ Len(fresh[d]) = shape[d]
        BY <2>1, <2>4, FunIsSeq
  <2> QED BY <1>3, <2>1, <2>5 DEF Vector
<1>6. fresh \in [1 .. nd -> Vector]
  <2>1. fresh = [d \in 1 .. nd |-> fresh[d]]
        BY <1>1, <1>2
  <2> QED BY <1>5, <2>1
<1>7. fresh \in Seq(Vector) /\ Len(fresh) = nd
      BY <1>6
<1> QED BY <1>4, <1>5, <1>7 DEF fresh

\* The choice of the way.
LEMMA ModeFacts ==
    ASSUME NEW i, Legal(i)
    PROVE  LET m == ChooseMode(i)
           IN  /\ m \in {"easy", "mapped", "trivial", "general", "pinMove", "pinCopy"}
               /\ m \in {"pinMove", "pinCopy"} =>
                     Len(i.srcs) = 1 /\ Len(i.dsts) = 1 /\ Len(i.srcs[1]) = Len(i.dsts[1])
               /\ i.op = "copy" => Len(i.srcs) = 1 /\ Len(i.dsts) = 1 /\ m = "easy"
               /\ m = "pinMove" => i.killed = AllComps(i.srcs)
               /\ m = "easy" => VecIdx(i.dsts) = {}
               /\ m = "mapped" => DstsMapToKilled(i.srcs, i.dsts, i.killed)
               /\ m = "trivial" => TrivialRegs(i.dsts) # {}
<1> DEFINE m == ChooseMode(i)
<1>1. m = IF i.op \in {"pin", "unpin"}
          THEN IF Cardinality(i.killed) = Len(i.srcs[1]) THEN "pinMove" ELSE "pinCopy"
          ELSE IF VecIdx(i.dsts) = {} THEN "easy"
          ELSE IF DstsMapToKilled(i.srcs, i.dsts, i.killed) THEN "mapped"
          ELSE IF CouldTriviallyAllocate(i.dsts) THEN "trivial"
          ELSE "general"
      BY DEF ChooseMode
<1> HIDE DEF m
<1>2. m \in {"pinMove", "pinCopy"} => i.op \in {"pin", "unpin"}
      BY <1>1
<1>3. m \in {"easy", "mapped", "trivial", "general", "pinMove", "pinCopy"}
      BY <1>1
<1>4. m \in {"pinMove", "pinCopy"} =>
                     Len(i.srcs) = 1 /\ Len(i.dsts) = 1 /\ Len(i.srcs[1]) = Len(i.dsts[1])
      BY <1>2 DEF Legal
<1>5. i.op = "copy" => Len(i.srcs) = 1 /\ Len(i.dsts) = 1 /\ m = "easy"
      BY <1>1 DEF Legal
<1>6. ASSUME m = "pinMove" PROVE i.killed = AllComps(i.srcs)
  <2>1. Cardinality(i.killed) = Len(i.srcs[1]) /\ Len(i.srcs) = 1
        BY <1>1, <1>4, <1>6
  <2>2. DOMAIN i.srcs = {1} /\ i.srcs[1] \in Vector
    <3>1. i.srcs \in Seq(Vector) /\ DOMAIN i.srcs = 1 .. Len(i.srcs)
          BY LenProperties DEF Legal
    <3>2. DOMAIN i.srcs = {1}
          BY <2>1, <3>1
    <3> QED BY <3>1, <3>2, ElementOfSeq
  <2>3. AllComps(i.srcs) = Comps(i.srcs[1])
        BY <2>2 DEF AllComps
  <2>4. IsFiniteSet(Comps(i.srcs[1])) /\ Cardinality(Comps(i.srcs[1])) = Len(i.srcs[1])
        BY <2>2, CompsCount
  <2>5. i.killed \in SUBSET Comps(i.srcs[1])
        BY <2>3 DEF Legal
  <2> QED BY <2>1, <2>3, <2>4, <2>5, FS_Subset
<1>7. (m = "easy" => VecIdx(i.dsts) = {}) /\ (m = "mapped" => DstsMapToKilled(i.srcs, i.dsts, i.killed))
      BY <1>1
<1>8. m = "trivial" => TrivialRegs(i.dsts) # {}
      BY <1>1 DEF CouldTriviallyAllocate
<1> QED BY <1>3, <1>4, <1>5, <1>6, <1>7, <1>8 DEF m

\* The start of an instruction keeps the invariant.
LEMMA BeginInv ==
    ASSUME Inv, pc = "idle", NEW i, Legal(i), Begin(i)
    PROVE  Inv'
<1>1. /\ instr' = i /\ mode' = ChooseMode(i)
      /\ pc' = CASE mode' = "trivial" -> "assign" [] mode' = "pinCopy" -> "alloc" [] OTHER -> "collect"
      /\ n' = 1 /\ vpin' = pinned /\ evicted' = EmptyFn /\ pcopy' = << >>
      /\ srcReg' = [k \in DOMAIN i.srcs |-> None] /\ dstReg' = FirstDstRegs(i.dsts, mode')
      /\ ssaReg' = ssaReg /\ regSsa' = regSsa /\ used' = used /\ pinned' = pinned
      /\ c' = c /\ tgt' = tgt /\ val' = val
      BY DEF Begin, alloc
<1>2. /\ mode' \in {"easy", "mapped", "trivial", "general", "pinMove", "pinCopy"}
      /\ mode' \in {"pinMove", "pinCopy"} =>
            Len(i.srcs) = 1 /\ Len(i.dsts) = 1 /\ Len(i.srcs[1]) = Len(i.dsts[1])
      /\ i.op = "copy" => Len(i.srcs) = 1 /\ Len(i.dsts) = 1 /\ mode' = "easy"
      /\ mode' = "pinMove" => i.killed = AllComps(i.srcs)
      /\ mode' = "easy" => VecIdx(i.dsts) = {}
      /\ mode' = "mapped" => DstsMapToKilled(i.srcs, i.dsts, i.killed)
      /\ mode' = "trivial" => TrivialRegs(i.dsts) # {}
      BY <1>1, ModeFacts
<1>3. /\ pc' \in {"assign", "alloc", "collect"} /\ (pc' = "assign" <=> mode' = "trivial")
      /\ (pc' = "alloc" <=> mode' = "pinCopy")
      BY <1>1, <1>2
<1>4. BeforeFree' /\ (Planned' <=> mode' = "trivial") /\ (Collecting' <=> mode' # "pinCopy")
      BY <1>3 DEF BeforeFree, Planned, Collecting
<1>5. Live' = Live /\ Srcs' = AllComps(i.srcs) /\ Dsts' = AllComps(i.dsts) /\ Srcs' \subseteq Live
      BY <1>1 DEF Live, Srcs, Dsts, Legal
<1>6. TableTypes' /\ Tables'
      BY <1>1, SameTables DEF Inv
<1>7. \A s \in Live : val[ssaReg[s]] = s
  <2>1. pcopy = << >> /\ instr = NoInstr
        BY DEF Inv, AtIdle
  <2>2. Dsts = {}
        BY <2>1 DEF Dsts, AllComps, NoInstr
  <2>3. Copied = val
        BY <2>1, CopyEmpty DEF Copied, Inv, CopyTypes
  <2> QED BY <2>2, <2>3 DEF Inv, Held
<1>8. DOMAIN evicted' = {} /\ DOMAIN pcopy' = {} /\ Copied' = val
  <2>1. DOMAIN evicted' = {} /\ DOMAIN pcopy' = {}
        BY <1>1 DEF EmptyFn
  <2>2. AfterCopy(val, << >>) = val
        BY CopyEmpty DEF Inv, CopyTypes
  <2> QED BY <1>1, <2>1, <2>2 DEF Copied
<1>9. CopyTypes'
  <2>1. evicted' \in [DOMAIN evicted' -> Reg]
        BY <1>1, <1>8 DEF EmptyFn
  <2>2. << >> \in Seq(Reg \X Reg)
        BY EmptySeq
  <2>3. pinned \subseteq Reg
        BY DEF Inv, Tables, TableTypes
  <2> QED BY <1>1, <1>8, <2>1, <2>2, <2>3 DEF Inv, CopyTypes
<1>10. /\ DOMAIN i.dsts = 1 .. Len(i.dsts) /\ DOMAIN i.srcs = 1 .. Len(i.srcs)
       /\ Len(i.dsts) \in Nat /\ Len(i.srcs) \in Nat
      BY LenProperties DEF Legal
<1>11. /\ \A d \in DOMAIN i.dsts : mode' # "trivial" \/ d \notin VecIdx(i.dsts) => dstReg'[d] = None
       /\ mode' = "trivial" => \E f \in TrivialRegs(i.dsts) : \A d \in VecIdx(i.dsts) : dstReg'[d] = f[d]
       /\ dstReg' = [d \in DOMAIN i.dsts |-> dstReg'[d]]
  <2>1. dstReg' = [d \in DOMAIN i.dsts |-> IF mode' = "trivial" /\ d \in VecIdx(i.dsts)
                           THEN (CHOOSE f \in TrivialRegs(i.dsts) : TRUE)[d] ELSE None]
        BY <1>1 DEF FirstDstRegs
  <2>2. ASSUME mode' = "trivial" PROVE \E f \in TrivialRegs(i.dsts) : \A d \in VecIdx(i.dsts) : dstReg'[d] = f[d]
    <3> DEFINE f == CHOOSE f \in TrivialRegs(i.dsts) : TRUE
    <3>1. f \in TrivialRegs(i.dsts)
          BY <1>2, <2>2
    <3>2. dstReg' = [d \in DOMAIN i.dsts |-> IF mode' = "trivial" /\ d \in VecIdx(i.dsts) THEN f[d] ELSE None]
          BY <2>1
    <3> HIDE DEF f
    <3>3. \A d \in VecIdx(i.dsts) : dstReg'[d] = f[d]
          BY <2>2, <3>2 DEF VecIdx
    <3> QED BY <3>1, <3>3
  <2>3. \A d \in DOMAIN i.dsts : mode' # "trivial" \/ d \notin VecIdx(i.dsts) => dstReg'[d] = None
        BY <2>1
  <2>4. dstReg' = [d \in DOMAIN i.dsts |-> dstReg'[d]]
        BY <2>1
  <2> QED BY <2>2, <2>3, <2>4
<1>12. ASSUME mode' = "trivial"
       PROVE  /\ \A d \in VecIdx(i.dsts) :
                    /\ dstReg'[d] \in Reg /\ RangeOf(dstReg'[d], Len(i.dsts[d])) \subseteq Reg
                    /\ RangeOf(dstReg'[d], Len(i.dsts[d])) \cap used = {}
              /\ \A d, e \in VecIdx(i.dsts) :
                    d # e => RangeOf(dstReg'[d], Len(i.dsts[d])) \cap RangeOf(dstReg'[e], Len(i.dsts[e])) = {}
  <2>1. PICK f \in TrivialRegs(i.dsts) : \A d \in VecIdx(i.dsts) : dstReg'[d] = f[d]
        BY <1>11, <1>12
  <2>2. /\ \A d \in VecIdx(i.dsts) :
                 /\ f[d] \in Reg /\ RangeOf(f[d], Len(i.dsts[d])) \subseteq Reg
                 /\ RangeOf(f[d], Len(i.dsts[d])) \cap used = {}
        /\ \A d, e \in VecIdx(i.dsts) :
                 d # e => RangeOf(f[d], Len(i.dsts[d])) \cap RangeOf(f[e], Len(i.dsts[e])) = {}
        BY TrivialFacts DEF Legal
  <2> QED BY <2>1, <2>2
<1>13. OperandTypes'
  <2>1. ASSUME NEW d \in DOMAIN i.dsts PROVE dstReg'[d] \in Int
    <3>1. CASE mode' = "trivial" /\ d \in VecIdx(i.dsts)
      <4>1. dstReg'[d] \in Reg
            BY <1>12, <3>1
      <4> QED BY <4>1, RegInt
    <3>2. CASE ~(mode' = "trivial" /\ d \in VecIdx(i.dsts))
      <4>1. dstReg'[d] = None
            BY <1>11, <3>2
      <4> QED BY <4>1 DEF None
    <3> QED BY <3>1, <3>2
  <2>2. dstReg' \in [DOMAIN i.dsts -> Int]
        BY <1>11, <2>1
  <2>3. srcReg' \in [DOMAIN i.srcs -> Int]
        BY <1>1 DEF None
  <2> QED BY <1>1, <2>2, <2>3 DEF Inv, OperandTypes, Legal
<1>14. InstrOK'
  <2>1. AllComps(i.srcs) \cap AllComps(i.dsts) = {}
    <3>1. \A s \in AllComps(i.dsts) : s \notin Live
          BY DEF Legal, NewValues, AllComps
    <3> QED BY <3>1 DEF Legal
  <2>2. \A d, e \in DOMAIN i.dsts : d # e => Comps(i.dsts[d]) \cap Comps(i.dsts[e]) = {}
        BY DEF Legal, NewValues
  <2>3. i.killed \subseteq AllComps(i.srcs) /\ LegalSrcs(i.srcs)
        BY DEF Legal
  <2> QED BY <1>1, <1>2, <1>5, <2>1, <2>2, <2>3 DEF InstrOK
<1>15. Places'
       BY <1>2, <1>3 DEF Places
<1>16. AtIdle' /\ PinsKnown' /\ NoneLeft' /\ MoveOK' /\ (DOMAIN evicted \cap Live = {})'
       BY <1>1, <1>3, <1>8 DEF AtIdle, PinsKnown, NoneLeft, MoveOK
<1>17. Held' /\ EvictedHeld' /\ CopyOK'
       BY <1>1, <1>5, <1>7, <1>8 DEF Held, EvictedHeld, CopyOK, CopyWellFormed
<1>18. VpinUsed' /\ SrcsKept'
       BY <1>1, <1>5 DEF Inv, Tables, VpinUsed, SrcsKept
<1>19. SrcsCollected'
  <2>1. DoneSrcs' = {}
    <3>1. CASE Collecting'
          BY <1>1, <3>1 DEF DoneSrcs
    <3>2. CASE ~Collecting'
          BY <1>4, <3>2 DEF DoneSrcs
    <3> QED BY <3>1, <3>2
  <2> QED BY <2>1 DEF SrcsCollected
<1>20. VpinOwners'
       BY <1>1, <1>5 DEF VpinOwners
<1>21. PinsTogether'
  <2>1. ASSUME NEW k \in DOMAIN i.srcs, NEW s \in Comps(i.srcs[k]), ssaReg[s] \in pinned
        PROVE  TryGetVecReg(i.srcs[k]) # None /\ \A t \in Comps(i.srcs[k]) : ssaReg[t] \in pinned
    <3>1. PinnedTogether(i.srcs[k])
          BY DEF Legal
    <3>2. \E j \in DOMAIN i.srcs[k] : ssaReg[i.srcs[k][j]] \in pinned
          BY <2>1 DEF Comps
    <3> QED BY <3>1, <3>2 DEF PinnedTogether, Comps
  <2>2. ASSUME NEW k \in DOMAIN i.srcs PROVE TryGetVecReg(instr.srcs[k])' = TryGetVecReg(i.srcs[k])
        BY <1>1, <1>5 DEF TryGetVecReg
  <2>3. instr'.srcs = i.srcs
        BY <1>1
  <2> QED BY <1>1, <1>5, <2>1, <2>2, <2>3 DEF PinsTogether
<1>22. DstsPlaced'
  <2>1. \A d \in DOMAIN i.dsts : Comps(i.dsts[d]) \cap Live = {}
        BY DEF Legal, NewValues
  <2>2. \A d \in DOMAIN i.dsts : dstReg'[d] = None \/ Planned'
        BY <1>4, <1>11
  <2> QED BY <1>1, <1>5, <2>1, <2>2 DEF DstsPlaced
<1>23. Plans'
  <2> SUFFICES ASSUME mode' = "trivial" PROVE Plans'
      BY <1>4 DEF Plans
  <2>1. pc' = "assign" /\ instr'.dsts = i.dsts /\ used' = used
        BY <1>1, <1>3
  <2>2. \A d \in VecIdx(i.dsts) : \A r \in RangeOf(dstReg'[d], Len(i.dsts[d])) : r \in Reg /\ r \notin used
        BY <1>12
  <2>3. \A d \in DOMAIN i.dsts : d \notin VecIdx(i.dsts) => dstReg'[d] = None
        BY <1>11
  <2>4. \A d, e \in VecIdx(i.dsts) :
                    d # e => RangeOf(dstReg'[d], Len(i.dsts[d])) \cap RangeOf(dstReg'[e], Len(i.dsts[e])) = {}
        BY <1>12
  <2> QED BY <2>1, <2>2, <2>3, <2>4 DEF Plans
<1>24. DstsGiven'
  <2>1. mode' = "trivial" => \A d \in VecIdx(i.dsts) : dstReg'[d] # None
        BY <1>12, RegNat
  <2>2. mode' = "pinMove" => dstReg'[1] = None
    <3>1. mode' = "pinMove" => 1 \in DOMAIN i.dsts
          BY <1>2, <1>10
    <3> QED BY <1>11, <3>1
  <2>3. mode' = "mapped" => \A d \in DOMAIN i.dsts : dstReg'[d] = None
        BY <1>11
  <2>4. instr'.dsts = i.dsts
        BY <1>1
  <2> QED BY <1>3, <2>1, <2>2, <2>3, <2>4 DEF DstsGiven
<1> QED BY <1>6, <1>9, <1>13, <1>14, <1>15, <1>16, <1>17, <1>18, <1>19, <1>20, <1>21, <1>22, <1>23, <1>24 DEF Inv

\* The default arm of assign_regs_instr reads such an instruction.
LEMMA BeginInstrLegal ==
    ASSUME Inv, BeginInstr
    PROVE  \E i : Legal(i) /\ Counted(i) /\ Begin(i)
<1>2. PICK ns \in 0 .. MaxSrcs, nd \in 0 .. MaxDsts :
       \E srcs \in [1 .. ns -> SrcVector], shape \in [1 .. nd -> 1 .. MaxComps] :
           /\ LegalSrcs(srcs) /\ NewValues(FreshDsts(shape))
           /\ \A k \in DOMAIN srcs : PinnedTogether(srcs[k])
           /\ OperandCount(srcs, FreshDsts(shape)) <= MaxOperands
           /\ \E killed \in SUBSET AllComps(srcs) :
                 /\ FitsMaxLive(FreshDsts(shape), killed)
                 /\ Begin([op |-> "instr", srcs |-> srcs, dsts |-> FreshDsts(shape), killed |-> killed])
      BY DEF BeginInstr
<1>3. PICK srcs \in [1 .. ns -> SrcVector], shape \in [1 .. nd -> 1 .. MaxComps] :
           /\ LegalSrcs(srcs) /\ NewValues(FreshDsts(shape))
           /\ \A k \in DOMAIN srcs : PinnedTogether(srcs[k])
           /\ OperandCount(srcs, FreshDsts(shape)) <= MaxOperands
           /\ \E killed \in SUBSET AllComps(srcs) :
                 /\ FitsMaxLive(FreshDsts(shape), killed)
                 /\ Begin([op |-> "instr", srcs |-> srcs, dsts |-> FreshDsts(shape), killed |-> killed])
      BY <1>2
<1>4. PICK killed \in SUBSET AllComps(srcs) :
         /\ FitsMaxLive(FreshDsts(shape), killed)
         /\ Begin([op |-> "instr", srcs |-> srcs, dsts |-> FreshDsts(shape), killed |-> killed])
      BY <1>3
<1>5. ns \in Nat /\ nd \in Nat
      BY SizeAssumption
<1>6. srcs \in Seq(Vector) /\ AllComps(srcs) \subseteq Live
  <2>1. \A k \in 1 .. ns : srcs[k] \in Vector /\ Comps(srcs[k]) \subseteq Live
        BY SrcVectorFacts DEF Inv
  <2>2. srcs \in [1 .. ns -> Vector]
        BY <2>1
  <2>3. srcs \in Seq(Vector) /\ DOMAIN srcs = 1 .. ns
        BY <1>5, <2>2, FunIsSeq
  <2> QED BY <2>1, <2>3 DEF AllComps
<1>7. FreshDsts(shape) \in Seq(Vector)
      BY <1>3, <1>5, FreshFacts
<1> DEFINE i == [op |-> "instr", srcs |-> srcs, dsts |-> FreshDsts(shape), killed |-> killed]
<1>8. i.op = "instr" /\ i.srcs = srcs /\ i.dsts = FreshDsts(shape) /\ i.killed = killed
      OBVIOUS
<1> HIDE DEF i
<1>9. Legal(i)
      BY <1>3, <1>6, <1>7, <1>8 DEF Legal
<1>10. Counted(i)
      BY <1>3, <1>4, <1>8 DEF Counted
<1>11. Begin(i)
      BY <1>4 DEF i
<1> QED BY <1>9, <1>10, <1>11

\* So does the OpCopy arm.
LEMMA BeginCopyLegal ==
    ASSUME Inv, BeginCopy
    PROVE  \E i : Legal(i) /\ Counted(i) /\ Begin(i)
<1> DEFINE fresh == FreshDsts(<<1>>)
<1>2. PICK s \in Live : \E killed \in SUBSET {s} :
         /\ NewValues(fresh) /\ FitsMaxLive(fresh, killed)
         /\ Begin([op |-> "copy", srcs |-> <<<<s>>>>, dsts |-> fresh, killed |-> killed])
      BY DEF BeginCopy
<1>3. PICK killed \in SUBSET {s} :
         /\ NewValues(fresh) /\ FitsMaxLive(fresh, killed)
         /\ Begin([op |-> "copy", srcs |-> <<<<s>>>>, dsts |-> fresh, killed |-> killed])
      BY <1>2
<1> DEFINE vec == <<s>>
           srcs == <<vec>>
<1>4. vec \in Vector /\ Comps(vec) = {s} /\ DOMAIN vec = {1} /\ vec[1] = s /\ Len(vec) = 1
  <2>1. s \in SSA
        BY DEF Inv, TableTypes
  <2>2. vec \in Seq(SSA) /\ Len(vec) = 1 /\ DOMAIN vec = {1} /\ vec[1] = s
        BY <2>1
  <2>3. Injective(vec) /\ Comps(vec) = {s}
        BY <2>2 DEF Injective, Comps
  <2> QED BY <2>2, <2>3, SizeAssumption DEF Vector
<1>5. srcs \in Seq(Vector) /\ Len(srcs) = 1 /\ DOMAIN srcs = {1} /\ srcs[1] = vec
  <2> HIDE DEF vec
  <2> QED BY <1>4
<1> HIDE DEF srcs
<1>6. AllComps(srcs) = {s} /\ LegalSrcs(srcs)
  <2> HIDE DEF vec
  <2> QED BY <1>4, <1>5 DEF AllComps, LegalSrcs
<1>7. fresh \in Seq(Vector) /\ Len(fresh) = 1 /\ VecIdx(fresh) = {}
  <2>1. 1 \in Nat /\ <<1>> \in [1 .. 1 -> 1 .. MaxComps] /\ <<1>>[1] = 1
        BY SizeAssumption
  <2>2. fresh \in Seq(Vector) /\ Len(fresh) = 1 /\ DOMAIN fresh = 1 .. 1 /\ \A d \in 1 .. 1 : Len(fresh[d]) = <<1>>[d]
        BY <1>3, <2>1, FreshFacts
  <2>3. Len(fresh[1]) = 1 /\ DOMAIN fresh = {1}
        BY <2>1, <2>2
  <2> HIDE DEF fresh
  <2>4. \A d \in DOMAIN fresh : ~(Len(fresh[d]) > 1)
    <3>1. ~(1 > 1)
          OBVIOUS
    <3> QED BY <2>3, <3>1
  <2> QED BY <2>2, <2>4 DEF VecIdx
<1>8. PinnedTogether(vec)
  <2>1. ASSUME ssaReg[s] \in pinned PROVE TryGetVecReg(vec) # None
    <3>1. ssaReg[s] \in Reg /\ ssaReg[s] # None /\ ssaReg[s] \in Int
          BY RegNat, RegInt DEF Inv, TableTypes
    <3>2. \A x \in Int : x % 1 = 0 /\ x + 1 - 1 = x
          OBVIOUS
    <3>3. Align(Len(vec)) = 1
          BY <1>4 DEF Align
    <3> HIDE DEF vec
    <3>4. TryGetVecReg(vec) = ssaReg[s]
          BY <1>4, <3>1, <3>2, <3>3, InPlaceGiven
    <3> QED BY <3>1, <3>4
  <2> HIDE DEF vec
  <2> QED BY <1>4, <2>1 DEF PinnedTogether
<1> DEFINE i == [op |-> "copy", srcs |-> srcs, dsts |-> fresh, killed |-> killed]
<1>9. i.op = "copy" /\ i.srcs = srcs /\ i.dsts = fresh /\ i.killed = killed
      OBVIOUS
<1>10. Begin(i)
      BY <1>3 DEF srcs
<1> HIDE DEF i, fresh, vec
<1>11. Legal(i)
      BY <1>3, <1>5, <1>6, <1>7, <1>8, <1>9 DEF Legal
<1>12. Counted(i)
      BY <1>3, <1>4, <1>5, <1>9 DEF Counted
<1> QED BY <1>10, <1>11, <1>12

\* And so does the OpPin and OpUnpin arm.
LEMMA BeginPinLegal ==
    ASSUME Inv, BeginPin
    PROVE  \E i : Legal(i) /\ Counted(i) /\ Begin(i)
<1>2. PICK op \in {"pin", "unpin"}, vec \in SrcVector :
       \E killed \in SUBSET Comps(vec) :
           /\ PinnedTogether(vec) /\ NewValues(FreshDsts(<<Len(vec)>>))
           /\ Cardinality(PinnedRanges(pinned)) < MaxOperands
           /\ FitsMaxLive(FreshDsts(<<Len(vec)>>), killed)
           /\ Begin([op |-> op, srcs |-> <<vec>>, dsts |-> FreshDsts(<<Len(vec)>>), killed |-> killed])
      BY DEF BeginPin
<1>3. PICK killed \in SUBSET Comps(vec) :
           /\ PinnedTogether(vec) /\ NewValues(FreshDsts(<<Len(vec)>>))
           /\ Cardinality(PinnedRanges(pinned)) < MaxOperands
           /\ FitsMaxLive(FreshDsts(<<Len(vec)>>), killed)
           /\ Begin([op |-> op, srcs |-> <<vec>>, dsts |-> FreshDsts(<<Len(vec)>>), killed |-> killed])
      BY <1>2
<1> DEFINE fresh == FreshDsts(<<Len(vec)>>)
           srcs == <<vec>>
<1>4. vec \in Vector /\ Comps(vec) \subseteq Live
      BY SrcVectorFacts DEF Inv
<1>5. srcs \in Seq(Vector) /\ Len(srcs) = 1 /\ DOMAIN srcs = {1} /\ srcs[1] = vec
      BY <1>4
<1> HIDE DEF srcs
<1>6. AllComps(srcs) = Comps(vec) /\ LegalSrcs(srcs)
      BY <1>4, <1>5 DEF AllComps, LegalSrcs
<1>7. fresh \in Seq(Vector) /\ Len(fresh) = 1 /\ Len(fresh[1]) = Len(vec)
  <2>1. Len(vec) \in 1 .. MaxComps
        BY <1>4 DEF Vector
  <2>2. 1 \in Nat /\ <<Len(vec)>> \in [1 .. 1 -> 1 .. MaxComps] /\ <<Len(vec)>>[1] = Len(vec)
        BY <2>1
  <2>3. fresh \in Seq(Vector) /\ Len(fresh) = 1 /\ \A d \in 1 .. 1 : Len(fresh[d]) = <<Len(vec)>>[d]
        BY <1>3, <2>2, FreshFacts
  <2> HIDE DEF fresh
  <2> QED BY <2>2, <2>3
<1> DEFINE i == [op |-> op, srcs |-> srcs, dsts |-> fresh, killed |-> killed]
<1>8. i.op = op /\ i.srcs = srcs /\ i.dsts = fresh /\ i.killed = killed
      OBVIOUS
<1>9. Begin(i)
      BY <1>3 DEF srcs
<1>10. NewValues(fresh) /\ FitsMaxLive(fresh, killed)
      BY <1>3
<1> HIDE DEF i, fresh
<1>11. Legal(i)
      BY <1>3, <1>4, <1>5, <1>6, <1>7, <1>8, <1>10 DEF Legal
<1>12. Counted(i)
      BY <1>2, <1>3, <1>8, <1>10 DEF Counted
<1> QED BY <1>9, <1>11, <1>12

\* The three arms start in the invariant.
LEMMA BeginsInv ==
    ASSUME Inv, BeginInstr \/ BeginCopy \/ BeginPin
    PROVE  Inv'
<1>1. pc = "idle"
      BY DEF BeginInstr, BeginCopy, BeginPin, AtInstr
<1>2. PICK i : Legal(i) /\ Begin(i)
      BY BeginInstrLegal, BeginCopyLegal, BeginPinLegal
<1> QED BY <1>1, <1>2, BeginInv

----------------------------------------------------------------------------
(* The invariant                                                            *)

\* A stuttering step keeps the invariant.
LEMMA StutterInv ==
    ASSUME Inv, UNCHANGED vars
    PROVE  Inv'
<1>1. /\ ssaReg' = ssaReg /\ regSsa' = regSsa /\ used' = used /\ pinned' = pinned
      /\ vpin' = vpin /\ evicted' = evicted /\ pcopy' = pcopy
      /\ instr' = instr /\ mode' = mode /\ pc' = pc /\ n' = n /\ c' = c /\ tgt' = tgt
      /\ srcReg' = srcReg /\ dstReg' = dstReg /\ val' = val
      BY DEF vars, alloc, vra, operands
<1>2. Live' = Live /\ Srcs' = Srcs /\ Dsts' = Dsts /\ Copied' = Copied
      BY <1>1, SameInstr, SameCopy, SameTables
<1>3. TableTypes' /\ Tables' /\ CopyTypes' /\ OperandTypes' /\ InstrOK' /\ (DOMAIN evicted \cap Live = {})'
      BY <1>1, <1>2, SameInstr, SameTables DEF Inv, CopyTypes, OperandTypes
<1>4. (BeforeFree' <=> BeforeFree) /\ (Planned' <=> Planned) /\ (Collecting' <=> Collecting)
      BY <1>1 DEF BeforeFree, Planned, Collecting
<1>5. DoneSrcs' = DoneSrcs /\ Settled' = Settled
  <2>1. DoneSrcs' = DoneSrcs
        BY <1>1, <1>4 DEF DoneSrcs
  <2> QED BY <1>1, <2>1 DEF Settled
<1>6. Places' /\ AtIdle' /\ PinsKnown' /\ NoneLeft' /\ MoveOK'
      BY <1>1, <1>2 DEF Inv, Places, AtIdle, PinsKnown, NoneLeft, MoveOK
<1>7. Held' /\ EvictedHeld' /\ CopyOK' /\ VpinUsed' /\ SrcsKept'
      BY <1>1, <1>2, <1>4 DEF Inv, Held, EvictedHeld, CopyOK, CopyWellFormed, VpinUsed, SrcsKept
<1>8. SrcsCollected' /\ VpinOwners' /\ PinsTogether'
  <2>1. \A k : Collected(k) => Collected(k)'
        BY <1>1, <1>2, <1>4 DEF Collected
  <2>2. SrcsCollected'
        BY <1>1, <1>5, <2>1 DEF Inv, SrcsCollected
  <2>3. VpinOwners'
        BY <1>1, <1>2, <1>4, <1>5 DEF Inv, VpinOwners
  <2>4. PinsTogether'
        BY <1>1, <1>2, <1>4, SameTables DEF Inv, PinsTogether
  <2> QED BY <2>2, <2>3, <2>4
<1>9. DstsPlaced' /\ Plans' /\ DstsGiven'
  <2>1. \A d : Placed(d) => Placed(d)'
        BY <1>1, <1>2 DEF Placed
  <2>2. DstsPlaced'
        BY <1>1, <1>2, <1>4, <2>1 DEF Inv, DstsPlaced
  <2>3. Plans' /\ DstsGiven'
        BY <1>1, <1>4 DEF Inv, Plans, DstsGiven
  <2> QED BY <2>2, <2>3
<1> QED BY <1>3, <1>6, <1>7, <1>8, <1>9 DEF Inv

\* Every step keeps the invariant.
LEMMA NextInv ==
    ASSUME Inv, Next
    PROVE  Inv'
BY BeginsInv, CollectInPlaceInv, CollectElsewhereInv, CollectDoneInv,
   MoveStayInv, MoveAllocatedInv, MoveEvictedInv, AllocVectorInv, AllocDoneInv, AssignDstsInv, FreeKilledInv,
   FinishOneInv, FinishDoneInv, CoalesceInv, AllocScalarInv, EmitInstrInv, PinRenameInv, PinCopyInv, StutterInv
   DEF Next, BlockDone

\* At every step of the handler each live value and each evicted one is where
\* the allocator believes it to be.
THEOREM AllocatorInvariant == Spec => []Inv
<1>1. Inv /\ [Next]_vars => Inv'
      BY NextInv, StutterInv
<1> QED BY <1>1, InitInv, PTL DEF Spec

\* ssa_reg, reg_ssa, used and pinned of RegAllocator describe one assignment
\* after every free_ssa and assign_reg.
THEOREM TablesAgreeHolds == Spec => []TablesAgree
<1>1. Inv => TablesAgree
      BY DEF Inv, Tables, TablesAgree
<1> QED BY <1>1, AllocatorInvariant, PTL

\* Between instructions every live value is in the register ssa_reg names: no
\* parallel copy and no destination overwrites it.
THEOREM LiveValuesHeldHolds == Spec => []LiveValuesHeld
<1>1. ASSUME Inv, pc = "idle" PROVE \A s \in Live : val[ssaReg[s]] = s
  <2>1. pcopy = << >> /\ instr = NoInstr
        BY <1>1 DEF Inv, AtIdle
  <2>2. Dsts = {}
        BY <2>1 DEF Dsts, AllComps, NoInstr
  <2>3. Copied = val
        BY <1>1, <2>1, CopyEmpty DEF Copied, Inv, CopyTypes
  <2> QED BY <1>1, <2>2, <2>3 DEF Inv, Held
<1>2. Inv => LiveValuesHeld
      BY <1>1 DEF LiveValuesHeld
<1> QED BY <1>2, AllocatorInvariant, PTL

\* The registers written into an instruction's sources are aligned and hold
\* the source values once the parallel copy in front of it has run.
THEOREM SourcesHeldHolds == Spec => []SourcesHeld
<1>1. ASSUME Inv, (pc = "scalar" /\ mode # "pinCopy") \/ pc = "rename", NEW k \in DOMAIN instr.srcs
      PROVE  /\ srcReg[k] % Align(Len(instr.srcs[k])) = 0
             /\ \A j \in DOMAIN instr.srcs[k] : AfterCopy(val, pcopy)[srcReg[k] + j - 1] = instr.srcs[k][j]
  <2>1. mode # "pinCopy"
        BY <1>1 DEF Inv, Places
  <2>2. DoneSrcs = DOMAIN instr.srcs
        BY <1>1, <2>1 DEF DoneSrcs, Collecting
  <2>3. Collected(k)
        BY <1>1, <2>2 DEF Inv, SrcsCollected
  <2> QED BY <2>3 DEF Collected, Copied
<1>2. ASSUME Inv, pc = "pinCopy", NEW s \in Comps(instr.srcs[1]) PROVE AfterCopy(val, pcopy)[ssaReg[s]] = s
  <2>1. mode = "pinCopy"
        BY <1>2 DEF Inv, Places
  <2>2. 1 \in DOMAIN instr.srcs
        BY <1>2, <2>1, Operands DEF Inv, InstrOK
  <2>3. s \in Srcs /\ s \notin Dsts
        BY <1>2, <2>2 DEF Srcs, AllComps, Inv, InstrOK
  <2>4. s \in Live
        BY <1>2, <2>3 DEF Inv, SrcsKept, NoneLeft, BeforeFree
  <2> QED BY <1>2, <2>3, <2>4 DEF Inv, Held, Copied
<1>3. Inv => SourcesHeld
      BY <1>1, <1>2 DEF SourcesHeld
<1> QED BY <1>3, AllocatorInvariant, PTL

\* The parallel copy that VecRegAllocator emits writes each register at most
\* once and copies no register to itself.
THEOREM CopyWellFormedHolds == Spec => []CopyWellFormed
<1>1. Inv => CopyWellFormed
      BY DEF Inv, CopyOK
<1> QED BY <1>1, AllocatorInvariant, PTL

----------------------------------------------------------------------------
(* Pinned values                                                            *)

\* A value that is neither freed nor given a place stays where it is.
LEMMA OthersStay ==
    ASSUME NEW gone, NEW m, Reassign(gone, m), NEW s \in Live, s \notin gone, s \notin DOMAIN m
    PROVE  s \in DOMAIN ssaReg' /\ ssaReg'[s] = ssaReg[s]
<1>1. ssaReg' = Overlay(Without(ssaReg, gone), m)
      BY DEF Reassign
<1> QED BY <1>1 DEF Overlay, Without, Live

\* One step moves no pinned value that lives on.
LEMMA PinnedStep ==
    ASSUME Inv, Next, NEW s \in Live, ssaReg[s] \in pinned, s \notin instr.killed
    PROVE  s \in DOMAIN ssaReg' /\ ssaReg'[s] = ssaReg[s]
<1> DEFINE Stays == s \in DOMAIN ssaReg' /\ ssaReg'[s] = ssaReg[s]
<1>1. ASSUME ssaReg' = ssaReg PROVE Stays
      BY <1>1 DEF Live
<1>2. pc # "idle" => ssaReg[s] \in vpin
      BY DEF Inv, PinsKnown
<1>3. ASSUME NEW d \in DOMAIN instr.dsts, dstReg[d] = None \/ Planned PROVE s \notin Comps(instr.dsts[d])
      BY <1>3 DEF Inv, DstsPlaced
<1>4. CASE BeginInstr \/ BeginCopy \/ BeginPin
  <2>1. ASSUME NEW i, Begin(i) PROVE ssaReg' = ssaReg
        BY <2>1 DEF Begin, alloc
  <2>2. ssaReg' = ssaReg
    <3>1. CASE BeginInstr
          BY <2>1, <3>1 DEF BeginInstr
    <3>2. CASE BeginCopy
          BY <2>1, <3>2 DEF BeginCopy
    <3>3. CASE BeginPin
          BY <2>1, <3>3 DEF BeginPin
    <3> QED BY <1>4, <3>1, <3>2, <3>3
  <2> QED BY <1>1, <2>2
<1>5. CASE CollectInPlace \/ CollectElsewhere \/ CollectDone \/ MoveStay \/ AllocDone \/ FinishDone \/ BlockDone
  <2>1. ssaReg' = ssaReg
        BY <1>5 DEF CollectInPlace, CollectElsewhere, CollectDone, MoveStay, AllocDone, FinishDone, BlockDone,
                    vars, alloc
  <2> QED BY <1>1, <2>1
<1>6. CASE MoveAllocated \/ MoveEvicted
  <2>1. Advance /\ pc = "move"
    <3>1. CASE MoveAllocated
          BY <3>1, PlaceFacts DEF MoveAllocated
    <3>2. CASE MoveEvicted
          BY <3>2, PlaceFacts DEF MoveEvicted
    <3> QED BY <1>6, <3>1, <3>2
  <2> QED BY <1>2, <2>1 DEF Advance, Live
<1>7. CASE AllocVector
  <2>1. PICK d \in DOMAIN instr.dsts, reg \in Reg :
          /\ dstReg[d] = None /\ RangeOf(reg, Len(instr.dsts[d])) \cap vpin = {}
          /\ Reassign(Occupants(RangeOf(reg, Len(instr.dsts[d]))), VecMap(instr.dsts[d], reg))
        BY <1>7, AllocVectorFacts
  <2>2. s \notin Occupants(RangeOf(reg, Len(instr.dsts[d])))
    <3>1. pc = "alloc"
          BY <1>7 DEF AllocVector
    <3>2. ssaReg[s] \notin RangeOf(reg, Len(instr.dsts[d]))
          BY <1>2, <2>1, <3>1
    <3> QED BY <3>2, OneEach DEF Inv
  <2>3. s \notin DOMAIN VecMap(instr.dsts[d], reg)
        BY <1>3, <2>1 DEF VecMap
  <2> QED BY <2>1, <2>2, <2>3, OthersStay
<1>8. CASE AssignDsts
  <2>1. Reassign({}, DstMap(instr.dsts, dstReg)) /\ Planned
        BY <1>8 DEF AssignDsts, Planned
  <2>2. s \notin DOMAIN DstMap(instr.dsts, dstReg)
    <3>1. DOMAIN DstMap(instr.dsts, dstReg) = UNION {Comps(instr.dsts[d]) : d \in VecIdx(instr.dsts)}
          BY DEF DstMap
    <3> QED BY <1>3, <2>1, <3>1 DEF VecIdx
  <2> QED BY <2>1, <2>2, OthersStay
<1>9. CASE FreeKilled \/ PinCopy
  <2>1. Reassign(instr.killed, EmptyFn)
        BY <1>9 DEF FreeKilled, PinCopy, Freed
  <2>2. s \notin DOMAIN EmptyFn
        BY DEF EmptyFn
  <2> QED BY <2>1, <2>2, OthersStay
<1>10. CASE FinishOne
  <2>1. PICK t \in DOMAIN evicted, new \in Reg : Reassign({}, One(t, new))
        BY <1>10, FinishOneFacts
  <2>2. s # t
        BY <2>1 DEF Inv, EvictedHeld
  <2>3. s \notin DOMAIN One(t, new)
        BY <2>2 DEF One
  <2> QED BY <2>1, <2>3, OthersStay
<1>11. CASE Coalesce \/ AllocScalar
  <2>1. PICK d \in DOMAIN instr.dsts : dstReg[d] = None /\ \E reg : Reassign({}, One(instr.dsts[d][1], reg))
    <3>1. CASE Coalesce
      <4>1. NextScalarDst # {} /\ instr.op = "copy" /\ AssignScalar(1, srcReg[1])
            BY <3>1 DEF Coalesce, CanCoalesce
      <4>2. DOMAIN instr.dsts = {1}
            BY <4>1, Operands DEF Inv, InstrOK
      <4> QED BY <4>1, <4>2 DEF NextScalarDst, AssignScalar
    <3>2. CASE AllocScalar
      <4>1. NextScalarDst # {}
            BY <3>2 DEF AllocScalar
      <4>2. PICK reg \in Reg \ used : AssignScalar(Minimum(NextScalarDst), reg)
            BY <3>2 DEF AllocScalar
      <4>3. NextScalarDst \in SUBSET Nat
            BY Operands DEF Inv, NextScalarDst
      <4>4. Minimum(NextScalarDst) \in NextScalarDst
            BY <4>1, <4>3, SmallestNumber
      <4> QED BY <4>2, <4>4 DEF NextScalarDst, AssignScalar
    <3> QED BY <1>11, <3>1, <3>2
  <2>2. instr.dsts[d][1] \in Comps(instr.dsts[d])
        BY Operands, VectorFacts DEF Inv
  <2>3. s # instr.dsts[d][1]
        BY <1>3, <2>1, <2>2
  <2>4. PICK reg : Reassign({}, One(instr.dsts[d][1], reg))
        BY <2>1
  <2>5. s \notin DOMAIN One(instr.dsts[d][1], reg)
        BY <2>3 DEF One
  <2> QED BY <2>4, <2>5, OthersStay
<1>12. CASE PinRename
  <2>1. Reassign(Comps(instr.srcs[1]), VecMap(instr.dsts[1], srcReg[1])) /\ mode = "pinMove" /\ pc = "rename"
        BY <1>12 DEF PinRename, Inv, Places
  <2>2. 1 \in DOMAIN instr.srcs /\ 1 \in DOMAIN instr.dsts /\ instr.killed = Srcs /\ dstReg[1] = None
        BY <2>1, Operands DEF Inv, InstrOK, DstsGiven
  <2>3. s \notin Comps(instr.srcs[1])
        BY <2>2 DEF Srcs, AllComps
  <2>4. s \notin DOMAIN VecMap(instr.dsts[1], srcReg[1])
        BY <1>3, <2>2 DEF VecMap
  <2> QED BY <2>1, <2>3, <2>4, OthersStay
<1>13. CASE EmitInstr
  <2>1. PICK dead \in SUBSET AllComps(instr.dsts) : ssaReg' = Without(ssaReg, dead)
        BY <1>13 DEF EmitInstr
  <2>2. ~Planned
        BY <1>13 DEF EmitInstr, Planned
  <2>3. s \notin Dsts
    <3>1. ASSUME s \in Dsts PROVE FALSE
      <4>1. PICK d \in DOMAIN instr.dsts : \E k \in DOMAIN instr.dsts[d] :
               Placed(d) /\ s = instr.dsts[d][k] /\ ssaReg[s] = dstReg[d] + k - 1
            BY <2>2, <3>1, DstsLive DEF Inv
      <4> QED BY <4>1 DEF Placed
    <3> QED BY <3>1
  <2> QED BY <2>1, <2>3 DEF Dsts, Without, Live
<1> QED BY <1>4, <1>5, <1>6, <1>7, <1>8, <1>9, <1>10, <1>11, <1>12, <1>13 DEF Next

\* A value in a register that OpPin pinned stays there until it is killed,
\* whatever the instructions in between evict.
THEOREM PinnedStayHolds == Spec => PinnedStay
<1>1. Inv /\ [Next]_vars =>
        [\A s \in Live : ssaReg[s] \in pinned =>
           \/ s \in instr.killed
           \/ s \in DOMAIN ssaReg' /\ ssaReg'[s] = ssaReg[s]]_vars
      BY PinnedStep
<1> QED BY <1>1, AllocatorInvariant, PTL DEF Spec, PinnedStay
=============================================================================
