-------------------------- MODULE InstrDepsProofs --------------------------
(***************************************************************************)
(* The post-RA scheduler keeps conflicting instructions in their order, for *)
(* code of any length over any number of registers.                         *)
(*                                                                          *)
(* The scheduler draws edges to the nearest dependent only.  The proof is   *)
(* that this is enough: an instruction is placed when no unplaced one        *)
(* depends on it directly, and then no unplaced one conflicts with it at     *)
(* all, since between two conflicting instructions without an edge there is  *)
(* one that conflicts with both.                                            *)
(***************************************************************************)
EXTENDS InstrDeps, SequenceTheorems, WellFoundedInduction, TLAPS

Instruction == [b : Nat, k : {"alu", "var", "mem", "sync", "bra"},
                dst : SUBSET Regs, src : SUBSET Regs, to : Nat, cond : BOOLEAN]

\* The code is in layout order.
LaidOut == /\ code \in Seq(Instruction)
           /\ \A i, j \in Instrs : i <= j => code[i].b <= code[j].b

\* What was placed, each instruction once, and when the scheduler has run.
Placed == /\ order \in Seq(Instrs)
          /\ \A p, q \in 1 .. Len(order) : order[p] = order[q] => p = q
          /\ stage \in {"serial", "graph", "bars"} => order = << >>

\* j must stay behind i.
MustFollow(i, j) == i < j /\ SameBlock(i, j) /\ Conflict(i, j)

\* Nothing that must stay behind a placed instruction is still to be placed
\* in front of it.
NoneLeftBehind == \A q \in 1 .. Len(order) : \A j \in Unplaced : ~MustFollow(order[q], j)

KeepsOrder ==
    \A p, q \in 1 .. Len(order) : p < q => ~MustFollow(order[q], order[p])

SchedInv == LaidOut /\ Placed /\ NoneLeftBehind /\ KeepsOrder

\* A set of numbers that is not empty has a smallest one.
LEMMA SmallestNumber ==
    ASSUME NEW S \in SUBSET Nat, S # {}
    PROVE  \E x \in S : \A y \in S : x <= y
<1>1. PICK x \in S : \A y \in S : ~ (<<y, x>> \in OpToRel(<, Nat))
      BY NatLessThanWellFounded, WFMin
<1>2. ASSUME NEW y \in S PROVE x <= y
  <2>1. x \in Nat /\ y \in Nat
        OBVIOUS
  <2>2. <<y, x>> \in Nat \X Nat /\ <<y, x>>[1] = y /\ <<y, x>>[2] = x
        BY <2>1
  <2>3. y < x => <<y, x>> \in OpToRel(<, Nat)
        BY <2>2, Zenon DEF OpToRel
  <2>4. ~(y < x)
        BY <1>1, <2>3
  <2> QED BY <2>1, <2>4
<1> QED BY <1>2

\* Two conflicting instructions have an edge, or there is an instruction
\* between them that conflicts with both: the one that hides the edge.
LEMMA HiddenBySomeone ==
    ASSUME LaidOut, NEW i \in Instrs, NEW j \in Instrs, MustFollow(i, j), ~DepEdge(i, j)
    PROVE  \E k \in Instrs : k < j /\ MustFollow(i, k) /\ MustFollow(k, j)
<1>1. i < j /\ SameBlock(i, j) /\ Conflict(i, j) /\ ~RegEdge(i, j) /\ ~SideEffectEdge(i, j)
      BY DEF MustFollow, DepEdge
<1>2. Len(code) \in Nat /\ \A k \in i + 1 .. j - 1 : k \in Instrs /\ i < k /\ k < j
      BY LenProperties DEF LaidOut, Instrs
<1>3. ASSUME NEW k \in i + 1 .. j - 1 PROVE SameBlock(i, k) /\ SameBlock(k, j)
  <2>1. k \in Instrs /\ i <= k /\ k <= j
        BY <1>2 DEF Instrs
  <2>2. code[i].b <= code[k].b /\ code[k].b <= code[j].b /\ code[i].b = code[j].b
        BY <1>1, <2>1 DEF LaidOut, SameBlock
  <2>3. code[i] \in Instruction /\ code[k] \in Instruction
        BY <2>1, ElementOfSeq DEF LaidOut, Instrs
  <2>4. code[i].b \in Nat /\ code[k].b \in Nat
        BY <2>3 DEF Instruction
  <2>5. code[i].b = code[k].b
        BY <2>2, <2>4
  <2> QED BY <2>2, <2>5 DEF SameBlock
<1>4. SUFFICES \E k \in i + 1 .. j - 1 : Conflict(i, k) /\ Conflict(k, j)
      BY <1>2, <1>3 DEF MustFollow
<1>5. CASE \E r \in code[i].dst : r \in Touches(j)
  <2>1. PICK r \in code[i].dst : r \in Touches(j)
        BY <1>5
  <2>2. PICK k \in i + 1 .. j - 1 : r \in code[k].dst
        BY <1>1, <2>1 DEF RegEdge, WrittenBetween
  <2>3. Conflict(i, k) /\ Conflict(k, j)
        BY <2>1, <2>2 DEF Conflict, Touches
  <2> QED BY <2>3
<1>6. CASE \E r \in code[i].src : r \in code[j].dst
  <2>1. PICK r \in code[i].src : r \in code[j].dst
        BY <1>6
  <2>2. PICK k \in i + 1 .. j - 1 : r \in code[k].dst
        BY <1>1, <2>1 DEF RegEdge, WrittenBetween
  <2>3. Conflict(i, k) /\ Conflict(k, j)
        BY <2>1, <2>2 DEF Conflict, Touches
  <2> QED BY <2>3
<1>7. CASE IsMemory(i) /\ IsMemory(j)
  <2>1. PICK k \in i + 1 .. j - 1 : IsMemory(k)
        BY <1>1, <1>7 DEF SideEffectEdge
  <2> QED BY <1>7, <2>1 DEF Conflict
<1>8. CASE IsMotionBarrier(i) \/ IsMotionBarrier(j)
  <2>1. PICK k \in i + 1 .. j - 1 : IsMotionBarrier(k)
        BY <1>1, <1>8 DEF SideEffectEdge
  <2> QED BY <2>1 DEF Conflict
<1> QED BY <1>1, <1>5, <1>6, <1>7, <1>8 DEF Conflict, Touches

\* An instruction that generate_order may place has nothing behind it left,
\* directly or indirectly.
LEMMA ReadyIsEnough ==
    ASSUME SchedInv, NEW i \in Unplaced, Ready(i), NEW j \in Unplaced
    PROVE  ~MustFollow(i, j)
<1> DEFINE S == {k \in Unplaced : MustFollow(i, k)}
<1>1. Unplaced \subseteq Instrs /\ Instrs \subseteq Nat
      BY DEF Unplaced, Instrs
<1>2. SUFFICES ASSUME S # {} PROVE FALSE
      OBVIOUS
<1>3. PICK k \in S : \A l \in S : k <= l
      BY <1>1, <1>2, SmallestNumber
<1>4. k \in Unplaced /\ k \in Instrs /\ k \in Nat /\ MustFollow(i, k) /\ ~DepEdge(i, k)
      BY <1>1, <1>3 DEF Ready
<1>5. PICK l \in Instrs : l < k /\ MustFollow(i, l) /\ MustFollow(l, k)
      BY <1>1, <1>4, HiddenBySomeone DEF SchedInv
<1>6. l \in Nat /\ ~(k <= l)
      BY <1>1, <1>4, <1>5
<1>7. l \notin Unplaced
      BY <1>3, <1>5, <1>6
<1>8. PICK q \in 1 .. Len(order) : order[q] = l
  <2>1. DOMAIN order = 1 .. Len(order)
        BY LenProperties DEF SchedInv, Placed
  <2> QED BY <1>5, <1>7, <2>1 DEF Unplaced, ToSet
<1> QED BY <1>4, <1>5, <1>8 DEF SchedInv, NoneLeftBehind

\* The passes start with the code in layout order and nothing placed.
LEMMA InitSched == Init => SchedInv
<1> SUFFICES ASSUME Init PROVE SchedInv
    OBVIOUS
<1>1. LaidOut
      BY CodesAssumption DEF Init, LaidOut, Instruction, Instrs
<1>2. order = << >> /\ << >> \in Seq(Instrs) /\ Len(<< >>) = 0 /\ 1 .. 0 = {}
      BY DEF Init
<1> QED BY <1>1, <1>2 DEF SchedInv, Placed, NoneLeftBehind, KeepsOrder

\* generate_order places an instruction in front of those it has placed.
LEMMA ScheduleKeeps ==
    ASSUME SchedInv, NEW i \in Instrs, Schedule(i)
    PROVE  SchedInv'
<1>1. /\ stage = "sched" /\ i \in Unplaced /\ Ready(i) /\ order' = <<i>> \o order
      /\ code' = code /\ stage' = stage
      BY DEF Schedule
<1>2. Instrs' = Instrs /\ LaidOut'
      BY <1>1 DEF Instrs, SchedInv, LaidOut
<1>3. ASSUME NEW a, NEW b PROVE MustFollow(a, b)' <=> MustFollow(a, b)
      BY <1>1 DEF MustFollow, SameBlock, Conflict, Touches, IsMemory, IsMotionBarrier
<1>4. order \in Seq(Instrs) /\ Len(order) \in Nat /\ DOMAIN order = 1 .. Len(order)
      BY LenProperties DEF SchedInv, Placed
<1>5. /\ <<i>> \in Seq(Instrs) /\ Len(<<i>>) = 1 /\ <<i>>[1] = i
      OBVIOUS
<1>6. /\ order' \in Seq(Instrs) /\ Len(order') = Len(order) + 1
      /\ order'[1] = i
      /\ \A q \in 2 .. Len(order) + 1 : order'[q] = order[q - 1]
  <2>1. /\ order' \in Seq(Instrs) /\ Len(order') = 1 + Len(order)
        /\ \A q \in 1 .. 1 + Len(order) : order'[q] = IF q <= 1 THEN <<i>>[q] ELSE order[q - 1]
        BY <1>1, <1>4, <1>5, ConcatProperties, Zenon
  <2> QED BY <1>4, <1>5, <2>1
<1> DEFINE old(q) == q - 1
<1>7. ASSUME NEW q \in 1 .. Len(order')
      PROVE  (q = 1 /\ order'[q] = i) \/
             (q # 1 /\ old(q) \in 1 .. Len(order) /\ order'[q] = order[old(q)])
      BY <1>4, <1>6
<1>8. \A q \in 1 .. Len(order) : order[q] # i /\ order[q] \in Instrs
      BY <1>1, <1>4, ElementOfSeq DEF Unplaced, ToSet
<1>9. Placed'
  <2>1. ASSUME NEW p \in 1 .. Len(order'), NEW q \in 1 .. Len(order'), order'[p] = order'[q]
        PROVE  p = q
    <3>1. CASE p = 1 \/ q = 1
          BY <1>7, <1>8, <2>1, <3>1
    <3>2. CASE p # 1 /\ q # 1
      <4>1. old(p) \in 1 .. Len(order) /\ old(q) \in 1 .. Len(order)
            /\ order[old(p)] = order[old(q)]
            BY <1>7, <2>1, <3>2
      <4>2. old(p) = old(q)
            BY <4>1 DEF SchedInv, Placed
      <4> QED BY <4>2
    <3> QED BY <3>1, <3>2
  <2> QED BY <1>1, <1>2, <1>6, <2>1 DEF Placed
<1>10. Unplaced' \subseteq Unplaced \ {i}
  <2>1. DOMAIN order' = 1 .. Len(order')
        BY <1>6, LenProperties
  <2>2. ASSUME NEW q \in 1 .. Len(order) PROVE order[q] \in ToSet(order')
    <3>1. q + 1 \in 1 .. Len(order') /\ order'[q + 1] = order[q]
          BY <1>4, <1>6
    <3> QED BY <2>1, <3>1 DEF ToSet
  <2>3. i \in ToSet(order')
    <3>1. 1 \in 1 .. Len(order')
          BY <1>4, <1>6
    <3> QED BY <1>6, <2>1, <3>1 DEF ToSet
  <2> QED BY <1>2, <1>4, <2>2, <2>3 DEF Unplaced, ToSet
<1>11. \A j \in Unplaced : ~MustFollow(i, j)
       BY <1>1, ReadyIsEnough
<1> HIDE DEF old
<1>12. NoneLeftBehind'
  <2>1. ASSUME NEW q \in 1 .. Len(order'), NEW j \in Unplaced' PROVE ~MustFollow(order'[q], j)
    <3>1. j \in Unplaced
          BY <1>10
    <3> QED BY <1>7, <1>11, <3>1 DEF SchedInv, NoneLeftBehind
  <2> QED BY <1>3, <2>1 DEF NoneLeftBehind
<1>13. KeepsOrder'
  <2>1. ASSUME NEW p \in 1 .. Len(order'), NEW q \in 1 .. Len(order'), p < q
        PROVE  ~MustFollow(order'[q], order'[p])
    <3>1. q # 1 /\ old(q) \in 1 .. Len(order) /\ order'[q] = order[old(q)]
      <4>1. q # 1
            BY <2>1
      <4> QED BY <1>7, <4>1
    <3>2. CASE p = 1
          BY <1>1, <1>6, <3>1, <3>2 DEF SchedInv, NoneLeftBehind
    <3>3. CASE p # 1
      <4>1. old(p) \in 1 .. Len(order) /\ order'[p] = order[old(p)]
            BY <1>7, <3>3
      <4>2. old(p) < old(q)
            BY <2>1 DEF old
      <4> QED BY <3>1, <4>1, <4>2 DEF SchedInv, KeepsOrder
    <3> QED BY <3>2, <3>3
  <2> QED BY <1>3, <2>1 DEF KeepsOrder
<1> QED BY <1>2, <1>9, <1>12, <1>13 DEF SchedInv

\* Without the scheduler the order is that of the layout.
LEMMA EndBarsKeeps ==
    ASSUME SchedInv, EndBars
    PROVE  SchedInv'
<1>1. order' = [i \in Instrs |-> i] /\ code' = code /\ stage' = "done"
      BY DEF EndBars
<1>2. Instrs' = Instrs /\ LaidOut' /\ Len(code) \in Nat
      BY <1>1, LenProperties DEF Instrs, SchedInv, LaidOut
<1>3. order' \in Seq(Instrs) /\ Len(order') = Len(code) /\ \A q \in Instrs : order'[q] = q
  <2>1. order' \in [1 .. Len(code) -> Instrs]
        BY <1>1 DEF Instrs
  <2>2. order' \in Seq(Instrs)
        BY <1>2, <2>1
  <2>3. DOMAIN order' = 1 .. Len(code) /\ DOMAIN order' = 1 .. Len(order') /\ Len(order') \in Nat
        BY <2>1, <2>2, LenProperties
  <2> QED BY <1>1, <1>2, <2>2, <2>3
<1>4. 1 .. Len(order') = Instrs
      BY <1>3 DEF Instrs
<1>5. Placed'
      BY <1>1, <1>2, <1>3, <1>4 DEF Placed
<1>6. Unplaced' = {}
  <2>1. DOMAIN order' = Instrs
        BY <1>1
  <2> QED BY <1>2, <1>3, <2>1 DEF Unplaced, ToSet
<1>7. KeepsOrder'
  <2>1. ASSUME NEW p \in Instrs, NEW q \in Instrs, p < q
        PROVE  ~(order'[q] < order'[p])
        BY <1>3, <2>1 DEF Instrs
  <2> QED BY <1>4, <2>1 DEF KeepsOrder, MustFollow
<1> QED BY <1>2, <1>5, <1>6, <1>7 DEF SchedInv, NoneLeftBehind

\* The other steps leave the order alone.
LEMMA OthersKeep ==
    ASSUME SchedInv, order' = order, code' = code,
           \/ stage' = stage
           \/ stage' \in {"sched", "done"}
           \/ stage = "graph" /\ stage' = "bars"
    PROVE  SchedInv'
<1>1. Instrs' = Instrs /\ Unplaced' = Unplaced
      BY DEF Instrs, Unplaced
<1>2. ASSUME NEW a, NEW b PROVE MustFollow(a, b)' <=> MustFollow(a, b)
      BY DEF MustFollow, SameBlock, Conflict, Touches, IsMemory, IsMotionBarrier
<1>3. LaidOut' /\ Placed'
      BY <1>1 DEF SchedInv, LaidOut, Placed
<1>4. NoneLeftBehind' /\ KeepsOrder'
      BY <1>1, <1>2 DEF SchedInv, NoneLeftBehind, KeepsOrder
<1> QED BY <1>3, <1>4 DEF SchedInv

\* What the scheduler relies on holds throughout the passes.
THEOREM ScheduleInvariant == DepsSpec => []SchedInv
<1>1. SchedInv /\ [DepsNext]_depVars => SchedInv'
  <2> SUFFICES ASSUME SchedInv, [DepsNext]_depVars PROVE SchedInv'
      OBVIOUS
  <2>1. CASE \E i \in Instrs : Schedule(i)
        BY <2>1, ScheduleKeeps
  <2>2. CASE EndBars
        BY <2>2, EndBarsKeeps
  <2>3. CASE AssignDepsSerial \/ EndSchedule
    <3>1. order' = order /\ code' = code /\ stage' \in {"sched", "done"}
          BY <2>3 DEF AssignDepsSerial, EndSchedule
    <3> QED BY <3>1, OthersKeep
  <2>4. CASE GraphBranch \/ GraphInstr \/ AllocBars \/ UNCHANGED depVars
    <3>1. order' = order /\ code' = code /\ stage' = stage
      <4>1. CASE GraphBranch \/ GraphInstr
            BY <4>1 DEF GraphBranch, GraphInstr, GraphStep
      <4>2. CASE AllocBars
            BY <4>2 DEF AllocBars
      <4>3. CASE UNCHANGED depVars
            BY <4>3 DEF depVars
      <4> QED BY <2>4, <4>1, <4>2, <4>3
    <3> QED BY <3>1, OthersKeep
  <2>5. CASE EndGraph
    <3>1. order' = order /\ code' = code /\ stage = "graph" /\ stage' = "bars"
          BY <2>5 DEF EndGraph
    <3> QED BY <3>1, OthersKeep
  <2> QED BY <2>1, <2>2, <2>3, <2>4, <2>5 DEF DepsNext
<1> QED BY <1>1, InitSched, PTL DEF DepsSpec

\* opt_instr_sched_postpass keeps every two conflicting instructions of a
\* block in their order, although it only draws edges to the nearest
\* dependent, and whichever ready instruction generate_order picks.
THEOREM ScheduleKeepsConflictsHolds == DepsSpec => []ScheduleKeepsConflicts
<1>1. SchedInv => ScheduleKeepsConflicts
  <2> SUFFICES ASSUME SchedInv, NEW p \in DOMAIN order, NEW q \in DOMAIN order,
                      p < q, SameBlock(order[p], order[q]), Conflict(order[p], order[q])
               PROVE  order[p] < order[q]
      BY DEF ScheduleKeepsConflicts
  <2>1. order \in Seq(Instrs) /\ p \in 1 .. Len(order) /\ q \in 1 .. Len(order)
        BY LenProperties DEF SchedInv, Placed
  <2>2. order[p] \in Nat /\ order[q] \in Nat /\ order[p] # order[q]
    <3>1. order[p] \in Instrs /\ order[q] \in Instrs
          BY <2>1, ElementOfSeq
    <3>2. p # q
          BY <2>1
    <3> QED BY <2>1, <3>1, <3>2 DEF SchedInv, Placed, Instrs
  <2>3. SameBlock(order[q], order[p]) /\ Conflict(order[q], order[p])
        BY DEF SameBlock, Conflict
  <2>4. ~(order[q] < order[p])
        BY <2>1, <2>3 DEF SchedInv, KeepsOrder, MustFollow
  <2> QED BY <2>2, <2>4
<1> QED BY <1>1, ScheduleInvariant, PTL
============================================================================
