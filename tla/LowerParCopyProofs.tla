------------------------- MODULE LowerParCopyProofs -------------------------
(***************************************************************************)
(* lower_par_copy is correct for parallel copies of every size: the program *)
(* it emits has the effect of the parallel copy.                            *)
(***************************************************************************)
EXTENDS LowerParCopy, FiniteSetTheorems, FunctionTheorems,
        SequenceTheorems, TLAPS

\* Destinations are nodes, and the missing source is not one.
LEMMA NodeFacts ==
    /\ Dst \subseteq Node
    /\ None \notin Node
    /\ Dst \subseteq Int /\ Node \subseteq Int
    /\ \A n \in 0 .. NumDst : n # NumDst => n \in Dst
BY SizeAssumption DEF Dst, Node, None

----------------------------------------------------------------------------
(* Lemmas about the machine and about the graph                             *)

\* The three Xor instructions of lower_swap exchange two distinct registers.
LEMMA XorSwapExchanges ==
    ASSUME NEW S, NEW r \in [S -> Val], NEW x \in S, NEW y \in S, x # y
    PROVE  XorSwap(r, x, y) = PLop3Swap(r, x, y)
<1> DEFINE r1 == [r EXCEPT ![x] = Xor(r[x], r[y])]
           r2 == [r1 EXCEPT ![y] = Xor(r1[x], r1[y])]
           r3 == [r2 EXCEPT ![x] = Xor(r2[x], r2[y])]
<1>1. ASSUME NEW a \in Val, NEW b \in Val
      PROVE  Xor(Xor(a, b), b) = a /\ Xor(Xor(a, b), a) = b /\ Xor(a, b) \in Val
      BY DEF Xor, Val
<1>2. r1[x] = Xor(r[x], r[y]) /\ r1[y] = r[y]
      OBVIOUS
<1>3. r2[y] = r[x] /\ r2[x] = Xor(r[x], r[y])
      BY <1>1, <1>2
<1>4. r3[x] = r[y] /\ r3[y] = r[x]
      BY <1>1, <1>3
<1>5. \A z \in S : r3[z] = PLop3Swap(r, x, y)[z]
      BY <1>4 DEF PLop3Swap
<1>6. r3 = PLop3Swap(r, x, y)
      BY <1>5 DEF PLop3Swap
<1> QED BY <1>6 DEF XorSwap

\* Whatever instructions lower_swap chooses, two registers are exchanged.
LEMMA LowerSwapExchanges ==
    ASSUME NEW S, NEW r \in [S -> Val], NEW x \in S, NEW y \in S, x # y,
           NEW file, NEW sm70
    PROVE  LowerSwap(r, x, y, file, sm70) = PLop3Swap(r, x, y)
BY XorSwapExchanges DEF LowerSwap

\* The destinations are finitely many.
LEMMA DstFinite == IsFiniteSet(Dst)
BY FS_Interval, SizeAssumption DEF Dst

\* The destinations that still read node n.
ReadersOf(f, n) == {d \in Dst : f[d] = n}

\* They are finitely many.
LEMMA ReadersFinite ==
    ASSUME NEW f, NEW n
    PROVE  IsFiniteSet(ReadersOf(f, n)) /\ Cardinality(ReadersOf(f, n)) \in Nat
<1>1. ReadersOf(f, n) \in SUBSET Dst
      BY DEF ReadersOf
<1> QED BY <1>1, DstFinite, FS_Subset, FS_CardinalityType

Counted(f, r) == \A n \in Node : r[n] = Cardinality(ReadersOf(f, n))

\* del_edge keeps num_reads equal to the number of readers.
LEMMA DelEdgeCounts ==
    ASSUME NEW f \in [Node -> Node \cup {None}], NEW r \in [Node -> Int],
           NEW d \in Dst, NEW s \in Node, f[d] = s, Counted(f, r)
    PROVE  Counted([f EXCEPT ![d] = None], [r EXCEPT ![s] = @ - 1])
<1> DEFINE f1 == [f EXCEPT ![d] = None]
           r1 == [r EXCEPT ![s] = @ - 1]
<1> SUFFICES ASSUME NEW n \in Node
             PROVE  r1[n] = Cardinality(ReadersOf(f1, n))
    BY DEF Counted
<1>1. CASE n = s
  <2>1. ReadersOf(f1, n) = ReadersOf(f, n) \ {d}
        BY <1>1, NodeFacts DEF ReadersOf
  <2>2. d \in ReadersOf(f, n)
        BY <1>1, NodeFacts DEF ReadersOf
  <2>3. Cardinality(ReadersOf(f, n) \ {d}) = Cardinality(ReadersOf(f, n)) - 1
        BY <2>2, ReadersFinite, FS_RemoveElement
  <2> QED BY <1>1, <2>1, <2>3 DEF Counted
<1>2. CASE n # s
  <2>1. ReadersOf(f1, n) = ReadersOf(f, n)
        BY <1>2, NodeFacts DEF ReadersOf
  <2> QED BY <1>2, <2>1 DEF Counted
<1> QED BY <1>1, <1>2

\* add_edge keeps num_reads equal to the number of readers.
LEMMA AddEdgeCounts ==
    ASSUME NEW f \in [Node -> Node \cup {None}], NEW r \in [Node -> Int],
           NEW d \in Dst, NEW s \in Node, f[d] = None, Counted(f, r)
    PROVE  Counted([f EXCEPT ![d] = s], [r EXCEPT ![s] = @ + 1])
<1> DEFINE f1 == [f EXCEPT ![d] = s]
           r1 == [r EXCEPT ![s] = @ + 1]
<1> SUFFICES ASSUME NEW n \in Node
             PROVE  r1[n] = Cardinality(ReadersOf(f1, n))
    BY DEF Counted
<1>1. CASE n = s
  <2>1. ReadersOf(f1, n) = ReadersOf(f, n) \cup {d}
        BY <1>1, NodeFacts DEF ReadersOf
  <2>2. d \notin ReadersOf(f, n)
        BY <1>1, NodeFacts DEF ReadersOf
  <2>3. Cardinality(ReadersOf(f, n) \cup {d}) = Cardinality(ReadersOf(f, n)) + 1
        BY <2>2, ReadersFinite, FS_AddElement
  <2> QED BY <1>1, <2>1, <2>3 DEF Counted
<1>2. CASE n # s
  <2>1. ReadersOf(f1, n) = ReadersOf(f, n)
        BY <1>2, NodeFacts DEF ReadersOf
  <2> QED BY <1>2, <2>1 DEF Counted
<1> QED BY <1>1, <1>2

\* A node has count zero exactly when nobody reads it.
LEMMA ZeroReads ==
    ASSUME NEW f, NEW r, Counted(f, r), NEW n \in Node
    PROVE  r[n] = 0 <=> \A d \in Dst : f[d] # n
<1>1. r[n] = 0 <=> ReadersOf(f, n) = {}
      BY ReadersFinite, FS_EmptySet DEF Counted
<1> QED BY <1>1 DEF ReadersOf

\* The comment in the source: when every destination that waits is waited
\* for, the remaining graph is a permutation of its nodes, so only cycles
\* are left.  This is the pigeonhole principle.
LEMMA OnlyCycles ==
    ASSUME NEW f \in [Node -> Node \cup {None}],
           \A d \in Dst : f[d] # None => \E e \in Dst : f[e] = d
    PROVE  /\ \A d, e \in Dst : f[d] # None /\ f[d] = f[e] => d = e
           /\ \A d \in Dst : f[d] # None => f[d] \in Dst /\ f[f[d]] # None
<1> DEFINE A == {d \in Dst : f[d] # None}
           g == [d \in A |-> f[d]]
           T == Range(g)
<1>1. IsFiniteSet(A)
  <2>1. A \in SUBSET Dst
        OBVIOUS
  <2> QED BY <2>1, DstFinite, FS_Subset
<1>2. g \in Surjection(A, T)
  <2>1. g \in [A -> Node]
        BY NodeFacts
  <2> HIDE DEF g, A
  <2> QED BY <2>1, Fun_RangeProperties
<1>3. IsFiniteSet(T) /\ Cardinality(T) <= Cardinality(A)
      BY <1>1, <1>2, FS_Surjection
<1>4. A \in SUBSET T
  <2> SUFFICES ASSUME NEW a \in A PROVE a \in T
      OBVIOUS
  <2>1. PICK e \in Dst : f[e] = a
        OBVIOUS
  <2>2. e \in A /\ g[e] = a
        BY <2>1, NodeFacts
  <2> QED BY <2>2 DEF Range
<1>5. A = T
  <2>1. Cardinality(A) \in Nat /\ Cardinality(T) \in Nat
        BY <1>1, <1>3, FS_CardinalityType
  <2>2. Cardinality(A) <= Cardinality(T) /\ (Cardinality(T) = Cardinality(A) => T = A)
        BY <1>3, <1>4, FS_Subset
  <2> QED BY <1>3, <2>1, <2>2
<1>6. g \in Injection(A, T)
  <2>1. Cardinality(A) = Cardinality(T)
        BY <1>5
  <2> HIDE DEF g, A, T
  <2> QED BY <1>1, <1>2, <2>1, FS_SurjSameCardinalityImpliesInj
<1>7. \A d, e \in A : g[d] = g[e] => d = e
  <2> HIDE DEF g, A, T
  <2> QED BY <1>6, Fun_InjectionProperties
<1>8. \A d \in A : g[d] \in A
      BY <1>5 DEF Range
<1> QED BY <1>7, <1>8

\* The elements of a stack after a push.
LEMMA InSeqAppend ==
    ASSUME NEW S, NEW q \in Seq(S), NEW x \in S
    PROVE  \A y : InSeq(Append(q, x), y) <=> InSeq(q, y) \/ y = x
<1>1. /\ Append(q, x) \in Seq(S) /\ Len(q) \in Nat
      /\ Len(Append(q, x)) = Len(q) + 1
      /\ \A m \in 1 .. Len(q) : Append(q, x)[m] = q[m]
      /\ Append(q, x)[Len(q) + 1] = x
      BY AppendProperties, LenProperties
<1> SUFFICES ASSUME NEW y
             PROVE  InSeq(Append(q, x), y) <=> InSeq(q, y) \/ y = x
    OBVIOUS
<1>2. ASSUME InSeq(Append(q, x), y) PROVE InSeq(q, y) \/ y = x
  <2>1. PICK m \in 1 .. Len(q) + 1 : Append(q, x)[m] = y
        BY <1>1, <1>2 DEF InSeq
  <2>2. CASE m = Len(q) + 1
        BY <1>1, <2>1, <2>2
  <2>3. CASE m \in 1 .. Len(q)
        BY <1>1, <2>1, <2>3 DEF InSeq
  <2> QED BY <1>1, <2>2, <2>3
<1>3. ASSUME InSeq(q, y) PROVE InSeq(Append(q, x), y)
  <2>1. PICK m \in 1 .. Len(q) : q[m] = y
        BY <1>3 DEF InSeq
  <2>2. m \in 1 .. Len(Append(q, x)) /\ Append(q, x)[m] = y
        BY <1>1, <2>1
  <2> QED BY <2>2 DEF InSeq
<1>4. ASSUME y = x PROVE InSeq(Append(q, x), y)
  <2>1. Len(q) + 1 \in 1 .. Len(Append(q, x))
        BY <1>1
  <2> QED BY <1>1, <1>4, <2>1 DEF InSeq
<1> QED BY <1>2, <1>3, <1>4

\* The elements of a stack after a pop.
LEMMA InSeqPop ==
    ASSUME NEW S, NEW q \in Seq(S), q # << >>
    PROVE  /\ SubSeq(q, 1, Len(q) - 1) \in Seq(S)
           /\ q[Len(q)] \in S /\ InSeq(q, q[Len(q)])
           /\ \A y : InSeq(SubSeq(q, 1, Len(q) - 1), y) => InSeq(q, y)
           /\ \A y : InSeq(q, y) /\ y # q[Len(q)]
                      => InSeq(SubSeq(q, 1, Len(q) - 1), y)
<1> DEFINE r == SubSeq(q, 1, Len(q) - 1)
<1>1. Len(q) \in Nat \ {0} /\ Len(q) \in 1 .. Len(q)
      BY EmptySeq
<1>2. \A m \in 1 .. Len(q) - 1 : q[m] \in S
  <2>1. \A m \in 1 .. Len(q) - 1 : m \in 1 .. Len(q)
        BY <1>1
  <2> QED BY <2>1, ElementOfSeq
<1>3. /\ r \in Seq(S) /\ Len(r) = Len(q) - 1
      /\ \A m \in 1 .. Len(q) - 1 : r[m] = q[m]
  <2> DEFINE k == Len(q) - 1
  <2>1. k \in Int /\ 1 \in Int /\ k >= 0
        BY <1>1
  <2>2. \A m \in 1 .. k : q[m] \in S
        BY <1>2
  <2> HIDE DEF k
  <2>3. /\ SubSeq(q, 1, k) \in Seq(S)
        /\ Len(SubSeq(q, 1, k)) = IF 1 <= k THEN k - 1 + 1 ELSE 0
        /\ \A m \in 1 .. k - 1 + 1 : SubSeq(q, 1, k)[m] = q[1 + m - 1]
        BY <2>1, <2>2, SubSeqProperties
  <2>4. Len(SubSeq(q, 1, k)) = k /\ \A m \in 1 .. k : SubSeq(q, 1, k)[m] = q[m]
        BY <2>1, <2>3
  <2> QED BY <2>3, <2>4 DEF k
<1>4. q[Len(q)] \in S /\ InSeq(q, q[Len(q)])
      BY <1>1, ElementOfSeq DEF InSeq
<1>5. ASSUME NEW y, InSeq(r, y) PROVE InSeq(q, y)
  <2>1. PICK m \in 1 .. Len(q) - 1 : q[m] = y
        BY <1>3, <1>5 DEF InSeq
  <2> QED BY <1>1, <2>1 DEF InSeq
<1>6. ASSUME NEW y, InSeq(q, y), y # q[Len(q)] PROVE InSeq(r, y)
  <2>1. PICK m \in 1 .. Len(q) : q[m] = y
        BY <1>6 DEF InSeq
  <2>2. m \in 1 .. Len(q) - 1
        BY <1>1, <1>6, <2>1
  <2> QED BY <1>3, <2>1, <2>2 DEF InSeq
<1> QED BY <1>3, <1>4, <1>5, <1>6

----------------------------------------------------------------------------
(* The inductive invariant, one lemma per loop of lower_par_copy            *)

\* num_reads counts the readers: the two ways to say it.
LEMMA CountedIsReads == ReadsCounted <=> Counted(src, numReads)
BY DEF ReadsCounted, Counted, ReadersOf, Readers

\* The initial states satisfy the inductive invariant.
LEMMA InitInductive == Init => Inductive
<1> SUFFICES ASSUME Init PROVE Inductive
    OBVIOUS
<1> USE DEF Init
<1>1. TypeOK
  <2>1. 0 \in Node /\ 0 \in 0 .. NumDst
        BY SizeAssumption DEF Node
  <2>2. ready \in Seq(Node)
        BY EmptySeq
  <2>3. src \in [Node -> Node \cup {None}] /\ numReads \in [Node -> Int]
        OBVIOUS
  <2>4. reg \in [Node -> Val] /\ tmp \in [{0, 1} -> Val]
        BY ValAssumption DEF Val
  <2> QED BY <2>1, <2>2, <2>3, <2>4 DEF TypeOK
<1>2. ReadsCounted
  <2>1. \A n \in Node : Readers(n) = {}
        BY NodeFacts DEF Readers
  <2> QED BY <2>1, FS_EmptySet DEF ReadsCounted
<1>3. GraphShape /\ DoneHasValue
      BY NodeFacts DEF GraphShape, DoneHasValue
<1>4. BuildInv
  <2>1. \A d \in Dst : ~(d < 0) /\ d \in Node
        BY SizeAssumption DEF Dst, Node
  <2> QED BY <2>1 DEF BuildInv
<1>5. PendingValueKept /\ ReadyInv /\ CycleInv /\ TmpInv
      BY NodeFacts DEF PendingValueKept, ReadyInv, CycleInv, TmpInv
<1> QED BY <1>1, <1>2, <1>3, <1>4, <1>5 DEF Inductive

\* The loop that adds the edges.
LEMMA BuildPreserves ==
    ASSUME Inductive, BuildEdge \/ BuildDone
    PROVE  Inductive'
<1> USE NodeFacts DEF Inductive
<1>1. CASE BuildEdge
  <2>1. /\ phase = "build" /\ i < NumDst /\ i' = i + 1
        /\ UNCHANGED <<copies, kind, phase, ready, p, reg, tmp, emitted>>
        BY <1>1 DEF BuildEdge, input
  <2>2. i \in Dst /\ i' \in 0 .. NumDst
        BY <2>1, SizeAssumption DEF TypeOK
  <2>3. copies[i] \in Node /\ src[i] = None
        BY <2>1, <2>2 DEF TypeOK, BuildInv
  <2>4. \/ copies[i] = i /\ src' = src /\ numReads' = numReads
        \/ /\ copies[i] # i
           /\ src' = [src EXCEPT ![i] = copies[i]]
           /\ numReads' = [numReads EXCEPT ![copies[i]] = @ + 1]
        BY <1>1 DEF BuildEdge, SetGraph, AddEdge, Graph
  <2>5. /\ src' \in [Node -> Node \cup {None}]
        /\ numReads' \in [Node -> Int]
        BY <2>2, <2>3, <2>4 DEF TypeOK
  <2>6. \A n \in Node : src'[n] =
            IF n = i /\ copies[i] # i THEN copies[i] ELSE src[n]
        BY <2>2, <2>4 DEF TypeOK
  <2>7. TypeOK'
        BY <2>1, <2>2, <2>5 DEF TypeOK
  <2>8. ReadsCounted'
    <3>1. Counted(src, numReads)
          BY CountedIsReads
    <3>2. CASE copies[i] = i
          BY <2>4, <3>1, <3>2, CountedIsReads DEF ReadsCounted, Readers
    <3>3. CASE copies[i] # i
      <4>1. /\ src \in [Node -> Node \cup {None}] /\ numReads \in [Node -> Int]
            BY DEF TypeOK
      <4>2. Counted([src EXCEPT ![i] = copies[i]],
                    [numReads EXCEPT ![copies[i]] = @ + 1])
            BY <2>2, <2>3, <3>1, <4>1, AddEdgeCounts
      <4>3. Counted(src', numReads')
            BY <2>4, <3>3, <4>2
      <4> QED BY <4>3 DEF ReadsCounted, Counted, ReadersOf, Readers
    <3> QED BY <3>2, <3>3
  <2>9. GraphShape'
        BY <2>1, <2>2, <2>6 DEF GraphShape
  <2>10. BuildInv'
    <3> SUFFICES ASSUME NEW d \in Dst
                 PROVE  src'[d] = IF d < i' /\ copies[d] # d
                                  THEN copies[d] ELSE None
        BY <2>1 DEF BuildInv
    <3>1. src[d] = IF d < i /\ copies[d] # d THEN copies[d] ELSE None
          BY <2>1 DEF BuildInv
    <3>2. d \in Int /\ i \in Int
          BY <2>2
    <3> QED BY <2>1, <2>6, <3>1, <3>2
  <2>11. PendingValueKept'
        BY <2>1, <2>10 DEF PendingValueKept, BuildInv, Holds
  <2>12. DoneHasValue' /\ ReadyInv' /\ CycleInv' /\ TmpInv'
        BY <2>1 DEF DoneHasValue, ReadyInv, CycleInv, TmpInv
  <2> QED BY <2>7, <2>8, <2>9, <2>10, <2>11, <2>12
<1>2. CASE BuildDone
  <2>1. /\ phase = "build" /\ i = NumDst /\ phase' = "scan" /\ i' = 0
        /\ UNCHANGED <<copies, kind, src, numReads, ready, p, reg, tmp, emitted>>
        BY <1>2 DEF BuildDone, input
  <2>2. TypeOK'
        BY <2>1, SizeAssumption DEF TypeOK
  <2>3. ReadsCounted' /\ GraphShape'
        BY <2>1 DEF ReadsCounted, Readers, GraphShape
  <2>4. BuildInv'
    <3>1. \A d \in Dst : d < i
          BY <2>1, SizeAssumption DEF Dst
    <3> QED BY <2>1, <3>1 DEF BuildInv
  <2>5. DoneHasValue'
    <3> SUFFICES ASSUME NEW d \in Dst, src'[d] = None
                 PROVE  reg'[d] = InitVal[copies'[d]]
        BY DEF DoneHasValue
    <3>1. copies[d] \in Node
          BY DEF TypeOK
    <3>2. copies[d] = d
          BY <2>1, <2>4, <3>1 DEF BuildInv
    <3> QED BY <2>1, <2>4, <3>2 DEF BuildInv
  <2>6. PendingValueKept'
        BY <2>1 DEF PendingValueKept, Holds
  <2>7. ReadyInv'
    <3>1. ready' = << >>
          BY <2>1 DEF ReadyInv
    <3>2. \A n : ~InSeq(ready', n)
          BY <3>1, EmptySeq DEF InSeq
    <3>3. \A d \in Dst : ~(d < i')
          BY <2>1, SizeAssumption DEF Dst
    <3> QED BY <2>1, <3>2, <3>3 DEF ReadyInv
  <2>8. CycleInv' /\ TmpInv'
        BY <2>1 DEF CycleInv, TmpInv
  <2> QED BY <2>2, <2>3, <2>4, <2>5, <2>6, <2>7, <2>8
<1> QED BY <1>1, <1>2

\* The loop that fills the ready stack.
LEMMA ScanPreserves ==
    ASSUME Inductive, ScanReady \/ ScanDone
    PROVE  Inductive'
<1> USE NodeFacts DEF Inductive
<1>1. CASE ScanReady
  <2>1. /\ phase = "scan" /\ i < NumDst /\ i' = i + 1
        /\ UNCHANGED <<copies, kind, phase, src, numReads, p, reg, tmp, emitted>>
        /\ ready' = IF numReads[i] = 0 THEN Append(ready, i) ELSE ready
        BY <1>1 DEF ScanReady, input
  <2>2. i \in Dst /\ i \in Node /\ i' \in 0 .. NumDst
        BY <2>1, SizeAssumption DEF TypeOK
  <2>3. ready \in Seq(Node) /\ ready' \in Seq(Node)
        BY <2>1, <2>2, AppendProperties DEF TypeOK
  <2>4. TypeOK'
        BY <2>1, <2>2, <2>3 DEF TypeOK
  <2>5. ReadsCounted' /\ GraphShape' /\ DoneHasValue'
        BY <2>1 DEF ReadsCounted, Readers, GraphShape, DoneHasValue
  <2>6. BuildInv' /\ PendingValueKept'
        BY <2>1 DEF BuildInv, PendingValueKept, Holds
  <2>7. ReadyInv'
    <3>1. \A n : InSeq(ready', n) <=> InSeq(ready, n) \/ (numReads[i] = 0 /\ n = i)
          BY <2>1, <2>2, <2>3, InSeqAppend
    <3>2. ASSUME NEW d \in Dst, d < i', numReads'[d] = 0, src'[d] # None
          PROVE  InSeq(ready', d)
      <4>1. d < i \/ d = i
            BY <2>1, <2>2, <3>2
      <4>2. CASE d < i
            BY <2>1, <3>1, <3>2, <4>2 DEF ReadyInv
      <4>3. CASE d = i
            BY <2>1, <3>1, <3>2, <4>3
      <4> QED BY <4>1, <4>2, <4>3
    <3> QED BY <2>1, <3>1, <3>2 DEF ReadyInv
  <2>8. CycleInv' /\ TmpInv'
        BY <2>1 DEF CycleInv, TmpInv
  <2> QED BY <2>4, <2>5, <2>6, <2>7, <2>8
<1>2. CASE ScanDone
  <2>1. /\ phase = "scan" /\ i = NumDst /\ phase' = "ready" /\ i' = 0
        /\ UNCHANGED <<copies, kind, src, numReads, ready, p, reg, tmp, emitted>>
        BY <1>2 DEF ScanDone, input
  <2>2. TypeOK'
        BY <2>1, SizeAssumption DEF TypeOK
  <2>3. ReadsCounted' /\ GraphShape' /\ BuildInv' /\ DoneHasValue'
        BY <2>1 DEF ReadsCounted, Readers, GraphShape, BuildInv, DoneHasValue
  <2>4. PendingValueKept'
        BY <2>1 DEF PendingValueKept, Holds
  <2>5. ReadyInv'
    <3>1. \A d \in Dst : d < i
          BY <2>1, SizeAssumption DEF Dst
    <3> QED BY <2>1, <3>1 DEF ReadyInv
  <2>6. CycleInv' /\ TmpInv'
        BY <2>1 DEF CycleInv, TmpInv
  <2> QED BY <2>2, <2>3, <2>4, <2>5, <2>6
<1> QED BY <1>1, <1>2
\* The ready loop: the value of a destination that nobody reads is replaced.
LEMMA ReadyPreserves ==
    ASSUME Inductive, CopyReady \/ SkipReady
    PROVE  Inductive'
<1> USE NodeFacts DEF Inductive
<1>0. ready \in Seq(Node)
      BY DEF TypeOK
<1>1. CASE CopyReady
  <2> DEFINE d == Top
             s == src[Top]
  <2>1. /\ phase = "ready" /\ ready # << >> /\ s # None
        /\ UNCHANGED <<copies, kind, phase, i, p>>
        /\ reg' = [reg EXCEPT ![d] = reg[s]]
        BY <1>1 DEF CopyReady, input
  <2>2. /\ src' = [src EXCEPT ![d] = None]
        /\ numReads' = [numReads EXCEPT ![s] = @ - 1]
        /\ ready' = IF numReads'[s] = 0 THEN Append(Popped, s) ELSE Popped
        BY <1>1 DEF CopyReady, SetGraph, DelEdge, Graph
  <2>3. /\ Popped \in Seq(Node) /\ d \in Node /\ InSeq(ready, d)
        /\ \A y : InSeq(Popped, y) => InSeq(ready, y)
        /\ \A y : InSeq(ready, y) /\ y # d => InSeq(Popped, y)
        BY <1>0, <2>1, InSeqPop DEF Top, Popped
  <2>4. d \in Dst /\ s \in Node /\ s # d
        BY <2>1, <2>3 DEF GraphShape, TypeOK
  <2> HIDE DEF d, s
  <2>5. src[d] = s
        BY DEF d, s
  <2>6. \A e \in Dst : src[e] # d
    <3>1. numReads[d] = 0
          BY <2>1, <2>3 DEF ReadyInv
    <3> QED BY <2>3, <3>1, CountedIsReads, ZeroReads
  <2>7. numReads[s] # 0
    <3>1. ~ \A e \in Dst : src[e] # s
          BY <2>4, <2>5
    <3> QED BY <2>4, <3>1, CountedIsReads, ZeroReads
  <2>8. /\ src' \in [Node -> Node \cup {None}]
        /\ numReads' \in [Node -> Int]
        /\ reg' \in [Node -> Val]
        BY <2>1, <2>2, <2>3, <2>4 DEF TypeOK
  <2>9. /\ \A n \in Node : src'[n] = IF n = d THEN None ELSE src[n]
        /\ \A n \in Node : n # s => numReads'[n] = numReads[n]
        /\ \A n \in Node : reg'[n] = IF n = d THEN reg[s] ELSE reg[n]
        BY <2>1, <2>2, <2>3, <2>4 DEF TypeOK
  <2>10. TypeOK'
    <3>1. ready' \in Seq(Node)
          BY <2>2, <2>3, <2>4, AppendProperties
    <3>2. tmp' \in [{0, 1} -> Val]
      <4>1. tmp' = tmp \/ tmp' = [tmp EXCEPT ![0] = reg[s]]
            BY <1>1 DEF CopyReady, s
      <4>2. reg[s] \in Val
            BY <2>4 DEF TypeOK
      <4> QED BY <4>1, <4>2 DEF TypeOK
    <3>3. emitted' \subseteq {"copy", "swap"} \X SrcKind \X SrcKind
      <4>1. kind[d] \in SrcKind /\ kind[s] \in SrcKind /\ "GPR" \in SrcKind
            BY <2>3, <2>4, KindsAssumption DEF TypeOK, SrcKind, RegFile
      <4>2. emitted' \subseteq emitted \cup {<<"copy", "GPR", kind[s]>>,
                                             <<"copy", kind[d], "GPR">>,
                                             <<"copy", kind[d], kind[s]>>}
            BY <1>1 DEF CopyReady, d, s
      <4> QED BY <4>1, <4>2 DEF TypeOK
    <3> QED BY <2>1, <2>8, <3>1, <3>2, <3>3 DEF TypeOK
  <2>11. ReadsCounted'
    <3>1. Counted([src EXCEPT ![d] = None], [numReads EXCEPT ![s] = @ - 1])
          BY <2>4, <2>5, CountedIsReads, DelEdgeCounts DEF TypeOK
    <3>2. Counted(src', numReads')
          BY <2>2, <3>1 DEF d, s
    <3> QED BY <3>2 DEF ReadsCounted, Counted, ReadersOf, Readers
  <2>12. GraphShape'
        BY <2>4, <2>9 DEF GraphShape
  <2>13. PendingValueKept'
        BY <2>1, <2>6, <2>9 DEF PendingValueKept, Holds, TypeOK
  <2>14. DoneHasValue'
    <3>1. reg[s] = InitVal[copies[d]]
          BY <2>1, <2>4, <2>5 DEF PendingValueKept, Holds
    <3> QED BY <2>1, <2>9, <3>1 DEF DoneHasValue
  <2>15. ReadyInv'
    <3>1. \A n : InSeq(ready', n) <=>
                  InSeq(Popped, n) \/ (numReads'[s] = 0 /\ n = s)
          BY <2>2, <2>3, <2>4, InSeqAppend DEF s
    <3>2. ASSUME NEW n \in Node, InSeq(ready', n) PROVE numReads'[n] = 0
      <4>1. CASE n = s
            BY <2>1, <2>3, <2>7, <3>1, <3>2, <4>1 DEF ReadyInv
      <4>2. CASE n # s
            BY <2>1, <2>3, <2>9, <3>1, <3>2, <4>2 DEF ReadyInv
      <4> QED BY <4>1, <4>2
    <3>3. ASSUME NEW e \in Dst, numReads'[e] = 0, src'[e] # None
          PROVE  InSeq(ready', e)
      <4>1. e # d /\ src[e] # None
            BY <2>9, <3>3
      <4>2. CASE e = s
            BY <3>1, <3>3, <4>2
      <4>3. CASE e # s
        <5>1. numReads[e] = 0
              BY <2>9, <3>3, <4>3
        <5>2. InSeq(ready, e)
              BY <2>1, <4>1, <5>1 DEF ReadyInv
        <5> QED BY <2>3, <3>1, <4>1, <5>2
      <4> QED BY <4>2, <4>3
    <3> QED BY <2>1, <3>2, <3>3 DEF ReadyInv
  <2>16. BuildInv' /\ CycleInv' /\ TmpInv'
        BY <2>1 DEF BuildInv, CycleInv, TmpInv
  <2> QED BY <2>10, <2>11, <2>12, <2>13, <2>14, <2>15, <2>16
<1>2. CASE SkipReady
  <2>1. /\ phase = "ready" /\ ready # << >> /\ src[Top] = None
        /\ ready' = Popped
        /\ UNCHANGED <<copies, kind, phase, src, numReads, i, p, reg, tmp, emitted>>
        BY <1>2 DEF SkipReady, input
  <2>2. /\ Popped \in Seq(Node)
        /\ \A y : InSeq(Popped, y) => InSeq(ready, y)
        /\ \A y : InSeq(ready, y) /\ y # Top => InSeq(Popped, y)
        BY <1>0, <2>1, InSeqPop DEF Top, Popped
  <2>3. TypeOK'
        BY <2>1, <2>2 DEF TypeOK
  <2>4. ReadsCounted' /\ GraphShape' /\ DoneHasValue' /\ PendingValueKept'
        BY <2>1 DEF ReadsCounted, Readers, GraphShape, DoneHasValue,
                    PendingValueKept, Holds
  <2>5. ReadyInv'
        BY <2>1, <2>2 DEF ReadyInv
  <2>6. BuildInv' /\ CycleInv' /\ TmpInv'
        BY <2>1 DEF BuildInv, CycleInv, TmpInv
  <2> QED BY <2>3, <2>4, <2>5, <2>6
<1> QED BY <1>1, <1>2

\* When the stack is empty only cycles are left.
LEMMA ReadyDonePreserves ==
    ASSUME Inductive, ReadyDone
    PROVE  Inductive'
<1> USE NodeFacts DEF Inductive
<1>1. /\ phase = "ready" /\ ready = << >> /\ phase' = "cycles" /\ i' = 0
      /\ UNCHANGED <<copies, kind, src, numReads, ready, p, reg, tmp, emitted>>
      BY DEF ReadyDone, input
<1>2. TypeOK'
      BY <1>1, SizeAssumption DEF TypeOK
<1>3. ReadsCounted' /\ GraphShape' /\ DoneHasValue' /\ PendingValueKept'
      BY <1>1 DEF ReadsCounted, Readers, GraphShape, DoneHasValue,
                  PendingValueKept, Holds
<1>4. CycleInv'
  <2>1. \A d \in Dst : ~InSeq(ready, d)
        BY <1>1, EmptySeq DEF InSeq
  <2>2. \A d \in Dst : src[d] # None => \E e \in Dst : src[e] = d
    <3> SUFFICES ASSUME NEW d \in Dst, src[d] # None
                 PROVE  \E e \in Dst : src[e] = d
        OBVIOUS
    <3>1. numReads[d] # 0
          BY <1>1, <2>1 DEF ReadyInv
    <3> QED BY <3>1, CountedIsReads, ZeroReads
  <2>3. /\ \A d, e \in Dst : src[d] # None /\ src[d] = src[e] => d = e
        /\ \A d \in Dst : src[d] # None => src[d] \in Dst /\ src[src[d]] # None
        BY <2>2, OnlyCycles DEF TypeOK
  <2>4. \A d \in Dst : ~(d < 0)
        BY SizeAssumption DEF Dst
  <2> QED BY <1>1, <2>2, <2>3, <2>4 DEF CycleInv
<1>5. BuildInv' /\ ReadyInv' /\ TmpInv'
      BY <1>1 DEF BuildInv, ReadyInv, TmpInv
<1> QED BY <1>2, <1>3, <1>4, <1>5
\* One swap takes the second node out of the cycle.
LEMMA SwapPreserves ==
    ASSUME Inductive, SwapStep
    PROVE  Inductive'
<1> USE NodeFacts DEF Inductive
<1> DEFINE j == src[i]
           k == src[j]
<1>1. /\ phase = "cycles" /\ i < NumDst /\ j # None
      /\ UNCHANGED <<copies, kind, phase, ready, p, tmp>>
      BY DEF SwapStep, input
<1>2. i \in Dst
      BY <1>1, SizeAssumption DEF TypeOK
<1>3. j \in Dst /\ k \in Dst /\ src[k] # None /\ k # None
      BY <1>1, <1>2 DEF CycleInv
<1>4. j # i /\ k # j
      BY <1>2, <1>3 DEF GraphShape
<1>5. reg' = PLop3Swap(reg, j, k)
  <2>1. reg' = LowerSwap(reg, j, k, kind[j], Sm70)
        BY DEF SwapStep
  <2>2. reg \in [Node -> Val] /\ j \in Node /\ k \in Node /\ j # k
        BY <1>3, <1>4 DEF TypeOK
  <2> HIDE DEF j, k
  <2>3. LowerSwap(reg, j, k, kind[j], Sm70) = PLop3Swap(reg, j, k)
        BY <2>2, LowerSwapExchanges
  <2> QED BY <2>1, <2>3
<1>6. /\ i = k => src' = [[src EXCEPT ![i] = None] EXCEPT ![j] = None]
      /\ i # k => src' = [[[src EXCEPT ![i] = None] EXCEPT ![j] = None] EXCEPT ![i] = k]
      BY DEF SwapStep, SetGraph, DelEdge, AddEdge, Graph
<1>7. /\ i = k => numReads' = [[numReads EXCEPT ![j] = @ - 1] EXCEPT ![k] = @ - 1]
      /\ i # k => numReads' = [[[numReads EXCEPT ![j] = @ - 1]
                                EXCEPT ![k] = @ - 1] EXCEPT ![k] = @ + 1]
      BY DEF SwapStep, SetGraph, DelEdge, AddEdge, Graph
<1>8. i' = IF i = k THEN i + 1 ELSE i
      BY DEF SwapStep
<1>9. emitted' = emitted \cup {<<"swap", kind[j], kind[k]>>}
      BY DEF SwapStep
<1> HIDE DEF j, k
<1>10. src[i] = j /\ src[j] = k
      BY DEF j, k
<1>11. /\ src' \in [Node -> Node \cup {None}]
       /\ \A n \in Node : src'[n] =
             IF n = j THEN None
             ELSE IF n = i THEN (IF i = k THEN None ELSE k) ELSE src[n]
  <2>1. src \in [Node -> Node \cup {None}]
        BY DEF TypeOK
  <2>2. CASE i = k
        BY <1>2, <1>3, <1>4, <1>6, <2>1, <2>2
  <2>3. CASE i # k
        BY <1>2, <1>3, <1>4, <1>6, <2>1, <2>3
  <2> QED BY <2>2, <2>3
<1>12. /\ reg' \in [Node -> Val]
       /\ \A n \in Node : reg'[n] =
             IF n = j THEN reg[k] ELSE IF n = k THEN reg[j] ELSE reg[n]
      BY <1>3, <1>4, <1>5 DEF PLop3Swap, TypeOK
<1>13. Counted(src', numReads') /\ numReads' \in [Node -> Int]
  <2> DEFINE f1 == [src EXCEPT ![i] = None]
             r1 == [numReads EXCEPT ![j] = @ - 1]
             f2 == [f1 EXCEPT ![j] = None]
             r2 == [r1 EXCEPT ![k] = @ - 1]
  <2>1. src \in [Node -> Node \cup {None}] /\ numReads \in [Node -> Int]
        BY DEF TypeOK
  <2>2. /\ Counted(f1, r1) /\ f1 \in [Node -> Node \cup {None}]
        /\ r1 \in [Node -> Int] /\ f1[j] = k
    <3>1. Counted(f1, r1)
          BY <1>2, <1>3, <1>10, <2>1, CountedIsReads, DelEdgeCounts
    <3> QED BY <1>2, <1>3, <1>4, <1>10, <2>1, <3>1
  <2>3. /\ Counted(f2, r2) /\ f2 \in [Node -> Node \cup {None}]
        /\ r2 \in [Node -> Int] /\ f2[i] = None
    <3> HIDE DEF f1, r1
    <3>1. Counted(f2, r2)
          BY <1>3, <2>2, DelEdgeCounts
    <3>2. f2 \in [Node -> Node \cup {None}] /\ r2 \in [Node -> Int]
          BY <1>3, <2>2
    <3>3. f2[i] = None
          BY <1>2, <1>4, <2>1 DEF f1
    <3> QED BY <3>1, <3>2, <3>3
  <2>4. CASE i = k
        BY <1>6, <1>7, <2>3, <2>4
  <2>5. CASE i # k
    <3>1. src' = [f2 EXCEPT ![i] = k] /\ numReads' = [r2 EXCEPT ![k] = @ + 1]
          BY <1>6, <1>7, <2>5
    <3> HIDE DEF f2, r2
    <3>2. Counted([f2 EXCEPT ![i] = k], [r2 EXCEPT ![k] = @ + 1])
          BY <1>2, <1>3, <2>3, AddEdgeCounts
    <3>3. [r2 EXCEPT ![k] = @ + 1] \in [Node -> Int]
          BY <1>3, <2>3
    <3> QED BY <3>1, <3>2, <3>3
  <2> QED BY <2>4, <2>5
<1>14. ReadsCounted'
      BY <1>13 DEF ReadsCounted, Counted, ReadersOf, Readers
<1>15. TypeOK'
  <2>1. i' \in 0 .. NumDst
        BY <1>1, <1>8, SizeAssumption DEF TypeOK
  <2>2. kind[j] \in SrcKind /\ kind[k] \in SrcKind
        BY <1>3, KindsAssumption DEF TypeOK
  <2>3. emitted' \subseteq {"copy", "swap"} \X SrcKind \X SrcKind
        BY <1>9, <2>2 DEF TypeOK
  <2> QED BY <1>1, <1>11, <1>12, <1>13, <2>1, <2>3 DEF TypeOK
<1>16. GraphShape'
      BY <1>2, <1>3, <1>4, <1>11, <1>12 DEF GraphShape
<1>17. /\ \A e \in Dst : src[e] = j => e = i
       /\ \A e \in Dst : src[e] = k => e = j
      BY <1>1, <1>2, <1>3, <1>10 DEF CycleInv
<1>18. /\ reg[j] = InitVal[copies[i]]
       /\ reg[k] = InitVal[copies[j]]
      BY <1>1, <1>2, <1>3, <1>10 DEF PendingValueKept, Holds
<1>19. PendingValueKept'
  <2> SUFFICES ASSUME NEW e \in Dst, src'[e] # None
               PROVE  reg'[src'[e]] = InitVal[copies'[e]]
      BY <1>1 DEF PendingValueKept, Holds
  <2>1. CASE e = i
        BY <1>1, <1>3, <1>4, <1>11, <1>12, <1>18, <2>1
  <2>2. CASE e # i
    <3>1. e # j /\ src'[e] = src[e] /\ src[e] \in Node
          BY <1>11, <2>2 DEF TypeOK
    <3>2. src[e] # j /\ src[e] # k
          BY <1>17, <2>2, <3>1
    <3> QED BY <1>1, <1>12, <3>1, <3>2 DEF PendingValueKept, Holds
  <2> QED BY <2>1, <2>2
<1>20. DoneHasValue'
  <2> SUFFICES ASSUME NEW e \in Dst, src'[e] = None
               PROVE  reg'[e] = InitVal[copies'[e]]
      BY DEF DoneHasValue
  <2>1. CASE e = j
        BY <1>1, <1>3, <1>12, <1>18, <2>1
  <2>2. CASE e # j /\ e = i
        BY <1>1, <1>3, <1>11, <1>12, <1>18, <2>2
  <2>3. CASE e # j /\ e # i
    <3>1. src[e] = None /\ e # k
          BY <1>3, <1>11, <2>3
    <3> QED BY <1>1, <1>12, <2>3, <3>1 DEF DoneHasValue
  <2> QED BY <2>1, <2>2, <2>3
<1>21. CycleInv'
  <2>1. ASSUME NEW d \in Dst, NEW e \in Dst, src'[d] # None, src'[d] = src'[e]
        PROVE  d = e
        BY <1>1, <1>3, <1>11, <1>17, <2>1 DEF CycleInv
  <2>2. ASSUME NEW d \in Dst, src'[d] # None
        PROVE  src'[d] \in Dst /\ src'[src'[d]] # None
    <3>1. CASE d = i
          BY <1>3, <1>4, <1>11, <2>2, <3>1
    <3>2. CASE d # i
      <4>1. d # j /\ src'[d] = src[d]
            BY <1>11, <2>2, <3>2
      <4>2. src[d] \in Dst /\ src[src[d]] # None
            BY <1>1, <2>2, <4>1 DEF CycleInv
      <4>3. src[d] # j /\ src[d] # k
            BY <1>17, <3>2, <4>1
      <4> QED BY <1>2, <1>3, <1>11, <4>1, <4>2, <4>3
    <3> QED BY <3>1, <3>2
  <2>3. ASSUME NEW d \in Dst, src'[d] # None
        PROVE  \E e \in Dst : src'[e] = d
    <3>1. d # j /\ src[d] # None
          BY <1>1, <1>10, <1>11, <2>3
    <3>2. PICK e \in Dst : src[e] = d
          BY <1>1, <3>1 DEF CycleInv
    <3>3. CASE e = j
          BY <1>2, <1>3, <1>4, <1>10, <1>11, <2>3, <3>2, <3>3
    <3>4. CASE e # j
          BY <1>10, <1>11, <3>1, <3>2, <3>4
    <3> QED BY <3>3, <3>4
  <2>4. ASSUME NEW d \in Dst, d < i'
        PROVE  src'[d] = None
    <3>1. d < i \/ (i = k /\ d = i)
          BY <1>2, <1>8, <2>4
    <3>2. CASE d < i
      <4>1. src[d] = None
            BY <1>1, <3>2 DEF CycleInv
      <4>2. d # i
            BY <1>1, <1>10, <4>1
      <4> QED BY <1>11, <4>1, <4>2
    <3>3. CASE i = k /\ d = i
          BY <1>11, <3>3
    <3> QED BY <3>1, <3>2, <3>3
  <2> QED BY <1>1, <2>1, <2>2, <2>3, <2>4 DEF CycleInv
<1>22. BuildInv' /\ ReadyInv' /\ TmpInv'
      BY <1>1 DEF BuildInv, ReadyInv, TmpInv
<1> QED BY <1>14, <1>15, <1>16, <1>19, <1>20, <1>21, <1>22
\* Breaking a cycle with pc.tmp.
LEMMA TmpPreserves ==
    ASSUME Inductive, TmpSave \/ TmpMove \/ TmpRestore
    PROVE  Inductive'
<1> USE NodeFacts DEF Inductive
<1>1. CASE TmpSave
  <2>1. /\ phase = "cycles" /\ i < NumDst /\ src[i] # None
        /\ p' = i /\ phase' = "tmp" /\ tmp' = [tmp EXCEPT ![0] = reg[i]]
        /\ emitted' = emitted \cup {<<"copy", "GPR", kind[i]>>}
        /\ UNCHANGED <<copies, kind, src, numReads, ready, i, reg>>
        BY <1>1 DEF TmpSave, input
  <2>2. i \in Dst /\ i \in Node
        BY <2>1, SizeAssumption DEF TypeOK
  <2>3. tmp' \in [{0, 1} -> Val] /\ tmp'[0] = reg[i]
        BY <2>1, <2>2 DEF TypeOK
  <2>4. TypeOK'
    <3>1. kind[i] \in SrcKind /\ "GPR" \in SrcKind
          BY <2>2, KindsAssumption DEF TypeOK, SrcKind, RegFile
    <3>2. emitted' \subseteq {"copy", "swap"} \X SrcKind \X SrcKind
          BY <2>1, <3>1 DEF TypeOK
    <3> QED BY <2>1, <2>2, <2>3, <3>2 DEF TypeOK
  <2>5. ReadsCounted' /\ GraphShape' /\ DoneHasValue'
        BY <2>1 DEF ReadsCounted, Readers, GraphShape, DoneHasValue
  <2>6. PendingValueKept'
        BY <2>1, <2>3 DEF PendingValueKept, Holds
  <2>7. CycleInv'
        BY <2>1, <2>2 DEF CycleInv
  <2>8. TmpInv'
        BY <2>1, <2>2 DEF TmpInv
  <2>9. BuildInv' /\ ReadyInv'
        BY <2>1 DEF BuildInv, ReadyInv
  <2> QED BY <2>4, <2>5, <2>6, <2>7, <2>8, <2>9
<1>2. CASE TmpMove
  <2> DEFINE j == src[p]
  <2>1. /\ phase = "tmp" /\ j # i
        /\ UNCHANGED <<copies, kind, phase, ready, i>>
        /\ reg' = [reg EXCEPT ![p] = reg[j]]
        /\ p' = j
        BY <1>2 DEF TmpMove, input
  <2>2. /\ src' = [src EXCEPT ![p] = None]
        /\ numReads' = [numReads EXCEPT ![j] = @ - 1]
        BY <1>2 DEF TmpMove, SetGraph, DelEdge, Graph
  <2>3. i \in Dst /\ p \in Dst /\ src[p] # None
        BY <2>1 DEF TmpInv
  <2>4. j \in Dst /\ src[j] # None /\ j # p
        BY <2>1, <2>3 DEF CycleInv, GraphShape
  <2>5. \A e \in Dst : src[e] = j => e = p
        BY <2>1, <2>3 DEF CycleInv
  <2>6. p # i => \A e \in Dst : src[e] # p
        BY <2>1 DEF TmpInv
  <2>7. emitted' \subseteq emitted \cup {<<"copy", "GPR", kind[j]>>,
                                         <<"copy", kind[p], "GPR">>,
                                         <<"copy", kind[p], kind[j]>>}
        BY <1>2 DEF TmpMove
  <2>8. tmp' = tmp \/ tmp' = [tmp EXCEPT ![1] = reg[j]]
        BY <1>2 DEF TmpMove
  <2> HIDE DEF j
  <2>9. src[p] = j
        BY DEF j
  <2>10. /\ src' \in [Node -> Node \cup {None}]
         /\ numReads' \in [Node -> Int]
         /\ reg' \in [Node -> Val]
         /\ tmp' \in [{0, 1} -> Val] /\ tmp'[0] = tmp[0]
    <3>1. reg[j] \in Val
          BY <2>4 DEF TypeOK
    <3> QED BY <2>1, <2>2, <2>3, <2>4, <2>8, <3>1 DEF TypeOK
  <2>11. /\ \A n \in Node : src'[n] = IF n = p THEN None ELSE src[n]
         /\ \A n \in Node : reg'[n] = IF n = p THEN reg[j] ELSE reg[n]
        BY <2>1, <2>2, <2>3, <2>4 DEF TypeOK
  <2>12. TypeOK'
    <3>1. kind[p] \in SrcKind /\ kind[j] \in SrcKind /\ "GPR" \in SrcKind
          BY <2>3, <2>4, KindsAssumption DEF TypeOK, SrcKind, RegFile
    <3>2. emitted' \subseteq {"copy", "swap"} \X SrcKind \X SrcKind
          BY <2>7, <3>1 DEF TypeOK
    <3> QED BY <2>1, <2>4, <2>10, <3>2 DEF TypeOK
  <2>13. ReadsCounted'
    <3>1. Counted([src EXCEPT ![p] = None], [numReads EXCEPT ![j] = @ - 1])
          BY <2>3, <2>4, <2>9, CountedIsReads, DelEdgeCounts DEF TypeOK
    <3>2. Counted(src', numReads')
          BY <2>2, <3>1
    <3> QED BY <3>2 DEF ReadsCounted, Counted, ReadersOf, Readers
  <2>14. GraphShape'
        BY <2>3, <2>11 DEF GraphShape
  <2>15. PendingValueKept'
    <3>0. /\ phase' = "tmp" /\ i' = i /\ copies' = copies
          /\ phase = "tmp"
          BY <2>1
    <3> SUFFICES ASSUME NEW e \in Dst, src'[e] # None
                 PROVE  (IF src'[e] = i THEN tmp'[0] ELSE reg'[src'[e]])
                            = InitVal[copies[e]]
        BY <3>0 DEF PendingValueKept, Holds
    <3>1. e # p /\ src'[e] = src[e] /\ src[e] \in Node
          BY <2>11 DEF TypeOK
    <3>2. (IF src[e] = i THEN tmp[0] ELSE reg[src[e]]) = InitVal[copies[e]]
          BY <3>0, <3>1 DEF PendingValueKept, Holds
    <3>3. CASE src[e] = i
          BY <2>10, <3>1, <3>2, <3>3
    <3>4. CASE src[e] # i
      <4>1. src[e] # p
            BY <2>6, <3>4
      <4> QED BY <2>11, <3>1, <3>2, <3>4, <4>1
    <3> QED BY <3>3, <3>4
  <2>16. DoneHasValue'
    <3>1. reg[j] = InitVal[copies[p]]
          BY <2>1, <2>3, <2>9 DEF PendingValueKept, Holds
    <3> QED BY <2>1, <2>11, <3>1 DEF DoneHasValue
  <2>17. CycleInv'
    <3>1. ASSUME NEW d \in Dst, NEW e \in Dst, src'[d] # None, src'[d] = src'[e]
          PROVE  d = e
          BY <2>1, <2>11, <3>1 DEF CycleInv
    <3>2. ASSUME NEW d \in Dst, src'[d] # None
          PROVE  src'[d] \in Dst /\ (src'[src'[d]] # None \/ src'[d] = i)
      <4>1. d # p /\ src'[d] = src[d]
            BY <2>11, <3>2
      <4>2. src[d] \in Dst /\ (src[src[d]] # None \/ src[d] = i)
            BY <2>1, <3>2, <4>1 DEF CycleInv
      <4>3. src[d] = i \/ src[d] # p
            BY <2>6
      <4> QED BY <2>11, <4>1, <4>2, <4>3
    <3>3. ASSUME NEW d \in Dst, (src'[d] # None /\ d # j) \/ d = i
          PROVE  \E e \in Dst : src'[e] = d
      <4>1. (src[d] # None /\ d # p) \/ d = i
            BY <2>11, <3>3
      <4>2. PICK e \in Dst : src[e] = d
            BY <2>1, <4>1 DEF CycleInv
      <4>3. e # p
            BY <2>1, <2>9, <3>3, <4>2
      <4> QED BY <2>11, <4>2, <4>3
    <3>4. ASSUME NEW d \in Dst, d < i PROVE src'[d] = None
          BY <2>1, <2>11, <3>4 DEF CycleInv
    <3> QED BY <2>1, <3>1, <3>2, <3>3, <3>4 DEF CycleInv
  <2>18. TmpInv'
    <3>1. src'[j] # None
          BY <2>4, <2>11
    <3>2. src'[i] = None
          BY <2>1, <2>3, <2>11 DEF TmpInv
    <3>3. \A e \in Dst : src'[e] # j
          BY <2>4, <2>5, <2>11
    <3> QED BY <2>1, <2>3, <2>4, <3>1, <3>2, <3>3 DEF TmpInv
  <2>19. BuildInv' /\ ReadyInv'
        BY <2>1 DEF BuildInv, ReadyInv
  <2> QED BY <2>12, <2>13, <2>14, <2>15, <2>16, <2>17, <2>18, <2>19
<1>3. CASE TmpRestore
  <2>1. /\ phase = "tmp" /\ src[p] = i /\ phase' = "cycles" /\ i' = i + 1
        /\ UNCHANGED <<copies, kind, ready, p, tmp>>
        /\ reg' = [reg EXCEPT ![p] = tmp[0]]
        /\ emitted' = emitted \cup {<<"copy", kind[p], "GPR">>}
        BY <1>3 DEF TmpRestore, input
  <2>2. /\ src' = [src EXCEPT ![p] = None]
        /\ numReads' = [numReads EXCEPT ![i] = @ - 1]
        BY <1>3 DEF TmpRestore, SetGraph, DelEdge, Graph
  <2>3. i \in Dst /\ p \in Dst /\ p # i
        BY <2>1 DEF TmpInv, GraphShape
  <2>4. /\ src[i] = None
        /\ \A e \in Dst : src[e] # p
        /\ \A e \in Dst : src[e] = i => e = p
        BY <2>1, <2>3 DEF TmpInv, CycleInv
  <2>5. /\ src' \in [Node -> Node \cup {None}]
        /\ numReads' \in [Node -> Int]
        /\ reg' \in [Node -> Val]
    <3>1. tmp[0] \in Val
          BY DEF TypeOK
    <3> QED BY <2>1, <2>2, <2>3, <3>1 DEF TypeOK
  <2>6. /\ \A n \in Node : src'[n] = IF n = p THEN None ELSE src[n]
        /\ \A n \in Node : reg'[n] = IF n = p THEN tmp[0] ELSE reg[n]
        BY <2>1, <2>2, <2>3 DEF TypeOK
  <2>7. TypeOK'
    <3>1. kind[p] \in SrcKind /\ "GPR" \in SrcKind
          BY <2>3, KindsAssumption DEF TypeOK, SrcKind, RegFile
    <3>2. emitted' \subseteq {"copy", "swap"} \X SrcKind \X SrcKind
          BY <2>1, <3>1 DEF TypeOK
    <3>3. i' \in 0 .. NumDst
          BY <2>1, <2>3, SizeAssumption DEF Dst
    <3> QED BY <2>1, <2>5, <3>2, <3>3 DEF TypeOK
  <2>8. ReadsCounted'
    <3>1. Counted([src EXCEPT ![p] = None], [numReads EXCEPT ![i] = @ - 1])
          BY <2>1, <2>3, CountedIsReads, DelEdgeCounts DEF TypeOK
    <3>2. Counted(src', numReads')
          BY <2>2, <3>1
    <3> QED BY <3>2 DEF ReadsCounted, Counted, ReadersOf, Readers
  <2>9. GraphShape'
        BY <2>3, <2>6 DEF GraphShape
  <2>10. PendingValueKept'
    <3> SUFFICES ASSUME NEW e \in Dst, src'[e] # None
                 PROVE  reg'[src'[e]] = InitVal[copies'[e]]
        BY <2>1 DEF PendingValueKept, Holds
    <3>1. e # p /\ src'[e] = src[e] /\ src[e] \in Node
          BY <2>6 DEF TypeOK
    <3>2. src[e] # i /\ src[e] # p
          BY <2>4, <3>1
    <3> QED BY <2>1, <2>6, <3>1, <3>2 DEF PendingValueKept, Holds
  <2>11. DoneHasValue'
    <3>1. tmp[0] = InitVal[copies[p]]
          BY <2>1, <2>3 DEF PendingValueKept, Holds
    <3> QED BY <2>1, <2>6, <3>1 DEF DoneHasValue
  <2>12. CycleInv'
    <3>1. ASSUME NEW d \in Dst, NEW e \in Dst, src'[d] # None, src'[d] = src'[e]
          PROVE  d = e
          BY <2>1, <2>6, <3>1 DEF CycleInv
    <3>2. ASSUME NEW d \in Dst, src'[d] # None
          PROVE  src'[d] \in Dst /\ src'[src'[d]] # None
      <4>1. d # p /\ src'[d] = src[d]
            BY <2>6, <3>2
      <4>2. src[d] \in Dst /\ src[d] # i /\ src[d] # p
            BY <2>1, <2>4, <3>2, <4>1 DEF CycleInv
      <4> QED BY <2>1, <2>6, <3>2, <4>1, <4>2 DEF CycleInv
    <3>3. ASSUME NEW d \in Dst, src'[d] # None
          PROVE  \E e \in Dst : src'[e] = d
      <4>1. src[d] # None /\ d # p /\ d # i
            BY <2>4, <2>6, <3>3
      <4>2. PICK e \in Dst : src[e] = d
            BY <2>1, <4>1 DEF CycleInv
      <4> QED BY <2>1, <2>6, <4>1, <4>2
    <3>4. ASSUME NEW d \in Dst, d < i' PROVE src'[d] = None
      <4>1. d < i \/ d = i
            BY <2>1, <2>3, <3>4
      <4> QED BY <2>1, <2>4, <2>6, <4>1 DEF CycleInv
    <3> QED BY <2>1, <3>1, <3>2, <3>3, <3>4 DEF CycleInv
  <2>13. BuildInv' /\ ReadyInv' /\ TmpInv'
        BY <2>1 DEF BuildInv, ReadyInv, TmpInv
  <2> QED BY <2>7, <2>8, <2>9, <2>10, <2>11, <2>12, <2>13
<1> QED BY <1>1, <1>2, <1>3

\* The outer loop over the cycles skips isolated nodes and ends.
LEMMA LoopPreserves ==
    ASSUME Inductive, SkipIsolated \/ Finish
    PROVE  Inductive'
<1> USE NodeFacts DEF Inductive
<1>1. /\ phase = "cycles" /\ phase' \in {"cycles", "done"}
      /\ \/ i < NumDst /\ src[i] = None /\ i' = i + 1 /\ phase' = "cycles"
         \/ i = NumDst /\ i' = i /\ phase' = "done"
      /\ UNCHANGED <<copies, kind, src, numReads, ready, p, reg, tmp, emitted>>
      BY DEF SkipIsolated, Finish, input
<1>2. TypeOK'
  <2>1. i' \in 0 .. NumDst
        BY <1>1, SizeAssumption DEF TypeOK
  <2> QED BY <1>1, <2>1 DEF TypeOK
<1>3. ReadsCounted' /\ GraphShape' /\ DoneHasValue' /\ PendingValueKept'
      BY <1>1 DEF ReadsCounted, Readers, GraphShape, DoneHasValue,
                  PendingValueKept, Holds
<1>4. CycleInv'
  <2>1. ASSUME NEW d \in Dst, d < i' PROVE src[d] = None
    <3>1. d < i \/ (i < NumDst /\ d = i /\ src[i] = None)
          BY <1>1, <2>1 DEF TypeOK
    <3> QED BY <1>1, <3>1 DEF CycleInv
  <2> QED BY <1>1, <2>1 DEF CycleInv
<1>5. BuildInv' /\ ReadyInv' /\ TmpInv'
      BY <1>1 DEF BuildInv, ReadyInv, TmpInv
<1> QED BY <1>2, <1>3, <1>4, <1>5

----------------------------------------------------------------------------
(* The theorems                                                             *)

\* Every state of the pass satisfies the inductive invariant.
THEOREM InductiveInvariant == Spec => []Inductive
<1>1. Init => Inductive
      BY InitInductive
<1>2. Inductive /\ [Next]_vars => Inductive'
  <2> SUFFICES ASSUME Inductive, [Next]_vars PROVE Inductive'
      OBVIOUS
  <2>1. CASE UNCHANGED vars
        BY <2>1 DEF vars, Inductive, TypeOK, ReadsCounted, Readers, GraphShape,
                    BuildInv, DoneHasValue, PendingValueKept, Holds, ReadyInv,
                    CycleInv, TmpInv
  <2>2. CASE Next
        BY <2>1, <2>2, BuildPreserves, ScanPreserves, ReadyPreserves,
           ReadyDonePreserves, SwapPreserves, TmpPreserves, LoopPreserves
           DEF Next, Returned
  <2> QED BY <2>1, <2>2
<1> QED BY <1>1, <1>2, PTL DEF Spec

\* lower_par_copy's variables keep their types; indices stay in the graph.
THEOREM TypeCorrect == Spec => []TypeOK
<1>1. Inductive => TypeOK
      BY DEF Inductive
<1> QED BY <1>1, InductiveInvariant, PTL

\* No emitted instruction overwrites a value that a pending copy still reads.
THEOREM PendingKept == Spec => []PendingValueKept
<1>1. Inductive => PendingValueKept
      BY DEF Inductive
<1> QED BY <1>1, InductiveInvariant, PTL

\* The argument in the comment of the source: after the ready loop only
\* isolated nodes and cycles are left.
THEOREM CyclesLeft == Spec => []OnlyCyclesLeft
<1>1. Inductive => OnlyCyclesLeft
  <2> SUFFICES ASSUME Inductive, phase \in {"cycles", "done"}, NEW n \in Node
               PROVE  numReads[n] = (IF src[n] = None THEN 0 ELSE 1)
      BY DEF OnlyCyclesLeft
  <2> USE NodeFacts DEF Inductive
  <2>1. numReads[n] = Cardinality(Readers(n))
        BY DEF ReadsCounted
  <2>2. CASE src[n] = None
    <3>1. ASSUME NEW e \in Dst, src[e] = n
          PROVE  FALSE
      <4>1. src[e] # None /\ phase # "tmp"
            BY <3>1 DEF TypeOK
      <4>2. src[src[e]] # None
            BY <4>1 DEF CycleInv
      <4> QED BY <2>2, <3>1, <4>2
    <3>2. Readers(n) = {}
          BY <3>1 DEF Readers
    <3> QED BY <2>1, <2>2, <3>2, FS_EmptySet
  <2>3. CASE src[n] # None
    <3>1. n \in Dst
          BY <2>3 DEF GraphShape
    <3>2. PICK e \in Dst : src[e] = n
          BY <2>3, <3>1 DEF CycleInv
    <3>3. Readers(n) = {e}
          BY <3>1, <3>2 DEF Readers, CycleInv
    <3> QED BY <2>1, <2>3, <3>3, FS_Singleton
  <2> QED BY <2>2, <2>3
<1> QED BY <1>1, InductiveInvariant, PTL

\* The emitted instructions have the effect of the parallel copy.
THEOREM Correct == Spec => []ParallelSemantics
<1>1. Inductive => ParallelSemantics
  <2> SUFFICES ASSUME Inductive, phase = "done", NEW n \in Node
               PROVE  reg[n] = InitVal[IF n \in Dst THEN copies[n] ELSE n]
      BY DEF ParallelSemantics
  <2> USE DEF Inductive
  <2>1. CASE n \in Dst
    <3>1. i = NumDst /\ n < i
          BY <2>1, SizeAssumption DEF CycleInv, Dst
    <3>2. src[n] = None
          BY <2>1, <3>1 DEF CycleInv
    <3> QED BY <2>1, <3>2 DEF DoneHasValue
  <2>2. CASE n \notin Dst
        BY <2>2 DEF GraphShape
  <2> QED BY <2>1, <2>2
<1> QED BY <1>1, InductiveInvariant, PTL
----------------------------------------------------------------------------
(* The pass implements the parallel copy                                    *)

\* Once the edges are built, a destination that lost its edge never gets one
\* again: only SwapStep adds an edge, to a node that has one already.
LEMMA ServedStays ==
    ASSUME Inductive, Next, phase # "build", NEW d \in Dst, src[d] = None
    PROVE  src'[d] = None /\ phase' # "build"
<1> USE NodeFacts DEF Inductive, TypeOK, SetGraph, Graph, DelEdge, AddEdge
<1>1. CASE BuildEdge \/ BuildDone
      BY <1>1 DEF BuildEdge, BuildDone
<1>2. CASE ScanReady \/ ScanDone \/ SkipReady \/ ReadyDone
      BY <1>2 DEF ScanReady, ScanDone, SkipReady, ReadyDone
<1>3. CASE CopyReady
      BY <1>3 DEF CopyReady
<1>4. CASE SkipIsolated \/ TmpSave \/ Finish \/ Returned
      BY <1>4 DEF SkipIsolated, TmpSave, Finish, Returned, vars
<1>5. CASE SwapStep
  <2>1. i \in Dst /\ src[i] \in Dst
        BY <1>5 DEF SwapStep, CycleInv, Dst
  <2> QED BY <1>5, <2>1 DEF SwapStep
<1>6. CASE TmpMove \/ TmpRestore
      BY <1>6 DEF TmpMove, TmpRestore, TmpInv
<1> QED BY <1>1, <1>2, <1>3, <1>4, <1>5, <1>6 DEF Next

\* No step changes what is to be copied.
LEMMA InputFixed == Next => UNCHANGED input
BY DEF Next, BuildEdge, BuildDone, ScanReady, ScanDone, CopyReady, SkipReady,
       ReadyDone, SkipIsolated, SwapStep, TmpSave, TmpMove, TmpRestore, Finish,
       Returned, vars, input

\* What was served holds the value that was wanted for it.
LEMMA DeliveredValue ==
    ASSUME Inductive
    PROVE  [d \in Delivered |-> reg[d]] = [d \in Delivered |-> InitVal[copies[d]]]
BY DEF Inductive, DoneHasValue, Delivered

\* Every step of the pass serves destinations that were not served, or none.
LEMMA StepRefines ==
    ASSUME Inductive, Inductive', [Next]_vars
    PROVE  [Parallel!Next]_(Parallel!vars)
<1>1. CASE UNCHANGED vars
      BY <1>1 DEF vars, Parallel!vars, Delivered
<1>2. CASE Next
  <2> DEFINE want == [d \in Dst |-> InitVal[copies[d]]]
             held == [d \in Delivered |-> reg[d]]
             S == Delivered' \ Delivered
  <2>1. copies' = copies
        BY <1>2, InputFixed DEF input
  <2>2. want' = want
        BY <2>1
  <2>3. Delivered \subseteq Delivered'
        BY <1>2, ServedStays DEF Delivered
  <2>4. Delivered \subseteq Dst /\ Delivered' \subseteq Dst
        BY DEF Delivered
  <2>5. held = [d \in Delivered |-> InitVal[copies[d]]]
        BY DeliveredValue
  <2>6. held' = [d \in Delivered' |-> InitVal[copies'[d]]]
    <3>1. \A d \in Delivered' : reg'[d] = InitVal[copies'[d]]
          BY DEF Inductive, DoneHasValue, Delivered
    <3> QED BY <3>1
  <2>7. S \in SUBSET (Dst \ Delivered) /\ DOMAIN held = Delivered
        BY <2>4
  <2> DEFINE after(T) == [d \in DOMAIN held \cup T |->
                             IF d \in DOMAIN held THEN held[d] ELSE want[d]]
  <2>8. held' = after(S)
        BY <2>1, <2>3, <2>4, <2>5, <2>6, <2>7
  <2>9. \E T \in SUBSET (Dst \ DOMAIN held) : held' = after(T) /\ want' = want
    <3>1. S \in SUBSET (Dst \ DOMAIN held)
          BY <2>7
    <3> HIDE DEF after, held, want, S
    <3> QED BY <2>2, <2>8, <3>1
  <2>10. Parallel!Next
         BY <2>9 DEF Parallel!Next, Parallel!Deliver, Parallel!Served
  <2> QED BY <2>10
<1> QED BY <1>1, <1>2

\* lower_par_copy implements the parallel copy for every number of
\* destinations and sources: at every step the destinations without an edge
\* hold what they are to receive, and they keep it.
THEOREM Refinement == Spec => ImplementsParCopy
<1>1. Init => Parallel!Init
  <2> SUFFICES ASSUME Init
               PROVE  Parallel!Init
      OBVIOUS
  <2>1. [d \in Dst |-> InitVal[copies[d]]] \in [Dst -> Val]
        BY NodeFacts, ValAssumption DEF Init
  <2>2. Delivered = {}
        BY DEF Init, Delivered
  <2> QED BY <2>1, <2>2 DEF Parallel!Init
<1>2. Inductive /\ Inductive' /\ [Next]_vars => [Parallel!Next]_(Parallel!vars)
      BY StepRefines
<1> QED BY <1>1, <1>2, InductiveInvariant, PTL DEF Spec, ImplementsParCopy, Parallel!Spec

----------------------------------------------------------------------------
(* What lower_copy_swap is given                                            *)

\* The input, which the pass does not change, is a parallel copy that
\* assign_regs builds.
GoodInput ==
    \A d \in Dst : kind[d] \in RegFile \ {"Carry"} /\ ParCopyPair(kind[d], kind[copies[d]])

\* Until the ready loop is over, the edges are copies of the input.
EdgesAreCopies ==
    phase \in {"build", "scan", "ready"} =>
        \A d \in Dst : src[d] # None => src[d] = copies[d]

\* The cycles that are left lie within one register file each.
OneFile ==
    phase \in {"cycles", "tmp", "done"} =>
        \A d \in Dst : src[d] # None => kind[src[d]] = kind[d]

\* Only GPRs, barriers and spill memory are moved through pc.tmp.
TmpFile == phase = "tmp" => kind[p] = kind[i] /\ kind[i] \in {"GPR", "Bar", "Mem"}

Lowerable == GoodInput /\ EdgesAreCopies /\ OneFile /\ TmpFile /\ EmittedLowerable

\* A permutation of destinations whose edges are copies that assign_regs
\* builds keeps to one register file: a uniform register is only copied from
\* uniform ones, so no other destination is left to read it.
LEMMA CyclesInOneFile ==
    ASSUME NEW f \in [Node -> Node \cup {None}], NEW k,
           \A d \in Dst : k[d] \in RegFile \ {"Carry"},
           \A d \in Dst : f[d] # None => ParCopyPair(k[d], k[f[d]]),
           \A d, e \in Dst : f[d] # None /\ f[d] = f[e] => d = e,
           \A d \in Dst : f[d] # None => f[d] \in Dst /\ f[f[d]] # None
    PROVE  \A d \in Dst : f[d] # None => k[f[d]] = k[d]
<1> DEFINE U == {d \in Dst : f[d] # None /\ k[d] = "UGPR"}
           g == [d \in U |-> f[d]]
<1>1. IsFiniteSet(U)
  <2>1. U \in SUBSET Dst
        OBVIOUS
  <2> QED BY <2>1, DstFinite, FS_Subset
<1>2. ASSUME NEW d \in Dst, f[d] # None
      PROVE  k[f[d]] = k[d] \/ (k[d] = "GPR" /\ k[f[d]] = "UGPR")
  <2>1. ParCopyPair(k[d], k[f[d]]) /\ k[f[d]] \in RegFile
        BY <1>2
  <2> QED BY <2>1 DEF ParCopyPair, RegFile, ConstKind
<1>3. \A d \in U : f[d] \in U
      BY <1>2
<1>4. g \in Injection(U, U)
  <2>1. g \in [U -> U] /\ \A d, e \in U : g[d] = g[e] => d = e
        BY <1>3
  <2> HIDE DEF g, U
  <2> QED BY <2>1, Fun_IsInj
<1>5. g \in Surjection(U, U)
  <2> HIDE DEF g, U
  <2> QED BY <1>1, <1>4, FS_Injection
<1>6. \A u \in U : \E e \in U : g[e] = u
  <2> HIDE DEF g, U
  <2> QED BY <1>5 DEF Surjection
<1>7. ASSUME NEW d \in Dst, f[d] # None, k[d] = "GPR", k[f[d]] = "UGPR" PROVE FALSE
  <2>1. f[d] \in U
        BY <1>7
  <2>2. PICK e \in U : g[e] = f[d]
        BY <1>6, <2>1
  <2>3. f[e] = f[d] /\ e \in Dst /\ k[e] = "UGPR"
        BY <2>2
  <2> QED BY <1>7, <2>3
<1> QED BY <1>2, <1>7

\* The copies that the ready loop emits for a pair that assign_regs builds.
LEMMA ReadyCopyLowerable ==
    ASSUME NEW d \in RegFile \ {"Carry"}, NEW s, ParCopyPair(d, s)
    PROVE  /\ CopyNeedsTmp(d, s) => CanLowerCopy("GPR", s) /\ CanLowerCopy(d, "GPR")
           /\ ~CopyNeedsTmp(d, s) => CanLowerCopy(d, s)
BY DEF ParCopyPair, CopyNeedsTmp, CanLowerCopy, IsUniform, RegFile, ConstKind

\* Before anything is emitted.
LEMMA InitLowerable == Init => Lowerable
<1> SUFFICES ASSUME Init PROVE Lowerable
    OBVIOUS
<1>1. GoodInput
      BY DEF Init, WellFormed, GoodInput
<1>2. EdgesAreCopies /\ OneFile /\ TmpFile /\ EmittedLowerable
      BY NodeFacts DEF Init, EdgesAreCopies, OneFile, TmpFile, EmittedLowerable
<1> QED BY <1>1, <1>2 DEF Lowerable

\* The loops up to the ready loop: the copies are pairs of the input.
LEMMA EarlyLowerable ==
    ASSUME Inductive, Lowerable,
           BuildEdge \/ BuildDone \/ ScanReady \/ ScanDone \/ CopyReady \/ SkipReady
    PROVE  Lowerable'
<1> USE NodeFacts
<1>0. /\ TypeOK /\ GoodInput /\ EdgesAreCopies /\ EmittedLowerable
      /\ copies' = copies /\ kind' = kind
      BY DEF Inductive, Lowerable, input, BuildEdge, BuildDone, ScanReady, ScanDone,
             CopyReady, SkipReady
<1>1. GoodInput'
      BY <1>0 DEF GoodInput
<1>2. phase \in {"build", "scan", "ready"} /\ phase' \in {"build", "scan", "ready"}
      BY DEF BuildEdge, BuildDone, ScanReady, ScanDone, CopyReady, SkipReady
<1>3. OneFile' /\ TmpFile'
      BY <1>2 DEF OneFile, TmpFile
<1>4. CASE BuildEdge
  <2>1. emitted' = emitted /\ i \in Dst
        /\ \/ src' = src
           \/ src' = [src EXCEPT ![i] = copies[i]]
        BY <1>0, <1>4 DEF BuildEdge, SetGraph, AddEdge, Graph, TypeOK
  <2>2. EdgesAreCopies' /\ EmittedLowerable'
        BY <1>0, <1>2, <2>1 DEF EdgesAreCopies, EmittedLowerable, TypeOK
  <2> QED BY <1>1, <1>3, <2>2 DEF Lowerable
<1>5. CASE BuildDone \/ ScanReady \/ ScanDone \/ SkipReady
  <2>1. emitted' = emitted /\ src' = src
        BY <1>5 DEF BuildDone, ScanReady, ScanDone, SkipReady
  <2>2. EdgesAreCopies' /\ EmittedLowerable'
        BY <1>0, <1>2, <2>1 DEF EdgesAreCopies, EmittedLowerable
  <2> QED BY <1>1, <1>3, <2>2 DEF Lowerable
<1>6. CASE CopyReady
  <2> DEFINE d == Top
             s == src[Top]
  <2>1. d \in Node /\ s # None
        BY <1>0, <1>6, InSeqPop DEF CopyReady, TypeOK, Top
  <2>2. d \in Dst
        BY <2>1 DEF Inductive, GraphShape
  <2>3. s = copies[d]
        BY <1>0, <1>2, <2>1, <2>2 DEF EdgesAreCopies
  <2>4. /\ src' = [src EXCEPT ![d] = None]
        /\ emitted' = IF CopyNeedsTmp(kind[d], kind[s])
                      THEN emitted \cup {<<"copy", "GPR", kind[s]>>, <<"copy", kind[d], "GPR">>}
                      ELSE emitted \cup {<<"copy", kind[d], kind[s]>>}
        BY <1>6 DEF CopyReady, SetGraph, DelEdge, Graph
  <2>5. /\ CopyNeedsTmp(kind[d], kind[s]) =>
              CanLowerCopy("GPR", kind[s]) /\ CanLowerCopy(kind[d], "GPR")
        /\ ~CopyNeedsTmp(kind[d], kind[s]) => CanLowerCopy(kind[d], kind[s])
        BY <1>0, <2>2, <2>3, ReadyCopyLowerable DEF GoodInput
  <2> HIDE DEF d, s
  <2>6. EdgesAreCopies'
        BY <1>0, <1>2, <2>2, <2>4 DEF EdgesAreCopies, TypeOK
  <2>7. EmittedLowerable'
        BY <1>0, <2>4, <2>5 DEF EmittedLowerable
  <2> QED BY <1>1, <1>3, <2>6, <2>7 DEF Lowerable
<1> QED BY <1>4, <1>5, <1>6

\* The cycles: swaps and moves through pc.tmp within one register file.
LEMMA CyclesLowerable ==
    ASSUME Inductive, Lowerable, Inductive',
           \/ ReadyDone \/ SkipIsolated \/ SwapStep \/ TmpSave \/ TmpMove \/ TmpRestore \/ Finish
    PROVE  Lowerable'
<1> USE NodeFacts
<1>0. /\ TypeOK /\ GoodInput /\ EdgesAreCopies /\ OneFile /\ TmpFile /\ EmittedLowerable
      /\ CycleInv /\ TmpInv /\ copies' = copies /\ kind' = kind
      BY DEF Inductive, Lowerable, input, ReadyDone, SkipIsolated, SwapStep, TmpSave,
             TmpMove, TmpRestore, Finish
<1>1. GoodInput' /\ EdgesAreCopies'
  <2>1. phase' \in {"cycles", "tmp", "done"}
        BY DEF ReadyDone, SkipIsolated, SwapStep, TmpSave, TmpMove, TmpRestore, Finish
  <2> QED BY <1>0, <2>1 DEF GoodInput, EdgesAreCopies
<1>2. CASE ReadyDone
  <2>1. /\ phase = "ready" /\ phase' = "cycles" /\ src' = src /\ emitted' = emitted
        BY <1>2 DEF ReadyDone
  <2>2. /\ \A d, e \in Dst : src[d] # None /\ src[d] = src[e] => d = e
        /\ \A d \in Dst : src[d] # None => src[d] \in Dst /\ src[src[d]] # None
        BY <2>1 DEF Inductive, CycleInv
  <2>3. /\ \A d \in Dst : kind[d] \in RegFile \ {"Carry"}
        /\ \A d \in Dst : src[d] # None => ParCopyPair(kind[d], kind[src[d]])
        BY <1>0, <2>1 DEF GoodInput, EdgesAreCopies
  <2>4. src \in [Node -> Node \cup {None}]
        BY <1>0 DEF TypeOK
  <2>5. \A d \in Dst : src[d] # None => kind[src[d]] = kind[d]
        BY <2>2, <2>3, <2>4, CyclesInOneFile
  <2> QED BY <1>0, <1>1, <2>1, <2>5 DEF Lowerable, OneFile, TmpFile, EmittedLowerable
<1>3. CASE SkipIsolated \/ Finish
  <2>1. /\ phase = "cycles" /\ phase' \in {"cycles", "done"} /\ src' = src /\ emitted' = emitted
        BY <1>3 DEF SkipIsolated, Finish
  <2> QED BY <1>0, <1>1, <2>1 DEF Lowerable, OneFile, TmpFile, EmittedLowerable
<1>4. CASE SwapStep
  <2> DEFINE j == src[i]
             k == src[j]
  <2>1. /\ phase = "cycles" /\ phase' = "cycles" /\ i \in Dst /\ j # None
        /\ CycleUseSwap(kind[i]) /\ emitted' = emitted \cup {<<"swap", kind[j], kind[k]>>}
        BY <1>0, <1>4 DEF SwapStep, TypeOK
  <2>2. j \in Dst /\ k # None
        BY <1>0, <2>1 DEF CycleInv
  <2>3. k \in Dst
        BY <1>0, <2>1, <2>2 DEF CycleInv
  <2>4. kind[j] = kind[i] /\ kind[k] = kind[i]
        BY <1>0, <2>1, <2>2 DEF OneFile
  <2>5. src \in [Node -> Node \cup {None}]
        BY <1>0 DEF TypeOK
  <2>6. /\ src' \in [Node -> Node \cup {None}]
        /\ \A d \in Dst : src'[d] = src[d] \/ src'[d] = None \/ (d = i /\ src'[d] = k)
    <3>1. src' = IF i = k THEN [[src EXCEPT ![i] = None] EXCEPT ![j] = None]
                 ELSE [[[src EXCEPT ![i] = None] EXCEPT ![j] = None] EXCEPT ![i] = k]
          BY <1>4 DEF SwapStep, SetGraph, DelEdge, AddEdge, Graph
    <3> HIDE DEF j, k
    <3> QED BY <2>1, <2>2, <2>3, <2>5, <3>1
  <2>7. OneFile'
        BY <1>0, <2>1, <2>4, <2>6 DEF OneFile
  <2>8. CanLowerSwap(kind[j], kind[k])
        BY <2>1, <2>4 DEF CanLowerSwap, CycleUseSwap
  <2>9. EmittedLowerable'
        BY <1>0, <2>1, <2>8 DEF EmittedLowerable
  <2> QED BY <1>1, <2>1, <2>7, <2>9 DEF Lowerable, TmpFile
<1>5. CASE TmpSave
  <2>1. /\ phase = "cycles" /\ phase' = "tmp" /\ i \in Dst /\ i' = i /\ p' = i /\ src' = src
        /\ ~CycleUseSwap(kind[i]) /\ emitted' = emitted \cup {<<"copy", "GPR", kind[i]>>}
        BY <1>0, <1>5 DEF TmpSave, TypeOK
  <2>2. kind[i] \in {"GPR", "Bar", "Mem"}
        BY <2>1 DEF CycleUseSwap
  <2>3. CanLowerCopy("GPR", kind[i])
        BY <2>2 DEF CanLowerCopy, IsUniform, ConstKind
  <2>4. EmittedLowerable'
        BY <1>0, <2>1, <2>3 DEF EmittedLowerable
  <2> QED BY <1>0, <1>1, <2>1, <2>2, <2>4 DEF Lowerable, OneFile, TmpFile
<1>6. CASE TmpMove
  <2> DEFINE j == src[p]
  <2>1. /\ phase = "tmp" /\ phase' = "tmp" /\ i' = i /\ p' = j
        /\ src' = [src EXCEPT ![p] = None]
        /\ emitted' = IF kind[i] \in {"Bar", "Mem"}
                      THEN emitted \cup {<<"copy", "GPR", kind[j]>>, <<"copy", kind[p], "GPR">>}
                      ELSE emitted \cup {<<"copy", kind[p], kind[j]>>}
        BY <1>6 DEF TmpMove, SetGraph, DelEdge, Graph
  <2>2. p \in Dst /\ j # None
        BY <1>0, <2>1 DEF TmpInv
  <2>3. kind[j] = kind[p] /\ kind[p] = kind[i] /\ kind[i] \in {"GPR", "Bar", "Mem"}
        BY <1>0, <2>1, <2>2 DEF OneFile, TmpFile
  <2>4. /\ CanLowerCopy("GPR", kind[j]) /\ CanLowerCopy(kind[p], "GPR")
        /\ kind[i] \notin {"Bar", "Mem"} => CanLowerCopy(kind[p], kind[j])
        BY <2>3 DEF CanLowerCopy, IsUniform, ConstKind
  <2>5. OneFile'
        BY <1>0, <2>1, <2>2 DEF OneFile, TypeOK
  <2>6. TmpFile'
        BY <1>0, <2>1, <2>3 DEF TmpFile
  <2> HIDE DEF j
  <2>7. EmittedLowerable'
        BY <1>0, <2>1, <2>4 DEF EmittedLowerable
  <2> QED BY <1>1, <2>5, <2>6, <2>7 DEF Lowerable
<1>7. CASE TmpRestore
  <2>1. /\ phase = "tmp" /\ phase' = "cycles" /\ src' = [src EXCEPT ![p] = None]
        /\ emitted' = emitted \cup {<<"copy", kind[p], "GPR">>}
        BY <1>7 DEF TmpRestore, SetGraph, DelEdge, Graph
  <2>2. p \in Dst /\ kind[p] \in {"GPR", "Bar", "Mem"}
        BY <1>0, <2>1 DEF TmpInv, TmpFile
  <2>3. CanLowerCopy(kind[p], "GPR")
        BY <2>2 DEF CanLowerCopy, IsUniform, ConstKind
  <2>4. OneFile'
        BY <1>0, <2>1, <2>2 DEF OneFile, TypeOK
  <2>5. EmittedLowerable'
        BY <1>0, <2>1, <2>3 DEF EmittedLowerable
  <2> QED BY <1>1, <2>1, <2>4, <2>5 DEF Lowerable, TmpFile
<1> QED BY <1>2, <1>3, <1>4, <1>5, <1>6, <1>7

\* lower_copy_swap has machine instructions for everything the pass emits, for
\* parallel copies of every size, of all register files and constants: none of
\* its asserts or ice! branches is reached.
THEOREM AllLowerable == Spec => []EmittedLowerable
<1>1. Inductive /\ Lowerable /\ Inductive' /\ [Next]_vars => Lowerable'
  <2> SUFFICES ASSUME Inductive, Lowerable, Inductive', [Next]_vars PROVE Lowerable'
      OBVIOUS
  <2>1. CASE UNCHANGED vars
    <3>1. /\ copies' = copies /\ kind' = kind /\ phase' = phase /\ src' = src /\ i' = i
          /\ p' = p /\ emitted' = emitted
          BY <2>1 DEF vars
    <3> QED BY <3>1 DEF Lowerable, GoodInput, EdgesAreCopies, OneFile, TmpFile, EmittedLowerable
  <2>2. CASE Next
        BY <2>1, <2>2, EarlyLowerable, CyclesLowerable DEF Next, Returned
  <2> QED BY <2>1, <2>2
<1>2. Lowerable => EmittedLowerable
      BY DEF Lowerable
<1> QED BY <1>1, <1>2, InitLowerable, InductiveInvariant, PTL DEF Spec

=============================================================================
