----------------------- MODULE FuncControlEdgeProofs -----------------------
(***************************************************************************)
(* The control flow graph that FuncTranslator builds beside the code is    *)
(* the one the code has, for programs of any length and nesting: from      *)
(* every block the code can reach, the CFG edges lead where the branches   *)
(* and the fallthrough lead.                                               *)
(*                                                                         *)
(* Branches name labels whose blocks do not exist yet, and edges are added *)
(* when their target does.  So every frame carries what is still owed: the *)
(* labels it has handed out and will place, the branches and fallthroughs  *)
(* of closed blocks that have no edge yet.  Code that nothing leads to is  *)
(* exempt: what follows a jump, and the continuing block of a loop whose   *)
(* body never comes to its end.                                            *)
(***************************************************************************)
EXTENDS FuncControlProofs

----------------------------------------------------------------------------
(* The inductive invariant                                                 *)

\* The labels code branches to, and whether it goes on into the next block.
Exits(is) == {is[j].target : j \in {k \in DOMAIN is : is[k].op = "bra"}}
RunsOn(is) == ~(is # <<>> /\ Leaves(Last(is)))
Plain(is) == Sequence(is) /\ Without(is, "bra") /\ Without(is, "exit")

\* The same of a block, and the block's label.
Out(f, b) == Exits(CodeAt(f, b))
On(f, b) == RunsOn(CodeAt(f, b))
Lab(f, b) == IF b \in Closed(f) THEN f.blocks[b].label ELSE f.label
OpenBlock(f) == Len(f.blocks) + 1

\* Block b branches to label l, and the frame is to add the edge.
Owes(fr, b, l) ==
    \/ fr.k = "if" /\ fr.stage = "accept" /\ b = fr.cond /\ l = fr.merge
    \/ fr.k = "if" /\ fr.stage # "accept" /\ b = fr.cond /\ l = fr.merge + 1
    \/ fr.k = "if" /\ fr.stage = "reject" /\ ~fr.acceptDead /\ b = fr.acceptEnd /\ l = fr.merge
    \/ fr.k = "loop" /\ b \in fr.breaks /\ l = fr.exitLabel
    \/ fr.k = "loop" /\ b \in fr.continues /\ l = fr.contLabel
    \/ fr.k = "switch" /\ b \in fr.ends /\ l = fr.merge
    \/ fr.k = "switch" /\ fr.stage = "case" /\ b = fr.check /\ l = fr.next

\* Block b goes on into the next one, and the frame is to add the edge.
OwesNext(fr, b) ==
    \/ fr.k = "if" /\ fr.stage # "reject" /\ b = fr.cond
    \/ fr.k = "switch" /\ fr.stage = "case" /\ b = fr.check

\* The frame has label l for a block it is to start; block b has label l.
Named(fr, l) ==
    \/ fr.k = "if" /\ l = fr.merge
    \/ fr.k = "if" /\ fr.stage = "accept of two" /\ l = fr.merge + 1
    \/ fr.k = "loop" /\ l = fr.exitLabel
    \/ fr.k = "loop" /\ fr.stage = "body" /\ l = fr.contLabel
    \/ fr.k = "switch" /\ l = fr.merge
    \/ fr.k = "switch" /\ fr.stage = "case" /\ l = fr.next
Placed(fr, b, l) ==
    \/ fr.k = "if" /\ fr.stage = "reject" /\ b = fr.start /\ l = fr.merge + 1
    \/ fr.k = "loop" /\ b = fr.header /\ l = fr.headerLabel
    \/ fr.k = "loop" /\ fr.stage = "cont" /\ b = fr.cont /\ l = fr.contLabel

\* The continuing block of a loop that nothing leads to.
Sealed(fr) == fr.k = "loop" /\ fr.stage = "cont" /\ fr.bodyDead /\ fr.continues = {}

\* A frame by itself.
SelfOK(fr) ==
    /\ fr.k = "if" /\ fr.stage # "reject" => fr.start = fr.cond + 1
    /\ fr.k = "loop" => fr.contLabel # fr.exitLabel
    /\ fr.k = "switch" /\ fr.stage = "case" => fr.next # fr.merge
    /\ \A b, l : Owes(fr, b, l) => Named(fr, l) \/ \E c : Placed(fr, c, l)

\* No two blocks have the same label, and no block has one that is to come.
LabelsOK(f) ==
    /\ f.nlabel \in Nat
    /\ \A b \in Known(f) : Lab(f, b) \in Nat /\ Lab(f, b) < f.nlabel
    /\ \A b, c \in Known(f) : Lab(f, b) = Lab(f, c) => b = c
NamesOK(f, s) == \A n \in 1 .. Len(s) :
    /\ SelfOK(s[n])
    /\ \A l : Named(s[n], l) => l \in Nat /\ l < f.nlabel /\ \A b \in Known(f) : Lab(f, b) # l
    /\ \A b, l : Placed(s[n], b, l) => b \in Known(f) /\ Lab(f, b) = l
    /\ \A m \in 1 .. Len(s) : m # n => \A l : ~(Named(s[n], l) /\ Named(s[m], l))

\* What the frames owe, the code does.  U are the blocks nothing leads to.
DebtsOK(f, s, U) == \A n \in 1 .. Len(s) :
    /\ \A b, l : Owes(s[n], b, l) => b \in Closed(f) /\ (b \in U \/ l \in Out(f, b))
    /\ \A b : OwesNext(s[n], b) => b \in Closed(f) /\ (b \in U \/ On(f, b))

\* An edge is a branch or a fallthrough.
EdgeOK(f, U, b, c) ==
    /\ b \in Closed(f) /\ c \in Known(f)
    /\ b \in U \/ Lab(f, c) \in Out(f, b) \/ (On(f, b) /\ c = b + 1)
EdgesOK(f, U) == \A e \in f.edges : e = <<e[1], e[2]>> /\ EdgeOK(f, U, e[1], e[2])

\* A branch or a fallthrough has its edge, or a frame owes it.
Paid(f, b, l) == \E c \in Known(f) : Lab(f, c) = l /\ <<b, c>> \in f.edges
FlowOK(f, s, U) == \A b \in Closed(f) : b \in U \/
    /\ \A l \in Out(f, b) : Paid(f, b, l) \/ \E n \in 1 .. Len(s) : Owes(s[n], b, l)
    /\ On(f, b) => \/ <<b, b + 1>> \in f.edges
                   \/ f.block = b
                   \/ \E n \in 1 .. Len(s) : OwesNext(s[n], b)

\* Nothing outside U leads into U.
ShutOK(f, U) ==
    /\ 1 \notin U /\ U \subseteq Known(f)
    /\ \A b \in Closed(f) : b \in U \/
         /\ \A c \in U : Lab(f, c) \notin Out(f, b)
         /\ On(f, b) => b + 1 \notin U

\* Where nothing leads to a continuing block, nothing leads into its code.
SealOK(f, s, U) == \A n \in 1 .. Len(s) : Sealed(s[n]) =>
    /\ OpenBlock(f) \in U
    /\ \A m \in 1 .. Len(s) : n < m => \A b, l : Owes(s[m], b, l) => b \in U

\* A loop whose header nothing leads to stands in such code.
HeadOK(s, U) == \A n \in 1 .. Len(s) : s[n].k = "loop" /\ s[n].header \in U =>
    \E m \in 1 .. Len(s) : m < n /\ Sealed(s[m])

\* The open block has not ended, and the block before may go on into it.
OpenOK(f, U) ==
    /\ f.block \in {NoBlock, Len(f.blocks)}
    /\ f.block # NoBlock => f.block \in U \/ On(f, f.block)
    /\ OpenBlock(f) \in U \/ Plain(f.instrs)

\* The graph and what is owed of it.
Graph(f, s, U) ==
    /\ LabelsOK(f) /\ NamesOK(f, s) /\ DebtsOK(f, s, U) /\ EdgesOK(f, U)
    /\ FlowOK(f, s, U) /\ ShutOK(f, U) /\ SealOK(f, s, U) /\ HeadOK(s, U)
    /\ OpenOK(f, U)

\* Dead code is unreachable, but for what follows a Return in an inlined
\* call, where the open block goes on once the callee ends.
DeadOK(f, s, U) == f.dead => OpenBlock(f) \in U \/ (Len(s) > 0 /\ s[Len(s)].k = "call")

----------------------------------------------------------------------------
(* Code                                                                    *)

\* Code with one more instruction.
LEMMA AppendExits ==
    ASSUME NEW s, Sequence(s), NEW e
    PROVE  /\ Exits(Append(s, e)) = Exits(s) \cup (IF e.op = "bra" THEN {e.target} ELSE {})
           /\ RunsOn(Append(s, e)) <=> ~Leaves(e)
           /\ Plain(s) /\ e.op \notin {"bra", "exit"} => Plain(Append(s, e))
<1> DEFINE t == Append(s, e)
           n == Len(s)
<1>1. /\ DOMAIN s = 1 .. n /\ n \in Nat /\ DOMAIN t = 1 .. n + 1 /\ Sequence(t)
      /\ \A k \in 1 .. n : t[k] = s[k]
      /\ t[n + 1] = e /\ Len(t) = n + 1
      BY AppendSequence
<1> HIDE DEF t, n
<1>2. /\ DOMAIN t = DOMAIN s \cup {n + 1} /\ \A k \in DOMAIN s : t[k] = s[k]
      BY <1>1
<1>3. Exits(t) \subseteq Exits(s) \cup (IF e.op = "bra" THEN {e.target} ELSE {})
  <2> SUFFICES ASSUME NEW l \in Exits(t) PROVE l \in Exits(s) \cup (IF e.op = "bra" THEN {e.target} ELSE {})
      OBVIOUS
  <2>1. PICK j \in DOMAIN t : t[j].op = "bra" /\ l = t[j].target
        BY DEF Exits
  <2>2. CASE j \in DOMAIN s
    <3>1. s[j].op = "bra" /\ l = s[j].target
          BY <1>2, <2>1, <2>2
    <3>2. l \in Exits(s)
          BY <2>2, <3>1 DEF Exits
    <3> QED BY <3>2
  <2>3. CASE j = n + 1
        BY <1>1, <2>1, <2>3
  <2> QED BY <1>2, <2>2, <2>3
<1>4. ASSUME NEW l \in Exits(s) PROVE l \in Exits(t)
  <2>1. PICK j \in DOMAIN s : s[j].op = "bra" /\ l = s[j].target
        BY DEF Exits
  <2>2. j \in DOMAIN t /\ t[j].op = "bra" /\ l = t[j].target
        BY <1>2, <2>1
  <2> QED BY <2>2 DEF Exits
<1>5. ASSUME e.op = "bra" PROVE e.target \in Exits(t)
  <2>1. n + 1 \in DOMAIN t /\ t[n + 1].op = "bra" /\ e.target = t[n + 1].target
        BY <1>1, <1>2, <1>5
  <2> QED BY <2>1 DEF Exits
<1>6. RunsOn(t) <=> ~Leaves(e)
  <2>1. Last(t) = e
        BY <1>1 DEF Last
  <2>2. t # <<>>
    <3>1. n + 1 # 0
          BY <1>1
    <3> QED BY <1>1, <3>1, EmptySequence
  <2> QED BY <2>1, <2>2 DEF RunsOn
<1>7. Plain(s) /\ e.op \notin {"bra", "exit"} => Plain(t)
      BY <1>1, <1>2 DEF Plain, Without
<1>8. Exits(t) = Exits(s) \cup (IF e.op = "bra" THEN {e.target} ELSE {})
      BY <1>3, <1>4, <1>5
<1> QED BY <1>6, <1>7, <1>8 DEF t

\* Code that has not ended.
LEMMA PlainRuns ==
    ASSUME NEW s, Plain(s)
    PROVE  Exits(s) = {} /\ RunsOn(s) /\ Sequence(s)
<1>1. Exits(s) = {}
      BY DEF Exits, Plain, Without
<1>2. ASSUME s # <<>> PROVE ~Leaves(Last(s))
  <2>1. Len(s) \in Nat /\ DOMAIN s = 1 .. Len(s)
        BY AppendSequence DEF Plain
  <2>2. Len(s) # 0
    <3>1. s \in Seq({s[k] : k \in DOMAIN s})
          BY DEF Plain, Sequence
    <3> QED BY <1>2, <3>1, EmptySeq
  <2>3. Len(s) \in DOMAIN s
        BY <2>1, <2>2
  <2>4. Last(s).op # "bra" /\ Last(s).op # "exit"
        BY <2>3 DEF Plain, Without, Last
  <2> QED BY <2>4 DEF Leaves
<1> QED BY <1>1, <1>2 DEF RunsOn, Plain

----------------------------------------------------------------------------
(* A move: the open block is closed with code "is", the edges E are added, *)
(* and a block is opened.                                                  *)
Block(l, is) == [label |-> l, instrs |-> is]
Entering(f) == {<<p, Len(f.blocks) + 1>> : p \in {f.block} \ {NoBlock}}
Moves(f, g, is, E) ==
    /\ g.blocks = Append(f.blocks, Block(f.label, is))
    /\ g.edges = (f.edges \cup Entering(f)) \cup E

\* The blocks after a move.
LEMMA MoveAt ==
    ASSUME NEW f, Sequence(f.blocks), NEW g, NEW is, NEW E, Moves(f, g, is, E)
    PROVE  LET n == OpenBlock(f)
           IN  /\ n \in Nat /\ OpenBlock(g) = n + 1 /\ n = Len(f.blocks) + 1 /\ n > 0
               /\ Closed(f) = 1 .. n - 1 /\ Known(f) = 1 .. n
               /\ Closed(g) = 1 .. n /\ Known(g) = 1 .. n + 1
               /\ \A b \in Known(f) : Lab(g, b) = Lab(f, b)
               /\ Lab(g, n + 1) = g.label
               /\ \A b \in Closed(f) : Out(g, b) = Out(f, b) /\ On(g, b) = On(f, b)
               /\ Out(g, n) = Exits(is) /\ On(g, n) = RunsOn(is)
<1> DEFINE m == Len(f.blocks)
           B == Block(f.label, is)
<1>1. /\ m \in Nat /\ Len(g.blocks) = m + 1
      /\ \A k \in 1 .. m : g.blocks[k] = f.blocks[k]
      /\ g.blocks[m + 1] = B
      BY AppendSequence DEF Moves
<1>2. B.label = f.label /\ B.instrs = is
      BY DEF Block
<1>3. /\ Closed(f) = 1 .. m /\ Known(f) = 1 .. m + 1 /\ Closed(g) = 1 .. m + 1 /\ Known(g) = 1 .. m + 1 + 1
      /\ OpenBlock(f) = m + 1 /\ OpenBlock(g) = m + 1 + 1
      BY <1>1 DEF Closed, Known, OpenBlock
<1> HIDE DEF m, B
<1>4. \A b \in Closed(f) : Lab(g, b) = Lab(f, b) /\ CodeAt(g, b) = CodeAt(f, b)
      BY <1>1, <1>3 DEF Lab, CodeAt
<1>5. Lab(g, m + 1) = f.label /\ Lab(f, m + 1) = f.label /\ CodeAt(g, m + 1) = is
      BY <1>1, <1>2, <1>3 DEF Lab, CodeAt
<1>6. Lab(g, m + 1 + 1) = g.label
      BY <1>1, <1>3 DEF Lab
<1>7. \A b \in Known(f) : b \in Closed(f) \/ b = m + 1
      BY <1>1, <1>3
<1>8. \A b \in Known(f) : Lab(g, b) = Lab(f, b)
      BY <1>4, <1>5, <1>7
<1>9. /\ \A b \in Closed(f) : Out(g, b) = Out(f, b) /\ On(g, b) = On(f, b)
      /\ Out(g, m + 1) = Exits(is) /\ On(g, m + 1) = RunsOn(is)
      BY <1>4, <1>5 DEF Out, On
<1>10. m + 1 \in Nat /\ m + 1 > 0 /\ m = (m + 1) - 1 /\ m + 1 = Len(f.blocks) + 1
      BY <1>1 DEF m
<1> QED BY <1>3, <1>6, <1>8, <1>9, <1>10

\* Frame k of the stack s is replaced by w.
Replaces(s, t, k, w) ==
    /\ Len(t) = Len(s) /\ k \in 1 .. Len(s) /\ t[k] = w
    /\ \A j \in 1 .. Len(s) : j # k => t[j] = s[j]

\* The block that is opened has a label that frame o had for it, or a new
\* one, and what frame w has labels for is o's or new.
NewLabel(f, g, l) == l \in Nat /\ f.nlabel <= l /\ l < g.nlabel
Relabels(f, g, o, w) ==
    /\ SelfOK(w) /\ g.nlabel \in Nat /\ f.nlabel <= g.nlabel
    /\ Named(o, g.label) \/ NewLabel(f, g, g.label)
    /\ ~Named(w, g.label)
    /\ \A l : Named(w, l) => Named(o, l) \/ NewLabel(f, g, l)
    /\ \A b, l : Placed(w, b, l) => Placed(o, b, l) \/ (b = OpenBlock(f) + 1 /\ l = g.label)

\* What frame w owes and o did not is what the closed block does.
Borrows(f, is, o, w, U) ==
    /\ \A b, l : Owes(w, b, l) =>
          Owes(o, b, l) \/ (b = OpenBlock(f) /\ (b \in U \/ l \in Exits(is)))
    /\ \A b : OwesNext(w, b) =>
          OwesNext(o, b) \/ (b = OpenBlock(f) /\ (b \in U \/ RunsOn(is)))

\* An edge that is added pays what frame o owes or what the closed block
\* does.
Due(f, g, is, o, U, b, c) ==
    LET n == OpenBlock(f)
    IN  \/ b = n /\ c = n + 1 /\ (b \in U \/ g.label \in Exits(is) \/ RunsOn(is))
        \/ b = n /\ \E l : Placed(o, c, l) /\ (b \in U \/ l \in Exits(is))
        \/ c = n + 1 /\ Owes(o, b, g.label)
        \/ \E l : Owes(o, b, l) /\ Placed(o, c, l)
        \/ c = b + 1 /\ OwesNext(o, b)
AllDue(f, g, is, o, E, U) == \A e \in E : e = <<e[1], e[2]>> /\ Due(f, g, is, o, U, e[1], e[2])

\* What frame o owes and w does not is paid.
PaysFor(f, g, o, E, b, l) ==
    \/ l = g.label /\ <<b, OpenBlock(f) + 1>> \in E
    \/ \E c : Placed(o, c, l) /\ <<b, c>> \in E
Pays(f, g, o, w, E, U) ==
    /\ \A b, l : Owes(o, b, l) => b \in U \/ Owes(w, b, l) \/ PaysFor(f, g, o, E, b, l)
    /\ \A b : OwesNext(o, b) => b \in U \/ OwesNext(w, b) \/ <<b, b + 1>> \in E

\* So is what the closed block does, or w owes it.
PaysNew(f, g, is, o, w, E, U) ==
    LET n == OpenBlock(f)
    IN  n \in U \/ /\ \A l \in Exits(is) : Owes(w, n, l) \/ PaysFor(f, g, o, E, n, l)
                   /\ RunsOn(is) => \/ OwesNext(w, n)
                                    \/ <<n, n + 1>> \in E
                                    \/ g.block = n

\* Nothing leads to the block that is opened.
Seals(f, g, is, o, U) ==
    /\ OpenBlock(f) \in U \/ (~RunsOn(is) /\ g.label \notin Exits(is))
    /\ \A b : Owes(o, b, g.label) => b \in U

\* The labels after a move.
LEMMA MoveLabels ==
    ASSUME NEW f, Sequence(f.blocks), NEW g, NEW is, NEW E, Moves(f, g, is, E),
           NEW s, NEW t, NEW k, NEW w, Replaces(s, t, k, w),
           LabelsOK(f), NamesOK(f, s), Relabels(f, g, s[k], w)
    PROVE  LabelsOK(g) /\ NamesOK(g, t)
<1> DEFINE n == OpenBlock(f)
           o == s[k]
<1>1. /\ n \in Nat /\ n > 0 /\ Known(f) = 1 .. n /\ Known(g) = 1 .. n + 1
      /\ \A b \in Known(f) : Lab(g, b) = Lab(f, b)
      /\ Lab(g, n + 1) = g.label
      BY MoveAt
<1>k. k \in 1 .. Len(s) /\ Len(t) = Len(s) /\ t[k] = w /\ \A j \in 1 .. Len(s) : j # k => t[j] = s[j]
      BY DEF Replaces
<1> HIDE DEF n
<1>2. \A b \in Known(g) : b \in Known(f) \/ b = n + 1
      BY <1>1
<1>3. n + 1 \notin Known(f) /\ n + 1 \in Known(g) /\ Known(f) \subseteq Known(g)
      BY <1>1
<1>4. f.nlabel \in Nat /\ g.nlabel \in Nat /\ f.nlabel <= g.nlabel
      BY DEF LabelsOK, Relabels
<1>5. \A b \in Known(f) : Lab(f, b) \in Nat /\ Lab(f, b) < f.nlabel
      BY DEF LabelsOK
<1>6. \A l : Named(o, l) => l \in Nat /\ l < f.nlabel /\ \A b \in Known(f) : Lab(f, b) # l
      BY <1>k DEF NamesOK
<1>7. g.label \in Nat /\ g.label < g.nlabel /\ \A b \in Known(f) : Lab(f, b) # g.label
  <2>1. CASE Named(o, g.label)
        BY <1>4, <1>6, <2>1
  <2>2. CASE NewLabel(f, g, g.label)
        BY <1>4, <1>5, <2>2 DEF NewLabel
  <2> QED BY <2>1, <2>2 DEF Relabels
<1>8. LabelsOK(g)
  <2>1. \A b \in Known(g) : Lab(g, b) \in Nat /\ Lab(g, b) < g.nlabel
    <3>1. \A b \in Known(f) : Lab(g, b) \in Nat /\ Lab(g, b) < g.nlabel
          BY <1>1, <1>4, <1>5
    <3> QED BY <1>1, <1>2, <1>7, <3>1
  <2>2. ASSUME NEW b \in Known(g), NEW c \in Known(g), Lab(g, b) = Lab(g, c) PROVE b = c
    <3>1. CASE b \in Known(f) /\ c \in Known(f)
          BY <1>1, <2>2, <3>1 DEF LabelsOK
    <3>2. CASE b = n + 1 /\ c \in Known(f)
          BY <1>1, <1>7, <2>2, <3>2
    <3>3. CASE b \in Known(f) /\ c = n + 1
          BY <1>1, <1>7, <2>2, <3>3
    <3> QED BY <1>2, <3>1, <3>2, <3>3
  <2> QED BY <1>4, <2>1, <2>2 DEF LabelsOK
<1>9. ASSUME NEW l, \/ l \in Nat /\ l < f.nlabel /\ \A b \in Known(f) : Lab(f, b) # l
                    \/ NewLabel(f, g, l),
             l # g.label
      PROVE  l \in Nat /\ l < g.nlabel /\ \A b \in Known(g) : Lab(g, b) # l
  <2>1. \A b \in Known(f) : Lab(g, b) # l
    <3>1. CASE l \in Nat /\ l < f.nlabel /\ \A b \in Known(f) : Lab(f, b) # l
          BY <1>1, <3>1
    <3>2. CASE NewLabel(f, g, l)
      <4>1. \A b \in Known(f) : Lab(f, b) # l
            BY <1>4, <1>5, <3>2 DEF NewLabel
      <4> QED BY <1>1, <4>1
    <3> QED BY <1>9, <3>1, <3>2
  <2>2. \A b \in Known(g) : Lab(g, b) # l
        BY <1>1, <1>2, <1>9, <2>1
  <2>3. l \in Nat /\ l < g.nlabel
        BY <1>4, <1>9 DEF NewLabel
  <2> QED BY <2>2, <2>3
<1>10. \A j \in 1 .. Len(s) : j # k => ~Named(s[j], g.label)
  <2> SUFFICES ASSUME NEW j \in 1 .. Len(s), j # k, Named(s[j], g.label) PROVE FALSE
      OBVIOUS
  <2>1. CASE Named(o, g.label)
        BY <1>k, <2>1 DEF NamesOK
  <2>2. CASE NewLabel(f, g, g.label)
    <3>1. g.label < f.nlabel
          BY DEF NamesOK
    <3> QED BY <1>4, <2>2, <3>1 DEF NewLabel
  <2> QED BY <2>1, <2>2 DEF Relabels
<1>11. ASSUME NEW j \in 1 .. Len(t)
       PROVE /\ SelfOK(t[j])
             /\ \A l : Named(t[j], l) => l \in Nat /\ l < g.nlabel /\ \A b \in Known(g) : Lab(g, b) # l
             /\ \A b, l : Placed(t[j], b, l) => b \in Known(g) /\ Lab(g, b) = l
  <2>1. CASE j = k
    <3>1. SelfOK(t[j])
          BY <1>k, <2>1 DEF Relabels
    <3>2. ASSUME NEW l, Named(w, l)
          PROVE l \in Nat /\ l < g.nlabel /\ \A b \in Known(g) : Lab(g, b) # l
      <4>1. l # g.label /\ (Named(o, l) \/ NewLabel(f, g, l))
            BY <3>2 DEF Relabels
      <4> QED BY <1>6, <1>9, <4>1
    <3>3. ASSUME NEW b, NEW l, Placed(w, b, l) PROVE b \in Known(g) /\ Lab(g, b) = l
      <4>1. CASE Placed(o, b, l)
        <5>1. b \in Known(f) /\ Lab(f, b) = l
              BY <1>k, <4>1 DEF NamesOK
        <5> QED BY <1>1, <1>3, <5>1
      <4>2. CASE b = n + 1 /\ l = g.label
            BY <1>1, <1>3, <4>2
      <4> QED BY <3>3, <4>1, <4>2 DEF Relabels, n
    <3> QED BY <1>k, <2>1, <3>1, <3>2, <3>3
  <2>2. CASE j # k
    <3>1. t[j] = s[j] /\ j \in 1 .. Len(s)
          BY <1>k, <2>2
    <3>2. SelfOK(s[j])
          BY <3>1 DEF NamesOK
    <3>3. ASSUME NEW l, Named(s[j], l)
          PROVE l \in Nat /\ l < g.nlabel /\ \A b \in Known(g) : Lab(g, b) # l
      <4>1. l \in Nat /\ l < f.nlabel /\ \A b \in Known(f) : Lab(f, b) # l
            BY <3>1, <3>3 DEF NamesOK
      <4>2. l # g.label
            BY <1>10, <2>2, <3>1, <3>3
      <4> QED BY <1>9, <4>1, <4>2
    <3>4. ASSUME NEW b, NEW l, Placed(s[j], b, l) PROVE b \in Known(g) /\ Lab(g, b) = l
      <4>1. b \in Known(f) /\ Lab(f, b) = l
            BY <3>1, <3>4 DEF NamesOK
      <4> QED BY <1>1, <1>3, <4>1
    <3> QED BY <3>1, <3>2, <3>3, <3>4
  <2> QED BY <2>1, <2>2
<1>12. ASSUME NEW j \in 1 .. Len(s), j # k, NEW l, Named(w, l), Named(s[j], l) PROVE FALSE
  <2>1. l < f.nlabel /\ l \in Nat
        BY <1>12 DEF NamesOK
  <2>2. CASE Named(o, l)
        BY <1>12, <1>k, <2>2 DEF NamesOK
  <2>3. CASE NewLabel(f, g, l)
        BY <1>4, <2>1, <2>3 DEF NewLabel
  <2> QED BY <1>12, <2>2, <2>3 DEF Relabels
<1>13. ASSUME NEW j \in 1 .. Len(t), NEW m \in 1 .. Len(t), m # j, NEW l
       PROVE ~(Named(t[j], l) /\ Named(t[m], l))
  <2>1. CASE j = k
        BY <1>12, <1>13, <1>k, <2>1
  <2>2. CASE m = k
        BY <1>12, <1>13, <1>k, <2>2
  <2>3. CASE j # k /\ m # k
    <3>1. t[j] = s[j] /\ t[m] = s[m] /\ j \in 1 .. Len(s) /\ m \in 1 .. Len(s)
          BY <1>k, <2>3
    <3> QED BY <1>13, <3>1 DEF NamesOK
  <2> QED BY <2>1, <2>2, <2>3
<1> QED BY <1>8, <1>11, <1>13 DEF NamesOK

\* What the frames owe after a move.
LEMMA MoveDebts ==
    ASSUME NEW f, Sequence(f.blocks), NEW g, NEW is, NEW E, Moves(f, g, is, E),
           NEW s, NEW t, NEW k, NEW w, Replaces(s, t, k, w),
           NEW U, NEW V, U \subseteq V, DebtsOK(f, s, U), Borrows(f, is, s[k], w, U)
    PROVE  DebtsOK(g, t, V)
<1> DEFINE n == OpenBlock(f)
           o == s[k]
<1>1. /\ n \in Nat /\ n > 0 /\ Closed(f) = 1 .. n - 1 /\ Closed(g) = 1 .. n
      /\ \A b \in Closed(f) : Out(g, b) = Out(f, b) /\ On(g, b) = On(f, b)
      /\ Out(g, n) = Exits(is) /\ On(g, n) = RunsOn(is)
      BY MoveAt
<1>k. k \in 1 .. Len(s) /\ Len(t) = Len(s) /\ t[k] = w /\ \A j \in 1 .. Len(s) : j # k => t[j] = s[j]
      BY DEF Replaces
<1> HIDE DEF n
<1>2. Closed(f) \subseteq Closed(g) /\ n \in Closed(g)
      BY <1>1
<1>3. ASSUME NEW j \in 1 .. Len(s), NEW b, NEW l, Owes(s[j], b, l)
      PROVE  b \in Closed(g) /\ (b \in V \/ l \in Out(g, b))
  <2>1. b \in Closed(f) /\ (b \in U \/ l \in Out(f, b))
        BY <1>3 DEF DebtsOK
  <2> QED BY <1>1, <1>2, <2>1
<1>4. ASSUME NEW j \in 1 .. Len(s), NEW b, OwesNext(s[j], b)
      PROVE  b \in Closed(g) /\ (b \in V \/ On(g, b))
  <2>1. b \in Closed(f) /\ (b \in U \/ On(f, b))
        BY <1>4 DEF DebtsOK
  <2> QED BY <1>1, <1>2, <2>1
<1>5. ASSUME NEW b, NEW l, Owes(w, b, l) PROVE b \in Closed(g) /\ (b \in V \/ l \in Out(g, b))
  <2>1. CASE Owes(o, b, l)
        BY <1>3, <1>k, <2>1
  <2>2. CASE b = n /\ (b \in U \/ l \in Exits(is))
        BY <1>1, <1>2, <2>2
  <2> QED BY <1>5, <2>1, <2>2 DEF Borrows, n
<1>6. ASSUME NEW b, OwesNext(w, b) PROVE b \in Closed(g) /\ (b \in V \/ On(g, b))
  <2>1. CASE OwesNext(o, b)
        BY <1>4, <1>k, <2>1
  <2>2. CASE b = n /\ (b \in U \/ RunsOn(is))
        BY <1>1, <1>2, <2>2
  <2> QED BY <1>6, <2>1, <2>2 DEF Borrows, n
<1>7. ASSUME NEW j \in 1 .. Len(t)
      PROVE  /\ \A b, l : Owes(t[j], b, l) => b \in Closed(g) /\ (b \in V \/ l \in Out(g, b))
             /\ \A b : OwesNext(t[j], b) => b \in Closed(g) /\ (b \in V \/ On(g, b))
  <2>1. CASE j = k
        BY <1>5, <1>6, <1>k, <2>1
  <2>2. CASE j # k
    <3>1. t[j] = s[j] /\ j \in 1 .. Len(s)
          BY <1>k, <2>2
    <3> QED BY <1>3, <1>4, <3>1
  <2> QED BY <2>1, <2>2
<1> QED BY <1>7 DEF DebtsOK

\* The edges after a move.
LEMMA MoveEdges ==
    ASSUME NEW f, Sequence(f.blocks), NEW g, NEW is, NEW E, Moves(f, g, is, E),
           NEW s, NEW k \in 1 .. Len(s), NEW U, NEW V, U \subseteq V,
           NamesOK(f, s), DebtsOK(f, s, U), EdgesOK(f, U), OpenOK(f, U),
           AllDue(f, g, is, s[k], E, U)
    PROVE  EdgesOK(g, V)
<1> DEFINE n == OpenBlock(f)
           o == s[k]
<1>1. /\ n \in Nat /\ n > 0 /\ Closed(f) = 1 .. n - 1 /\ Closed(g) = 1 .. n
      /\ Known(f) = 1 .. n /\ Known(g) = 1 .. n + 1 /\ n = Len(f.blocks) + 1
      /\ \A b \in Known(f) : Lab(g, b) = Lab(f, b)
      /\ Lab(g, n + 1) = g.label
      /\ \A b \in Closed(f) : Out(g, b) = Out(f, b) /\ On(g, b) = On(f, b)
      /\ Out(g, n) = Exits(is) /\ On(g, n) = RunsOn(is)
      BY MoveAt
<1> HIDE DEF n
<1>2. /\ Closed(f) \subseteq Closed(g) /\ n \in Closed(g) /\ Known(f) \subseteq Known(g) /\ n + 1 \in Known(g)
      /\ \A b \in Closed(f) : b + 1 \in Known(f)
      /\ n \in Known(f)
      BY <1>1
<1>3. ASSUME NEW b, NEW c, EdgeOK(f, U, b, c) PROVE EdgeOK(g, V, b, c)
      BY <1>1, <1>2, <1>3 DEF EdgeOK
<1>p. \A c, l : Placed(o, c, l) => c \in Known(f) /\ Lab(f, c) = l
      BY DEF NamesOK
<1>o. \A b, l : Owes(o, b, l) => b \in Closed(f) /\ (b \in U \/ l \in Out(f, b))
      BY DEF DebtsOK
<1>q. \A b : OwesNext(o, b) => b \in Closed(f) /\ (b \in U \/ On(f, b))
      BY DEF DebtsOK
<1>4. ASSUME NEW b, NEW c, Due(f, g, is, o, U, b, c) PROVE EdgeOK(g, V, b, c)
  <2>1. CASE b = n /\ c = n + 1 /\ (b \in U \/ g.label \in Exits(is) \/ RunsOn(is))
        BY <1>1, <1>2, <2>1 DEF EdgeOK
  <2>2. CASE b = n /\ \E l : Placed(o, c, l) /\ (b \in U \/ l \in Exits(is))
    <3>1. PICK l : Placed(o, c, l) /\ (b \in U \/ l \in Exits(is))
          BY <2>2
    <3>2. c \in Known(f) /\ Lab(f, c) = l
          BY <1>p, <3>1
    <3> QED BY <1>1, <1>2, <2>2, <3>1, <3>2 DEF EdgeOK
  <2>3. CASE c = n + 1 /\ Owes(o, b, g.label)
    <3>1. b \in Closed(f) /\ (b \in U \/ g.label \in Out(f, b))
          BY <1>o, <2>3
    <3> QED BY <1>1, <1>2, <2>3, <3>1 DEF EdgeOK
  <2>4. CASE \E l : Owes(o, b, l) /\ Placed(o, c, l)
    <3>1. PICK l : Owes(o, b, l) /\ Placed(o, c, l)
          BY <2>4
    <3>2. c \in Known(f) /\ Lab(f, c) = l
          BY <1>p, <3>1
    <3>3. b \in Closed(f) /\ (b \in U \/ l \in Out(f, b))
          BY <1>o, <3>1
    <3> QED BY <1>1, <1>2, <3>2, <3>3 DEF EdgeOK
  <2>5. CASE c = b + 1 /\ OwesNext(o, b)
    <3>1. b \in Closed(f) /\ (b \in U \/ On(f, b))
          BY <1>q, <2>5
    <3> QED BY <1>1, <1>2, <2>5, <3>1 DEF EdgeOK
  <2> QED BY <1>4, <2>1, <2>2, <2>3, <2>4, <2>5 DEF Due, n
<1>5. ASSUME NEW p, p = f.block, p # NoBlock PROVE EdgeOK(g, V, p, n)
  <2>1. p = n - 1 /\ (p \in U \/ On(f, p)) /\ p # 0
        BY <1>1, <1>5 DEF OpenOK, NoBlock
  <2>2. p \in Closed(f) /\ n = p + 1
        BY <1>1, <2>1
  <2> QED BY <1>1, <1>2, <2>1, <2>2 DEF EdgeOK
<1>6. ASSUME NEW e \in g.edges PROVE e = <<e[1], e[2]>> /\ EdgeOK(g, V, e[1], e[2])
  <2>1. CASE e \in f.edges
    <3>1. e = <<e[1], e[2]>> /\ EdgeOK(f, U, e[1], e[2])
          BY <2>1 DEF EdgesOK
    <3> QED BY <1>3, <3>1
  <2>2. CASE e \in Entering(f)
    <3>1. PICK p \in {f.block} \ {NoBlock} : e = <<p, Len(f.blocks) + 1>>
          BY <2>2 DEF Entering
    <3>2. e = <<p, n>>
          BY <1>1, <3>1
    <3>3. EdgeOK(g, V, p, n)
          BY <1>5, <3>1
    <3>4. e[1] = p /\ e[2] = n
          BY <3>2
    <3> QED BY <3>2, <3>3, <3>4
  <2>3. CASE e \in E
    <3>1. e = <<e[1], e[2]>> /\ Due(f, g, is, o, U, e[1], e[2])
          BY <2>3 DEF AllDue
    <3> QED BY <1>4, <3>1
  <2> QED BY <2>1, <2>2, <2>3 DEF Moves
<1> QED BY <1>6 DEF EdgesOK

\* Branches and fallthroughs after a move.
LEMMA MoveFlow ==
    ASSUME NEW f, Sequence(f.blocks), NEW g, NEW is, NEW E, Moves(f, g, is, E),
           NEW s, NEW t, NEW k, NEW w, Replaces(s, t, k, w), NEW U, NEW V, U \subseteq V,
           NamesOK(f, s), FlowOK(f, s, U), OpenOK(f, U),
           Pays(f, g, s[k], w, E, U), PaysNew(f, g, is, s[k], w, E, U)
    PROVE  FlowOK(g, t, V)
<1> DEFINE n == OpenBlock(f)
           o == s[k]
<1>1. /\ n \in Nat /\ n > 0 /\ Closed(f) = 1 .. n - 1 /\ Closed(g) = 1 .. n
      /\ Known(f) = 1 .. n /\ Known(g) = 1 .. n + 1 /\ n = Len(f.blocks) + 1
      /\ \A b \in Known(f) : Lab(g, b) = Lab(f, b)
      /\ Lab(g, n + 1) = g.label
      /\ \A b \in Closed(f) : Out(g, b) = Out(f, b) /\ On(g, b) = On(f, b)
      /\ Out(g, n) = Exits(is) /\ On(g, n) = RunsOn(is)
      BY MoveAt
<1>k. k \in 1 .. Len(s) /\ Len(t) = Len(s) /\ t[k] = w /\ \A j \in 1 .. Len(s) : j # k => t[j] = s[j]
      BY DEF Replaces
<1> HIDE DEF n
<1>2. Known(f) \subseteq Known(g) /\ n + 1 \in Known(g) /\ \A b \in Closed(g) : b \in Closed(f) \/ b = n
      BY <1>1
<1>e. f.edges \subseteq g.edges /\ E \subseteq g.edges /\ Entering(f) \subseteq g.edges
      BY DEF Moves
<1>p. \A c, l : Placed(o, c, l) => c \in Known(f) /\ Lab(f, c) = l
      BY <1>k DEF NamesOK
<1>3. ASSUME NEW b, NEW l, PaysFor(f, g, o, E, b, l) PROVE Paid(g, b, l)
  <2>1. CASE l = g.label /\ <<b, n + 1>> \in E
        BY <1>1, <1>2, <1>e, <2>1 DEF Paid
  <2>2. CASE \E c : Placed(o, c, l) /\ <<b, c>> \in E
    <3>1. PICK c : Placed(o, c, l) /\ <<b, c>> \in E
          BY <2>2
    <3>2. c \in Known(g) /\ Lab(g, c) = l /\ <<b, c>> \in g.edges
          BY <1>1, <1>2, <1>e, <1>p, <3>1
    <3> QED BY <3>2 DEF Paid
  <2> QED BY <1>3, <2>1, <2>2 DEF PaysFor, n
<1>4. ASSUME NEW b, NEW l, Paid(f, b, l) PROVE Paid(g, b, l)
  <2>1. PICK c \in Known(f) : Lab(f, c) = l /\ <<b, c>> \in f.edges
        BY <1>4 DEF Paid
  <2>2. c \in Known(g) /\ Lab(g, c) = l /\ <<b, c>> \in g.edges
        BY <1>1, <1>2, <1>e, <2>1
  <2> QED BY <2>2 DEF Paid
<1>5. ASSUME NEW b \in Closed(f), b \notin V, NEW l \in Out(g, b)
      PROVE  Paid(g, b, l) \/ \E j \in 1 .. Len(t) : Owes(t[j], b, l)
  <2>1. b \notin U /\ l \in Out(f, b)
        BY <1>1, <1>5
  <2>2. Paid(f, b, l) \/ \E j \in 1 .. Len(s) : Owes(s[j], b, l)
        BY <2>1 DEF FlowOK
  <2>3. CASE Paid(f, b, l)
        BY <1>4, <2>3
  <2>4. ASSUME NEW j \in 1 .. Len(s), Owes(s[j], b, l) PROVE Paid(g, b, l) \/ \E i \in 1 .. Len(t) : Owes(t[i], b, l)
    <3>1. CASE j # k
          BY <1>k, <2>4, <3>1
    <3>2. CASE j = k
      <4>1. Owes(w, b, l) \/ PaysFor(f, g, o, E, b, l)
            BY <2>1, <2>4, <3>2 DEF Pays
      <4> QED BY <1>3, <1>k, <4>1
    <3> QED BY <3>1, <3>2
  <2> QED BY <2>2, <2>3, <2>4
<1>6. ASSUME NEW b \in Closed(f), b \notin V, On(g, b)
      PROVE  <<b, b + 1>> \in g.edges \/ \E j \in 1 .. Len(t) : OwesNext(t[j], b)
  <2>1. b \notin U /\ On(f, b)
        BY <1>1, <1>6
  <2>2. <<b, b + 1>> \in f.edges \/ f.block = b \/ \E j \in 1 .. Len(s) : OwesNext(s[j], b)
        BY <2>1 DEF FlowOK
  <2>3. CASE <<b, b + 1>> \in f.edges
        BY <1>e, <2>3
  <2>4. CASE f.block = b
    <3>1. b # NoBlock
          BY <1>1 DEF NoBlock
    <3>2. b + 1 = Len(f.blocks) + 1
          BY <2>4, <3>1 DEF OpenOK
    <3>3. <<b, Len(f.blocks) + 1>> \in Entering(f)
          BY <2>4, <3>1 DEF Entering
    <3> QED BY <1>e, <3>2, <3>3
  <2>5. ASSUME NEW j \in 1 .. Len(s), OwesNext(s[j], b)
        PROVE  <<b, b + 1>> \in g.edges \/ \E i \in 1 .. Len(t) : OwesNext(t[i], b)
    <3>1. CASE j # k
          BY <1>k, <2>5, <3>1
    <3>2. CASE j = k
      <4>1. OwesNext(w, b) \/ <<b, b + 1>> \in E
            BY <2>1, <2>5, <3>2 DEF Pays
      <4> QED BY <1>e, <1>k, <4>1
    <3> QED BY <3>1, <3>2
  <2> QED BY <2>2, <2>3, <2>4, <2>5
<1>7. ASSUME n \notin V, NEW l \in Out(g, n)
      PROVE  Paid(g, n, l) \/ \E j \in 1 .. Len(t) : Owes(t[j], n, l)
  <2>1. Owes(w, n, l) \/ PaysFor(f, g, o, E, n, l)
        BY <1>1, <1>7 DEF PaysNew, n
  <2> QED BY <1>3, <1>k, <2>1
<1>8. ASSUME n \notin V, On(g, n)
      PROVE  <<n, n + 1>> \in g.edges \/ g.block = n \/ \E j \in 1 .. Len(t) : OwesNext(t[j], n)
  <2>1. OwesNext(w, n) \/ <<n, n + 1>> \in E \/ g.block = n
        BY <1>1, <1>8 DEF PaysNew, n
  <2> QED BY <1>e, <1>k, <2>1
<1> QED BY <1>2, <1>5, <1>6, <1>7, <1>8 DEF FlowOK

\* The code that is closed does not branch into code that nothing leads to.
Avoids(f, is, U) == OpenBlock(f) \in U \/ \A l \in Exits(is) : \A c \in U : Lab(f, c) # l

\* Nothing leads into U after a move.
LEMMA MoveShut ==
    ASSUME NEW f, Sequence(f.blocks), NEW g, NEW is, NEW E, Moves(f, g, is, E),
           NEW s, NEW k \in 1 .. Len(s), NEW w, NEW U, NEW V, U \subseteq V,
           V \subseteq U \cup {OpenBlock(f) + 1},
           LabelsOK(f), NamesOK(f, s), FlowOK(f, s, U), ShutOK(f, U),
           Relabels(f, g, s[k], w), Avoids(f, is, U),
           OpenBlock(f) + 1 \in V => Seals(f, g, is, s[k], U)
    PROVE  ShutOK(g, V)
<1> DEFINE n == OpenBlock(f)
           o == s[k]
<1>1. /\ n \in Nat /\ n > 0 /\ Closed(f) = 1 .. n - 1 /\ Closed(g) = 1 .. n
      /\ Known(f) = 1 .. n /\ Known(g) = 1 .. n + 1
      /\ \A b \in Known(f) : Lab(g, b) = Lab(f, b)
      /\ Lab(g, n + 1) = g.label
      /\ \A b \in Closed(f) : Out(g, b) = Out(f, b) /\ On(g, b) = On(f, b)
      /\ Out(g, n) = Exits(is) /\ On(g, n) = RunsOn(is)
      BY MoveAt
<1>u. /\ V \subseteq U \cup {n + 1} /\ U \subseteq Known(f) /\ 1 \notin U
      /\ n + 1 \in V => (n \in U \/ (~RunsOn(is) /\ g.label \notin Exits(is)))
      /\ n + 1 \in V => \A b : Owes(o, b, g.label) => b \in U
      /\ n \in U \/ \A l \in Exits(is) : \A c \in U : Lab(f, c) # l
      BY DEF ShutOK, Seals, Avoids
<1> HIDE DEF n
<1>2. 1 \notin V /\ V \subseteq Known(g)
  <2>1. 1 # n + 1 /\ Known(f) \subseteq Known(g) /\ n + 1 \in Known(g)
        BY <1>1
  <2> QED BY <1>u, <2>1
<1>3. \A b \in Closed(g) : b \in Closed(f) \/ b = n
      BY <1>1
<1>4. \A c \in Known(f) : Lab(f, c) # g.label
  <2>1. CASE Named(o, g.label)
        BY <2>1 DEF NamesOK
  <2>2. CASE NewLabel(f, g, g.label)
        BY <2>2 DEF NewLabel, LabelsOK
  <2> QED BY <2>1, <2>2 DEF Relabels
<1>5. ASSUME NEW b \in Closed(f), b \notin U, n + 1 \in V, g.label \in Out(f, b) PROVE FALSE
  <2>1. ~Paid(f, b, g.label)
        BY <1>4 DEF Paid
  <2>2. PICK j \in 1 .. Len(s) : Owes(s[j], b, g.label)
        BY <1>5, <2>1 DEF FlowOK
  <2>3. ASSUME NEW c, Placed(s[j], c, g.label) PROVE FALSE
    <3>1. c \in Known(f) /\ Lab(f, c) = g.label
          BY <2>3 DEF NamesOK
    <3> QED BY <1>4, <3>1
  <2>4. SelfOK(s[j])
        BY DEF NamesOK
  <2>5. Named(s[j], g.label)
        BY <2>2, <2>3, <2>4 DEF SelfOK
  <2>6. CASE Named(o, g.label)
    <3>1. j = k
          BY <2>5, <2>6 DEF NamesOK
    <3> QED BY <1>5, <1>u, <2>2, <3>1
  <2>7. CASE NewLabel(f, g, g.label)
    <3>1. g.label < f.nlabel /\ f.nlabel \in Nat
          BY <2>5 DEF NamesOK, LabelsOK
    <3> QED BY <2>7, <3>1 DEF NewLabel
  <2> QED BY <2>6, <2>7 DEF Relabels
<1>6. ASSUME NEW b \in Closed(f), b \notin V
      PROVE  (\A c \in V : Lab(g, c) \notin Out(g, b)) /\ (On(g, b) => b + 1 \notin V)
  <2>1. b \notin U /\ (\A c \in U : Lab(f, c) \notin Out(f, b)) /\ (On(f, b) => b + 1 \notin U)
        BY <1>6 DEF ShutOK
  <2>2. \A c \in U : Lab(g, c) \notin Out(g, b)
        BY <1>1, <1>u, <2>1
  <2>3. n + 1 \in V => Lab(g, n + 1) \notin Out(g, b)
        BY <1>1, <1>5, <2>1
  <2>4. b + 1 # n + 1
        BY <1>1
  <2> QED BY <1>1, <1>u, <2>1, <2>2, <2>3, <2>4
<1>7. ASSUME n \notin V
      PROVE  (\A c \in V : Lab(g, c) \notin Out(g, n)) /\ (On(g, n) => n + 1 \notin V)
  <2>1. n \notin U
        BY <1>7
  <2>2. \A c \in U : Lab(g, c) \notin Out(g, n)
        BY <1>1, <1>u, <2>1
  <2>3. n + 1 \in V => Lab(g, n + 1) \notin Out(g, n) /\ ~On(g, n)
        BY <1>1, <1>u, <2>1
  <2> QED BY <1>u, <2>2, <2>3
<1> QED BY <1>2, <1>3, <1>6, <1>7 DEF ShutOK

\* The frame replaced is the innermost, or has nothing to do with code that
\* nothing leads to; a loop keeps its header or has just opened it.
Inside(f, s, t, k, w, V) ==
    /\ k = Len(s) \/ (~Sealed(s[k]) /\ ~Sealed(w))
    /\ w.k = "loop" => \/ s[k].k = "loop" /\ w.header = s[k].header
                       \/ /\ w.header = OpenBlock(f) + 1
                          /\ w.header \in V => \E j \in 1 .. Len(t) : j < k /\ Sealed(t[j])
    /\ \A j \in 1 .. Len(t) : Sealed(t[j]) => OpenBlock(f) + 1 \in V

\* Code that nothing leads to after a move.
LEMMA MoveSeal ==
    ASSUME NEW f, Sequence(f.blocks), NEW g, NEW is, NEW E, Moves(f, g, is, E),
           NEW s, Len(s) \in Nat, NEW t, NEW k, NEW w, Replaces(s, t, k, w), NEW U, NEW V, U \subseteq V,
           V \subseteq U \cup {OpenBlock(f) + 1},
           NamesOK(f, s), ShutOK(f, U), SealOK(f, s, U), HeadOK(s, U), Borrows(f, is, s[k], w, U),
           Inside(f, s, t, k, w, V)
    PROVE  SealOK(g, t, V) /\ HeadOK(t, V)
<1> DEFINE n == OpenBlock(f)
           o == s[k]
<1>1. n \in Nat /\ Known(f) = 1 .. n /\ OpenBlock(g) = n + 1
      BY MoveAt
<1>k. k \in 1 .. Len(s) /\ Len(t) = Len(s) /\ t[k] = w /\ \A j \in 1 .. Len(s) : j # k => t[j] = s[j]
      BY DEF Replaces
<1>u. V \subseteq U \cup {n + 1} /\ n + 1 \notin Known(f)
      BY <1>1
<1> HIDE DEF n
<1>2. ASSUME NEW i \in 1 .. Len(t), Sealed(t[i]) PROVE OpenBlock(g) \in V
      BY <1>1, <1>2 DEF Inside, n
<1>3. ASSUME NEW i \in 1 .. Len(t), Sealed(t[i]), NEW m \in 1 .. Len(t), i < m, NEW b, NEW l, Owes(t[m], b, l)
      PROVE  b \in V
  <2>1. CASE i = k
    <3>1. k = Len(s)
          BY <1>3, <1>k, <2>1 DEF Inside
    <3> QED BY <1>3, <1>k, <2>1, <3>1
  <2>2. CASE i # k /\ m # k
    <3>1. t[i] = s[i] /\ t[m] = s[m] /\ i \in 1 .. Len(s) /\ m \in 1 .. Len(s)
          BY <1>k, <2>2
    <3> QED BY <1>3, <3>1 DEF SealOK
  <2>3. CASE i # k /\ m = k
    <3>1. t[i] = s[i] /\ t[m] = w /\ i \in 1 .. Len(s)
          BY <1>k, <2>3
    <3>2. n \in U /\ \A c, h : Owes(o, c, h) => c \in U
          BY <1>3, <1>k, <2>3, <3>1 DEF SealOK, n
    <3>3. Owes(o, b, l) \/ b = n
          BY <1>3, <3>1 DEF Borrows, n
    <3> QED BY <3>2, <3>3
  <2> QED BY <2>1, <2>2, <2>3
<1>4. SealOK(g, t, V)
      BY <1>2, <1>3 DEF SealOK
<1>5. ASSUME NEW m \in 1 .. Len(s), NEW i \in 1 .. Len(s), m < i, Sealed(s[m])
      PROVE  \E j \in 1 .. Len(t) : j < i /\ Sealed(t[j])
  <2>1. CASE m # k
        BY <1>5, <1>k, <2>1
  <2>2. CASE m = k
    <3>1. k # Len(s)
          BY <1>5, <2>2
    <3> QED BY <1>5, <2>2, <3>1 DEF Inside
  <2> QED BY <2>1, <2>2
<1>6. ASSUME NEW i \in 1 .. Len(s), s[i].k = "loop", s[i].header \in V
      PROVE  \E j \in 1 .. Len(t) : j < i /\ Sealed(t[j])
  <2>1. Placed(s[i], s[i].header, s[i].headerLabel)
        BY <1>6 DEF Placed
  <2>2. s[i].header \in Known(f)
        BY <2>1 DEF NamesOK
  <2>3. s[i].header \in U
        BY <1>6, <1>u, <2>2
  <2>4. PICK m \in 1 .. Len(s) : m < i /\ Sealed(s[m])
        BY <1>6, <2>3 DEF HeadOK
  <2> QED BY <1>5, <2>4
<1>7. ASSUME NEW i \in 1 .. Len(t), t[i].k = "loop", t[i].header \in V
      PROVE  \E j \in 1 .. Len(t) : j < i /\ Sealed(t[j])
  <2>1. CASE i # k
    <3>1. t[i] = s[i] /\ i \in 1 .. Len(s)
          BY <1>k, <2>1
    <3> QED BY <1>6, <1>7, <3>1
  <2>2. CASE i = k
    <3>1. w.k = "loop" /\ w.header \in V
          BY <1>7, <1>k, <2>2
    <3>2. CASE o.k = "loop" /\ w.header = o.header
          BY <1>6, <1>k, <2>2, <3>1, <3>2
    <3>3. CASE w.header \in V => \E j \in 1 .. Len(t) : j < k /\ Sealed(t[j])
          BY <2>2, <3>1, <3>3
    <3> QED BY <3>1, <3>2, <3>3 DEF Inside
  <2> QED BY <2>1, <2>2
<1>8. HeadOK(t, V)
      BY <1>7 DEF HeadOK
<1> QED BY <1>4, <1>8

\* The block that is opened.
OpensAs(f, g, is, U, V) ==
    /\ g.block \in {NoBlock, OpenBlock(f)}
    /\ g.block # NoBlock => g.block \in U \/ RunsOn(is)
    /\ OpenBlock(f) + 1 \in V \/ Plain(g.instrs)

\* Everything after a move.
MoveOK(f, g, is, E, s, t, k, w, U, V) ==
    /\ Relabels(f, g, s[k], w) /\ Borrows(f, is, s[k], w, U) /\ AllDue(f, g, is, s[k], E, U)
    /\ Pays(f, g, s[k], w, E, U) /\ PaysNew(f, g, is, s[k], w, E, U) /\ Avoids(f, is, U)
    /\ OpenBlock(f) + 1 \in V => Seals(f, g, is, s[k], U)
    /\ Inside(f, s, t, k, w, V) /\ OpensAs(f, g, is, U, V)
\* A move keeps the invariant of the graph.
LEMMA MoveGraph ==
    ASSUME NEW f, Sequence(f.blocks), NEW g, NEW is, NEW E, Moves(f, g, is, E),
           NEW s, Len(s) \in Nat, NEW t, NEW k, NEW w, Replaces(s, t, k, w), NEW U, NEW V, U \subseteq V,
           V \subseteq U \cup {OpenBlock(f) + 1}, Graph(f, s, U),
           MoveOK(f, g, is, E, s, t, k, w, U, V)
    PROVE  Graph(g, t, V)
<1>0. k \in 1 .. Len(s)
      BY DEF Replaces
<1>1. /\ LabelsOK(f) /\ NamesOK(f, s) /\ DebtsOK(f, s, U) /\ EdgesOK(f, U) /\ FlowOK(f, s, U)
      /\ ShutOK(f, U) /\ SealOK(f, s, U) /\ HeadOK(s, U) /\ OpenOK(f, U)
      BY DEF Graph
<1>2. /\ Relabels(f, g, s[k], w) /\ Borrows(f, is, s[k], w, U) /\ AllDue(f, g, is, s[k], E, U)
      /\ Pays(f, g, s[k], w, E, U) /\ PaysNew(f, g, is, s[k], w, E, U) /\ Avoids(f, is, U)
      /\ OpenBlock(f) + 1 \in V => Seals(f, g, is, s[k], U)
      /\ Inside(f, s, t, k, w, V) /\ OpensAs(f, g, is, U, V)
      BY DEF MoveOK
<1>3. LabelsOK(g) /\ NamesOK(g, t)
      BY <1>1, <1>2, MoveLabels
<1>4. DebtsOK(g, t, V)
      BY <1>1, <1>2, MoveDebts
<1>5. EdgesOK(g, V)
      BY <1>0, <1>1, <1>2, MoveEdges
<1>6. FlowOK(g, t, V)
      BY <1>1, <1>2, MoveFlow
<1>7. ShutOK(g, V)
      BY <1>0, <1>1, <1>2, MoveShut
<1>8. SealOK(g, t, V) /\ HeadOK(t, V)
      BY <1>1, <1>2, MoveSeal
<1>9. OpenOK(g, V)
  <2> DEFINE n == OpenBlock(f)
  <2>1. n \in Nat /\ n > 0 /\ OpenBlock(g) = n + 1 /\ On(g, n) = RunsOn(is)
        BY MoveAt
  <2>2. Len(g.blocks) = n
    <3>1. Len(g.blocks) = Len(f.blocks) + 1
          BY AppendSequence DEF Moves
    <3> QED BY <3>1 DEF n, OpenBlock
  <2>3. /\ g.block \in {NoBlock, n} /\ (g.block # NoBlock => g.block \in U \/ RunsOn(is))
        /\ n + 1 \in V \/ Plain(g.instrs)
        BY <1>2 DEF OpensAs
  <2> HIDE DEF n
  <2> QED BY <2>1, <2>2, <2>3 DEF OpenOK
<1> QED BY <1>3, <1>4, <1>5, <1>6, <1>7, <1>8, <1>9 DEF Graph

----------------------------------------------------------------------------
(* Steps that open no block                                                *)

\* An inlined call owes nothing.
LEMMA CallOwesNothing ==
    ASSUME NEW fr, fr.k = "call"
    PROVE  /\ \A b, l : ~Owes(fr, b, l) /\ ~Placed(fr, b, l)
           /\ \A b : ~OwesNext(fr, b) /\ ~Named(fr, b)
           /\ ~Sealed(fr) /\ SelfOK(fr)
<1>1. /\ \A b, l : ~Owes(fr, b, l) /\ ~Placed(fr, b, l)
      /\ \A b : ~OwesNext(fr, b) /\ ~Named(fr, b)
      /\ ~Sealed(fr)
      BY DEF Owes, Placed, OwesNext, Named, Sealed
<1> QED BY <1>1 DEF SelfOK

\* So it may be entered and left.
Deeper(s, t) ==
    /\ Len(s) \in Nat /\ Len(t) = Len(s) + 1 /\ \A j \in 1 .. Len(s) : t[j] = s[j]
    /\ t[Len(t)].k = "call"
\* A call frame on top says nothing of the graph.
LEMMA CallGraph ==
    ASSUME NEW f, NEW s, NEW t, NEW U, Deeper(s, t)
    PROVE  Graph(f, s, U) <=> Graph(f, t, U)
<1> DEFINE d == Len(s)
           c == t[d + 1]
<1>1. d \in Nat /\ Len(t) = d + 1 /\ \A j \in 1 .. d : t[j] = s[j]
      BY DEF Deeper
<1>2. c.k = "call"
      BY DEF Deeper
<1>3. /\ \A b, l : ~Owes(c, b, l) /\ ~Placed(c, b, l)
      /\ \A b : ~OwesNext(c, b) /\ ~Named(c, b)
      /\ ~Sealed(c) /\ SelfOK(c)
      BY <1>2, CallOwesNothing
<1> HIDE DEF c
<1>4. (\A j \in 1 .. Len(t) : j \in 1 .. d \/ j = d + 1) /\ 1 .. d \subseteq 1 .. Len(t) /\ d + 1 \in 1 .. Len(t)
      BY <1>1
<1>5. t[d + 1] = c
      BY DEF c
<1> HIDE DEF d
<1>6. NamesOK(f, s) <=> NamesOK(f, t)
  <2>1. ASSUME NamesOK(f, s) PROVE NamesOK(f, t)
    <3>1. ASSUME NEW j \in 1 .. Len(t)
          PROVE  /\ SelfOK(t[j])
                 /\ \A l : Named(t[j], l) => l \in Nat /\ l < f.nlabel /\ \A b \in Known(f) : Lab(f, b) # l
                 /\ \A b, l : Placed(t[j], b, l) => b \in Known(f) /\ Lab(f, b) = l
      <4>1. CASE j \in 1 .. d
            BY <1>1, <2>1, <4>1 DEF NamesOK, d
      <4>2. CASE j = d + 1
            BY <1>3, <1>5, <4>2
      <4> QED BY <1>4, <4>1, <4>2
    <3>2. ASSUME NEW j \in 1 .. Len(t), NEW m \in 1 .. Len(t), m # j, NEW l
          PROVE  ~(Named(t[j], l) /\ Named(t[m], l))
      <4>1. CASE j = d + 1 \/ m = d + 1
            BY <1>3, <1>5, <4>1
      <4>2. CASE j \in 1 .. d /\ m \in 1 .. d
            BY <1>1, <2>1, <3>2, <4>2 DEF NamesOK, d
      <4> QED BY <1>4, <4>1, <4>2
    <3> QED BY <3>1, <3>2 DEF NamesOK
  <2>2. ASSUME NamesOK(f, t) PROVE NamesOK(f, s)
        BY <1>1, <1>4, <2>2 DEF NamesOK, d
  <2> QED BY <2>1, <2>2
<1>7. DebtsOK(f, s, U) <=> DebtsOK(f, t, U)
  <2>1. ASSUME DebtsOK(f, s, U) PROVE DebtsOK(f, t, U)
    <3>1. ASSUME NEW j \in 1 .. Len(t)
          PROVE  /\ \A b, l : Owes(t[j], b, l) => b \in Closed(f) /\ (b \in U \/ l \in Out(f, b))
                 /\ \A b : OwesNext(t[j], b) => b \in Closed(f) /\ (b \in U \/ On(f, b))
      <4>1. CASE j \in 1 .. d
            BY <1>1, <2>1, <4>1 DEF DebtsOK, d
      <4>2. CASE j = d + 1
            BY <1>3, <1>5, <4>2
      <4> QED BY <1>4, <4>1, <4>2
    <3> QED BY <3>1 DEF DebtsOK
  <2>2. ASSUME DebtsOK(f, t, U) PROVE DebtsOK(f, s, U)
        BY <1>1, <1>4, <2>2 DEF DebtsOK, d
  <2> QED BY <2>1, <2>2
<1>8. /\ \A b, l : (\E j \in 1 .. Len(s) : Owes(s[j], b, l)) <=> (\E j \in 1 .. Len(t) : Owes(t[j], b, l))
      /\ \A b : (\E j \in 1 .. Len(s) : OwesNext(s[j], b)) <=> (\E j \in 1 .. Len(t) : OwesNext(t[j], b))
  <2>1. ASSUME NEW b, NEW l, NEW j \in 1 .. Len(t), Owes(t[j], b, l) PROVE \E i \in 1 .. d : Owes(s[i], b, l)
    <3>1. j # d + 1
          BY <1>3, <1>5, <2>1
    <3> QED BY <1>1, <1>4, <2>1, <3>1
  <2>2. ASSUME NEW b, NEW j \in 1 .. Len(t), OwesNext(t[j], b) PROVE \E i \in 1 .. d : OwesNext(s[i], b)
    <3>1. j # d + 1
          BY <1>3, <1>5, <2>2
    <3> QED BY <1>1, <1>4, <2>2, <3>1
  <2>3. ASSUME NEW b, NEW l, NEW j \in 1 .. d, Owes(s[j], b, l) PROVE \E i \in 1 .. Len(t) : Owes(t[i], b, l)
        BY <1>1, <1>4, <2>3
  <2>4. ASSUME NEW b, NEW j \in 1 .. d, OwesNext(s[j], b) PROVE \E i \in 1 .. Len(t) : OwesNext(t[i], b)
        BY <1>1, <1>4, <2>4
  <2> QED BY <2>1, <2>2, <2>3, <2>4 DEF d
<1>9. FlowOK(f, s, U) <=> FlowOK(f, t, U)
      BY <1>8 DEF FlowOK
<1>10. SealOK(f, s, U) <=> SealOK(f, t, U)
  <2>1. ASSUME SealOK(f, s, U), NEW i \in 1 .. Len(t), Sealed(t[i])
        PROVE  /\ OpenBlock(f) \in U
               /\ \A m \in 1 .. Len(t) : i < m => \A b, l : Owes(t[m], b, l) => b \in U
    <3>1. i \in 1 .. d
          BY <1>3, <1>4, <1>5, <2>1
    <3>2. /\ OpenBlock(f) \in U
          /\ \A m \in 1 .. d : i < m => \A b, l : Owes(s[m], b, l) => b \in U
          BY <1>1, <2>1, <3>1 DEF SealOK, d
    <3>3. ASSUME NEW m \in 1 .. Len(t), i < m, NEW b, NEW l, Owes(t[m], b, l) PROVE b \in U
      <4>1. m # d + 1
            BY <1>3, <1>5, <3>3
      <4> QED BY <1>1, <1>4, <3>2, <3>3, <4>1
    <3> QED BY <3>2, <3>3
  <2>2. ASSUME SealOK(f, t, U) PROVE SealOK(f, s, U)
        BY <1>1, <1>4, <2>2 DEF SealOK, d
  <2>3. ASSUME SealOK(f, s, U) PROVE SealOK(f, t, U)
        BY <2>1, <2>3 DEF SealOK
  <2> QED BY <2>2, <2>3
<1>11. HeadOK(s, U) <=> HeadOK(t, U)
  <2>1. ASSUME HeadOK(s, U), NEW i \in 1 .. Len(t), t[i].k = "loop", t[i].header \in U
        PROVE  \E m \in 1 .. Len(t) : m < i /\ Sealed(t[m])
    <3>1. i \in 1 .. d
          BY <1>2, <1>4, <1>5, <2>1
    <3>2. PICK m \in 1 .. d : m < i /\ Sealed(s[m])
          BY <1>1, <2>1, <3>1 DEF HeadOK, d
    <3> QED BY <1>1, <1>4, <3>2
  <2>2. ASSUME HeadOK(t, U), NEW i \in 1 .. d, s[i].k = "loop", s[i].header \in U
        PROVE  \E m \in 1 .. d : m < i /\ Sealed(s[m])
    <3>1. PICK m \in 1 .. Len(t) : m < i /\ Sealed(t[m])
          BY <1>1, <1>4, <2>2 DEF HeadOK
    <3>2. m \in 1 .. d
          BY <1>3, <1>4, <1>5, <3>1
    <3> QED BY <1>1, <3>1, <3>2
  <2>3. HeadOK(s, U) => HeadOK(t, U)
        BY <2>1 DEF HeadOK
  <2>4. HeadOK(t, U) => HeadOK(s, U)
        BY <2>2 DEF HeadOK, d
  <2> QED BY <2>3, <2>4
<1> QED BY <1>6, <1>7, <1>9, <1>10, <1>11 DEF Graph

\* A step that only adds to the open block or hands out labels.
Stays(f, g) ==
    /\ g.blocks = f.blocks /\ g.edges = f.edges /\ g.block = f.block /\ g.label = f.label
    /\ g.nlabel \in Nat /\ f.nlabel <= g.nlabel
\* Such a step keeps the invariant of the graph.
LEMMA StayGraph ==
    ASSUME NEW f, Sequence(f.blocks), NEW g, NEW s, NEW U, Graph(f, s, U), Stays(f, g),
           OpenBlock(f) \in U \/ Plain(g.instrs)
    PROVE  Graph(g, s, U)
<1>1. /\ Closed(g) = Closed(f) /\ Known(g) = Known(f) /\ OpenBlock(g) = OpenBlock(f)
      /\ \A b : Lab(g, b) = Lab(f, b)
      /\ \A b \in Closed(f) : Out(g, b) = Out(f, b) /\ On(g, b) = On(f, b)
      /\ g.edges = f.edges /\ g.block = f.block
      /\ g.nlabel \in Nat /\ f.nlabel <= g.nlabel /\ Len(g.blocks) = Len(f.blocks)
      BY DEF Stays, Closed, Known, OpenBlock, Lab, Out, On, CodeAt
<1>2. /\ LabelsOK(f) /\ NamesOK(f, s) /\ DebtsOK(f, s, U) /\ EdgesOK(f, U) /\ FlowOK(f, s, U)
      /\ ShutOK(f, U) /\ SealOK(f, s, U) /\ HeadOK(s, U) /\ OpenOK(f, U)
      BY DEF Graph
<1>3. LabelsOK(g)
      BY <1>1, <1>2 DEF LabelsOK
<1>n. \A l \in Nat : l < f.nlabel => l < g.nlabel
      BY <1>1, <1>2 DEF LabelsOK
<1>4. NamesOK(g, s)
      BY <1>1, <1>2, <1>n DEF NamesOK
<1>5. DebtsOK(g, s, U)
      BY <1>1, <1>2 DEF DebtsOK
<1>6. EdgesOK(g, U)
      BY <1>1, <1>2 DEF EdgesOK, EdgeOK
<1>7. FlowOK(g, s, U)
  <2>1. \A b, l : Paid(g, b, l) <=> Paid(f, b, l)
        BY <1>1 DEF Paid
  <2> QED BY <1>1, <1>2, <2>1 DEF FlowOK
<1>8. ShutOK(g, U)
      BY <1>1, <1>2 DEF ShutOK
<1>9. SealOK(g, s, U)
      BY <1>1, <1>2 DEF SealOK
<1>10. OpenOK(g, U)
  <2>1. Len(f.blocks) \in Nat
        BY AppendSequence
  <2>2. f.block # NoBlock => f.block \in Closed(f)
        BY <1>2, <2>1 DEF OpenOK, NoBlock, Closed
  <2> QED BY <1>1, <1>2, <2>2 DEF OpenOK
<1> QED BY <1>2, <1>3, <1>4, <1>5, <1>6, <1>7, <1>8, <1>9, <1>10 DEF Graph

\* A frame is replaced by one that owes the same and has labels for the same
\* blocks, or labels nobody else has.
FreeLabel(f, s, l) ==
    /\ l \in Nat /\ l < f.nlabel /\ \A b \in Known(f) : Lab(f, b) # l
    /\ \A j \in 1 .. Len(s) : ~Named(s[j], l)
Swaps(f, s, o, w) ==
    /\ SelfOK(w) /\ w.k # "loop" /\ ~Sealed(w) /\ ~Sealed(o)
    /\ \A b, l : (Owes(w, b, l) => Owes(o, b, l)) /\ (Owes(o, b, l) => Owes(w, b, l))
    /\ \A b : (OwesNext(w, b) => OwesNext(o, b)) /\ (OwesNext(o, b) => OwesNext(w, b))
    /\ \A b, l : Placed(w, b, l) => Placed(o, b, l)
    /\ \A l : Named(w, l) => Named(o, l) \/ FreeLabel(f, s, l)
\* Such a replacement keeps the invariant of the graph.
LEMMA SwapGraph ==
    ASSUME NEW f, NEW s, NEW t, NEW k, NEW w, NEW U, Graph(f, s, U), Replaces(s, t, k, w),
           Swaps(f, s, s[k], w)
    PROVE  Graph(f, t, U)
<1> DEFINE o == s[k]
<1>k. k \in 1 .. Len(s) /\ Len(t) = Len(s) /\ t[k] = w /\ \A j \in 1 .. Len(s) : j # k => t[j] = s[j]
      BY DEF Replaces
<1>2. /\ LabelsOK(f) /\ NamesOK(f, s) /\ DebtsOK(f, s, U) /\ EdgesOK(f, U) /\ FlowOK(f, s, U)
      /\ ShutOK(f, U) /\ SealOK(f, s, U) /\ HeadOK(s, U) /\ OpenOK(f, U)
      BY DEF Graph
<1>3. ASSUME NEW j \in 1 .. Len(s)
      PROVE  /\ \A b, l : (Owes(t[j], b, l) => Owes(s[j], b, l)) /\ (Owes(s[j], b, l) => Owes(t[j], b, l))
             /\ \A b : (OwesNext(t[j], b) => OwesNext(s[j], b)) /\ (OwesNext(s[j], b) => OwesNext(t[j], b))
             /\ \A b, l : Placed(t[j], b, l) => Placed(s[j], b, l)
             /\ Sealed(t[j]) <=> Sealed(s[j])
             /\ SelfOK(t[j])
             /\ \A l : Named(t[j], l) => Named(s[j], l) \/ (j = k /\ FreeLabel(f, s, l))
  <2>1. CASE j = k
        BY <1>k, <2>1 DEF Swaps
  <2>2. CASE j # k
        BY <1>2, <1>k, <2>2 DEF NamesOK
  <2> QED BY <2>1, <2>2
<1>4. NamesOK(f, t)
  <2>1. ASSUME NEW j \in 1 .. Len(s), NEW l, Named(t[j], l)
        PROVE l \in Nat /\ l < f.nlabel /\ \A b \in Known(f) : Lab(f, b) # l
    <3>1. CASE Named(s[j], l)
          BY <1>2, <3>1 DEF NamesOK
    <3>2. CASE FreeLabel(f, s, l)
          BY <3>2 DEF FreeLabel
    <3> QED BY <1>3, <2>1, <3>1, <3>2
  <2>2. ASSUME NEW j \in 1 .. Len(s), NEW b, NEW l, Placed(t[j], b, l) PROVE b \in Known(f) /\ Lab(f, b) = l
    <3>1. Placed(s[j], b, l)
          BY <1>3, <2>2
    <3> QED BY <1>2, <3>1 DEF NamesOK
  <2>3. ASSUME NEW j \in 1 .. Len(s), NEW m \in 1 .. Len(s), m # j, NEW l, Named(t[j], l), Named(t[m], l)
        PROVE  FALSE
    <3>1. Named(s[j], l) \/ (j = k /\ FreeLabel(f, s, l))
          BY <1>3, <2>3
    <3>2. Named(s[m], l) \/ (m = k /\ FreeLabel(f, s, l))
          BY <1>3, <2>3
    <3>3. ~(Named(s[j], l) /\ Named(s[m], l))
          BY <1>2, <2>3 DEF NamesOK
    <3> QED BY <2>3, <3>1, <3>2, <3>3 DEF FreeLabel
  <2> QED BY <1>3, <1>k, <2>1, <2>2, <2>3 DEF NamesOK
<1>5. DebtsOK(f, t, U)
  <2>1. ASSUME NEW j \in 1 .. Len(s)
        PROVE  /\ \A b, l : Owes(t[j], b, l) => b \in Closed(f) /\ (b \in U \/ l \in Out(f, b))
               /\ \A b : OwesNext(t[j], b) => b \in Closed(f) /\ (b \in U \/ On(f, b))
    <3>1. /\ \A b, l : Owes(s[j], b, l) => b \in Closed(f) /\ (b \in U \/ l \in Out(f, b))
          /\ \A b : OwesNext(s[j], b) => b \in Closed(f) /\ (b \in U \/ On(f, b))
          BY <1>2 DEF DebtsOK
    <3> QED BY <1>3, <3>1
  <2> QED BY <1>k, <2>1 DEF DebtsOK
<1>6. FlowOK(f, t, U)
  <2>1. ASSUME NEW b, NEW l, NEW j \in 1 .. Len(s), Owes(s[j], b, l) PROVE \E i \in 1 .. Len(t) : Owes(t[i], b, l)
        BY <1>3, <1>k, <2>1
  <2>2. ASSUME NEW b, NEW j \in 1 .. Len(s), OwesNext(s[j], b) PROVE \E i \in 1 .. Len(t) : OwesNext(t[i], b)
        BY <1>3, <1>k, <2>2
  <2>3. /\ \A b, l : (\E j \in 1 .. Len(s) : Owes(s[j], b, l)) => (\E j \in 1 .. Len(t) : Owes(t[j], b, l))
        /\ \A b : (\E j \in 1 .. Len(s) : OwesNext(s[j], b)) => (\E j \in 1 .. Len(t) : OwesNext(t[j], b))
        BY <2>1, <2>2
  <2> QED BY <1>2, <2>3 DEF FlowOK
<1>7. SealOK(f, t, U)
  <2>1. ASSUME NEW i \in 1 .. Len(s), Sealed(t[i])
        PROVE  /\ OpenBlock(f) \in U
               /\ \A m \in 1 .. Len(s) : i < m => \A b, l : Owes(t[m], b, l) => b \in U
    <3>1. Sealed(s[i])
          BY <1>3, <2>1
    <3>2. /\ OpenBlock(f) \in U
          /\ \A m \in 1 .. Len(s) : i < m => \A b, l : Owes(s[m], b, l) => b \in U
          BY <1>2, <3>1 DEF SealOK
    <3> QED BY <1>3, <3>2
  <2> QED BY <1>k, <2>1 DEF SealOK
<1>8. HeadOK(t, U)
  <2>1. ASSUME NEW i \in 1 .. Len(t), t[i].k = "loop", t[i].header \in U
        PROVE  \E m \in 1 .. Len(t) : m < i /\ Sealed(t[m])
    <3>1. i # k /\ i \in 1 .. Len(s)
          BY <1>k, <2>1 DEF Swaps
    <3>2. t[i] = s[i]
          BY <1>k, <3>1
    <3>3. PICK m \in 1 .. Len(s) : m < i /\ Sealed(s[m])
          BY <1>2, <2>1, <3>1, <3>2 DEF HeadOK
    <3> QED BY <1>3, <1>k, <3>3
  <2> QED BY <2>1 DEF HeadOK
<1> QED BY <1>2, <1>4, <1>5, <1>6, <1>7, <1>8 DEF Graph

----------------------------------------------------------------------------
(* The fields of the translator after each operation                       *)

\* Assignments.
SetDeadCode(f, is) == [f EXCEPT !.instrs = is, !.dead = TRUE]
SetInstrs(f, is) == [f EXCEPT !.instrs = is]
AddEdges(f, E) == [f EXCEPT !.edges = @ \cup E]

\* The value of the variable.
LEMMA SetVsAll ==
    ASSUME NEW f, IsTranslator(f), NEW v
    PROVE  LET g == SetVs(f, v)
           IN  /\ IsTranslator(g) /\ g.blocks = f.blocks /\ g.edges = f.edges
               /\ g.instrs = f.instrs /\ g.label = f.label /\ g.block = f.block
               /\ g.dead = f.dead /\ g.vs = v /\ g.nssa = f.nssa /\ g.nlabel = f.nlabel
<1> DEFINE g == SetVs(f, v)
<1>1. g = [f EXCEPT !.vs = v]
      BY DEF SetVs, IsTranslator
<1> HIDE DEF g
<1>2. g = [blocks |-> f.blocks, edges |-> f.edges, instrs |-> f.instrs, label |-> f.label,
           block |-> f.block, dead |-> f.dead, vs |-> v, inlineReturn |-> f.inlineReturn,
           nssa |-> f.nssa, nphi |-> f.nphi, nlabel |-> f.nlabel]
      BY <1>1 DEF IsTranslator
<1>3. /\ IsTranslator(g) /\ g.blocks = f.blocks /\ g.edges = f.edges
      /\ g.instrs = f.instrs /\ g.label = f.label /\ g.block = f.block
      /\ g.dead = f.dead /\ g.vs = v /\ g.nssa = f.nssa /\ g.nlabel = f.nlabel
      BY <1>2 DEF IsTranslator
<1> QED BY <1>3 DEF g

\* dead_code.
LEMMA SetDeadAll ==
    ASSUME NEW f, IsTranslator(f), NEW d
    PROVE  LET g == SetDead(f, d)
           IN  /\ IsTranslator(g) /\ g.blocks = f.blocks /\ g.edges = f.edges
               /\ g.instrs = f.instrs /\ g.label = f.label /\ g.block = f.block /\ g.dead = d
               /\ g.vs = f.vs /\ g.nssa = f.nssa /\ g.nlabel = f.nlabel
<1> DEFINE g == SetDead(f, d)
<1>1. g = [f EXCEPT !.dead = d]
      BY DEF SetDead, IsTranslator
<1> HIDE DEF g
<1>2. g = [blocks |-> f.blocks, edges |-> f.edges, instrs |-> f.instrs, label |-> f.label,
           block |-> f.block, dead |-> d, vs |-> f.vs, inlineReturn |-> f.inlineReturn,
           nssa |-> f.nssa, nphi |-> f.nphi, nlabel |-> f.nlabel]
      BY <1>1 DEF IsTranslator
<1>3. /\ IsTranslator(g) /\ g.blocks = f.blocks /\ g.edges = f.edges
      /\ g.instrs = f.instrs /\ g.label = f.label /\ g.block = f.block /\ g.dead = d
      /\ g.vs = f.vs /\ g.nssa = f.nssa /\ g.nlabel = f.nlabel
      BY <1>2 DEF IsTranslator
<1> QED BY <1>3 DEF g

\* The value of the variable, and dead_code.
LEMMA SetVsDeadAll ==
    ASSUME NEW f, IsTranslator(f), NEW v
    PROVE  LET g == SetVsDead(f, v)
           IN  /\ IsTranslator(g) /\ g.blocks = f.blocks /\ g.edges = f.edges
               /\ g.instrs = f.instrs /\ g.label = f.label /\ g.block = f.block
               /\ g.dead = FALSE /\ g.vs = v /\ g.nssa = f.nssa /\ g.nlabel = f.nlabel
<1> DEFINE g == SetVsDead(f, v)
<1>1. g = [f EXCEPT !.vs = v, !.dead = FALSE]
      BY DEF SetVsDead, IsTranslator
<1> HIDE DEF g
<1>2. g = [blocks |-> f.blocks, edges |-> f.edges, instrs |-> f.instrs, label |-> f.label,
           block |-> f.block, dead |-> FALSE, vs |-> v, inlineReturn |-> f.inlineReturn,
           nssa |-> f.nssa, nphi |-> f.nphi, nlabel |-> f.nlabel]
      BY <1>1 DEF IsTranslator
<1>3. /\ IsTranslator(g) /\ g.blocks = f.blocks /\ g.edges = f.edges
      /\ g.instrs = f.instrs /\ g.label = f.label /\ g.block = f.block
      /\ g.dead = FALSE /\ g.vs = v /\ g.nssa = f.nssa /\ g.nlabel = f.nlabel
      BY <1>2 DEF IsTranslator
<1> QED BY <1>3 DEF g

\* The value of the variable, and the next SSA value.
LEMMA SetVsNextAll ==
    ASSUME NEW f, IsTranslator(f), NEW v, NEW s
    PROVE  LET g == SetVsNext(f, v, s)
           IN  /\ IsTranslator(g) /\ g.blocks = f.blocks /\ g.edges = f.edges
               /\ g.instrs = f.instrs /\ g.label = f.label /\ g.block = f.block
               /\ g.dead = f.dead /\ g.vs = v /\ g.nssa = s /\ g.nlabel = f.nlabel
<1> DEFINE g == SetVsNext(f, v, s)
<1>1. g = [f EXCEPT !.vs = v, !.nssa = s]
      BY DEF SetVsNext, IsTranslator
<1> HIDE DEF g
<1>2. g = [blocks |-> f.blocks, edges |-> f.edges, instrs |-> f.instrs, label |-> f.label,
           block |-> f.block, dead |-> f.dead, vs |-> v, inlineReturn |-> f.inlineReturn,
           nssa |-> s, nphi |-> f.nphi, nlabel |-> f.nlabel]
      BY <1>1 DEF IsTranslator
<1>3. /\ IsTranslator(g) /\ g.blocks = f.blocks /\ g.edges = f.edges
      /\ g.instrs = f.instrs /\ g.label = f.label /\ g.block = f.block
      /\ g.dead = f.dead /\ g.vs = v /\ g.nssa = s /\ g.nlabel = f.nlabel
      BY <1>2 DEF IsTranslator
<1> QED BY <1>3 DEF g

\* The next label.
LEMMA SetLabelAll ==
    ASSUME NEW f, IsTranslator(f), NEW l
    PROVE  LET g == SetLabel(f, l)
           IN  /\ IsTranslator(g) /\ g.blocks = f.blocks /\ g.edges = f.edges
               /\ g.instrs = f.instrs /\ g.label = f.label /\ g.block = f.block
               /\ g.dead = f.dead /\ g.vs = f.vs /\ g.nssa = f.nssa /\ g.nlabel = l
<1> DEFINE g == SetLabel(f, l)
<1>1. g = [f EXCEPT !.nlabel = l]
      BY DEF SetLabel, IsTranslator
<1> HIDE DEF g
<1>2. g = [blocks |-> f.blocks, edges |-> f.edges, instrs |-> f.instrs, label |-> f.label,
           block |-> f.block, dead |-> f.dead, vs |-> f.vs,
           inlineReturn |-> f.inlineReturn, nssa |-> f.nssa, nphi |-> f.nphi,
           nlabel |-> l]
      BY <1>1 DEF IsTranslator
<1>3. /\ IsTranslator(g) /\ g.blocks = f.blocks /\ g.edges = f.edges
      /\ g.instrs = f.instrs /\ g.label = f.label /\ g.block = f.block
      /\ g.dead = f.dead /\ g.vs = f.vs /\ g.nssa = f.nssa /\ g.nlabel = l
      BY <1>2 DEF IsTranslator
<1> QED BY <1>3 DEF g

\* The next phi and the next label.
LEMMA SetPhiLabelAll ==
    ASSUME NEW f, IsTranslator(f), NEW p, NEW l
    PROVE  LET g == SetPhiLabel(f, p, l)
           IN  /\ IsTranslator(g) /\ g.blocks = f.blocks /\ g.edges = f.edges
               /\ g.instrs = f.instrs /\ g.label = f.label /\ g.block = f.block
               /\ g.dead = f.dead /\ g.vs = f.vs /\ g.nssa = f.nssa /\ g.nlabel = l
<1> DEFINE g == SetPhiLabel(f, p, l)
<1>1. g = [f EXCEPT !.nphi = p, !.nlabel = l]
      BY DEF SetPhiLabel, IsTranslator
<1> HIDE DEF g
<1>2. g = [blocks |-> f.blocks, edges |-> f.edges, instrs |-> f.instrs, label |-> f.label,
           block |-> f.block, dead |-> f.dead, vs |-> f.vs,
           inlineReturn |-> f.inlineReturn, nssa |-> f.nssa, nphi |-> p, nlabel |-> l]
      BY <1>1 DEF IsTranslator
<1>3. /\ IsTranslator(g) /\ g.blocks = f.blocks /\ g.edges = f.edges
      /\ g.instrs = f.instrs /\ g.label = f.label /\ g.block = f.block
      /\ g.dead = f.dead /\ g.vs = f.vs /\ g.nssa = f.nssa /\ g.nlabel = l
      BY <1>2 DEF IsTranslator
<1> QED BY <1>3 DEF g

\* The value an inlined call returns, and dead_code.
LEMMA SetReturnAll ==
    ASSUME NEW f, IsTranslator(f), NEW r, NEW d
    PROVE  LET g == SetReturn(f, r, d)
           IN  /\ IsTranslator(g) /\ g.blocks = f.blocks /\ g.edges = f.edges
               /\ g.instrs = f.instrs /\ g.label = f.label /\ g.block = f.block /\ g.dead = d
               /\ g.vs = f.vs /\ g.nssa = f.nssa /\ g.nlabel = f.nlabel
<1> DEFINE g == SetReturn(f, r, d)
<1>1. g = [f EXCEPT !.inlineReturn = r, !.dead = d]
      BY DEF SetReturn, IsTranslator
<1> HIDE DEF g
<1>2. g = [blocks |-> f.blocks, edges |-> f.edges, instrs |-> f.instrs, label |-> f.label,
           block |-> f.block, dead |-> d, vs |-> f.vs, inlineReturn |-> r,
           nssa |-> f.nssa, nphi |-> f.nphi, nlabel |-> f.nlabel]
      BY <1>1 DEF IsTranslator
<1>3. /\ IsTranslator(g) /\ g.blocks = f.blocks /\ g.edges = f.edges
      /\ g.instrs = f.instrs /\ g.label = f.label /\ g.block = f.block /\ g.dead = d
      /\ g.vs = f.vs /\ g.nssa = f.nssa /\ g.nlabel = f.nlabel
      BY <1>2 DEF IsTranslator
<1> QED BY <1>3 DEF g

\* CFG edges.
LEMMA AddEdgesAll ==
    ASSUME NEW f, IsTranslator(f), NEW E
    PROVE  LET g == AddEdges(f, E)
           IN  /\ IsTranslator(g) /\ g.blocks = f.blocks /\ g.edges = f.edges \cup E
               /\ g.instrs = f.instrs /\ g.label = f.label /\ g.block = f.block
               /\ g.dead = f.dead /\ g.vs = f.vs /\ g.nssa = f.nssa /\ g.nlabel = f.nlabel
<1> DEFINE g == AddEdges(f, E)
           v1 == f.edges \cup E
<1>1. g = [f EXCEPT !.edges = v1]
      BY DEF AddEdges, IsTranslator
<1> HIDE DEF g, v1
<1>2. g = [blocks |-> f.blocks, edges |-> v1, instrs |-> f.instrs, label |-> f.label,
           block |-> f.block, dead |-> f.dead, vs |-> f.vs,
           inlineReturn |-> f.inlineReturn, nssa |-> f.nssa, nphi |-> f.nphi,
           nlabel |-> f.nlabel]
      BY <1>1 DEF IsTranslator
<1>3. /\ IsTranslator(g) /\ g.blocks = f.blocks /\ g.edges = v1 /\ g.instrs = f.instrs
      /\ g.label = f.label /\ g.block = f.block /\ g.dead = f.dead /\ g.vs = f.vs
      /\ g.nssa = f.nssa /\ g.nlabel = f.nlabel
      BY <1>2 DEF IsTranslator
<1> QED BY <1>3 DEF g, v1

\* start_block_at.
LEMMA StartAtAll ==
    ASSUME NEW f, IsTranslator(f), NEW l
    PROVE  LET g == StartBlockAt(f, l)
           IN  /\ IsTranslator(g) /\ g.blocks = f.blocks /\ g.edges = f.edges
               /\ g.instrs = <<>> /\ g.label = l /\ g.block = f.block /\ g.dead = f.dead
               /\ g.vs = f.vs /\ g.nssa = f.nssa /\ g.nlabel = f.nlabel
<1> DEFINE g == StartBlockAt(f, l)
<1>1. g = [f EXCEPT !.label = l, !.instrs = <<>>]
      BY DEF StartBlockAt, IsTranslator
<1> HIDE DEF g
<1>2. g = [blocks |-> f.blocks, edges |-> f.edges, instrs |-> <<>>, label |-> l,
           block |-> f.block, dead |-> f.dead, vs |-> f.vs,
           inlineReturn |-> f.inlineReturn, nssa |-> f.nssa, nphi |-> f.nphi,
           nlabel |-> f.nlabel]
      BY <1>1 DEF IsTranslator
<1>3. /\ IsTranslator(g) /\ g.blocks = f.blocks /\ g.edges = f.edges
      /\ g.instrs = <<>> /\ g.label = l /\ g.block = f.block /\ g.dead = f.dead
      /\ g.vs = f.vs /\ g.nssa = f.nssa /\ g.nlabel = f.nlabel
      BY <1>2 DEF IsTranslator
<1> QED BY <1>3 DEF g

\* The code after a jump, in a block of its own.
LEMMA SetDeadCodeAll ==
    ASSUME NEW f, IsTranslator(f), NEW is
    PROVE  LET g == SetDeadCode(f, is)
           IN  /\ IsTranslator(g) /\ g.blocks = f.blocks /\ g.edges = f.edges /\ g.instrs = is
               /\ g.label = f.label /\ g.block = f.block /\ g.dead = TRUE /\ g.vs = f.vs
               /\ g.nssa = f.nssa /\ g.nlabel = f.nlabel
<1> DEFINE g == SetDeadCode(f, is)
<1>1. g = [f EXCEPT !.instrs = is, !.dead = TRUE]
      BY DEF SetDeadCode, IsTranslator
<1> HIDE DEF g
<1>2. g = [blocks |-> f.blocks, edges |-> f.edges, instrs |-> is, label |-> f.label,
           block |-> f.block, dead |-> TRUE, vs |-> f.vs, inlineReturn |-> f.inlineReturn,
           nssa |-> f.nssa, nphi |-> f.nphi, nlabel |-> f.nlabel]
      BY <1>1 DEF IsTranslator
<1>3. /\ IsTranslator(g) /\ g.blocks = f.blocks /\ g.edges = f.edges /\ g.instrs = is
      /\ g.label = f.label /\ g.block = f.block /\ g.dead = TRUE /\ g.vs = f.vs
      /\ g.nssa = f.nssa /\ g.nlabel = f.nlabel
      BY <1>2 DEF IsTranslator
<1> QED BY <1>3 DEF g

\* The code of the open block.
LEMMA SetInstrsAll ==
    ASSUME NEW f, IsTranslator(f), NEW is
    PROVE  LET g == SetInstrs(f, is)
           IN  /\ IsTranslator(g) /\ g.blocks = f.blocks /\ g.edges = f.edges /\ g.instrs = is
               /\ g.label = f.label /\ g.block = f.block /\ g.dead = f.dead /\ g.vs = f.vs
               /\ g.nssa = f.nssa /\ g.nlabel = f.nlabel
<1> DEFINE g == SetInstrs(f, is)
<1>1. g = [f EXCEPT !.instrs = is]
      BY DEF SetInstrs, IsTranslator
<1> HIDE DEF g
<1>2. g = [blocks |-> f.blocks, edges |-> f.edges, instrs |-> is, label |-> f.label,
           block |-> f.block, dead |-> f.dead, vs |-> f.vs,
           inlineReturn |-> f.inlineReturn, nssa |-> f.nssa, nphi |-> f.nphi,
           nlabel |-> f.nlabel]
      BY <1>1 DEF IsTranslator
<1>3. /\ IsTranslator(g) /\ g.blocks = f.blocks /\ g.edges = f.edges /\ g.instrs = is
      /\ g.label = f.label /\ g.block = f.block /\ g.dead = f.dead /\ g.vs = f.vs
      /\ g.nssa = f.nssa /\ g.nlabel = f.nlabel
      BY <1>2 DEF IsTranslator
<1> QED BY <1>3 DEF g

\* finish_block and finish_block_no_fallthrough.
LEMMA CloseAll ==
    ASSUME NEW f, IsTranslator(f), NEW c
    PROVE  LET g == Close(f, c)
           IN  /\ IsTranslator(g) /\ g.blocks = Append(f.blocks, Block(f.label, f.instrs))
               /\ g.edges = f.edges \cup Entering(f) /\ g.instrs = <<>> /\ g.label = f.label
               /\ g.block = c /\ g.dead = f.dead /\ g.vs = f.vs /\ g.nssa = f.nssa
               /\ g.nlabel = f.nlabel
<1> DEFINE g == Close(f, c)
           v1 == Append(f.blocks, Block(f.label, f.instrs))
           v2 == f.edges \cup Entering(f)
<1>1. g = [f EXCEPT !.blocks = v1, !.instrs = <<>>, !.edges = v2, !.block = c]
      BY DEF Close, NextBlockId, Block, Entering, IsTranslator
<1> HIDE DEF g, v1, v2
<1>2. g = [blocks |-> v1, edges |-> v2, instrs |-> <<>>, label |-> f.label, block |-> c,
           dead |-> f.dead, vs |-> f.vs, inlineReturn |-> f.inlineReturn, nssa |-> f.nssa,
           nphi |-> f.nphi, nlabel |-> f.nlabel]
      BY <1>1 DEF IsTranslator
<1>3. /\ IsTranslator(g) /\ g.blocks = v1 /\ g.edges = v2 /\ g.instrs = <<>>
      /\ g.label = f.label /\ g.block = c /\ g.dead = f.dead /\ g.vs = f.vs
      /\ g.nssa = f.nssa /\ g.nlabel = f.nlabel
      BY <1>2 DEF IsTranslator
<1> QED BY <1>3 DEF g, v1, v2

\* push_instr.
LEMMA PushAll ==
    ASSUME NEW f, IsTranslator(f), NEW i
    PROVE  LET g == Push(f, i)
           IN  /\ IsTranslator(g) /\ g.blocks = f.blocks /\ g.edges = f.edges
               /\ g.label = f.label /\ g.block = f.block /\ g.dead = f.dead /\ g.vs = f.vs
               /\ g.nssa = f.nssa /\ g.nlabel = f.nlabel
               /\ f.dead => g.instrs = f.instrs
               /\ ~f.dead => g.instrs = Append(f.instrs, i)
<1> DEFINE is == Append(f.instrs, i)
<1>1. CASE f.dead
  <2>1. Push(f, i) = f
        BY <1>1 DEF Push
  <2> QED BY <1>1, <2>1
<1>2. CASE ~f.dead
  <2>1. Push(f, i) = SetInstrs(f, is)
        BY <1>2 DEF Push, SetInstrs
  <2> HIDE DEF is
  <2>2. LET g == SetInstrs(f, is)
        IN  /\ IsTranslator(g) /\ g.blocks = f.blocks /\ g.edges = f.edges /\ g.instrs = is
            /\ g.label = f.label /\ g.block = f.block /\ g.dead = f.dead /\ g.vs = f.vs
            /\ g.nssa = f.nssa /\ g.nlabel = f.nlabel
        BY SetInstrsAll
  <2> QED BY <1>2, <2>1, <2>2 DEF is
<1> QED BY <1>1, <1>2

\* start_block.
LEMMA StartBlockAll ==
    ASSUME NEW f, IsTranslator(f)
    PROVE  LET g == StartBlock(f)
           IN  /\ IsTranslator(g) /\ g.blocks = f.blocks /\ g.edges = f.edges
               /\ g.instrs = <<>> /\ g.label = f.nlabel /\ g.block = f.block /\ g.dead = f.dead
               /\ g.vs = f.vs /\ g.nssa = f.nssa /\ g.nlabel = f.nlabel + 1
<1> DEFINE h == StartBlockAt(f, f.nlabel)
           l == h.nlabel + 1
<1>1. StartBlock(f) = SetLabel(h, l)
      BY DEF StartBlock, SetLabel
<1>2. /\ IsTranslator(h) /\ h.blocks = f.blocks /\ h.edges = f.edges
      /\ h.instrs = <<>> /\ h.label = f.nlabel /\ h.block = f.block /\ h.dead = f.dead
      /\ h.vs = f.vs /\ h.nssa = f.nssa /\ h.nlabel = f.nlabel
      BY StartAtAll
<1> HIDE DEF h, l
<1>3. LET g == SetLabel(h, l)
      IN  /\ IsTranslator(g) /\ g.blocks = h.blocks /\ g.edges = h.edges
          /\ g.instrs = h.instrs /\ g.label = h.label /\ g.block = h.block
          /\ g.dead = h.dead /\ g.vs = h.vs /\ g.nssa = h.nssa /\ g.nlabel = l
      BY <1>2, SetLabelAll
<1>4. l = f.nlabel + 1
      BY <1>2 DEF l
<1> QED BY <1>1, <1>2, <1>3, <1>4

\* start_block and the OpExit of code that is dead.
LEMMA StartDeadAll ==
    ASSUME NEW f, IsTranslator(f)
    PROVE  LET g == StartDeadBlock(f)
           IN  /\ IsTranslator(g) /\ g.blocks = f.blocks /\ g.edges = f.edges
               /\ g.label = f.nlabel /\ g.block = f.block /\ g.dead = TRUE
               /\ g.vs = f.vs /\ g.nssa = f.nssa /\ g.nlabel = f.nlabel + 1
<1> DEFINE h == StartBlock(f)
           is == <<Exit(NoSSA)>>
<1>1. StartDeadBlock(f) = SetDeadCode(h, is)
      BY DEF StartDeadBlock, SetDeadCode
<1>2. /\ IsTranslator(h) /\ h.blocks = f.blocks /\ h.edges = f.edges
      /\ h.label = f.nlabel /\ h.block = f.block
      /\ h.vs = f.vs /\ h.nssa = f.nssa /\ h.nlabel = f.nlabel + 1
      BY StartBlockAll
<1> HIDE DEF h, is
<1>3. LET g == SetDeadCode(h, is)
      IN  /\ IsTranslator(g) /\ g.blocks = h.blocks /\ g.edges = h.edges
          /\ g.label = h.label /\ g.block = h.block
          /\ g.dead = TRUE /\ g.vs = h.vs /\ g.nssa = h.nssa /\ g.nlabel = h.nlabel
      BY <1>2, SetDeadCodeAll
<1> QED BY <1>1, <1>2, <1>3

\* An SSA value.
Ssa(v) == v \in Nat /\ v # NoSSA

\* The empty block, and a block with a phi.
LEMMA PlainStart ==
    /\ Plain(<<>>)
    /\ \A is, m : Plain(is) => Plain(Append(is, PhiSrcs(m))) /\ Plain(Append(is, PhiDsts(m)))
    /\ \A is, v, w : Plain(is) => Plain(Append(is, Def(v, w))) /\ Plain(Append(is, Read(v)))
<1>1. Plain(<<>>)
      BY EmptySequence DEF Plain, Without
<1>2. \A is, e : Plain(is) /\ e.op \notin {"bra", "exit"} => Plain(Append(is, e))
      BY AppendExits DEF Plain
<1>3. \A m : PhiSrcs(m).op \notin {"bra", "exit"} /\ PhiDsts(m).op \notin {"bra", "exit"}
      BY DEF PhiSrcs, PhiDsts
<1>4. \A v, w : Def(v, w).op \notin {"bra", "exit"} /\ Read(v).op \notin {"bra", "exit"}
      BY DEF Def, Read
<1>5. \A is, m : Plain(is) => Plain(Append(is, PhiSrcs(m))) /\ Plain(Append(is, PhiDsts(m)))
      BY <1>2, <1>3
<1>6. \A is, v, w : Plain(is) => Plain(Append(is, Def(v, w))) /\ Plain(Append(is, Read(v)))
      BY <1>2, <1>4
<1> QED BY <1>1, <1>5, <1>6

\* PhiDsts of a merge, at a block that has no branch yet.
LEMMA PushPhiAll ==
    ASSUME NEW f, IsTranslator(f), Ssa(f.nssa), Plain(f.instrs), NEW p
    PROVE  LET g == PushPhiDst(f, p)
           IN  /\ IsTranslator(g) /\ g.blocks = f.blocks /\ g.edges = f.edges
               /\ Plain(g.instrs) /\ g.label = f.label /\ g.block = f.block /\ g.dead = f.dead
               /\ Ssa(g.vs) /\ Ssa(g.nssa) /\ g.nlabel = f.nlabel
<1> DEFINE h == SetVsNext(f, f.nssa, f.nssa + 1)
           m == PhiMap(p, f.nssa)
<1>1. PushPhiDst(f, p) = Push(h, PhiDsts(m))
      BY DEF PushPhiDst, SetVsNext
<1>2. /\ IsTranslator(h) /\ h.blocks = f.blocks /\ h.edges = f.edges
      /\ h.instrs = f.instrs /\ h.label = f.label /\ h.block = f.block
      /\ h.dead = f.dead /\ h.vs = f.nssa /\ h.nssa = f.nssa + 1 /\ h.nlabel = f.nlabel
      BY SetVsNextAll
<1>3. Ssa(h.vs) /\ Ssa(h.nssa)
      BY <1>2 DEF Ssa, NoSSA
<1> HIDE DEF h, m
<1>4. LET g == Push(h, PhiDsts(m))
      IN  /\ IsTranslator(g) /\ g.blocks = h.blocks /\ g.edges = h.edges
          /\ g.label = h.label /\ g.block = h.block /\ g.dead = h.dead /\ g.vs = h.vs
          /\ g.nssa = h.nssa /\ g.nlabel = h.nlabel
          /\ h.dead => g.instrs = h.instrs
          /\ ~h.dead => g.instrs = Append(h.instrs, PhiDsts(m))
      BY <1>2, PushAll
<1>5. Plain(h.instrs) /\ Plain(Append(h.instrs, PhiDsts(m)))
      BY <1>2, PlainStart
<1>6. Plain(Push(h, PhiDsts(m)).instrs)
      BY <1>4, <1>5
<1> QED BY <1>1, <1>2, <1>3, <1>4, <1>6

----------------------------------------------------------------------------
(* Blocks on their way to be closed                                        *)

\* Code that ends with branches to the labels L: it leaves for good, or goes
\* on into the next block.
Jumps(is, L) == Exits(is) = L /\ ~RunsOn(is)
Splits(is, L) == Exits(is) = L /\ RunsOn(is)

\* Code and its last instruction.
LEMMA EndCode ==
    ASSUME NEW is, Plain(is)
    PROVE  /\ Splits(is, {})
           /\ \A l : Jumps(Append(is, Bra(l)), {l})
           /\ \A l, v : Ssa(v) => Splits(Append(is, BraIfNot(l, v)), {l})
           /\ \A l, m, v : Jumps(Append(Append(is, BraIf(l, v)), Bra(m)), {l, m})
           /\ \A v : Jumps(Append(is, Exit(v)), {})
<1>1. Exits(is) = {} /\ RunsOn(is) /\ Sequence(is)
      BY PlainRuns
<1>2. ASSUME NEW l PROVE Bra(l).op = "bra" /\ Bra(l).target = l /\ Leaves(Bra(l))
      BY DEF Bra, Leaves
<1>3. ASSUME NEW l, NEW v, Ssa(v)
      PROVE BraIfNot(l, v).op = "bra" /\ BraIfNot(l, v).target = l /\ ~Leaves(BraIfNot(l, v))
      BY <1>3 DEF BraIfNot, Leaves, Ssa
<1>4. ASSUME NEW l, NEW v PROVE BraIf(l, v).op = "bra" /\ BraIf(l, v).target = l
      BY DEF BraIf
<1>5. ASSUME NEW v PROVE Exit(v).op = "exit" /\ Leaves(Exit(v))
      BY DEF Exit, Leaves
<1>6. Splits(is, {})
      BY <1>1 DEF Splits
<1>7. ASSUME NEW l PROVE Jumps(Append(is, Bra(l)), {l})
  <2> DEFINE e == Bra(l)
  <2>1. e.op = "bra" /\ e.target = l /\ Leaves(e)
        BY <1>2
  <2> HIDE DEF e
  <2>2. Exits(Append(is, e)) = {l} /\ ~RunsOn(Append(is, e))
        BY <1>1, <2>1, AppendExits
  <2> QED BY <2>2 DEF Jumps, e
<1>8. ASSUME NEW l, NEW v, Ssa(v) PROVE Splits(Append(is, BraIfNot(l, v)), {l})
  <2> DEFINE e == BraIfNot(l, v)
  <2>1. e.op = "bra" /\ e.target = l /\ ~Leaves(e)
        BY <1>3, <1>8
  <2> HIDE DEF e
  <2>2. Exits(Append(is, e)) = {l} /\ RunsOn(Append(is, e))
        BY <1>1, <2>1, AppendExits
  <2> QED BY <2>2 DEF Splits, e
<1>9. ASSUME NEW l, NEW m, NEW v PROVE Jumps(Append(Append(is, BraIf(l, v)), Bra(m)), {l, m})
  <2> DEFINE e == BraIf(l, v)
             a == Append(is, e)
             c == Bra(m)
  <2>1. e.op = "bra" /\ e.target = l /\ c.op = "bra" /\ c.target = m /\ Leaves(c)
        BY <1>2, <1>4
  <2> HIDE DEF e, c
  <2>2. Exits(a) = {l} /\ Sequence(a)
        BY <1>1, <2>1, AppendExits, AppendSequence
  <2> HIDE DEF a
  <2>3. Exits(Append(a, c)) = {l} \cup {m} /\ ~RunsOn(Append(a, c))
        BY <2>1, <2>2, AppendExits
  <2> QED BY <2>3 DEF Jumps, e, a, c
<1>10. ASSUME NEW v PROVE Jumps(Append(is, Exit(v)), {})
  <2> DEFINE e == Exit(v)
  <2>1. e.op # "bra" /\ Leaves(e)
        BY <1>5
  <2> HIDE DEF e
  <2>2. Exits(Append(is, e)) = {} /\ ~RunsOn(Append(is, e))
        BY <1>1, <2>1, AppendExits
  <2> QED BY <2>2 DEF Jumps, e
<1> QED BY <1>6, <1>7, <1>8, <1>9, <1>10

\* Translator k is f but for the code of the open block and the labels.
Adds(f, k) ==
    /\ IsTranslator(k) /\ k.blocks = f.blocks /\ k.edges = f.edges /\ k.label = f.label
    /\ k.block = f.block /\ k.dead = f.dead /\ k.vs = f.vs /\ k.nssa = f.nssa

\* Pushing an instruction, and handing out labels and phis.
LEMMA AddsPush ==
    ASSUME NEW f, NEW k, Adds(f, k), NEW i
    PROVE  /\ Adds(f, Push(k, i)) /\ Push(k, i).nlabel = k.nlabel
           /\ ~f.dead => Push(k, i).instrs = Append(k.instrs, i)
           /\ f.dead => Push(k, i).instrs = k.instrs
<1> DEFINE g == Push(k, i)
<1>1. /\ IsTranslator(g) /\ g.blocks = k.blocks /\ g.edges = k.edges
      /\ g.label = k.label /\ g.block = k.block /\ g.dead = k.dead /\ g.vs = k.vs
      /\ g.nssa = k.nssa /\ g.nlabel = k.nlabel
      /\ k.dead => g.instrs = k.instrs
      /\ ~k.dead => g.instrs = Append(k.instrs, i)
      BY PushAll DEF Adds
<1> HIDE DEF g
<1>2. Adds(f, g) /\ g.nlabel = k.nlabel
      BY <1>1 DEF Adds
<1>3. k.dead = f.dead
      BY DEF Adds
<1> QED BY <1>1, <1>2, <1>3 DEF g

\* Taking new phis and labels adds no code.
LEMMA AddsSame ==
    ASSUME NEW f, IsTranslator(f), NEW p, NEW l
    PROVE  /\ Adds(f, f)
           /\ Adds(f, SetPhiLabel(f, p, l)) /\ SetPhiLabel(f, p, l).nlabel = l
           /\ SetPhiLabel(f, p, l).instrs = f.instrs
           /\ Adds(f, SetLabel(f, l)) /\ SetLabel(f, l).nlabel = l
           /\ SetLabel(f, l).instrs = f.instrs
BY SetPhiLabelAll, SetLabelAll DEF Adds

\* The block is closed, and the next is still to be started.
LEMMA AddsClose ==
    ASSUME NEW f, NEW k, Adds(f, k)
    PROVE  LET g == FinishBlockNoFallthrough(k)
           IN  /\ IsTranslator(g) /\ Moves(f, g, k.instrs, {}) /\ g.block = NoBlock
               /\ g.dead = f.dead /\ g.vs = f.vs /\ g.nssa = f.nssa /\ g.nlabel = k.nlabel
<1> DEFINE g == Close(k, NoBlock)
<1>1. /\ IsTranslator(g) /\ g.blocks = Append(k.blocks, Block(k.label, k.instrs))
      /\ g.edges = k.edges \cup Entering(k) /\ g.block = NoBlock /\ g.dead = k.dead
      /\ g.vs = k.vs /\ g.nssa = k.nssa /\ g.nlabel = k.nlabel
      BY CloseAll DEF Adds
<1>2. FinishBlockNoFallthrough(k) = g
      BY DEF FinishBlockNoFallthrough
<1> HIDE DEF g
<1>3. Entering(k) = Entering(f)
      BY DEF Adds, Entering
<1>4. Moves(f, g, k.instrs, {})
      BY <1>1, <1>3 DEF Moves, Adds
<1> QED BY <1>1, <1>2, <1>4 DEF Adds

\* A block is started at a label, at a new one, or for dead code.
LEMMA OpensAt ==
    ASSUME NEW f, NEW h, IsTranslator(h), NEW is, NEW E, Moves(f, h, is, E), NEW l
    PROVE  LET g == StartBlockAt(h, l)
           IN  /\ IsTranslator(g) /\ Moves(f, g, is, E) /\ g.label = l /\ Plain(g.instrs)
               /\ g.block = h.block /\ g.dead = h.dead /\ g.vs = h.vs /\ g.nssa = h.nssa
               /\ g.nlabel = h.nlabel
BY PlainStart, StartAtAll DEF Moves

\* start_block after a move: the block has a new label.
LEMMA OpensNew ==
    ASSUME NEW f, NEW h, IsTranslator(h), NEW is, NEW E, Moves(f, h, is, E)
    PROVE  LET g == StartBlock(h)
           IN  /\ IsTranslator(g) /\ Moves(f, g, is, E) /\ g.label = h.nlabel
               /\ Plain(g.instrs) /\ g.block = h.block /\ g.dead = h.dead /\ g.vs = h.vs
               /\ g.nssa = h.nssa /\ g.nlabel = h.nlabel + 1
BY PlainStart, StartBlockAll DEF Moves

\* The block after a jump: it has a new label and is dead.
LEMMA OpensDead ==
    ASSUME NEW f, NEW h, IsTranslator(h), NEW is, NEW E, Moves(f, h, is, E)
    PROVE  LET g == StartDeadBlock(h)
           IN  /\ IsTranslator(g) /\ Moves(f, g, is, E) /\ g.label = h.nlabel
               /\ g.block = h.block /\ g.dead = TRUE /\ g.vs = h.vs
               /\ g.nssa = h.nssa /\ g.nlabel = h.nlabel + 1
BY StartDeadAll DEF Moves

\* CFG edges are added.
LEMMA MovesEdges ==
    ASSUME NEW f, NEW h, IsTranslator(h), NEW is, NEW E, Moves(f, h, is, E), NEW D
    PROVE  LET g == AddEdges(h, D)
           IN  /\ IsTranslator(g) /\ Moves(f, g, is, E \cup D) /\ g.label = h.label
               /\ g.instrs = h.instrs /\ g.block = h.block /\ g.dead = h.dead /\ g.vs = h.vs
               /\ g.nssa = h.nssa /\ g.nlabel = h.nlabel
<1> DEFINE g == AddEdges(h, D)
<1>1. /\ IsTranslator(g) /\ g.blocks = h.blocks /\ g.edges = h.edges \cup D
      /\ g.instrs = h.instrs /\ g.label = h.label /\ g.block = h.block
      /\ g.dead = h.dead /\ g.vs = h.vs /\ g.nssa = h.nssa /\ g.nlabel = h.nlabel
      BY AddEdgesAll
<1> HIDE DEF g
<1>2. Moves(f, g, is, E \cup D)
  <2>1. g.edges = (f.edges \cup Entering(f)) \cup (E \cup D)
        BY <1>1 DEF Moves
  <2> QED BY <1>1, <2>1 DEF Moves
<1> QED BY <1>1, <1>2 DEF g

\* One edge.
LEMMA OneEdge == \A f, b, m : AddEdge(f, b, m) = AddEdges(f, {<<b, m>>})
BY DEF AddEdge, AddEdges

----------------------------------------------------------------------------
(* What each operation does                                                *)

\* Translator g has closed the open block of f with code "is", added the
\* edges E and opened a block with label l.
Opened(f, g, is, E, l) ==
    /\ IsTranslator(g) /\ Moves(f, g, is, E) /\ g.label = l /\ g.block = NoBlock
    /\ Ssa(g.vs) /\ Ssa(g.nssa)
IsAlive(f) == ~f.dead /\ Plain(f.instrs)
Begun(g) == g.dead = FALSE /\ Plain(g.instrs)
Typed(f) ==
    /\ IsTranslator(f) /\ Sequence(f.blocks) /\ f.dead \in BOOLEAN /\ Ssa(f.vs) /\ Ssa(f.nssa)

\* Break and Continue.
LEMMA JumpOutOpens ==
    ASSUME NEW f, Typed(f), NEW p, NEW l
    PROVE  LET g == JumpOut(f, p, l)
           IN  \E is : /\ Opened(f, g, is, {}, f.nlabel) /\ g.dead = TRUE /\ g.nlabel = f.nlabel + 1
                       /\ IsAlive(f) => Jumps(is, {l})
<1> DEFINE m == PhiMap(p, f.vs)
           a == Push(f, PhiSrcs(m))
           b == Push(a, Bra(l))
           c == FinishBlockNoFallthrough(b)
           g == StartDeadBlock(c)
<1>1. JumpOut(f, p, l) = g
      BY DEF JumpOut
<1> HIDE DEF m
<1>2. Adds(f, a) /\ a.nlabel = f.nlabel /\ (~f.dead => a.instrs = Append(f.instrs, PhiSrcs(m)))
      BY AddsSame, AddsPush DEF Typed
<1> HIDE DEF a
<1>3. Adds(f, b) /\ b.nlabel = f.nlabel /\ (~f.dead => b.instrs = Append(a.instrs, Bra(l)))
      BY <1>2, AddsPush
<1> HIDE DEF b
<1>4. /\ IsTranslator(c) /\ Moves(f, c, b.instrs, {}) /\ c.block = NoBlock
      /\ c.vs = f.vs /\ c.nssa = f.nssa /\ c.nlabel = f.nlabel
      BY <1>3, AddsClose
<1> HIDE DEF c
<1>5. /\ IsTranslator(g) /\ Moves(f, g, b.instrs, {}) /\ g.label = f.nlabel
      /\ g.block = NoBlock /\ g.dead = TRUE /\ g.vs = f.vs
      /\ g.nssa = f.nssa /\ g.nlabel = f.nlabel + 1
      BY <1>4, OpensDead
<1> HIDE DEF g
<1>6. IsAlive(f) => Jumps(b.instrs, {l})
  <2>1. IsAlive(f) => Plain(a.instrs)
        BY <1>2, PlainStart DEF IsAlive
  <2> QED BY <1>3, <2>1, EndCode DEF IsAlive
<1>7. Opened(f, g, b.instrs, {}, f.nlabel)
      BY <1>5 DEF Opened, Typed
<1> QED BY <1>1, <1>5, <1>6, <1>7

\* Return at top level.
LEMMA ReturnOpens ==
    ASSUME NEW f, Typed(f), NEW inlining, ~inlining
    PROVE  LET g == ReturnTo(f, inlining)
           IN  \E is : /\ Opened(f, g, is, {}, f.nlabel) /\ g.dead = TRUE /\ g.nlabel = f.nlabel + 1
                       /\ IsAlive(f) => Jumps(is, {})
<1> DEFINE b == Push(f, Exit(f.vs))
           c == FinishBlockNoFallthrough(b)
           g == StartDeadBlock(c)
<1>1. ReturnTo(f, inlining) = g
      BY DEF ReturnTo
<1>3. Adds(f, b) /\ b.nlabel = f.nlabel /\ (~f.dead => b.instrs = Append(f.instrs, Exit(f.vs)))
      BY AddsSame, AddsPush DEF Typed
<1> HIDE DEF b
<1>4. /\ IsTranslator(c) /\ Moves(f, c, b.instrs, {}) /\ c.block = NoBlock
      /\ c.vs = f.vs /\ c.nssa = f.nssa /\ c.nlabel = f.nlabel
      BY <1>3, AddsClose
<1> HIDE DEF c
<1>5. /\ IsTranslator(g) /\ Moves(f, g, b.instrs, {}) /\ g.label = f.nlabel
      /\ g.block = NoBlock /\ g.dead = TRUE /\ g.vs = f.vs
      /\ g.nssa = f.nssa /\ g.nlabel = f.nlabel + 1
      BY <1>4, OpensDead
<1> HIDE DEF g
<1>6. IsAlive(f) => Jumps(b.instrs, {})
      BY <1>3, EndCode DEF IsAlive
<1>7. Opened(f, g, b.instrs, {}, f.nlabel)
      BY <1>5 DEF Opened, Typed
<1> QED BY <1>1, <1>5, <1>6, <1>7

\* Return in an inlined call.
LEMMA ReturnStays ==
    ASSUME NEW f, Typed(f), f.nlabel \in Nat, NEW inlining, inlining
    PROVE  LET g == ReturnTo(f, inlining)
           IN  /\ Stays(f, g) /\ g.instrs = f.instrs /\ g.vs = f.vs /\ g.nssa = f.nssa
<1> DEFINE v == f.vs
           d == TRUE
           g == SetReturn(f, v, d)
<1>1. ReturnTo(f, inlining) = g
      BY DEF ReturnTo, SetReturn
<1> HIDE DEF v, d
<1>2. /\ IsTranslator(g) /\ g.blocks = f.blocks /\ g.edges = f.edges
      /\ g.instrs = f.instrs /\ g.label = f.label /\ g.block = f.block /\ g.dead = d
      /\ g.vs = f.vs /\ g.nssa = f.nssa /\ g.nlabel = f.nlabel
      BY SetReturnAll DEF Typed
<1> HIDE DEF g
<1>3. Stays(f, g)
      BY <1>2 DEF Stays
<1> QED BY <1>1, <1>2, <1>3

\* translate_if up to the accept arm.
LEMMA IfNoElseOpens ==
    ASSUME NEW f, Typed(f)
    PROVE  LET g == IfNoElse(f)
           IN  \E is : /\ Opened(f, g, is, {}, f.nlabel + 1) /\ g.dead = f.dead /\ Plain(g.instrs)
                       /\ g.nlabel = f.nlabel + 1 + 1
                       /\ IsAlive(f) => Splits(is, {f.nlabel})
<1> DEFINE m == PhiMap(f.nphi, f.vs)
           p == f.nphi + 1
           e == BraIfNot(f.nlabel, f.vs)
           k == SetPhiLabel(f, p, f.nlabel + 1)
           a == Push(k, PhiSrcs(m))
           b == Push(a, e)
           c == FinishBlockNoFallthrough(b)
           g == StartBlock(c)
<1>1. IfNoElse(f) = g
      BY DEF IfNoElse, SetPhiLabel
<1> HIDE DEF m, p
<1>0. Adds(f, k) /\ k.nlabel = f.nlabel + 1 /\ k.instrs = f.instrs
      BY AddsSame DEF Typed
<1> HIDE DEF k
<1>2. Adds(f, a) /\ a.nlabel = f.nlabel + 1 /\ (~f.dead => a.instrs = Append(f.instrs, PhiSrcs(m)))
      BY <1>0, AddsPush
<1> HIDE DEF a
<1>3. Adds(f, b) /\ b.nlabel = f.nlabel + 1 /\ (~f.dead => b.instrs = Append(a.instrs, e))
      BY <1>2, AddsPush
<1> HIDE DEF b
<1>4. /\ IsTranslator(c) /\ Moves(f, c, b.instrs, {}) /\ c.block = NoBlock
      /\ c.vs = f.vs /\ c.nssa = f.nssa /\ c.nlabel = f.nlabel + 1 /\ c.dead = f.dead
      BY <1>3, AddsClose
<1> HIDE DEF c
<1>5. /\ IsTranslator(g) /\ Moves(f, g, b.instrs, {}) /\ g.label = f.nlabel + 1
      /\ g.block = NoBlock /\ g.dead = f.dead /\ g.vs = f.vs /\ Plain(g.instrs)
      /\ g.nssa = f.nssa /\ g.nlabel = f.nlabel + 1 + 1
      BY <1>4, OpensNew
<1> HIDE DEF g
<1>6. IsAlive(f) => Splits(b.instrs, {f.nlabel})
  <2>1. IsAlive(f) => Plain(a.instrs)
        BY <1>2, PlainStart DEF IsAlive
  <2>2. Ssa(f.vs)
        BY DEF Typed
  <2> QED BY <1>3, <2>1, <2>2, EndCode DEF IsAlive
<1>7. Opened(f, g, b.instrs, {}, f.nlabel + 1)
      BY <1>5 DEF Opened, Typed
<1> QED BY <1>1, <1>5, <1>6, <1>7

\* translate_if up to the accept arm, with a reject arm to come.
LEMMA IfElseOpens ==
    ASSUME NEW f, Typed(f), f.nlabel \in Nat
    PROVE  LET g == IfElse(f)
           IN  \E is : /\ Opened(f, g, is, {}, f.nlabel + 2) /\ g.dead = f.dead /\ Plain(g.instrs)
                       /\ g.nlabel = f.nlabel + 3
                       /\ IsAlive(f) => Splits(is, {f.nlabel + 1})
<1> DEFINE p == f.nphi + 1
           e == BraIfNot(f.nlabel + 1, f.vs)
           k == SetPhiLabel(f, p, f.nlabel + 2)
           b == Push(k, e)
           c == FinishBlockNoFallthrough(b)
           g == StartBlock(c)
<1>1. IfElse(f) = g
      BY DEF IfElse, SetPhiLabel
<1> HIDE DEF p
<1>0. Adds(f, k) /\ k.nlabel = f.nlabel + 2 /\ k.instrs = f.instrs
      BY AddsSame DEF Typed
<1> HIDE DEF k
<1>3. Adds(f, b) /\ b.nlabel = f.nlabel + 2 /\ (~f.dead => b.instrs = Append(f.instrs, e))
      BY <1>0, AddsPush
<1> HIDE DEF b
<1>4. /\ IsTranslator(c) /\ Moves(f, c, b.instrs, {}) /\ c.block = NoBlock
      /\ c.vs = f.vs /\ c.nssa = f.nssa /\ c.nlabel = f.nlabel + 2 /\ c.dead = f.dead
      BY <1>3, AddsClose
<1> HIDE DEF c
<1>5. /\ IsTranslator(g) /\ Moves(f, g, b.instrs, {}) /\ g.label = f.nlabel + 2
      /\ g.block = NoBlock /\ g.dead = f.dead /\ g.vs = f.vs /\ Plain(g.instrs)
      /\ g.nssa = f.nssa /\ g.nlabel = (f.nlabel + 2) + 1
      BY <1>4, OpensNew
<1> HIDE DEF g
<1>6. IsAlive(f) => Splits(b.instrs, {f.nlabel + 1})
  <2>2. Ssa(f.vs)
        BY DEF Typed
  <2> QED BY <1>3, <2>2, EndCode DEF IsAlive
<1>7. Opened(f, g, b.instrs, {}, f.nlabel + 2)
      BY <1>5 DEF Opened, Typed
<1>8. g.nlabel = f.nlabel + 3
      BY <1>5
<1> QED BY <1>1, <1>5, <1>6, <1>7, <1>8

\* What is done to the block that has been opened.
LEMMA OpenedEdges ==
    ASSUME NEW f, NEW h, NEW is, NEW E, NEW l, Opened(f, h, is, E, l), NEW D
    PROVE  LET g == AddEdges(h, D)
           IN  /\ Opened(f, g, is, E \cup D, l) /\ g.instrs = h.instrs /\ g.dead = h.dead
               /\ g.nlabel = h.nlabel /\ g.vs = h.vs
<1> DEFINE g == AddEdges(h, D)
<1>1. IsTranslator(h) /\ Moves(f, h, is, E)
      BY DEF Opened
<1>2. /\ IsTranslator(g) /\ Moves(f, g, is, E \cup D) /\ g.label = h.label
      /\ g.instrs = h.instrs /\ g.block = h.block /\ g.dead = h.dead /\ g.vs = h.vs
      /\ g.nssa = h.nssa /\ g.nlabel = h.nlabel
      BY <1>1, MovesEdges
<1> HIDE DEF g
<1>3. Opened(f, g, is, E \cup D, l)
      BY <1>2 DEF Opened
<1> QED BY <1>2, <1>3 DEF g

\* PhiDsts in the block that was opened.
LEMMA OpenedPhi ==
    ASSUME NEW f, NEW h, NEW is, NEW E, NEW l, Opened(f, h, is, E, l), Plain(h.instrs), NEW p
    PROVE  LET g == PushPhiDst(h, p)
           IN  /\ Opened(f, g, is, E, l) /\ Plain(g.instrs) /\ g.dead = h.dead
               /\ g.nlabel = h.nlabel
BY PushPhiAll DEF Opened, Moves

\* dead_code set or reset in the block that was opened.
LEMMA OpenedDead ==
    ASSUME NEW f, NEW h, NEW is, NEW E, NEW l, Opened(f, h, is, E, l), NEW d
    PROVE  LET g == SetDead(h, d)
           IN  /\ Opened(f, g, is, E, l) /\ g.instrs = h.instrs /\ g.dead = d
               /\ g.nlabel = h.nlabel
BY SetDeadAll DEF Opened, Moves

\* dead_code reset in the block that was opened.
LEMMA OpenedAlive ==
    ASSUME NEW f, NEW h, NEW is, NEW E, NEW l, Opened(f, h, is, E, l)
    PROVE  LET g == Alive(h)
           IN  /\ Opened(f, g, is, E, l) /\ g.instrs = h.instrs /\ g.dead = FALSE
               /\ g.nlabel = h.nlabel
<1> DEFINE d == FALSE
<1>1. Alive(h) = SetDead(h, d)
      BY DEF Alive, SetDead
<1> HIDE DEF d
<1>2. LET g == SetDead(h, d)
      IN  /\ Opened(f, g, is, E, l) /\ g.instrs = h.instrs /\ g.dead = d
          /\ g.nlabel = h.nlabel
      BY OpenedDead
<1> QED BY <1>1, <1>2 DEF d

\* The variable's value restored in the block that was opened.
LEMMA OpenedVs ==
    ASSUME NEW f, NEW h, NEW is, NEW E, NEW l, Opened(f, h, is, E, l), NEW v, Ssa(v)
    PROVE  LET g == SetVs(h, v)
           IN  /\ Opened(f, g, is, E, l) /\ g.instrs = h.instrs /\ g.dead = h.dead
               /\ g.nlabel = h.nlabel
BY SetVsAll DEF Opened, Moves

\* The id of the block that was opened.
LEMMA OpenedNext ==
    ASSUME NEW f, Sequence(f.blocks), NEW h, NEW is, NEW E, NEW l, Opened(f, h, is, E, l)
    PROVE  NextBlockId(h) = OpenBlock(f) + 1 /\ NextBlockId(f) = OpenBlock(f) /\ OpenBlock(f) \in Nat
<1>1. OpenBlock(h) = OpenBlock(f) + 1 /\ OpenBlock(f) \in Nat
      BY MoveAt DEF Opened
<1> QED BY <1>1 DEF NextBlockId, OpenBlock

\* The end of an arm, and the start of what follows.
LEMMA ArmOpens ==
    ASSUME NEW f, Typed(f), NEW fr, NEW l
    PROVE  LET g == StartBlockAt(AddEdge(EndArm(f, fr), fr.cond, fr.start), l)
           IN  \E is : /\ Opened(f, g, is, {<<fr.cond, fr.start>>}, l) /\ g.dead = f.dead
                       /\ Plain(g.instrs) /\ g.nlabel = f.nlabel
                       /\ IsAlive(f) => Jumps(is, {fr.merge})
<1> DEFINE m == PhiMap(fr.phi, f.vs)
           D == {<<fr.cond, fr.start>>}
           q == fr.merge
           a == Push(f, PhiSrcs(m))
           b == Push(a, Bra(q))
           c == FinishBlockNoFallthrough(b)
           d == AddEdges(c, D)
           g == StartBlockAt(d, l)
<1>1. StartBlockAt(AddEdge(EndArm(f, fr), fr.cond, fr.start), l) = g
      BY OneEdge DEF EndArm
<1> HIDE DEF m, D, q
<1>2. Adds(f, a) /\ a.nlabel = f.nlabel /\ (~f.dead => a.instrs = Append(f.instrs, PhiSrcs(m)))
      BY AddsSame, AddsPush DEF Typed
<1> HIDE DEF a
<1>3. Adds(f, b) /\ b.nlabel = f.nlabel /\ (~f.dead => b.instrs = Append(a.instrs, Bra(q)))
      BY <1>2, AddsPush
<1> HIDE DEF b
<1>4. /\ IsTranslator(c) /\ Moves(f, c, b.instrs, {}) /\ c.block = NoBlock /\ c.dead = f.dead
      /\ c.vs = f.vs /\ c.nssa = f.nssa /\ c.nlabel = f.nlabel
      BY <1>3, AddsClose
<1> HIDE DEF c
<1>5. /\ IsTranslator(d) /\ Moves(f, d, b.instrs, {} \cup D) /\ d.block = NoBlock /\ d.dead = f.dead
      /\ d.vs = f.vs /\ d.nssa = f.nssa /\ d.nlabel = f.nlabel
      BY <1>4, MovesEdges
<1>6. Moves(f, d, b.instrs, D)
  <2>1. {} \cup D = D
        OBVIOUS
  <2> QED BY <1>5, <2>1
<1> HIDE DEF d
<1>7. /\ IsTranslator(g) /\ Moves(f, g, b.instrs, D) /\ g.label = l /\ Plain(g.instrs)
      /\ g.block = NoBlock /\ g.dead = f.dead /\ g.vs = f.vs
      /\ g.nssa = f.nssa /\ g.nlabel = f.nlabel
      BY <1>5, <1>6, OpensAt
<1> HIDE DEF g
<1>8. IsAlive(f) => Jumps(b.instrs, {q})
  <2>1. IsAlive(f) => Plain(a.instrs)
        BY <1>2, PlainStart DEF IsAlive
  <2> QED BY <1>3, <2>1, EndCode DEF IsAlive
<1>9. Opened(f, g, b.instrs, D, l)
      BY <1>7 DEF Opened, Typed
<1> QED BY <1>1, <1>7, <1>8, <1>9 DEF D, q

\* The start of the reject arm.
LEMMA ElseOpens ==
    ASSUME NEW f, Typed(f), NEW fr, Ssa(fr.pre)
    PROVE  LET a == AddEdge(EndArm(f, fr), fr.cond, fr.start)
               x == [StartBlockAt(a, fr.merge + 1) EXCEPT !.vs = fr.pre, !.dead = FALSE]
           IN  \E is : /\ Opened(f, x, is, {<<fr.cond, fr.start>>}, fr.merge + 1) /\ Begun(x)
                       /\ x.nlabel = f.nlabel /\ (IsAlive(f) => Jumps(is, {fr.merge}))
<1> DEFINE l == fr.merge + 1
           a == AddEdge(EndArm(f, fr), fr.cond, fr.start)
           g == StartBlockAt(a, l)
           v == fr.pre
           x == SetVsDead(g, v)
           D == {<<fr.cond, fr.start>>}
<1>1. [StartBlockAt(a, fr.merge + 1) EXCEPT !.vs = fr.pre, !.dead = FALSE] = x
      BY DEF SetVsDead
<1> HIDE DEF l, v
<1>2. PICK is : /\ Opened(f, g, is, D, l) /\ g.dead = f.dead
                /\ Plain(g.instrs) /\ g.nlabel = f.nlabel
                /\ IsAlive(f) => Jumps(is, {fr.merge})
      BY ArmOpens
<1> HIDE DEF g, D
<1>3. /\ IsTranslator(x) /\ x.blocks = g.blocks /\ x.edges = g.edges
      /\ x.instrs = g.instrs /\ x.label = g.label /\ x.block = g.block
      /\ x.dead = FALSE /\ x.vs = v /\ x.nssa = g.nssa /\ x.nlabel = g.nlabel
      BY <1>2, SetVsDeadAll DEF Opened
<1>4. Ssa(v)
      BY DEF v
<1> HIDE DEF x
<1>5. Opened(f, x, is, D, l)
      BY <1>2, <1>3, <1>4 DEF Opened, Moves
<1>6. Begun(x) /\ x.nlabel = f.nlabel
      BY <1>2, <1>3 DEF Begun
<1> QED BY <1>1, <1>2, <1>5, <1>6 DEF D, l

\* The merge block, reject arm empty.
LEMMA MergeNoElseOpens ==
    ASSUME NEW f, Typed(f), NEW fr, Ssa(fr.pre)
    PROVE  LET x == MergeNoElse(f, fr)
               n == OpenBlock(f)
           IN  \E is, E : /\ Opened(f, x, is, E, fr.merge) /\ Begun(x) /\ x.nlabel = f.nlabel
                          /\ IsAlive(f) => Jumps(is, {fr.merge})
                          /\ \A e : e \in E <=> \/ e = <<fr.cond, fr.start>>
                                                \/ e = <<fr.cond, n + 1>>
                                                \/ ~f.dead /\ e = <<n, n + 1>>
<1> DEFINE n == OpenBlock(f)
           q == fr.merge
           g == StartBlockAt(AddEdge(EndArm(f, fr), fr.cond, fr.start), q)
           m == NextBlockId(g)
           C == {<<fr.cond, fr.start>>}
           D == {<<fr.cond, m>>}
           A == {<<NextBlockId(f), m>>}
           v == fr.pre
           h == AddEdges(g, D)
           u == SetVs(h, v)
           p == fr.phi
           a == AddEdges(h, A)
           x == MergeNoElse(f, fr)
<1>1. /\ f.dead => x = Alive(u)
      /\ ~f.dead => x = PushPhiDst(a, p)
      BY OneEdge DEF MergeNoElse, SetVs
<1>2. PICK is : /\ Opened(f, g, is, C, q) /\ g.dead = f.dead
                /\ Plain(g.instrs) /\ g.nlabel = f.nlabel
                /\ IsAlive(f) => Jumps(is, {q})
      BY ArmOpens
<1> HIDE DEF g, x
<1>3. m = n + 1 /\ NextBlockId(f) = n
      BY <1>2, OpenedNext DEF Typed
<1> HIDE DEF n, m, C, D, v, p, q
<1>4. /\ Opened(f, h, is, C \cup D, q) /\ Plain(h.instrs) /\ h.dead = f.dead
      /\ h.nlabel = f.nlabel
      BY <1>2, OpenedEdges
<1> HIDE DEF h
<1>5. CASE f.dead
  <2>1. /\ Opened(f, u, is, C \cup D, q) /\ Plain(u.instrs) /\ u.nlabel = f.nlabel
        BY <1>4, OpenedVs DEF v
  <2> HIDE DEF u
  <2>2. Opened(f, x, is, C \cup D, q) /\ Begun(x) /\ x.nlabel = f.nlabel
        BY <1>1, <1>5, <2>1, OpenedAlive DEF Begun
  <2>3. \A e : e \in C \cup D <=> \/ e = <<fr.cond, fr.start>>
                                  \/ e = <<fr.cond, n + 1>>
                                  \/ ~f.dead /\ e = <<n, n + 1>>
        BY <1>3, <1>5 DEF C, D
  <2> QED BY <1>2, <2>2, <2>3 DEF n, x, q
<1>6. CASE ~f.dead
  <2>1. /\ Opened(f, a, is, (C \cup D) \cup A, q) /\ Plain(a.instrs) /\ a.nlabel = f.nlabel
        /\ a.dead = f.dead
    <3> DEFINE K == C \cup D
    <3> HIDE DEF A, K
    <3>1. Opened(f, h, is, K, q)
          BY <1>4 DEF K
    <3>2. Opened(f, a, is, K \cup A, q) /\ a.instrs = h.instrs /\ a.dead = h.dead /\ a.nlabel = h.nlabel
          BY <3>1, OpenedEdges
    <3> QED BY <1>4, <3>2 DEF K
  <2> HIDE DEF a
  <2> DEFINE E == (C \cup D) \cup A
  <2> HIDE DEF E
  <2>2. Opened(f, x, is, E, q) /\ Begun(x) /\ x.nlabel = f.nlabel
    <3>1. /\ Opened(f, x, is, E, q) /\ Plain(x.instrs) /\ x.dead = a.dead /\ x.nlabel = a.nlabel
          BY <1>1, <1>6, <2>1, OpenedPhi DEF E
    <3>2. a.dead = FALSE
          BY <1>6, <2>1 DEF Typed
    <3> QED BY <2>1, <3>1, <3>2 DEF Begun
  <2>3. \A e : e \in E <=> \/ e = <<fr.cond, fr.start>>
                           \/ e = <<fr.cond, n + 1>>
                           \/ ~f.dead /\ e = <<n, n + 1>>
        BY <1>3, <1>6 DEF C, D, A, E
  <2> QED BY <1>2, <2>2, <2>3 DEF n, x, q
<1> QED BY <1>5, <1>6

\* The merge block of two arms.
LEMMA MergeElseOpens ==
    ASSUME NEW f, Typed(f), NEW fr, Ssa(fr.pre), Ssa(fr.acceptVs), fr.acceptDead \in BOOLEAN
    PROVE  LET x == MergeElse(f, fr)
               n == OpenBlock(f)
           IN  \E is, E : /\ Opened(f, x, is, E, fr.merge) /\ Begun(x) /\ x.nlabel = f.nlabel
                          /\ IsAlive(f) => Jumps(is, {fr.merge})
                          /\ \A e : e \in E <=> \/ e = <<fr.cond, fr.start>>
                                                \/ ~fr.acceptDead /\ e = <<fr.acceptEnd, n + 1>>
                                                \/ ~f.dead /\ e = <<n, n + 1>>
<1> DEFINE n == OpenBlock(f)
           q == fr.merge
           g == StartBlockAt(AddEdge(EndArm(f, fr), fr.cond, fr.start), q)
           m == NextBlockId(g)
           ends == (IF fr.acceptDead THEN {} ELSE {fr.acceptEnd})
                   \cup (IF f.dead THEN {} ELSE {NextBlockId(f)})
           C == {<<fr.cond, fr.start>>}
           D == {<<e, m>> : e \in ends}
           v == fr.pre
           w == fr.acceptVs
           a == AddEdges(g, D)
           h == Alive(a)
           p == fr.phi
           x == MergeElse(f, fr)
<1>1. x \in {SetVs(h, v), h, SetVs(h, w), PushPhiDst(h, p)}
  <2>1. h = Alive([g EXCEPT !.edges = @ \cup {<<e, m>> : e \in ends}])
        BY DEF AddEdges
  <2>2. x = CASE fr.acceptDead /\ f.dead -> [h EXCEPT !.vs = fr.pre]
              [] fr.acceptDead /\ ~f.dead -> h
              [] ~fr.acceptDead /\ f.dead -> [h EXCEPT !.vs = fr.acceptVs]
              [] OTHER -> PushPhiDst(h, fr.phi)
        BY <2>1 DEF MergeElse
  <2> HIDE DEF h, x
  <2>3. SetVs(h, v) = [h EXCEPT !.vs = fr.pre] /\ SetVs(h, w) = [h EXCEPT !.vs = fr.acceptVs]
        BY DEF SetVs
  <2> QED BY <2>2, <2>3 DEF Typed
<1>2. PICK is : /\ Opened(f, g, is, C, q) /\ g.dead = f.dead
                /\ Plain(g.instrs) /\ g.nlabel = f.nlabel
                /\ IsAlive(f) => Jumps(is, {q})
      BY ArmOpens
<1> HIDE DEF g, x
<1>3. m = n + 1 /\ NextBlockId(f) = n
      BY <1>2, OpenedNext DEF Typed
<1>e. \A e : e \in C \cup D <=> \/ e = <<fr.cond, fr.start>>
                                \/ ~fr.acceptDead /\ e = <<fr.acceptEnd, n + 1>>
                                \/ ~f.dead /\ e = <<n, n + 1>>
  <2>1. \A e : e \in ends <=> (~fr.acceptDead /\ e = fr.acceptEnd) \/ (~f.dead /\ e = n)
        BY <1>3 DEF Typed
  <2> HIDE DEF ends, n, m
  <2>2. \A e : e \in D <=> \E b : b \in ends /\ e = <<b, n + 1>>
        BY <1>3
  <2> HIDE DEF D
  <2>3. \A e : e \in C <=> e = <<fr.cond, fr.start>>
        OBVIOUS
  <2> QED BY <2>1, <2>2, <2>3
<1> DEFINE K == C \cup D
<1> HIDE DEF n, m, C, D, v, w, p, q
<1>4. /\ Opened(f, a, is, C \cup D, q) /\ Plain(a.instrs) /\ a.nlabel = f.nlabel
      BY <1>2, OpenedEdges
<1> HIDE DEF a, K
<1>5. /\ Opened(f, h, is, K, q) /\ Begun(h) /\ h.nlabel = f.nlabel
      BY <1>4, OpenedAlive DEF Begun, K
<1> HIDE DEF h
<1>6. Opened(f, x, is, K, q) /\ Begun(x) /\ x.nlabel = f.nlabel
  <2>0. Ssa(v) /\ Ssa(w)
        BY DEF v, w
  <2>1. CASE x = SetVs(h, v)
    <3>1. LET y == SetVs(h, v)
          IN  Opened(f, y, is, K, q) /\ y.instrs = h.instrs /\ y.dead = h.dead /\ y.nlabel = h.nlabel
          BY <1>5, <2>0, OpenedVs
    <3>2. Opened(f, x, is, K, q) /\ x.instrs = h.instrs /\ x.dead = h.dead /\ x.nlabel = h.nlabel
          BY <2>1, <3>1
    <3> QED BY <1>5, <3>2 DEF Begun
  <2>2. CASE x = h
        BY <1>5, <2>2
  <2>3. CASE x = SetVs(h, w)
    <3>1. LET y == SetVs(h, w)
          IN  Opened(f, y, is, K, q) /\ y.instrs = h.instrs /\ y.dead = h.dead /\ y.nlabel = h.nlabel
          BY <1>5, <2>0, OpenedVs
    <3>2. Opened(f, x, is, K, q) /\ x.instrs = h.instrs /\ x.dead = h.dead /\ x.nlabel = h.nlabel
          BY <2>3, <3>1
    <3> QED BY <1>5, <3>2 DEF Begun
  <2>4. CASE x = PushPhiDst(h, p)
        BY <1>5, <2>4, OpenedPhi DEF Begun
  <2> QED BY <1>1, <2>1, <2>2, <2>3, <2>4
<1> QED BY <1>2, <1>6, <1>e DEF n, x, q, K

\* translate_loop up to the body.
LEMMA EnterLoopOpens ==
    ASSUME NEW f, Typed(f), NEW fr
    PROVE  LET x == EnterLoop(f, fr)
           IN  \E is : /\ Opened(f, x, is, {<<OpenBlock(f), fr.header>>}, fr.headerLabel)
                       /\ x.dead = f.dead /\ Plain(x.instrs) /\ x.nlabel = f.nlabel + 3
                       /\ IsAlive(f) => Splits(is, {})
<1> DEFINE m == PhiMap(fr.headerPhi, f.vs)
           p == f.nphi + 3
           q == fr.headerLabel
           r == fr.headerPhi
           D == {<<OpenBlock(f), fr.header>>}
           k == SetPhiLabel(f, p, f.nlabel + 3)
           b == Push(k, PhiSrcs(m))
           c == FinishBlockNoFallthrough(b)
           d == StartBlockAt(c, q)
           g == AddEdges(d, D)
           x == PushPhiDst(g, r)
<1>1. EnterLoop(f, fr) = x
  <2>1. k = [f EXCEPT !.nlabel = @ + 3, !.nphi = @ + 3]
        BY DEF SetPhiLabel, Typed, IsTranslator
  <2>2. NextBlockId(f) = OpenBlock(f)
        BY DEF NextBlockId, OpenBlock
  <2>3. g = AddEdge(d, NextBlockId(f), fr.header)
        BY <2>2, OneEdge
  <2> HIDE DEF k
  <2> QED BY <2>1, <2>3 DEF EnterLoop
<1> HIDE DEF m, p, q, r, D
<1>0. Adds(f, k) /\ k.nlabel = f.nlabel + 3 /\ k.instrs = f.instrs
      BY AddsSame DEF Typed
<1> HIDE DEF k
<1>3. Adds(f, b) /\ b.nlabel = f.nlabel + 3 /\ (~f.dead => b.instrs = Append(f.instrs, PhiSrcs(m)))
      BY <1>0, AddsPush
<1> HIDE DEF b
<1>4. /\ IsTranslator(c) /\ Moves(f, c, b.instrs, {}) /\ c.block = NoBlock
      /\ c.vs = f.vs /\ c.nssa = f.nssa /\ c.nlabel = f.nlabel + 3 /\ c.dead = f.dead
      BY <1>3, AddsClose
<1> HIDE DEF c
<1>5. /\ IsTranslator(d) /\ Moves(f, d, b.instrs, {}) /\ d.label = q
      /\ d.block = NoBlock /\ d.dead = f.dead /\ d.vs = f.vs /\ Plain(d.instrs)
      /\ d.nssa = f.nssa /\ d.nlabel = f.nlabel + 3
      BY <1>4, OpensAt
<1> HIDE DEF d
<1>6. Opened(f, d, b.instrs, {}, q)
      BY <1>5 DEF Opened, Typed
<1> DEFINE Z == {}
<1>z. Z \cup D = D /\ Opened(f, d, b.instrs, Z, q)
      BY <1>6
<1> HIDE DEF Z
<1>7. /\ Opened(f, g, b.instrs, Z \cup D, q) /\ g.instrs = d.instrs /\ g.dead = d.dead
      /\ g.nlabel = d.nlabel
      BY <1>z, OpenedEdges
<1>8. /\ Opened(f, g, b.instrs, D, q) /\ Plain(g.instrs) /\ g.dead = f.dead
      /\ g.nlabel = f.nlabel + 3
      BY <1>5, <1>7, <1>z
<1> HIDE DEF g
<1>9. Opened(f, x, b.instrs, D, q) /\ Plain(x.instrs) /\ x.dead = f.dead /\ x.nlabel = f.nlabel + 3
      BY <1>8, OpenedPhi
<1> HIDE DEF x
<1>10. IsAlive(f) => Splits(b.instrs, {})
  <2>1. IsAlive(f) => Plain(b.instrs)
        BY <1>3, PlainStart DEF IsAlive
  <2> QED BY <2>1, EndCode
<1> QED BY <1>1, <1>9, <1>10 DEF D, q

\* The continuing block.
LEMMA ContinuingOpens ==
    ASSUME NEW f, Typed(f), NEW fr
    PROVE  LET x == EnterContinuing(f, fr)
               n == OpenBlock(f)
           IN  \E is, E : /\ Opened(f, x, is, E, fr.contLabel) /\ Begun(x) /\ x.nlabel = f.nlabel
                          /\ IsAlive(f) => Jumps(is, {fr.contLabel})
                          /\ \A e : e \in E <=> ~f.dead /\ e = <<n, n + 1>>
<1> DEFINE n == OpenBlock(f)
           m == PhiMap(fr.contPhi, f.vs)
           q == fr.contLabel
           r == fr.contPhi
           a == Push(f, PhiSrcs(m))
           b == Push(a, Bra(q))
           c == FinishBlockNoFallthrough(b)
           g == StartBlockAt(c, q)
           D == {<<NextBlockId(f), NextBlockId(g)>>}
           h == IF f.dead THEN g ELSE AddEdges(g, D)
           E == IF f.dead THEN {} ELSE D
           u == Alive(h)
           x == PushPhiDst(u, r)
<1>1. EnterContinuing(f, fr) = x
  <2>1. AddEdges(g, D) = AddEdge(g, NextBlockId(f), NextBlockId(g))
        BY OneEdge
  <2>2. h = IF f.dead THEN g ELSE AddEdge(g, NextBlockId(f), NextBlockId(g))
        BY <2>1
  <2> HIDE DEF h
  <2> QED BY <2>2 DEF EnterContinuing
<1> HIDE DEF m, q, r
<1>2. Adds(f, a) /\ a.nlabel = f.nlabel /\ (~f.dead => a.instrs = Append(f.instrs, PhiSrcs(m)))
      BY AddsSame, AddsPush DEF Typed
<1> HIDE DEF a
<1>3. Adds(f, b) /\ b.nlabel = f.nlabel /\ (~f.dead => b.instrs = Append(a.instrs, Bra(q)))
      BY <1>2, AddsPush
<1> HIDE DEF b
<1>4. /\ IsTranslator(c) /\ Moves(f, c, b.instrs, {}) /\ c.block = NoBlock /\ c.dead = f.dead
      /\ c.vs = f.vs /\ c.nssa = f.nssa /\ c.nlabel = f.nlabel
      BY <1>3, AddsClose
<1> HIDE DEF c
<1>5. /\ IsTranslator(g) /\ Moves(f, g, b.instrs, {}) /\ g.label = q
      /\ g.block = NoBlock /\ g.dead = f.dead /\ g.vs = f.vs /\ Plain(g.instrs)
      /\ g.nssa = f.nssa /\ g.nlabel = f.nlabel
      BY <1>4, OpensAt
<1> HIDE DEF g
<1>6. Opened(f, g, b.instrs, {}, q)
      BY <1>5 DEF Opened, Typed
<1>7. NextBlockId(g) = n + 1 /\ NextBlockId(f) = n
      BY <1>6, OpenedNext DEF Typed
<1>8. \A e : e \in E <=> ~f.dead /\ e = <<n, n + 1>>
      BY <1>7
<1>9. /\ Opened(f, h, b.instrs, E, q) /\ Plain(h.instrs) /\ h.nlabel = f.nlabel
  <2>1. CASE f.dead
        BY <1>5, <1>6, <2>1
  <2>2. CASE ~f.dead
    <3> HIDE DEF D
    <3>1. LET y == AddEdges(g, D)
          IN  Opened(f, y, b.instrs, {} \cup D, q) /\ y.instrs = g.instrs /\ y.nlabel = g.nlabel
          BY <1>6, OpenedEdges
    <3>2. {} \cup D = D /\ h = AddEdges(g, D) /\ E = D
          BY <2>2
    <3> HIDE DEF h, E
    <3> QED BY <1>5, <3>1, <3>2
  <2> QED BY <2>1, <2>2
<1> HIDE DEF h, E
<1>10. Opened(f, u, b.instrs, E, q) /\ Begun(u) /\ u.nlabel = f.nlabel
      BY <1>9, OpenedAlive DEF Begun
<1> HIDE DEF u
<1>11. Opened(f, x, b.instrs, E, q) /\ Begun(x) /\ x.nlabel = f.nlabel
      BY <1>10, OpenedPhi DEF Begun
<1> HIDE DEF x
<1>12. IsAlive(f) => Jumps(b.instrs, {q})
  <2>1. IsAlive(f) => Plain(a.instrs)
        BY <1>2, PlainStart DEF IsAlive
  <2> QED BY <1>3, <2>1, EndCode DEF IsAlive
<1> QED BY <1>1, <1>8, <1>11, <1>12 DEF n, q

\* A comparison of a switch, up to the body of its case.
LEMMA EnterCaseOpens ==
    ASSUME NEW f, Typed(f), f.nlabel \in Nat, NEW fr, Ssa(fr.sel)
    PROVE  LET x == EnterCase(f, fr)
           IN  \E is : /\ Opened(f, x, is, {}, f.nlabel + 1) /\ Begun(x) /\ x.nlabel = f.nlabel + 2
                       /\ IsAlive(f) => Splits(is, {f.nlabel})
<1> DEFINE v == fr.sel
           e == BraIfNot(f.nlabel, v)
           k == SetLabel(f, f.nlabel + 1)
           b == Push(k, e)
           c == FinishBlockNoFallthrough(b)
           g == StartBlock(c)
           x == Alive(g)
<1>1. EnterCase(f, fr) = x
      BY DEF EnterCase, SetLabel
<1>s. Ssa(v)
      OBVIOUS
<1> HIDE DEF v
<1>0. Adds(f, k) /\ k.nlabel = f.nlabel + 1 /\ k.instrs = f.instrs
      BY AddsSame DEF Typed
<1> HIDE DEF k
<1>3. Adds(f, b) /\ b.nlabel = f.nlabel + 1 /\ (~f.dead => b.instrs = Append(f.instrs, e))
      BY <1>0, AddsPush
<1> HIDE DEF b
<1>4. /\ IsTranslator(c) /\ Moves(f, c, b.instrs, {}) /\ c.block = NoBlock
      /\ c.vs = f.vs /\ c.nssa = f.nssa /\ c.nlabel = f.nlabel + 1 /\ c.dead = f.dead
      BY <1>3, AddsClose
<1> HIDE DEF c
<1>5. /\ IsTranslator(g) /\ Moves(f, g, b.instrs, {}) /\ g.label = f.nlabel + 1
      /\ g.block = NoBlock /\ g.dead = f.dead /\ g.vs = f.vs /\ Plain(g.instrs)
      /\ g.nssa = f.nssa /\ g.nlabel = (f.nlabel + 1) + 1
      BY <1>4, OpensNew
<1> HIDE DEF g
<1>6. Opened(f, g, b.instrs, {}, f.nlabel + 1)
      BY <1>5 DEF Opened, Typed
<1> DEFINE l == f.nlabel + 1
<1> HIDE DEF l
<1>7. Opened(f, x, b.instrs, {}, l) /\ Begun(x) /\ x.nlabel = g.nlabel
      BY <1>5, <1>6, OpenedAlive DEF Begun, l
<1> HIDE DEF x
<1>8. x.nlabel = f.nlabel + 2
      BY <1>5, <1>7
<1>9. IsAlive(f) => Splits(b.instrs, {f.nlabel})
      BY <1>3, <1>s, EndCode DEF IsAlive
<1> QED BY <1>1, <1>7, <1>8, <1>9 DEF l

\* The end of a case body.
LEMMA LeaveCaseOpens ==
    ASSUME NEW f, Typed(f), NEW fr
    PROVE  LET x == LeaveCase(f, fr)
               n == OpenBlock(f)
           IN  \E is, E : /\ Opened(f, x, is, E, fr.next) /\ Begun(x) /\ x.nlabel = f.nlabel
                          /\ IsAlive(f) => Jumps(is, {fr.merge})
                          /\ \A e : e \in E <=> \/ e = <<fr.check, fr.check + 1>>
                                                \/ e = <<fr.check, n + 1>>
<1> DEFINE n == OpenBlock(f)
           l == fr.merge
           q == fr.next
           C == {<<fr.check, fr.check + 1>>}
           b == Push(f, Bra(l))
           c == FinishBlockNoFallthrough(b)
           g == AddEdges(c, C)
           h == StartBlockAt(g, q)
           D == {<<fr.check, NextBlockId(h)>>}
           a == AddEdges(h, D)
           x == Alive(a)
<1>1. LeaveCase(f, fr) = x
  <2>1. g = AddEdge(c, fr.check, fr.check + 1)
        BY OneEdge
  <2>2. a = AddEdge(h, fr.check, NextBlockId(h))
        BY OneEdge
  <2> HIDE DEF g, a
  <2> QED BY <2>1, <2>2 DEF LeaveCase
<1> HIDE DEF l, q, C
<1>3. Adds(f, b) /\ b.nlabel = f.nlabel /\ (~f.dead => b.instrs = Append(f.instrs, Bra(l)))
      BY AddsSame, AddsPush DEF Typed
<1> HIDE DEF b
<1> DEFINE Z == {}
<1>z. Z \cup C = C
      OBVIOUS
<1>4. /\ IsTranslator(c) /\ Moves(f, c, b.instrs, Z) /\ c.block = NoBlock
      /\ c.vs = f.vs /\ c.nssa = f.nssa /\ c.nlabel = f.nlabel
      BY <1>3, AddsClose
<1> HIDE DEF c, Z
<1>5. /\ IsTranslator(g) /\ Moves(f, g, b.instrs, Z \cup C) /\ g.block = NoBlock
      /\ g.vs = f.vs /\ g.nssa = f.nssa /\ g.nlabel = f.nlabel
      BY <1>4, MovesEdges
<1>6. Moves(f, g, b.instrs, C)
      BY <1>5, <1>z
<1> HIDE DEF g
<1>7. /\ IsTranslator(h) /\ Moves(f, h, b.instrs, C) /\ h.label = q
      /\ h.block = NoBlock /\ h.vs = f.vs /\ Plain(h.instrs)
      /\ h.nssa = f.nssa /\ h.nlabel = f.nlabel
      BY <1>5, <1>6, OpensAt
<1> HIDE DEF h
<1>8. Opened(f, h, b.instrs, C, q)
      BY <1>7 DEF Opened, Typed
<1>9. NextBlockId(h) = n + 1
      BY <1>8, OpenedNext DEF Typed
<1>10. \A e : e \in C \cup D <=> e = <<fr.check, fr.check + 1>> \/ e = <<fr.check, n + 1>>
      BY <1>9 DEF C
<1> HIDE DEF D
<1>11. Opened(f, a, b.instrs, C \cup D, q) /\ Plain(a.instrs) /\ a.nlabel = f.nlabel
      BY <1>7, <1>8, OpenedEdges
<1> DEFINE K == C \cup D
<1> HIDE DEF a, K
<1>12. Opened(f, x, b.instrs, K, q) /\ Begun(x) /\ x.nlabel = f.nlabel
      BY <1>11, OpenedAlive DEF Begun, K
<1> HIDE DEF x
<1>13. IsAlive(f) => Jumps(b.instrs, {l})
      BY <1>3, EndCode DEF IsAlive
<1> QED BY <1>1, <1>10, <1>12, <1>13 DEF n, l, q, K

\* The merge block of a switch.
LEMMA LeaveSwitchOpens ==
    ASSUME NEW f, Typed(f), NEW fr
    PROVE  LET x == LeaveSwitch(f, fr)
               n == OpenBlock(f)
           IN  \E is, E : /\ Opened(f, x, is, E, fr.merge) /\ Begun(x) /\ x.nlabel = f.nlabel
                          /\ IsAlive(f) => Jumps(is, {fr.merge})
                          /\ \A e : e \in E <=> \E d : (d \in fr.ends \/ d = n) /\ e = <<d, n + 1>>
<1> DEFINE n == OpenBlock(f)
           l == fr.merge
           b == Push(f, Bra(l))
           c == FinishBlockNoFallthrough(b)
           g == StartBlockAt(c, l)
           D == {<<e, NextBlockId(g)>> : e \in fr.ends \cup {NextBlockId(f)}}
           a == AddEdges(g, D)
           x == Alive(a)
<1>1. LeaveSwitch(f, fr) = x
      BY DEF LeaveSwitch, AddEdges
<1> HIDE DEF l
<1>3. Adds(f, b) /\ b.nlabel = f.nlabel /\ (~f.dead => b.instrs = Append(f.instrs, Bra(l)))
      BY AddsSame, AddsPush DEF Typed
<1> HIDE DEF b
<1> DEFINE Z == {}
<1>4. /\ IsTranslator(c) /\ Moves(f, c, b.instrs, Z) /\ c.block = NoBlock
      /\ c.vs = f.vs /\ c.nssa = f.nssa /\ c.nlabel = f.nlabel
      BY <1>3, AddsClose
<1> HIDE DEF c
<1>z. Z \cup D = D
      OBVIOUS
<1> HIDE DEF Z
<1>7. /\ IsTranslator(g) /\ Moves(f, g, b.instrs, Z) /\ g.label = l
      /\ g.block = NoBlock /\ g.vs = f.vs /\ Plain(g.instrs)
      /\ g.nssa = f.nssa /\ g.nlabel = f.nlabel
      BY <1>4, OpensAt
<1> HIDE DEF g
<1>8. Opened(f, g, b.instrs, Z, l)
      BY <1>7 DEF Opened, Typed
<1>9. NextBlockId(g) = n + 1 /\ NextBlockId(f) = n
      BY <1>8, OpenedNext DEF Typed
<1>10. \A e : e \in D <=> \E d : (d \in fr.ends \/ d = n) /\ e = <<d, n + 1>>
      BY <1>9
<1> HIDE DEF D
<1>11. Opened(f, a, b.instrs, Z \cup D, l) /\ Plain(a.instrs) /\ a.nlabel = f.nlabel
      BY <1>7, <1>8, OpenedEdges
<1> HIDE DEF a
<1>12. Opened(f, x, b.instrs, D, l) /\ Begun(x) /\ x.nlabel = f.nlabel
      BY <1>11, <1>z, OpenedAlive DEF Begun
<1> HIDE DEF x
<1>13. IsAlive(f) => Jumps(b.instrs, {l})
      BY <1>3, EndCode DEF IsAlive
<1> QED BY <1>1, <1>10, <1>12, <1>13 DEF n, l

\* The back edge of a loop.
LEMMA BackEdgeMoves ==
    ASSUME NEW f, Typed(f), NEW fr, NEW breakIf
    PROVE  LET g == BackEdge(f, fr, breakIf)
           IN  \E is : /\ IsTranslator(g) /\ Moves(f, g, is, {<<OpenBlock(f), fr.header>>})
                       /\ g.block = NoBlock /\ g.dead = f.dead /\ g.vs = f.vs
                       /\ g.nssa = f.nssa /\ g.nlabel = f.nlabel
                       /\ IsAlive(f) /\ breakIf => Jumps(is, {fr.exitLabel, fr.headerLabel})
                       /\ IsAlive(f) /\ ~breakIf => Jumps(is, {fr.headerLabel})
<1> DEFINE m == IF breakIf THEN [p \in {fr.exitPhi, fr.headerPhi} |-> f.vs]
                ELSE PhiMap(fr.headerPhi, f.vs)
           v == f.vs
           l == fr.exitLabel
           q == fr.headerLabel
           D == {<<OpenBlock(f), fr.header>>}
           a == Push(f, PhiSrcs(m))
           h == IF breakIf THEN Push(a, BraIf(l, v)) ELSE a
           b == Push(h, Bra(q))
           c == FinishBlockNoFallthrough(b)
           g == AddEdges(c, D)
<1>1. BackEdge(f, fr, breakIf) = g
  <2>1. NextBlockId(f) = OpenBlock(f)
        BY DEF NextBlockId, OpenBlock
  <2>2. g = AddEdge(c, NextBlockId(f), fr.header)
        BY <2>1, OneEdge
  <2> HIDE DEF g
  <2> QED BY <2>2 DEF BackEdge
<1> HIDE DEF m, l, q, D, v
<1>2. Adds(f, a) /\ a.nlabel = f.nlabel /\ (~f.dead => a.instrs = Append(f.instrs, PhiSrcs(m)))
      BY AddsSame, AddsPush DEF Typed
<1> HIDE DEF a
<1>3. /\ Adds(f, h) /\ h.nlabel = f.nlabel
      /\ breakIf => (~f.dead => h.instrs = Append(a.instrs, BraIf(l, v)))
      /\ ~breakIf => h.instrs = a.instrs
  <2>1. CASE breakIf
        BY <1>2, <2>1, AddsPush
  <2>2. CASE ~breakIf
        BY <1>2, <2>2
  <2> QED BY <2>1, <2>2
<1> HIDE DEF h
<1>4. Adds(f, b) /\ b.nlabel = f.nlabel /\ (~f.dead => b.instrs = Append(h.instrs, Bra(q)))
      BY <1>3, AddsPush
<1> HIDE DEF b
<1> DEFINE Z == {}
<1>z. Z \cup D = D
      OBVIOUS
<1>5. /\ IsTranslator(c) /\ Moves(f, c, b.instrs, Z) /\ c.block = NoBlock /\ c.dead = f.dead
      /\ c.vs = f.vs /\ c.nssa = f.nssa /\ c.nlabel = f.nlabel
      BY <1>4, AddsClose
<1> HIDE DEF c, Z
<1>6. /\ IsTranslator(g) /\ Moves(f, g, b.instrs, Z \cup D) /\ g.block = NoBlock /\ g.dead = f.dead
      /\ g.vs = f.vs /\ g.nssa = f.nssa /\ g.nlabel = f.nlabel
      BY <1>5, MovesEdges
<1>7. Moves(f, g, b.instrs, D)
      BY <1>6, <1>z
<1> HIDE DEF g
<1>8. IsAlive(f) => Plain(a.instrs)
      BY <1>2, PlainStart DEF IsAlive
<1>9. ASSUME IsAlive(f), breakIf PROVE Jumps(b.instrs, {l, q})
  <2> DEFINE A == a.instrs
  <2>1. h.instrs = Append(A, BraIf(l, v)) /\ b.instrs = Append(h.instrs, Bra(q)) /\ Plain(A)
        BY <1>3, <1>4, <1>8, <1>9 DEF IsAlive
  <2>2. b.instrs = Append(Append(A, BraIf(l, v)), Bra(q))
        BY <2>1
  <2> HIDE DEF A
  <2>3. Jumps(Append(Append(A, BraIf(l, v)), Bra(q)), {l, q})
        BY <2>1, EndCode
  <2> QED BY <2>2, <2>3
<1>10. IsAlive(f) /\ ~breakIf => Jumps(b.instrs, {q})
      BY <1>3, <1>4, <1>8, EndCode DEF IsAlive
<1> QED BY <1>1, <1>6, <1>7, <1>9, <1>10 DEF D, l, q

\* The edges that are added at the exit of a loop: the back edge, those to
\* the exit and those to the continuing block.
LoopEdge(fr, n, r, breakIf, e) ==
    \/ r /\ e = <<n, fr.header>>
    \/ r /\ breakIf /\ e = <<n, n + 1>>
    \/ \E b \in fr.breaks : e = <<b, n + 1>>
    \/ \E c \in fr.continues : e = <<c, fr.cont>>

\* The exit of a loop.
LEMMA LeaveLoopOpens ==
    ASSUME NEW f, Typed(f), ~f.dead, NEW fr, NEW breakIf \in BOOLEAN,
           NEW r \in BOOLEAN, r <=> (~fr.bodyDead \/ fr.continues # {})
    PROVE  LET x == LeaveLoop(f, fr, breakIf)
               n == OpenBlock(f)
           IN  \E is, E : /\ Opened(f, x, is, E, fr.exitLabel) /\ Begun(x) /\ x.nlabel = f.nlabel
                          /\ IsAlive(f) /\ r /\ breakIf => Jumps(is, {fr.exitLabel, fr.headerLabel})
                          /\ IsAlive(f) /\ r /\ ~breakIf => Jumps(is, {fr.headerLabel})
                          /\ \A e : e \in E <=> LoopEdge(fr, n, r, breakIf, e)
<1> DEFINE n == OpenBlock(f)
           l == fr.exitLabel
           p == fr.exitPhi
           g == IF r THEN BackEdge(f, fr, breakIf) ELSE FinishBlockNoFallthrough(f)
           B == IF r THEN {<<n, fr.header>>} ELSE {}
           s == StartBlockAt(g, l)
           h == PushPhiDst(s, p)
           leaving == fr.breaks \cup (IF breakIf /\ r THEN {NextBlockId(f)} ELSE {})
           D == {<<b, NextBlockId(g)>> : b \in leaving} \cup {<<c, fr.cont>> : c \in fr.continues}
           x == AddEdges(h, D)
<1>1. LeaveLoop(f, fr, breakIf) = x
  <2> DEFINE A == {<<b, NextBlockId(g)>> : b \in leaving}
             C == {<<c, fr.cont>> : c \in fr.continues}
  <2>0. LeaveLoop(f, fr, breakIf) = [h EXCEPT !.edges = (@ \cup A) \cup C]
        BY DEF LeaveLoop
  <2>1. x = [h EXCEPT !.edges = @ \cup (A \cup C)]
        BY DEF AddEdges
  <2> HIDE DEF A, C, h, x
  <2>2. (h.edges \cup A) \cup C = h.edges \cup (A \cup C)
        OBVIOUS
  <2> QED BY <2>0, <2>1, <2>2
<1>2. PICK is : /\ IsTranslator(g) /\ Moves(f, g, is, B)
                /\ g.block = NoBlock /\ g.dead = f.dead /\ g.vs = f.vs
                /\ g.nssa = f.nssa /\ g.nlabel = f.nlabel
                /\ IsAlive(f) /\ r /\ breakIf => Jumps(is, {fr.exitLabel, fr.headerLabel})
                /\ IsAlive(f) /\ r /\ ~breakIf => Jumps(is, {fr.headerLabel})
  <2>1. CASE r
    <3>1. g = BackEdge(f, fr, breakIf) /\ B = {<<n, fr.header>>}
          BY <2>1
    <3> HIDE DEF g, B
    <3> QED BY <2>1, <3>1, BackEdgeMoves
  <2>2. CASE ~r
    <3>1. g = FinishBlockNoFallthrough(f) /\ B = {}
          BY <2>2
    <3>2. Adds(f, f)
          BY AddsSame DEF Typed
    <3> HIDE DEF g, B
    <3>3. /\ IsTranslator(g) /\ Moves(f, g, f.instrs, {})
          /\ g.block = NoBlock /\ g.dead = f.dead /\ g.vs = f.vs
          /\ g.nssa = f.nssa /\ g.nlabel = f.nlabel
          BY <3>1, <3>2, AddsClose
    <3> QED BY <2>2, <3>1, <3>3
  <2> QED BY <2>1, <2>2
<1> HIDE DEF g, l, p
<1>3. /\ IsTranslator(s) /\ Moves(f, s, is, B) /\ s.label = l
      /\ s.block = NoBlock /\ s.dead = f.dead /\ s.vs = f.vs /\ Plain(s.instrs)
      /\ s.nssa = f.nssa /\ s.nlabel = f.nlabel
  <2> HIDE DEF B
  <2> QED BY <1>2, OpensAt
<1>4. NextBlockId(g) = n + 1 /\ NextBlockId(f) = n
  <2>1. OpenBlock(g) = n + 1
        BY <1>2, MoveAt DEF Typed
  <2> QED BY <2>1 DEF NextBlockId, OpenBlock
<1>5. \A e : e \in B \cup D <=> LoopEdge(fr, n, r, breakIf, e)
  <2>1. \A e : e \in B <=> r /\ e = <<n, fr.header>>
        OBVIOUS
  <2>2. \A b : b \in leaving <=> b \in fr.breaks \/ (r /\ breakIf /\ b = n)
        BY <1>4
  <2> HIDE DEF B, leaving, n
  <2>3. \A e : e \in D <=> (\E b \in leaving : e = <<b, n + 1>>) \/ (\E c \in fr.continues : e = <<c, fr.cont>>)
        BY <1>4
  <2> HIDE DEF D
  <2> QED BY <2>1, <2>2, <2>3 DEF LoopEdge
<1> HIDE DEF s, B, n, D
<1>6. Opened(f, s, is, B, l)
      BY <1>3 DEF Opened, Typed
<1>7. Opened(f, h, is, B, l) /\ Plain(h.instrs) /\ h.dead = f.dead /\ h.nlabel = f.nlabel
      BY <1>3, <1>6, OpenedPhi
<1> HIDE DEF h
<1>8. Opened(f, x, is, B \cup D, l) /\ x.instrs = h.instrs /\ x.dead = h.dead /\ x.nlabel = h.nlabel
      BY <1>7, OpenedEdges
<1> HIDE DEF x
<1>9. Begun(x) /\ x.nlabel = f.nlabel
      BY <1>7, <1>8 DEF Begun, Typed
<1> DEFINE K == B \cup D
<1> HIDE DEF K
<1>10. Opened(f, x, is, K, l) /\ \A e : e \in K <=> LoopEdge(fr, n, r, breakIf, e)
      BY <1>5, <1>8 DEF K
<1> QED BY <1>1, <1>2, <1>9, <1>10 DEF n, l

\* inline_call, once the callee is translated: a dead end is closed, and
\* the next block is what the callee's code goes on into.
LEMMA LeaveCallMoves ==
    ASSUME NEW f, Typed(f), f.nlabel \in Nat, NEW fr
    PROVE  LET x == LeaveCall(f, fr)
           IN  /\ IsTranslator(x) /\ Ssa(x.vs) /\ Ssa(x.nssa) /\ x.dead = FALSE
               /\ f.dead => /\ Moves(f, x, f.instrs, {}) /\ x.label = f.nlabel
                            /\ x.nlabel = f.nlabel + 1 /\ x.block = OpenBlock(f)
                            /\ Plain(x.instrs)
               /\ ~f.dead => Stays(f, x) /\ (Plain(f.instrs) => Plain(x.instrs))
<1> DEFINE v == fr.saved
           g == [f EXCEPT !.dead = FALSE, !.inlineReturn = v]
           c == FinishBlock(g)
           h == IF f.dead THEN StartBlock(c) ELSE g
           i == Read(f.inlineReturn)
           x == LeaveCall(f, fr)
<1>2. x = IF f.inlineReturn = NoSSA THEN h ELSE Push(h, i)
      BY DEF LeaveCall
<1> HIDE DEF x
<1>3. /\ IsTranslator(g) /\ g.blocks = f.blocks /\ g.edges = f.edges
      /\ g.instrs = f.instrs /\ g.label = f.label /\ g.block = f.block /\ g.dead = FALSE
      /\ g.vs = f.vs /\ g.nssa = f.nssa /\ g.nlabel = f.nlabel
  <2>1. g = [f EXCEPT !.dead = FALSE, !.inlineReturn = v]
        OBVIOUS
  <2> HIDE DEF g, v
  <2>2. g = [blocks |-> f.blocks, edges |-> f.edges, instrs |-> f.instrs, label |-> f.label,
             block |-> f.block, dead |-> FALSE, vs |-> f.vs, inlineReturn |-> v,
             nssa |-> f.nssa, nphi |-> f.nphi, nlabel |-> f.nlabel]
        BY <2>1 DEF Typed, IsTranslator
  <2> QED BY <2>2 DEF IsTranslator
<1> HIDE DEF g
<1>4. x = h \/ x = Push(h, i)
      BY <1>2
<1>5. CASE f.dead
  <2> DEFINE z == NextBlockId(g)
  <2>1. c = Close(g, z)
        BY DEF FinishBlock
  <2>2. z = OpenBlock(f)
        BY <1>3 DEF NextBlockId, OpenBlock
  <2> HIDE DEF z, c
  <2>3. /\ IsTranslator(c) /\ c.blocks = Append(g.blocks, Block(g.label, g.instrs))
        /\ c.edges = g.edges \cup Entering(g) /\ c.block = z /\ c.dead = g.dead
        /\ c.vs = g.vs /\ c.nssa = g.nssa /\ c.nlabel = g.nlabel
        BY <1>3, <2>1, CloseAll
  <2>4. Entering(g) = Entering(f)
        BY <1>3 DEF Entering
  <2>5. Moves(f, c, f.instrs, {})
        BY <1>3, <2>3, <2>4 DEF Moves
  <2>6. h = StartBlock(c)
        BY <1>5
  <2> HIDE DEF h
  <2> DEFINE is == f.instrs
             Z == {}
  <2>a. Moves(f, c, is, Z) /\ IsTranslator(c) /\ c.block = z /\ c.dead = FALSE /\ c.vs = f.vs
        /\ c.nssa = f.nssa /\ c.nlabel = f.nlabel
        BY <1>3, <2>3, <2>5
  <2> HIDE DEF is, Z
  <2>b. /\ IsTranslator(h) /\ Moves(f, h, is, Z) /\ h.label = c.nlabel
        /\ Plain(h.instrs) /\ h.block = c.block /\ h.dead = c.dead /\ h.vs = c.vs
        /\ h.nssa = c.nssa /\ h.nlabel = c.nlabel + 1
        BY <2>6, <2>a, OpensNew
  <2>7. /\ IsTranslator(h) /\ Moves(f, h, f.instrs, {}) /\ h.label = f.nlabel
        /\ Plain(h.instrs) /\ h.block = z /\ h.dead = FALSE /\ h.vs = f.vs
        /\ h.nssa = f.nssa /\ h.nlabel = f.nlabel + 1
        BY <2>a, <2>b DEF is, Z
  <2>8. LET y == Push(h, i)
        IN  /\ IsTranslator(y) /\ y.blocks = h.blocks /\ y.edges = h.edges
            /\ y.label = h.label /\ y.block = h.block /\ y.dead = h.dead /\ y.vs = h.vs
            /\ y.nssa = h.nssa /\ y.nlabel = h.nlabel
            /\ ~h.dead => y.instrs = Append(h.instrs, i)
        BY <2>7, PushAll
  <2>9. ~h.dead /\ Plain(Append(h.instrs, i))
    <3>1. ~h.dead
          BY <2>7
    <3>2. Plain(Append(h.instrs, Read(f.inlineReturn)))
          BY <2>7, PlainStart
    <3> QED BY <3>1, <3>2
  <2>10. /\ IsTranslator(x) /\ x.blocks = h.blocks /\ x.edges = h.edges
         /\ x.label = h.label /\ x.block = h.block /\ x.dead = h.dead /\ x.vs = h.vs
         /\ x.nssa = h.nssa /\ x.nlabel = h.nlabel /\ Plain(x.instrs)
    <3>1. CASE x = h
          BY <2>7, <3>1
    <3>2. CASE x = Push(h, i)
          BY <2>8, <2>9, <3>2
    <3> QED BY <1>4, <3>1, <3>2
  <2>11. Moves(f, x, f.instrs, {})
        BY <2>7, <2>10 DEF Moves
  <2> QED BY <1>5, <2>2, <2>7, <2>10, <2>11 DEF Typed, x
<1>6. CASE ~f.dead
  <2>1. h = g
        BY <1>6
  <2> HIDE DEF h
  <2>2. /\ IsTranslator(x) /\ x.blocks = g.blocks /\ x.edges = g.edges
        /\ x.label = g.label /\ x.block = g.block /\ x.dead = g.dead /\ x.vs = g.vs
        /\ x.nssa = g.nssa /\ x.nlabel = g.nlabel
        /\ x.instrs = g.instrs \/ x.instrs = Append(g.instrs, i)
    <3>1. CASE x = h
          BY <1>3, <2>1, <3>1
    <3>2. CASE x = Push(h, i)
          BY <1>3, <2>1, <3>2, PushAll
    <3> QED BY <1>4, <3>1, <3>2
  <2>3. Plain(f.instrs) => Plain(x.instrs)
        BY <1>3, <2>2, PlainStart
  <2>4. Stays(f, x)
        BY <1>3, <2>2 DEF Stays
  <2> QED BY <1>3, <1>6, <2>2, <2>3, <2>4 DEF Typed, x
<1> QED BY <1>5, <1>6 DEF Typed

----------------------------------------------------------------------------
(* Moves of the innermost frame                                            *)

\* A label that may be branched to: one that is to come, or the header of a
\* loop, which is reachable where its end is.
Target(f, o, l) == \/ Named(o, l)
                   \/ l \in Nat /\ f.nlabel <= l
                   \/ o.k = "loop" /\ l = o.headerLabel
\* A block that nothing leads to has none of these labels.
LEMMA TargetsAvoid ==
    ASSUME NEW f, NEW s, Len(s) \in Nat, NEW U, Graph(f, s, U), NEW k \in 1 .. Len(s), NEW is,
           OpenBlock(f) \in U \/ \A l \in Exits(is) : Target(f, s[k], l)
    PROVE  Avoids(f, is, U)
<1> DEFINE o == s[k]
<1>1. LabelsOK(f) /\ NamesOK(f, s) /\ ShutOK(f, U) /\ SealOK(f, s, U) /\ HeadOK(s, U)
      BY DEF Graph
<1>2. /\ \A l : Named(o, l) => \A b \in Known(f) : Lab(f, b) # l
      /\ \A b, l : Placed(o, b, l) => b \in Known(f) /\ Lab(f, b) = l
      BY <1>1 DEF NamesOK
<1>3. U \subseteq Known(f)
      BY <1>1 DEF ShutOK
<1>4. f.nlabel \in Nat /\ \A b \in Known(f) : Lab(f, b) \in Nat /\ Lab(f, b) < f.nlabel
      BY <1>1 DEF LabelsOK
<1>5. ASSUME NEW l \in Exits(is), NEW c \in U, Lab(f, c) = l, OpenBlock(f) \notin U PROVE FALSE
  <2>0. c \in Known(f) /\ Target(f, o, l)
        BY <1>3, <1>5
  <2>1. CASE Named(o, l)
        BY <1>2, <1>5, <2>0, <2>1
  <2>2. CASE l \in Nat /\ f.nlabel <= l
    <3>1. Lab(f, c) \in Nat /\ Lab(f, c) < f.nlabel
          BY <1>4, <2>0
    <3> QED BY <1>4, <1>5, <2>2, <3>1
  <2>3. CASE o.k = "loop" /\ l = o.headerLabel
    <3>1. Placed(o, o.header, o.headerLabel)
          BY <2>3 DEF Placed
    <3>2. o.header \in Known(f) /\ Lab(f, o.header) = l
          BY <1>2, <2>3, <3>1
    <3>3. c = o.header
          BY <1>1, <1>5, <2>0, <3>2 DEF LabelsOK
    <3>4. \E m \in 1 .. Len(s) : m < k /\ Sealed(s[m])
          BY <1>1, <1>5, <2>3, <3>3 DEF HeadOK
    <3> QED BY <1>1, <1>5, <3>4 DEF SealOK
  <2> QED BY <2>0, <2>1, <2>2, <2>3 DEF Target
<1> QED BY <1>5 DEF Avoids

\* What the step of an innermost frame o, which becomes w, has to do.  D says
\* that nothing leads to the block that is opened.
StepOK(f, g, is, E, o, w, U, D) ==
    /\ Relabels(f, g, o, w) /\ Borrows(f, is, o, w, U) /\ AllDue(f, g, is, o, E, U)
    /\ Pays(f, g, o, w, E, U) /\ PaysNew(f, g, is, o, w, E, U)
    /\ OpenBlock(f) \in U \/ \A l \in Exits(is) : Target(f, o, l)
    /\ D => Seals(f, g, is, o, U)
    /\ Sealed(w) => D
    /\ w.k = "loop" => \/ o.k = "loop" /\ w.header = o.header
                       \/ w.header = OpenBlock(f) + 1 /\ ~D
    /\ g.block \in {NoBlock, OpenBlock(f)}
    /\ g.block # NoBlock => g.block \in U \/ RunsOn(is)
    /\ D \/ Plain(g.instrs)

\* Then the graph stays right; the new block joins U if D, or if the code
\* stands in a continuing block that nothing leads to.
LEMMA FrameMove ==
    ASSUME NEW f, Sequence(f.blocks), NEW g, NEW is, NEW E, Moves(f, g, is, E),
           NEW s, Len(s) \in Nat, NEW t, NEW k, NEW w, Replaces(s, t, k, w), NEW U, Graph(f, s, U),
           NEW D \in BOOLEAN, StepOK(f, g, is, E, s[k], w, U, D),
           k = Len(s) \/ (D /\ ~Sealed(s[k]) /\ ~Sealed(w))
    PROVE  \E V : Graph(g, t, V) /\ (D => OpenBlock(g) \in V)
<1> DEFINE o == s[k]
           n == OpenBlock(f)
           S == \E j \in 1 .. Len(s) : j # k /\ Sealed(s[j])
           V == IF D \/ S THEN U \cup {n + 1} ELSE U
<1>0. n \in Nat /\ OpenBlock(g) = n + 1
      BY MoveAt
<1>k. k \in 1 .. Len(s) /\ Len(t) = Len(s) /\ t[k] = w /\ \A j \in 1 .. Len(s) : j # k => t[j] = s[j]
      BY DEF Replaces
<1>1. U \subseteq V /\ V \subseteq U \cup {n + 1}
      OBVIOUS
<1>2. ShutOK(f, U) /\ SealOK(f, s, U)
      BY DEF Graph
<1>3. n + 1 \notin U
  <2>1. Known(f) = 1 .. n
        BY MoveAt
  <2> QED BY <1>0, <1>2, <2>1 DEF ShutOK
<1>4. n + 1 \in V <=> D \/ S
      BY <1>3
<1> HIDE DEF V, n
<1>5. S /\ ~D => Seals(f, g, is, o, U)
  <2> SUFFICES ASSUME NEW j \in 1 .. Len(s), j # k, Sealed(s[j]), ~D PROVE Seals(f, g, is, o, U)
      OBVIOUS
  <2>1. j < k
        BY <1>k
  <2>2. OpenBlock(f) \in U /\ \A b, l : Owes(o, b, l) => b \in U
        BY <1>2, <1>k, <2>1 DEF SealOK
  <2> QED BY <2>2 DEF Seals
<1>6. n + 1 \in V => Seals(f, g, is, o, U)
      BY <1>4, <1>5 DEF StepOK
<1>7. \A j \in 1 .. Len(t) : Sealed(t[j]) => n + 1 \in V
  <2> SUFFICES ASSUME NEW j \in 1 .. Len(t), Sealed(t[j]) PROVE D \/ S
      BY <1>4
  <2>1. CASE j = k
        BY <1>k, <2>1 DEF StepOK
  <2>2. CASE j # k
        BY <1>k, <2>2
  <2> QED BY <2>1, <2>2
<1>8. ASSUME w.k = "loop"
      PROVE  \/ o.k = "loop" /\ w.header = o.header
             \/ /\ w.header = n + 1
                /\ w.header \in V => \E j \in 1 .. Len(t) : j < k /\ Sealed(t[j])
  <2>1. CASE o.k = "loop" /\ w.header = o.header
        BY <2>1
  <2>2. CASE w.header = n + 1 /\ ~D
    <3>1. k = Len(s)
          BY <2>2
    <3>2. n + 1 \in V => \E j \in 1 .. Len(t) : j < k /\ Sealed(t[j])
      <4> SUFFICES ASSUME n + 1 \in V PROVE \E j \in 1 .. Len(t) : j < k /\ Sealed(t[j])
          OBVIOUS
      <4>1. PICK j \in 1 .. Len(s) : j # k /\ Sealed(s[j])
            BY <1>4, <2>2
      <4>2. j \in 1 .. Len(t) /\ j < k /\ Sealed(t[j])
            BY <1>k, <3>1, <4>1
      <4> QED BY <4>2
    <3> QED BY <2>2, <3>2
  <2> QED BY <1>8, <2>1, <2>2 DEF StepOK, n
<1>9. Inside(f, s, t, k, w, V)
  <2> HIDE DEF S
  <2> QED BY <1>7, <1>8 DEF Inside, n
<1>10. OpensAs(f, g, is, U, V)
      BY <1>4 DEF OpensAs, StepOK, n
<1>11. Avoids(f, is, U)
      BY <1>k, TargetsAvoid DEF StepOK
<1>12. MoveOK(f, g, is, E, s, t, k, w, U, V)
      BY <1>6, <1>9, <1>10, <1>11 DEF MoveOK, StepOK, n
<1>13. Graph(g, t, V)
      BY <1>1, <1>12, MoveGraph DEF n
<1> QED BY <1>0, <1>4, <1>13

----------------------------------------------------------------------------
(* The stack after a move                                                  *)

\* Conditions and selectors read SSA values.
FrameSsa(fr) ==
    /\ fr.k = "if" => Ssa(fr.pre) /\ (fr.stage = "reject" => Ssa(fr.acceptVs) /\ fr.acceptDead \in BOOLEAN)
    /\ fr.k = "switch" => Ssa(fr.sel)
SsaOK(f, s) == Ssa(f.vs) /\ Ssa(f.nssa) /\ \A n \in 1 .. Len(s) : FrameSsa(s[n])

\* The inductive invariant of a translator and its frames.
Good(f, s) == SsaOK(f, s) /\ \E U : Graph(f, s, U) /\ DeadOK(f, s, U)

\* A frame that owes nothing.
Idle == [k |-> "call"]

\* The stack with a frame pushed, popped or replaced.
LEMMA StackFacts ==
    ASSUME NEW s, Sequence(s)
    PROVE  /\ Len(s) \in Nat
           /\ \A w, i : i.k = "call" => /\ Deeper(s, Append(s, i))
                                        /\ Replaces(Append(s, i), Append(s, w), Len(s) + 1, w)
           /\ \A w : \A k \in 1 .. Len(s) : Replaces(s, Changed(s, k, w), k, w)
           /\ Len(s) > 0 => /\ Len(SubSeq(s, 1, Len(s) - 1)) = Len(s) - 1
                            /\ \A j \in 1 .. Len(s) - 1 : SubSeq(s, 1, Len(s) - 1)[j] = s[j]
<1>1. Len(s) \in Nat /\ DOMAIN s = 1 .. Len(s)
      BY AppendSequence
<1>2. ASSUME NEW w PROVE /\ Len(Append(s, w)) = Len(s) + 1 /\ Append(s, w)[Len(s) + 1] = w
                         /\ \A k \in 1 .. Len(s) : Append(s, w)[k] = s[k]
      BY AppendSequence
<1>3. ASSUME NEW w, NEW i, i.k = "call"
      PROVE Deeper(s, Append(s, i)) /\ Replaces(Append(s, i), Append(s, w), Len(s) + 1, w)
  <2> DEFINE a == Append(s, i)
             t == Append(s, w)
  <2>1. /\ Len(a) = Len(s) + 1 /\ a[Len(s) + 1] = i /\ \A k \in 1 .. Len(s) : a[k] = s[k]
        /\ Len(t) = Len(s) + 1 /\ t[Len(s) + 1] = w /\ \A k \in 1 .. Len(s) : t[k] = s[k]
        BY <1>2
  <2> HIDE DEF a, t
  <2>2. Deeper(s, a)
        BY <1>1, <1>3, <2>1 DEF Deeper
  <2>3. Replaces(a, t, Len(s) + 1, w)
    <3>1. \A j \in 1 .. Len(s) + 1 : j # Len(s) + 1 => j \in 1 .. Len(s)
          BY <1>1
    <3>2. Len(s) + 1 \in 1 .. Len(s) + 1
          BY <1>1
    <3> QED BY <2>1, <3>1, <3>2 DEF Replaces
  <2> QED BY <2>2, <2>3 DEF a, t
<1>4. ASSUME NEW w, NEW k \in 1 .. Len(s) PROVE Replaces(s, Changed(s, k, w), k, w)
  <2> DEFINE t == Changed(s, k, w)
  <2>1. /\ t = [j \in 1 .. Len(s) |-> t[j]] /\ t[k] = w
        /\ \A j \in 1 .. Len(s) : j # k => t[j] = s[j]
        BY <1>1 DEF Changed, Sequence
  <2> HIDE DEF t
  <2>2. Len(t) = Len(s)
        BY <1>1, <2>1, FunctionSequence
  <2> QED BY <2>1, <2>2 DEF Replaces, t
<1>5. ASSUME Len(s) > 0
      PROVE  /\ Len(SubSeq(s, 1, Len(s) - 1)) = Len(s) - 1
             /\ \A j \in 1 .. Len(s) - 1 : SubSeq(s, 1, Len(s) - 1)[j] = s[j]
  <2> DEFINE n == Len(s) - 1
             R == {s[k] : k \in DOMAIN s}
             t == SubSeq(s, 1, n)
  <2>1. s \in Seq(R)
        BY DEF Sequence
  <2> HIDE DEF R
  <2>2. n \in Nat /\ \A i \in 1 .. n : s[i] \in R
        BY <1>1, <1>5, <2>1
  <2> HIDE DEF n
  <2>3. Len(t) = IF 1 <= n THEN n - 1 + 1 ELSE 0
        BY <2>2, SubSeqProperties
  <2>4. \A i \in 1 .. n - 1 + 1 : t[i] = s[1 + i - 1]
        BY <2>2, SubSeqProperties
  <2>5. Len(t) = n
        BY <2>2, <2>3
  <2>6. ASSUME NEW i \in 1 .. n PROVE t[i] = s[i]
    <3>1. i \in 1 .. n - 1 + 1 /\ 1 + i - 1 = i
          BY <2>2
    <3> QED BY <2>4, <3>1
  <2> QED BY <2>5, <2>6 DEF t, n
<1> QED BY <1>1, <1>3, <1>4, <1>5

\* The values that conditions read after a step.
LEMMA SsaStep ==
    ASSUME NEW f, NEW s, Sequence(s), SsaOK(f, s), NEW g, Ssa(g.vs), Ssa(g.nssa)
    PROVE  /\ SsaOK(g, s)
           /\ \A w : FrameSsa(w) => SsaOK(g, Append(s, w))
           /\ \A w : \A k \in 1 .. Len(s) : FrameSsa(w) => SsaOK(g, Changed(s, k, w))
           /\ Len(s) > 0 => SsaOK(g, SubSeq(s, 1, Len(s) - 1))
<1>1. Len(s) \in Nat /\ \A n \in 1 .. Len(s) : FrameSsa(s[n])
      BY StackFacts DEF SsaOK
<1>2. SsaOK(g, s)
      BY <1>1 DEF SsaOK
<1>3. ASSUME NEW w, FrameSsa(w) PROVE SsaOK(g, Append(s, w))
  <2> DEFINE t == Append(s, w)
  <2>1. Len(t) = Len(s) + 1 /\ t[Len(s) + 1] = w /\ \A k \in 1 .. Len(s) : t[k] = s[k]
        BY AppendSequence
  <2> HIDE DEF t
  <2>2. ASSUME NEW n \in 1 .. Len(t) PROVE FrameSsa(t[n])
    <3>1. n \in 1 .. Len(s) \/ n = Len(s) + 1
          BY <1>1, <2>1
    <3> QED BY <1>1, <1>3, <2>1, <3>1
  <2> QED BY <2>2 DEF SsaOK, t
<1>4. ASSUME NEW w, NEW k \in 1 .. Len(s), FrameSsa(w) PROVE SsaOK(g, Changed(s, k, w))
  <2> DEFINE t == Changed(s, k, w)
  <2>1. Len(t) = Len(s) /\ t[k] = w /\ \A j \in 1 .. Len(s) : j # k => t[j] = s[j]
        BY StackFacts DEF Replaces
  <2> HIDE DEF t
  <2>2. ASSUME NEW n \in 1 .. Len(t) PROVE FrameSsa(t[n])
    <3>1. CASE n = k
          BY <1>4, <2>1, <3>1
    <3>2. CASE n # k
          BY <1>1, <2>1, <3>2
    <3> QED BY <3>1, <3>2
  <2> QED BY <2>2 DEF SsaOK, t
<1>5. ASSUME Len(s) > 0 PROVE SsaOK(g, SubSeq(s, 1, Len(s) - 1))
  <2> DEFINE t == SubSeq(s, 1, Len(s) - 1)
  <2>1. Len(t) = Len(s) - 1 /\ \A j \in 1 .. Len(s) - 1 : t[j] = s[j]
        BY <1>5, StackFacts
  <2> HIDE DEF t
  <2>2. ASSUME NEW n \in 1 .. Len(t) PROVE FrameSsa(t[n])
    <3>1. n \in 1 .. Len(s) /\ n \in 1 .. Len(s) - 1
          BY <1>1, <2>1
    <3> QED BY <1>1, <2>1, <3>1
  <2> QED BY <2>2 DEF SsaOK, t
<1> QED BY <1>2, <1>3, <1>4, <1>5

\* Translator g has made the move that frame o becoming w has to do.
Steps(f, g, o, w, U, D) ==
    /\ \E is, E : Moves(f, g, is, E) /\ StepOK(f, g, is, E, o, w, U, D)
    /\ Ssa(g.vs) /\ Ssa(g.nssa) /\ (g.dead => D)

\* A frame is replaced.
LEMMA TopStep ==
    ASSUME NEW f, Sequence(f.blocks), NEW g, NEW s, Sequence(s), NEW U, Graph(f, s, U), SsaOK(f, s),
           NEW k \in 1 .. Len(s), NEW w, FrameSsa(w), NEW D \in BOOLEAN, Steps(f, g, s[k], w, U, D),
           k = Len(s) \/ (D /\ ~Sealed(s[k]) /\ ~Sealed(w))
    PROVE  Good(g, Changed(s, k, w))
<1> DEFINE t == Changed(s, k, w)
<1>1. Len(s) \in Nat /\ Replaces(s, t, k, w)
      BY StackFacts
<1>2. PICK is, E : Moves(f, g, is, E) /\ StepOK(f, g, is, E, s[k], w, U, D)
      BY DEF Steps
<1>3. SsaOK(g, t)
      BY SsaStep DEF Steps
<1> HIDE DEF t
<1>4. PICK V : Graph(g, t, V) /\ (D => OpenBlock(g) \in V)
      BY <1>1, <1>2, FrameMove
<1>5. DeadOK(g, t, V)
      BY <1>4 DEF DeadOK, Steps
<1> QED BY <1>3, <1>4, <1>5 DEF Good, t

\* A frame is pushed.
LEMMA PushStep ==
    ASSUME NEW f, Sequence(f.blocks), NEW g, NEW s, Sequence(s), NEW U, Graph(f, s, U), SsaOK(f, s),
           NEW w, FrameSsa(w), NEW D \in BOOLEAN, Steps(f, g, Idle, w, U, D)
    PROVE  Good(g, Append(s, w))
<1> DEFINE t == Append(s, w)
           a == Append(s, Idle)
           k == Len(s) + 1
<1>1. Len(s) \in Nat /\ Deeper(s, a) /\ Replaces(a, t, k, w)
      BY StackFacts DEF Idle
<1>2. PICK is, E : Moves(f, g, is, E) /\ StepOK(f, g, is, E, Idle, w, U, D)
      BY DEF Steps
<1>3. SsaOK(g, t)
      BY SsaStep DEF Steps
<1>a. Len(a) = k /\ a[k] = Idle
      BY AppendSequence
<1> HIDE DEF t, a
<1>b. Len(a) \in Nat /\ k = Len(a)
      BY <1>1, <1>a
<1>c. Graph(f, a, U)
      BY <1>1, CallGraph
<1> HIDE DEF k
<1>4. PICK V : Graph(g, t, V) /\ (D => OpenBlock(g) \in V)
      BY <1>1, <1>2, <1>a, <1>b, <1>c, FrameMove
<1>5. DeadOK(g, t, V)
      BY <1>4 DEF DeadOK, Steps
<1> QED BY <1>3, <1>4, <1>5 DEF Good, t

\* The stack stays as it is.
LEMMA SameStep ==
    ASSUME NEW f, Sequence(f.blocks), NEW g, NEW s, Sequence(s), NEW U, Graph(f, s, U), SsaOK(f, s),
           NEW D \in BOOLEAN, Steps(f, g, Idle, Idle, U, D)
    PROVE  Good(g, s)
<1> DEFINE a == Append(s, Idle)
           k == Len(s) + 1
<1>1. Len(s) \in Nat /\ Deeper(s, a) /\ Replaces(a, a, k, Idle)
      BY StackFacts DEF Idle
<1>2. PICK is, E : Moves(f, g, is, E) /\ StepOK(f, g, is, E, Idle, Idle, U, D)
      BY DEF Steps
<1>3. SsaOK(g, s)
      BY SsaStep DEF Steps
<1>a. Len(a) = k /\ a[k] = Idle
      BY AppendSequence
<1> HIDE DEF a
<1>b. Len(a) \in Nat /\ k = Len(a)
      BY <1>1, <1>a
<1>c. Graph(f, a, U)
      BY <1>1, CallGraph
<1> HIDE DEF k
<1>4. PICK V : Graph(g, a, V) /\ (D => OpenBlock(g) \in V)
      BY <1>1, <1>2, <1>a, <1>b, <1>c, FrameMove
<1>d. Graph(g, s, V)
      BY <1>1, <1>4, CallGraph
<1>5. DeadOK(g, s, V)
      BY <1>4 DEF DeadOK, Steps
<1> QED BY <1>3, <1>5, <1>d DEF Good

\* The innermost frame is popped.
LEMMA PopStep ==
    ASSUME NEW f, Sequence(f.blocks), NEW g, NEW s, Sequence(s), Len(s) > 0, NEW U, Graph(f, s, U),
           SsaOK(f, s), NEW D \in BOOLEAN, Steps(f, g, s[Len(s)], Idle, U, D)
    PROVE  Good(g, SubSeq(s, 1, Len(s) - 1))
<1> DEFINE t == SubSeq(s, 1, Len(s) - 1)
           k == Len(s)
           a == Changed(s, k, Idle)
<1>0. Len(s) \in Nat /\ k \in 1 .. Len(s)
      BY StackFacts
<1>1. Replaces(s, a, k, Idle)
      BY <1>0, StackFacts
<1>t. Len(t) = k - 1 /\ \A j \in 1 .. k - 1 : t[j] = s[j]
      BY StackFacts
<1>2. PICK is, E : Moves(f, g, is, E) /\ StepOK(f, g, is, E, s[k], Idle, U, D)
      BY DEF Steps
<1>3. SsaOK(g, t)
      BY SsaStep DEF Steps
<1> HIDE DEF t, a
<1>4. PICK V : Graph(g, a, V) /\ (D => OpenBlock(g) \in V)
      BY <1>0, <1>1, <1>2, FrameMove
<1>5. Deeper(t, a)
  <2>1. Len(a) = k /\ a[k] = Idle /\ \A j \in 1 .. k : j # k => a[j] = s[j]
        BY <1>1 DEF Replaces
  <2>2. \A j \in 1 .. k - 1 : j \in 1 .. k /\ j # k
        BY <1>0
  <2>3. Len(t) \in Nat /\ Len(a) = Len(t) + 1
        BY <1>0, <1>t, <2>1
  <2>4. \A j \in 1 .. Len(t) : a[j] = t[j]
        BY <1>t, <2>1, <2>2
  <2>5. a[Len(a)].k = "call"
        BY <2>1 DEF Idle
  <2> QED BY <2>3, <2>4, <2>5 DEF Deeper
<1>6. Graph(g, t, V)
      BY <1>4, <1>5, CallGraph
<1>7. DeadOK(g, t, V)
      BY <1>4 DEF DeadOK, Steps
<1> QED BY <1>3, <1>6, <1>7 DEF Good, t

----------------------------------------------------------------------------
(* What the frames owe, stage by stage                                     *)
LEMMA IdleFrame ==
    /\ \A b, l : ~Owes(Idle, b, l) /\ ~Placed(Idle, b, l)
    /\ \A b : ~OwesNext(Idle, b) /\ ~Named(Idle, b)
    /\ ~Sealed(Idle) /\ SelfOK(Idle) /\ FrameSsa(Idle) /\ Idle.k = "call"
BY CallOwesNothing DEF Idle, FrameSsa

\* An if in its accept arm, without and with a reject arm to come.
LEMMA AcceptFrame ==
    ASSUME NEW fr, fr.k = "if", fr.stage = "accept"
    PROVE  /\ \A b, l : Owes(fr, b, l) <=> b = fr.cond /\ l = fr.merge
           /\ \A b : OwesNext(fr, b) <=> b = fr.cond
           /\ \A l : Named(fr, l) <=> l = fr.merge
           /\ \A b, l : ~Placed(fr, b, l)
           /\ ~Sealed(fr) /\ (SelfOK(fr) <=> fr.start = fr.cond + 1)
<1>1. /\ \A b, l : Owes(fr, b, l) <=> b = fr.cond /\ l = fr.merge
      /\ \A b : OwesNext(fr, b) <=> b = fr.cond
      /\ \A l : Named(fr, l) <=> l = fr.merge
      /\ \A b, l : ~Placed(fr, b, l)
      /\ ~Sealed(fr)
      BY DEF Owes, OwesNext, Named, Placed, Sealed
<1>2. SelfOK(fr) <=> fr.start = fr.cond + 1
      BY <1>1 DEF SelfOK
<1> QED BY <1>1, <1>2

\* With a reject arm to come, its label is handed out too.
LEMMA AcceptOfTwoFrame ==
    ASSUME NEW fr, fr.k = "if", fr.stage = "accept of two"
    PROVE  /\ \A b, l : Owes(fr, b, l) <=> b = fr.cond /\ l = fr.merge + 1
           /\ \A b : OwesNext(fr, b) <=> b = fr.cond
           /\ \A l : Named(fr, l) <=> l = fr.merge \/ l = fr.merge + 1
           /\ \A b, l : ~Placed(fr, b, l)
           /\ ~Sealed(fr) /\ (SelfOK(fr) <=> fr.start = fr.cond + 1)
<1>1. /\ \A b, l : Owes(fr, b, l) <=> b = fr.cond /\ l = fr.merge + 1
      /\ \A b : OwesNext(fr, b) <=> b = fr.cond
      /\ \A l : Named(fr, l) <=> l = fr.merge \/ l = fr.merge + 1
      /\ \A b, l : ~Placed(fr, b, l)
      /\ ~Sealed(fr)
      BY DEF Owes, OwesNext, Named, Placed, Sealed
<1>2. SelfOK(fr) <=> fr.start = fr.cond + 1
      BY <1>1 DEF SelfOK
<1> QED BY <1>1, <1>2

\* An if in its reject arm.
LEMMA RejectFrame ==
    ASSUME NEW fr, fr.k = "if", fr.stage = "reject"
    PROVE  /\ \A b, l : Owes(fr, b, l) <=> \/ b = fr.cond /\ l = fr.merge + 1
                                           \/ ~fr.acceptDead /\ b = fr.acceptEnd /\ l = fr.merge
           /\ \A b : ~OwesNext(fr, b)
           /\ \A l : Named(fr, l) <=> l = fr.merge
           /\ \A b, l : Placed(fr, b, l) <=> b = fr.start /\ l = fr.merge + 1
           /\ ~Sealed(fr) /\ SelfOK(fr)
<1>1. /\ \A b, l : Owes(fr, b, l) <=> \/ b = fr.cond /\ l = fr.merge + 1
                                      \/ ~fr.acceptDead /\ b = fr.acceptEnd /\ l = fr.merge
      /\ \A b : ~OwesNext(fr, b)
      /\ \A l : Named(fr, l) <=> l = fr.merge
      /\ \A b, l : Placed(fr, b, l) <=> b = fr.start /\ l = fr.merge + 1
      /\ ~Sealed(fr)
      BY DEF Owes, OwesNext, Named, Placed, Sealed
<1>2. SelfOK(fr)
      BY <1>1 DEF SelfOK
<1> QED BY <1>1, <1>2

\* A loop in its body, and in its continuing block.
LEMMA BodyFrame ==
    ASSUME NEW fr, fr.k = "loop", fr.stage = "body"
    PROVE  /\ \A b, l : Owes(fr, b, l) <=> \/ b \in fr.breaks /\ l = fr.exitLabel
                                           \/ b \in fr.continues /\ l = fr.contLabel
           /\ \A b : ~OwesNext(fr, b)
           /\ \A l : Named(fr, l) <=> l = fr.exitLabel \/ l = fr.contLabel
           /\ \A b, l : Placed(fr, b, l) <=> b = fr.header /\ l = fr.headerLabel
           /\ ~Sealed(fr) /\ (SelfOK(fr) <=> fr.contLabel # fr.exitLabel)
<1>1. /\ \A b, l : Owes(fr, b, l) <=> \/ b \in fr.breaks /\ l = fr.exitLabel
                                      \/ b \in fr.continues /\ l = fr.contLabel
      /\ \A b : ~OwesNext(fr, b)
      /\ \A l : Named(fr, l) <=> l = fr.exitLabel \/ l = fr.contLabel
      /\ \A b, l : Placed(fr, b, l) <=> b = fr.header /\ l = fr.headerLabel
      /\ ~Sealed(fr)
      BY DEF Owes, OwesNext, Named, Placed, Sealed
<1>2. SelfOK(fr) <=> fr.contLabel # fr.exitLabel
      BY <1>1 DEF SelfOK
<1> QED BY <1>1, <1>2

\* In the continuing block, which has its label.
LEMMA ContFrame ==
    ASSUME NEW fr, fr.k = "loop", fr.stage = "cont"
    PROVE  /\ \A b, l : Owes(fr, b, l) <=> \/ b \in fr.breaks /\ l = fr.exitLabel
                                           \/ b \in fr.continues /\ l = fr.contLabel
           /\ \A b : ~OwesNext(fr, b)
           /\ \A l : Named(fr, l) <=> l = fr.exitLabel
           /\ \A b, l : Placed(fr, b, l) <=> \/ b = fr.header /\ l = fr.headerLabel
                                             \/ b = fr.cont /\ l = fr.contLabel
           /\ (Sealed(fr) <=> fr.bodyDead /\ fr.continues = {})
           /\ (SelfOK(fr) <=> fr.contLabel # fr.exitLabel)
<1>1. /\ \A b, l : Owes(fr, b, l) <=> \/ b \in fr.breaks /\ l = fr.exitLabel
                                      \/ b \in fr.continues /\ l = fr.contLabel
      /\ \A b : ~OwesNext(fr, b)
      /\ \A l : Named(fr, l) <=> l = fr.exitLabel
      /\ \A b, l : Placed(fr, b, l) <=> \/ b = fr.header /\ l = fr.headerLabel
                                        \/ b = fr.cont /\ l = fr.contLabel
      /\ (Sealed(fr) <=> fr.bodyDead /\ fr.continues = {})
      BY DEF Owes, OwesNext, Named, Placed, Sealed
<1>2. SelfOK(fr) <=> fr.contLabel # fr.exitLabel
      BY <1>1 DEF SelfOK
<1> QED BY <1>1, <1>2

\* A switch at a comparison or in its default body, and in a case.
LEMMA ChecksFrame ==
    ASSUME NEW fr, fr.k = "switch", fr.stage # "case"
    PROVE  /\ \A b, l : Owes(fr, b, l) <=> b \in fr.ends /\ l = fr.merge
           /\ \A b : ~OwesNext(fr, b)
           /\ \A l : Named(fr, l) <=> l = fr.merge
           /\ \A b, l : ~Placed(fr, b, l)
           /\ ~Sealed(fr) /\ SelfOK(fr)
<1>1. /\ \A b, l : Owes(fr, b, l) <=> b \in fr.ends /\ l = fr.merge
      /\ \A b : ~OwesNext(fr, b)
      /\ \A l : Named(fr, l) <=> l = fr.merge
      /\ \A b, l : ~Placed(fr, b, l)
      /\ ~Sealed(fr)
      BY DEF Owes, OwesNext, Named, Placed, Sealed
<1>2. SelfOK(fr)
      BY <1>1 DEF SelfOK
<1> QED BY <1>1, <1>2

\* In a case, the comparison owes the way into the body and past it.
LEMMA CaseFrame ==
    ASSUME NEW fr, fr.k = "switch", fr.stage = "case"
    PROVE  /\ \A b, l : Owes(fr, b, l) <=> \/ b \in fr.ends /\ l = fr.merge
                                           \/ b = fr.check /\ l = fr.next
           /\ \A b : OwesNext(fr, b) <=> b = fr.check
           /\ \A l : Named(fr, l) <=> l = fr.merge \/ l = fr.next
           /\ \A b, l : ~Placed(fr, b, l)
           /\ ~Sealed(fr) /\ (SelfOK(fr) <=> fr.next # fr.merge)
<1>1. /\ \A b, l : Owes(fr, b, l) <=> \/ b \in fr.ends /\ l = fr.merge
                                      \/ b = fr.check /\ l = fr.next
      /\ \A b : OwesNext(fr, b) <=> b = fr.check
      /\ \A l : Named(fr, l) <=> l = fr.merge \/ l = fr.next
      /\ \A b, l : ~Placed(fr, b, l)
      /\ ~Sealed(fr)
      BY DEF Owes, OwesNext, Named, Placed, Sealed
<1>2. SelfOK(fr) <=> fr.next # fr.merge
      BY <1>1 DEF SelfOK
<1> QED BY <1>1, <1>2

\* What the graph says of a frame by itself.
FrameFacts(f, o) ==
    /\ f.nlabel \in Nat /\ OpenBlock(f) \in Nat /\ SelfOK(o)
    /\ \A l : Named(o, l) => l \in Nat /\ l < f.nlabel
    /\ \A b, l : Owes(o, b, l) => l \in Nat /\ l < f.nlabel /\ b # OpenBlock(f)
\* Every frame of the stack has them.
LEMMA FrameHas ==
    ASSUME NEW f, Sequence(f.blocks), NEW s, NEW U, Graph(f, s, U), NEW k \in 1 .. Len(s)
    PROVE  FrameFacts(f, s[k])
<1> DEFINE o == s[k]
           n == OpenBlock(f)
<1>1. LabelsOK(f) /\ NamesOK(f, s) /\ DebtsOK(f, s, U)
      BY DEF Graph
<1>2. n \in Nat /\ Closed(f) = 1 .. n - 1
  <2>1. Len(f.blocks) \in Nat
        BY AppendSequence
  <2> QED BY <2>1 DEF OpenBlock, Closed
<1>3. f.nlabel \in Nat /\ \A b \in Known(f) : Lab(f, b) \in Nat /\ Lab(f, b) < f.nlabel
      BY <1>1 DEF LabelsOK
<1>4. /\ SelfOK(o) /\ \A l : Named(o, l) => l \in Nat /\ l < f.nlabel
      /\ \A b, l : Placed(o, b, l) => b \in Known(f) /\ Lab(f, b) = l
      BY <1>1 DEF NamesOK
<1>5. ASSUME NEW b, NEW l, Owes(o, b, l) PROVE l \in Nat /\ l < f.nlabel /\ b # n
  <2>1. b \in Closed(f)
        BY <1>1, <1>5 DEF DebtsOK
  <2>2. Named(o, l) \/ \E c : Placed(o, c, l)
        BY <1>4, <1>5 DEF SelfOK
  <2>3. l \in Nat /\ l < f.nlabel
        BY <1>3, <1>4, <2>2
  <2> HIDE DEF n
  <2> QED BY <1>2, <2>1, <2>3
<1> QED BY <1>2, <1>3, <1>4, <1>5 DEF FrameFacts

----------------------------------------------------------------------------
(* What each operation pays and leaves owing                               *)

\* Translator g starts a block at label l, and labels up to m are given out.
Arrives(g, l, m) == g.label = l /\ g.nlabel = m /\ g.block = NoBlock

\* Break and Continue: the loop's frame w owes one branch to l more.
Lends(f, o, w, l) ==
    /\ SelfOK(w) /\ ~Sealed(w) /\ w.k = "loop" /\ o.k = "loop" /\ w.header = o.header
    /\ \A b, m : Owes(w, b, m) <=> Owes(o, b, m) \/ (b = OpenBlock(f) /\ m = l)
    /\ \A b : OwesNext(w, b) <=> OwesNext(o, b)
    /\ \A m : Named(w, m) <=> Named(o, m)
    /\ \A b, m : Placed(w, b, m) <=> Placed(o, b, m)
\* Break and Continue do what the loop's frame has to.
LEMMA JumpStepOK ==
    ASSUME NEW f, NEW g, NEW is, NEW U, NEW o, NEW w, NEW l, FrameFacts(f, o), Named(o, l),
           Lends(f, o, w, l), Arrives(g, f.nlabel, f.nlabel + 1),
           OpenBlock(f) \in U \/ Jumps(is, {l}), NEW D, D
    PROVE  StepOK(f, g, is, {}, o, w, U, D)
<1> DEFINE n == OpenBlock(f)
           z == f.nlabel
<1>1. /\ z \in Nat /\ \A m : Named(o, m) => m # z /\ \A b : ~Owes(o, b, z)
      BY DEF FrameFacts
<1>1a. \A b : ~Owes(o, b, z)
      BY DEF FrameFacts
<1>2. Relabels(f, g, o, w)
  <2>1. NewLabel(f, g, g.label) /\ g.nlabel \in Nat /\ f.nlabel <= g.nlabel
        BY <1>1 DEF Arrives, NewLabel
  <2>2. ~Named(w, g.label)
        BY <1>1 DEF Arrives, Lends
  <2> QED BY <2>1, <2>2 DEF Relabels, Lends
<1>3. Borrows(f, is, o, w, U)
      BY DEF Borrows, Lends, Jumps
<1>4. AllDue(f, g, is, o, {}, U)
      BY DEF AllDue
<1>5. Pays(f, g, o, w, {}, U)
      BY DEF Pays, Lends
<1>6. PaysNew(f, g, is, o, w, {}, U)
      BY DEF PaysNew, Lends, Jumps
<1>7. OpenBlock(f) \in U \/ \A m \in Exits(is) : Target(f, o, m)
      BY DEF Jumps, Target
<1>8. Seals(f, g, is, o, U)
  <2>1. g.label # l /\ g.label = z
        BY <1>1 DEF Arrives
  <2> QED BY <1>1a, <2>1 DEF Seals, Jumps
<1> QED BY <1>2, <1>3, <1>4, <1>5, <1>6, <1>7, <1>8 DEF StepOK, Lends, Arrives

\* Return at top level.
LEMMA ReturnStepOK ==
    ASSUME NEW f, f.nlabel \in Nat, NEW g, NEW is, NEW U, Arrives(g, f.nlabel, f.nlabel + 1),
           OpenBlock(f) \in U \/ Jumps(is, {}), NEW D, D
    PROVE  StepOK(f, g, is, {}, Idle, Idle, U, D)
<1>2. Relabels(f, g, Idle, Idle)
  <2>1. NewLabel(f, g, g.label) /\ g.nlabel \in Nat /\ f.nlabel <= g.nlabel
        BY DEF Arrives, NewLabel
  <2> QED BY <2>1, IdleFrame DEF Relabels
<1>3. Borrows(f, is, Idle, Idle, U) /\ Pays(f, g, Idle, Idle, {}, U)
      BY IdleFrame DEF Borrows, Pays
<1>4. AllDue(f, g, is, Idle, {}, U)
      BY DEF AllDue
<1>6. PaysNew(f, g, is, Idle, Idle, {}, U)
      BY DEF PaysNew, Jumps
<1>7. OpenBlock(f) \in U \/ \A m \in Exits(is) : Target(f, Idle, m)
      BY DEF Jumps
<1>8. Seals(f, g, is, Idle, U)
      BY IdleFrame DEF Seals, Jumps
<1> QED BY <1>2, <1>3, <1>4, <1>6, <1>7, <1>8, IdleFrame DEF StepOK, Arrives

\* Entering the arm of an if or the body of a case: the open block branches
\* to label l and goes on into the arm, and frame w owes both edges.
EntersArm(f, g, o, w, l) ==
    /\ w.k # "loop" /\ SelfOK(w) /\ ~Sealed(w)
    /\ \A b, m : Owes(w, b, m) <=> Owes(o, b, m) \/ (b = OpenBlock(f) /\ m = l)
    /\ \A b : OwesNext(w, b) <=> b = OpenBlock(f)
    /\ \A m : Named(w, m) => Named(o, m) \/ NewLabel(f, g, m)
    /\ ~Named(w, g.label)
    /\ \A b, m : ~Placed(w, b, m)
    /\ \A b : ~OwesNext(o, b)
\* So does a comparison that a body or an arm follows.
LEMMA ArmStepOK ==
    ASSUME NEW f, f.nlabel \in Nat, NEW g, NEW is, NEW U, NEW o, NEW w, NEW l,
           EntersArm(f, g, o, w, l), l \in Nat, f.nlabel <= l, NewLabel(f, g, g.label),
           g.nlabel \in Nat, f.nlabel <= g.nlabel, g.block = NoBlock,
           OpenBlock(f) \in U \/ Splits(is, {l}), Plain(g.instrs), NEW D \in BOOLEAN, ~D
    PROVE  StepOK(f, g, is, {}, o, w, U, D)
<1> DEFINE n == OpenBlock(f)
<1>4. Relabels(f, g, o, w)
      BY DEF Relabels, EntersArm
<1>5. Borrows(f, is, o, w, U)
      BY DEF Borrows, Splits, EntersArm
<1>6. AllDue(f, g, is, o, {}, U)
      BY DEF AllDue
<1>7. Pays(f, g, o, w, {}, U)
      BY DEF Pays, EntersArm
<1>8. PaysNew(f, g, is, o, w, {}, U)
      BY DEF PaysNew, Splits, EntersArm
<1>9. OpenBlock(f) \in U \/ \A m \in Exits(is) : Target(f, o, m)
      BY DEF Splits, Target
<1> QED BY <1>4, <1>5, <1>6, <1>7, <1>8, <1>9 DEF StepOK, EntersArm

\* The end of the accept arm: its edge is added.
EntersReject(f, o, w) ==
    /\ o.k = "if" /\ o.stage = "accept of two"
    /\ w.k = "if" /\ w.stage = "reject"
    /\ w.merge = o.merge /\ w.cond = o.cond
    /\ w.start = OpenBlock(f) + 1 /\ w.acceptEnd = OpenBlock(f)
DeadArm(f, w, U) == w.acceptDead => OpenBlock(f) \in U
\* What the frame of an if owes in its reject arm.
LEMMA EntersRejectOwes ==
    ASSUME NEW f, NEW o, NEW w, EntersReject(f, o, w)
    PROVE  /\ \A b, l : Owes(w, b, l) <=> \/ b = o.cond /\ l = o.merge + 1
                                          \/ ~w.acceptDead /\ b = OpenBlock(f) /\ l = o.merge
           /\ \A b : ~OwesNext(w, b)
           /\ \A l : Named(w, l) <=> l = o.merge
           /\ \A b, l : Placed(w, b, l) <=> b = OpenBlock(f) + 1 /\ l = o.merge + 1
           /\ ~Sealed(w) /\ SelfOK(w) /\ w.k # "loop"
<1> DEFINE n == OpenBlock(f)
           mg == o.merge
           cd == o.cond
<1>1. /\ w.k = "if" /\ w.stage = "reject" /\ w.merge = mg /\ w.cond = cd
      /\ w.start = n + 1 /\ w.acceptEnd = n
      BY Zenon DEF EntersReject
<1>2. /\ \A b, l : Owes(w, b, l) <=> \/ b = w.cond /\ l = w.merge + 1
                                     \/ ~w.acceptDead /\ b = w.acceptEnd /\ l = w.merge
      /\ \A b : ~OwesNext(w, b)
      /\ \A l : Named(w, l) <=> l = w.merge
      /\ \A b, l : Placed(w, b, l) <=> b = w.start /\ l = w.merge + 1
      /\ ~Sealed(w) /\ SelfOK(w)
      BY <1>1, RejectFrame
<1> HIDE DEF n, mg, cd
<1>3. /\ \A b, l : Owes(w, b, l) <=> \/ b = cd /\ l = mg + 1
                                     \/ ~w.acceptDead /\ b = n /\ l = mg
      /\ \A l : Named(w, l) <=> l = mg
      /\ \A b, l : Placed(w, b, l) <=> b = n + 1 /\ l = mg + 1
      /\ w.k # "loop"
      BY <1>1, <1>2
<1> QED BY <1>2, <1>3 DEF n, mg, cd

\* The end of the accept arm does what the frame has to.
LEMMA ElseStepOK ==
    ASSUME NEW f, NEW g, NEW is, NEW U, NEW o, NEW w, NEW D \in BOOLEAN, ~D, FrameFacts(f, o),
           EntersReject(f, o, w), DeadArm(f, w, U), Plain(g.instrs),
           Arrives(g, o.merge + 1, f.nlabel), OpenBlock(f) \in U \/ Jumps(is, {o.merge})
    PROVE  StepOK(f, g, is, {<<o.cond, o.start>>}, o, w, U, D)
<1> DEFINE n == OpenBlock(f)
           z == f.nlabel
           mg == o.merge
           cd == o.cond
           E == {<<o.cond, o.start>>}
<1>0. o.k = "if" /\ o.stage = "accept of two"
      BY Zenon DEF EntersReject
<1>1. /\ \A b, l : Owes(o, b, l) <=> b = cd /\ l = mg + 1
      /\ \A b : OwesNext(o, b) <=> b = cd
      /\ \A l : Named(o, l) <=> l = mg \/ l = mg + 1
      /\ \A b, l : ~Placed(o, b, l)
      /\ ~Sealed(o) /\ (SelfOK(o) <=> o.start = cd + 1)
      BY <1>0, AcceptOfTwoFrame, Zenon
<1>2. /\ \A b, l : Owes(w, b, l) <=> \/ b = cd /\ l = mg + 1
                                     \/ ~w.acceptDead /\ b = n /\ l = mg
      /\ \A b : ~OwesNext(w, b)
      /\ \A l : Named(w, l) <=> l = mg
      /\ \A b, l : Placed(w, b, l) <=> b = n + 1 /\ l = mg + 1
      /\ ~Sealed(w) /\ SelfOK(w) /\ w.k # "loop"
      BY EntersRejectOwes
<1>2a. w.acceptDead => n \in U
      BY DEF DeadArm
<1>3. o.start = cd + 1 /\ z \in Nat /\ n \in Nat
  <2>1. SelfOK(o) /\ z \in Nat /\ n \in Nat
        BY DEF FrameFacts
  <2> QED BY <1>1, <2>1
<1>4. g.label = mg + 1 /\ g.nlabel = z /\ g.block = NoBlock
      BY DEF Arrives
<1>5. mg \in Nat /\ mg + 1 # mg
  <2>1. Named(o, mg)
        BY <1>1
  <2>2. mg \in Nat
        BY <2>1 DEF FrameFacts
  <2> QED BY <2>2
<1>5a. E = {<<cd, cd + 1>>} /\ (n \in U \/ Jumps(is, {mg}))
      BY <1>3
<1> HIDE DEF n, z, E, mg, cd
<1>6. Relabels(f, g, o, w)
  <2>1. ~Named(w, g.label) /\ Named(o, g.label) /\ g.nlabel \in Nat /\ z <= g.nlabel
        BY <1>1, <1>2, <1>3, <1>4, <1>5
  <2>2. \A l : Named(w, l) => Named(o, l)
        BY <1>1, <1>2
  <2>3. \A b, l : Placed(w, b, l) => b = n + 1 /\ l = g.label
        BY <1>2, <1>4
  <2> QED BY <1>2, <2>1, <2>2, <2>3 DEF Relabels, n, z
<1>7. Borrows(f, is, o, w, U)
  <2>1. ASSUME NEW b, NEW l, Owes(w, b, l)
        PROVE  Owes(o, b, l) \/ (b = n /\ (b \in U \/ l \in Exits(is)))
        BY <1>1, <1>2, <1>5a, <2>1 DEF Jumps
  <2> QED BY <1>2, <2>1 DEF Borrows, n
<1>8. AllDue(f, g, is, o, E, U)
  <2>1. Due(f, g, is, o, U, cd, cd + 1)
        BY <1>1, <1>3 DEF Due
  <2>2. \A e \in E : e = <<cd, cd + 1>> /\ e[1] = cd /\ e[2] = cd + 1
        BY <1>5a
  <2> QED BY <2>1, <2>2 DEF AllDue
<1>9. Pays(f, g, o, w, E, U)
      BY <1>1, <1>2, <1>5a DEF Pays
<1>10. PaysNew(f, g, is, o, w, E, U)
      BY <1>2, <1>2a, <1>5a DEF PaysNew, Jumps, n
<1>11. OpenBlock(f) \in U \/ \A m \in Exits(is) : Target(f, o, m)
      BY <1>1, <1>5a DEF Jumps, Target, n
<1>12. StepOK(f, g, is, E, o, w, U, D)
      BY <1>2, <1>4, <1>6, <1>7, <1>8, <1>9, <1>10, <1>11 DEF StepOK
<1> QED BY <1>12 DEF E

\* The merge block, reject arm empty.
LEMMA MergeNoElseStepOK ==
    ASSUME NEW f, NEW g, NEW is, NEW E, NEW U, NEW o, NEW D \in BOOLEAN, ~D, FrameFacts(f, o),
           o.k = "if", o.stage = "accept",
           Arrives(g, o.merge, f.nlabel), OpenBlock(f) \in U \/ Jumps(is, {o.merge}),
           f.dead => OpenBlock(f) \in U, Plain(g.instrs),
           \A e : e \in E <=> \/ e = <<o.cond, o.start>>
                              \/ e = <<o.cond, OpenBlock(f) + 1>>
                              \/ ~f.dead /\ e = <<OpenBlock(f), OpenBlock(f) + 1>>
    PROVE  StepOK(f, g, is, E, o, Idle, U, D)
<1> DEFINE n == OpenBlock(f)
           z == f.nlabel
<1>1. /\ \A b, l : Owes(o, b, l) <=> b = o.cond /\ l = o.merge
      /\ \A b : OwesNext(o, b) <=> b = o.cond
      /\ \A l : Named(o, l) <=> l = o.merge
      /\ \A b, l : ~Placed(o, b, l)
      /\ ~Sealed(o) /\ (SelfOK(o) <=> o.start = o.cond + 1)
      BY AcceptFrame
<1>3. o.start = o.cond + 1 /\ z \in Nat /\ n \in Nat
      BY <1>1 DEF FrameFacts
<1>4. g.label = o.merge /\ g.nlabel = z /\ g.block = NoBlock
      BY DEF Arrives
<1> HIDE DEF n, z
<1>6. Relabels(f, g, o, Idle)
      BY <1>1, <1>3, <1>4, IdleFrame DEF Relabels, z
<1>7. Borrows(f, is, o, Idle, U)
      BY IdleFrame DEF Borrows
<1>8. AllDue(f, g, is, o, E, U)
  <2>1. Due(f, g, is, o, U, o.cond, o.start)
        BY <1>1, <1>3 DEF Due
  <2>2. Due(f, g, is, o, U, o.cond, n + 1)
        BY <1>1, <1>4 DEF Due, n
  <2>3. Due(f, g, is, o, U, n, n + 1)
        BY <1>4 DEF Due, Jumps, n
  <2>4. ASSUME NEW e \in E PROVE e = <<e[1], e[2]>> /\ Due(f, g, is, o, U, e[1], e[2])
    <3>1. CASE e = <<o.cond, o.start>>
          BY <2>1, <3>1
    <3>2. CASE e = <<o.cond, n + 1>>
          BY <2>2, <3>2
    <3>3. CASE e = <<n, n + 1>>
          BY <2>3, <3>3
    <3> QED BY <3>1, <3>2, <3>3 DEF n
  <2> QED BY <2>4 DEF AllDue
<1>9. Pays(f, g, o, Idle, E, U)
  <2>1. <<o.cond, o.cond + 1>> \in E /\ <<o.cond, n + 1>> \in E
        BY <1>3 DEF n
  <2> QED BY <1>1, <1>4, <2>1 DEF Pays, PaysFor, n
<1>10. PaysNew(f, g, is, o, Idle, E, U)
  <2>1. n \in U \/ <<n, n + 1>> \in E
        BY DEF n
  <2> QED BY <1>4, <2>1 DEF PaysNew, PaysFor, Jumps, n
<1>11. OpenBlock(f) \in U \/ \A m \in Exits(is) : Target(f, o, m)
      BY <1>1 DEF Jumps, Target
<1> QED BY <1>4, <1>6, <1>7, <1>8, <1>9, <1>10, <1>11, IdleFrame DEF StepOK

\* The merge block of two arms.
MergeEdge(f, o, e) ==
    \/ e = <<o.cond, o.start>>
    \/ ~o.acceptDead /\ e = <<o.acceptEnd, OpenBlock(f) + 1>>
    \/ ~f.dead /\ e = <<OpenBlock(f), OpenBlock(f) + 1>>
DeadEnd(f, U) == f.dead => OpenBlock(f) \in U
\* The merge block gets the edges of the arms that are alive.
LEMMA MergeElseStepOK ==
    ASSUME NEW f, NEW g, NEW is, NEW E, NEW U, NEW o, NEW D \in BOOLEAN, ~D, FrameFacts(f, o),
           o.k = "if", o.stage = "reject", DeadEnd(f, U), Plain(g.instrs),
           Arrives(g, o.merge, f.nlabel), OpenBlock(f) \in U \/ Jumps(is, {o.merge}),
           \A e : e \in E <=> MergeEdge(f, o, e)
    PROVE  StepOK(f, g, is, E, o, Idle, U, D)
<1> DEFINE n == OpenBlock(f)
           z == f.nlabel
           mg == o.merge
           cd == o.cond
           st == o.start
           ae == o.acceptEnd
<1>1. /\ \A b, l : Owes(o, b, l) <=> \/ b = cd /\ l = mg + 1
                                     \/ ~o.acceptDead /\ b = ae /\ l = mg
      /\ \A b : ~OwesNext(o, b)
      /\ \A l : Named(o, l) <=> l = mg
      /\ \A b, l : Placed(o, b, l) <=> b = st /\ l = mg + 1
      BY RejectFrame, Zenon
<1>2. n \in U \/ Jumps(is, {mg})
      OBVIOUS
<1>3. z \in Nat /\ n \in Nat
      BY DEF FrameFacts
<1>4. g.label = mg /\ g.nlabel = z /\ g.block = NoBlock
      BY DEF Arrives
<1>5. /\ \A e : e \in E <=> \/ e = <<cd, st>>
                            \/ ~o.acceptDead /\ e = <<ae, n + 1>>
                            \/ ~f.dead /\ e = <<n, n + 1>>
      /\ f.dead => n \in U
      BY Zenon DEF MergeEdge, DeadEnd
<1> HIDE DEF n, z, mg, cd, st, ae
<1>6. Relabels(f, g, o, Idle)
      BY <1>1, <1>3, <1>4, IdleFrame DEF Relabels, z
<1>7. Borrows(f, is, o, Idle, U)
      BY IdleFrame DEF Borrows
<1>8. AllDue(f, g, is, o, E, U)
  <2>1. Due(f, g, is, o, U, cd, st)
        BY <1>1 DEF Due
  <2>2. ~o.acceptDead => Due(f, g, is, o, U, ae, n + 1)
        BY <1>1, <1>4 DEF Due, n
  <2>3. Due(f, g, is, o, U, n, n + 1)
        BY <1>2, <1>4 DEF Due, Jumps, n
  <2>4. ASSUME NEW e \in E PROVE e = <<e[1], e[2]>> /\ Due(f, g, is, o, U, e[1], e[2])
    <3>1. CASE e = <<cd, st>>
          BY <2>1, <3>1
    <3>2. CASE ~o.acceptDead /\ e = <<ae, n + 1>>
          BY <2>2, <3>2
    <3>3. CASE e = <<n, n + 1>>
          BY <2>3, <3>3
    <3> QED BY <1>5, <3>1, <3>2, <3>3
  <2> QED BY <2>4 DEF AllDue
<1>9. Pays(f, g, o, Idle, E, U)
  <2>1. <<cd, st>> \in E /\ (~o.acceptDead => <<ae, n + 1>> \in E)
        BY <1>5
  <2>2. ASSUME NEW b, NEW l, Owes(o, b, l) PROVE PaysFor(f, g, o, E, b, l)
    <3>1. CASE b = cd /\ l = mg + 1
          BY <1>1, <2>1, <3>1 DEF PaysFor
    <3>2. CASE ~o.acceptDead /\ b = ae /\ l = mg
          BY <1>4, <2>1, <3>2 DEF PaysFor, n
    <3> QED BY <1>1, <2>2, <3>1, <3>2
  <2> QED BY <1>1, <2>2 DEF Pays
<1>10. PaysNew(f, g, is, o, Idle, E, U)
  <2>1. n \in U \/ <<n, n + 1>> \in E
        BY <1>5
  <2> QED BY <1>2, <1>4, <2>1 DEF PaysNew, PaysFor, Jumps, n
<1>11. OpenBlock(f) \in U \/ \A m \in Exits(is) : Target(f, o, m)
      BY <1>1, <1>2 DEF Jumps, Target, n
<1> QED BY <1>4, <1>6, <1>7, <1>8, <1>9, <1>10, <1>11, IdleFrame DEF StepOK

\* translate_loop: the block before the loop goes on into the header.
NewLoop(f, w) ==
    /\ w.k = "loop" /\ w.stage = "body" /\ w.header = OpenBlock(f) + 1
    /\ w.headerLabel = f.nlabel /\ w.contLabel = f.nlabel + 1 /\ w.exitLabel = f.nlabel + 2
    /\ w.breaks = {} /\ w.continues = {}
\* The block before a loop falls into the header.
LEMMA LoopStepOK ==
    ASSUME NEW f, f.nlabel \in Nat, OpenBlock(f) \in Nat, NEW g, NEW is, NEW U, NEW w, NewLoop(f, w),
           Arrives(g, f.nlabel, f.nlabel + 3), OpenBlock(f) \in U \/ Splits(is, {}),
           Plain(g.instrs), NEW D \in BOOLEAN, ~D
    PROVE  StepOK(f, g, is, {<<OpenBlock(f), w.header>>}, Idle, w, U, D)
<1> DEFINE n == OpenBlock(f)
           z == f.nlabel
           E == {<<n, w.header>>}
<1>0. /\ w.k = "loop" /\ w.stage = "body" /\ w.header = n + 1
      /\ w.headerLabel = z /\ w.contLabel = z + 1 /\ w.exitLabel = z + 2
      /\ w.breaks = {} /\ w.continues = {}
      BY Zenon DEF NewLoop
<1>1. /\ \A b, l : Owes(w, b, l) <=> \/ b \in w.breaks /\ l = w.exitLabel
                                     \/ b \in w.continues /\ l = w.contLabel
      /\ \A b : ~OwesNext(w, b)
      /\ \A l : Named(w, l) <=> l = w.exitLabel \/ l = w.contLabel
      /\ \A b, l : Placed(w, b, l) <=> b = w.header /\ l = w.headerLabel
      /\ ~Sealed(w) /\ (SelfOK(w) <=> w.contLabel # w.exitLabel)
      BY <1>0, BodyFrame, Zenon
<1>2. n \in U \/ Splits(is, {})
      OBVIOUS
<1>3. z \in Nat /\ n \in Nat
      OBVIOUS
<1>4. g.label = z /\ g.nlabel = z + 3 /\ g.block = NoBlock
      BY DEF Arrives
<1> HIDE DEF n, z, E
<1>5. /\ \A b, l : ~Owes(w, b, l)
      /\ \A l : Named(w, l) <=> l = z + 2 \/ l = z + 1
      /\ \A b, l : Placed(w, b, l) <=> b = n + 1 /\ l = z
      BY <1>0, <1>1
<1>5a. SelfOK(w)
  <2>1. z + 1 # z + 2
        BY <1>3
  <2> QED BY <1>0, <1>1, <2>1
<1>5b. E = {<<n, n + 1>>}
      BY <1>0 DEF E
<1>6. Relabels(f, g, Idle, w)
  <2>1. z # z + 1 /\ z # z + 2 /\ z + 3 \in Nat /\ z <= z + 3
        BY <1>3
  <2>2. \A l : l = z \/ l = z + 1 \/ l = z + 2 => l \in Nat /\ z <= l /\ l < z + 3
        BY <1>3
  <2>3. NewLabel(f, g, g.label) /\ ~Named(w, g.label) /\ g.nlabel \in Nat /\ z <= g.nlabel
        BY <1>4, <1>5, <2>1, <2>2 DEF NewLabel, z
  <2>4. \A l : Named(w, l) => NewLabel(f, g, l)
        BY <1>4, <1>5, <2>2 DEF NewLabel, z
  <2>5. \A b, l : Placed(w, b, l) => b = n + 1 /\ l = g.label
        BY <1>4, <1>5
  <2> QED BY <1>5a, <2>3, <2>4, <2>5 DEF Relabels, n, z
<1>7. Borrows(f, is, Idle, w, U)
      BY <1>1, <1>5 DEF Borrows
<1>8. AllDue(f, g, is, Idle, E, U)
  <2>1. Due(f, g, is, Idle, U, n, n + 1)
        BY <1>2 DEF Due, Splits, n
  <2>2. \A e \in E : e = <<n, n + 1>> /\ e[1] = n /\ e[2] = n + 1
        BY <1>5b
  <2> QED BY <2>1, <2>2 DEF AllDue
<1>9. Pays(f, g, Idle, w, E, U)
      BY IdleFrame DEF Pays
<1>10. PaysNew(f, g, is, Idle, w, E, U)
      BY <1>2, <1>5b DEF PaysNew, Splits, n
<1>11. OpenBlock(f) \in U \/ \A m \in Exits(is) : Target(f, Idle, m)
      BY <1>2 DEF Splits, n
<1>12. w.header = OpenBlock(f) + 1 /\ ~Sealed(w)
      BY <1>0, <1>1 DEF n
<1> QED BY <1>4, <1>6, <1>7, <1>8, <1>9, <1>10, <1>11, <1>12 DEF StepOK, E, n

\* The continuing block: nothing leads to it if the body ends dead and has
\* no Continue.
EntersCont(f, o, w) ==
    /\ o.k = "loop" /\ o.stage = "body" /\ w.k = "loop" /\ w.stage = "cont"
    /\ w.header = o.header /\ w.headerLabel = o.headerLabel
    /\ w.contLabel = o.contLabel /\ w.exitLabel = o.exitLabel
    /\ w.breaks = o.breaks /\ w.continues = o.continues
    /\ w.cont = OpenBlock(f) + 1
\* The continuing block is sealed if the body's end and no Continue reach it.
LEMMA ContinuingStepOK ==
    ASSUME NEW f, NEW g, NEW is, NEW E, NEW U, NEW o, NEW w, FrameFacts(f, o),
           EntersCont(f, o, w), Plain(g.instrs), DeadEnd(f, U), w.bodyDead = f.dead,
           Arrives(g, o.contLabel, f.nlabel), OpenBlock(f) \in U \/ Jumps(is, {o.contLabel}),
           NEW D \in BOOLEAN, D <=> Sealed(w),
           \A e : e \in E <=> ~f.dead /\ e = <<OpenBlock(f), OpenBlock(f) + 1>>
    PROVE  StepOK(f, g, is, E, o, w, U, D)
<1> DEFINE n == OpenBlock(f)
           z == f.nlabel
           cl == o.contLabel
           xl == o.exitLabel
           hl == o.headerLabel
           h == o.header
           B == o.breaks
           C == o.continues
<1>0. /\ o.k = "loop" /\ o.stage = "body" /\ w.k = "loop" /\ w.stage = "cont"
      /\ w.header = h /\ w.headerLabel = hl /\ w.contLabel = cl /\ w.exitLabel = xl
      /\ w.breaks = B /\ w.continues = C /\ w.cont = n + 1
      BY Zenon DEF EntersCont
<1>1. /\ \A b, l : Owes(o, b, l) <=> \/ b \in B /\ l = xl
                                     \/ b \in C /\ l = cl
      /\ \A b : ~OwesNext(o, b)
      /\ \A l : Named(o, l) <=> l = xl \/ l = cl
      /\ \A b, l : Placed(o, b, l) <=> b = h /\ l = hl
      /\ ~Sealed(o) /\ (SelfOK(o) <=> cl # xl)
      BY <1>0, BodyFrame, Zenon
<1>2. /\ \A b, l : Owes(w, b, l) <=> \/ b \in w.breaks /\ l = w.exitLabel
                                     \/ b \in w.continues /\ l = w.contLabel
      /\ \A b : ~OwesNext(w, b)
      /\ \A l : Named(w, l) <=> l = w.exitLabel
      /\ \A b, l : Placed(w, b, l) <=> \/ b = w.header /\ l = w.headerLabel
                                       \/ b = w.cont /\ l = w.contLabel
      /\ (Sealed(w) <=> w.bodyDead /\ w.continues = {})
      /\ (SelfOK(w) <=> w.contLabel # w.exitLabel)
      BY <1>0, ContFrame, Zenon
<1>3. SelfOK(o) /\ z \in Nat /\ n \in Nat /\ (f.dead => n \in U)
      BY DEF FrameFacts, DeadEnd
<1>4. g.label = cl /\ g.nlabel = z /\ g.block = NoBlock
      BY DEF Arrives
<1>5. /\ n \in U \/ Jumps(is, {cl})
      /\ \A e : e \in E <=> ~f.dead /\ e = <<n, n + 1>>
      OBVIOUS
<1> HIDE DEF n, z, cl, xl, hl, h, B, C
<1>6. /\ \A b, l : Owes(w, b, l) <=> Owes(o, b, l)
      /\ \A l : Named(w, l) <=> l = xl
      /\ \A b, l : Placed(w, b, l) <=> (b = h /\ l = hl) \/ (b = n + 1 /\ l = cl)
      /\ (Sealed(w) <=> f.dead /\ C = {})
      /\ SelfOK(w)
      BY <1>0, <1>1, <1>2, <1>3
<1>7. Relabels(f, g, o, w)
  <2>1. Named(o, g.label) /\ ~Named(w, g.label) /\ g.nlabel \in Nat /\ z <= g.nlabel
        BY <1>1, <1>3, <1>4, <1>6
  <2>2. \A l : Named(w, l) => Named(o, l)
        BY <1>1, <1>6
  <2>3. \A b, l : Placed(w, b, l) => Placed(o, b, l) \/ (b = n + 1 /\ l = g.label)
        BY <1>1, <1>4, <1>6
  <2> QED BY <1>6, <2>1, <2>2, <2>3 DEF Relabels, n, z
<1>8. Borrows(f, is, o, w, U)
      BY <1>2, <1>6 DEF Borrows
<1>9. AllDue(f, g, is, o, E, U)
  <2>1. Due(f, g, is, o, U, n, n + 1)
        BY <1>4, <1>5 DEF Due, Jumps, n
  <2>2. \A e \in E : e = <<n, n + 1>> /\ e[1] = n /\ e[2] = n + 1
        BY <1>5
  <2> QED BY <2>1, <2>2 DEF AllDue
<1>10. Pays(f, g, o, w, E, U)
      BY <1>1, <1>6 DEF Pays
<1>11. PaysNew(f, g, is, o, w, E, U)
  <2>1. n \in U \/ <<n, n + 1>> \in E
        BY <1>3, <1>5
  <2> QED BY <1>4, <1>5, <2>1 DEF PaysNew, PaysFor, Jumps, n
<1>12. OpenBlock(f) \in U \/ \A m \in Exits(is) : Target(f, o, m)
      BY <1>1, <1>5 DEF Jumps, Target, n
<1>13. D => Seals(f, g, is, o, U)
  <2>1. ASSUME D PROVE n \in U /\ \A b : ~Owes(o, b, g.label)
        BY <1>1, <1>3, <1>4, <1>6, <2>1
  <2> QED BY <2>1 DEF Seals, n
<1>14. w.k = "loop" /\ o.k = "loop" /\ w.header = o.header
      BY <1>0 DEF h
<1> QED BY <1>4, <1>7, <1>8, <1>9, <1>10, <1>11, <1>12, <1>13, <1>14 DEF StepOK

\* The exit of a loop.  Where its end is not reachable, neither is its
\* continuing block.
EndsLoop(o, is, r, breakIf) ==
    \/ r /\ breakIf /\ Jumps(is, {o.exitLabel, o.headerLabel})
    \/ r /\ ~breakIf /\ Jumps(is, {o.headerLabel})
\* The end of a loop pays its breaks, its continues and the way back.
LEMMA LeaveLoopStepOK ==
    ASSUME NEW f, NEW g, NEW is, NEW E, NEW U, NEW o, NEW r \in BOOLEAN, NEW breakIf \in BOOLEAN,
           FrameFacts(f, o), o.k = "loop", o.stage = "cont", Plain(g.instrs),
           Arrives(g, o.exitLabel, f.nlabel), OpenBlock(f) \in U \/ EndsLoop(o, is, r, breakIf),
           \A e : e \in E <=> LoopEdge(o, OpenBlock(f), r, breakIf, e),
           NEW D \in BOOLEAN, ~D
    PROVE  StepOK(f, g, is, E, o, Idle, U, D)
<1> DEFINE n == OpenBlock(f)
           z == f.nlabel
           cl == o.contLabel
           xl == o.exitLabel
           hl == o.headerLabel
           h == o.header
           c == o.cont
           B == o.breaks
           C == o.continues
<1>1. /\ \A b, l : Owes(o, b, l) <=> \/ b \in B /\ l = xl
                                     \/ b \in C /\ l = cl
      /\ \A b : ~OwesNext(o, b)
      /\ \A l : Named(o, l) <=> l = xl
      /\ \A b, l : Placed(o, b, l) <=> \/ b = h /\ l = hl
                                       \/ b = c /\ l = cl
      BY ContFrame, Zenon
<1>3. z \in Nat /\ n \in Nat
      BY DEF FrameFacts
<1>4. g.label = xl /\ g.nlabel = z /\ g.block = NoBlock
      BY DEF Arrives
<1>5. \/ n \in U
      \/ r /\ breakIf /\ Jumps(is, {xl, hl})
      \/ r /\ ~breakIf /\ Jumps(is, {hl})
      BY Zenon DEF EndsLoop
<1>6. \A e : e \in E <=> \/ r /\ e = <<n, h>>
                         \/ r /\ breakIf /\ e = <<n, n + 1>>
                         \/ \E b \in B : e = <<b, n + 1>>
                         \/ \E b \in C : e = <<b, c>>
      BY Zenon DEF LoopEdge
<1> HIDE DEF n, z, cl, xl, hl, h, c, B, C
<1>7. Relabels(f, g, o, Idle)
      BY <1>1, <1>3, <1>4, IdleFrame DEF Relabels, z
<1>8. Borrows(f, is, o, Idle, U)
      BY IdleFrame DEF Borrows
<1>9. AllDue(f, g, is, o, E, U)
  <2>1. r => Due(f, g, is, o, U, n, h)
    <3>1. Placed(o, h, hl)
          BY <1>1
    <3>2. r => n \in U \/ hl \in Exits(is)
          BY <1>5 DEF Jumps
    <3> QED BY <3>1, <3>2 DEF Due, n
  <2>2. r /\ breakIf => Due(f, g, is, o, U, n, n + 1)
        BY <1>4, <1>5 DEF Due, Jumps, n
  <2>3. \A b \in B : Due(f, g, is, o, U, b, n + 1)
        BY <1>1, <1>4 DEF Due, n
  <2>4. \A b \in C : Due(f, g, is, o, U, b, c)
    <3>1. Placed(o, c, cl) /\ \A b \in C : Owes(o, b, cl)
          BY <1>1
    <3> QED BY <3>1 DEF Due
  <2>5. ASSUME NEW e \in E PROVE e = <<e[1], e[2]>> /\ Due(f, g, is, o, U, e[1], e[2])
    <3>1. CASE r /\ e = <<n, h>>
          BY <2>1, <3>1
    <3>2. CASE r /\ breakIf /\ e = <<n, n + 1>>
          BY <2>2, <3>2
    <3>3. CASE \E b \in B : e = <<b, n + 1>>
          BY <2>3, <3>3
    <3>4. CASE \E b \in C : e = <<b, c>>
          BY <2>4, <3>4
    <3> QED BY <1>6, <3>1, <3>2, <3>3, <3>4
  <2> QED BY <2>5 DEF AllDue
<1>10. Pays(f, g, o, Idle, E, U)
  <2>1. \A b \in B : <<b, n + 1>> \in E
        BY <1>6
  <2>2. \A b \in C : <<b, c>> \in E
        BY <1>6
  <2>3. ASSUME NEW b, NEW l, Owes(o, b, l) PROVE PaysFor(f, g, o, E, b, l)
    <3>1. CASE b \in B /\ l = xl
          BY <1>4, <2>1, <3>1 DEF PaysFor, n
    <3>2. CASE b \in C /\ l = cl
      <4>1. Placed(o, c, l) /\ <<b, c>> \in E
            BY <1>1, <2>2, <3>2
      <4> QED BY <4>1 DEF PaysFor
    <3> QED BY <1>1, <2>3, <3>1, <3>2
  <2> QED BY <1>1, <2>3 DEF Pays
<1>11. PaysNew(f, g, is, o, Idle, E, U)
  <2> SUFFICES ASSUME n \notin U
               PROVE  (\A l \in Exits(is) : PaysFor(f, g, o, E, n, l)) /\ ~RunsOn(is)
      BY DEF PaysNew, n
  <2>1. r /\ <<n, h>> \in E /\ Placed(o, h, hl) /\ ~RunsOn(is)
        BY <1>1, <1>5, <1>6 DEF Jumps
  <2>2. PaysFor(f, g, o, E, n, hl)
        BY <2>1 DEF PaysFor
  <2>3. breakIf => PaysFor(f, g, o, E, n, xl)
    <3>1. breakIf => <<n, n + 1>> \in E
          BY <1>6, <2>1
    <3> QED BY <1>4, <3>1 DEF PaysFor, n
  <2>4. \A l \in Exits(is) : l = hl \/ (breakIf /\ l = xl)
        BY <1>5 DEF Jumps
  <2> QED BY <2>1, <2>2, <2>3, <2>4
<1>12. OpenBlock(f) \in U \/ \A m \in Exits(is) : Target(f, o, m)
  <2>1. n \in U \/ \A l \in Exits(is) : l = hl \/ l = xl
        BY <1>5 DEF Jumps
  <2>2. Target(f, o, hl) /\ Target(f, o, xl)
        BY <1>1 DEF Target, hl
  <2> QED BY <2>1, <2>2 DEF n
<1> QED BY <1>4, <1>7, <1>8, <1>9, <1>10, <1>11, <1>12, IdleFrame DEF StepOK

\* The frames of an if and of a case as they are entered.
NewIf(f, w) ==
    /\ w.k = "if" /\ w.merge = f.nlabel
    /\ w.cond = OpenBlock(f) /\ w.start = OpenBlock(f) + 1
\* An if without reject arm branches past the accept arm.
LEMMA IfEnters ==
    ASSUME NEW f, f.nlabel \in Nat, OpenBlock(f) \in Nat, NEW g, NEW w, NewIf(f, w), w.stage = "accept",
           Arrives(g, f.nlabel + 1, f.nlabel + 2)
    PROVE  EntersArm(f, g, Idle, w, f.nlabel)
<1> DEFINE n == OpenBlock(f)
           z == f.nlabel
<1>0. w.k = "if" /\ w.stage = "accept" /\ w.merge = z /\ w.cond = n /\ w.start = n + 1
      BY Zenon DEF NewIf
<1>1. /\ \A b, l : Owes(w, b, l) <=> b = w.cond /\ l = w.merge
      /\ \A b : OwesNext(w, b) <=> b = w.cond
      /\ \A l : Named(w, l) <=> l = w.merge
      /\ \A b, l : ~Placed(w, b, l)
      /\ ~Sealed(w) /\ (SelfOK(w) <=> w.start = w.cond + 1)
      BY <1>0, AcceptFrame, Zenon
<1>2. z \in Nat /\ g.label = z + 1 /\ g.nlabel = z + 2
      BY DEF Arrives
<1> HIDE DEF n, z
<1>3. /\ \A b, l : Owes(w, b, l) <=> b = n /\ l = z
      /\ \A b : OwesNext(w, b) <=> b = n
      /\ \A l : Named(w, l) <=> l = z
      /\ \A b, l : ~Placed(w, b, l)
      /\ ~Sealed(w) /\ SelfOK(w) /\ w.k # "loop"
      BY <1>0, <1>1
<1>4. z # z + 1 /\ z < z + 2
      BY <1>2
<1>5. /\ ~Named(w, g.label) /\ \A l : Named(w, l) => NewLabel(f, g, l)
      BY <1>2, <1>3, <1>4 DEF NewLabel, z
<1> QED BY <1>3, <1>5, IdleFrame DEF EntersArm, n, z

\* The frame of an if that has a reject arm to come.
TwoArms(fr) == fr.k = "if" /\ fr.stage = "accept of two"
\* An if with both arms branches to the reject arm.
LEMMA IfElseEnters ==
    ASSUME NEW f, f.nlabel \in Nat, OpenBlock(f) \in Nat, NEW g, NEW w, NewIf(f, w),
           TwoArms(w), Arrives(g, f.nlabel + 2, f.nlabel + 3)
    PROVE  EntersArm(f, g, Idle, w, f.nlabel + 1)
<1> DEFINE n == OpenBlock(f)
           z == f.nlabel
<1>0. w.k = "if" /\ w.merge = z /\ w.cond = n /\ w.start = n + 1
      BY Zenon DEF NewIf
<1>1. /\ \A b, l : Owes(w, b, l) <=> b = w.cond /\ l = w.merge + 1
      /\ \A b : OwesNext(w, b) <=> b = w.cond
      /\ \A l : Named(w, l) <=> l = w.merge \/ l = w.merge + 1
      /\ \A b, l : ~Placed(w, b, l)
      /\ ~Sealed(w) /\ (SelfOK(w) <=> w.start = w.cond + 1)
      BY AcceptOfTwoFrame, Zenon DEF TwoArms
<1>2. z \in Nat /\ g.label = z + 2 /\ g.nlabel = z + 3
      BY DEF Arrives
<1> HIDE DEF n, z
<1>3. /\ \A b, l : Owes(w, b, l) <=> b = n /\ l = z + 1
      /\ \A b : OwesNext(w, b) <=> b = n
      /\ \A l : Named(w, l) <=> l = z \/ l = z + 1
      /\ \A b, l : ~Placed(w, b, l)
      /\ ~Sealed(w) /\ SelfOK(w) /\ w.k # "loop"
      BY <1>0, <1>1
<1>4. z # z + 2 /\ z + 1 # z + 2 /\ z < z + 3 /\ z + 1 < z + 3 /\ z + 1 \in Nat /\ z <= z + 1
      BY <1>2
<1>5. /\ ~Named(w, g.label) /\ \A l : Named(w, l) => NewLabel(f, g, l)
      BY <1>2, <1>3, <1>4 DEF NewLabel, z
<1> QED BY <1>3, <1>5, IdleFrame DEF EntersArm, n, z

\* A switch that enters the body of a case.
IsCase(f, o, w) ==
    /\ o.k = "switch" /\ o.stage = "checks" /\ w.k = "switch" /\ w.stage = "case"
    /\ w.merge = o.merge /\ w.ends = o.ends /\ w.check = OpenBlock(f) /\ w.next = f.nlabel
\* A comparison branches past the body of its case.
LEMMA CaseEnters ==
    ASSUME NEW f, NEW o, FrameFacts(f, o), NEW g, NEW w, IsCase(f, o, w),
           Arrives(g, f.nlabel + 1, f.nlabel + 2)
    PROVE  EntersArm(f, g, o, w, f.nlabel)
<1> DEFINE n == OpenBlock(f)
           z == f.nlabel
           mg == o.merge
           X == o.ends
<1>0. /\ o.k = "switch" /\ o.stage = "checks" /\ w.k = "switch" /\ w.stage = "case"
      /\ w.merge = mg /\ w.ends = X /\ w.check = n /\ w.next = z
      BY Zenon DEF IsCase
<1>0a. o.stage # "case"
      BY <1>0
<1>1. /\ \A b, l : Owes(o, b, l) <=> b \in X /\ l = mg
      /\ \A b : ~OwesNext(o, b)
      /\ \A l : Named(o, l) <=> l = mg
      BY <1>0, <1>0a, ChecksFrame, Zenon
<1>2. /\ \A b, l : Owes(w, b, l) <=> \/ b \in w.ends /\ l = w.merge
                                     \/ b = w.check /\ l = w.next
      /\ \A b : OwesNext(w, b) <=> b = w.check
      /\ \A l : Named(w, l) <=> l = w.merge \/ l = w.next
      /\ \A b, l : ~Placed(w, b, l)
      /\ ~Sealed(w) /\ (SelfOK(w) <=> w.next # w.merge)
      BY <1>0, CaseFrame, Zenon
<1>3. z \in Nat /\ g.label = z + 1 /\ g.nlabel = z + 2
      BY DEF Arrives, FrameFacts
<1>4. mg \in Nat /\ mg < z
  <2>1. Named(o, mg)
        BY <1>1
  <2> QED BY <2>1 DEF FrameFacts
<1> HIDE DEF n, z, mg, X
<1>5. mg # z /\ mg # z + 1 /\ z # z + 1 /\ z < z + 2
      BY <1>3, <1>4
<1>6. /\ \A b, l : Owes(w, b, l) <=> Owes(o, b, l) \/ (b = n /\ l = z)
      /\ \A b : OwesNext(w, b) <=> b = n
      /\ \A l : Named(w, l) <=> l = mg \/ l = z
      /\ SelfOK(w) /\ w.k # "loop"
      BY <1>0, <1>1, <1>2, <1>5
<1>7. /\ ~Named(w, g.label) /\ \A l : Named(w, l) => Named(o, l) \/ NewLabel(f, g, l)
      BY <1>1, <1>3, <1>5, <1>6 DEF NewLabel, z
<1> QED BY <1>1, <1>2, <1>6, <1>7 DEF EntersArm, n, z

\* The end of a case body: the body branches to the merge block, the
\* comparison to the body and to the next comparison.
LeavesBody(f, o, w, U) ==
    /\ w.k = "switch" /\ w.stage = "checks" /\ w.merge = o.merge
    /\ \A b : b \in w.ends => b \in o.ends \/ b = OpenBlock(f)
    /\ \A b : b \in o.ends => b \in w.ends
    /\ OpenBlock(f) \in U \/ OpenBlock(f) \in w.ends
\* The end of a case pays both ways out of the comparison.
LEMMA LeaveCaseStepOK ==
    ASSUME NEW f, NEW g, NEW is, NEW E, NEW U, NEW o, NEW w, FrameFacts(f, o),
           o.k = "switch", o.stage = "case", LeavesBody(f, o, w, U), Plain(g.instrs),
           Arrives(g, o.next, f.nlabel), OpenBlock(f) \in U \/ Jumps(is, {o.merge}),
           NEW D \in BOOLEAN, ~D,
           \A e : e \in E <=> \/ e = <<o.check, o.check + 1>>
                              \/ e = <<o.check, OpenBlock(f) + 1>>
    PROVE  StepOK(f, g, is, E, o, w, U, D)
<1> DEFINE n == OpenBlock(f)
           z == f.nlabel
           mg == o.merge
           nx == o.next
           ck == o.check
           X == o.ends
           Y == w.ends
<1>1. /\ \A b, l : Owes(o, b, l) <=> \/ b \in X /\ l = mg
                                     \/ b = ck /\ l = nx
      /\ \A b : OwesNext(o, b) <=> b = ck
      /\ \A l : Named(o, l) <=> l = mg \/ l = nx
      /\ \A b, l : ~Placed(o, b, l)
      /\ ~Sealed(o) /\ (SelfOK(o) <=> nx # mg)
      BY CaseFrame, Zenon
<1>2. /\ w.k = "switch" /\ w.stage = "checks" /\ w.merge = mg
      /\ \A b : b \in Y => b \in X \/ b = n
      /\ \A b : b \in X => b \in Y
      /\ n \in U \/ n \in Y
      BY Zenon DEF LeavesBody
<1>2a. w.stage # "case" /\ w.k # "loop"
      BY <1>2
<1>3. /\ \A b, l : Owes(w, b, l) <=> b \in Y /\ l = w.merge
      /\ \A b : ~OwesNext(w, b)
      /\ \A l : Named(w, l) <=> l = w.merge
      /\ \A b, l : ~Placed(w, b, l)
      /\ ~Sealed(w) /\ SelfOK(w)
      BY <1>2, <1>2a, ChecksFrame, Zenon
<1>4. z \in Nat /\ n \in Nat /\ SelfOK(o)
      BY DEF FrameFacts
<1>5. g.label = nx /\ g.nlabel = z /\ g.block = NoBlock
      BY DEF Arrives
<1>6. /\ n \in U \/ Jumps(is, {mg})
      /\ \A e : e \in E <=> e = <<ck, ck + 1>> \/ e = <<ck, n + 1>>
      OBVIOUS
<1> HIDE DEF n, z, mg, nx, ck, X, Y
<1>7. /\ \A b, l : Owes(w, b, l) <=> b \in Y /\ l = mg
      /\ \A l : Named(w, l) <=> l = mg
      BY <1>2, <1>3
<1>8. Relabels(f, g, o, w)
      BY <1>1, <1>3, <1>4, <1>5, <1>7 DEF Relabels, z
<1>9. Borrows(f, is, o, w, U)
  <2>1. ASSUME NEW b, NEW l, Owes(w, b, l)
        PROVE  Owes(o, b, l) \/ (b = n /\ (b \in U \/ l \in Exits(is)))
        BY <1>1, <1>2, <1>6, <1>7, <2>1 DEF Jumps
  <2> QED BY <1>3, <2>1 DEF Borrows, n
<1>10. AllDue(f, g, is, o, E, U)
  <2>1. Due(f, g, is, o, U, ck, ck + 1)
        BY <1>1 DEF Due
  <2>2. Due(f, g, is, o, U, ck, n + 1)
        BY <1>1, <1>5 DEF Due, n
  <2>3. ASSUME NEW e \in E PROVE e = <<e[1], e[2]>> /\ Due(f, g, is, o, U, e[1], e[2])
    <3>1. CASE e = <<ck, ck + 1>>
          BY <2>1, <3>1
    <3>2. CASE e = <<ck, n + 1>>
          BY <2>2, <3>2
    <3> QED BY <1>6, <3>1, <3>2
  <2> QED BY <2>3 DEF AllDue
<1>11. Pays(f, g, o, w, E, U)
  <2>1. <<ck, ck + 1>> \in E /\ <<ck, n + 1>> \in E
        BY <1>6
  <2> QED BY <1>1, <1>2, <1>5, <1>7, <2>1 DEF Pays, PaysFor, n
<1>12. PaysNew(f, g, is, o, w, E, U)
      BY <1>2, <1>6, <1>7 DEF PaysNew, Jumps, n
<1>13. OpenBlock(f) \in U \/ \A m \in Exits(is) : Target(f, o, m)
      BY <1>1, <1>6 DEF Jumps, Target, n
<1> QED BY <1>2a, <1>3, <1>5, <1>8, <1>9, <1>10, <1>11, <1>12, <1>13 DEF StepOK

\* The merge block of a switch.
SwitchEdge(o, n, e) == \E d : (d \in o.ends \/ d = n) /\ e = <<d, n + 1>>
\* The end of a switch pays the ends of its cases.
LEMMA LeaveSwitchStepOK ==
    ASSUME NEW f, NEW g, NEW is, NEW E, NEW U, NEW o, FrameFacts(f, o),
           o.k = "switch", o.stage # "case", Plain(g.instrs),
           Arrives(g, o.merge, f.nlabel), OpenBlock(f) \in U \/ Jumps(is, {o.merge}),
           NEW D \in BOOLEAN, ~D, \A e : e \in E <=> SwitchEdge(o, OpenBlock(f), e)
    PROVE  StepOK(f, g, is, E, o, Idle, U, D)
<1> DEFINE n == OpenBlock(f)
           z == f.nlabel
           mg == o.merge
           X == o.ends
<1>1. /\ \A b, l : Owes(o, b, l) <=> b \in X /\ l = mg
      /\ \A b : ~OwesNext(o, b)
      /\ \A l : Named(o, l) <=> l = mg
      /\ \A b, l : ~Placed(o, b, l)
      BY ChecksFrame, Zenon
<1>2. z \in Nat /\ n \in Nat
      BY DEF FrameFacts
<1>3. g.label = mg /\ g.nlabel = z /\ g.block = NoBlock
      BY DEF Arrives
<1>4. /\ n \in U \/ Jumps(is, {mg})
      /\ \A e : e \in E <=> \E d : (d \in X \/ d = n) /\ e = <<d, n + 1>>
      BY Zenon DEF SwitchEdge
<1> HIDE DEF n, z, mg, X
<1>5. Relabels(f, g, o, Idle)
      BY <1>1, <1>2, <1>3, IdleFrame DEF Relabels, z
<1>6. Borrows(f, is, o, Idle, U)
      BY IdleFrame DEF Borrows
<1>7. AllDue(f, g, is, o, E, U)
  <2>1. \A d : d \in X => Due(f, g, is, o, U, d, n + 1)
        BY <1>1, <1>3 DEF Due, n
  <2>2. Due(f, g, is, o, U, n, n + 1)
        BY <1>3, <1>4 DEF Due, Jumps, n
  <2>3. ASSUME NEW e \in E PROVE e = <<e[1], e[2]>> /\ Due(f, g, is, o, U, e[1], e[2])
    <3>1. PICK d : (d \in X \/ d = n) /\ e = <<d, n + 1>>
          BY <1>4
    <3> QED BY <2>1, <2>2, <3>1
  <2> QED BY <2>3 DEF AllDue
<1>8. Pays(f, g, o, Idle, E, U)
  <2>1. \A d : d \in X => <<d, n + 1>> \in E
        BY <1>4
  <2> QED BY <1>1, <1>3, <2>1 DEF Pays, PaysFor, n
<1>9. PaysNew(f, g, is, o, Idle, E, U)
  <2>1. <<n, n + 1>> \in E
        BY <1>4
  <2> QED BY <1>3, <1>4, <2>1 DEF PaysNew, PaysFor, Jumps, n
<1>10. OpenBlock(f) \in U \/ \A m \in Exits(is) : Target(f, o, m)
      BY <1>1, <1>4 DEF Jumps, Target, n
<1> QED BY <1>3, <1>5, <1>6, <1>7, <1>8, <1>9, <1>10, IdleFrame DEF StepOK

\* inline_call: a callee that ends dead goes on into the next block.
LEMMA LeaveCallStepOK ==
    ASSUME NEW f, f.nlabel \in Nat, NEW g, NEW is, NEW U, NEW o, o.k = "call", Plain(g.instrs),
           g.label = f.nlabel, g.nlabel = f.nlabel + 1, g.block = OpenBlock(f),
           OpenBlock(f) \in U \/ Splits(is, {}), NEW D \in BOOLEAN, ~D
    PROVE  StepOK(f, g, is, {}, o, Idle, U, D)
<1>1. /\ \A b, l : ~Owes(o, b, l) /\ ~Placed(o, b, l)
      /\ \A b : ~OwesNext(o, b) /\ ~Named(o, b)
      BY CallOwesNothing
<1>2. Relabels(f, g, o, Idle)
  <2>1. NewLabel(f, g, g.label) /\ g.nlabel \in Nat /\ f.nlabel <= g.nlabel
        BY DEF NewLabel
  <2> QED BY <2>1, IdleFrame DEF Relabels
<1>3. Borrows(f, is, o, Idle, U) /\ Pays(f, g, o, Idle, {}, U)
      BY <1>1, IdleFrame DEF Borrows, Pays
<1>4. AllDue(f, g, is, o, {}, U)
      BY DEF AllDue
<1>6. PaysNew(f, g, is, o, Idle, {}, U)
      BY DEF PaysNew, Splits
<1>7. OpenBlock(f) \in U \/ \A m \in Exits(is) : Target(f, o, m)
      BY DEF Splits
<1> QED BY <1>2, <1>3, <1>4, <1>6, <1>7, IdleFrame DEF StepOK, Splits

----------------------------------------------------------------------------
(* The operations                                                          *)

\* The open block is alive and has not ended, or nothing leads to it.
Sound(f, U) == OpenBlock(f) \in U \/ IsAlive(f)

\* Break and Continue.
LEMMA JumpSteps ==
    ASSUME NEW f, Typed(f), NEW U, Sound(f, U), NEW o, FrameFacts(f, o), NEW w, NEW l, Named(o, l),
           Lends(f, o, w, l), NEW p, NEW D \in BOOLEAN, D
    PROVE  Steps(f, JumpOut(f, p, l), o, w, U, D)
<1> DEFINE g == JumpOut(f, p, l)
<1>1. PICK is : /\ Opened(f, g, is, {}, f.nlabel) /\ g.dead = TRUE /\ g.nlabel = f.nlabel + 1
                /\ IsAlive(f) => Jumps(is, {l})
      BY JumpOutOpens
<1> HIDE DEF g
<1>2. Arrives(g, f.nlabel, f.nlabel + 1)
      BY <1>1 DEF Opened, Arrives
<1>3. OpenBlock(f) \in U \/ Jumps(is, {l})
      BY <1>1 DEF Sound
<1>4. StepOK(f, g, is, {}, o, w, U, D)
      BY <1>2, <1>3, JumpStepOK
<1>5. Steps(f, g, o, w, U, D)
      BY <1>1, <1>4 DEF Steps, Opened
<1> QED BY <1>5 DEF g

\* Return at top level.
LEMMA ReturnSteps ==
    ASSUME NEW f, Typed(f), f.nlabel \in Nat, NEW U, Sound(f, U), NEW inlining, ~inlining,
           NEW D \in BOOLEAN, D
    PROVE  Steps(f, ReturnTo(f, inlining), Idle, Idle, U, D)
<1> DEFINE g == ReturnTo(f, inlining)
<1>1. PICK is : /\ Opened(f, g, is, {}, f.nlabel) /\ g.dead = TRUE /\ g.nlabel = f.nlabel + 1
                /\ IsAlive(f) => Jumps(is, {})
      BY ReturnOpens
<1> HIDE DEF g
<1>2. Arrives(g, f.nlabel, f.nlabel + 1)
      BY <1>1 DEF Opened, Arrives
<1>3. OpenBlock(f) \in U \/ Jumps(is, {})
      BY <1>1 DEF Sound
<1>4. StepOK(f, g, is, {}, Idle, Idle, U, D)
      BY <1>2, <1>3, ReturnStepOK
<1>5. Steps(f, g, Idle, Idle, U, D)
      BY <1>1, <1>4 DEF Steps, Opened
<1> QED BY <1>5 DEF g

\* translate_if.
LEMMA IfNoElseSteps ==
    ASSUME NEW f, Typed(f), ~f.dead, f.nlabel \in Nat, OpenBlock(f) \in Nat, NEW U, Sound(f, U),
           NEW w, NewIf(f, w), w.stage = "accept", NEW D \in BOOLEAN, ~D
    PROVE  Steps(f, IfNoElse(f), Idle, w, U, D)
<1> DEFINE g == IfNoElse(f)
           l == f.nlabel
<1>1. PICK is : /\ Opened(f, g, is, {}, f.nlabel + 1) /\ g.dead = f.dead /\ Plain(g.instrs)
                /\ g.nlabel = f.nlabel + 1 + 1
                /\ IsAlive(f) => Splits(is, {f.nlabel})
      BY IfNoElseOpens
<1> HIDE DEF g
<1>2. f.nlabel + 1 + 1 = f.nlabel + 2
      OBVIOUS
<1>3. Arrives(g, f.nlabel + 1, f.nlabel + 2)
      BY <1>1, <1>2 DEF Opened, Arrives
<1>4. EntersArm(f, g, Idle, w, f.nlabel)
      BY <1>3, IfEnters
<1>5. NewLabel(f, g, g.label) /\ g.nlabel \in Nat /\ f.nlabel <= g.nlabel /\ g.block = NoBlock
      BY <1>3 DEF Arrives, NewLabel
<1>6. OpenBlock(f) \in U \/ Splits(is, {l})
      BY <1>1 DEF Sound
<1>7. l \in Nat /\ f.nlabel <= l /\ EntersArm(f, g, Idle, w, l)
      BY <1>4
<1> HIDE DEF l
<1>8. StepOK(f, g, is, {}, Idle, w, U, D)
      BY <1>1, <1>5, <1>6, <1>7, ArmStepOK
<1>9. Steps(f, g, Idle, w, U, D)
      BY <1>1, <1>8 DEF Steps, Opened
<1> QED BY <1>9 DEF g

\* translate_if up to the accept arm, with a reject arm to come.
LEMMA IfElseSteps ==
    ASSUME NEW f, Typed(f), ~f.dead, f.nlabel \in Nat, OpenBlock(f) \in Nat, NEW U, Sound(f, U),
           NEW w, NewIf(f, w), TwoArms(w), NEW D \in BOOLEAN, ~D
    PROVE  Steps(f, IfElse(f), Idle, w, U, D)
<1> DEFINE g == IfElse(f)
           l == f.nlabel + 1
<1>1. PICK is : /\ Opened(f, g, is, {}, f.nlabel + 2) /\ g.dead = f.dead /\ Plain(g.instrs)
                /\ g.nlabel = f.nlabel + 3
                /\ IsAlive(f) => Splits(is, {f.nlabel + 1})
      BY IfElseOpens
<1> HIDE DEF g
<1>3. Arrives(g, f.nlabel + 2, f.nlabel + 3)
      BY <1>1 DEF Opened, Arrives
<1>4. EntersArm(f, g, Idle, w, f.nlabel + 1)
      BY <1>3, IfElseEnters
<1>5. NewLabel(f, g, g.label) /\ g.nlabel \in Nat /\ f.nlabel <= g.nlabel /\ g.block = NoBlock
      BY <1>3 DEF Arrives, NewLabel
<1>6. OpenBlock(f) \in U \/ Splits(is, {l})
      BY <1>1 DEF Sound
<1>7. l \in Nat /\ f.nlabel <= l /\ EntersArm(f, g, Idle, w, l)
      BY <1>4
<1> HIDE DEF l
<1>8. StepOK(f, g, is, {}, Idle, w, U, D)
      BY <1>1, <1>5, <1>6, <1>7, ArmStepOK
<1>9. Steps(f, g, Idle, w, U, D)
      BY <1>1, <1>8 DEF Steps, Opened
<1> QED BY <1>9 DEF g

\* The end of the accept arm.
LEMMA ElseSteps ==
    ASSUME NEW f, Typed(f), NEW U, Sound(f, U), NEW o, FrameFacts(f, o), Ssa(o.pre), NEW w,
           EntersReject(f, o, w), DeadArm(f, w, U), NEW D \in BOOLEAN, ~D
    PROVE  LET a == AddEdge(EndArm(f, o), o.cond, o.start)
               g == [StartBlockAt(a, o.merge + 1) EXCEPT !.vs = o.pre, !.dead = FALSE]
           IN  Steps(f, g, o, w, U, D)
<1> DEFINE a == AddEdge(EndArm(f, o), o.cond, o.start)
           g == [StartBlockAt(a, o.merge + 1) EXCEPT !.vs = o.pre, !.dead = FALSE]
           E == {<<o.cond, o.start>>}
<1>1. PICK is : /\ Opened(f, g, is, {<<o.cond, o.start>>}, o.merge + 1) /\ Begun(g)
                /\ g.nlabel = f.nlabel /\ (IsAlive(f) => Jumps(is, {o.merge}))
      BY ElseOpens
<1> HIDE DEF g
<1>2. Arrives(g, o.merge + 1, f.nlabel)
      BY <1>1 DEF Opened, Arrives
<1>3. OpenBlock(f) \in U \/ Jumps(is, {o.merge})
      BY <1>1 DEF Sound
<1>4. StepOK(f, g, is, E, o, w, U, D)
      BY <1>1, <1>2, <1>3, ElseStepOK DEF Begun
<1>4a. Opened(f, g, is, E, o.merge + 1)
      BY <1>1
<1> HIDE DEF E
<1>5. Steps(f, g, o, w, U, D)
      BY <1>1, <1>4, <1>4a DEF Steps, Opened, Begun
<1> QED BY <1>5, Zenon DEF g

\* The merge block of an if.
LEMMA MergeNoElseSteps ==
    ASSUME NEW f, Typed(f), NEW U, Sound(f, U), NEW o, FrameFacts(f, o), Ssa(o.pre),
           o.k = "if", o.stage = "accept", NEW D \in BOOLEAN, ~D
    PROVE  Steps(f, MergeNoElse(f, o), o, Idle, U, D)
<1> DEFINE g == MergeNoElse(f, o)
<1>1. PICK is, E : /\ Opened(f, g, is, E, o.merge) /\ Begun(g) /\ g.nlabel = f.nlabel
                   /\ IsAlive(f) => Jumps(is, {o.merge})
                   /\ \A e : e \in E <=> \/ e = <<o.cond, o.start>>
                                         \/ e = <<o.cond, OpenBlock(f) + 1>>
                                         \/ ~f.dead /\ e = <<OpenBlock(f), OpenBlock(f) + 1>>
      BY MergeNoElseOpens
<1> HIDE DEF g
<1>2. Arrives(g, o.merge, f.nlabel) /\ Plain(g.instrs)
      BY <1>1 DEF Opened, Arrives, Begun
<1>3. (OpenBlock(f) \in U \/ Jumps(is, {o.merge})) /\ (f.dead => OpenBlock(f) \in U)
      BY <1>1 DEF Sound, IsAlive
<1>4. StepOK(f, g, is, E, o, Idle, U, D)
      BY <1>1, <1>2, <1>3, MergeNoElseStepOK
<1>5. Steps(f, g, o, Idle, U, D)
      BY <1>1, <1>4 DEF Steps, Opened, Begun
<1> QED BY <1>5, Zenon DEF g

\* The merge block of two arms.
LEMMA MergeElseSteps ==
    ASSUME NEW f, Typed(f), NEW U, Sound(f, U), NEW o, FrameFacts(f, o), FrameSsa(o),
           o.k = "if", o.stage = "reject", NEW D \in BOOLEAN, ~D
    PROVE  Steps(f, MergeElse(f, o), o, Idle, U, D)
<1> DEFINE g == MergeElse(f, o)
<1>0. Ssa(o.pre) /\ Ssa(o.acceptVs) /\ o.acceptDead \in BOOLEAN
      BY DEF FrameSsa
<1>1. PICK is, E : /\ Opened(f, g, is, E, o.merge) /\ Begun(g) /\ g.nlabel = f.nlabel
                   /\ IsAlive(f) => Jumps(is, {o.merge})
                   /\ \A e : e \in E <=> \/ e = <<o.cond, o.start>>
                                         \/ ~o.acceptDead /\ e = <<o.acceptEnd, OpenBlock(f) + 1>>
                                         \/ ~f.dead /\ e = <<OpenBlock(f), OpenBlock(f) + 1>>
      BY <1>0, MergeElseOpens
<1> HIDE DEF g
<1>2. Arrives(g, o.merge, f.nlabel) /\ Plain(g.instrs)
      BY <1>1 DEF Opened, Arrives, Begun
<1>3. (OpenBlock(f) \in U \/ Jumps(is, {o.merge})) /\ DeadEnd(f, U)
      BY <1>1 DEF Sound, IsAlive, DeadEnd
<1>3a. \A e : e \in E <=> MergeEdge(f, o, e)
      BY <1>1, Zenon DEF MergeEdge
<1>4. StepOK(f, g, is, E, o, Idle, U, D)
      BY <1>2, <1>3, <1>3a, MergeElseStepOK
<1>5. Steps(f, g, o, Idle, U, D)
      BY <1>1, <1>4 DEF Steps, Opened, Begun
<1> QED BY <1>5, Zenon DEF g

\* translate_loop up to the body.
LEMMA EnterLoopSteps ==
    ASSUME NEW f, Typed(f), ~f.dead, f.nlabel \in Nat, OpenBlock(f) \in Nat, NEW U, Sound(f, U),
           NEW w, NewLoop(f, w), NEW D \in BOOLEAN, ~D
    PROVE  Steps(f, EnterLoop(f, w), Idle, w, U, D)
<1> DEFINE g == EnterLoop(f, w)
           E == {<<OpenBlock(f), w.header>>}
<1>0. w.headerLabel = f.nlabel
      BY Zenon DEF NewLoop
<1>1. PICK is : /\ Opened(f, g, is, {<<OpenBlock(f), w.header>>}, w.headerLabel)
                /\ g.dead = f.dead /\ Plain(g.instrs) /\ g.nlabel = f.nlabel + 3
                /\ IsAlive(f) => Splits(is, {})
      BY EnterLoopOpens
<1> HIDE DEF g
<1>2. Arrives(g, f.nlabel, f.nlabel + 3)
      BY <1>0, <1>1 DEF Opened, Arrives
<1>3. OpenBlock(f) \in U \/ Splits(is, {})
      BY <1>1 DEF Sound
<1>4. StepOK(f, g, is, E, Idle, w, U, D)
      BY <1>1, <1>2, <1>3, LoopStepOK
<1>4a. Opened(f, g, is, E, w.headerLabel)
      BY <1>1
<1> HIDE DEF E
<1>5. Steps(f, g, Idle, w, U, D)
      BY <1>1, <1>4, <1>4a DEF Steps, Opened
<1> QED BY <1>5, Zenon DEF g

\* The continuing block of a loop.
LEMMA ContinuingSteps ==
    ASSUME NEW f, Typed(f), NEW U, Sound(f, U), NEW o, FrameFacts(f, o), NEW w,
           EntersCont(f, o, w), w.bodyDead = f.dead, NEW D \in BOOLEAN, D <=> Sealed(w)
    PROVE  Steps(f, EnterContinuing(f, o), o, w, U, D)
<1> DEFINE g == EnterContinuing(f, o)
<1>1. PICK is, E : /\ Opened(f, g, is, E, o.contLabel) /\ Begun(g) /\ g.nlabel = f.nlabel
                   /\ IsAlive(f) => Jumps(is, {o.contLabel})
                   /\ \A e : e \in E <=> ~f.dead /\ e = <<OpenBlock(f), OpenBlock(f) + 1>>
      BY ContinuingOpens
<1> HIDE DEF g
<1>2. Arrives(g, o.contLabel, f.nlabel) /\ Plain(g.instrs)
      BY <1>1 DEF Opened, Arrives, Begun
<1>3. (OpenBlock(f) \in U \/ Jumps(is, {o.contLabel})) /\ DeadEnd(f, U)
      BY <1>1 DEF Sound, IsAlive, DeadEnd
<1>4. StepOK(f, g, is, E, o, w, U, D)
      BY <1>1, <1>2, <1>3, ContinuingStepOK
<1>5. Steps(f, g, o, w, U, D)
      BY <1>1, <1>4 DEF Steps, Opened, Begun
<1> QED BY <1>5, Zenon DEF g

\* The exit of a loop.
LEMMA LeaveLoopSteps ==
    ASSUME NEW f, Typed(f), ~f.dead, NEW U, Sound(f, U), NEW o, FrameFacts(f, o),
           o.k = "loop", o.stage = "cont", Sealed(o) => OpenBlock(f) \in U,
           NEW breakIf \in BOOLEAN, NEW D \in BOOLEAN, ~D
    PROVE  Steps(f, LeaveLoop(f, o, breakIf), o, Idle, U, D)
<1> DEFINE g == LeaveLoop(f, o, breakIf)
           r == ~o.bodyDead \/ o.continues # {}
<1>0. r \in BOOLEAN /\ (r <=> (~o.bodyDead \/ o.continues # {}))
      OBVIOUS
<1>0a. r \/ OpenBlock(f) \in U
      BY DEF Sealed
<1> HIDE DEF r
<1>1. PICK is, E : /\ Opened(f, g, is, E, o.exitLabel) /\ Begun(g) /\ g.nlabel = f.nlabel
                   /\ IsAlive(f) /\ r /\ breakIf => Jumps(is, {o.exitLabel, o.headerLabel})
                   /\ IsAlive(f) /\ r /\ ~breakIf => Jumps(is, {o.headerLabel})
                   /\ \A e : e \in E <=> LoopEdge(o, OpenBlock(f), r, breakIf, e)
      BY <1>0, LeaveLoopOpens
<1> HIDE DEF g
<1>2. Arrives(g, o.exitLabel, f.nlabel) /\ Plain(g.instrs)
      BY <1>1 DEF Opened, Arrives, Begun
<1>3. OpenBlock(f) \in U \/ EndsLoop(o, is, r, breakIf)
      BY <1>0a, <1>1, Zenon DEF Sound, EndsLoop
<1>4. StepOK(f, g, is, E, o, Idle, U, D)
      BY <1>0, <1>1, <1>2, <1>3, LeaveLoopStepOK
<1>5. Steps(f, g, o, Idle, U, D)
      BY <1>1, <1>4 DEF Steps, Opened, Begun
<1> QED BY <1>5, Zenon DEF g

\* The cases and the end of a switch.
LEMMA EnterCaseSteps ==
    ASSUME NEW f, Typed(f), NEW U, Sound(f, U), NEW o, FrameFacts(f, o), Ssa(o.sel), NEW w,
           IsCase(f, o, w), NEW D \in BOOLEAN, ~D
    PROVE  Steps(f, EnterCase(f, o), o, w, U, D)
<1> DEFINE g == EnterCase(f, o)
           l == f.nlabel
<1>0. f.nlabel \in Nat
      BY DEF FrameFacts
<1>1. PICK is : /\ Opened(f, g, is, {}, f.nlabel + 1) /\ Begun(g) /\ g.nlabel = f.nlabel + 2
                /\ IsAlive(f) => Splits(is, {f.nlabel})
      BY <1>0, EnterCaseOpens
<1> HIDE DEF g
<1>3. Arrives(g, f.nlabel + 1, f.nlabel + 2) /\ Plain(g.instrs)
      BY <1>1 DEF Opened, Arrives, Begun
<1>4. EntersArm(f, g, o, w, f.nlabel)
      BY <1>3, CaseEnters
<1>5. NewLabel(f, g, g.label) /\ g.nlabel \in Nat /\ f.nlabel <= g.nlabel /\ g.block = NoBlock
      BY <1>0, <1>3 DEF Arrives, NewLabel
<1>6. OpenBlock(f) \in U \/ Splits(is, {l})
      BY <1>1 DEF Sound
<1>7. l \in Nat /\ f.nlabel <= l /\ EntersArm(f, g, o, w, l)
      BY <1>0, <1>4
<1> HIDE DEF l
<1>8. StepOK(f, g, is, {}, o, w, U, D)
      BY <1>0, <1>3, <1>5, <1>6, <1>7, ArmStepOK
<1>9. Steps(f, g, o, w, U, D)
      BY <1>1, <1>8 DEF Steps, Opened, Begun
<1> QED BY <1>9, Zenon DEF g

\* The end of a case.
LEMMA LeaveCaseSteps ==
    ASSUME NEW f, Typed(f), NEW U, Sound(f, U), NEW o, FrameFacts(f, o), o.k = "switch",
           o.stage = "case", NEW w, LeavesBody(f, o, w, U), NEW D \in BOOLEAN, ~D
    PROVE  Steps(f, LeaveCase(f, o), o, w, U, D)
<1> DEFINE g == LeaveCase(f, o)
<1>1. PICK is, E : /\ Opened(f, g, is, E, o.next) /\ Begun(g) /\ g.nlabel = f.nlabel
                   /\ IsAlive(f) => Jumps(is, {o.merge})
                   /\ \A e : e \in E <=> \/ e = <<o.check, o.check + 1>>
                                         \/ e = <<o.check, OpenBlock(f) + 1>>
      BY LeaveCaseOpens
<1> HIDE DEF g
<1>2. Arrives(g, o.next, f.nlabel) /\ Plain(g.instrs)
      BY <1>1 DEF Opened, Arrives, Begun
<1>3. OpenBlock(f) \in U \/ Jumps(is, {o.merge})
      BY <1>1 DEF Sound
<1>4. StepOK(f, g, is, E, o, w, U, D)
      BY <1>1, <1>2, <1>3, LeaveCaseStepOK
<1>5. Steps(f, g, o, w, U, D)
      BY <1>1, <1>4 DEF Steps, Opened, Begun
<1> QED BY <1>5, Zenon DEF g

\* The merge block of a switch.
LEMMA LeaveSwitchSteps ==
    ASSUME NEW f, Typed(f), NEW U, Sound(f, U), NEW o, FrameFacts(f, o), o.k = "switch",
           o.stage # "case", NEW D \in BOOLEAN, ~D
    PROVE  Steps(f, LeaveSwitch(f, o), o, Idle, U, D)
<1> DEFINE g == LeaveSwitch(f, o)
<1>1. PICK is, E : /\ Opened(f, g, is, E, o.merge) /\ Begun(g) /\ g.nlabel = f.nlabel
                   /\ IsAlive(f) => Jumps(is, {o.merge})
                   /\ \A e : e \in E <=> \E d : /\ d \in o.ends \/ d = OpenBlock(f)
                                                /\ e = <<d, OpenBlock(f) + 1>>
      BY LeaveSwitchOpens
<1> HIDE DEF g
<1>2. Arrives(g, o.merge, f.nlabel) /\ Plain(g.instrs)
      BY <1>1 DEF Opened, Arrives, Begun
<1>3. OpenBlock(f) \in U \/ Jumps(is, {o.merge})
      BY <1>1 DEF Sound
<1>3a. \A e : e \in E <=> SwitchEdge(o, OpenBlock(f), e)
      BY <1>1, Zenon DEF SwitchEdge
<1>4. StepOK(f, g, is, E, o, Idle, U, D)
      BY <1>2, <1>3, <1>3a, LeaveSwitchStepOK
<1>5. Steps(f, g, o, Idle, U, D)
      BY <1>1, <1>4 DEF Steps, Opened, Begun
<1> QED BY <1>5, Zenon DEF g

\* inline_call after a callee that ends dead.
LEMMA LeaveCallSteps ==
    ASSUME NEW f, Typed(f), f.dead, f.nlabel \in Nat, NEW U, OpenBlock(f) \in U \/ Plain(f.instrs),
           NEW o, o.k = "call", NEW D \in BOOLEAN, ~D
    PROVE  Steps(f, LeaveCall(f, o), o, Idle, U, D)
<1> DEFINE g == LeaveCall(f, o)
           is == f.instrs
           Z == {}
<1>1. /\ IsTranslator(g) /\ Ssa(g.vs) /\ Ssa(g.nssa) /\ g.dead = FALSE
      /\ Moves(f, g, f.instrs, {}) /\ g.label = f.nlabel
      /\ g.nlabel = f.nlabel + 1 /\ g.block = OpenBlock(f) /\ Plain(g.instrs)
      BY LeaveCallMoves
<1> HIDE DEF g
<1>2. OpenBlock(f) \in U \/ Splits(is, {})
      BY EndCode
<1>2a. Moves(f, g, is, Z)
      BY <1>1
<1> HIDE DEF is
<1>3. StepOK(f, g, is, Z, o, Idle, U, D)
      BY <1>1, <1>2, LeaveCallStepOK
<1> HIDE DEF Z
<1>4. Steps(f, g, o, Idle, U, D)
      BY <1>1, <1>2a, <1>3 DEF Steps
<1> QED BY <1>4, Zenon DEF g

----------------------------------------------------------------------------
(* The actions                                                             *)

\* What the invariant says of the translator f between two statements.
Ripe(f, s, U) ==
    /\ Typed(f) /\ Sequence(f.blocks) /\ Sequence(s) /\ SsaOK(f, s) /\ Graph(f, s, U)
    /\ f.nlabel \in Nat /\ OpenBlock(f) \in Nat
    /\ OpenBlock(f) \in U \/ Plain(f.instrs)
    /\ f.dead /\ (Len(s) > 0 => s[Len(s)].k # "call") => OpenBlock(f) \in U
\* The invariant says it of every state of the translation.
LEMMA RipeState ==
    ASSUME Translating, Good(ft, frames)
    PROVE  \E U : Ripe(ft, frames, U)
<1>1. PICK U : Graph(ft, frames, U) /\ DeadOK(ft, frames, U)
      BY DEF Good
<1>2. SsaOK(ft, frames) /\ Ssa(ft.vs) /\ Ssa(ft.nssa)
      BY DEF Good, SsaOK
<1>3. Typed(ft) /\ Sequence(ft.blocks) /\ Sequence(frames)
      BY <1>2 DEF Translating, Ready, Busy, Fields, FramesOK, Typed
<1>4. ft.nlabel \in Nat /\ (OpenBlock(ft) \in U \/ Plain(ft.instrs))
      BY <1>1 DEF Graph, LabelsOK, OpenOK
<1>5. OpenBlock(ft) \in Nat
  <2>1. Len(ft.blocks) \in Nat
        BY <1>3, AppendSequence
  <2> QED BY <2>1 DEF OpenBlock
<1>6. ft.dead /\ (Len(frames) > 0 => frames[Len(frames)].k # "call") => OpenBlock(ft) \in U
      BY <1>1 DEF DeadOK
<1> QED BY <1>1, <1>2, <1>3, <1>4, <1>5, <1>6 DEF Ripe

\* Where a statement or the end of one that is no call stands.
LEMMA RipeSound ==
    ASSUME NEW f, NEW s, NEW U, Ripe(f, s, U), ~f.dead \/ (Len(s) > 0 => s[Len(s)].k # "call")
    PROVE  Sound(f, U)
BY DEF Ripe, Sound, IsAlive

\* The blocks stay as they are.
LEMMA StayGood ==
    ASSUME NEW f, NEW s, NEW U, Ripe(f, s, U), NEW g, Stays(f, g), Ssa(g.vs), Ssa(g.nssa),
           OpenBlock(f) \in U \/ Plain(g.instrs),
           g.dead => OpenBlock(f) \in U \/ (Len(s) > 0 /\ s[Len(s)].k = "call")
    PROVE  Good(g, s)
<1>1. Graph(g, s, U)
      BY StayGraph DEF Ripe
<1>2. OpenBlock(g) = OpenBlock(f)
      BY DEF Stays, OpenBlock
<1>3. DeadOK(g, s, U)
      BY <1>2 DEF DeadOK
<1>4. SsaOK(g, s)
      BY SsaStep DEF Ripe
<1> QED BY <1>1, <1>3, <1>4 DEF Good

\* Statement::Store.
LEMMA StoreGood == ASSUME Translating, Good(ft, frames), Store PROVE Good(ft', frames')
<1> DEFINE v == ft.nssa
           c == Len(prog) + 1
           i == Def(v, c)
           t == Push(ft, i)
           y == t.nssa + 1
           x == SetVsNext(t, v, y)
<1>1. PICK U : Ripe(ft, frames, U)
      BY RipeState
<1>2. ~ft.dead /\ frames' = frames
      BY DEF Store, AtStatement
<1>3. ft' = x
      BY DEF Store, SetVsNext
<1>4. IsTranslator(ft) /\ Ssa(ft.nssa)
      BY <1>1 DEF Ripe, Typed
<1> HIDE DEF i
<1>5. /\ IsTranslator(t) /\ t.blocks = ft.blocks /\ t.edges = ft.edges
      /\ t.label = ft.label /\ t.block = ft.block /\ t.dead = ft.dead
      /\ t.nssa = ft.nssa /\ t.nlabel = ft.nlabel /\ t.instrs = Append(ft.instrs, i)
      BY <1>2, <1>4, PushAll
<1> HIDE DEF t
<1>6. Ssa(v) /\ Ssa(y)
      BY <1>4, <1>5 DEF Ssa, NoSSA
<1> HIDE DEF v, y, c
<1>7. /\ x.blocks = t.blocks /\ x.edges = t.edges
      /\ x.instrs = t.instrs /\ x.label = t.label /\ x.block = t.block
      /\ x.dead = t.dead /\ x.vs = v /\ x.nssa = y /\ x.nlabel = t.nlabel
      BY <1>5, SetVsNextAll
<1> HIDE DEF x
<1>8. Stays(ft, x)
      BY <1>1, <1>5, <1>7 DEF Stays, Ripe
<1>9. OpenBlock(ft) \in U \/ Plain(x.instrs)
  <2>1. Plain(ft.instrs) => Plain(Append(ft.instrs, i))
        BY PlainStart DEF i
  <2> QED BY <1>1, <1>5, <1>7, <2>1 DEF Ripe
<1>10. Good(x, frames)
      BY <1>1, <1>2, <1>5, <1>6, <1>7, <1>8, <1>9, StayGood
<1> QED BY <1>2, <1>3, <1>10

\* Statement::Return.  In an inlined call it stands in the callee's own
\* block.
LEMMA ReturnGood ==
    ASSUME Translating, Good(ft, frames), Return, "nested return in call" \notin Forms
    PROVE  Good(ft', frames')
<1> DEFINE i == Inlining
           x == ReturnTo(ft, i)
<1>1. PICK U : Ripe(ft, frames, U)
      BY RipeState
<1>2. ~ft.dead /\ frames' = frames /\ ft' = x
      BY DEF Return, AtStatement
<1>3. i => Depth > 0 /\ Frame.k = "call"
      BY Zenon DEF Return, InForm, Inner
<1>4. Typed(ft) /\ ft.nlabel \in Nat /\ Ssa(ft.vs) /\ Ssa(ft.nssa)
      BY <1>1 DEF Ripe, Typed
<1>5. Sound(ft, U)
      BY <1>1, <1>2, RipeSound
<1>6. i \in BOOLEAN
      BY DEF Inlining
<1> HIDE DEF i
<1>7. CASE ~i
  <2> DEFINE d == TRUE
  <2>1. d \in BOOLEAN /\ d
        OBVIOUS
  <2> HIDE DEF d
  <2>2. Steps(ft, x, Idle, Idle, U, d)
        BY <1>4, <1>5, <1>7, <2>1, ReturnSteps
  <2> HIDE DEF x
  <2>3. Good(x, frames)
        BY <1>1, <2>1, <2>2, SameStep DEF Ripe
  <2> QED BY <1>2, <2>3
<1>8. CASE i
  <2>1. Stays(ft, x) /\ x.instrs = ft.instrs /\ x.vs = ft.vs /\ x.nssa = ft.nssa
        BY <1>4, <1>8, ReturnStays
  <2> HIDE DEF x
  <2>2. Len(frames) > 0 /\ frames[Len(frames)].k = "call"
        BY <1>3, <1>8 DEF Depth, Frame
  <2>3. OpenBlock(ft) \in U \/ Plain(x.instrs)
        BY <1>1, <2>1 DEF Ripe
  <2>4. Good(x, frames)
        BY <1>1, <1>4, <2>1, <2>2, <2>3, StayGood
  <2> QED BY <1>2, <2>4
<1> QED BY <1>6, <1>7, <1>8

\* A loop with one Break or one Continue more.
WithBreak(fr, B) == [fr EXCEPT !.breaks = B]
WithContinue(fr, C) == [fr EXCEPT !.continues = C]
SameLoop(fr, w) ==
    /\ w.k = fr.k /\ w.stage = fr.stage /\ w.header = fr.header
    /\ w.headerLabel = fr.headerLabel /\ w.contLabel = fr.contLabel /\ w.exitLabel = fr.exitLabel
\* Only the breaks change.
LEMMA WithBreakFields ==
    ASSUME NEW fr, IsLoop(fr), NEW B
    PROVE  LET w == WithBreak(fr, B)
           IN  SameLoop(fr, w) /\ w.breaks = B /\ w.continues = fr.continues
<1> DEFINE w == WithBreak(fr, B)
<1>1. w = [fr EXCEPT !.breaks = B]
      BY DEF WithBreak
<1> HIDE DEF w
<1>2. w = [k |-> fr.k, stage |-> fr.stage, headerLabel |-> fr.headerLabel,
           contLabel |-> fr.contLabel, exitLabel |-> fr.exitLabel, headerPhi |-> fr.headerPhi,
           exitPhi |-> fr.exitPhi, contPhi |-> fr.contPhi, header |-> fr.header,
           cont |-> fr.cont, bodyDead |-> fr.bodyDead, breaks |-> B,
           continues |-> fr.continues]
      BY <1>1 DEF IsLoop
<1>3. SameLoop(fr, w) /\ w.breaks = B /\ w.continues = fr.continues
      BY <1>2 DEF SameLoop
<1> QED BY <1>3 DEF w

\* Only the continues change.
LEMMA WithContinueFields ==
    ASSUME NEW fr, IsLoop(fr), NEW C
    PROVE  LET w == WithContinue(fr, C)
           IN  SameLoop(fr, w) /\ w.breaks = fr.breaks /\ w.continues = C
<1> DEFINE w == WithContinue(fr, C)
<1>1. w = [fr EXCEPT !.continues = C]
      BY DEF WithContinue
<1> HIDE DEF w
<1>2. w = [k |-> fr.k, stage |-> fr.stage, headerLabel |-> fr.headerLabel,
           contLabel |-> fr.contLabel, exitLabel |-> fr.exitLabel, headerPhi |-> fr.headerPhi,
           exitPhi |-> fr.exitPhi, contPhi |-> fr.contPhi, header |-> fr.header,
           cont |-> fr.cont, bodyDead |-> fr.bodyDead, breaks |-> fr.breaks,
           continues |-> C]
      BY <1>1 DEF IsLoop
<1>3. SameLoop(fr, w) /\ w.breaks = fr.breaks /\ w.continues = C
      BY <1>2 DEF SameLoop
<1> QED BY <1>3 DEF w

\* The jump's block is all that the loop owes more.
LEMMA LendsOne ==
    ASSUME NEW f, NEW fr, fr.k = "loop", fr.stage = "body", SelfOK(fr), NEW w, SameLoop(fr, w)
    PROVE  /\ w.breaks = fr.breaks \cup {OpenBlock(f)} /\ w.continues = fr.continues
              => Lends(f, fr, w, fr.exitLabel)
           /\ w.breaks = fr.breaks /\ w.continues = fr.continues \cup {OpenBlock(f)}
              => Lends(f, fr, w, fr.contLabel)
<1> DEFINE n == OpenBlock(f)
           xl == fr.exitLabel
           cl == fr.contLabel
           B == fr.breaks
           C == fr.continues
<1>1. /\ \A b, l : Owes(fr, b, l) <=> \/ b \in B /\ l = xl
                                      \/ b \in C /\ l = cl
      /\ \A b : ~OwesNext(fr, b)
      /\ \A l : Named(fr, l) <=> l = xl \/ l = cl
      /\ \A b, l : Placed(fr, b, l) <=> b = fr.header /\ l = fr.headerLabel
      /\ ~Sealed(fr) /\ cl # xl
      BY BodyFrame
<1>2. /\ w.k = "loop" /\ w.stage = "body" /\ w.header = fr.header
      /\ w.headerLabel = fr.headerLabel /\ w.contLabel = cl /\ w.exitLabel = xl
      BY DEF SameLoop
<1>3. /\ \A b, l : Owes(w, b, l) <=> \/ b \in w.breaks /\ l = w.exitLabel
                                     \/ b \in w.continues /\ l = w.contLabel
      /\ \A b : ~OwesNext(w, b)
      /\ \A l : Named(w, l) <=> l = w.exitLabel \/ l = w.contLabel
      /\ \A b, l : Placed(w, b, l) <=> b = w.header /\ l = w.headerLabel
      /\ ~Sealed(w) /\ (SelfOK(w) <=> w.contLabel # w.exitLabel)
      BY <1>2, BodyFrame
<1> HIDE DEF n, xl, cl, B, C
<1>4. /\ \A l : Named(w, l) <=> Named(fr, l)
      /\ \A b, l : Placed(w, b, l) <=> Placed(fr, b, l)
      /\ \A b : OwesNext(w, b) <=> OwesNext(fr, b)
      /\ ~Sealed(w) /\ SelfOK(w) /\ w.k = "loop" /\ w.header = fr.header
      BY <1>1, <1>2, <1>3
<1>5. ASSUME w.breaks = B \cup {n}, w.continues = C PROVE Lends(f, fr, w, xl)
  <2>1. \A b, l : Owes(w, b, l) <=> Owes(fr, b, l) \/ (b = n /\ l = xl)
        BY <1>1, <1>2, <1>3, <1>5
  <2> QED BY <1>4, <2>1 DEF Lends, n
<1>6. ASSUME w.breaks = B, w.continues = C \cup {n} PROVE Lends(f, fr, w, cl)
  <2>1. \A b, l : Owes(w, b, l) <=> Owes(fr, b, l) \/ (b = n /\ l = cl)
        BY <1>1, <1>2, <1>3, <1>6
  <2> QED BY <1>4, <2>1 DEF Lends, n
<1> QED BY <1>5, <1>6 DEF n, xl, cl, B, C

\* Statements Break and Continue change the innermost loop of the function.
LEMMA JumpGood ==
    ASSUME NEW f, NEW s, NEW U, Ripe(f, s, U), ~f.dead, NEW k \in 1 .. Len(s), NEW l, Named(s[k], l),
           NEW w, ~Sealed(s[k]), Lends(f, s[k], w, l), NEW p
    PROVE  Good(JumpOut(f, p, l), Changed(s, k, w))
<1> DEFINE d == TRUE
           o == s[k]
           g == JumpOut(f, p, l)
<1>1. d \in BOOLEAN /\ d
      OBVIOUS
<1>2. FrameFacts(f, o)
      BY FrameHas DEF Ripe
<1>3. Typed(f) /\ Sound(f, U)
      BY RipeSound DEF Ripe
<1>4. Lends(f, o, w, l) /\ Named(o, l) /\ ~Sealed(o) /\ ~Sealed(w) /\ w.k = "loop"
      BY DEF Lends
<1>5. FrameSsa(w)
      BY <1>4 DEF FrameSsa
<1> HIDE DEF d, o
<1>6. Steps(f, g, o, w, U, d)
      BY <1>1, <1>2, <1>3, <1>4, JumpSteps
<1> HIDE DEF g
<1>7. Steps(f, g, s[k], w, U, d) /\ ~Sealed(s[k])
      BY <1>4, <1>6 DEF o
<1>8. Good(g, Changed(s, k, w))
      BY <1>1, <1>4, <1>5, <1>7, TopStep DEF Ripe
<1> QED BY <1>8 DEF g

\* The loop a jump belongs to is in its body.
LEMMA JumpFrame ==
    ASSUME Translating, LoopFrames # {}, MayJump, NEW U, Ripe(ft, frames, U)
    PROVE  LET fr == frames[LastLoop]
           IN  /\ LastLoop \in 1 .. Len(frames) /\ fr.k = "loop" /\ fr.stage = "body"
               /\ IsLoop(fr) /\ SelfOK(fr) /\ ~Sealed(fr)
               /\ Named(fr, fr.exitLabel) /\ Named(fr, fr.contLabel)
<1> DEFINE L == LastLoop
           fr == frames[L]
<1>1. L \in LoopFrames /\ L \in 1 .. Len(frames) /\ fr.k = "loop" /\ IsLoop(fr)
      BY JumpLoop DEF LoopOK
<1>2. fr.stage = "body"
      BY <1>1 DEF MayJump
<1>3. SelfOK(fr)
  <2>1. NamesOK(ft, frames)
        BY DEF Ripe, Graph
  <2> QED BY <1>1, <2>1 DEF NamesOK
<1> HIDE DEF fr, L
<1>4. ~Sealed(fr) /\ Named(fr, fr.exitLabel) /\ Named(fr, fr.contLabel)
      BY <1>1, <1>2, BodyFrame
<1> QED BY <1>1, <1>2, <1>3, <1>4 DEF fr, L

\* Statement::Break keeps the invariant.
LEMMA BreakGood == ASSUME Translating, Good(ft, frames), Break PROVE Good(ft', frames')
<1> DEFINE L == LastLoop
           fr == frames[L]
           B == fr.breaks \cup {OpenBlock(ft)}
           w == WithBreak(fr, B)
           p == fr.exitPhi
           l == fr.exitLabel
           x == JumpOut(ft, p, l)
<1>1. PICK U : Ripe(ft, frames, U)
      BY RipeState
<1>2. ~ft.dead /\ MayJump /\ LoopFrames # {}
      BY DEF Break, AtStatement
<1>3. /\ L \in 1 .. Len(frames) /\ fr.k = "loop" /\ fr.stage = "body"
      /\ IsLoop(fr) /\ SelfOK(fr) /\ ~Sealed(fr) /\ Named(fr, l)
      BY <1>1, <1>2, JumpFrame
<1>4. ft' = x
      BY DEF Break
<1>5. frames' = Changed(frames, L, w)
  <2>1. frames' = [frames EXCEPT ![L].breaks = @ \cup {OpenBlock(ft)}]
        BY DEF Break, NextBlockId, OpenBlock
  <2> QED BY <2>1 DEF Changed, WithBreak
<1>5a. fr = frames[L]
      OBVIOUS
<1> HIDE DEF fr, L
<1>6. SameLoop(fr, w) /\ w.breaks = B /\ w.continues = fr.continues
      BY <1>3, WithBreakFields
<1> HIDE DEF w
<1>7. Lends(ft, fr, w, l)
      BY <1>3, <1>6, LendsOne
<1> HIDE DEF l, p, B
<1>8. Good(x, Changed(frames, L, w))
      BY <1>1, <1>2, <1>3, <1>5a, <1>7, JumpGood
<1> HIDE DEF x
<1> QED BY <1>4, <1>5, <1>8

\* Statement::Continue keeps the invariant.
LEMMA ContinueGood == ASSUME Translating, Good(ft, frames), Continue PROVE Good(ft', frames')
<1> DEFINE L == LastLoop
           fr == frames[L]
           C == fr.continues \cup {OpenBlock(ft)}
           w == WithContinue(fr, C)
           p == fr.contPhi
           l == fr.contLabel
           x == JumpOut(ft, p, l)
<1>1. PICK U : Ripe(ft, frames, U)
      BY RipeState
<1>2. ~ft.dead /\ MayJump /\ LoopFrames # {}
      BY DEF Continue, AtStatement
<1>3. /\ L \in 1 .. Len(frames) /\ fr.k = "loop" /\ fr.stage = "body"
      /\ IsLoop(fr) /\ SelfOK(fr) /\ ~Sealed(fr) /\ Named(fr, l)
      BY <1>1, <1>2, JumpFrame
<1>4. ft' = x
      BY DEF Continue
<1>5. frames' = Changed(frames, L, w)
  <2>1. frames' = [frames EXCEPT ![L].continues = @ \cup {OpenBlock(ft)}]
        BY DEF Continue, NextBlockId, OpenBlock
  <2> QED BY <2>1 DEF Changed, WithContinue
<1>5a. fr = frames[L]
      OBVIOUS
<1> HIDE DEF fr, L
<1>6. SameLoop(fr, w) /\ w.breaks = fr.breaks /\ w.continues = C
      BY <1>3, WithContinueFields
<1> HIDE DEF w
<1>7. Lends(ft, fr, w, l)
      BY <1>3, <1>6, LendsOne
<1> HIDE DEF l, p, C
<1>8. Good(x, Changed(frames, L, w))
      BY <1>1, <1>2, <1>3, <1>5a, <1>7, JumpGood
<1> HIDE DEF x
<1> QED BY <1>4, <1>5, <1>8

\* The innermost frame, by the invariant.
LEMMA TopFacts ==
    ASSUME NEW f, NEW s, NEW U, Ripe(f, s, U), Len(s) > 0
    PROVE  /\ Len(s) \in 1 .. Len(s) /\ FrameFacts(f, s[Len(s)]) /\ FrameSsa(s[Len(s)])
           /\ Sealed(s[Len(s)]) => OpenBlock(f) \in U
<1>1. Len(s) \in Nat
      BY AppendSequence DEF Ripe
<1> DEFINE k == Len(s)
<1>2. k \in 1 .. Len(s)
      BY <1>1
<1> HIDE DEF k
<1>3. FrameFacts(f, s[k])
      BY <1>2, FrameHas DEF Ripe
<1>4. FrameSsa(s[k])
      BY <1>2 DEF Ripe, SsaOK
<1>5. Sealed(s[k]) => OpenBlock(f) \in U
  <2>1. SealOK(f, s, U)
        BY DEF Ripe, Graph
  <2> QED BY <1>2, <2>1 DEF SealOK
<1> QED BY <1>2, <1>3, <1>4, <1>5 DEF k

\* The innermost frame is replaced or popped, or one is pushed, and the open
\* block is alive.
LEMMA LiveGood ==
    ASSUME NEW f, NEW s, NEW U, Ripe(f, s, U), NEW g, NEW w, NEW D \in BOOLEAN
    PROVE  /\ Len(s) > 0 /\ FrameSsa(w) /\ Steps(f, g, s[Len(s)], w, U, D)
              => Good(g, Changed(s, Len(s), w))
           /\ Len(s) > 0 /\ Steps(f, g, s[Len(s)], Idle, U, D)
              => Good(g, SubSeq(s, 1, Len(s) - 1))
           /\ FrameSsa(w) /\ Steps(f, g, Idle, w, U, D) => Good(g, Append(s, w))
<1>1. ASSUME Len(s) > 0, FrameSsa(w), Steps(f, g, s[Len(s)], w, U, D)
      PROVE  Good(g, Changed(s, Len(s), w))
  <2> DEFINE k == Len(s)
  <2>1. k \in 1 .. Len(s) /\ Steps(f, g, s[k], w, U, D) /\ k = Len(s)
        BY <1>1, TopFacts
  <2> HIDE DEF k
  <2>2. Good(g, Changed(s, k, w))
        BY <1>1, <2>1, TopStep DEF Ripe
  <2> QED BY <2>1, <2>2
<1>2. ASSUME Len(s) > 0, Steps(f, g, s[Len(s)], Idle, U, D)
      PROVE  Good(g, SubSeq(s, 1, Len(s) - 1))
      BY <1>2, PopStep DEF Ripe
<1>3. ASSUME FrameSsa(w), Steps(f, g, Idle, w, U, D) PROVE Good(g, Append(s, w))
      BY <1>3, PushStep DEF Ripe
<1> QED BY <1>1, <1>2, <1>3

\* translate_if up to the accept arm.
LEMMA IfGood == ASSUME Translating, Good(ft, frames), If PROVE Good(ft', frames')
<1> DEFINE d == FALSE
<1>0. d \in BOOLEAN /\ ~d
      OBVIOUS
<1> HIDE DEF d
<1>1. PICK U : Ripe(ft, frames, U)
      BY RipeState
<1>2. ~ft.dead
      BY Zenon DEF If, AtStatement
<1>3. Typed(ft) /\ ft.nlabel \in Nat /\ OpenBlock(ft) \in Nat /\ Sound(ft, U) /\ Ssa(ft.vs)
      BY <1>1, <1>2, RipeSound DEF Ripe, Typed
<1>4. ASSUME NEW stage
      PROVE  LET w == IfFrame(ft, stage)
             IN  NewIf(ft, w) /\ w.stage = stage /\ w.pre = ft.vs
      BY DEF IfFrame, NewIf, OpenBlock, NextBlockId
<1>5. CASE frames' = Append(frames, IfFrame(ft, "accept")) /\ ft' = IfNoElse(ft)
  <2> DEFINE w == IfFrame(ft, "accept")
             x == IfNoElse(ft)
  <2>1. NewIf(ft, w) /\ w.stage = "accept" /\ w.pre = ft.vs
        BY <1>4
  <2>2. ft' = x /\ frames' = Append(frames, w)
        BY <1>5
  <2> HIDE DEF w
  <2>3. Steps(ft, x, Idle, w, U, d)
        BY <1>0, <1>2, <1>3, <2>1, IfNoElseSteps
  <2> HIDE DEF x
  <2>4. FrameSsa(w)
        BY <1>3, <2>1 DEF FrameSsa, NewIf
  <2>5. Good(x, Append(frames, w))
        BY <1>0, <1>1, <2>3, <2>4, LiveGood
  <2> QED BY <2>2, <2>5
<1>6. CASE frames' = Append(frames, IfFrame(ft, "accept of two")) /\ ft' = IfElse(ft)
  <2> DEFINE y == "accept of two"
             w == IfFrame(ft, y)
             x == IfElse(ft)
  <2>1. NewIf(ft, w) /\ w.stage = y /\ w.pre = ft.vs
        BY <1>4, Zenon
  <2>2. ft' = x /\ frames' = Append(frames, w)
        BY <1>6, Zenon
  <2> HIDE DEF w
  <2>1a. TwoArms(w)
        BY <2>1, Zenon DEF TwoArms, NewIf
  <2>1b. y # "reject" /\ y = y
        BY Zenon
  <2> HIDE DEF y
  <2>3. Steps(ft, x, Idle, w, U, d)
        BY <1>0, <1>2, <1>3, <2>1, <2>1a, IfElseSteps
  <2> HIDE DEF x
  <2>4. FrameSsa(w)
        BY <1>3, <2>1, <2>1b DEF FrameSsa, NewIf
  <2>5. Good(x, Append(frames, w))
        BY <1>0, <1>1, <2>3, <2>4, LiveGood
  <2> QED BY <2>2, <2>5, Zenon
<1> QED BY <1>5, <1>6, Zenon DEF If

\* The innermost frame of a statement that comes to its end.
LEMMA EndFrame ==
    ASSUME Translating, Good(ft, frames), Depth > 0, Frame.k # "call"
    PROVE  \E U : /\ Ripe(ft, frames, U) /\ Sound(ft, U) /\ Typed(ft)
                  /\ FrameFacts(ft, Frame) /\ FrameSsa(Frame)
                  /\ Sealed(Frame) => OpenBlock(ft) \in U
                  /\ FrameOK(ft, Frame) /\ Ready(ft) /\ Len(frames) > 0
                  /\ Frame = frames[Len(frames)]
<1>1. PICK U : Ripe(ft, frames, U)
      BY RipeState
<1>2. FrameOK(ft, Frame) /\ Frame = frames[Len(frames)] /\ Len(frames) > 0
      BY TopFrame DEF Depth
<1>3. Sound(ft, U)
      BY <1>1, <1>2, RipeSound
<1>4. /\ FrameFacts(ft, frames[Len(frames)]) /\ FrameSsa(frames[Len(frames)])
      /\ Sealed(frames[Len(frames)]) => OpenBlock(ft) \in U
      BY <1>1, <1>2, TopFacts
<1>5. Typed(ft) /\ Ready(ft)
      BY <1>1 DEF Ripe, Translating
<1>6. /\ FrameFacts(ft, Frame) /\ FrameSsa(Frame)
      /\ Sealed(Frame) => OpenBlock(ft) \in U
      BY <1>2, <1>4
<1> QED BY <1>1, <1>2, <1>3, <1>5, <1>6

\* The end of the accept arm.
ToReject(fr, s, b, d, v) ==
    [fr EXCEPT !.stage = "reject", !.start = s, !.acceptEnd = b, !.acceptDead = d, !.acceptVs = v]
\* The fields of the frame in its reject arm.
LEMMA ToRejectFields ==
    ASSUME NEW fr, IsIf(fr), NEW s, NEW b, NEW d, NEW v
    PROVE  LET w == ToReject(fr, s, b, d, v)
           IN  /\ w.k = fr.k /\ w.stage = "reject" /\ w.merge = fr.merge /\ w.pre = fr.pre
               /\ w.cond = fr.cond /\ w.start = s /\ w.acceptEnd = b
               /\ w.acceptDead = d /\ w.acceptVs = v
<1> DEFINE w == ToReject(fr, s, b, d, v)
<1>1. w = [fr EXCEPT !.stage = "reject", !.start = s, !.acceptEnd = b, !.acceptDead = d,
                     !.acceptVs = v]
      BY DEF ToReject
<1> HIDE DEF w
<1>2. w = [k |-> fr.k, stage |-> "reject", merge |-> fr.merge, phi |-> fr.phi, pre |-> fr.pre,
           cond |-> fr.cond, start |-> s, acceptEnd |-> b, acceptDead |-> d, acceptVs |-> v]
      BY <1>1 DEF IsIf
<1>3. /\ w.k = fr.k /\ w.stage = "reject" /\ w.merge = fr.merge /\ w.pre = fr.pre
      /\ w.cond = fr.cond /\ w.start = s /\ w.acceptEnd = b
      /\ w.acceptDead = d /\ w.acceptVs = v
      BY <1>2
<1> QED BY <1>3, Zenon DEF w

\* The end of the accept arm keeps the invariant.
LEMMA ElseGood == ASSUME Translating, Good(ft, frames), Else PROVE Good(ft', frames')
<1> DEFINE d == FALSE
           fr == Frame
           a == AddEdge(EndArm(ft, fr), fr.cond, fr.start)
           x == [StartBlockAt(a, fr.merge + 1) EXCEPT !.vs = fr.pre, !.dead = FALSE]
           s == NextBlockId(a)
           b == NextBlockId(ft)
           e == ft.dead
           v == ft.vs
           w == ToReject(fr, s, b, e, v)
<1>0. d \in BOOLEAN /\ ~d
      OBVIOUS
<1> HIDE DEF d
<1>1. TwoArms(fr) /\ Depth > 0
      BY Zenon DEF Else, Inner, TwoArms
<1>2. ft' = x /\ frames' = SetFrame(w)
      BY Zenon DEF Else, ToReject
<1>2a. fr.k = "if"
      BY <1>1, Zenon DEF TwoArms
<1>2b. Frame.k # "call"
      BY <1>2a
<1>3. PICK U : /\ Ripe(ft, frames, U) /\ Sound(ft, U) /\ Typed(ft)
               /\ FrameFacts(ft, fr) /\ FrameSsa(fr) /\ FrameOK(ft, fr) /\ Ready(ft)
               /\ Len(frames) > 0 /\ fr = frames[Len(frames)]
      BY <1>1, <1>2b, EndFrame
<1>3a. SetFrame(w) = Changed(frames, Len(frames), w)
      BY DEF SetFrame, Changed, Depth
<1> HIDE DEF fr
<1>4. IfOK(ft, fr)
      BY <1>2a, <1>3, Zenon DEF FrameOK
<1>5. IsIf(fr)
      BY <1>4, Zenon DEF IfOK
<1>6. s = Len(ft.blocks) + 2
      BY <1>3, <1>4, ElseKeeps
<1>7. s = OpenBlock(ft) + 1 /\ b = OpenBlock(ft)
  <2>1. Len(ft.blocks) \in Nat
        BY <1>3, BlockCount DEF Ready, Busy
  <2> QED BY <1>6, <2>1 DEF OpenBlock, NextBlockId
<1>8. Ssa(fr.pre) /\ Ssa(v) /\ e \in BOOLEAN /\ (e => OpenBlock(ft) \in U)
      BY <1>2a, <1>3 DEF FrameSsa, Typed, Sound, IsAlive
<1> HIDE DEF s, b, e, v
<1>9. /\ w.k = fr.k /\ w.stage = "reject" /\ w.merge = fr.merge /\ w.pre = fr.pre
      /\ w.cond = fr.cond /\ w.start = s /\ w.acceptEnd = b
      /\ w.acceptDead = e /\ w.acceptVs = v
      BY <1>5, ToRejectFields
<1> HIDE DEF w
<1>10. EntersReject(ft, fr, w)
      BY <1>1, <1>2a, <1>7, <1>9, Zenon DEF EntersReject, TwoArms
<1>11. DeadArm(ft, w, U) /\ FrameSsa(w)
      BY <1>2a, <1>8, <1>9 DEF DeadArm, FrameSsa
<1>12. Steps(ft, x, fr, w, U, d)
      BY <1>0, <1>3, <1>8, <1>10, <1>11, ElseSteps
<1> HIDE DEF x
<1>13. Steps(ft, x, frames[Len(frames)], w, U, d)
      BY <1>3, <1>12
<1>14. Good(x, Changed(frames, Len(frames), w))
      BY <1>0, <1>3, <1>11, <1>13, LiveGood
<1> QED BY <1>2, <1>3a, <1>14, Zenon

\* The merge block of an if.
LEMMA EndIfGood == ASSUME Translating, Good(ft, frames), EndIf PROVE Good(ft', frames')
<1> DEFINE d == FALSE
           fr == Frame
<1>0. d \in BOOLEAN /\ ~d
      OBVIOUS
<1> HIDE DEF d
<1>1. /\ Depth > 0 /\ fr.k = "if" /\ frames' = Pop /\ fr.stage \in {"accept", "reject"}
      /\ ft' = IF fr.stage = "accept" THEN MergeNoElse(ft, fr) ELSE MergeElse(ft, fr)
      BY DEF EndIf, Inner
<1>2. PICK U : /\ Ripe(ft, frames, U) /\ Sound(ft, U) /\ Typed(ft)
               /\ FrameFacts(ft, fr) /\ FrameSsa(fr) /\ Len(frames) > 0
               /\ fr = frames[Len(frames)]
      BY <1>1, EndFrame
<1>2a. Pop = SubSeq(frames, 1, Len(frames) - 1)
      BY DEF Pop, Depth
<1> HIDE DEF fr
<1>3. Steps(ft, ft', fr, Idle, U, d)
  <2>0. Ssa(fr.pre)
        BY <1>1, <1>2 DEF FrameSsa
  <2>1. CASE fr.stage = "accept"
    <3> DEFINE x == MergeNoElse(ft, fr)
    <3>1. ft' = x
          BY <1>1, <2>1
    <3>2. Steps(ft, x, fr, Idle, U, d)
          BY <1>0, <1>1, <1>2, <2>0, <2>1, MergeNoElseSteps
    <3> HIDE DEF x
    <3> QED BY <3>1, <3>2
  <2>2. CASE fr.stage = "reject"
    <3> DEFINE x == MergeElse(ft, fr)
    <3>1. ft' = x
          BY <1>1, <2>2
    <3>2. Steps(ft, x, fr, Idle, U, d)
          BY <1>0, <1>1, <1>2, <2>2, MergeElseSteps
    <3> HIDE DEF x
    <3> QED BY <3>1, <3>2
  <2> QED BY <1>1, <2>1, <2>2
<1>4. Steps(ft, ft', frames[Len(frames)], Idle, U, d)
      BY <1>2, <1>3
<1>5. Good(ft', SubSeq(frames, 1, Len(frames) - 1))
      BY <1>0, <1>2, <1>4, LiveGood
<1> QED BY <1>1, <1>2a, <1>5

\* translate_loop up to the body.
LEMMA LoopGood == ASSUME Translating, Good(ft, frames), Loop PROVE Good(ft', frames')
<1> DEFINE d == FALSE
           w == LoopFrame(ft)
           x == EnterLoop(ft, w)
<1>0. d \in BOOLEAN /\ ~d
      OBVIOUS
<1> HIDE DEF d
<1>1. PICK U : Ripe(ft, frames, U)
      BY RipeState
<1>2. ~ft.dead /\ ft' = x /\ frames' = Append(frames, w)
      BY DEF Loop, AtStatement
<1>3. Typed(ft) /\ ft.nlabel \in Nat /\ OpenBlock(ft) \in Nat /\ Sound(ft, U)
      BY <1>1, <1>2, RipeSound DEF Ripe
<1>4. NewLoop(ft, w) /\ w.k = "loop"
      BY DEF LoopFrame, NewLoop, OpenBlock, NextBlockId
<1> HIDE DEF w
<1>5. Steps(ft, x, Idle, w, U, d)
      BY <1>0, <1>2, <1>3, <1>4, EnterLoopSteps
<1> HIDE DEF x
<1>6. FrameSsa(w)
      BY <1>4 DEF FrameSsa
<1>7. Good(x, Append(frames, w))
      BY <1>0, <1>1, <1>5, <1>6, LiveGood
<1> QED BY <1>2, <1>7

\* The continuing block.
ToCont(fr, d, c) == [fr EXCEPT !.stage = "cont", !.bodyDead = d, !.cont = c]
\* The fields of the frame in its continuing block.
LEMMA ToContFields ==
    ASSUME NEW fr, IsLoop(fr), NEW d, NEW c
    PROVE  LET w == ToCont(fr, d, c)
           IN  /\ w.k = fr.k /\ w.stage = "cont" /\ w.header = fr.header
               /\ w.headerLabel = fr.headerLabel /\ w.contLabel = fr.contLabel
               /\ w.exitLabel = fr.exitLabel /\ w.breaks = fr.breaks
               /\ w.continues = fr.continues /\ w.cont = c /\ w.bodyDead = d
<1> DEFINE w == ToCont(fr, d, c)
<1>1. w = [fr EXCEPT !.stage = "cont", !.bodyDead = d, !.cont = c]
      BY DEF ToCont
<1> HIDE DEF w
<1>2. w = [k |-> fr.k, stage |-> "cont", headerLabel |-> fr.headerLabel,
           contLabel |-> fr.contLabel, exitLabel |-> fr.exitLabel, headerPhi |-> fr.headerPhi,
           exitPhi |-> fr.exitPhi, contPhi |-> fr.contPhi, header |-> fr.header,
           cont |-> c, bodyDead |-> d, breaks |-> fr.breaks, continues |-> fr.continues]
      BY <1>1 DEF IsLoop
<1>3. /\ w.k = fr.k /\ w.stage = "cont" /\ w.header = fr.header
      /\ w.headerLabel = fr.headerLabel /\ w.contLabel = fr.contLabel
      /\ w.exitLabel = fr.exitLabel /\ w.breaks = fr.breaks
      /\ w.continues = fr.continues /\ w.cont = c /\ w.bodyDead = d
      BY <1>2
<1> QED BY <1>3, Zenon DEF w

\* The start of the continuing block keeps the invariant.
LEMMA ContinuingGood == ASSUME Translating, Good(ft, frames), Continuing PROVE Good(ft', frames')
<1> DEFINE fr == Frame
           e == ft.dead
           c == NextBlockId(ft) + 1
           w == ToCont(fr, e, c)
           x == EnterContinuing(ft, fr)
           d == Sealed(w)
<1>1. Depth > 0 /\ fr.k = "loop" /\ fr.stage = "body" /\ ft' = x /\ frames' = SetFrame(w)
      BY Zenon DEF Continuing, Inner, ToCont
<1>2. PICK U : /\ Ripe(ft, frames, U) /\ Sound(ft, U) /\ Typed(ft)
               /\ FrameFacts(ft, fr) /\ FrameOK(ft, fr)
               /\ Len(frames) > 0 /\ fr = frames[Len(frames)]
      BY <1>1, EndFrame
<1>2a. SetFrame(w) = Changed(frames, Len(frames), w)
      BY DEF SetFrame, Changed, Depth
<1> HIDE DEF fr
<1>3. IsLoop(fr)
      BY <1>1, <1>2 DEF FrameOK, LoopOK
<1>4. c = OpenBlock(ft) + 1 /\ e = ft.dead
      BY DEF NextBlockId, OpenBlock
<1> HIDE DEF e, c
<1>5. /\ w.k = fr.k /\ w.stage = "cont" /\ w.header = fr.header
      /\ w.headerLabel = fr.headerLabel /\ w.contLabel = fr.contLabel
      /\ w.exitLabel = fr.exitLabel /\ w.breaks = fr.breaks
      /\ w.continues = fr.continues /\ w.cont = c /\ w.bodyDead = e
      BY <1>3, ToContFields
<1>6. d \in BOOLEAN /\ (d <=> Sealed(w))
      BY DEF Sealed
<1> HIDE DEF w, d
<1>7. EntersCont(ft, fr, w)
      BY <1>1, <1>4, <1>5 DEF EntersCont
<1>8. w.bodyDead = ft.dead /\ FrameSsa(w)
      BY <1>1, <1>4, <1>5 DEF FrameSsa
<1>9. Steps(ft, x, fr, w, U, d)
      BY <1>2, <1>6, <1>7, <1>8, ContinuingSteps
<1> HIDE DEF x
<1>10. Steps(ft, x, frames[Len(frames)], w, U, d)
      BY <1>2, <1>9
<1>11. Good(x, Changed(frames, Len(frames), w))
      BY <1>2, <1>6, <1>8, <1>10, LiveGood
<1> QED BY <1>1, <1>2a, <1>11

\* The exit of a loop.
LEMMA EndLoopGood == ASSUME Translating, Good(ft, frames), EndLoop PROVE Good(ft', frames')
<1> DEFINE d == FALSE
           fr == Frame
<1>0. d \in BOOLEAN /\ ~d
      OBVIOUS
<1> HIDE DEF d
<1>1. Depth > 0 /\ fr.k = "loop" /\ fr.stage = "cont" /\ frames' = Pop
      BY DEF EndLoop, Inner
<1>2. PICK breakIf \in BOOLEAN : ft' = LeaveLoop(ft, fr, breakIf)
      BY DEF EndLoop
<1>3. PICK U : /\ Ripe(ft, frames, U) /\ Sound(ft, U) /\ Typed(ft)
               /\ FrameFacts(ft, fr) /\ (Sealed(fr) => OpenBlock(ft) \in U)
               /\ Len(frames) > 0 /\ fr = frames[Len(frames)]
      BY <1>1, EndFrame
<1>3a. Pop = SubSeq(frames, 1, Len(frames) - 1)
      BY DEF Pop, Depth
<1> HIDE DEF fr
<1>4. ~ft.dead
      BY <1>1, <1>3 DEF Translating, DeadTop, MayBeDead, Depth
<1> DEFINE x == LeaveLoop(ft, fr, breakIf)
<1>5. Steps(ft, x, fr, Idle, U, d)
      BY <1>0, <1>1, <1>3, <1>4, LeaveLoopSteps
<1>5a. ft' = x
      BY <1>2
<1> HIDE DEF x
<1>6. Steps(ft, x, frames[Len(frames)], Idle, U, d)
      BY <1>3, <1>5
<1>7. Good(x, SubSeq(frames, 1, Len(frames) - 1))
      BY <1>0, <1>3, <1>6, LiveGood
<1> QED BY <1>1, <1>3a, <1>5a, <1>7

\* A comparison and the body of its case.
ToCase(fr, b, l) == [fr EXCEPT !.stage = "case", !.check = b, !.next = l]
\* The fields of the frame in a case.
LEMMA ToCaseFields ==
    ASSUME NEW fr, IsSwitch(fr), NEW b, NEW l
    PROVE  LET w == ToCase(fr, b, l)
           IN  /\ w.k = fr.k /\ w.stage = "case" /\ w.merge = fr.merge /\ w.sel = fr.sel
               /\ w.check = b /\ w.next = l /\ w.ends = fr.ends
<1> DEFINE w == ToCase(fr, b, l)
<1>1. w = [fr EXCEPT !.stage = "case", !.check = b, !.next = l]
      BY DEF ToCase
<1> HIDE DEF w
<1>2. w = [k |-> fr.k, stage |-> "case", merge |-> fr.merge, sel |-> fr.sel,
           check |-> b, next |-> l, ends |-> fr.ends]
      BY <1>1 DEF IsSwitch
<1>3. /\ w.k = fr.k /\ w.stage = "case" /\ w.merge = fr.merge /\ w.sel = fr.sel
      /\ w.check = b /\ w.next = l /\ w.ends = fr.ends
      BY <1>2
<1> QED BY <1>3, Zenon DEF w

\* A comparison keeps the invariant.
LEMMA CaseGood == ASSUME Translating, Good(ft, frames), Case PROVE Good(ft', frames')
<1> DEFINE d == FALSE
           fr == Frame
           b == NextBlockId(ft)
           l == ft.nlabel
           w == ToCase(fr, b, l)
           x == EnterCase(ft, fr)
<1>0. d \in BOOLEAN /\ ~d
      OBVIOUS
<1> HIDE DEF d
<1>1. Depth > 0 /\ fr.k = "switch" /\ fr.stage = "checks" /\ ft' = x /\ frames' = SetFrame(w)
      BY Zenon DEF Case, Inner, ToCase
<1>2. PICK U : /\ Ripe(ft, frames, U) /\ Sound(ft, U) /\ Typed(ft)
               /\ FrameFacts(ft, fr) /\ FrameSsa(fr) /\ FrameOK(ft, fr)
               /\ Len(frames) > 0 /\ fr = frames[Len(frames)]
      BY <1>1, EndFrame
<1>2a. SetFrame(w) = Changed(frames, Len(frames), w)
      BY DEF SetFrame, Changed, Depth
<1> HIDE DEF fr
<1>3. IsSwitch(fr) /\ Ssa(fr.sel)
      BY <1>1, <1>2 DEF FrameOK, SwitchOK, FrameSsa
<1>4. b = OpenBlock(ft) /\ l = ft.nlabel
      BY DEF NextBlockId, OpenBlock
<1> HIDE DEF b, l
<1>5. /\ w.k = fr.k /\ w.stage = "case" /\ w.merge = fr.merge /\ w.sel = fr.sel
      /\ w.check = b /\ w.next = l /\ w.ends = fr.ends
      BY <1>3, ToCaseFields
<1> HIDE DEF w
<1>6. IsCase(ft, fr, w)
      BY <1>1, <1>4, <1>5 DEF IsCase
<1>7. FrameSsa(w)
      BY <1>1, <1>3, <1>5 DEF FrameSsa
<1>8. Steps(ft, x, fr, w, U, d)
      BY <1>0, <1>2, <1>3, <1>6, EnterCaseSteps
<1> HIDE DEF x
<1>9. Steps(ft, x, frames[Len(frames)], w, U, d)
      BY <1>2, <1>8
<1>10. Good(x, Changed(frames, Len(frames), w))
      BY <1>0, <1>2, <1>7, <1>9, LiveGood
<1> QED BY <1>1, <1>2a, <1>10

\* The end of a case.
ToChecks(fr, E) == [fr EXCEPT !.stage = "checks", !.ends = E]
\* The fields of the frame between two cases.
LEMMA ToChecksFields ==
    ASSUME NEW fr, IsSwitch(fr), NEW E
    PROVE  LET w == ToChecks(fr, E)
           IN  /\ w.k = fr.k /\ w.stage = "checks" /\ w.merge = fr.merge /\ w.sel = fr.sel
               /\ w.ends = E
<1> DEFINE w == ToChecks(fr, E)
<1>1. w = [fr EXCEPT !.stage = "checks", !.ends = E]
      BY DEF ToChecks
<1> HIDE DEF w
<1>2. w = [k |-> fr.k, stage |-> "checks", merge |-> fr.merge, sel |-> fr.sel,
           check |-> fr.check, next |-> fr.next, ends |-> E]
      BY <1>1 DEF IsSwitch
<1>3. /\ w.k = fr.k /\ w.stage = "checks" /\ w.merge = fr.merge /\ w.sel = fr.sel
      /\ w.ends = E
      BY <1>2
<1> QED BY <1>3, Zenon DEF w

\* The end of a case keeps the invariant.
LEMMA EndCaseGood == ASSUME Translating, Good(ft, frames), EndCase PROVE Good(ft', frames')
<1> DEFINE d == FALSE
           fr == Frame
           n == OpenBlock(ft)
           E == IF ft.dead THEN fr.ends ELSE fr.ends \cup {n}
           w == ToChecks(fr, E)
           x == LeaveCase(ft, fr)
<1>0. d \in BOOLEAN /\ ~d
      OBVIOUS
<1> HIDE DEF d
<1>1. Depth > 0 /\ fr.k = "switch" /\ fr.stage = "case" /\ ft' = x /\ frames' = SetFrame(w)
      BY DEF EndCase, Inner, ToChecks, NextBlockId, OpenBlock
<1>2. PICK U : /\ Ripe(ft, frames, U) /\ Sound(ft, U) /\ Typed(ft)
               /\ FrameFacts(ft, fr) /\ FrameSsa(fr) /\ FrameOK(ft, fr)
               /\ Len(frames) > 0 /\ fr = frames[Len(frames)]
      BY <1>1, EndFrame
<1>2a. SetFrame(w) = Changed(frames, Len(frames), w)
      BY DEF SetFrame, Changed, Depth
<1> HIDE DEF fr
<1>3. IsSwitch(fr) /\ Ssa(fr.sel)
      BY <1>1, <1>2 DEF FrameOK, SwitchOK, FrameSsa
<1>4. /\ \A b : b \in E => b \in fr.ends \/ b = n
      /\ \A b : b \in fr.ends => b \in E
      /\ n \in U \/ n \in E
      BY <1>2 DEF Sound, IsAlive
<1> HIDE DEF E
<1>5. /\ w.k = fr.k /\ w.stage = "checks" /\ w.merge = fr.merge /\ w.sel = fr.sel
      /\ w.ends = E
      BY <1>3, ToChecksFields
<1> HIDE DEF w
<1>6. LeavesBody(ft, fr, w, U)
      BY <1>1, <1>4, <1>5, Zenon DEF LeavesBody
<1>7. FrameSsa(w)
      BY <1>1, <1>3, <1>5 DEF FrameSsa
<1>8. Steps(ft, x, fr, w, U, d)
      BY <1>0, <1>1, <1>2, <1>6, LeaveCaseSteps
<1> HIDE DEF x
<1>9. Steps(ft, x, frames[Len(frames)], w, U, d)
      BY <1>2, <1>8
<1>10. Good(x, Changed(frames, Len(frames), w))
      BY <1>0, <1>2, <1>7, <1>9, LiveGood
<1> QED BY <1>1, <1>2a, <1>10

\* The merge block of a switch.
LEMMA EndSwitchGood == ASSUME Translating, Good(ft, frames), EndSwitch PROVE Good(ft', frames')
<1> DEFINE d == FALSE
           fr == Frame
           x == LeaveSwitch(ft, fr)
<1>0. d \in BOOLEAN /\ ~d
      OBVIOUS
<1> HIDE DEF d
<1>1. /\ Depth > 0 /\ fr.k = "switch" /\ fr.stage = "default" /\ frames' = Pop /\ ft' = x
      /\ fr.stage # "case"
      BY DEF EndSwitch, Inner
<1>2. PICK U : /\ Ripe(ft, frames, U) /\ Sound(ft, U) /\ Typed(ft)
               /\ FrameFacts(ft, fr) /\ Len(frames) > 0 /\ fr = frames[Len(frames)]
      BY <1>1, EndFrame
<1>2a. Pop = SubSeq(frames, 1, Len(frames) - 1)
      BY DEF Pop, Depth
<1> HIDE DEF fr
<1>3. Steps(ft, x, fr, Idle, U, d)
      BY <1>0, <1>1, <1>2, LeaveSwitchSteps
<1> HIDE DEF x
<1>4. Steps(ft, x, frames[Len(frames)], Idle, U, d)
      BY <1>2, <1>3
<1>5. Good(x, SubSeq(frames, 1, Len(frames) - 1))
      BY <1>0, <1>2, <1>4, LiveGood
<1> QED BY <1>1, <1>2a, <1>5

\* A switch: its merge block gets a label nobody has.
LEMMA FreshLabel ==
    ASSUME NEW f, NEW s, NEW U, Graph(f, s, U), NEW g, Stays(f, g), Sequence(f.blocks),
           g.nlabel = f.nlabel + 1, OpenBlock(f) \in U \/ Plain(g.instrs)
    PROVE  FreeLabel(g, s, f.nlabel)
<1>1. Graph(g, s, U)
      BY StayGraph
<1>2. f.nlabel \in Nat /\ f.nlabel < g.nlabel
      BY DEF Graph, LabelsOK
<1>3. \A b \in Known(g) : Lab(g, b) # f.nlabel
  <2>1. Known(g) = Known(f) /\ \A b : Lab(g, b) = Lab(f, b)
        BY DEF Stays, Known, Closed, Lab
  <2>2. \A b \in Known(f) : Lab(f, b) \in Nat /\ Lab(f, b) < f.nlabel
        BY DEF Graph, LabelsOK
  <2> QED BY <1>2, <2>1, <2>2
<1>4. \A j \in 1 .. Len(s) : ~Named(s[j], f.nlabel)
  <2>1. \A j \in 1 .. Len(s) : \A l : Named(s[j], l) => l \in Nat /\ l < f.nlabel
        BY Zenon DEF Graph, NamesOK
  <2> QED BY <1>2, <2>1
<1> QED BY <1>2, <1>3, <1>4 DEF FreeLabel

\* A frame that owes nothing and has one label is pushed.
LEMMA PushSwap ==
    ASSUME NEW f, NEW s, Sequence(s), NEW U, Graph(f, s, U), NEW w,
           Swaps(f, Append(s, Idle), Idle, w)
    PROVE  Graph(f, Append(s, w), U)
<1> DEFINE a == Append(s, Idle)
           t == Append(s, w)
           k == Len(s) + 1
<1>1. Deeper(s, a) /\ Replaces(a, t, k, w)
      BY StackFacts DEF Idle
<1>2. a[k] = Idle
      BY AppendSequence
<1> HIDE DEF a, t, k
<1>3. Graph(f, a, U)
      BY <1>1, CallGraph
<1>4. Swaps(f, a, a[k], w)
      BY <1>2, Zenon DEF a
<1>5. Graph(f, t, U)
      BY <1>1, <1>3, <1>4, SwapGraph
<1> QED BY <1>5 DEF t

\* translate_switch up to its first comparison.
LEMMA SwitchGood == ASSUME Translating, Good(ft, frames), Switch PROVE Good(ft', frames')
<1> DEFINE l == ft.nlabel
           x == SetLabel(ft, l + 1)
           w == SwitchFrame(ft)
           a == Append(frames, Idle)
<1>1. PICK U : Ripe(ft, frames, U)
      BY RipeState
<1>2. ~ft.dead /\ frames' = Append(frames, w)
      BY DEF Switch, AtStatement
<1>3. ft' = x
      BY DEF Switch, SetLabel
<1>4. Typed(ft) /\ l \in Nat /\ Sequence(ft.blocks) /\ Sequence(frames) /\ SsaOK(ft, frames)
      BY <1>1 DEF Ripe
<1>5. /\ x.blocks = ft.blocks /\ x.edges = ft.edges
      /\ x.instrs = ft.instrs /\ x.label = ft.label /\ x.block = ft.block
      /\ x.dead = ft.dead /\ x.vs = ft.vs /\ x.nssa = ft.nssa /\ x.nlabel = l + 1
      BY <1>4, SetLabelAll DEF Typed
<1>6. /\ w.k = "switch" /\ w.stage = "checks" /\ w.merge = l /\ w.ends = {} /\ w.sel = ft.vs
      BY DEF SwitchFrame
<1> HIDE DEF x, w
<1>7. Stays(ft, x)
      BY <1>4, <1>5 DEF Stays
<1>8. OpenBlock(ft) \in U \/ Plain(x.instrs)
      BY <1>1, <1>5 DEF Ripe
<1>9. Graph(ft, frames, U)
      BY <1>1 DEF Ripe
<1>10. Graph(x, frames, U)
      BY <1>4, <1>7, <1>8, <1>9, StayGraph
<1>11. FreeLabel(x, a, l)
  <2>1. FreeLabel(x, frames, ft.nlabel)
        BY <1>4, <1>5, <1>7, <1>8, <1>9, FreshLabel
  <2>2. Len(frames) \in Nat /\ Len(a) = Len(frames) + 1 /\ a[Len(frames) + 1] = Idle
        /\ \A k \in 1 .. Len(frames) : a[k] = frames[k]
        BY <1>4, AppendSequence
  <2> HIDE DEF a
  <2>3. ASSUME NEW j \in 1 .. Len(a) PROVE ~Named(a[j], l)
    <3>1. j \in 1 .. Len(frames) \/ j = Len(frames) + 1
          BY <2>2
    <3>2. ~Named(Idle, l)
          BY IdleFrame
    <3> QED BY <2>1, <2>2, <3>1, <3>2 DEF FreeLabel
  <2> QED BY <2>1, <2>3 DEF FreeLabel
<1> HIDE DEF a
<1>12. Swaps(x, a, Idle, w)
  <2>1. /\ \A b, m : ~Owes(w, b, m) /\ ~Placed(w, b, m)
        /\ \A b : ~OwesNext(w, b)
        /\ \A m : Named(w, m) => m = l
        /\ ~Sealed(w) /\ SelfOK(w) /\ w.k # "loop"
        BY <1>6, ChecksFrame
  <2>2. /\ \A b, m : ~Owes(Idle, b, m) /\ ~Placed(Idle, b, m)
        /\ \A b : ~OwesNext(Idle, b) /\ ~Named(Idle, b)
        /\ ~Sealed(Idle)
        BY IdleFrame
  <2> QED BY <1>11, <2>1, <2>2 DEF Swaps
<1>13. Graph(x, Append(frames, w), U)
      BY <1>4, <1>10, <1>12, PushSwap DEF a
<1>14. Ssa(ft.vs) /\ Ssa(ft.nssa)
      BY <1>4 DEF Typed
<1>15. FrameSsa(w)
      BY <1>6, <1>14 DEF FrameSsa
<1>16. SsaOK(x, Append(frames, w))
      BY <1>4, <1>5, <1>14, <1>15, SsaStep
<1>17. DeadOK(x, Append(frames, w), U)
      BY <1>2, <1>5 DEF DeadOK
<1>18. Good(x, Append(frames, w))
      BY <1>13, <1>16, <1>17 DEF Good
<1> QED BY <1>2, <1>3, <1>18

\* The default body.
ToDefault(fr) == [fr EXCEPT !.stage = "default"]
\* The fields of the frame in its default body.
LEMMA ToDefaultFields ==
    ASSUME NEW fr, IsSwitch(fr)
    PROVE  LET w == ToDefault(fr)
           IN  /\ w.k = fr.k /\ w.stage = "default" /\ w.merge = fr.merge /\ w.sel = fr.sel
               /\ w.ends = fr.ends
<1> DEFINE w == ToDefault(fr)
<1>1. w = [fr EXCEPT !.stage = "default"]
      BY DEF ToDefault
<1> HIDE DEF w
<1>2. w = [k |-> fr.k, stage |-> "default", merge |-> fr.merge, sel |-> fr.sel,
           check |-> fr.check, next |-> fr.next, ends |-> fr.ends]
      BY <1>1 DEF IsSwitch
<1>3. /\ w.k = fr.k /\ w.stage = "default" /\ w.merge = fr.merge /\ w.sel = fr.sel
      /\ w.ends = fr.ends
      BY <1>2
<1> QED BY <1>3, Zenon DEF w

\* The start of the default body keeps the invariant.
LEMMA DefaultGood == ASSUME Translating, Good(ft, frames), Default PROVE Good(ft', frames')
<1> DEFINE fr == Frame
           w == ToDefault(fr)
           k == Len(frames)
           t == Changed(frames, k, w)
<1>1. Depth > 0 /\ fr.k = "switch" /\ fr.stage = "checks" /\ ft' = ft /\ frames' = SetFrame(w)
      BY Zenon DEF Default, Inner, ToDefault
<1>2. PICK U : /\ Ripe(ft, frames, U) /\ FrameSsa(fr) /\ FrameOK(ft, fr)
               /\ Len(frames) > 0 /\ fr = frames[Len(frames)]
      BY <1>1, EndFrame
<1>2a. SetFrame(w) = t
      BY DEF SetFrame, Changed, Depth
<1> HIDE DEF fr
<1>3. IsSwitch(fr) /\ Ssa(fr.sel)
      BY <1>1, <1>2 DEF FrameOK, SwitchOK, FrameSsa
<1>4. ~ft.dead
      BY <1>1, <1>2 DEF Translating, DeadTop, MayBeDead, Depth
<1>5. /\ w.k = fr.k /\ w.stage = "default" /\ w.merge = fr.merge /\ w.sel = fr.sel
      /\ w.ends = fr.ends
      BY <1>3, ToDefaultFields
<1> HIDE DEF w
<1>6. FrameSsa(w)
      BY <1>1, <1>3, <1>5 DEF FrameSsa
<1>7. k \in 1 .. Len(frames) /\ Sequence(frames) /\ Graph(ft, frames, U) /\ fr = frames[k]
      /\ SsaOK(ft, frames) /\ Ssa(ft.vs) /\ Ssa(ft.nssa)
      BY <1>2, TopFacts DEF Ripe, Typed
<1> HIDE DEF k
<1>8. Replaces(frames, t, k, w)
      BY <1>7, StackFacts
<1>9. SsaOK(ft, t)
      BY <1>6, <1>7, SsaStep
<1> HIDE DEF t
<1>10. Swaps(ft, frames, fr, w)
  <2>1. /\ \A b, m : Owes(w, b, m) <=> b \in fr.ends /\ m = fr.merge
        /\ \A b : ~OwesNext(w, b)
        /\ \A m : Named(w, m) <=> m = fr.merge
        /\ \A b, m : ~Placed(w, b, m)
        /\ ~Sealed(w) /\ SelfOK(w) /\ w.k # "loop"
        BY <1>1, <1>5, ChecksFrame
  <2>2. /\ \A b, m : Owes(fr, b, m) <=> b \in fr.ends /\ m = fr.merge
        /\ \A b : ~OwesNext(fr, b)
        /\ \A m : Named(fr, m) <=> m = fr.merge
        /\ \A b, m : ~Placed(fr, b, m)
        /\ ~Sealed(fr)
        BY <1>1, ChecksFrame
  <2> QED BY <2>1, <2>2, Zenon DEF Swaps
<1>11. Graph(ft, t, U)
      BY <1>7, <1>8, <1>10, SwapGraph
<1>12. DeadOK(ft, t, U)
      BY <1>4 DEF DeadOK
<1>13. Good(ft, t)
      BY <1>9, <1>11, <1>12 DEF Good
<1> QED BY <1>1, <1>2a, <1>13

\* inline_call up to the callee's body.
LEMMA CallGood == ASSUME Translating, Good(ft, frames), Call PROVE Good(ft', frames')
<1> DEFINE w == [k |-> "call", stage |-> "callee", saved |-> ft.inlineReturn]
           d == ft.dead
           r == NoSSA
           x == SetReturn(ft, r, d)
           t == Append(frames, w)
<1>1. PICK U : Ripe(ft, frames, U)
      BY RipeState
<1>2. ~ft.dead /\ frames' = t
      BY DEF Call, AtStatement
<1>4. Typed(ft) /\ ft.nlabel \in Nat /\ Sequence(ft.blocks) /\ Sequence(frames) /\ SsaOK(ft, frames)
      BY <1>1 DEF Ripe
<1>3. ft' = x
  <2>1. ft' = [ft EXCEPT !.inlineReturn = r]
        BY DEF Call
  <2> HIDE DEF r
  <2>2. ft' = [blocks |-> ft.blocks, edges |-> ft.edges, instrs |-> ft.instrs, label |-> ft.label,
           block |-> ft.block, dead |-> d, vs |-> ft.vs, inlineReturn |-> r,
           nssa |-> ft.nssa, nphi |-> ft.nphi, nlabel |-> ft.nlabel]
        BY <1>4, <2>1 DEF Typed, IsTranslator
  <2>3. x = [blocks |-> ft.blocks, edges |-> ft.edges, instrs |-> ft.instrs, label |-> ft.label,
           block |-> ft.block, dead |-> d, vs |-> ft.vs, inlineReturn |-> r,
           nssa |-> ft.nssa, nphi |-> ft.nphi, nlabel |-> ft.nlabel]
    <3>1. x = [ft EXCEPT !.inlineReturn = r, !.dead = d]
          BY DEF SetReturn
    <3>2. IsTranslator(ft)
          BY <1>4 DEF Typed
    <3> HIDE DEF x, d
    <3> QED BY <3>1, <3>2 DEF IsTranslator
  <2> QED BY <2>2, <2>3
<1>6. w.k = "call"
      OBVIOUS
<1> HIDE DEF w, r, d
<1>5. /\ x.blocks = ft.blocks /\ x.edges = ft.edges
      /\ x.instrs = ft.instrs /\ x.label = ft.label /\ x.block = ft.block
      /\ x.dead = d /\ x.vs = ft.vs /\ x.nssa = ft.nssa /\ x.nlabel = ft.nlabel
      BY <1>4, SetReturnAll DEF Typed
<1> HIDE DEF x
<1>7. Stays(ft, x)
      BY <1>4, <1>5 DEF Stays
<1>8. OpenBlock(ft) \in U \/ Plain(x.instrs)
      BY <1>1, <1>5 DEF Ripe
<1>9. Graph(ft, frames, U)
      BY <1>1 DEF Ripe
<1>10. Graph(x, frames, U)
      BY <1>4, <1>7, <1>8, <1>9, StayGraph
<1>11. Deeper(frames, t)
      BY <1>4, <1>6, StackFacts
<1>12. Ssa(x.vs) /\ Ssa(x.nssa) /\ FrameSsa(w)
      BY <1>4, <1>5, <1>6 DEF Typed, FrameSsa
<1>13. SsaOK(x, t)
      BY <1>4, <1>12, SsaStep
<1> HIDE DEF t
<1>14. Graph(x, t, U)
      BY <1>10, <1>11, CallGraph
<1>15. DeadOK(x, t, U)
      BY <1>2, <1>5 DEF DeadOK, d
<1>16. Good(x, t)
      BY <1>13, <1>14, <1>15 DEF Good
<1> QED BY <1>2, <1>3, <1>16

\* inline_call, once the callee is translated.
LEMMA EndCallGood == ASSUME Translating, Good(ft, frames), EndCall PROVE Good(ft', frames')
<1> DEFINE d == FALSE
           fr == Frame
           x == LeaveCall(ft, fr)
           t == SubSeq(frames, 1, Len(frames) - 1)
<1>0. d \in BOOLEAN /\ ~d
      OBVIOUS
<1> HIDE DEF d
<1>1. /\ Depth > 0 /\ fr.k = "call" /\ frames' = Pop /\ ft' = x
      BY DEF EndCall, Inner
<1>2. PICK U : Ripe(ft, frames, U)
      BY RipeState
<1>2a. Pop = t /\ Len(frames) > 0 /\ fr = frames[Len(frames)]
      BY <1>1 DEF Pop, Depth, Frame
<1> HIDE DEF fr
<1>4. /\ Typed(ft) /\ ft.nlabel \in Nat /\ Sequence(ft.blocks) /\ Sequence(frames)
      /\ SsaOK(ft, frames) /\ Graph(ft, frames, U)
      /\ OpenBlock(ft) \in U \/ Plain(ft.instrs)
      BY <1>2 DEF Ripe
<1>5. CASE ft.dead
  <2>1. Steps(ft, x, fr, Idle, U, d)
        BY <1>0, <1>1, <1>4, <1>5, LeaveCallSteps
  <2> HIDE DEF x
  <2>2. Steps(ft, x, frames[Len(frames)], Idle, U, d)
        BY <1>2a, <2>1
  <2>3. Good(x, t)
        BY <1>0, <1>2, <1>2a, <2>2, LiveGood
  <2> QED BY <1>1, <1>2a, <2>3
<1>6. CASE ~ft.dead
  <2>1. /\ Ssa(x.vs) /\ Ssa(x.nssa) /\ x.dead = FALSE
        /\ Stays(ft, x) /\ (Plain(ft.instrs) => Plain(x.instrs))
        BY <1>4, <1>6, LeaveCallMoves
  <2> HIDE DEF x
  <2>2. Graph(x, frames, U)
        BY <1>4, <2>1, StayGraph
  <2>3. Len(frames) \in Nat /\ Len(t) = Len(frames) - 1 /\ \A j \in 1 .. Len(frames) - 1 : t[j] = frames[j]
        BY <1>2a, <1>4, StackFacts
  <2>4. SsaOK(x, t)
        BY <1>2a, <1>4, <2>1, SsaStep
  <2> HIDE DEF t
  <2>5. Deeper(t, frames)
    <3>1. Len(t) \in Nat /\ Len(frames) = Len(t) + 1
          BY <1>2a, <2>3
    <3> QED BY <1>1, <1>2a, <2>3, <3>1 DEF Deeper
  <2>6. Graph(x, t, U)
        BY <2>2, <2>5, CallGraph
  <2>7. DeadOK(x, t, U)
        BY <2>1 DEF DeadOK
  <2>8. Good(x, t)
        BY <2>4, <2>6, <2>7 DEF Good
  <2> QED BY <1>1, <1>2a, <2>8
<1> QED BY <1>5, <1>6

\* Every statement keeps the invariant of the graph.
LEMMA TranslateGood ==
    ASSUME Translating, Good(ft, frames), TranslateStatement, "nested return in call" \notin Forms
    PROVE  Good(ft', frames')
BY StoreGood, BreakGood, ContinueGood, ReturnGood, IfGood, ElseGood, EndIfGood, LoopGood,
   ContinuingGood, EndLoopGood, SwitchGood, CaseGood, EndCaseGood, DefaultGood, EndSwitchGood,
   CallGood, EndCallGood, Zenon DEF TranslateStatement

----------------------------------------------------------------------------
(* The finished function                                                   *)

\* From block b control leaves along its edges and no other way, and for
\* blocks outside U.
Leads(g, b, c) == <<b, c>> \in g.edges
Settles(g, U, b) ==
    /\ \A l \in Out(g, b) : \E c \in Closed(g) : c \notin U /\ Lab(g, c) = l /\ Leads(g, b, c)
    /\ On(g, b) => b + 1 \in Closed(g) /\ b + 1 \notin U /\ Leads(g, b, b + 1)
    /\ \A c : Leads(g, b, c) => c \in Closed(g) /\ (Lab(g, c) \in Out(g, b) \/ (On(g, b) /\ c = b + 1))
SettledBut(g, U) ==
    /\ 1 \in Closed(g) /\ 1 \notin U
    /\ \A b \in Closed(g) : b \in U \/ Settles(g, U, b)
    /\ \A b, c \in Closed(g) : Lab(g, b) = Lab(g, c) => b = c
    /\ \A e \in g.edges : e = <<e[1], e[2]>>
Settled(g) == Sequence(g.blocks) /\ \E U : SettledBut(g, U)

\* The code of the last block: it ends with OpExit where it is alive.
LEMMA ExitCode ==
    ASSUME NEW is, Plain(is), NEW v
    PROVE  Exits(Append(is, Exit(v))) = {} /\ ~RunsOn(Append(is, Exit(v)))
<1> DEFINE e == Exit(v)
<1>1. e.op = "exit" /\ Leaves(e)
      BY DEF Exit, Leaves
<1>2. Sequence(is) /\ Exits(is) = {}
      BY PlainRuns
<1> HIDE DEF e
<1>3. /\ Exits(Append(is, e)) = Exits(is) \cup (IF e.op = "bra" THEN {e.target} ELSE {})
      /\ RunsOn(Append(is, e)) <=> ~Leaves(e)
      BY <1>2, AppendExits
<1> QED BY <1>1, <1>2, <1>3 DEF e

\* translate_function after the body is one more move.
LEMMA EndMoves ==
    ASSUME NEW f, Typed(f), NEW U, f.dead => OpenBlock(f) \in U,
           OpenBlock(f) \in U \/ Plain(f.instrs)
    PROVE  \E is : /\ Moves(f, EndFunction(f), is, {})
                   /\ OpenBlock(f) \in U \/ (Exits(is) = {} /\ ~RunsOn(is))
<1> DEFINE i == Exit(f.vs)
           k == Push(f, i)
           c == NextBlockId(k)
           g == EndFunction(f)
<1>0. IsTranslator(f)
      BY DEF Typed
<1>1. g = Close(k, c)
      BY DEF EndFunction, FinishBlock
<1>2. /\ IsTranslator(k) /\ k.blocks = f.blocks /\ k.edges = f.edges
      /\ k.label = f.label /\ k.block = f.block
      /\ ~f.dead => k.instrs = Append(f.instrs, i)
      BY <1>0, PushAll
<1> HIDE DEF k, c, g
<1>3. g.blocks = Append(k.blocks, Block(k.label, k.instrs)) /\ g.edges = k.edges \cup Entering(k)
      BY <1>1, <1>2, CloseAll
<1>4. Entering(k) = Entering(f)
      BY <1>2 DEF Entering
<1>5. Moves(f, g, k.instrs, {})
      BY <1>2, <1>3, <1>4 DEF Moves
<1>6. OpenBlock(f) \in U \/ (Exits(k.instrs) = {} /\ ~RunsOn(k.instrs))
      BY <1>2, ExitCode
<1> QED BY <1>5, <1>6 DEF g

\* With no frame left nothing is owed.
LEMMA EndSettles ==
    ASSUME NEW f, Sequence(f.blocks), NEW U, Graph(f, <<>>, U), NEW g, NEW is,
           Moves(f, g, is, {}), OpenBlock(f) \in U \/ (Exits(is) = {} /\ ~RunsOn(is))
    PROVE  SettledBut(g, U)
<1> DEFINE n == OpenBlock(f)
           s == <<>>
<1>1. /\ n \in Nat /\ n = Len(f.blocks) + 1 /\ n > 0
      /\ Closed(f) = 1 .. n - 1 /\ Known(f) = 1 .. n /\ Closed(g) = 1 .. n
      /\ \A b \in Known(f) : Lab(g, b) = Lab(f, b)
      /\ \A b \in Closed(f) : Out(g, b) = Out(f, b) /\ On(g, b) = On(f, b)
      /\ Out(g, n) = Exits(is) /\ On(g, n) = RunsOn(is)
      BY MoveAt
<1>2. /\ LabelsOK(f) /\ EdgesOK(f, U) /\ FlowOK(f, s, U) /\ ShutOK(f, U) /\ OpenOK(f, U)
      BY DEF Graph
<1>s. Len(s) = 0 /\ \A j : j \notin 1 .. Len(s)
      BY EmptySequence
<1>m. Len(f.blocks) \in Nat
      BY AppendSequence
<1> HIDE DEF n, s
<1>3. \A e : e \in g.edges <=> e \in f.edges \/ e \in Entering(f)
      BY DEF Moves
<1>4. \A e : e \in Entering(f) <=> f.block # NoBlock /\ e = <<f.block, n>>
      BY <1>1 DEF Entering
<1>5. f.block # NoBlock => f.block = n - 1 /\ f.block \in Closed(f) /\ (f.block \in U \/ On(f, f.block))
      BY <1>1, <1>2, <1>m DEF OpenOK, NoBlock
<1>6. ASSUME NEW b \in Closed(f), b \notin U PROVE Settles(g, U, b)
  <2>1. /\ \A l \in Out(f, b) : Paid(f, b, l)
        /\ On(f, b) => <<b, b + 1>> \in f.edges \/ f.block = b
        BY <1>2, <1>6, <1>s DEF FlowOK
  <2>2. /\ \A c \in U : Lab(f, c) \notin Out(f, b)
        /\ On(f, b) => b + 1 \notin U
        BY <1>2, <1>6 DEF ShutOK
  <2>3. b \in Nat /\ b # NoBlock /\ b + 1 \in Closed(g) /\ b \in Known(f)
        BY <1>1 DEF NoBlock
  <2>4. ASSUME NEW l \in Out(g, b)
        PROVE  \E c \in Closed(g) : c \notin U /\ Lab(g, c) = l /\ Leads(g, b, c)
    <3>1. l \in Out(f, b)
          BY <1>1
    <3>2. PICK c \in Known(f) : Lab(f, c) = l /\ <<b, c>> \in f.edges
          BY <2>1, <3>1 DEF Paid
    <3>3. c \in Closed(g) /\ c \notin U /\ Lab(g, c) = l
          BY <1>1, <2>2, <3>1, <3>2
    <3>4. Leads(g, b, c)
          BY <1>3, <3>2 DEF Leads
    <3> QED BY <3>3, <3>4
  <2>5. ASSUME On(g, b) PROVE b + 1 \in Closed(g) /\ b + 1 \notin U /\ Leads(g, b, b + 1)
    <3>1. On(f, b)
          BY <1>1, <2>5
    <3>2. CASE <<b, b + 1>> \in f.edges
          BY <1>3, <2>2, <2>3, <3>1, <3>2 DEF Leads
    <3>3. CASE f.block = b
      <4>1. b + 1 = n /\ f.block # NoBlock
            BY <1>1, <1>5, <2>3, <3>3
      <4>2. <<b, b + 1>> \in g.edges
            BY <1>3, <1>4, <3>3, <4>1
      <4> QED BY <2>2, <2>3, <3>1, <4>2 DEF Leads
    <3> QED BY <2>1, <3>1, <3>2, <3>3
  <2>6. ASSUME NEW c, Leads(g, b, c)
        PROVE  c \in Closed(g) /\ (Lab(g, c) \in Out(g, b) \/ (On(g, b) /\ c = b + 1))
    <3>0. <<b, c>> \in f.edges \/ <<b, c>> \in Entering(f)
          BY <1>3, <2>6 DEF Leads
    <3>1. CASE <<b, c>> \in f.edges
      <4>1. EdgeOK(f, U, b, c)
            BY <1>2, <3>1 DEF EdgesOK
      <4>2. c \in Known(f) /\ (Lab(f, c) \in Out(f, b) \/ (On(f, b) /\ c = b + 1))
            BY <1>6, <4>1 DEF EdgeOK
      <4>3. c \in Closed(g) /\ Lab(g, c) = Lab(f, c) /\ Out(g, b) = Out(f, b) /\ On(g, b) = On(f, b)
            BY <1>1, <4>2
      <4> QED BY <4>2, <4>3
    <3>2. CASE <<b, c>> \in Entering(f)
      <4>1. f.block # NoBlock /\ b = f.block /\ c = n
            BY <1>4, <3>2
      <4>2. On(f, b) /\ c = b + 1
            BY <1>1, <1>5, <1>6, <4>1
      <4> QED BY <1>1, <2>3, <4>2
    <3> QED BY <3>0, <3>1, <3>2
  <2> QED BY <2>4, <2>5, <2>6 DEF Settles
<1>7. ASSUME n \notin U PROVE Settles(g, U, n)
  <2>1. Out(g, n) = {} /\ ~On(g, n)
        BY <1>1, <1>7 DEF n
  <2>2. ASSUME NEW c, Leads(g, n, c) PROVE FALSE
    <3>1. n \notin Closed(f)
          BY <1>1
    <3>2. <<n, c>> \in f.edges \/ <<n, c>> \in Entering(f)
          BY <1>3, <2>2 DEF Leads
    <3>3. <<n, c>> \in f.edges => EdgeOK(f, U, n, c)
          BY <1>2 DEF EdgesOK
    <3>4. <<n, c>> \in Entering(f) => n \in Closed(f)
          BY <1>4, <1>5
    <3> QED BY <3>1, <3>2, <3>3, <3>4 DEF EdgeOK
  <2> QED BY <2>1, <2>2 DEF Settles
<1>8. \A b \in Closed(g) : b \in Closed(f) \/ b = n
      BY <1>1
<1>9. Closed(g) = Known(f) /\ 1 \in Closed(g)
      BY <1>1
<1>10. \A b, c \in Closed(g) : Lab(g, b) = Lab(g, c) => b = c
      BY <1>1, <1>2, <1>9 DEF LabelsOK
<1>11. \A e \in g.edges : e = <<e[1], e[2]>>
  <2> SUFFICES ASSUME NEW e \in g.edges PROVE e = <<e[1], e[2]>>
      OBVIOUS
  <2>1. CASE e \in f.edges
        BY <1>2, <2>1 DEF EdgesOK
  <2>2. CASE e \in Entering(f)
        BY <1>4, <2>2
  <2> QED BY <1>3, <2>1, <2>2
<1>12. 1 \notin U
      BY <1>2 DEF ShutOK
<1>13. \A b \in Closed(g) : b \in U \/ Settles(g, U, b)
      BY <1>6, <1>7, <1>8
<1> QED BY <1>9, <1>10, <1>11, <1>12, <1>13 DEF SettledBut

\* Finish: the function that is complete is settled.
LEMMA FinishSettled ==
    ASSUME Translating, Good(ft, frames), Finish
    PROVE  Settled(ft')
<1>1. PICK U : Ripe(ft, frames, U)
      BY RipeState
<1>2. frames = <<>> /\ ft' = EndFunction(ft)
      BY DEF Finish
<1>3. Typed(ft) /\ Sequence(ft.blocks) /\ Graph(ft, <<>>, U) /\ (OpenBlock(ft) \in U \/ Plain(ft.instrs))
      BY <1>1, <1>2 DEF Ripe
<1>4. ft.dead => OpenBlock(ft) \in U
  <2>1. ~(Len(frames) > 0)
        BY <1>2, EmptySequence
  <2> QED BY <1>1, <2>1 DEF Ripe
<1> DEFINE f == ft
           g == EndFunction(f)
<1>5. PICK is : /\ Moves(f, g, is, {})
                /\ OpenBlock(f) \in U \/ (Exits(is) = {} /\ ~RunsOn(is))
      BY <1>3, <1>4, EndMoves
<1>6. ft' = g
      BY <1>2
<1> HIDE DEF g
<1>7. SettledBut(g, U)
      BY <1>3, <1>5, EndSettles
<1>8. Sequence(g.blocks)
      BY <1>3, <1>5, AppendSequence DEF Moves
<1> QED BY <1>6, <1>7, <1>8 DEF Settled

----------------------------------------------------------------------------
(* The blocks the machine reaches                                          *)

\* Walks from the entry block that take a step of F or wait.
Walks(B, F) == {p \in [Nat -> B] : /\ p[0] = 1
                                  /\ \A i \in Nat : p[i + 1] = p[i] \/ p[i + 1] \in F[p[i]]}
Layer(B, F, n) == {p[n] : p \in Walks(B, F)}

\* What n steps reach, from what one step less does.
LEMMA NextLayer ==
    ASSUME NEW B, NEW F \in [B -> SUBSET B], 1 \in B, NEW n \in Nat
    PROVE  /\ Layer(B, F, n) \subseteq B /\ Layer(B, F, 0) = {1}
           /\ Layer(B, F, n + 1) = Layer(B, F, n) \cup UNION {F[b] : b \in Layer(B, F, n)}
<1>0. 0 \in Nat /\ n + 1 \in Nat
      OBVIOUS
<1>1. ASSUME NEW p \in Walks(B, F)
      PROVE  /\ p[0] = 1 /\ \A i \in Nat : p[i] \in B
             /\ \A i \in Nat : p[i + 1] = p[i] \/ p[i + 1] \in F[p[i]]
      BY DEF Walks
<1>2. Layer(B, F, n) \subseteq B
      BY <1>1 DEF Layer
<1>3. Layer(B, F, 0) = {1}
  <2> DEFINE p == [i \in Nat |-> 1]
  <2>1. p \in [Nat -> B] /\ p[0] = 1 /\ \A i \in Nat : p[i + 1] = p[i]
        OBVIOUS
  <2> HIDE DEF p
  <2>2. p \in Walks(B, F)
        BY <2>1 DEF Walks
  <2>3. 1 \in Layer(B, F, 0)
        BY <2>1, <2>2 DEF Layer
  <2> QED BY <1>1, <2>3 DEF Layer
<1>4. ASSUME NEW c \in Layer(B, F, n + 1)
      PROVE  c \in Layer(B, F, n) \cup UNION {F[b] : b \in Layer(B, F, n)}
  <2>1. PICK p \in Walks(B, F) : c = p[n + 1]
        BY DEF Layer
  <2>2. p[n] \in Layer(B, F, n)
        BY <2>1 DEF Layer
  <2>3. c = p[n] \/ c \in F[p[n]]
        BY <1>1, <2>1
  <2> QED BY <2>2, <2>3
<1>5. ASSUME NEW b \in Layer(B, F, n), NEW c \in B, c = b \/ c \in F[b]
      PROVE  c \in Layer(B, F, n + 1)
  <2>1. PICK p \in Walks(B, F) : b = p[n]
        BY DEF Layer
  <2> DEFINE q == [i \in Nat |-> IF i <= n THEN p[i] ELSE c]
  <2>2. /\ q \in [Nat -> B] /\ \A i \in Nat : i <= n => q[i] = p[i]
        /\ \A i \in Nat : ~(i <= n) => q[i] = c
        BY <1>1, <1>5
  <2> HIDE DEF q
  <2>3. ASSUME NEW i \in Nat PROVE q[i + 1] = q[i] \/ q[i + 1] \in F[q[i]]
    <3>1. CASE i < n
      <4>1. i + 1 \in Nat /\ i + 1 <= n /\ i <= n
            BY <3>1
      <4>2. q[i + 1] = p[i + 1] /\ q[i] = p[i]
            BY <2>2, <4>1
      <4> QED BY <1>1, <4>2
    <3>2. CASE i = n
      <4>1. ~(n + 1 <= n) /\ n <= n
            OBVIOUS
      <4>2. q[i + 1] = c /\ q[i] = b
            BY <1>0, <2>1, <2>2, <3>2, <4>1
      <4> QED BY <1>5, <4>2
    <3>3. CASE i > n
      <4>1. i + 1 \in Nat /\ ~(i + 1 <= n) /\ ~(i <= n)
            BY <3>3
      <4> QED BY <2>2, <4>1
    <3> QED BY <3>1, <3>2, <3>3
  <2>4. q[0] = 1
    <3>1. 0 <= n
          OBVIOUS
    <3> QED BY <1>0, <1>1, <2>2, <3>1
  <2>5. q \in Walks(B, F)
        BY <2>2, <2>3, <2>4 DEF Walks
  <2>6. q[n + 1] = c
    <3>1. ~(n + 1 <= n)
          OBVIOUS
    <3> QED BY <1>0, <2>2, <3>1
  <2> QED BY <2>5, <2>6 DEF Layer
<1>6. Layer(B, F, n) \cup UNION {F[b] : b \in Layer(B, F, n)} \subseteq Layer(B, F, n + 1)
  <2>1. ASSUME NEW c \in Layer(B, F, n) PROVE c \in Layer(B, F, n + 1)
        BY <1>2, <1>5
  <2>2. ASSUME NEW b \in Layer(B, F, n), NEW c \in F[b] PROVE c \in Layer(B, F, n + 1)
        BY <1>2, <1>5
  <2> QED BY <2>1, <2>2
<1>7. Layer(B, F, n + 1) = Layer(B, F, n) \cup UNION {F[b] : b \in Layer(B, F, n)}
      BY <1>4, <1>6
<1> QED BY <1>2, <1>3, <1>7

\* A bounded set of numbers that is not empty has a smallest one.
LEMMA SmallestNumber ==
    ASSUME NEW S \in SUBSET Nat, S # {}
    PROVE  \E x \in S : \A y \in S : ~(y < x)
<1>1. PICK t \in S : \A u \in S : ~ (<<u, t>> \in OpToRel(<, Nat))
      BY NatLessThanWellFounded, WFMin, Zenon
<1>2. ASSUME NEW u \in S PROVE ~(u < t)
  <2>1. <<u, t>> \in Nat \X Nat /\ <<u, t>>[1] = u /\ <<u, t>>[2] = t
        OBVIOUS
  <2>2. u < t => <<u, t>> \in OpToRel(<, Nat)
        BY <2>1, Zenon DEF OpToRel
  <2> QED BY <1>1, <2>2, Zenon
<1> QED BY <1>2

\* Layers that start inside V and never leave it stay inside.
LEMMA LayersStay ==
    ASSUME NEW N \in Nat, NEW r, NEW V, r[0] \subseteq V,
           \A n \in Nat : n + 1 <= N /\ r[n] \subseteq V => r[n + 1] \subseteq V
    PROVE  r[N] \subseteq V
<1> DEFINE S == {n \in Nat : n <= N /\ ~(r[n] \subseteq V)}
<1> SUFFICES ASSUME N \in S PROVE FALSE
    OBVIOUS
<1>1. S \in SUBSET Nat /\ S # {}
      OBVIOUS
<1>2. \A n : n \in S <=> n \in Nat /\ n <= N /\ ~(r[n] \subseteq V)
      OBVIOUS
<1> HIDE DEF S
<1>3. PICK x \in S : \A y \in S : ~(y < x)
      BY <1>1, SmallestNumber
<1>4. x \in Nat /\ x <= N /\ ~(r[x] \subseteq V) /\ x # 0
      BY <1>2, <1>3
<1> DEFINE y == x - 1
<1>5. y \in Nat /\ y <= N /\ y < x /\ y + 1 = x
      BY <1>4
<1> HIDE DEF y
<1>6. r[y] \subseteq V
      BY <1>2, <1>3, <1>5
<1>7. r[y + 1] \subseteq V
      BY <1>4, <1>5, <1>6
<1> QED BY <1>4, <1>5, <1>7

\* The recursive function that Reached is defined by.
IsReach(r) ==
    r = [n \in 0 .. Len(ft.blocks) |->
            IF n = 0 THEN {1}
            ELSE r[n - 1] \cup UNION {Flows(b) \cap Blocks : b \in r[n - 1]}]
\* There is one: the layers of the walks.
LEMMA ReachExists ==
    ASSUME Len(ft.blocks) \in Nat, 1 \in Blocks
    PROVE  \E r : IsReach(r)
<1> DEFINE B == Blocks
           N == Len(ft.blocks)
           F == [b \in B |-> Flows(b) \cap B]
           r == [n \in 0 .. N |-> Layer(B, F, n)]
<1>1. F \in [B -> SUBSET B] /\ \A b \in B : F[b] = Flows(b) \cap B
      OBVIOUS
<1>2. 1 \in B /\ N \in Nat
      OBVIOUS
<1> HIDE DEF F, B, N
<1>3. \A n \in 0 .. N : r[n] = Layer(B, F, n)
      OBVIOUS
<1>4. ASSUME NEW n \in 0 .. N
      PROVE  r[n] = IF n = 0 THEN {1} ELSE r[n - 1] \cup UNION {Flows(b) \cap B : b \in r[n - 1]}
  <2>1. CASE n = 0
        BY <1>1, <1>2, <1>3, <2>1, NextLayer
  <2>2. CASE n # 0
    <3> DEFINE m == n - 1
               L == Layer(B, F, m)
    <3>1. m \in Nat /\ m + 1 = n /\ m \in 0 .. N
          BY <1>2, <2>2
    <3>2. n - 1 = m
          OBVIOUS
    <3> HIDE DEF m
    <3>3. L \subseteq B /\ Layer(B, F, m + 1) = L \cup UNION {F[b] : b \in L}
          BY <1>1, <1>2, <3>1, NextLayer
    <3>4. r[n] = Layer(B, F, m + 1) /\ r[m] = L
          BY <1>3, <3>1
    <3> HIDE DEF L, r
    <3>5. \A b \in L : F[b] = Flows(b) \cap B
          BY <1>1, <3>3
    <3>6. {F[b] : b \in L} = {Flows(b) \cap B : b \in L}
          BY <3>5
    <3>7. r[n] = r[m] \cup UNION {Flows(b) \cap B : b \in r[m]}
          BY <3>3, <3>4, <3>6, Zenon
    <3> QED BY <2>2, <3>2, <3>7, Zenon
  <2> QED BY <2>1, <2>2
<1>5. r = [n \in 0 .. N |-> r[n]]
      OBVIOUS
<1> HIDE DEF r
<1>6. r = [n \in 0 .. N |-> IF n = 0 THEN {1}
                            ELSE r[n - 1] \cup UNION {Flows(b) \cap B : b \in r[n - 1]}]
      BY <1>4, <1>5
<1>7. IsReach(r)
      BY <1>6 DEF IsReach, N, B
<1> QED BY <1>7

\* So Reached is the last of its layers.
LEMMA ReachedIs ==
    ASSUME Len(ft.blocks) \in Nat, 1 \in Blocks
    PROVE  \E r : IsReach(r) /\ Reached = r[Len(ft.blocks)]
<1> DEFINE q == CHOOSE r : IsReach(r)
<1>1. IsReach(q)
      BY ReachExists, Zenon
<1>2. Reached = q[Len(ft.blocks)]
      BY DEF Reached, IsReach
<1> QED BY <1>1, <1>2

\* The successors of a settled block.
LEMMA SettledFlows ==
    ASSUME Sequence(ft.blocks), NEW U, SettledBut(ft, U), NEW b \in Closed(ft), b \notin U
    PROVE  Succs(b) = Flows(b) /\ \A c \in Flows(b) : c \in Closed(ft) /\ c \notin U
<1> DEFINE is == ft.blocks[b].instrs
<1>1. Blocks = Closed(ft)
      BY AppendSequence DEF Blocks, Closed
<1>2. Out(ft, b) = Exits(is) /\ On(ft, b) = RunsOn(is) /\ Instrs(b) = is
      BY DEF Out, On, CodeAt, Instrs
<1>3. Settles(ft, U, b) /\ \A d, c \in Closed(ft) : Lab(ft, d) = Lab(ft, c) => d = c
      BY DEF SettledBut
<1>4. ASSUME NEW c \in Closed(ft), NEW l, Lab(ft, c) = l PROVE Labelled(l) = c
  <2>1. \A d \in Closed(ft) : Lab(ft, d) = ft.blocks[d].label
        BY DEF Lab
  <2>2. \A d \in Closed(ft) : ft.blocks[d].label = l => d = c
        BY <1>3, <1>4, <2>1
  <2>3. ft.blocks[c].label = l
        BY <1>4, <2>1
  <2> QED BY <1>1, <2>2, <2>3 DEF Labelled
<1>5. \A c : c \in Flows(b) <=> (\E l \in Out(ft, b) : c = Labelled(l)) \/ (On(ft, b) /\ c = b + 1)
  <2>1. {Labelled(i.target) : i \in Code(b, "bra")} = {Labelled(l) : l \in Exits(is)}
        BY <1>2 DEF Code, Exits
  <2>2. (IF Instrs(b) # <<>> /\ Leaves(Last(Instrs(b))) THEN {} ELSE {b + 1})
            = IF RunsOn(is) THEN {b + 1} ELSE {}
        BY <1>2 DEF RunsOn
  <2>3. Flows(b) = {Labelled(l) : l \in Exits(is)} \cup (IF RunsOn(is) THEN {b + 1} ELSE {})
        BY <2>1, <2>2, Zenon DEF Flows
  <2> HIDE DEF is
  <2> QED BY <1>2, <2>3
<1>6. \A c : c \in Succs(b) <=> Leads(ft, b, c)
  <2>1. \A e \in ft.edges : e = <<e[1], e[2]>>
        BY DEF SettledBut
  <2>2. ASSUME NEW c, Leads(ft, b, c) PROVE c \in Succs(b)
        BY <2>2 DEF Succs, Leads
  <2>3. ASSUME NEW c \in Succs(b) PROVE Leads(ft, b, c)
        BY <2>1 DEF Succs, Leads
  <2> QED BY <2>2, <2>3
<1> HIDE DEF is
<1>7. ASSUME NEW c \in Flows(b) PROVE c \in Closed(ft) /\ c \notin U /\ c \in Succs(b)
  <2>1. CASE On(ft, b) /\ c = b + 1
        BY <1>3, <1>6, <2>1 DEF Settles
  <2>2. ASSUME NEW l \in Out(ft, b), c = Labelled(l)
        PROVE  c \in Closed(ft) /\ c \notin U /\ c \in Succs(b)
    <3>1. PICK d \in Closed(ft) : d \notin U /\ Lab(ft, d) = l /\ Leads(ft, b, d)
          BY <1>3 DEF Settles
    <3>2. c = d
          BY <1>4, <2>2, <3>1
    <3> QED BY <1>6, <3>1, <3>2
  <2> QED BY <1>5, <2>1, <2>2
<1>8. ASSUME NEW c \in Succs(b) PROVE c \in Flows(b)
  <2>1. c \in Closed(ft) /\ (Lab(ft, c) \in Out(ft, b) \/ (On(ft, b) /\ c = b + 1))
        BY <1>3, <1>6 DEF Settles
  <2>2. CASE Lab(ft, c) \in Out(ft, b)
    <3>1. Labelled(Lab(ft, c)) = c
          BY <1>4, <2>1
    <3> QED BY <1>5, <2>2, <3>1
  <2>3. CASE On(ft, b) /\ c = b + 1
        BY <1>5, <2>3
  <2> QED BY <2>1, <2>2, <2>3
<1> QED BY <1>7, <1>8

\* What the machine reaches is outside U.
LEMMA SettledEdges ==
    ASSUME Settled(ft)
    PROVE  \A b \in Reached : Succs(b) = Flows(b)
<1>1. PICK U : SettledBut(ft, U)
      BY DEF Settled
<1>2. Sequence(ft.blocks)
      BY DEF Settled
<1> DEFINE N == Len(ft.blocks)
           V == Closed(ft) \ U
<1>3. N \in Nat /\ Blocks = Closed(ft)
      BY <1>2, AppendSequence DEF Blocks, Closed
<1>4. 1 \in Blocks /\ 1 \in V
      BY <1>1, <1>3 DEF SettledBut
<1>5. PICK r : IsReach(r) /\ Reached = r[N]
      BY <1>3, <1>4, ReachedIs
<1>6. \A b \in V : Succs(b) = Flows(b) /\ Flows(b) \subseteq V
      BY <1>1, <1>2, SettledFlows
<1>7. /\ r[0] = {1}
      /\ \A n \in Nat : n + 1 <= N =>
             r[n + 1] = r[n] \cup UNION {Flows(b) \cap Blocks : b \in r[n]}
  <2>1. r = [n \in 0 .. N |->
                IF n = 0 THEN {1}
                ELSE r[n - 1] \cup UNION {Flows(b) \cap Blocks : b \in r[n - 1]}]
        BY <1>5, Zenon DEF IsReach
  <2> HIDE DEF N
  <2>2. ASSUME NEW n \in 0 .. N
        PROVE  r[n] = IF n = 0 THEN {1}
                      ELSE r[n - 1] \cup UNION {Flows(b) \cap Blocks : b \in r[n - 1]}
        BY <2>1, Zenon
  <2>3. r[0] = {1}
    <3>1. 0 \in 0 .. N
          BY <1>3
    <3> QED BY <2>2, <3>1, Zenon
  <2>4. ASSUME NEW n \in Nat, n + 1 <= N
        PROVE  r[n + 1] = r[n] \cup UNION {Flows(b) \cap Blocks : b \in r[n]}
    <3> DEFINE m == n + 1
    <3>1. m \in 0 .. N /\ m # 0 /\ m - 1 = n
          BY <1>3, <2>4
    <3> HIDE DEF m
    <3>2. r[m] = r[m - 1] \cup UNION {Flows(b) \cap Blocks : b \in r[m - 1]}
          BY <2>2, <3>1
    <3>3. r[m] = r[n] \cup UNION {Flows(b) \cap Blocks : b \in r[n]}
          BY <3>1, <3>2, Zenon
    <3> QED BY <3>3, Zenon DEF m
  <2> QED BY <2>3, <2>4
<1> HIDE DEF V, N
<1>8. ASSUME NEW n \in Nat, n + 1 <= N, r[n] \subseteq V PROVE r[n + 1] \subseteq V
      BY <1>6, <1>7, <1>8
<1>9. r[0] \subseteq V
      BY <1>4, <1>7
<1>10. r[N] \subseteq V
      BY <1>3, <1>8, <1>9, LayersStay
<1> QED BY <1>5, <1>6, <1>10

----------------------------------------------------------------------------
(* The theorem                                                             *)

\* The translation starts with one open block and no labels handed out.
LEMMA InitGood == ASSUME Init PROVE Good(ft, frames)
<1> DEFINE t == Translator
           i == Def(1, 0)
           s == <<>>
           U == {}
<1>1. /\ t.blocks = s /\ t.edges = {} /\ t.instrs = s /\ t.block = NoBlock /\ t.dead = FALSE
      /\ t.label = 1 /\ t.nlabel = 2 /\ t.vs = 1 /\ t.nssa = 2 /\ IsTranslator(t)
      BY DEF Translator, IsTranslator
<1>2. ft = Push(t, i) /\ frames = s
      BY DEF Init, NewTranslator
<1>3. Plain(Append(s, i)) /\ Len(s) = 0
      BY PlainStart, EmptySequence
<1> HIDE DEF t, i
<1>4. /\ ft.blocks = s /\ ft.edges = {} /\ ft.block = NoBlock /\ ft.dead = FALSE
      /\ ft.label = 1 /\ ft.nlabel = 2 /\ ft.vs = 1 /\ ft.nssa = 2 /\ ft.instrs = Append(s, i)
      BY <1>1, <1>2, PushAll
<1> DEFINE f == ft
<1>4a. /\ f.blocks = s /\ f.edges = {} /\ f.block = NoBlock /\ f.dead = FALSE
       /\ f.label = 1 /\ f.nlabel = 2 /\ f.vs = 1 /\ f.nssa = 2 /\ f.instrs = Append(s, i)
      BY <1>4
<1> HIDE DEF s, f
<1>5. Closed(f) = {} /\ Known(f) = {1} /\ OpenBlock(f) = 1 /\ Lab(f, 1) = 1
  <2>1. Len(f.blocks) = 0
        BY <1>3, <1>4a
  <2>2. Closed(f) = {} /\ Known(f) = {1} /\ OpenBlock(f) = 1
        BY <2>1 DEF Closed, Known, OpenBlock
  <2> QED BY <1>4a, <2>2 DEF Lab
<1>6. \A j : j \notin 1 .. Len(s)
      BY <1>3
<1>7. LabelsOK(f)
      BY <1>4a, <1>5 DEF LabelsOK
<1>8. NamesOK(f, s) /\ DebtsOK(f, s, U) /\ SealOK(f, s, U) /\ HeadOK(s, U)
      BY <1>6 DEF NamesOK, DebtsOK, SealOK, HeadOK
<1>9. EdgesOK(f, U) /\ FlowOK(f, s, U) /\ ShutOK(f, U)
      BY <1>4a, <1>5 DEF EdgesOK, FlowOK, ShutOK
<1>10. OpenOK(f, U)
      BY <1>3, <1>4a DEF OpenOK
<1>11. Graph(f, s, U)
      BY <1>7, <1>8, <1>9, <1>10 DEF Graph
<1>12. DeadOK(f, s, U)
      BY <1>4a DEF DeadOK
<1>13. SsaOK(f, s)
  <2>1. Ssa(f.vs) /\ Ssa(f.nssa)
        BY <1>4a DEF Ssa, NoSSA
  <2> QED BY <1>6, <2>1 DEF SsaOK
<1>14. Good(f, s)
      BY <1>11, <1>12, <1>13 DEF Good
<1> QED BY <1>2, <1>14 DEF f

\* The inductive invariant of the whole specification.
EdgeInv ==
    /\ Inv
    /\ phase = "translate" => Good(ft, frames)
    /\ phase = "translated" => Settled(ft)

\* A step of the whole specification.
LEMMA StepEdgeInv ==
    ASSUME "nested return in call" \notin Forms, EdgeInv, [Next]_vars
    PROVE  EdgeInv'
<1>0. Inv'
      BY StepInv DEF EdgeInv
<1>1. CASE Translate
  <2>0. Translating /\ Good(ft, frames) /\ TranslateStatement /\ phase' = "translate"
        BY <1>1 DEF Translate, EdgeInv, Inv
  <2>1. Good(ft', frames')
        BY <2>0, TranslateGood, Zenon
  <2> QED BY <1>0, <2>0, <2>1 DEF EdgeInv
<1>2. CASE Finish
  <2>0. Translating /\ Good(ft, frames) /\ phase' = "translated"
        BY <1>2 DEF Finish, EdgeInv, Inv
  <2>1. Settled(ft')
        BY <1>2, <2>0, FinishSettled
  <2> QED BY <1>0, <2>0, <2>1 DEF EdgeInv
<1>3. CASE Start \/ SrcStep \/ MachStep \/ Both
  <2>1. phase' \in {"run", "stopped"}
        BY <1>3 DEF Start, SrcStep, MachStep, Both, AtEvent
  <2> QED BY <1>0, <2>1 DEF EdgeInv
<1>4. CASE UNCHANGED vars
  <2>1. ft' = ft /\ frames' = frames /\ phase' = phase
        BY <1>4 DEF vars
  <2> QED BY <1>0, <2>1 DEF EdgeInv
<1> QED BY <1>1, <1>2, <1>3, <1>4 DEF Next, Stopped

\* Once a function is translated, the CFG edges from every block its code
\* can reach are the ways control leaves that block, its branches and its
\* fallthrough, whatever the program: its length, its nesting, its dead code
\* and its inlined calls.  A Return of an inlined function that stands in a
\* branch or loop of it is excluded: the translator only sets dead_code
\* there, and the edges of the construct around it do not follow.
THEOREM EdgesMatchBranchesHolds ==
    ASSUME "nested return in call" \notin Forms
    PROVE  Spec => []EdgesMatchBranches
<1>1. Init => EdgeInv
  <2> SUFFICES ASSUME Init PROVE EdgeInv
      OBVIOUS
  <2>1. Inv /\ Good(ft, frames) /\ phase = "translate"
        BY InitTranslating, InitGood DEF Init
  <2> QED BY <2>1 DEF EdgeInv
<1>2. EdgeInv /\ [Next]_vars => EdgeInv'
      BY StepEdgeInv, Zenon
<1>3. EdgeInv => EdgesMatchBranches
  <2> SUFFICES ASSUME EdgeInv, Done PROVE \A b \in Reached : Succs(b) = Flows(b)
      BY DEF EdgesMatchBranches
  <2>1. Settled(ft)
        BY DEF EdgeInv, Done
  <2> QED BY <2>1, SettledEdges
<1> QED BY <1>1, <1>2, <1>3, PTL DEF Spec
=============================================================================
