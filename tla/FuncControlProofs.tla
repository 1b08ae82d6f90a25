------------------------- MODULE FuncControlProofs -------------------------
(***************************************************************************)
(* The phis that FuncTranslator emits are complete, for programs of any    *)
(* length and nesting.                                                     *)
(*                                                                         *)
(* Edges are added long after the blocks they join: those of a Break when  *)
(* the loop is closed, those into an arm when the arm is.  So every frame   *)
(* carries what its edges will need: which phis the blocks it remembers     *)
(* have sources for, and that the blocks it will lead to have no others.    *)
(***************************************************************************)
EXTENDS FuncControlExec, SequenceTheorems, WellFoundedInduction, TLAPS

----------------------------------------------------------------------------
(* The inductive invariant                                                 *)

\* A sequence, whatever it is a sequence of.
Sequence(s) == s \in Seq({s[k] : k \in DOMAIN s})

\* The phis that the code of a block has a source, or a destination, for.
PhisAt(is, op) == UNION {DOMAIN is[k].m : k \in {j \in DOMAIN is : is[j].op = op}}
SrcPhis(is) == PhisAt(is, "phisrcs")
DstPhis(is) == PhisAt(is, "phidsts")

Without(is, op) == \A j \in DOMAIN is : is[j].op # op
Single(is, op) == \A j, k \in DOMAIN is : is[j].op = op /\ is[k].op = op => j = k
Simple(is) == Sequence(is) /\ Single(is, "phisrcs") /\ Single(is, "phidsts")

\* The blocks that are closed, and the one that is open.
Closed(f) == 1 .. Len(f.blocks)
Known(f) == 1 .. Len(f.blocks) + 1
CodeAt(f, b) == IF b \in Closed(f) THEN f.blocks[b].instrs ELSE f.instrs

\* A record with the fields of FuncTranslator.
IsTranslator(f) ==
    f = [blocks |-> f.blocks, edges |-> f.edges, instrs |-> f.instrs, label |-> f.label,
         block |-> f.block, dead |-> f.dead, vs |-> f.vs, inlineReturn |-> f.inlineReturn,
         nssa |-> f.nssa, nphi |-> f.nphi, nlabel |-> f.nlabel]

Fields(f) ==
    /\ IsTranslator(f) /\ Sequence(f.blocks) /\ Simple(f.instrs) /\ f.dead \in BOOLEAN
    /\ \A b \in Closed(f) : Simple(f.blocks[b].instrs)

\* An edge leads from a closed block to one that has no phi the first has no
\* source for.
Complete(f, e) ==
    /\ e[1] \in Closed(f) /\ e[2] \in Known(f)
    /\ DstPhis(CodeAt(f, e[2])) \subseteq SrcPhis(CodeAt(f, e[1]))
EdgesComplete(f) == \A e \in f.edges : Complete(f, e)

\* The block that falls into the open one, which then has no phis.
FallThrough(f) == f.block # NoBlock => f.block \in Closed(f) /\ DstPhis(f.instrs) = {}

\* The translator while a block is being closed, and between statements.
Busy(f) == Fields(f) /\ EdgesComplete(f) /\ FallThrough(f)
Ready(f) == Busy(f) /\ Without(f.instrs, "phisrcs")

\* Block b has a source for phi p; block b has no other phis than P.
Feeds(f, b, p) == b \in Closed(f) /\ p \in SrcPhis(CodeAt(f, b))
Takes(f, b, P) == b \in Known(f) /\ DstPhis(CodeAt(f, b)) \subseteq P

IsIf(fr) ==
    fr = [k |-> fr.k, stage |-> fr.stage, merge |-> fr.merge, phi |-> fr.phi, pre |-> fr.pre,
          cond |-> fr.cond, start |-> fr.start, acceptEnd |-> fr.acceptEnd,
          acceptDead |-> fr.acceptDead, acceptVs |-> fr.acceptVs]
IfOK(f, fr) ==
    /\ IsIf(fr) /\ fr.stage \in {"accept", "accept of two", "reject"}
    /\ fr.cond \in Closed(f) /\ Takes(f, fr.start, {})
    /\ fr.stage = "accept" => Feeds(f, fr.cond, fr.phi)
    /\ fr.stage = "reject" /\ ~fr.acceptDead => Feeds(f, fr.acceptEnd, fr.phi)

IsLoop(fr) ==
    fr = [k |-> fr.k, stage |-> fr.stage, headerLabel |-> fr.headerLabel,
          contLabel |-> fr.contLabel, exitLabel |-> fr.exitLabel, headerPhi |-> fr.headerPhi,
          exitPhi |-> fr.exitPhi, contPhi |-> fr.contPhi, header |-> fr.header,
          cont |-> fr.cont, bodyDead |-> fr.bodyDead, breaks |-> fr.breaks,
          continues |-> fr.continues]
LoopOK(f, fr) ==
    /\ IsLoop(fr) /\ fr.stage \in {"body", "cont"}
    /\ Takes(f, fr.header, {fr.headerPhi})
    /\ \A b \in fr.breaks : Feeds(f, b, fr.exitPhi)
    /\ \A b \in fr.continues : Feeds(f, b, fr.contPhi)
    /\ fr.stage = "cont" => Takes(f, fr.cont, {fr.contPhi})

IsSwitch(fr) ==
    fr = [k |-> fr.k, stage |-> fr.stage, merge |-> fr.merge, sel |-> fr.sel,
          check |-> fr.check, next |-> fr.next, ends |-> fr.ends]
SwitchOK(f, fr) ==
    /\ IsSwitch(fr) /\ fr.stage \in {"checks", "case", "default"}
    /\ fr.stage = "case" => fr.check \in Closed(f) /\ Takes(f, fr.check + 1, {})
    /\ fr.ends \subseteq Closed(f)

FrameOK(f, fr) ==
    /\ fr.k \in {"if", "loop", "switch", "call"}
    /\ fr.k = "if" => IfOK(f, fr)
    /\ fr.k = "loop" => LoopOK(f, fr)
    /\ fr.k = "switch" => SwitchOK(f, fr)

FramesOK(f, s) == Sequence(s) /\ \A n \in 1 .. Len(s) : FrameOK(f, s[n])

\* A jump stands in no continuing block, and what ends a case or an arm makes
\* the code alive again.
MayBeDead(fr) ==
    /\ fr.k = "loop" => fr.stage = "body"
    /\ fr.k = "switch" => fr.stage # "checks"
DeadTop(f, s) == f.dead /\ Len(s) > 0 => MayBeDead(s[Len(s)])

Translating == Ready(ft) /\ FramesOK(ft, frames) /\ DeadTop(ft, frames)

Inv == (phase = "translate" => Translating) /\ PhisComplete

----------------------------------------------------------------------------
(* Sequences                                                               *)

\* Appending to a sequence.
LEMMA AppendSequence ==
    ASSUME NEW s, Sequence(s), NEW e
    PROVE  /\ Sequence(Append(s, e)) /\ Len(s) \in Nat /\ DOMAIN s = 1 .. Len(s)
           /\ Len(Append(s, e)) = Len(s) + 1 /\ DOMAIN Append(s, e) = 1 .. Len(s) + 1
           /\ \A k \in 1 .. Len(s) : Append(s, e)[k] = s[k]
           /\ Append(s, e)[Len(s) + 1] = e
<1> DEFINE R == {s[k] : k \in DOMAIN s}
           t == Append(s, e)
           T == {t[k] : k \in DOMAIN t}
<1>1. s \in Seq(R)
      BY DEF Sequence
<1> HIDE DEF R
<1>2. s \in Seq(R \cup {e}) /\ e \in R \cup {e}
      BY <1>1
<1>3. /\ Len(s) \in Nat /\ DOMAIN s = 1 .. Len(s)
      /\ t \in Seq(R \cup {e}) /\ Len(t) = Len(s) + 1
      /\ \A k \in 1 .. Len(s) : t[k] = s[k]
      /\ t[Len(s) + 1] = e
      BY <1>2
<1> HIDE DEF t
<1>4. DOMAIN t = 1 .. Len(s) + 1 /\ Len(t) \in Nat
      BY <1>3
<1>5. t = [k \in 1 .. Len(t) |-> t[k]]
      BY <1>3, <1>4
<1>6. t \in [1 .. Len(t) -> T]
      BY <1>3, <1>4, <1>5
<1>7. t \in Seq(T)
      BY <1>4, <1>6
<1> QED BY <1>3, <1>4, <1>7 DEF Sequence, t

\* The empty sequence.
LEMMA EmptySequence == Sequence(<<>>) /\ Len(<<>>) = 0 /\ DOMAIN <<>> = {}
BY DEF Sequence

\* The phis of a block with one more instruction.
LEMMA AppendPhis ==
    ASSUME NEW s, Sequence(s), NEW e, NEW op
    PROVE  /\ PhisAt(Append(s, e), op) = PhisAt(s, op) \cup (IF e.op = op THEN DOMAIN e.m ELSE {})
           /\ Without(s, op) /\ e.op # op => Without(Append(s, e), op)
           /\ Single(s, op) /\ (Without(s, op) \/ e.op # op) => Single(Append(s, e), op)
<1> DEFINE t == Append(s, e)
<1>1. /\ DOMAIN s = 1 .. Len(s) /\ Len(s) \in Nat /\ DOMAIN t = 1 .. Len(s) + 1
      /\ \A k \in 1 .. Len(s) : t[k] = s[k]
      /\ t[Len(s) + 1] = e
      BY AppendSequence
<1> HIDE DEF t
<1>2. DOMAIN t = DOMAIN s \cup {Len(s) + 1} /\ \A k \in DOMAIN s : t[k] = s[k]
      BY <1>1
<1>3. Len(s) + 1 \notin DOMAIN s
      BY <1>1
<1>4. PhisAt(t, op) = PhisAt(s, op) \cup (IF e.op = op THEN DOMAIN e.m ELSE {})
  <2>1. ASSUME NEW p \in PhisAt(t, op) PROVE p \in PhisAt(s, op) \cup (IF e.op = op THEN DOMAIN e.m ELSE {})
    <3>1. PICK k \in DOMAIN t : t[k].op = op /\ p \in DOMAIN t[k].m
          BY DEF PhisAt
    <3>2. CASE k \in DOMAIN s
          BY <1>2, <3>1, <3>2 DEF PhisAt
    <3>3. CASE k = Len(s) + 1
          BY <1>1, <3>1, <3>3
    <3> QED BY <1>2, <3>2, <3>3
  <2>2. ASSUME NEW p \in PhisAt(s, op) PROVE p \in PhisAt(t, op)
    <3>1. PICK k \in DOMAIN s : s[k].op = op /\ p \in DOMAIN s[k].m
          BY DEF PhisAt
    <3>2. k \in DOMAIN t /\ t[k].op = op /\ p \in DOMAIN t[k].m
          BY <1>2, <3>1
    <3> QED BY <3>2 DEF PhisAt
  <2>3. ASSUME e.op = op, NEW p \in DOMAIN e.m PROVE p \in PhisAt(t, op)
    <3>1. Len(s) + 1 \in DOMAIN t /\ t[Len(s) + 1].op = op /\ p \in DOMAIN t[Len(s) + 1].m
          BY <1>1, <1>2, <2>3
    <3> QED BY <3>1 DEF PhisAt
  <2> QED BY <2>1, <2>2, <2>3
<1>5. Without(s, op) /\ e.op # op => Without(t, op)
      BY <1>1, <1>2 DEF Without
<1>6. Single(s, op) /\ (Without(s, op) \/ e.op # op) => Single(t, op)
      BY <1>1, <1>2 DEF Single, Without
<1> QED BY <1>4, <1>5, <1>6 DEF t

\* Code without such an instruction has no phis there.
LEMMA NoPhis ==
    ASSUME NEW s, NEW op, Without(s, op)
    PROVE  PhisAt(s, op) = {} /\ Single(s, op)
BY DEF PhisAt, Without, Single

\* An empty block is simple and has no phis.
LEMMA EmptyBlock ==
    Simple(<<>>) /\ Without(<<>>, "phisrcs") /\ Without(<<>>, "phidsts") /\ DstPhis(<<>>) = {} /\ SrcPhis(<<>>) = {}
BY EmptySequence DEF Simple, Without, Single, DstPhis, SrcPhis, PhisAt

----------------------------------------------------------------------------
(* Block management                                                        *)

\* What a step of the translator leaves of earlier blocks: closed ones as
\* they are, the open one with the phis it has.
Grows(f, g) ==
    /\ Len(f.blocks) <= Len(g.blocks)
    /\ \A b \in Closed(f) : g.blocks[b] = f.blocks[b]
    /\ DstPhis(CodeAt(g, Len(f.blocks) + 1)) = DstPhis(f.instrs)

\* The open block has just been started: nothing leads to it yet.
Fresh(f) ==
    /\ f.instrs = <<>> /\ f.block = NoBlock
    /\ \A e \in f.edges : e[2] \in Closed(f)

\* The length of the list of blocks.
LEMMA BlockCount ==
    ASSUME NEW f, Fields(f)
    PROVE  /\ Len(f.blocks) \in Nat /\ DOMAIN f.blocks = Closed(f)
           /\ Len(f.blocks) + 1 \in Known(f) /\ Len(f.blocks) + 1 \notin Closed(f)
           /\ Known(f) = Closed(f) \cup {Len(f.blocks) + 1} /\ 0 \notin Closed(f)
<1>1. Len(f.blocks) \in Nat /\ DOMAIN f.blocks = 1 .. Len(f.blocks)
      BY AppendSequence DEF Fields
<1> QED BY <1>1 DEF Closed, Known

\* push_instr.
LEMMA PushFields ==
    ASSUME NEW f, IsTranslator(f), NEW i
    PROVE  LET g == Push(f, i)
           IN  /\ IsTranslator(g) /\ g.blocks = f.blocks /\ g.edges = f.edges
               /\ g.block = f.block /\ g.dead = f.dead /\ g.label = f.label
               /\ g.vs = f.vs /\ g.nphi = f.nphi /\ g.nlabel = f.nlabel
               /\ f.dead => g.instrs = f.instrs
               /\ ~f.dead => g.instrs = Append(f.instrs, i)
BY DEF Push, IsTranslator

\* finish_block and finish_block_no_fallthrough.
LEMMA CloseFields ==
    ASSUME NEW f, IsTranslator(f), NEW current
    PROVE  LET g == Close(f, current)
           IN  /\ IsTranslator(g) /\ g.block = current /\ g.instrs = <<>> /\ g.dead = f.dead
               /\ g.blocks = Append(f.blocks, [label |-> f.label, instrs |-> f.instrs])
               /\ g.edges = f.edges \cup {<<p, Len(f.blocks) + 1>> : p \in {f.block} \ {NoBlock}}
               /\ g.label = f.label /\ g.vs = f.vs /\ g.nphi = f.nphi /\ g.nlabel = f.nlabel
<1> DEFINE B == Append(f.blocks, [label |-> f.label, instrs |-> f.instrs])
           E == f.edges \cup {<<p, Len(f.blocks) + 1>> : p \in {f.block} \ {NoBlock}}
           g == Close(f, current)
<1>1. g = [f EXCEPT !.blocks = B, !.instrs = <<>>, !.edges = E, !.block = current]
      BY DEF Close, NextBlockId
<1> HIDE DEF B, E, g
<1>2. g = [blocks |-> B, edges |-> E, instrs |-> <<>>, label |-> f.label,
           block |-> current, dead |-> f.dead, vs |-> f.vs, inlineReturn |-> f.inlineReturn,
           nssa |-> f.nssa, nphi |-> f.nphi, nlabel |-> f.nlabel]
      BY <1>1 DEF IsTranslator
<1>3. /\ IsTranslator(g) /\ g.block = current /\ g.instrs = <<>> /\ g.dead = f.dead
      /\ g.blocks = B /\ g.edges = E
      /\ g.label = f.label /\ g.vs = f.vs /\ g.nphi = f.nphi /\ g.nlabel = f.nlabel
      BY <1>2 DEF IsTranslator
<1> QED BY <1>3 DEF B, E, g

\* start_block.
LEMMA StartFields ==
    ASSUME NEW f, IsTranslator(f), NEW label
    PROVE  LET g == StartBlockAt(f, label)
               h == StartBlock(f)
           IN  /\ IsTranslator(g) /\ g.blocks = f.blocks /\ g.edges = f.edges /\ g.block = f.block
               /\ g.dead = f.dead /\ g.instrs = <<>> /\ g.label = label
               /\ g.vs = f.vs /\ g.nphi = f.nphi /\ g.nlabel = f.nlabel
               /\ IsTranslator(h) /\ h.blocks = f.blocks /\ h.edges = f.edges /\ h.block = f.block
               /\ h.dead = f.dead /\ h.instrs = <<>> /\ h.label = f.nlabel
               /\ h.vs = f.vs /\ h.nphi = f.nphi /\ h.nlabel = f.nlabel + 1
<1> DEFINE g == StartBlockAt(f, label)
           k == StartBlockAt(f, f.nlabel)
           h == StartBlock(f)
           Started(l, next) ==
               [blocks |-> f.blocks, edges |-> f.edges, instrs |-> <<>>, label |-> l,
                block |-> f.block, dead |-> f.dead, vs |-> f.vs, inlineReturn |-> f.inlineReturn,
                nssa |-> f.nssa, nphi |-> f.nphi, nlabel |-> next]
<1>1. ASSUME NEW l, NEW x, x = StartBlockAt(f, l) PROVE x = Started(l, f.nlabel)
  <2>1. x = [f EXCEPT !.label = l, !.instrs = <<>>]
        BY <1>1 DEF StartBlockAt
  <2> QED BY <2>1 DEF IsTranslator
<1>2. h = [k EXCEPT !.nlabel = @ + 1]
      BY DEF StartBlock
<1>a. g = Started(label, f.nlabel) /\ k = Started(f.nlabel, f.nlabel)
      BY <1>1
<1> HIDE DEF g, h, k
<1>3. h = Started(f.nlabel, f.nlabel + 1)
      BY <1>a, <1>2
<1>4. /\ IsTranslator(g) /\ g.blocks = f.blocks /\ g.edges = f.edges /\ g.block = f.block
      /\ g.dead = f.dead /\ g.instrs = <<>> /\ g.label = label
      /\ g.vs = f.vs /\ g.nphi = f.nphi /\ g.nlabel = f.nlabel
      BY <1>a DEF IsTranslator
<1>5. /\ IsTranslator(h) /\ h.blocks = f.blocks /\ h.edges = f.edges /\ h.block = f.block
      /\ h.dead = f.dead /\ h.instrs = <<>> /\ h.label = f.nlabel
      /\ h.vs = f.vs /\ h.nphi = f.nphi /\ h.nlabel = f.nlabel + 1
      BY <1>3 DEF IsTranslator
<1> QED BY <1>4, <1>5 DEF g, h

\* Pushing an instruction other than phi destinations.
LEMMA PushKeeps ==
    ASSUME NEW f, Busy(f), NEW i, i.op # "phidsts",
           Without(f.instrs, "phisrcs") \/ i.op # "phisrcs"
    PROVE  LET g == Push(f, i)
           IN  /\ Busy(g) /\ Grows(f, g)
               /\ g.blocks = f.blocks /\ g.dead = f.dead /\ g.vs = f.vs
               /\ g.nphi = f.nphi /\ g.nlabel = f.nlabel
               /\ Without(f.instrs, "phisrcs") /\ i.op # "phisrcs" => Without(g.instrs, "phisrcs")
               /\ i.op = "phisrcs" /\ ~f.dead => SrcPhis(g.instrs) = DOMAIN i.m
               /\ i.op # "phisrcs" => SrcPhis(g.instrs) = SrcPhis(f.instrs)
<1> DEFINE g == Push(f, i)
<1>1. /\ IsTranslator(g) /\ g.blocks = f.blocks /\ g.edges = f.edges
      /\ g.block = f.block /\ g.dead = f.dead
      /\ g.vs = f.vs /\ g.nphi = f.nphi /\ g.nlabel = f.nlabel
      /\ f.dead => g.instrs = f.instrs
      /\ ~f.dead => g.instrs = Append(f.instrs, i)
      BY PushFields DEF Busy, Fields
<1> HIDE DEF g
<1>2. Closed(g) = Closed(f) /\ Known(g) = Known(f) /\ \A b \in Closed(f) : CodeAt(g, b) = CodeAt(f, b)
      BY <1>1 DEF Closed, Known, CodeAt
<1>3. Sequence(f.instrs) /\ Simple(f.instrs) /\ f.dead \in BOOLEAN
      BY DEF Busy, Fields, Simple
<1>4. /\ Simple(g.instrs) /\ DstPhis(g.instrs) = DstPhis(f.instrs)
      /\ Without(f.instrs, "phisrcs") /\ i.op # "phisrcs" => Without(g.instrs, "phisrcs")
      /\ i.op = "phisrcs" /\ ~f.dead => SrcPhis(g.instrs) = DOMAIN i.m
      /\ i.op # "phisrcs" => SrcPhis(g.instrs) = SrcPhis(f.instrs)
  <2>1. CASE f.dead
        BY <1>1, <1>3, <2>1
  <2>2. CASE ~f.dead
    <3> DEFINE s == f.instrs
    <3>0. g.instrs = Append(s, i) /\ Sequence(s) /\ Single(s, "phisrcs") /\ Single(s, "phidsts")
          /\ (Without(s, "phisrcs") \/ i.op # "phisrcs")
          BY <1>1, <1>3, <2>2 DEF Simple
    <3> HIDE DEF s
    <3>1. Sequence(g.instrs)
          BY <3>0, AppendSequence
    <3>2. Single(g.instrs, "phisrcs") /\ Single(g.instrs, "phidsts")
          BY <3>0, AppendPhis
    <3>3. DstPhis(g.instrs) = DstPhis(s)
      <4>1. PhisAt(Append(s, i), "phidsts") = PhisAt(s, "phidsts") \cup {}
            BY <3>0, AppendPhis
      <4> QED BY <3>0, <4>1 DEF DstPhis
    <3>4. Without(s, "phisrcs") /\ i.op # "phisrcs" => Without(g.instrs, "phisrcs")
          BY <3>0, AppendPhis
    <3>5. i.op = "phisrcs" => SrcPhis(g.instrs) = DOMAIN i.m
      <4>1. i.op = "phisrcs" => PhisAt(s, "phisrcs") = {}
            BY <3>0, NoPhis
      <4>2. i.op = "phisrcs" => PhisAt(Append(s, i), "phisrcs") = PhisAt(s, "phisrcs") \cup DOMAIN i.m
            BY <3>0, AppendPhis
      <4> QED BY <3>0, <4>1, <4>2 DEF SrcPhis
    <3>6. i.op # "phisrcs" => SrcPhis(g.instrs) = SrcPhis(s)
      <4>1. i.op # "phisrcs" => PhisAt(Append(s, i), "phisrcs") = PhisAt(s, "phisrcs") \cup {}
            BY <3>0, AppendPhis
      <4> QED BY <3>0, <4>1 DEF SrcPhis
    <3>7. /\ DstPhis(g.instrs) = DstPhis(f.instrs)
          /\ i.op # "phisrcs" => SrcPhis(g.instrs) = SrcPhis(f.instrs)
          /\ Without(f.instrs, "phisrcs") /\ i.op # "phisrcs" => Without(g.instrs, "phisrcs")
          BY <3>3, <3>4, <3>6 DEF s
    <3> QED BY <3>1, <3>2, <3>5, <3>7 DEF Simple
  <2> QED BY <1>3, <2>1, <2>2
<1>5. Fields(g)
      BY <1>1, <1>2, <1>3, <1>4 DEF Busy, Fields
<1>6. \A b \in Known(f) : DstPhis(CodeAt(g, b)) = DstPhis(CodeAt(f, b))
      BY <1>2, <1>4 DEF CodeAt
<1>7. EdgesComplete(g)
      BY <1>1, <1>2, <1>6 DEF Busy, EdgesComplete, Complete
<1>8. FallThrough(g)
      BY <1>1, <1>2, <1>4 DEF Busy, FallThrough
<1>9. Grows(f, g)
  <2>1. Len(f.blocks) \in Nat /\ CodeAt(g, Len(f.blocks) + 1) = g.instrs
        BY <1>2, BlockCount DEF Busy, CodeAt
  <2> QED BY <1>1, <1>4, <2>1 DEF Grows
<1> QED BY <1>1, <1>4, <1>5, <1>7, <1>8, <1>9 DEF g, Busy

\* A step that leaves the blocks, the edges and the open block alone.
LEMMA SameKeeps ==
    ASSUME NEW f, Busy(f), NEW g, IsTranslator(g), g.dead \in BOOLEAN,
           g.blocks = f.blocks, g.edges = f.edges, g.instrs = f.instrs, g.block = f.block
    PROVE  /\ Busy(g) /\ Grows(f, g) /\ (Ready(f) => Ready(g))
           /\ Fresh(f) => Fresh(g)
<1>1. /\ Closed(g) = Closed(f) /\ Known(g) = Known(f)
      /\ \A b : CodeAt(g, b) = CodeAt(f, b)
      BY DEF Closed, Known, CodeAt
<1>2. Fields(g)
      BY <1>1 DEF Busy, Fields
<1>3. EdgesComplete(g)
      BY <1>1 DEF Busy, EdgesComplete, Complete
<1>4. FallThrough(g)
      BY <1>1 DEF Busy, FallThrough
<1>5. Grows(f, g)
  <2>1. Len(f.blocks) \in Nat /\ CodeAt(f, Len(f.blocks) + 1) = f.instrs
        BY BlockCount DEF Busy, CodeAt
  <2> QED BY <1>1, <2>1 DEF Grows
<1>6. Fresh(f) => Fresh(g)
      BY <1>1 DEF Fresh
<1> QED BY <1>2, <1>3, <1>4, <1>5, <1>6 DEF Busy, Ready

\* Growing is transitive, and nothing but the blocks matters once the block
\* that was open is closed.
LEMMA GrowsOn ==
    ASSUME NEW f, Fields(f), NEW g, Fields(g), NEW h, Fields(h), Grows(f, g)
    PROVE  /\ Grows(g, h) => Grows(f, h)
           /\ h.blocks = g.blocks /\ Len(f.blocks) < Len(g.blocks) => Grows(f, h)
           /\ Closed(f) \subseteq Closed(g) /\ Known(f) \subseteq Known(g)
           /\ \A b \in Closed(f) : CodeAt(g, b) = CodeAt(f, b)
           /\ \A b \in Known(f) : DstPhis(CodeAt(g, b)) = DstPhis(CodeAt(f, b))
<1> DEFINE l == Len(f.blocks)
           m == Len(g.blocks)
           n == Len(h.blocks)
<1>1. l \in Nat /\ m \in Nat /\ n \in Nat
      BY BlockCount
<1>2. l <= m /\ Closed(f) = 1 .. l /\ Closed(g) = 1 .. m /\ Known(f) = 1 .. l + 1 /\ Known(g) = 1 .. m + 1
      /\ Closed(h) = 1 .. n
      BY DEF Grows, Closed, Known
<1>g. DstPhis(CodeAt(g, l + 1)) = DstPhis(f.instrs) /\ \A b \in Closed(f) : g.blocks[b] = f.blocks[b]
      BY DEF Grows
<1> HIDE DEF l, m, n
<1>3. Closed(f) \subseteq Closed(g) /\ Known(f) \subseteq Known(g)
      BY <1>1, <1>2
<1>4. \A b \in Closed(f) : CodeAt(g, b) = CodeAt(f, b)
      BY <1>3, <1>g DEF CodeAt
<1>5. \A b \in Known(f) : DstPhis(CodeAt(g, b)) = DstPhis(CodeAt(f, b))
  <2>1. CodeAt(f, l + 1) = f.instrs
        BY <1>1, <1>2 DEF CodeAt
  <2>2. \A b \in Known(f) : b \in Closed(f) \/ b = l + 1
        BY <1>1, <1>2
  <2> QED BY <1>4, <1>g, <2>1, <2>2
<1>6. ASSUME h.blocks = g.blocks, l < m PROVE Grows(f, h)
  <2>1. l + 1 \in Closed(g) /\ Closed(h) = Closed(g)
        BY <1>1, <1>2, <1>6 DEF n, m
  <2>2. CodeAt(h, l + 1) = CodeAt(g, l + 1)
        BY <1>6, <2>1 DEF CodeAt
  <2>3. l <= Len(h.blocks)
        BY <1>1, <1>2, <1>6 DEF m
  <2> QED BY <1>6, <1>g, <2>2, <2>3 DEF Grows, l
<1>7. ASSUME Grows(g, h) PROVE Grows(f, h)
  <2>1. m <= n /\ \A b \in Closed(g) : h.blocks[b] = g.blocks[b]
        BY <1>7 DEF Grows, m, n
  <2>2. l <= n /\ \A b \in Closed(f) : h.blocks[b] = f.blocks[b]
        BY <1>1, <1>2, <1>3, <1>g, <2>1
  <2>3. DstPhis(CodeAt(h, l + 1)) = DstPhis(CodeAt(g, l + 1))
    <3>1. CASE l < m
      <4>1. l + 1 \in Closed(g) /\ l + 1 \in Closed(h)
            BY <1>1, <1>2, <2>1, <3>1
      <4> QED BY <2>1, <4>1 DEF CodeAt
    <3>2. CASE l = m
      <4>1. CodeAt(g, m + 1) = g.instrs
            BY <1>1, <1>2 DEF CodeAt
      <4>2. DstPhis(CodeAt(h, m + 1)) = DstPhis(g.instrs)
            BY <1>7 DEF Grows, m
      <4> QED BY <3>2, <4>1, <4>2
    <3> QED BY <1>1, <1>2, <3>1, <3>2
  <2> QED BY <1>g, <2>2, <2>3 DEF Grows, l, n
<1> QED BY <1>3, <1>4, <1>5, <1>6, <1>7 DEF l, m

\* finish_block and finish_block_no_fallthrough add the block, which keeps
\* its phis.
LEMMA CloseKeeps ==
    ASSUME NEW f, Busy(f), NEW current, current \in {NoBlock, Len(f.blocks) + 1}
    PROVE  LET g == Close(f, current)
           IN  /\ Ready(g) /\ Grows(f, g) /\ Len(g.blocks) = Len(f.blocks) + 1
               /\ g.instrs = <<>> /\ g.dead = f.dead /\ g.vs = f.vs
               /\ g.nphi = f.nphi /\ g.nlabel = f.nlabel
               /\ current = NoBlock => Fresh(g)
               /\ \A e \in g.edges : e[2] \in Closed(g)
               /\ Len(f.blocks) + 1 \in Closed(g)
               /\ SrcPhis(CodeAt(g, Len(f.blocks) + 1)) = SrcPhis(f.instrs)
<1> DEFINE g == Close(f, current)
           n == Len(f.blocks)
           B == [label |-> f.label, instrs |-> f.instrs]
<1>1. /\ IsTranslator(g) /\ g.block = current /\ g.instrs = <<>> /\ g.dead = f.dead
      /\ g.blocks = Append(f.blocks, B)
      /\ g.edges = f.edges \cup {<<p, n + 1>> : p \in {f.block} \ {NoBlock}}
      /\ g.vs = f.vs /\ g.nphi = f.nphi /\ g.nlabel = f.nlabel
      BY CloseFields DEF Busy, Fields
<1>2. /\ Sequence(g.blocks) /\ n \in Nat /\ Len(g.blocks) = n + 1
      /\ \A k \in 1 .. n : g.blocks[k] = f.blocks[k]
      /\ g.blocks[n + 1] = B
      BY <1>1, AppendSequence DEF Busy, Fields
<1>3. B.instrs = f.instrs
      OBVIOUS
<1> HIDE DEF g, n, B
<1>4. /\ Closed(f) = 1 .. n /\ Known(f) = 1 .. n + 1 /\ Closed(g) = 1 .. n + 1
      /\ Known(g) = 1 .. (n + 1) + 1
      BY <1>2 DEF Closed, Known, n
<1>5. \A b \in Known(f) : CodeAt(g, b) = CodeAt(f, b)
  <2>1. \A b \in Closed(f) : CodeAt(g, b) = CodeAt(f, b)
        BY <1>2, <1>4 DEF CodeAt
  <2>2. CodeAt(f, n + 1) = f.instrs /\ CodeAt(g, n + 1) = f.instrs
        BY <1>2, <1>3, <1>4 DEF CodeAt
  <2>3. \A b \in Known(f) : b \in Closed(f) \/ b = n + 1
        BY <1>2, <1>4
  <2> QED BY <2>1, <2>2, <2>3
<1>6. CodeAt(g, n + 1) = f.instrs /\ n + 1 \in Closed(g) /\ n + 1 \in Known(f)
      /\ CodeAt(f, n + 1) = f.instrs
      BY <1>2, <1>3, <1>4 DEF CodeAt
<1>7. Fields(g)
  <2>1. \A b \in Closed(f) : g.blocks[b] = f.blocks[b] /\ Simple(f.blocks[b].instrs)
        BY <1>2, <1>4 DEF Busy, Fields
  <2>2. Simple(g.blocks[n + 1].instrs)
        BY <1>2, <1>3 DEF Busy, Fields
  <2>3. \A b \in Closed(g) : Simple(g.blocks[b].instrs)
    <3>1. \A b \in Closed(g) : b \in Closed(f) \/ b = n + 1
          BY <1>2, <1>4
    <3> QED BY <2>1, <2>2, <3>1
  <2>4. Simple(g.instrs) /\ g.dead \in BOOLEAN
        BY <1>1, EmptyBlock DEF Busy, Fields
  <2> QED BY <1>1, <1>2, <2>3, <2>4 DEF Fields
<1>8. ASSUME NEW e \in g.edges PROVE Complete(g, e) /\ e[2] \in Closed(g)
  <2>0. Closed(f) \subseteq Closed(g) /\ Closed(g) \subseteq Known(g) /\ Known(f) \subseteq Known(g)
        /\ Known(f) = Closed(g) /\ Closed(f) \subseteq Known(f)
        BY <1>2, <1>4
  <2>1. CASE e \in f.edges
    <3>1. Complete(f, e)
          BY <2>1 DEF Busy, EdgesComplete
    <3> QED BY <1>5, <2>0, <3>1 DEF Complete
  <2>2. CASE f.block # NoBlock /\ e = <<f.block, n + 1>>
    <3>1. f.block \in Closed(f) /\ DstPhis(f.instrs) = {}
          BY <2>2 DEF Busy, FallThrough
    <3>2. e[1] = f.block /\ e[2] = n + 1
          BY <2>2
    <3> QED BY <1>5, <1>6, <2>0, <3>1, <3>2 DEF Complete
  <2> QED BY <1>1, <1>8, <2>1, <2>2
<1>9. FallThrough(g) /\ Without(g.instrs, "phisrcs")
      BY <1>1, <1>4, <1>6, EmptyBlock DEF FallThrough, n
<1>10. Grows(f, g)
  <2>1. Len(f.blocks) <= Len(g.blocks)
        BY <1>2 DEF n
  <2>2. \A b \in Closed(f) : g.blocks[b] = f.blocks[b]
        BY <1>2, <1>4
  <2>3. DstPhis(CodeAt(g, Len(f.blocks) + 1)) = DstPhis(f.instrs)
        BY <1>6 DEF n
  <2> QED BY <2>1, <2>2, <2>3 DEF Grows
<1>11. current = NoBlock => Fresh(g)
      BY <1>1, <1>8 DEF Fresh
<1>12. Ready(g)
      BY <1>7, <1>8, <1>9 DEF Ready, Busy, EdgesComplete
<1> QED BY <1>1, <1>2, <1>6, <1>8, <1>10, <1>11, <1>12 DEF g, n

\* Setting the edges.
LEMMA EdgeFields ==
    ASSUME NEW f, IsTranslator(f), NEW E
    PROVE  LET g == [f EXCEPT !.edges = @ \cup E]
           IN  /\ IsTranslator(g) /\ g.edges = f.edges \cup E /\ g.blocks = f.blocks
               /\ g.instrs = f.instrs /\ g.block = f.block /\ g.dead = f.dead
<1> DEFINE g == [f EXCEPT !.edges = @ \cup E]
           F == f.edges \cup E
<1>1. g = [f EXCEPT !.edges = F]
      OBVIOUS
<1> HIDE DEF F, g
<1>2. g = [blocks |-> f.blocks, edges |-> F, instrs |-> f.instrs, label |-> f.label,
           block |-> f.block, dead |-> f.dead, vs |-> f.vs, inlineReturn |-> f.inlineReturn,
           nssa |-> f.nssa, nphi |-> f.nphi, nlabel |-> f.nlabel]
      BY <1>1 DEF IsTranslator
<1>3. /\ IsTranslator(g) /\ g.edges = F /\ g.blocks = f.blocks
      /\ g.instrs = f.instrs /\ g.block = f.block /\ g.dead = f.dead
      BY <1>2 DEF IsTranslator
<1> QED BY <1>3 DEF F, g

\* A block that feeds the phi another one takes, or that leads to one
\* without phis, may get an edge there.
LEMMA FeedsTakes ==
    ASSUME NEW f, NEW b, NEW m, NEW p
    PROVE  /\ Feeds(f, b, p) /\ Takes(f, m, {p}) => Complete(f, <<b, m>>)
           /\ b \in Closed(f) /\ Takes(f, m, {}) => Complete(f, <<b, m>>)
<1> DEFINE e == <<b, m>>
<1>1. e[1] = b /\ e[2] = m
      OBVIOUS
<1> HIDE DEF e
<1>2. Feeds(f, b, p) /\ Takes(f, m, {p}) => Complete(f, e)
      BY <1>1 DEF Feeds, Takes, Complete
<1>3. b \in Closed(f) /\ Takes(f, m, {}) => Complete(f, e)
      BY <1>1 DEF Takes, Complete
<1> QED BY <1>2, <1>3 DEF e

\* Adding complete edges.
LEMMA EdgesKeep ==
    ASSUME NEW f, Ready(f), NEW E, \A e \in E : Complete(f, e)
    PROVE  LET g == [f EXCEPT !.edges = @ \cup E]
           IN  /\ Ready(g) /\ Grows(f, g) /\ g.edges = f.edges \cup E
               /\ g.blocks = f.blocks /\ g.instrs = f.instrs /\ g.block = f.block
               /\ g.dead = f.dead
<1> DEFINE g == [f EXCEPT !.edges = @ \cup E]
<1>1. /\ IsTranslator(g) /\ g.edges = f.edges \cup E /\ g.blocks = f.blocks
      /\ g.instrs = f.instrs /\ g.block = f.block /\ g.dead = f.dead
      BY EdgeFields DEF Ready, Busy, Fields
<1> HIDE DEF g
<1>2. /\ Closed(g) = Closed(f) /\ Known(g) = Known(f)
      /\ \A b : CodeAt(g, b) = CodeAt(f, b)
      BY <1>1 DEF Closed, Known, CodeAt
<1>3. Fields(g)
      BY <1>1, <1>2 DEF Ready, Busy, Fields
<1>4. EdgesComplete(g)
  <2>1. \A e : Complete(f, e) => Complete(g, e)
        BY <1>2 DEF Complete
  <2> QED BY <1>1, <2>1 DEF Ready, Busy, EdgesComplete
<1>5. FallThrough(g)
      BY <1>1, <1>2 DEF Ready, Busy, FallThrough
<1>6. Grows(f, g)
  <2>1. Len(f.blocks) \in Nat /\ CodeAt(f, Len(f.blocks) + 1) = f.instrs
        BY BlockCount DEF Ready, Busy, CodeAt
  <2> QED BY <1>1, <1>2, <2>1 DEF Grows
<1> QED BY <1>1, <1>3, <1>4, <1>5, <1>6 DEF g, Busy, Ready

\* One edge.
LEMMA AddEdgeKeeps ==
    ASSUME NEW f, Ready(f), NEW b, NEW m, Complete(f, <<b, m>>)
    PROVE  LET g == AddEdge(f, b, m)
           IN  /\ Ready(g) /\ Grows(f, g) /\ g.edges = f.edges \cup {<<b, m>>}
               /\ g.blocks = f.blocks /\ g.instrs = f.instrs /\ g.block = f.block
               /\ g.dead = f.dead
BY EdgesKeep DEF AddEdge

\* start_block where the open block is still empty.
LEMMA StartKeeps ==
    ASSUME NEW f, Ready(f), f.instrs = <<>>, NEW label
    PROVE  LET g == StartBlockAt(f, label)
               h == StartBlock(f)
           IN  /\ Ready(g) /\ Grows(f, g) /\ g.edges = f.edges
               /\ g.blocks = f.blocks /\ g.instrs = <<>> /\ g.block = f.block
               /\ g.dead = f.dead
               /\ Ready(h) /\ Grows(f, h) /\ h.edges = f.edges
               /\ h.blocks = f.blocks /\ h.instrs = <<>> /\ h.block = f.block
               /\ h.dead = f.dead
<1> DEFINE g == StartBlockAt(f, label)
           h == StartBlock(f)
<1>1. /\ IsTranslator(g) /\ g.blocks = f.blocks /\ g.edges = f.edges /\ g.block = f.block
      /\ g.dead = f.dead /\ g.instrs = <<>>
      /\ IsTranslator(h) /\ h.blocks = f.blocks /\ h.edges = f.edges /\ h.block = f.block
      /\ h.dead = f.dead /\ h.instrs = <<>>
      BY StartFields DEF Ready, Busy, Fields
<1> HIDE DEF g, h
<1>2. g.dead \in BOOLEAN /\ h.dead \in BOOLEAN /\ Busy(f)
      BY <1>1 DEF Ready, Busy, Fields
<1>3. Ready(g) /\ Grows(f, g)
      BY <1>1, <1>2, SameKeeps
<1>4. Ready(h) /\ Grows(f, h)
      BY <1>1, <1>2, SameKeeps
<1> QED BY <1>1, <1>3, <1>4 DEF g, h

\* PhiDsts in a block that only blocks with a source for them lead to.
LEMMA PhiKeeps ==
    ASSUME NEW f, Ready(f), f.instrs = <<>>, f.block = NoBlock, ~f.dead, NEW p,
           \A e \in f.edges : e[2] = Len(f.blocks) + 1 => p \in SrcPhis(CodeAt(f, e[1]))
    PROVE  LET g == PushPhiDst(f, p)
           IN  /\ Ready(g) /\ g.blocks = f.blocks /\ ~g.dead
               /\ Takes(g, Len(f.blocks) + 1, {p})
<1> DEFINE g == PushPhiDst(f, p)
           i == PhiDsts(PhiMap(p, f.nssa))
           k == [f EXCEPT !.vs = f.nssa, !.nssa = @ + 1]
<1>1. g = Push(k, i)
      BY DEF PushPhiDst
<1>2. i.op = "phidsts" /\ DOMAIN i.m = {p}
      BY DEF PhiDsts, PhiMap
<1>3. IsTranslator(f) /\ f.dead \in BOOLEAN /\ Busy(f)
      BY DEF Ready, Busy, Fields
<1>4. /\ IsTranslator(k) /\ k.blocks = f.blocks /\ k.edges = f.edges
      /\ k.instrs = <<>> /\ k.block = NoBlock /\ k.dead = f.dead
  <2> DEFINE n == f.nssa + 1
  <2>0. k = [f EXCEPT !.vs = f.nssa, !.nssa = n]
        BY DEF IsTranslator
  <2> HIDE DEF n, k
  <2>1. k = [blocks |-> f.blocks, edges |-> f.edges, instrs |-> f.instrs, label |-> f.label,
             block |-> f.block, dead |-> f.dead, vs |-> f.nssa, inlineReturn |-> f.inlineReturn,
             nssa |-> n, nphi |-> f.nphi, nlabel |-> f.nlabel]
        BY <1>3, <2>0 DEF IsTranslator
  <2> QED BY <2>1 DEF IsTranslator
<1> HIDE DEF g, i, k
<1>5. /\ IsTranslator(g) /\ g.blocks = f.blocks /\ g.edges = f.edges
      /\ g.block = NoBlock /\ g.dead = f.dead /\ g.instrs = Append(<<>>, i)
      BY <1>1, <1>4, PushFields
<1>6. /\ Simple(g.instrs) /\ Without(g.instrs, "phisrcs") /\ DstPhis(g.instrs) = {p}
  <2> DEFINE s == <<>>
  <2>0. Sequence(s) /\ Simple(s) /\ Without(s, "phisrcs") /\ Without(s, "phidsts")
        BY EmptyBlock DEF Simple
  <2>a. g.instrs = Append(s, i)
        BY <1>5
  <2> HIDE DEF s
  <2>1. Sequence(g.instrs)
        BY <2>a, <2>0, AppendSequence
  <2>2. Single(g.instrs, "phisrcs") /\ Single(g.instrs, "phidsts")
        BY <2>a, <2>0, AppendPhis DEF Simple
  <2>3. Without(g.instrs, "phisrcs")
        BY <1>2, <2>a, <2>0, AppendPhis
  <2>4. PhisAt(g.instrs, "phidsts") = PhisAt(s, "phidsts") \cup DOMAIN i.m
        BY <1>2, <2>a, <2>0, AppendPhis
  <2>5. PhisAt(s, "phidsts") = {}
        BY <2>0, NoPhis
  <2> QED BY <1>2, <2>1, <2>2, <2>3, <2>4, <2>5 DEF Simple, DstPhis
<1>7. /\ Closed(g) = Closed(f) /\ Known(g) = Known(f)
      /\ \A b \in Closed(f) : CodeAt(g, b) = CodeAt(f, b)
      BY <1>5 DEF Closed, Known, CodeAt
<1>8. /\ Len(f.blocks) + 1 \in Known(f) /\ Len(f.blocks) + 1 \notin Closed(f)
      /\ Known(f) = Closed(f) \cup {Len(f.blocks) + 1}
      BY <1>3, BlockCount DEF Busy
<1>9. CodeAt(g, Len(f.blocks) + 1) = g.instrs
      BY <1>7, <1>8 DEF CodeAt
<1>10. Fields(g)
      BY <1>3, <1>5, <1>6, <1>7 DEF Busy, Fields
<1>11. ASSUME NEW e \in g.edges PROVE Complete(g, e)
  <2>1. Complete(f, e)
        BY <1>3, <1>5 DEF Busy, EdgesComplete
  <2>2. CASE e[2] \in Closed(f)
        BY <1>7, <2>1, <2>2 DEF Complete
  <2>3. CASE e[2] = Len(f.blocks) + 1
    <3>1. p \in SrcPhis(CodeAt(f, e[1])) /\ e[1] \in Closed(f)
          BY <1>5, <2>1, <2>3 DEF Complete
    <3>2. DstPhis(CodeAt(g, e[2])) = {p}
          BY <1>6, <1>9, <2>3
    <3> QED BY <1>7, <1>8, <2>3, <3>1, <3>2 DEF Complete
  <2> QED BY <1>8, <2>1, <2>2, <2>3 DEF Complete
<1>12. FallThrough(g)
      BY <1>5 DEF FallThrough
<1>13. Takes(g, Len(f.blocks) + 1, {p})
      BY <1>6, <1>7, <1>8, <1>9 DEF Takes
<1> QED BY <1>5, <1>6, <1>10, <1>11, <1>12, <1>13 DEF g, Ready, Busy, EdgesComplete

----------------------------------------------------------------------------
(* Frames                                                                  *)

\* What a frame remembers of earlier blocks stays true.
LEMMA FrameGrows ==
    ASSUME NEW f, Fields(f), NEW g, Fields(g), Grows(f, g)
    PROVE  /\ \A b, p : Feeds(f, b, p) => Feeds(g, b, p)
           /\ \A b, P : Takes(f, b, P) => Takes(g, b, P)
           /\ \A fr : FrameOK(f, fr) => FrameOK(g, fr)
<1>1. /\ Closed(f) \subseteq Closed(g) /\ Known(f) \subseteq Known(g)
      /\ \A b \in Closed(f) : CodeAt(g, b) = CodeAt(f, b)
      /\ \A b \in Known(f) : DstPhis(CodeAt(g, b)) = DstPhis(CodeAt(f, b))
      BY GrowsOn
<1>2. \A b, p : Feeds(f, b, p) => Feeds(g, b, p)
      BY <1>1 DEF Feeds
<1>3. \A b, P : Takes(f, b, P) => Takes(g, b, P)
      BY <1>1 DEF Takes
<1>4. ASSUME NEW fr, IfOK(f, fr) PROVE IfOK(g, fr)
      BY <1>1, <1>2, <1>3, <1>4 DEF IfOK
<1>5. ASSUME NEW fr, LoopOK(f, fr) PROVE LoopOK(g, fr)
      BY <1>1, <1>2, <1>3, <1>5 DEF LoopOK
<1>6. ASSUME NEW fr, SwitchOK(f, fr) PROVE SwitchOK(g, fr)
      BY <1>1, <1>3, <1>6 DEF SwitchOK
<1> QED BY <1>2, <1>3, <1>4, <1>5, <1>6 DEF FrameOK

----------------------------------------------------------------------------
(* The shapes the statements share                                         *)

\* A step of the translator that closes the open block and opens another.
Opens(f, g) ==
    /\ Ready(g) /\ Grows(f, g) /\ Fresh(g) /\ g.dead = f.dead
    /\ Len(g.blocks) = Len(f.blocks) + 1 /\ Len(f.blocks) + 1 \in Closed(g)

\* A block that ends with an instruction that is no phi.
LEMMA LeavePlain ==
    ASSUME NEW f, Ready(f), NEW i, i.op \notin {"phisrcs", "phidsts"}
    PROVE  Opens(f, FinishBlockNoFallthrough(Push(f, i)))
<1> DEFINE k == Push(f, i)
           g == Close(k, NoBlock)
<1>1. Busy(k) /\ Grows(f, k) /\ k.blocks = f.blocks /\ k.dead = f.dead
      BY PushKeeps DEF Ready
<1>2. /\ Ready(g) /\ Grows(k, g) /\ Len(g.blocks) = Len(k.blocks) + 1
      /\ g.dead = k.dead /\ Fresh(g) /\ Len(k.blocks) + 1 \in Closed(g)
      BY <1>1, CloseKeeps
<1> HIDE DEF k, g
<1>3. Grows(f, g)
      BY <1>1, <1>2, GrowsOn DEF Ready, Busy
<1>4. Opens(f, g)
      BY <1>1, <1>2, <1>3 DEF Opens
<1> QED BY <1>4 DEF g, k, FinishBlockNoFallthrough

\* A block that ends with phi sources and a branch: if it is not dead, it
\* feeds the phi.
LEMMA LeaveFeeding ==
    ASSUME NEW f, Ready(f), NEW p, NEW v, NEW i, i.op \notin {"phisrcs", "phidsts"}
    PROVE  LET g == FinishBlockNoFallthrough(Push(Push(f, PhiSrcs(PhiMap(p, v))), i))
           IN  Opens(f, g) /\ (~f.dead => Feeds(g, Len(f.blocks) + 1, p))
<1> DEFINE q == PhiSrcs(PhiMap(p, v))
           j == Push(f, q)
           k == Push(j, i)
           g == Close(k, NoBlock)
<1>0. q.op = "phisrcs" /\ DOMAIN q.m = {p}
      BY DEF PhiSrcs, PhiMap
<1> HIDE DEF q
<1>1. Busy(j) /\ Grows(f, j) /\ j.blocks = f.blocks /\ j.dead = f.dead
      /\ (~f.dead => SrcPhis(j.instrs) = {p})
      BY <1>0, PushKeeps DEF Ready
<1> HIDE DEF j
<1>2. Busy(k) /\ Grows(j, k) /\ k.blocks = j.blocks /\ k.dead = j.dead
      /\ SrcPhis(k.instrs) = SrcPhis(j.instrs)
      BY <1>1, PushKeeps
<1> HIDE DEF k
<1>3. /\ Ready(g) /\ Grows(k, g) /\ Len(g.blocks) = Len(k.blocks) + 1
      /\ g.dead = k.dead /\ Fresh(g) /\ Len(k.blocks) + 1 \in Closed(g)
      /\ SrcPhis(CodeAt(g, Len(k.blocks) + 1)) = SrcPhis(k.instrs)
      BY <1>2, CloseKeeps
<1> HIDE DEF g
<1>4. Grows(f, k)
      BY <1>1, <1>2, GrowsOn DEF Ready, Busy
<1>5. Grows(f, g)
      BY <1>2, <1>3, <1>4, GrowsOn DEF Ready, Busy
<1>6. Opens(f, g)
      BY <1>1, <1>2, <1>3, <1>5 DEF Opens
<1>7. ~f.dead => Feeds(g, Len(f.blocks) + 1, p)
      BY <1>1, <1>2, <1>3 DEF Feeds
<1> QED BY <1>6, <1>7 DEF g, k, j, q, FinishBlockNoFallthrough

\* The block after a jump.
LEMMA DeadBlockKeeps ==
    ASSUME NEW f, Ready(f), f.instrs = <<>>
    PROVE  LET g == StartDeadBlock(f)
           IN  Ready(g) /\ g.blocks = f.blocks /\ g.dead
<1> DEFINE h == StartBlock(f)
           k == [h EXCEPT !.dead = FALSE]
           i == Exit(NoSSA)
           l == Push(k, i)
           g == StartDeadBlock(f)
<1>1. Ready(h) /\ h.blocks = f.blocks /\ h.instrs = <<>>
      BY StartKeeps
<1>2. g = [h EXCEPT !.instrs = <<i>>, !.dead = TRUE]
      BY DEF StartDeadBlock
<1>i. i.op = "exit"
      BY DEF Exit
<1> HIDE DEF h, i, g
<1>3. IsTranslator(h) /\ Busy(h)
      BY <1>1 DEF Ready, Busy, Fields
<1>b. k = [h EXCEPT !.dead = FALSE]
      OBVIOUS
<1> HIDE DEF k
<1>4. k = [blocks |-> h.blocks, edges |-> h.edges, instrs |-> h.instrs, label |-> h.label,
           block |-> h.block, dead |-> FALSE, vs |-> h.vs, inlineReturn |-> h.inlineReturn,
           nssa |-> h.nssa, nphi |-> h.nphi, nlabel |-> h.nlabel]
      BY <1>b, <1>3 DEF IsTranslator
<1>5. /\ IsTranslator(k) /\ k.blocks = h.blocks /\ k.edges = h.edges /\ k.instrs = h.instrs
      /\ k.block = h.block /\ k.dead = FALSE
      BY <1>4 DEF IsTranslator
<1>a. ~k.dead
      BY <1>5
<1>6. Ready(k)
      BY <1>1, <1>3, <1>5, SameKeeps
<1>7. /\ Busy(l) /\ Without(l.instrs, "phisrcs")
      BY <1>6, <1>i, PushKeeps DEF Ready
<1>8. /\ IsTranslator(l) /\ l.blocks = k.blocks /\ l.edges = k.edges
      /\ l.block = k.block /\ l.instrs = Append(k.instrs, i)
      BY <1>5, <1>a, PushFields
<1> HIDE DEF l
<1>9. l.instrs = <<i>>
  <2>1. Append(<<>>, i) = <<i>>
        OBVIOUS
  <2> QED BY <1>1, <1>5, <1>8, <2>1
<1>10. g = [blocks |-> h.blocks, edges |-> h.edges, instrs |-> <<i>>, label |-> h.label,
           block |-> h.block, dead |-> TRUE, vs |-> h.vs, inlineReturn |-> h.inlineReturn,
           nssa |-> h.nssa, nphi |-> h.nphi, nlabel |-> h.nlabel]
      BY <1>2, <1>3 DEF IsTranslator
<1>11. /\ IsTranslator(g) /\ g.blocks = h.blocks /\ g.edges = h.edges /\ g.instrs = <<i>>
      /\ g.block = h.block /\ g.dead = TRUE
      BY <1>10 DEF IsTranslator
<1>12. Ready(l)
      BY <1>7 DEF Ready
<1>13. Ready(g)
      BY <1>5, <1>7, <1>8, <1>9, <1>11, <1>12, SameKeeps
<1> QED BY <1>1, <1>11, <1>13 DEF g

\* Steps that set other fields of the translator.
Alike(f, g) ==
    /\ IsTranslator(g) /\ g.blocks = f.blocks /\ g.edges = f.edges
    /\ g.instrs = f.instrs /\ g.block = f.block

\* What such a step leaves alone.
LEMMA OtherFields ==
    ASSUME NEW f, IsTranslator(f), NEW d, NEW v, NEW r, NEW s, NEW p, NEW l, NEW g,
           g = [blocks |-> f.blocks, edges |-> f.edges, instrs |-> f.instrs, label |-> f.label,
                block |-> f.block, dead |-> d, vs |-> v, inlineReturn |-> r,
                nssa |-> s, nphi |-> p, nlabel |-> l]
    PROVE  Alike(f, g) /\ g.dead = d /\ g.vs = v
BY DEF Alike, IsTranslator

\* The assignments of this kind.
SetDead(f, d) == [f EXCEPT !.dead = d]
SetVs(f, v) == [f EXCEPT !.vs = v]
SetVsDead(f, v) == [f EXCEPT !.vs = v, !.dead = FALSE]
SetVsNext(f, v, s) == [f EXCEPT !.vs = v, !.nssa = s]
SetLabel(f, l) == [f EXCEPT !.nlabel = l]
SetPhiLabel(f, p, l) == [f EXCEPT !.nphi = p, !.nlabel = l]
SetReturn(f, r, d) == [f EXCEPT !.inlineReturn = r, !.dead = d]

\* dead_code.
LEMMA SetDeadFields ==
    ASSUME NEW f, IsTranslator(f), NEW d
    PROVE  LET g == SetDead(f, d)
           IN  Alike(f, g) /\ g.dead = d /\ g.vs = f.vs
<1> DEFINE g == SetDead(f, d)
<1>1. g = [f EXCEPT !.dead = d]
      BY DEF SetDead
<1> HIDE DEF g
<1>2. g = [blocks |-> f.blocks, edges |-> f.edges, instrs |-> f.instrs, label |-> f.label,
           block |-> f.block, dead |-> d, vs |-> f.vs, inlineReturn |-> f.inlineReturn,
           nssa |-> f.nssa, nphi |-> f.nphi, nlabel |-> f.nlabel]
      BY <1>1 DEF IsTranslator
<1>3. Alike(f, g) /\ g.dead = d /\ g.vs = f.vs
      BY <1>2, OtherFields
<1> QED BY <1>3 DEF g

\* The value of the variable.
LEMMA SetVsFields ==
    ASSUME NEW f, IsTranslator(f), NEW v
    PROVE  LET g == SetVs(f, v)
           IN  Alike(f, g) /\ g.dead = f.dead /\ g.vs = v
<1> DEFINE g == SetVs(f, v)
<1>1. g = [f EXCEPT !.vs = v]
      BY DEF SetVs
<1> HIDE DEF g
<1>2. g = [blocks |-> f.blocks, edges |-> f.edges, instrs |-> f.instrs, label |-> f.label,
           block |-> f.block, dead |-> f.dead, vs |-> v, inlineReturn |-> f.inlineReturn,
           nssa |-> f.nssa, nphi |-> f.nphi, nlabel |-> f.nlabel]
      BY <1>1 DEF IsTranslator
<1>3. Alike(f, g) /\ g.dead = f.dead /\ g.vs = v
      BY <1>2, OtherFields
<1> QED BY <1>3 DEF g

\* The value of the variable, and dead_code.
LEMMA SetVsDeadFields ==
    ASSUME NEW f, IsTranslator(f), NEW v
    PROVE  LET g == SetVsDead(f, v)
           IN  Alike(f, g) /\ g.dead = FALSE /\ g.vs = v
<1> DEFINE g == SetVsDead(f, v)
<1>1. g = [f EXCEPT !.vs = v, !.dead = FALSE]
      BY DEF SetVsDead
<1> HIDE DEF g
<1>2. g = [blocks |-> f.blocks, edges |-> f.edges, instrs |-> f.instrs, label |-> f.label,
           block |-> f.block, dead |-> FALSE, vs |-> v, inlineReturn |-> f.inlineReturn,
           nssa |-> f.nssa, nphi |-> f.nphi, nlabel |-> f.nlabel]
      BY <1>1 DEF IsTranslator
<1>3. Alike(f, g) /\ g.dead = FALSE /\ g.vs = v
      BY <1>2, OtherFields
<1> QED BY <1>3 DEF g

\* The value of the variable, and the next SSA value.
LEMMA SetVsNextFields ==
    ASSUME NEW f, IsTranslator(f), NEW v, NEW s
    PROVE  LET g == SetVsNext(f, v, s)
           IN  Alike(f, g) /\ g.dead = f.dead /\ g.vs = v
<1> DEFINE g == SetVsNext(f, v, s)
<1>1. g = [f EXCEPT !.vs = v, !.nssa = s]
      BY DEF SetVsNext
<1> HIDE DEF g
<1>2. g = [blocks |-> f.blocks, edges |-> f.edges, instrs |-> f.instrs, label |-> f.label,
           block |-> f.block, dead |-> f.dead, vs |-> v, inlineReturn |-> f.inlineReturn,
           nssa |-> s, nphi |-> f.nphi, nlabel |-> f.nlabel]
      BY <1>1 DEF IsTranslator
<1>3. Alike(f, g) /\ g.dead = f.dead /\ g.vs = v
      BY <1>2, OtherFields
<1> QED BY <1>3 DEF g

\* The next label.
LEMMA SetLabelFields ==
    ASSUME NEW f, IsTranslator(f), NEW l
    PROVE  LET g == SetLabel(f, l)
           IN  Alike(f, g) /\ g.dead = f.dead /\ g.vs = f.vs
<1> DEFINE g == SetLabel(f, l)
<1>1. g = [f EXCEPT !.nlabel = l]
      BY DEF SetLabel
<1> HIDE DEF g
<1>2. g = [blocks |-> f.blocks, edges |-> f.edges, instrs |-> f.instrs, label |-> f.label,
           block |-> f.block, dead |-> f.dead, vs |-> f.vs, inlineReturn |-> f.inlineReturn,
           nssa |-> f.nssa, nphi |-> f.nphi, nlabel |-> l]
      BY <1>1 DEF IsTranslator
<1>3. Alike(f, g) /\ g.dead = f.dead /\ g.vs = f.vs
      BY <1>2, OtherFields
<1> QED BY <1>3 DEF g

\* The next phi and the next label.
LEMMA SetPhiLabelFields ==
    ASSUME NEW f, IsTranslator(f), NEW p, NEW l
    PROVE  LET g == SetPhiLabel(f, p, l)
           IN  Alike(f, g) /\ g.dead = f.dead /\ g.vs = f.vs
<1> DEFINE g == SetPhiLabel(f, p, l)
<1>1. g = [f EXCEPT !.nphi = p, !.nlabel = l]
      BY DEF SetPhiLabel
<1> HIDE DEF g
<1>2. g = [blocks |-> f.blocks, edges |-> f.edges, instrs |-> f.instrs, label |-> f.label,
           block |-> f.block, dead |-> f.dead, vs |-> f.vs, inlineReturn |-> f.inlineReturn,
           nssa |-> f.nssa, nphi |-> p, nlabel |-> l]
      BY <1>1 DEF IsTranslator
<1>3. Alike(f, g) /\ g.dead = f.dead /\ g.vs = f.vs
      BY <1>2, OtherFields
<1> QED BY <1>3 DEF g

\* The value an inlined call returns, and dead_code.
LEMMA SetReturnFields ==
    ASSUME NEW f, IsTranslator(f), NEW r, NEW d
    PROVE  LET g == SetReturn(f, r, d)
           IN  Alike(f, g) /\ g.dead = d /\ g.vs = f.vs
<1> DEFINE g == SetReturn(f, r, d)
<1>1. g = [f EXCEPT !.inlineReturn = r, !.dead = d]
      BY DEF SetReturn
<1> HIDE DEF g
<1>2. g = [blocks |-> f.blocks, edges |-> f.edges, instrs |-> f.instrs, label |-> f.label,
           block |-> f.block, dead |-> d, vs |-> f.vs, inlineReturn |-> r,
           nssa |-> f.nssa, nphi |-> f.nphi, nlabel |-> f.nlabel]
      BY <1>1 DEF IsTranslator
<1>3. Alike(f, g) /\ g.dead = d /\ g.vs = f.vs
      BY <1>2, OtherFields
<1> QED BY <1>3 DEF g

\* Such a step keeps what the translator has built.
LEMMA AlikeKeeps ==
    ASSUME NEW f, Ready(f), NEW g, Alike(f, g), g.dead \in BOOLEAN
    PROVE  Ready(g) /\ Grows(f, g) /\ (Fresh(f) => Fresh(g)) /\ g.blocks = f.blocks
BY SameKeeps DEF Alike, Ready

----------------------------------------------------------------------------
(* The statements                                                          *)

\* Break and Continue: the block that jumps feeds the phi of its target.
LEMMA JumpKeeps ==
    ASSUME NEW f, Ready(f), ~f.dead, NEW p, NEW label
    PROVE  LET g == JumpOut(f, p, label)
           IN  Ready(g) /\ Grows(f, g) /\ Feeds(g, Len(f.blocks) + 1, p)
<1> DEFINE k == FinishBlockNoFallthrough(Push(Push(f, PhiSrcs(PhiMap(p, f.vs))), Bra(label)))
           g == StartDeadBlock(k)
<1>0. Bra(label).op \notin {"phisrcs", "phidsts"}
      BY DEF Bra
<1>1. Opens(f, k) /\ Feeds(k, Len(f.blocks) + 1, p)
      BY <1>0, LeaveFeeding
<1> HIDE DEF k
<1>2. Ready(g) /\ g.blocks = k.blocks
      BY <1>1, DeadBlockKeeps DEF Opens, Fresh
<1> HIDE DEF g
<1>3. Grows(f, g) /\ Grows(f, k)
  <2>1. Len(f.blocks) < Len(k.blocks)
        BY <1>1, BlockCount DEF Opens, Ready, Busy
  <2> QED BY <1>1, <1>2, <2>1, GrowsOn DEF Opens, Ready, Busy
<1>4. Feeds(g, Len(f.blocks) + 1, p)
      BY <1>1, <1>2 DEF Feeds, Closed, CodeAt
<1> QED BY <1>2, <1>3, <1>4 DEF g, k, JumpOut

\* Return, at top level and in an inlined call.
LEMMA ReturnKeeps ==
    ASSUME NEW f, Ready(f), NEW inlining \in BOOLEAN
    PROVE  LET g == ReturnTo(f, inlining) IN Ready(g) /\ Grows(f, g)
<1> DEFINE g == ReturnTo(f, inlining)
<1>1. CASE inlining
  <2>1. g = SetReturn(f, f.vs, TRUE)
        BY <1>1 DEF ReturnTo, SetReturn
  <2> HIDE DEF g
  <2>a. IsTranslator(f)
        BY DEF Ready, Busy, Fields
  <2>2. Alike(f, g) /\ g.dead = TRUE
        BY <2>1, <2>a, SetReturnFields
  <2>3. Ready(g) /\ Grows(f, g)
        BY <2>2, AlikeKeeps
  <2> QED BY <2>3 DEF g
<1>2. CASE ~inlining
  <2> DEFINE k == FinishBlockNoFallthrough(Push(f, Exit(f.vs)))
  <2>0. Exit(f.vs).op \notin {"phisrcs", "phidsts"}
        BY DEF Exit
  <2>1. Opens(f, k)
        BY <2>0, LeavePlain
  <2>2. g = StartDeadBlock(k)
        BY <1>2 DEF ReturnTo
  <2> HIDE DEF k, g
  <2>3. Ready(g) /\ g.blocks = k.blocks
        BY <2>1, <2>2, DeadBlockKeeps DEF Opens, Fresh
  <2>4. Len(f.blocks) < Len(k.blocks)
        BY <2>1, BlockCount DEF Opens, Ready, Busy
  <2>5. Grows(f, g)
        BY <2>1, <2>3, <2>4, GrowsOn DEF Opens, Ready, Busy
  <2> QED BY <2>3, <2>5 DEF g
<1> QED BY <1>1, <1>2

\* A fresh block is started: it has no phis.
LEMMA OpensStart ==
    ASSUME NEW f, Fields(f), NEW k, Opens(f, k), NEW label
    PROVE  /\ Opens(f, StartBlockAt(k, label)) /\ Takes(StartBlockAt(k, label), Len(f.blocks) + 2, {})
           /\ Opens(f, StartBlock(k)) /\ Takes(StartBlock(k), Len(f.blocks) + 2, {})
           /\ \A b, p : Feeds(k, b, p) => Feeds(StartBlockAt(k, label), b, p) /\ Feeds(StartBlock(k), b, p)
<1>1. ASSUME NEW g, Ready(g), Grows(k, g), g.edges = k.edges, g.blocks = k.blocks,
             g.instrs = <<>>, g.block = k.block, g.dead = k.dead
      PROVE  /\ Opens(f, g) /\ Takes(g, Len(f.blocks) + 2, {})
             /\ \A b, p : Feeds(k, b, p) => Feeds(g, b, p)
  <2>1. Fields(k) /\ Fields(g) /\ Len(k.blocks) = Len(f.blocks) + 1
        BY <1>1 DEF Opens, Ready, Busy
  <2>2. Closed(g) = Closed(k)
        BY <1>1 DEF Closed
  <2>3. Fresh(g)
        BY <1>1, <2>2 DEF Fresh, Opens
  <2>4. Grows(f, g)
        BY <1>1, <2>1, GrowsOn DEF Opens
  <2>5. Opens(f, g)
        BY <1>1, <2>2, <2>3, <2>4 DEF Opens
  <2>6. Len(f.blocks) + 2 \in Known(g) /\ Len(f.blocks) + 2 \notin Closed(g)
    <3>1. Len(g.blocks) + 1 \in Known(g) /\ Len(g.blocks) + 1 \notin Closed(g)
          BY <2>1, BlockCount
    <3>2. Len(f.blocks) \in Nat /\ Len(g.blocks) = Len(f.blocks) + 1
          BY <1>1, <2>1, BlockCount
    <3> QED BY <3>1, <3>2
  <2>7. Takes(g, Len(f.blocks) + 2, {})
        BY <1>1, <2>6, EmptyBlock DEF Takes, CodeAt
  <2>8. \A b, p : Feeds(k, b, p) => Feeds(g, b, p)
        BY <1>1, <2>1, FrameGrows
  <2> QED BY <2>5, <2>7, <2>8
<1>2. Ready(k) /\ k.instrs = <<>>
      BY DEF Opens, Fresh
<1> DEFINE g == StartBlockAt(k, label)
           h == StartBlock(k)
<1>3. /\ Ready(g) /\ Grows(k, g) /\ g.edges = k.edges
      /\ g.blocks = k.blocks /\ g.instrs = <<>> /\ g.block = k.block /\ g.dead = k.dead
      BY <1>2, StartKeeps
<1>4. /\ Ready(h) /\ Grows(k, h) /\ h.edges = k.edges
      /\ h.blocks = k.blocks /\ h.instrs = <<>> /\ h.block = k.block /\ h.dead = k.dead
      BY <1>2, StartKeeps
<1> HIDE DEF g, h
<1>5. /\ Opens(f, g) /\ Takes(g, Len(f.blocks) + 2, {})
      /\ \A b, p : Feeds(k, b, p) => Feeds(g, b, p)
      BY <1>1, <1>3
<1>6. /\ Opens(f, h) /\ Takes(h, Len(f.blocks) + 2, {})
      /\ \A b, p : Feeds(k, b, p) => Feeds(h, b, p)
      BY <1>1, <1>4
<1> QED BY <1>5, <1>6 DEF g, h

\* Opening a block after such an assignment.
LEMMA OpensAlike ==
    ASSUME NEW f, Ready(f), NEW k, Alike(f, k), k.dead = f.dead
    PROVE  /\ Ready(k) /\ Len(k.blocks) = Len(f.blocks)
           /\ \A g : Opens(k, g) => Opens(f, g)
<1>1. Ready(k) /\ Grows(f, k) /\ k.blocks = f.blocks
  <2>1. k.dead \in BOOLEAN
        BY DEF Ready, Busy, Fields
  <2> QED BY <2>1, AlikeKeeps
<1>2. ASSUME NEW g, Opens(k, g) PROVE Opens(f, g)
  <2>1. Grows(f, g)
        BY <1>1, <1>2, GrowsOn DEF Opens, Ready, Busy
  <2> QED BY <1>1, <1>2, <2>1 DEF Opens
<1> QED BY <1>1, <1>2

\* translate_if: the frame of an if whose reject arm is empty remembers a
\* condition block that feeds the merge block's phi.
LEMMA IfNoElseKeeps ==
    ASSUME NEW f, Ready(f), ~f.dead
    PROVE  LET g == IfNoElse(f)
           IN  /\ Opens(f, g) /\ Takes(g, Len(f.blocks) + 2, {})
               /\ Feeds(g, Len(f.blocks) + 1, f.nphi)
<1> DEFINE j == SetPhiLabel(f, f.nphi + 1, f.nlabel + 1)
           i == BraIfNot(f.nlabel, f.vs)
           k == FinishBlockNoFallthrough(Push(Push(j, PhiSrcs(PhiMap(f.nphi, f.vs))), i))
           g == StartBlock(k)
<1>0. i.op \notin {"phisrcs", "phidsts"}
      BY DEF BraIfNot
<1>1. Alike(f, j) /\ j.dead = f.dead
      BY SetPhiLabelFields DEF Ready, Busy, Fields
<1> HIDE DEF i, j
<1>2. Ready(j) /\ Len(j.blocks) = Len(f.blocks) /\ \A h : Opens(j, h) => Opens(f, h)
      BY <1>1, OpensAlike
<1>3. Opens(j, k) /\ Feeds(k, Len(j.blocks) + 1, f.nphi)
      BY <1>0, <1>1, <1>2, LeaveFeeding
<1> HIDE DEF k
<1>4. Opens(f, k)
      BY <1>2, <1>3
<1>5. /\ Opens(f, g) /\ Takes(g, Len(f.blocks) + 2, {})
      /\ \A b, p : Feeds(k, b, p) => Feeds(g, b, p)
      BY <1>4, OpensStart DEF Ready, Busy
<1>6. IfNoElse(f) = g
      BY DEF IfNoElse, SetPhiLabel, g, k, j, i
<1> HIDE DEF g
<1> QED BY <1>2, <1>3, <1>5, <1>6

\* The same when there is a reject arm.
LEMMA IfElseKeeps ==
    ASSUME NEW f, Ready(f)
    PROVE  LET g == IfElse(f)
           IN  Opens(f, g) /\ Takes(g, Len(f.blocks) + 2, {})
<1> DEFINE j == SetPhiLabel(f, f.nphi + 1, f.nlabel + 2)
           i == BraIfNot(f.nlabel + 1, f.vs)
           k == FinishBlockNoFallthrough(Push(j, i))
           g == StartBlock(k)
<1>0. i.op \notin {"phisrcs", "phidsts"}
      BY DEF BraIfNot
<1>1. Alike(f, j) /\ j.dead = f.dead
      BY SetPhiLabelFields DEF Ready, Busy, Fields
<1> HIDE DEF i, j
<1>2. Ready(j) /\ \A h : Opens(j, h) => Opens(f, h)
      BY <1>1, OpensAlike
<1>3. Opens(f, k)
      BY <1>0, <1>2, LeavePlain
<1> HIDE DEF k
<1>4. /\ Opens(f, g) /\ Takes(g, Len(f.blocks) + 2, {})
      BY <1>3, OpensStart DEF Ready, Busy
<1>5. IfElse(f) = g
      BY DEF IfElse, SetPhiLabel, g, k, j, i
<1> QED BY <1>4, <1>5

\* Edges between closed blocks leave a fresh block fresh.
LEMMA OpensEdge ==
    ASSUME NEW f, Fields(f), NEW k, Opens(f, k), NEW b, NEW m, Complete(k, <<b, m>>), m \in Closed(k)
    PROVE  LET g == AddEdge(k, b, m)
           IN  Opens(f, g) /\ \A c, p : Feeds(k, c, p) => Feeds(g, c, p)
<1> DEFINE g == AddEdge(k, b, m)
           e == <<b, m>>
<1>1. /\ Ready(g) /\ Grows(k, g) /\ g.edges = k.edges \cup {e}
      /\ g.blocks = k.blocks /\ g.instrs = k.instrs /\ g.block = k.block
      /\ g.dead = k.dead
      BY AddEdgeKeeps DEF Opens
<1>2. e[2] = m
      OBVIOUS
<1> HIDE DEF g, e
<1>3. Closed(g) = Closed(k)
      BY <1>1 DEF Closed
<1>4. Fresh(g)
      BY <1>1, <1>2, <1>3 DEF Fresh, Opens
<1>5. Fields(k) /\ Fields(g)
      BY <1>1 DEF Opens, Ready, Busy
<1>6. Grows(f, g)
      BY <1>1, <1>5, GrowsOn DEF Opens
<1>7. Opens(f, g)
      BY <1>1, <1>3, <1>4, <1>6 DEF Opens
<1>8. \A c, p : Feeds(k, c, p) => Feeds(g, c, p)
      BY <1>1, <1>5, FrameGrows
<1> QED BY <1>7, <1>8 DEF g

\* The open block of h, opened in g, is the merge of blocks that feed phi p.
Merges(g, h, p) ==
    /\ Ready(h) /\ h.blocks = g.blocks /\ h.instrs = <<>> /\ h.block = NoBlock /\ ~h.dead
    /\ \A e \in h.edges : e \in g.edges \/ Feeds(g, e[1], p)

\* Such a merge block gets its phi.
LEMMA MergeKeeps ==
    ASSUME NEW f, Fields(f), NEW g, Opens(f, g), NEW p, NEW h, Merges(g, h, p)
    PROVE  LET k == PushPhiDst(h, p)
           IN  /\ Ready(k) /\ Grows(f, k) /\ k.blocks = g.blocks /\ k.dead = FALSE
               /\ Takes(k, Len(f.blocks) + 2, {p})
<1> DEFINE k == PushPhiDst(h, p)
           m == Len(f.blocks) + 2
<1>0. Ready(h) /\ h.blocks = g.blocks /\ h.instrs = <<>> /\ h.block = NoBlock /\ ~h.dead
      BY DEF Merges
<1>1. Len(f.blocks) \in Nat /\ Len(g.blocks) = Len(f.blocks) + 1 /\ Len(h.blocks) + 1 = m
      /\ Fields(g) /\ Fields(h)
      BY <1>0, BlockCount DEF Opens, Ready, Busy
<1>2. m \notin Closed(g)
      BY <1>1, BlockCount
<1> HIDE DEF m
<1>3. ASSUME NEW e \in h.edges, e[2] = m PROVE p \in SrcPhis(CodeAt(h, e[1]))
  <2>1. e \notin g.edges
        BY <1>2, <1>3 DEF Opens, Fresh
  <2>2. Feeds(g, e[1], p)
        BY <1>3, <2>1 DEF Merges
  <2>3. CodeAt(h, e[1]) = CodeAt(g, e[1])
        BY <1>0, <2>2 DEF Feeds, CodeAt, Closed
  <2> QED BY <2>2, <2>3 DEF Feeds
<1>4. Ready(k) /\ k.blocks = h.blocks /\ ~k.dead /\ Takes(k, Len(h.blocks) + 1, {p})
      BY <1>0, <1>1, <1>3, PhiKeeps
<1> HIDE DEF k
<1>5. Grows(f, k) /\ k.dead = FALSE
  <2>1. Len(f.blocks) < Len(g.blocks) /\ Fields(k) /\ k.dead \in BOOLEAN
        BY <1>1, <1>4 DEF Ready, Busy, Fields
  <2> QED BY <1>0, <1>1, <1>4, <2>1, GrowsOn DEF Opens
<1> QED BY <1>0, <1>1, <1>4, <1>5 DEF k, m

\* The end of an arm: the edge into the arm, and what feeds the merge.
LEMMA ArmKeeps ==
    ASSUME NEW f, Ready(f), NEW fr, IfOK(f, fr)
    PROVE  LET g == AddEdge(EndArm(f, fr), fr.cond, fr.start)
           IN  /\ Opens(f, g) /\ (~f.dead => Feeds(g, Len(f.blocks) + 1, fr.phi))
               /\ \A b, p : Feeds(f, b, p) => Feeds(g, b, p)
               /\ \A b \in Closed(f) : b \in Closed(g)
<1> DEFINE k == EndArm(f, fr)
           g == AddEdge(k, fr.cond, fr.start)
<1>0. Bra(fr.merge).op \notin {"phisrcs", "phidsts"}
      BY DEF Bra
<1>1. Opens(f, k) /\ (~f.dead => Feeds(k, Len(f.blocks) + 1, fr.phi))
      BY <1>0, LeaveFeeding DEF EndArm
<1> HIDE DEF k
<1>2. Fields(f) /\ Fields(k) /\ Grows(f, k)
      BY <1>1 DEF Opens, Ready, Busy
<1>3. fr.cond \in Closed(k) /\ Takes(k, fr.start, {}) /\ fr.start \in Known(f) /\ Closed(f) \subseteq Closed(k)
      BY <1>2, FrameGrows, GrowsOn DEF IfOK, Takes
<1>4. Complete(k, <<fr.cond, fr.start>>)
      BY <1>3, FeedsTakes
<1>5. fr.start \in Closed(k)
      BY <1>1, <1>3 DEF Known, Closed, Opens
<1>6. Opens(f, g) /\ \A c, p : Feeds(k, c, p) => Feeds(g, c, p)
      BY <1>1, <1>2, <1>4, <1>5, OpensEdge
<1> HIDE DEF g
<1>7. \A b, p : Feeds(f, b, p) => Feeds(g, b, p)
      BY <1>2, <1>6, FrameGrows
<1>8. Closed(f) \subseteq Closed(g)
      BY <1>2, <1>6, GrowsOn DEF Opens, Ready, Busy
<1> QED BY <1>1, <1>6, <1>7, <1>8 DEF g, k

\* The reject arm starts.
LEMMA ElseKeeps ==
    ASSUME NEW f, Ready(f), NEW fr, IfOK(f, fr), NEW l, NEW v
    PROVE  LET a == AddEdge(EndArm(f, fr), fr.cond, fr.start)
               g == [StartBlockAt(a, l) EXCEPT !.vs = v, !.dead = FALSE]
           IN  /\ Ready(g) /\ Grows(f, g) /\ g.dead = FALSE /\ Takes(g, Len(f.blocks) + 2, {})
               /\ NextBlockId(a) = Len(f.blocks) + 2
               /\ ~f.dead => Feeds(g, Len(f.blocks) + 1, fr.phi)
<1> DEFINE a == AddEdge(EndArm(f, fr), fr.cond, fr.start)
           k == StartBlockAt(a, l)
           g == SetVsDead(k, v)
<1>1. Opens(f, a) /\ (~f.dead => Feeds(a, Len(f.blocks) + 1, fr.phi))
      BY ArmKeeps
<1> HIDE DEF a
<1>f. Fields(f)
      BY DEF Ready, Busy
<1>2. /\ Opens(f, k) /\ Takes(k, Len(f.blocks) + 2, {})
      /\ \A b, p : Feeds(a, b, p) => Feeds(k, b, p)
      BY <1>1, <1>f, OpensStart
<1>g. [k EXCEPT !.vs = v, !.dead = FALSE] = g
      BY DEF SetVsDead
<1> HIDE DEF k
<1>4. Ready(k) /\ Fields(k) /\ IsTranslator(k)
      BY <1>2 DEF Opens, Ready, Busy, Fields
<1>h. g = SetVsDead(k, v)
      OBVIOUS
<1> HIDE DEF g
<1>3. Alike(k, g) /\ g.dead = FALSE
      BY <1>4, <1>h, SetVsDeadFields
<1> HIDE DEF g
<1>5. Ready(g) /\ Grows(k, g) /\ Fields(g)
      BY <1>3, <1>4, AlikeKeeps DEF Ready, Busy
<1>6. Grows(f, g)
      BY <1>2, <1>4, <1>5, <1>f, GrowsOn DEF Opens
<1>7. /\ \A b, p : Feeds(k, b, p) => Feeds(g, b, p)
      /\ Takes(g, Len(f.blocks) + 2, {})
      BY <1>2, <1>4, <1>5, FrameGrows
<1>8. NextBlockId(a) = Len(f.blocks) + 2
  <2>1. Len(f.blocks) \in Nat /\ Len(a.blocks) = Len(f.blocks) + 1
        BY <1>1, <1>f, BlockCount DEF Opens
  <2> QED BY <2>1 DEF NextBlockId
<1>9. /\ Ready(g) /\ Grows(f, g) /\ g.dead = FALSE /\ Takes(g, Len(f.blocks) + 2, {})
      /\ ~f.dead => Feeds(g, Len(f.blocks) + 1, fr.phi)
      BY <1>1, <1>2, <1>3, <1>5, <1>6, <1>7
<1> QED BY <1>8, <1>9, <1>g DEF k, a

\* The merge block, reject arm empty.
LEMMA MergeNoElseKeeps ==
    ASSUME NEW f, Ready(f), NEW fr, IfOK(f, fr), fr.stage = "accept"
    PROVE  LET g == MergeNoElse(f, fr) IN Ready(g) /\ Grows(f, g) /\ g.dead = FALSE
<1> DEFINE a == AddEdge(EndArm(f, fr), fr.cond, fr.start)
           g == StartBlockAt(a, fr.merge)
           m == Len(f.blocks) + 2
           h == AddEdge(g, fr.cond, m)
<1>f. Fields(f) /\ f.dead \in BOOLEAN
      BY DEF Ready, Busy, Fields
<1>1. Opens(f, a) /\ (~f.dead => Feeds(a, Len(f.blocks) + 1, fr.phi)) /\ Feeds(a, fr.cond, fr.phi)
      BY ArmKeeps DEF IfOK
<1> HIDE DEF a
<1>2. /\ Opens(f, g) /\ Takes(g, m, {})
      /\ (~f.dead => Feeds(g, Len(f.blocks) + 1, fr.phi)) /\ Feeds(g, fr.cond, fr.phi)
      BY <1>1, <1>f, OpensStart
<1>n. NextBlockId(g) = m
  <2> HIDE DEF g
  <2>1. Len(f.blocks) \in Nat /\ Len(g.blocks) = Len(f.blocks) + 1
        BY <1>2, <1>f, BlockCount DEF Opens
  <2> QED BY <2>1 DEF NextBlockId
<1>m. MergeNoElse(f, fr) = IF f.dead THEN Alive([h EXCEPT !.vs = fr.pre])
                           ELSE PushPhiDst(AddEdge(h, NextBlockId(f), m), fr.phi)
      BY <1>n DEF MergeNoElse, g, a
<1> HIDE DEF g, m
<1>3. Complete(g, <<fr.cond, m>>)
      BY <1>2, FeedsTakes DEF Feeds
<1>4. /\ Ready(h) /\ Grows(g, h) /\ h.edges = g.edges \cup {<<fr.cond, m>>}
      /\ h.blocks = g.blocks /\ h.instrs = g.instrs /\ h.block = g.block
      /\ h.dead = g.dead
      BY <1>2, <1>3, AddEdgeKeeps DEF Opens
<1> HIDE DEF h
<1>5. Fields(g) /\ Fields(h) /\ Grows(f, g) /\ g.instrs = <<>> /\ g.block = NoBlock /\ g.dead = f.dead
      BY <1>2, <1>4 DEF Opens, Fresh, Ready, Busy
<1>6. Grows(f, h)
      BY <1>4, <1>5, <1>f, GrowsOn
<1>7. CASE f.dead
  <2> DEFINE j == SetVs(h, fr.pre)
             k == SetDead(j, FALSE)
  <2>1. MergeNoElse(f, fr) = k
        BY <1>m, <1>7 DEF Alive, SetVs, SetDead
  <2>2. Alike(h, j) /\ j.dead = h.dead
        BY <1>5, SetVsFields DEF Fields
  <2> HIDE DEF j
  <2>3. Ready(j) /\ Grows(h, j) /\ IsTranslator(j)
        BY <1>4, <1>5, <2>2, AlikeKeeps DEF Alike, Fields
  <2>4. Alike(j, k) /\ k.dead = FALSE
        BY <2>3, SetDeadFields
  <2> HIDE DEF k
  <2>5. Ready(k) /\ Grows(j, k)
        BY <2>3, <2>4, AlikeKeeps
  <2>6. Grows(f, j)
        BY <1>5, <1>6, <1>f, <2>3, GrowsOn DEF Ready, Busy
  <2>7. Grows(f, k)
        BY <1>f, <2>3, <2>5, <2>6, GrowsOn DEF Ready, Busy
  <2> QED BY <2>1, <2>4, <2>5, <2>7
<1>8. CASE ~f.dead
  <2> DEFINE b == Len(f.blocks) + 1
             j == AddEdge(h, b, m)
             k == PushPhiDst(j, fr.phi)
  <2>1. MergeNoElse(f, fr) = k
        BY <1>m, <1>8 DEF NextBlockId
  <2>2. Feeds(h, b, fr.phi) /\ Takes(h, m, {})
        BY <1>2, <1>4, <1>5, <1>8, FrameGrows
  <2>3. Complete(h, <<b, m>>)
        BY <2>2, FeedsTakes DEF Feeds
  <2>4. /\ Ready(j) /\ j.edges = h.edges \cup {<<b, m>>}
        /\ j.blocks = h.blocks /\ j.instrs = h.instrs /\ j.block = h.block
        /\ j.dead = h.dead
        BY <1>4, <2>3, AddEdgeKeeps
  <2>5. Feeds(g, b, fr.phi)
        BY <1>2, <1>8
  <2> HIDE DEF b, j
  <2>6. \A e \in j.edges : e \in g.edges \/ Feeds(g, e[1], fr.phi)
    <3>1. \A e \in j.edges : e \in g.edges \/ e = <<fr.cond, m>> \/ e = <<b, m>>
          BY <1>4, <2>4
    <3> QED BY <1>2, <2>5, <3>1
  <2>7. /\ j.blocks = g.blocks /\ j.instrs = <<>> /\ j.block = NoBlock /\ ~j.dead
        BY <1>4, <1>5, <1>8, <2>4
  <2>8. Merges(g, j, fr.phi)
        BY <2>4, <2>6, <2>7 DEF Merges
  <2>9. Ready(k) /\ Grows(f, k) /\ k.dead = FALSE
    <3> DEFINE p == fr.phi
               x == PushPhiDst(j, p)
    <3>1. Opens(f, g) /\ Fields(f) /\ Merges(g, j, p)
          BY <1>2, <1>f, <2>8
    <3> HIDE DEF p
    <3>2. Ready(x) /\ Grows(f, x) /\ x.dead = FALSE
          BY <3>1, MergeKeeps
    <3> QED BY <3>2 DEF p
  <2> QED BY <2>1, <2>9
<1> QED BY <1>f, <1>7, <1>8

\* Giving the variable back a value at an open block that is alive.
LEMMA SetVsKeeps ==
    ASSUME NEW f, Fields(f), NEW h, Ready(h), Grows(f, h), h.dead = FALSE, NEW v
    PROVE  LET k == SetVs(h, v) IN Ready(k) /\ Grows(f, k) /\ k.dead = FALSE
<1> DEFINE k == SetVs(h, v)
<1>1. IsTranslator(h)
      BY DEF Ready, Busy, Fields
<1>2. Alike(h, k) /\ k.dead = FALSE
      BY <1>1, SetVsFields
<1> HIDE DEF k
<1>3. Ready(k) /\ Grows(h, k)
      BY <1>2, AlikeKeeps
<1>4. Grows(f, k)
      BY <1>3, GrowsOn DEF Ready, Busy
<1> QED BY <1>2, <1>3, <1>4 DEF k

\* The merge block of two arms.
LEMMA MergeElseKeeps ==
    ASSUME NEW f, Ready(f), NEW fr, IfOK(f, fr), fr.stage = "reject"
    PROVE  LET g == MergeElse(f, fr) IN Ready(g) /\ Grows(f, g) /\ g.dead = FALSE
<1> DEFINE a == AddEdge(EndArm(f, fr), fr.cond, fr.start)
           g == StartBlockAt(a, fr.merge)
           m == Len(f.blocks) + 2
           p == fr.phi
           ends == (IF fr.acceptDead THEN {} ELSE {fr.acceptEnd})
                   \cup (IF f.dead THEN {} ELSE {Len(f.blocks) + 1})
           E == {<<e, m>> : e \in ends}
           j == [g EXCEPT !.edges = @ \cup E]
           h == SetDead(j, FALSE)
           r == MergeElse(f, fr)
<1>f. Fields(f) /\ f.dead \in BOOLEAN
      BY DEF Ready, Busy, Fields
<1>a. ~fr.acceptDead => Feeds(f, fr.acceptEnd, p)
      BY DEF IfOK
<1>1. /\ Opens(f, a) /\ (~f.dead => Feeds(a, Len(f.blocks) + 1, p))
      /\ (~fr.acceptDead => Feeds(a, fr.acceptEnd, p))
      BY <1>a, ArmKeeps
<1> HIDE DEF a, p
<1>2. /\ Opens(f, g) /\ Takes(g, m, {})
      /\ (~f.dead => Feeds(g, Len(f.blocks) + 1, p))
      /\ (~fr.acceptDead => Feeds(g, fr.acceptEnd, p))
      BY <1>1, <1>f, OpensStart
<1>n. NextBlockId(g) = m
  <2> HIDE DEF g
  <2>1. Len(f.blocks) \in Nat /\ Len(g.blocks) = Len(f.blocks) + 1
        BY <1>2, <1>f, BlockCount DEF Opens
  <2> QED BY <2>1 DEF NextBlockId
<1>m. r = CASE fr.acceptDead /\ f.dead -> [h EXCEPT !.vs = fr.pre]
            [] fr.acceptDead /\ ~f.dead -> h
            [] ~fr.acceptDead /\ f.dead -> [h EXCEPT !.vs = fr.acceptVs]
            [] OTHER -> PushPhiDst(h, p)
      BY <1>n DEF MergeElse, SetDead, Alive, NextBlockId, g, a, p
<1> HIDE DEF g, m, r
<1>3. \A e \in ends : Feeds(g, e, p)
      BY <1>2
<1> HIDE DEF ends
<1>4. \A e \in E : Complete(g, e) /\ Feeds(g, e[1], p)
  <2>1. ASSUME NEW e \in ends PROVE Complete(g, <<e, m>>) /\ Feeds(g, <<e, m>>[1], p)
    <3>1. e \in Closed(g) /\ Feeds(g, e, p)
          BY <1>3 DEF Feeds
    <3> QED BY <1>2, <3>1, FeedsTakes
  <2> QED BY <2>1
<1> HIDE DEF E
<1>g. Ready(g) /\ Fields(g) /\ Grows(f, g) /\ g.instrs = <<>> /\ g.block = NoBlock
      BY <1>2 DEF Opens, Fresh, Ready, Busy
<1>5. /\ Ready(j) /\ Grows(g, j) /\ j.edges = g.edges \cup E
      /\ j.blocks = g.blocks /\ j.instrs = g.instrs /\ j.block = g.block
      BY <1>4, <1>g, EdgesKeep
<1> HIDE DEF j
<1>6. Fields(j) /\ IsTranslator(j) /\ Grows(f, j)
      BY <1>5, <1>f, <1>g, GrowsOn DEF Ready, Busy, Fields
<1>7. Alike(j, h) /\ h.dead = FALSE
      BY <1>6, SetDeadFields
<1> HIDE DEF h
<1>8. Ready(h) /\ Grows(j, h)
      BY <1>5, <1>7, AlikeKeeps
<1>9. Grows(f, h)
      BY <1>6, <1>8, <1>f, GrowsOn DEF Ready, Busy
<1>10. CASE fr.acceptDead /\ f.dead
  <2>1. r = SetVs(h, fr.pre)
        BY <1>m, <1>10 DEF SetVs
  <2> QED BY <1>7, <1>8, <1>9, <1>f, <2>1, SetVsKeeps DEF r
<1>11. CASE fr.acceptDead /\ ~f.dead
  <2>1. r = h
        BY <1>m, <1>11
  <2> QED BY <1>7, <1>8, <1>9, <2>1 DEF r
<1>12. CASE ~fr.acceptDead /\ f.dead
  <2>1. r = SetVs(h, fr.acceptVs)
        BY <1>m, <1>12 DEF SetVs
  <2> QED BY <1>7, <1>8, <1>9, <1>f, <2>1, SetVsKeeps DEF r
<1>13. CASE ~fr.acceptDead /\ ~f.dead
  <2>1. r = PushPhiDst(h, p)
        BY <1>m, <1>13
  <2>2. Merges(g, h, p)
    <3>1. \A e \in h.edges : e \in g.edges \/ Feeds(g, e[1], p)
          BY <1>4, <1>5, <1>7 DEF Alike
    <3>2. h.blocks = g.blocks /\ h.instrs = <<>> /\ h.block = NoBlock /\ ~h.dead
          BY <1>5, <1>7, <1>g DEF Alike
    <3> QED BY <1>8, <3>1, <3>2 DEF Merges
  <2> DEFINE x == PushPhiDst(h, p)
  <2>3. Ready(x) /\ Grows(f, x) /\ x.dead = FALSE
        BY <1>2, <1>f, <2>2, MergeKeeps
  <2> QED BY <2>1, <2>3 DEF r
<1> QED BY <1>f, <1>10, <1>11, <1>12, <1>13

\* A block of f on its way to be closed, with phi sources for P unless dead.
Sourced(f, k, P) ==
    /\ Busy(k) /\ Grows(f, k) /\ k.blocks = f.blocks /\ k.dead = f.dead
    /\ ~f.dead => SrcPhis(k.instrs) = P

\* PhiSrcs are pushed, other instructions follow, the block is closed.
LEMMA SourcedKeeps ==
    ASSUME NEW f, Ready(f), NEW P
    PROVE  /\ \A m : DOMAIN m = P => Sourced(f, Push(f, PhiSrcs(m)), P)
           /\ \A k, i : Sourced(f, k, P) /\ i.op \notin {"phisrcs", "phidsts"} => Sourced(f, Push(k, i), P)
           /\ \A k : Sourced(f, k, P)
                => /\ Opens(f, FinishBlockNoFallthrough(k))
                   /\ ~f.dead => \A p \in P : Feeds(FinishBlockNoFallthrough(k), Len(f.blocks) + 1, p)
<1>f. Fields(f) /\ Busy(f) /\ Without(f.instrs, "phisrcs")
      BY DEF Ready, Busy
<1>1. ASSUME NEW m, DOMAIN m = P PROVE Sourced(f, Push(f, PhiSrcs(m)), P)
  <2> DEFINE q == PhiSrcs(m)
             j == Push(f, q)
  <2>0. q.op = "phisrcs" /\ DOMAIN q.m = P
        BY <1>1 DEF PhiSrcs
  <2> HIDE DEF q
  <2>1. Busy(j) /\ Grows(f, j) /\ j.blocks = f.blocks /\ j.dead = f.dead
        /\ (~f.dead => SrcPhis(j.instrs) = P)
        BY <1>f, <2>0, PushKeeps
  <2> HIDE DEF j
  <2>2. Sourced(f, j, P)
        BY <2>1 DEF Sourced
  <2> QED BY <2>2 DEF j, q
<1>2. ASSUME NEW k, NEW i, Sourced(f, k, P), i.op \notin {"phisrcs", "phidsts"}
      PROVE  Sourced(f, Push(k, i), P)
  <2> DEFINE j == Push(k, i)
  <2>0. Busy(k) /\ Fields(k)
        BY <1>2 DEF Sourced, Busy
  <2>1. Busy(j) /\ Grows(k, j) /\ j.blocks = k.blocks /\ j.dead = k.dead
        /\ SrcPhis(j.instrs) = SrcPhis(k.instrs)
        BY <1>2, <2>0, PushKeeps
  <2> HIDE DEF j
  <2>2. Grows(f, j)
        BY <1>2, <1>f, <2>0, <2>1, GrowsOn DEF Sourced, Busy
  <2>3. Sourced(f, j, P)
        BY <1>2, <2>1, <2>2 DEF Sourced
  <2> QED BY <2>3 DEF j
<1>3. ASSUME NEW k, Sourced(f, k, P)
      PROVE  /\ Opens(f, FinishBlockNoFallthrough(k))
             /\ ~f.dead => \A p \in P : Feeds(FinishBlockNoFallthrough(k), Len(f.blocks) + 1, p)
  <2> DEFINE g == Close(k, NoBlock)
  <2>0. Busy(k) /\ Fields(k) /\ k.blocks = f.blocks /\ k.dead = f.dead
        BY <1>3 DEF Sourced, Busy
  <2>1. /\ Ready(g) /\ Grows(k, g) /\ Len(g.blocks) = Len(k.blocks) + 1
        /\ g.dead = k.dead /\ Fresh(g) /\ Len(k.blocks) + 1 \in Closed(g)
        /\ SrcPhis(CodeAt(g, Len(k.blocks) + 1)) = SrcPhis(k.instrs)
        BY <2>0, CloseKeeps
  <2> HIDE DEF g
  <2>2. Grows(f, g)
        BY <1>3, <1>f, <2>0, <2>1, GrowsOn DEF Sourced, Ready, Busy
  <2>3. Opens(f, g)
        BY <2>0, <2>1, <2>2 DEF Opens
  <2>4. ~f.dead => \A p \in P : Feeds(g, Len(f.blocks) + 1, p)
        BY <1>3, <2>0, <2>1 DEF Feeds, Sourced
  <2> QED BY <2>3, <2>4 DEF g, FinishBlockNoFallthrough
<1> QED BY <1>1, <1>2, <1>3

\* translate_loop: the block before the loop feeds the header's phi.
LEMMA EnterLoopKeeps ==
    ASSUME NEW f, Ready(f), ~f.dead, NEW fr, fr.header = Len(f.blocks) + 2
    PROVE  LET x == EnterLoop(f, fr)
           IN  Ready(x) /\ Grows(f, x) /\ x.dead = FALSE /\ Takes(x, fr.header, {fr.headerPhi})
<1> DEFINE p == fr.headerPhi
           c == f.nphi + 3
           l == f.nlabel + 3
           j == [f EXCEPT !.nlabel = l, !.nphi = c]
           k == Push(j, PhiSrcs(PhiMap(p, f.vs)))
           pre == FinishBlockNoFallthrough(k)
           g == StartBlockAt(pre, fr.headerLabel)
           b == Len(f.blocks) + 1
           m == Len(f.blocks) + 2
           h == AddEdge(g, b, m)
           x == PushPhiDst(h, p)
<1>f. Fields(f) /\ IsTranslator(f)
      BY DEF Ready, Busy, Fields
<1>x. EnterLoop(f, fr) = x
      BY DEF EnterLoop, NextBlockId
<1>d. DOMAIN PhiMap(p, f.vs) = {p}
      BY DEF PhiMap
<1> HIDE DEF p
<1>1. Alike(f, j) /\ j.dead = f.dead
  <2>1. j = [f EXCEPT !.nlabel = l, !.nphi = c]
        OBVIOUS
  <2> HIDE DEF j, l, c
  <2>2. j = [blocks |-> f.blocks, edges |-> f.edges, instrs |-> f.instrs, label |-> f.label,
             block |-> f.block, dead |-> f.dead, vs |-> f.vs, inlineReturn |-> f.inlineReturn,
             nssa |-> f.nssa, nphi |-> c, nlabel |-> l]
        BY <1>f, <2>1 DEF IsTranslator
  <2> QED BY <1>f, <2>2, OtherFields
<1> HIDE DEF j
<1>2. Ready(j) /\ Len(j.blocks) = Len(f.blocks) /\ \A y : Opens(j, y) => Opens(f, y)
      BY <1>1, OpensAlike
<1>3. Sourced(j, k, {p})
      BY <1>2, <1>d, SourcedKeeps
<1> HIDE DEF k
<1>4. Opens(j, pre) /\ (~j.dead => \A q \in {p} : Feeds(pre, Len(j.blocks) + 1, q))
      BY <1>2, <1>3, SourcedKeeps
<1> HIDE DEF pre
<1>5. Opens(f, pre) /\ Feeds(pre, b, p)
      BY <1>1, <1>2, <1>4
<1>6. Opens(f, g) /\ Takes(g, m, {}) /\ Feeds(g, b, p)
      BY <1>5, <1>f, OpensStart
<1> HIDE DEF g, b, m
<1>7. Complete(g, <<b, m>>)
      BY <1>6, FeedsTakes DEF Feeds
<1>8. /\ Ready(h) /\ h.edges = g.edges \cup {<<b, m>>}
      /\ h.blocks = g.blocks /\ h.instrs = g.instrs /\ h.block = g.block /\ h.dead = g.dead
      BY <1>6, <1>7, AddEdgeKeeps DEF Opens
<1> HIDE DEF h
<1>9. Merges(g, h, p)
  <2>1. \A e \in h.edges : e \in g.edges \/ Feeds(g, e[1], p)
        BY <1>6, <1>8
  <2>2. h.instrs = <<>> /\ h.block = NoBlock /\ ~h.dead
        BY <1>6, <1>8 DEF Opens, Fresh
  <2> QED BY <1>8, <2>1, <2>2 DEF Merges
<1>10. Ready(x) /\ Grows(f, x) /\ x.dead = FALSE /\ Takes(x, Len(f.blocks) + 2, {p})
      BY <1>6, <1>9, <1>f, MergeKeeps
<1> HIDE DEF x
<1> QED BY <1>10, <1>x DEF p

\* The continuing block: the end of the body and every Continue feed its phi.
LEMMA EnterContinuingKeeps ==
    ASSUME NEW f, Ready(f), NEW fr
    PROVE  LET x == EnterContinuing(f, fr)
           IN  Ready(x) /\ Grows(f, x) /\ x.dead = FALSE /\ Takes(x, Len(f.blocks) + 2, {fr.contPhi})
<1> DEFINE p == fr.contPhi
           i == Bra(fr.contLabel)
           pre == FinishBlockNoFallthrough(Push(Push(f, PhiSrcs(PhiMap(p, f.vs))), i))
           g == StartBlockAt(pre, fr.contLabel)
           b == Len(f.blocks) + 1
           m == Len(f.blocks) + 2
           h == IF f.dead THEN g ELSE AddEdge(g, b, NextBlockId(g))
           k == SetDead(h, FALSE)
           x == PushPhiDst(k, p)
<1>f. Fields(f) /\ f.dead \in BOOLEAN
      BY DEF Ready, Busy, Fields
<1>x. EnterContinuing(f, fr) = x
      BY DEF EnterContinuing, NextBlockId, Alive, SetDead
<1>i. i.op \notin {"phisrcs", "phidsts"}
      BY DEF Bra
<1> HIDE DEF p, i
<1>1. Opens(f, pre) /\ (~f.dead => Feeds(pre, b, p))
      BY <1>i, LeaveFeeding
<1> HIDE DEF pre
<1>2. Opens(f, g) /\ Takes(g, m, {}) /\ (~f.dead => Feeds(g, b, p))
      BY <1>1, <1>f, OpensStart
<1> HIDE DEF g
<1>3. NextBlockId(g) = m
  <2>1. Len(f.blocks) \in Nat /\ Len(g.blocks) = Len(f.blocks) + 1
        BY <1>2, <1>f, BlockCount DEF Opens
  <2> QED BY <2>1 DEF NextBlockId
<1> HIDE DEF b, m
<1>4. /\ Ready(h) /\ h.blocks = g.blocks /\ h.instrs = g.instrs /\ h.block = g.block
      /\ \A e \in h.edges : e \in g.edges \/ Feeds(g, e[1], p)
  <2>1. CASE f.dead
        BY <1>2, <2>1 DEF Opens
  <2>2. CASE ~f.dead
    <3>1. h = AddEdge(g, b, m)
          BY <1>3, <2>2
    <3> HIDE DEF h
    <3>2. Complete(g, <<b, m>>)
          BY <1>2, <2>2, FeedsTakes DEF Feeds
    <3>3. /\ Ready(h) /\ h.edges = g.edges \cup {<<b, m>>}
          /\ h.blocks = g.blocks /\ h.instrs = g.instrs /\ h.block = g.block
          BY <1>2, <3>1, <3>2, AddEdgeKeeps DEF Opens
    <3> QED BY <1>2, <2>2, <3>3
  <2> QED BY <1>f, <2>1, <2>2
<1> HIDE DEF h
<1>5. Alike(h, k) /\ k.dead = FALSE
  <2>1. IsTranslator(h)
        BY <1>4 DEF Ready, Busy, Fields
  <2> QED BY <2>1, SetDeadFields
<1> HIDE DEF k
<1>6. Ready(k)
      BY <1>4, <1>5, AlikeKeeps
<1>7. Merges(g, k, p)
  <2>1. \A e \in k.edges : e \in g.edges \/ Feeds(g, e[1], p)
        BY <1>4, <1>5 DEF Alike
  <2>2. k.blocks = g.blocks /\ k.instrs = <<>> /\ k.block = NoBlock /\ ~k.dead
        BY <1>2, <1>4, <1>5 DEF Opens, Fresh, Alike
  <2> QED BY <1>6, <2>1, <2>2 DEF Merges
<1>8. Ready(x) /\ Grows(f, x) /\ x.dead = FALSE /\ Takes(x, Len(f.blocks) + 2, {p})
      BY <1>2, <1>7, <1>f, MergeKeeps
<1> HIDE DEF x
<1> QED BY <1>8, <1>x DEF p

\* The back edge: the latch feeds the header's phi and, with break_if, the
\* exit's.
LEMMA BackEdgeKeeps ==
    ASSUME NEW f, Ready(f), ~f.dead, NEW fr, LoopOK(f, fr), NEW breakIf \in BOOLEAN
    PROVE  LET g == BackEdge(f, fr, breakIf)
           IN  Opens(f, g) /\ (breakIf => Feeds(g, Len(f.blocks) + 1, fr.exitPhi))
<1> DEFINE hp == fr.headerPhi
           xp == fr.exitPhi
           P == IF breakIf THEN {xp, hp} ELSE {hp}
           srcs == IF breakIf THEN [p \in {xp, hp} |-> f.vs] ELSE PhiMap(hp, f.vs)
           i == BraIf(fr.exitLabel, f.vs)
           j == Bra(fr.headerLabel)
           s == Push(f, PhiSrcs(srcs))
           h == IF breakIf THEN Push(s, i) ELSE s
           t == Push(h, j)
           k == FinishBlockNoFallthrough(t)
           b == Len(f.blocks) + 1
           m == fr.header
           g == AddEdge(k, b, m)
<1>f. Fields(f)
      BY DEF Ready, Busy
<1>g. BackEdge(f, fr, breakIf) = g
      BY DEF BackEdge, NextBlockId
<1>i. i.op \notin {"phisrcs", "phidsts"} /\ j.op \notin {"phisrcs", "phidsts"}
      BY DEF Bra, BraIf
<1>p. DOMAIN srcs = P
      BY DEF PhiMap
<1>q. hp \in P /\ (breakIf => xp \in P)
      OBVIOUS
<1>l. Takes(f, m, {hp})
      BY DEF LoopOK
<1> HIDE DEF hp, xp, P, srcs, i, j
<1>1. Sourced(f, s, P)
      BY <1>p, SourcedKeeps
<1> HIDE DEF s
<1>2. Sourced(f, h, P)
  <2>1. Sourced(f, Push(s, i), P)
        BY <1>1, <1>i, SourcedKeeps
  <2> QED BY <1>1, <2>1
<1> HIDE DEF h
<1>3. Sourced(f, t, P)
      BY <1>2, <1>i, SourcedKeeps
<1> HIDE DEF t
<1>4. Opens(f, k) /\ \A p \in P : Feeds(k, b, p)
      BY <1>3, SourcedKeeps
<1> HIDE DEF k
<1>5. Takes(k, m, {hp}) /\ m \in Known(f)
      BY <1>4, <1>f, <1>l, FrameGrows DEF Opens, Ready, Busy, Takes
<1>6. m \in Closed(k)
      BY <1>4, <1>5 DEF Known, Closed, Opens
<1>7. Complete(k, <<b, m>>)
      BY <1>4, <1>5, <1>q, FeedsTakes
<1> HIDE DEF b, m
<1>8. Opens(f, g) /\ \A c, p : Feeds(k, c, p) => Feeds(g, c, p)
      BY <1>4, <1>6, <1>7, <1>f, OpensEdge
<1>9. breakIf => Feeds(g, b, xp)
      BY <1>4, <1>8, <1>q
<1> HIDE DEF g
<1> QED BY <1>8, <1>9, <1>g DEF b, xp

\* The exit of a loop, with the edges of its breaks and continues.
LEMMA LeaveLoopKeeps ==
    ASSUME NEW f, Ready(f), ~f.dead, NEW fr, LoopOK(f, fr), fr.stage = "cont", NEW breakIf \in BOOLEAN
    PROVE  LET x == LeaveLoop(f, fr, breakIf)
           IN  Ready(x) /\ Grows(f, x) /\ x.dead = FALSE
<1> DEFINE reachable == ~fr.bodyDead \/ fr.continues # {}
           g == IF reachable THEN BackEdge(f, fr, breakIf) ELSE FinishBlockNoFallthrough(f)
           b == Len(f.blocks) + 1
           m == Len(f.blocks) + 2
           xp == fr.exitPhi
           cp == fr.contPhi
           c == fr.cont
           s == StartBlockAt(g, fr.exitLabel)
           h == PushPhiDst(s, xp)
           leaving == fr.breaks \cup (IF breakIf /\ reachable THEN {b} ELSE {})
           A == {<<a, m>> : a \in leaving}
           B == {<<a, c>> : a \in fr.continues}
           E == A \cup B
           x == [h EXCEPT !.edges = @ \cup E]
<1>f. Fields(f) /\ Busy(f)
      BY DEF Ready, Busy
<1>l. /\ \A a \in fr.breaks : Feeds(f, a, xp)
      /\ \A a \in fr.continues : Feeds(f, a, cp)
      /\ Takes(f, c, {cp})
      BY DEF LoopOK
<1>1. Opens(f, g) /\ (breakIf /\ reachable => Feeds(g, b, xp))
  <2>1. CASE reachable
    <3>1. Opens(f, BackEdge(f, fr, breakIf)) /\ (breakIf => Feeds(BackEdge(f, fr, breakIf), b, xp))
          BY BackEdgeKeeps
    <3> QED BY <2>1, <3>1
  <2>2. CASE ~reachable
    <3> DEFINE y == Close(f, NoBlock)
    <3>1. /\ Ready(y) /\ Grows(f, y) /\ Len(y.blocks) = Len(f.blocks) + 1
          /\ y.dead = f.dead /\ Fresh(y) /\ Len(f.blocks) + 1 \in Closed(y)
          BY <1>f, CloseKeeps
    <3>2. g = y
          BY <2>2 DEF FinishBlockNoFallthrough
    <3> HIDE DEF y
    <3>3. Opens(f, y)
          BY <3>1 DEF Opens
    <3> QED BY <2>2, <3>2, <3>3
  <2> QED BY <2>1, <2>2
<1>n. NextBlockId(g) = m
  <2> HIDE DEF g
  <2>1. Len(f.blocks) \in Nat /\ Len(g.blocks) = Len(f.blocks) + 1
        BY <1>1, <1>f, BlockCount DEF Opens
  <2> QED BY <2>1 DEF NextBlockId
<1>x. LeaveLoop(f, fr, breakIf) = x
  <2>1. LeaveLoop(f, fr, breakIf) = [h EXCEPT !.edges = @ \cup A \cup B]
        BY <1>n DEF LeaveLoop, NextBlockId
  <2> HIDE DEF h, A, B
  <2>2. (h.edges \cup A) \cup B = h.edges \cup E
        OBVIOUS
  <2> QED BY <2>1, <2>2
<1> HIDE DEF g, xp, cp, c
<1>2. Opens(f, s) /\ \A a, p : Feeds(g, a, p) => Feeds(s, a, p)
      BY <1>1, <1>f, OpensStart
<1> HIDE DEF s
<1>3. Merges(s, s, xp)
      BY <1>2 DEF Merges, Opens, Fresh
<1>4. Ready(h) /\ Grows(f, h) /\ h.blocks = s.blocks /\ h.dead = FALSE /\ Takes(h, m, {xp})
      BY <1>2, <1>3, <1>f, MergeKeeps
<1> HIDE DEF h
<1>5. Fields(h)
      BY <1>4 DEF Ready, Busy
<1>6. /\ \A a \in fr.breaks : Feeds(h, a, xp)
      /\ \A a \in fr.continues : Feeds(h, a, cp)
      /\ Takes(h, c, {cp})
      BY <1>4, <1>5, <1>f, <1>l, FrameGrows
<1>7. breakIf /\ reachable => Feeds(h, b, xp)
  <2>1. \A a : Feeds(s, a, xp) => Feeds(h, a, xp)
        BY <1>4 DEF Feeds, Closed, CodeAt
  <2> QED BY <1>1, <1>2, <2>1
<1>8. \A a \in leaving : Feeds(h, a, xp)
      BY <1>6, <1>7
<1> HIDE DEF leaving, m
<1>9. \A e \in E : Complete(h, e)
  <2>1. ASSUME NEW a \in leaving PROVE Complete(h, <<a, m>>)
        BY <1>4, <1>8, FeedsTakes
  <2>2. ASSUME NEW a \in fr.continues PROVE Complete(h, <<a, c>>)
        BY <1>6, FeedsTakes
  <2> QED BY <2>1, <2>2
<1> HIDE DEF E
<1>10. Ready(x) /\ Grows(h, x) /\ x.dead = h.dead
      BY <1>4, <1>9, EdgesKeep
<1> HIDE DEF x
<1>11. Grows(f, x)
      BY <1>4, <1>5, <1>10, <1>f, GrowsOn DEF Ready, Busy
<1> QED BY <1>4, <1>10, <1>11, <1>x

\* dead_code is cleared where code starts that can be reached.
LEMMA AliveKeeps ==
    ASSUME NEW f, Fields(f), NEW h, Ready(h), Grows(f, h)
    PROVE  LET k == Alive(h)
           IN  Ready(k) /\ Grows(f, k) /\ k.dead = FALSE /\ k.blocks = h.blocks /\ k.instrs = h.instrs
<1> DEFINE k == SetDead(h, FALSE)
<1>1. IsTranslator(h) /\ Fields(h)
      BY DEF Ready, Busy, Fields
<1>2. Alike(h, k) /\ k.dead = FALSE
      BY <1>1, SetDeadFields
<1>k. Alive(h) = k
      BY DEF Alive, SetDead
<1> HIDE DEF k
<1>3. Ready(k) /\ Grows(h, k)
      BY <1>2, AlikeKeeps
<1>4. Grows(f, k)
      BY <1>1, <1>3, GrowsOn DEF Ready, Busy
<1> QED BY <1>2, <1>3, <1>4, <1>k DEF Alike

\* A comparison of a switch, up to the body of its case.
LEMMA EnterCaseKeeps ==
    ASSUME NEW f, Ready(f), NEW fr
    PROVE  LET x == EnterCase(f, fr)
           IN  /\ Ready(x) /\ Grows(f, x) /\ x.dead = FALSE
               /\ Len(f.blocks) + 1 \in Closed(x) /\ Takes(x, Len(f.blocks) + 2, {})
<1> DEFINE j == SetLabel(f, f.nlabel + 1)
           i == BraIfNot(f.nlabel, fr.sel)
           k == FinishBlockNoFallthrough(Push(j, i))
           g == StartBlock(k)
           x == Alive(g)
<1>f. Fields(f) /\ IsTranslator(f)
      BY DEF Ready, Busy, Fields
<1>x. EnterCase(f, fr) = x
      BY DEF EnterCase, SetLabel
<1>i. i.op \notin {"phisrcs", "phidsts"}
      BY DEF BraIfNot
<1>1. Alike(f, j) /\ j.dead = f.dead
      BY <1>f, SetLabelFields
<1> HIDE DEF i, j
<1>2. Ready(j) /\ \A h : Opens(j, h) => Opens(f, h)
      BY <1>1, OpensAlike
<1>3. Opens(f, k)
      BY <1>i, <1>2, LeavePlain
<1> HIDE DEF k
<1>4. Opens(f, g) /\ Takes(g, Len(f.blocks) + 2, {})
      BY <1>3, <1>f, OpensStart
<1> HIDE DEF g
<1>5. Ready(x) /\ Grows(f, x) /\ x.dead = FALSE /\ x.blocks = g.blocks /\ x.instrs = g.instrs
      BY <1>4, <1>f, AliveKeeps DEF Opens
<1> HIDE DEF x
<1>6. Len(f.blocks) + 1 \in Closed(x) /\ Takes(x, Len(f.blocks) + 2, {})
      BY <1>4, <1>5 DEF Opens, Closed, Takes, Known, CodeAt
<1> QED BY <1>5, <1>6, <1>x

\* The end of a case body.
LEMMA LeaveCaseKeeps ==
    ASSUME NEW f, Ready(f), NEW fr, SwitchOK(f, fr), fr.stage = "case"
    PROVE  LET x == LeaveCase(f, fr)
           IN  /\ Ready(x) /\ Grows(f, x) /\ x.dead = FALSE /\ Len(f.blocks) + 1 \in Closed(x)
<1> DEFINE i == Bra(fr.merge)
           k == FinishBlockNoFallthrough(Push(f, i))
           b == fr.check
           c == fr.check + 1
           g == AddEdge(k, b, c)
           h == StartBlockAt(g, fr.next)
           m == Len(f.blocks) + 2
           j == AddEdge(h, b, m)
           x == Alive(j)
<1>f. Fields(f)
      BY DEF Ready, Busy, Fields
<1>i. i.op \notin {"phisrcs", "phidsts"}
      BY DEF Bra
<1>s. b \in Closed(f) /\ Takes(f, c, {})
      BY DEF SwitchOK
<1> HIDE DEF i
<1>1. Opens(f, k)
      BY <1>i, LeavePlain
<1> HIDE DEF k
<1>k. Fields(k) /\ Grows(f, k)
      BY <1>1 DEF Opens, Ready, Busy
<1> HIDE DEF b, c
<1>2. b \in Closed(k) /\ Takes(k, c, {}) /\ c \in Known(f)
      BY <1>f, <1>k, <1>s, FrameGrows, GrowsOn DEF Takes
<1>3. c \in Closed(k)
      BY <1>1, <1>2 DEF Opens, Closed, Known
<1>4. Complete(k, <<b, c>>)
      BY <1>2, FeedsTakes
<1>5. Opens(f, g)
      BY <1>1, <1>3, <1>4, <1>f, OpensEdge
<1> HIDE DEF g
<1>6. Opens(f, h) /\ Takes(h, m, {})
      BY <1>5, <1>f, OpensStart
<1> HIDE DEF h
<1>h. Ready(h) /\ Fields(h) /\ Grows(f, h) /\ Len(f.blocks) + 1 \in Closed(h)
      BY <1>6 DEF Opens, Ready, Busy
<1>n. NextBlockId(h) = m
  <2>1. Len(f.blocks) \in Nat /\ Len(h.blocks) = Len(f.blocks) + 1
        BY <1>6, <1>f, BlockCount DEF Opens
  <2> QED BY <2>1 DEF NextBlockId
<1>x. LeaveCase(f, fr) = x
      BY <1>n DEF LeaveCase, g, h, k, i, b, c
<1> HIDE DEF m
<1>7. b \in Closed(h)
      BY <1>f, <1>h, <1>s, GrowsOn
<1>8. Complete(h, <<b, m>>)
      BY <1>6, <1>7, FeedsTakes
<1>9. Ready(j) /\ Grows(h, j) /\ j.blocks = h.blocks
      BY <1>h, <1>8, AddEdgeKeeps
<1> HIDE DEF j
<1>10. Grows(f, j)
      BY <1>f, <1>h, <1>9, GrowsOn DEF Ready, Busy
<1>11. Ready(x) /\ Grows(f, x) /\ x.dead = FALSE /\ x.blocks = j.blocks
      BY <1>9, <1>10, <1>f, AliveKeeps
<1> HIDE DEF x
<1>12. Len(f.blocks) + 1 \in Closed(x)
      BY <1>h, <1>9, <1>11 DEF Closed
<1> QED BY <1>11, <1>12, <1>x

\* The merge block of a switch, which has no phis.
LEMMA LeaveSwitchKeeps ==
    ASSUME NEW f, Ready(f), NEW fr, SwitchOK(f, fr)
    PROVE  LET x == LeaveSwitch(f, fr) IN Ready(x) /\ Grows(f, x) /\ x.dead = FALSE
<1> DEFINE i == Bra(fr.merge)
           k == FinishBlockNoFallthrough(Push(f, i))
           g == StartBlockAt(k, fr.merge)
           m == Len(f.blocks) + 2
           ends == fr.ends \cup {Len(f.blocks) + 1}
           E == {<<e, m>> : e \in ends}
           j == [g EXCEPT !.edges = @ \cup E]
           x == Alive(j)
<1>f. Fields(f)
      BY DEF Ready, Busy, Fields
<1>i. i.op \notin {"phisrcs", "phidsts"}
      BY DEF Bra
<1> HIDE DEF i
<1>1. Opens(f, k)
      BY <1>i, LeavePlain
<1> HIDE DEF k
<1>2. Opens(f, g) /\ Takes(g, m, {})
      BY <1>1, <1>f, OpensStart
<1> HIDE DEF g
<1>g. Ready(g) /\ Fields(g) /\ Grows(f, g) /\ Len(f.blocks) + 1 \in Closed(g)
      BY <1>2 DEF Opens, Ready, Busy
<1>n. NextBlockId(g) = m
  <2>1. Len(f.blocks) \in Nat /\ Len(g.blocks) = Len(f.blocks) + 1
        BY <1>2, <1>f, BlockCount DEF Opens
  <2> QED BY <2>1 DEF NextBlockId
<1>x. LeaveSwitch(f, fr) = x
      BY <1>n DEF LeaveSwitch, g, k, i, NextBlockId
<1> HIDE DEF m
<1>3. ends \subseteq Closed(g)
  <2>1. fr.ends \subseteq Closed(f) /\ Closed(f) \subseteq Closed(g)
        BY <1>f, <1>g, GrowsOn DEF SwitchOK
  <2> QED BY <1>g, <2>1
<1> HIDE DEF ends
<1>4. \A e \in E : Complete(g, e)
  <2>1. ASSUME NEW e \in ends PROVE Complete(g, <<e, m>>)
        BY <1>2, <1>3, FeedsTakes
  <2> QED BY <2>1
<1> HIDE DEF E
<1>5. Ready(j) /\ Grows(g, j)
      BY <1>4, <1>g, EdgesKeep
<1> HIDE DEF j
<1>6. Grows(f, j)
      BY <1>f, <1>g, <1>5, GrowsOn DEF Ready, Busy
<1>7. Ready(x) /\ Grows(f, x) /\ x.dead = FALSE
      BY <1>5, <1>6, <1>f, AliveKeeps
<1> HIDE DEF x
<1> QED BY <1>7, <1>x

\* inline_call, once the callee is translated.
LEMMA LeaveCallKeeps ==
    ASSUME NEW f, Ready(f), NEW fr
    PROVE  LET x == LeaveCall(f, fr) IN Ready(x) /\ Grows(f, x) /\ x.dead = FALSE
<1> DEFINE r == fr.saved
           i == Read(f.inlineReturn)
           g == [f EXCEPT !.dead = FALSE, !.inlineReturn = r]
           k == FinishBlock(g)
           s == StartBlock(k)
           h == IF f.dead THEN s ELSE g
           t == Push(h, i)
           x == LeaveCall(f, fr)
<1>f. Fields(f) /\ IsTranslator(f) /\ f.dead \in BOOLEAN
      BY DEF Ready, Busy, Fields
<1>x. x = IF f.inlineReturn = NoSSA THEN h ELSE t
      BY DEF LeaveCall
<1>i. i.op = "read"
      BY DEF Read
<1> HIDE DEF x, i
<1>1. Alike(f, g) /\ g.dead = FALSE
  <2>1. g = [f EXCEPT !.dead = FALSE, !.inlineReturn = r]
        OBVIOUS
  <2> HIDE DEF g, r
  <2>2. g = [blocks |-> f.blocks, edges |-> f.edges, instrs |-> f.instrs, label |-> f.label,
             block |-> f.block, dead |-> FALSE, vs |-> f.vs, inlineReturn |-> r,
             nssa |-> f.nssa, nphi |-> f.nphi, nlabel |-> f.nlabel]
        BY <1>f, <2>1 DEF IsTranslator
  <2> QED BY <1>f, <2>2, OtherFields
<1> HIDE DEF g
<1>2. Ready(g) /\ Grows(f, g) /\ Busy(g) /\ Fields(g)
      BY <1>1, AlikeKeeps DEF Ready, Busy
<1>3. Ready(k) /\ Grows(g, k) /\ k.instrs = <<>> /\ k.dead = g.dead
      BY <1>2, CloseKeeps DEF FinishBlock, NextBlockId
<1> HIDE DEF k
<1>4. Ready(s) /\ Grows(k, s) /\ s.dead = k.dead
      BY <1>3, StartKeeps
<1> HIDE DEF s
<1>5. Ready(h) /\ Grows(f, h) /\ h.dead = FALSE
  <2>1. Grows(f, k)
        BY <1>f, <1>2, <1>3, GrowsOn DEF Ready, Busy
  <2>2. Grows(f, s)
        BY <1>f, <1>3, <1>4, <2>1, GrowsOn DEF Ready, Busy
  <2>3. CASE f.dead
        BY <1>1, <1>3, <1>4, <2>2, <2>3
  <2>4. CASE ~f.dead
        BY <1>1, <1>2, <2>4
  <2> QED BY <1>f, <2>3, <2>4
<1> HIDE DEF h
<1>6. /\ Busy(t) /\ Grows(h, t) /\ Without(t.instrs, "phisrcs") /\ t.dead = h.dead
      BY <1>5, <1>i, PushKeeps DEF Ready
<1> HIDE DEF t
<1>7. Ready(t) /\ Grows(f, t) /\ t.dead = FALSE
      BY <1>5, <1>6, <1>f, GrowsOn DEF Ready, Busy
<1>8. Ready(x) /\ Grows(f, x) /\ x.dead = FALSE
      BY <1>5, <1>7, <1>x
<1> QED BY <1>8 DEF x

\* A store to the variable.
LEMMA StoreKeeps ==
    ASSUME NEW f, Ready(f), NEW i, i.op \notin {"phisrcs", "phidsts"}, NEW v, NEW s
    PROVE  LET x == SetVsNext(Push(f, i), v, s) IN Ready(x) /\ Grows(f, x) /\ x.dead = f.dead
<1> DEFINE t == Push(f, i)
           x == SetVsNext(t, v, s)
<1>f. Fields(f) /\ Busy(f) /\ Without(f.instrs, "phisrcs")
      BY DEF Ready, Busy
<1>1. Busy(t) /\ Grows(f, t) /\ Without(t.instrs, "phisrcs") /\ t.dead = f.dead
      BY <1>f, PushKeeps
<1> HIDE DEF t
<1>2. Ready(t) /\ Fields(t) /\ IsTranslator(t) /\ t.dead \in BOOLEAN
      BY <1>1 DEF Ready, Busy, Fields
<1>3. Alike(t, x) /\ x.dead = t.dead
      BY <1>2, SetVsNextFields
<1> HIDE DEF x
<1>4. Ready(x) /\ Grows(t, x)
      BY <1>2, <1>3, AlikeKeeps
<1>5. Grows(f, x)
      BY <1>1, <1>2, <1>4, <1>f, GrowsOn DEF Ready, Busy
<1> QED BY <1>1, <1>3, <1>4, <1>5 DEF x, t

\* The statements that only set a field: the head of a switch, and of a call.
LEMMA HeadKeeps ==
    ASSUME NEW f, Ready(f), NEW v
    PROVE  /\ LET x == [f EXCEPT !.nlabel = v] IN Ready(x) /\ Grows(f, x) /\ x.dead = f.dead
           /\ LET x == [f EXCEPT !.inlineReturn = v] IN Ready(x) /\ Grows(f, x) /\ x.dead = f.dead
<1>f. IsTranslator(f) /\ f.dead \in BOOLEAN
      BY DEF Ready, Busy, Fields
<1> DEFINE x == [f EXCEPT !.nlabel = v]
           y == [f EXCEPT !.inlineReturn = v]
<1>e. x = [f EXCEPT !.nlabel = v] /\ y = [f EXCEPT !.inlineReturn = v]
      OBVIOUS
<1> HIDE DEF x, y
<1>1. x = [blocks |-> f.blocks, edges |-> f.edges, instrs |-> f.instrs, label |-> f.label,
           block |-> f.block, dead |-> f.dead, vs |-> f.vs, inlineReturn |-> f.inlineReturn,
           nssa |-> f.nssa, nphi |-> f.nphi, nlabel |-> v]
      BY <1>f, <1>e DEF IsTranslator
<1>2. y = [blocks |-> f.blocks, edges |-> f.edges, instrs |-> f.instrs, label |-> f.label,
           block |-> f.block, dead |-> f.dead, vs |-> f.vs, inlineReturn |-> v,
           nssa |-> f.nssa, nphi |-> f.nphi, nlabel |-> f.nlabel]
      BY <1>f, <1>e DEF IsTranslator
<1>3. Alike(f, x) /\ x.dead = f.dead
      BY <1>f, <1>1, OtherFields
<1>4. Alike(f, y) /\ y.dead = f.dead
      BY <1>f, <1>2, OtherFields
<1>5. Ready(x) /\ Grows(f, x) /\ Ready(y) /\ Grows(f, y)
      BY <1>f, <1>3, <1>4, AlikeKeeps
<1> QED BY <1>3, <1>4, <1>5 DEF x, y

\* The phi map that later passes look up in a block.
LookUp(is, op) ==
    LET C == {is[i] : i \in {j \in DOMAIN is : is[j].op = op}}
    IN  IF C = {} THEN <<>> ELSE (CHOOSE i \in C : TRUE).m

\* It has the phis of the block.
LEMMA PhiLookup ==
    ASSUME NEW is, NEW op, Single(is, op)
    PROVE  DOMAIN LookUp(is, op) = PhisAt(is, op)
<1> DEFINE C == {is[i] : i \in {j \in DOMAIN is : is[j].op = op}}
<1>0. LookUp(is, op) = IF C = {} THEN <<>> ELSE (CHOOSE i \in C : TRUE).m
      BY DEF LookUp
<1>1. CASE C = {}
  <2>1. \A j \in DOMAIN is : is[j].op # op
        BY <1>1
  <2>2. PhisAt(is, op) = {}
        BY <2>1 DEF PhisAt
  <2>3. DOMAIN <<>> = {}
        BY EmptySequence
  <2> QED BY <1>0, <1>1, <2>2, <2>3
<1>2. CASE C # {}
  <2> DEFINE c == CHOOSE i \in C : TRUE
  <2>1. c \in C
        BY <1>2
  <2> HIDE DEF c
  <2>2. PICK k \in DOMAIN is : is[k].op = op /\ c = is[k]
        BY <2>1
  <2>3. \A j \in DOMAIN is : is[j].op = op => j = k
        BY <2>2 DEF Single
  <2>4. {j \in DOMAIN is : is[j].op = op} = {k}
        BY <2>2, <2>3
  <2>5. PhisAt(is, op) = DOMAIN is[k].m
        BY <2>4 DEF PhisAt
  <2> QED BY <1>0, <1>2, <2>2, <2>5 DEF c
<1> QED BY <1>1, <1>2

----------------------------------------------------------------------------
(* The stack of frames                                                     *)

\* A bounded set of numbers that is not empty has a largest one.
LEMMA LargestNumber ==
    ASSUME NEW n \in Nat, NEW S \in SUBSET (1 .. n), S # {}
    PROVE  \E x \in S : \A y \in S : y <= x
<1> DEFINE T == {n - x : x \in S}
<1>0. \A x \in S : x \in Nat /\ n - x \in Nat
      OBVIOUS
<1>1. T \in SUBSET Nat /\ T # {}
      BY <1>0
<1>2. PICK t \in T : \A u \in T : ~ (<<u, t>> \in OpToRel(<, Nat))
  <2> HIDE DEF T
  <2> QED BY <1>1, NatLessThanWellFounded, WFMin
<1>3. PICK x \in S : t = n - x
      OBVIOUS
<1>4. ASSUME NEW y \in S PROVE y <= x
  <2> DEFINE u == n - y
  <2>1. u \in Nat /\ t \in Nat /\ u \in T
        BY <1>0, <1>1
  <2>2. ~(<<u, t>> \in OpToRel(<, Nat))
        BY <1>2, <2>1
  <2> HIDE DEF u, T
  <2>3. <<u, t>> \in Nat \X Nat /\ <<u, t>>[1] = u /\ <<u, t>>[2] = t
        BY <2>1
  <2>4. u < t => <<u, t>> \in OpToRel(<, Nat)
        BY <2>3, Zenon DEF OpToRel
  <2>5. ~(u < t)
        BY <2>2, <2>4
  <2>6. x \in Nat /\ y \in Nat
        BY <1>0
  <2> QED BY <1>3, <2>1, <2>5, <2>6 DEF u
<1> QED BY <1>4

\* A function on 1 .. n is a sequence.
LEMMA FunctionSequence ==
    ASSUME NEW n \in Nat, NEW t, t = [k \in 1 .. n |-> t[k]]
    PROVE  Sequence(t) /\ Len(t) = n
<1> DEFINE T == {t[k] : k \in DOMAIN t}
<1>1. DOMAIN t = 1 .. n
      OBVIOUS
<1>2. t \in [1 .. n -> T]
      BY <1>1
<1>3. t \in Seq(T) /\ Len(t) = n
      BY <1>1, <1>2
<1> QED BY <1>3 DEF Sequence

\* What becomes of the frames when one is left as it is, pushed, popped or
\* changed.
LEMMA FramesKept ==
    ASSUME NEW f, Fields(f), NEW g, Fields(g), Grows(f, g), NEW s, FramesOK(f, s)
    PROVE  FramesOK(g, s)
BY FrameGrows DEF FramesOK

\* A frame is pushed.
LEMMA FramePushed ==
    ASSUME NEW f, Fields(f), NEW g, Fields(g), Grows(f, g), NEW s, FramesOK(f, s),
           NEW fr, FrameOK(g, fr)
    PROVE  FramesOK(g, Append(s, fr))
<1> DEFINE t == Append(s, fr)
<1>1. FramesOK(g, s)
      BY FramesKept
<1>2. /\ Sequence(t) /\ Len(s) \in Nat /\ Len(t) = Len(s) + 1
      /\ \A k \in 1 .. Len(s) : t[k] = s[k]
      /\ t[Len(s) + 1] = fr
      BY AppendSequence DEF FramesOK
<1> HIDE DEF t
<1>3. ASSUME NEW k \in 1 .. Len(t) PROVE FrameOK(g, t[k])
  <2>1. k \in 1 .. Len(s) \/ k = Len(s) + 1
        BY <1>2
  <2> QED BY <1>1, <1>2, <2>1 DEF FramesOK
<1> QED BY <1>2, <1>3 DEF FramesOK, t

\* The last frame is popped.
LEMMA FramePopped ==
    ASSUME NEW f, Fields(f), NEW g, Fields(g), Grows(f, g), NEW s, FramesOK(f, s), Len(s) > 0
    PROVE  FramesOK(g, SubSeq(s, 1, Len(s) - 1))
<1> DEFINE n == Len(s) - 1
           t == SubSeq(s, 1, n)
           R == {s[k] : k \in DOMAIN s}
<1>1. FramesOK(g, s)
      BY FramesKept
<1>2. s \in Seq(R) /\ Len(s) \in Nat /\ DOMAIN s = 1 .. Len(s)
      BY DEF FramesOK, Sequence
<1> HIDE DEF R
<1>3. n \in Nat /\ \A i \in 1 .. n : s[i] \in R
      BY <1>2
<1>4. /\ t \in Seq(R) /\ Len(t) = n /\ \A i \in 1 .. n : t[i] = s[i]
  <2> HIDE DEF n
  <2>1. t \in Seq(R)
        BY <1>3, SubSeqProperties
  <2>2. Len(t) = IF 1 <= n THEN n - 1 + 1 ELSE 0
        BY <1>3, SubSeqProperties
  <2>3. \A i \in 1 .. n - 1 + 1 : t[i] = s[1 + i - 1]
        BY <1>3, SubSeqProperties
  <2>4. Len(t) = n
        BY <1>3, <2>2
  <2>5. ASSUME NEW i \in 1 .. n PROVE t[i] = s[i]
    <3>1. i \in 1 .. n - 1 + 1 /\ 1 + i - 1 = i
          BY <1>3
    <3> QED BY <2>3, <3>1
  <2> QED BY <2>1, <2>4, <2>5
<1>5. Sequence(t)
  <2> HIDE DEF t, n
  <2>1. DOMAIN t = 1 .. n
        BY <1>3, <1>4
  <2>2. t = [k \in 1 .. n |-> t[k]]
        BY <1>4, <2>1
  <2> QED BY <1>3, <2>2, FunctionSequence
<1>6. \A i \in 1 .. n : i \in 1 .. Len(s)
      BY <1>2
<1> HIDE DEF t, n
<1>7. FramesOK(g, t)
      BY <1>1, <1>4, <1>5, <1>6 DEF FramesOK
<1> QED BY <1>7 DEF t, n

Changed(s, n, fr) == [s EXCEPT ![n] = fr]

\* A frame is changed.
LEMMA FrameChanged ==
    ASSUME NEW f, Fields(f), NEW g, Fields(g), Grows(f, g), NEW s, FramesOK(f, s),
           NEW n \in 1 .. Len(s), NEW fr, FrameOK(g, fr)
    PROVE  LET t == Changed(s, n, fr)
           IN  /\ FramesOK(g, t) /\ Len(t) = Len(s) /\ t[n] = fr
               /\ \A k \in 1 .. Len(s) : k # n => t[k] = s[k]
<1> DEFINE t == Changed(s, n, fr)
           R == {s[k] : k \in DOMAIN s}
<1>1. FramesOK(g, s)
      BY FramesKept
<1>2. s \in Seq(R) /\ Len(s) \in Nat /\ DOMAIN s = 1 .. Len(s)
      BY DEF FramesOK, Sequence
<1> HIDE DEF R
<1>3. /\ t = [k \in 1 .. Len(s) |-> t[k]] /\ t[n] = fr
      /\ \A k \in 1 .. Len(s) : k # n => t[k] = s[k]
      BY <1>2 DEF Changed
<1> HIDE DEF t
<1>4. Sequence(t) /\ Len(t) = Len(s)
      BY <1>2, <1>3, FunctionSequence
<1>5. FramesOK(g, t)
      BY <1>1, <1>3, <1>4 DEF FramesOK
<1> QED BY <1>3, <1>4, <1>5 DEF t

----------------------------------------------------------------------------
(* The actions                                                             *)

\* The innermost frame.
LEMMA TopFrame ==
    ASSUME Translating, Depth > 0
    PROVE  Depth \in 1 .. Len(frames) /\ FrameOK(ft, Frame) /\ Frame = frames[Len(frames)]
<1>1. Len(frames) \in Nat
      BY AppendSequence DEF Translating, FramesOK
<1> QED BY <1>1 DEF Translating, FramesOK, Depth, Frame

\* A step after which the open block is alive, by what it does to the frames.
LEMMA LiveStep ==
    ASSUME Translating, Ready(ft'), Grows(ft, ft'), ft'.dead = FALSE
    PROVE  /\ frames' = frames => Translating'
           /\ \A fr : FrameOK(ft', fr) /\ frames' = Append(frames, fr) => Translating'
           /\ Depth > 0 /\ frames' = Pop => Translating'
           /\ \A fr : FrameOK(ft', fr) /\ Depth > 0 /\ frames' = SetFrame(fr) => Translating'
<1>1. Fields(ft) /\ Fields(ft') /\ FramesOK(ft, frames)
      BY DEF Translating, Ready, Busy
<1>2. FramesOK(ft', frames') => Translating'
      BY DEF Translating, DeadTop
<1>3. frames' = frames => Translating'
  <2>1. FramesOK(ft', frames)
        BY <1>1, FramesKept
  <2> QED BY <1>2, <2>1
<1>4. ASSUME NEW fr, FrameOK(ft', fr), frames' = Append(frames, fr) PROVE Translating'
  <2>1. FramesOK(ft', Append(frames, fr))
        BY <1>1, <1>4, FramePushed
  <2> QED BY <1>2, <1>4, <2>1
<1>5. ASSUME Depth > 0, frames' = Pop PROVE Translating'
  <2>1. FramesOK(ft', SubSeq(frames, 1, Len(frames) - 1))
        BY <1>1, <1>5, FramePopped DEF Depth
  <2> QED BY <1>2, <1>5, <2>1 DEF Pop, Depth
<1>6. ASSUME NEW fr, FrameOK(ft', fr), Depth > 0, frames' = SetFrame(fr) PROVE Translating'
  <2> DEFINE n == Depth
             t == Changed(frames, n, fr)
  <2>1. n \in 1 .. Len(frames)
        BY <1>6, TopFrame
  <2> HIDE DEF n
  <2>2. FramesOK(ft', t)
        BY <1>1, <1>6, <2>1, FrameChanged
  <2>3. frames' = t
        BY <1>6 DEF SetFrame, n, Changed
  <2> HIDE DEF t
  <2> QED BY <1>2, <2>2, <2>3
<1> QED BY <1>3, <1>4, <1>5, <1>6

\* Statement::Store.
LEMMA StoreStep == ASSUME Translating, Store PROVE Translating'
<1> DEFINE i == Def(ft.nssa, Len(prog) + 1)
           t == Push(ft, i)
           x == SetVsNext(t, ft.nssa, t.nssa + 1)
<1>1. Ready(ft) /\ ft.dead = FALSE
      BY DEF Translating, Store, AtStatement, Ready, Busy, Fields
<1>2. i.op \notin {"phisrcs", "phidsts"}
      BY DEF Def
<1>3. ft' = x
      BY DEF Store, SetVsNext
<1> HIDE DEF i
<1>4. Ready(x) /\ Grows(ft, x) /\ x.dead = ft.dead
      BY <1>1, <1>2, StoreKeeps
<1> HIDE DEF x
<1>5. Ready(ft') /\ Grows(ft, ft') /\ ft'.dead = FALSE /\ frames' = frames
      BY <1>1, <1>3, <1>4 DEF Store
<1> QED BY <1>5, LiveStep

\* translate_if up to the accept arm.
LEMMA IfStep == ASSUME Translating, If PROVE Translating'
<1> DEFINE n == Len(ft.blocks)
<1>1. Ready(ft) /\ ~ft.dead
      BY DEF Translating, If, AtStatement
<1>n. n \in Nat /\ NextBlockId(ft) = n + 1 /\ NextBlockId(ft) + 1 = n + 2
      BY <1>1, BlockCount DEF Ready, Busy, NextBlockId
<1>2. ASSUME NEW stage \in {"accept", "accept of two"}
      PROVE  LET fr == IfFrame(ft, stage)
             IN  /\ IsIf(fr) /\ fr.k = "if" /\ fr.stage = stage /\ fr.cond = n + 1
                 /\ fr.start = n + 2 /\ fr.phi = ft.nphi
      BY <1>n DEF IfFrame, IsIf
<1>3. CASE frames' = Append(frames, IfFrame(ft, "accept")) /\ ft' = IfNoElse(ft)
  <2> DEFINE fr == IfFrame(ft, "accept")
             x == IfNoElse(ft)
  <2>1. Opens(ft, x) /\ Takes(x, n + 2, {}) /\ Feeds(x, n + 1, ft.nphi)
        BY <1>1, IfNoElseKeeps
  <2>2. /\ IsIf(fr) /\ fr.k = "if" /\ fr.stage = "accept" /\ fr.cond = n + 1
        /\ fr.start = n + 2 /\ fr.phi = ft.nphi
        BY <1>2
  <2>3. ft' = x /\ frames' = Append(frames, fr)
        BY <1>3
  <2> HIDE DEF x, fr
  <2>4. IfOK(x, fr)
        BY <2>1, <2>2 DEF IfOK, Feeds
  <2>5. FrameOK(ft', fr)
        BY <2>2, <2>3, <2>4 DEF FrameOK
  <2>6. Ready(ft') /\ Grows(ft, ft') /\ ft'.dead = FALSE
        BY <1>1, <2>1, <2>3 DEF Opens, Ready, Busy, Fields
  <2> QED BY <2>3, <2>5, <2>6, LiveStep
<1>4. CASE frames' = Append(frames, IfFrame(ft, "accept of two")) /\ ft' = IfElse(ft)
  <2> DEFINE fr == IfFrame(ft, "accept of two")
             x == IfElse(ft)
  <2>1. Opens(ft, x) /\ Takes(x, n + 2, {})
        BY <1>1, IfElseKeeps
  <2>2. /\ IsIf(fr) /\ fr.k = "if" /\ fr.stage = "accept of two" /\ fr.cond = n + 1
        /\ fr.start = n + 2 /\ fr.phi = ft.nphi
        BY <1>2
  <2>3. ft' = x /\ frames' = Append(frames, fr)
        BY <1>4
  <2> HIDE DEF x, fr
  <2>4. IfOK(x, fr)
        BY <2>1, <2>2 DEF IfOK, Opens
  <2>5. FrameOK(ft', fr)
        BY <2>2, <2>3, <2>4 DEF FrameOK
  <2>6. Ready(ft') /\ Grows(ft, ft') /\ ft'.dead = FALSE
        BY <1>1, <2>1, <2>3 DEF Opens, Ready, Busy, Fields
  <2> QED BY <2>3, <2>5, <2>6, LiveStep
<1> QED BY <1>3, <1>4 DEF If

\* The end of the accept arm, reject arm to follow.
LEMMA ElseStep == ASSUME Translating, Else PROVE Translating'
<1> DEFINE fr == Frame
           n == Len(ft.blocks)
           a == AddEdge(EndArm(ft, fr), fr.cond, fr.start)
           l == fr.merge + 1
           x == [StartBlockAt(a, l) EXCEPT !.vs = fr.pre, !.dead = FALSE]
           s == NextBlockId(a)
           b == NextBlockId(ft)
           fx == [fr EXCEPT !.stage = "reject", !.start = s, !.acceptEnd = b,
                            !.acceptDead = ft.dead, !.acceptVs = ft.vs]
<1>1. Ready(ft) /\ Depth > 0 /\ fr.k = "if" /\ FrameOK(ft, fr)
      BY TopFrame DEF Translating, Else, Inner
<1>2. ft' = x /\ frames' = SetFrame(fx)
      BY DEF Else
<1> HIDE DEF fr
<1>3. IfOK(ft, fr)
      BY <1>1 DEF FrameOK
<1>4. /\ Ready(x) /\ Grows(ft, x) /\ x.dead = FALSE /\ Takes(x, n + 2, {})
      /\ s = n + 2 /\ (~ft.dead => Feeds(x, n + 1, fr.phi))
      BY <1>1, <1>3, ElseKeeps
<1> HIDE DEF x, s
<1>5. /\ IsIf(fx) /\ fx.k = "if" /\ fx.stage = "reject" /\ fx.cond = fr.cond /\ fx.start = s
      /\ fx.phi = fr.phi /\ fx.acceptEnd = b /\ fx.acceptDead = ft.dead
  <2> DEFINE d == ft.dead
             v == ft.vs
  <2>1. fx = [fr EXCEPT !.stage = "reject", !.start = s, !.acceptEnd = b,
                        !.acceptDead = d, !.acceptVs = v]
        OBVIOUS
  <2>2. IsIf(fr)
        BY <1>3 DEF IfOK
  <2> HIDE DEF b, d, v, fx
  <2>3. fx = [k |-> fr.k, stage |-> "reject", merge |-> fr.merge, phi |-> fr.phi, pre |-> fr.pre,
              cond |-> fr.cond, start |-> s, acceptEnd |-> b, acceptDead |-> d, acceptVs |-> v]
        BY <2>1, <2>2 DEF IsIf
  <2>4. /\ IsIf(fx) /\ fx.k = fr.k /\ fx.stage = "reject" /\ fx.cond = fr.cond /\ fx.start = s
        /\ fx.phi = fr.phi /\ fx.acceptEnd = b /\ fx.acceptDead = d
        BY <2>3 DEF IsIf
  <2> QED BY <1>1, <2>4 DEF d
<1> HIDE DEF fx
<1>6. fr.cond \in Closed(x)
      BY <1>1, <1>3, <1>4, GrowsOn DEF IfOK, Ready, Busy
<1>7. b = n + 1
      BY DEF NextBlockId
<1> HIDE DEF b
<1>8. IfOK(x, fx)
  <2>1. Takes(x, fx.start, {}) /\ fx.cond \in Closed(x)
        BY <1>4, <1>5, <1>6
  <2>2. ~fx.acceptDead => Feeds(x, fx.acceptEnd, fx.phi)
        BY <1>4, <1>5, <1>7
  <2> QED BY <1>5, <2>1, <2>2 DEF IfOK
<1>9. FrameOK(ft', fx)
      BY <1>2, <1>5, <1>8 DEF FrameOK
<1>10. Ready(ft') /\ Grows(ft, ft') /\ ft'.dead = FALSE
      BY <1>2, <1>4
<1> QED BY <1>1, <1>2, <1>9, <1>10, LiveStep

\* The merge block of an if.
LEMMA EndIfStep == ASSUME Translating, EndIf PROVE Translating'
<1> DEFINE fr == Frame
<1>1. Ready(ft) /\ Depth > 0 /\ fr.k = "if" /\ FrameOK(ft, fr)
      BY TopFrame DEF Translating, EndIf, Inner
<1>2. /\ frames' = Pop /\ fr.stage \in {"accept", "reject"}
      /\ ft' = IF fr.stage = "accept" THEN MergeNoElse(ft, fr) ELSE MergeElse(ft, fr)
      BY DEF EndIf
<1> HIDE DEF fr
<1>3. IfOK(ft, fr)
      BY <1>1 DEF FrameOK
<1>4. Ready(ft') /\ Grows(ft, ft') /\ ft'.dead = FALSE
  <2>1. CASE fr.stage = "accept"
    <3>1. ft' = MergeNoElse(ft, fr)
          BY <1>2, <2>1
    <3> QED BY <1>1, <1>3, <2>1, <3>1, MergeNoElseKeeps
  <2>2. CASE fr.stage = "reject"
    <3>1. ft' = MergeElse(ft, fr)
          BY <1>2, <2>2
    <3> QED BY <1>1, <1>3, <2>2, <3>1, MergeElseKeeps
  <2> QED BY <1>2, <2>1, <2>2
<1> QED BY <1>1, <1>2, <1>4, LiveStep

\* translate_loop up to the body.
LEMMA LoopStep == ASSUME Translating, Loop PROVE Translating'
<1> DEFINE fr == LoopFrame(ft)
           n == Len(ft.blocks)
           x == EnterLoop(ft, fr)
<1>1. Ready(ft) /\ ~ft.dead
      BY DEF Translating, Loop, AtStatement
<1>n. n \in Nat /\ NextBlockId(ft) + 1 = n + 2
      BY <1>1, BlockCount DEF Ready, Busy, NextBlockId
<1>2. ft' = x /\ frames' = Append(frames, fr)
      BY DEF Loop
<1>3. /\ IsLoop(fr) /\ fr.k = "loop" /\ fr.stage = "body" /\ fr.header = n + 2
      /\ fr.breaks = {} /\ fr.continues = {}
      BY <1>n DEF LoopFrame, IsLoop
<1> HIDE DEF fr
<1>4. Ready(x) /\ Grows(ft, x) /\ x.dead = FALSE /\ Takes(x, fr.header, {fr.headerPhi})
      BY <1>1, <1>3, EnterLoopKeeps
<1> HIDE DEF x
<1>5. LoopOK(x, fr)
      BY <1>3, <1>4 DEF LoopOK
<1>6. FrameOK(ft', fr)
      BY <1>2, <1>3, <1>5 DEF FrameOK
<1>7. Ready(ft') /\ Grows(ft, ft') /\ ft'.dead = FALSE
      BY <1>2, <1>4
<1> QED BY <1>2, <1>6, <1>7, LiveStep

\* The continuing block of a loop.
LEMMA ContinuingStep == ASSUME Translating, Continuing PROVE Translating'
<1> DEFINE fr == Frame
           n == Len(ft.blocks)
           x == EnterContinuing(ft, fr)
           c == NextBlockId(ft) + 1
           fx == [fr EXCEPT !.stage = "cont", !.bodyDead = ft.dead, !.cont = c]
<1>1. Ready(ft) /\ Depth > 0 /\ fr.k = "loop" /\ FrameOK(ft, fr)
      BY TopFrame DEF Translating, Continuing, Inner
<1>n. n \in Nat /\ c = n + 2
      BY <1>1, BlockCount DEF Ready, Busy, NextBlockId
<1>2. ft' = x /\ frames' = SetFrame(fx)
      BY DEF Continuing
<1> HIDE DEF fr
<1>3. LoopOK(ft, fr)
      BY <1>1 DEF FrameOK
<1>4. Ready(x) /\ Grows(ft, x) /\ x.dead = FALSE /\ Takes(x, n + 2, {fr.contPhi})
      BY <1>1, EnterContinuingKeeps
<1> HIDE DEF x, c
<1>5. /\ IsLoop(fx) /\ fx.k = "loop" /\ fx.stage = "cont" /\ fx.header = fr.header
      /\ fx.headerPhi = fr.headerPhi /\ fx.exitPhi = fr.exitPhi /\ fx.contPhi = fr.contPhi
      /\ fx.breaks = fr.breaks /\ fx.continues = fr.continues /\ fx.cont = c
  <2> DEFINE d == ft.dead
  <2>1. fx = [fr EXCEPT !.stage = "cont", !.bodyDead = d, !.cont = c]
        OBVIOUS
  <2>2. IsLoop(fr)
        BY <1>3 DEF LoopOK
  <2> HIDE DEF d, fx
  <2>3. fx = [k |-> fr.k, stage |-> "cont", headerLabel |-> fr.headerLabel,
              contLabel |-> fr.contLabel, exitLabel |-> fr.exitLabel, headerPhi |-> fr.headerPhi,
              exitPhi |-> fr.exitPhi, contPhi |-> fr.contPhi, header |-> fr.header,
              cont |-> c, bodyDead |-> d, breaks |-> fr.breaks, continues |-> fr.continues]
        BY <2>1, <2>2 DEF IsLoop
  <2> QED BY <1>1, <2>3 DEF IsLoop
<1> HIDE DEF fx
<1>6. LoopOK(x, fx)
  <2>0. Fields(ft) /\ Fields(x)
        BY <1>1, <1>4 DEF Ready, Busy
  <2>1. /\ Takes(x, fr.header, {fr.headerPhi})
        /\ \A b \in fr.breaks : Feeds(x, b, fr.exitPhi)
        /\ \A b \in fr.continues : Feeds(x, b, fr.contPhi)
        BY <1>3, <1>4, <2>0, FrameGrows DEF LoopOK
  <2>2. Takes(x, fx.cont, {fx.contPhi})
        BY <1>4, <1>5, <1>n
  <2> QED BY <1>5, <2>1, <2>2 DEF LoopOK
<1>7. FrameOK(ft', fx)
      BY <1>2, <1>5, <1>6 DEF FrameOK
<1>8. Ready(ft') /\ Grows(ft, ft') /\ ft'.dead = FALSE
      BY <1>2, <1>4
<1> QED BY <1>1, <1>2, <1>7, <1>8, LiveStep

\* The exit of a loop.  The latch is alive: no jump stands in a continuing
\* block.
LEMMA EndLoopStep == ASSUME Translating, EndLoop PROVE Translating'
<1> DEFINE fr == Frame
<1>1. Ready(ft) /\ Depth > 0 /\ fr.k = "loop" /\ FrameOK(ft, fr) /\ fr.stage = "cont" /\ frames' = Pop
      /\ fr = frames[Len(frames)]
      BY TopFrame DEF Translating, EndLoop, Inner
<1>2. PICK breakIf \in BOOLEAN : ft' = LeaveLoop(ft, fr, breakIf)
      BY DEF EndLoop
<1> HIDE DEF fr
<1>3. LoopOK(ft, fr)
      BY <1>1 DEF FrameOK
<1>4. ~ft.dead
      BY <1>1 DEF Translating, DeadTop, MayBeDead, Depth
<1>5. Ready(ft') /\ Grows(ft, ft') /\ ft'.dead = FALSE
      BY <1>1, <1>2, <1>3, <1>4, LeaveLoopKeeps
<1> QED BY <1>1, <1>5, LiveStep

\* translate_switch up to the first comparison.
LEMMA SwitchStep == ASSUME Translating, Switch PROVE Translating'
<1> DEFINE fr == SwitchFrame(ft)
           v == ft.nlabel + 1
           x == [ft EXCEPT !.nlabel = v]
<1>1. Ready(ft) /\ ft.dead = FALSE
      BY DEF Translating, Switch, AtStatement, Ready, Busy, Fields
<1>2. ft' = x /\ frames' = Append(frames, fr)
      BY DEF Switch
<1>3. IsSwitch(fr) /\ fr.k = "switch" /\ fr.stage = "checks" /\ fr.ends = {}
      BY DEF SwitchFrame, IsSwitch
<1> HIDE DEF fr, v
<1>4. Ready(x) /\ Grows(ft, x) /\ x.dead = ft.dead
      BY <1>1, HeadKeeps
<1> HIDE DEF x
<1>5. FrameOK(ft', fr)
      BY <1>3 DEF SwitchOK, FrameOK
<1>6. Ready(ft') /\ Grows(ft, ft') /\ ft'.dead = FALSE
      BY <1>1, <1>2, <1>4
<1> QED BY <1>2, <1>5, <1>6, LiveStep

\* A comparison and the body of its case.
LEMMA CaseStep == ASSUME Translating, Case PROVE Translating'
<1> DEFINE fr == Frame
           n == Len(ft.blocks)
           b == NextBlockId(ft)
           l == ft.nlabel
           x == EnterCase(ft, fr)
           fx == [fr EXCEPT !.stage = "case", !.check = b, !.next = l]
<1>1. Ready(ft) /\ Depth > 0 /\ fr.k = "switch" /\ FrameOK(ft, fr)
      BY TopFrame DEF Translating, Case, Inner
<1>2. ft' = x /\ frames' = SetFrame(fx)
      BY DEF Case
<1>n. n \in Nat /\ b = n + 1 /\ b + 1 = n + 2
      BY <1>1, BlockCount DEF Ready, Busy, NextBlockId
<1> HIDE DEF fr, b, l
<1>3. SwitchOK(ft, fr)
      BY <1>1 DEF FrameOK
<1>4. /\ Ready(x) /\ Grows(ft, x) /\ x.dead = FALSE
      /\ n + 1 \in Closed(x) /\ Takes(x, n + 2, {})
      BY <1>1, EnterCaseKeeps
<1> HIDE DEF x
<1>5. IsSwitch(fx) /\ fx.k = "switch" /\ fx.stage = "case" /\ fx.check = b /\ fx.ends = fr.ends
  <2>1. fx = [fr EXCEPT !.stage = "case", !.check = b, !.next = l]
        OBVIOUS
  <2>2. IsSwitch(fr)
        BY <1>3 DEF SwitchOK
  <2> HIDE DEF fx
  <2>3. fx = [k |-> fr.k, stage |-> "case", merge |-> fr.merge, sel |-> fr.sel,
              check |-> b, next |-> l, ends |-> fr.ends]
        BY <2>1, <2>2 DEF IsSwitch
  <2> QED BY <1>1, <2>3 DEF IsSwitch
<1> HIDE DEF fx
<1>6. SwitchOK(x, fx)
  <2>1. fr.ends \subseteq Closed(x)
        BY <1>1, <1>3, <1>4, GrowsOn DEF SwitchOK, Ready, Busy
  <2>2. fx.check \in Closed(x) /\ Takes(x, fx.check + 1, {})
        BY <1>4, <1>5, <1>n
  <2> QED BY <1>5, <2>1, <2>2 DEF SwitchOK
<1>7. FrameOK(ft', fx)
      BY <1>2, <1>5, <1>6 DEF FrameOK
<1>8. Ready(ft') /\ Grows(ft, ft') /\ ft'.dead = FALSE
      BY <1>2, <1>4
<1> QED BY <1>1, <1>2, <1>7, <1>8, LiveStep

\* The end of a case.
LEMMA EndCaseStep == ASSUME Translating, EndCase PROVE Translating'
<1> DEFINE fr == Frame
           n == Len(ft.blocks)
           E == IF ft.dead THEN fr.ends ELSE fr.ends \cup {n + 1}
           x == LeaveCase(ft, fr)
           fx == [fr EXCEPT !.stage = "checks", !.ends = E]
<1>1. Ready(ft) /\ Depth > 0 /\ fr.k = "switch" /\ FrameOK(ft, fr) /\ fr.stage = "case"
      BY TopFrame DEF Translating, EndCase, Inner
<1>2. ft' = x /\ frames' = SetFrame(fx)
      BY DEF EndCase, NextBlockId
<1> HIDE DEF fr
<1>3. SwitchOK(ft, fr)
      BY <1>1 DEF FrameOK
<1>4. Ready(x) /\ Grows(ft, x) /\ x.dead = FALSE /\ n + 1 \in Closed(x)
      BY <1>1, <1>3, LeaveCaseKeeps
<1> HIDE DEF x
<1>e. E \subseteq fr.ends \cup {n + 1}
      OBVIOUS
<1> HIDE DEF E
<1>5. IsSwitch(fx) /\ fx.k = "switch" /\ fx.stage = "checks" /\ fx.ends = E
  <2>1. fx = [fr EXCEPT !.stage = "checks", !.ends = E]
        OBVIOUS
  <2>2. IsSwitch(fr)
        BY <1>3 DEF SwitchOK
  <2> HIDE DEF fx
  <2>3. fx = [k |-> fr.k, stage |-> "checks", merge |-> fr.merge, sel |-> fr.sel,
              check |-> fr.check, next |-> fr.next, ends |-> E]
        BY <2>1, <2>2 DEF IsSwitch
  <2> QED BY <1>1, <2>3 DEF IsSwitch
<1> HIDE DEF fx
<1>6. SwitchOK(x, fx)
  <2>1. fr.ends \subseteq Closed(x)
        BY <1>1, <1>3, <1>4, GrowsOn DEF SwitchOK, Ready, Busy
  <2>2. fx.ends \subseteq Closed(x)
        BY <1>4, <1>5, <1>e, <2>1
  <2> QED BY <1>5, <2>2 DEF SwitchOK
<1>7. FrameOK(ft', fx)
      BY <1>2, <1>5, <1>6 DEF FrameOK
<1>8. Ready(ft') /\ Grows(ft, ft') /\ ft'.dead = FALSE
      BY <1>2, <1>4
<1> QED BY <1>1, <1>2, <1>7, <1>8, LiveStep

\* The default body starts in the last comparison block.
LEMMA DefaultStep == ASSUME Translating, Default PROVE Translating'
<1> DEFINE fr == Frame
           fx == [fr EXCEPT !.stage = "default"]
<1>1. Ready(ft) /\ Depth > 0 /\ fr.k = "switch" /\ FrameOK(ft, fr) /\ fr.stage = "checks"
      /\ fr = frames[Len(frames)]
      BY TopFrame DEF Translating, Default, Inner
<1>2. ft' = ft /\ frames' = SetFrame(fx)
      BY DEF Default
<1> HIDE DEF fr
<1>3. SwitchOK(ft, fr)
      BY <1>1 DEF FrameOK
<1>4. ~ft.dead /\ ft.dead \in BOOLEAN
      BY <1>1 DEF Translating, DeadTop, MayBeDead, Depth, Ready, Busy, Fields
<1>5. IsSwitch(fx) /\ fx.k = "switch" /\ fx.stage = "default" /\ fx.ends = fr.ends
  <2>1. fx = [fr EXCEPT !.stage = "default"]
        OBVIOUS
  <2>2. IsSwitch(fr)
        BY <1>3 DEF SwitchOK
  <2> HIDE DEF fx
  <2>3. fx = [k |-> fr.k, stage |-> "default", merge |-> fr.merge, sel |-> fr.sel,
              check |-> fr.check, next |-> fr.next, ends |-> fr.ends]
        BY <2>1, <2>2 DEF IsSwitch
  <2> QED BY <1>1, <2>3 DEF IsSwitch
<1> HIDE DEF fx
<1>6. SwitchOK(ft, fx)
      BY <1>3, <1>5 DEF SwitchOK
<1>7. FrameOK(ft', fx)
      BY <1>2, <1>5, <1>6 DEF FrameOK
<1>8. Grows(ft, ft)
      BY <1>1, <1>4, SameKeeps DEF Ready, Busy, Fields
<1>9. Ready(ft') /\ Grows(ft, ft') /\ ft'.dead = FALSE
      BY <1>1, <1>2, <1>4, <1>8
<1> QED BY <1>1, <1>2, <1>7, <1>9, LiveStep

\* The merge block of a switch.
LEMMA EndSwitchStep == ASSUME Translating, EndSwitch PROVE Translating'
<1> DEFINE fr == Frame
<1>1. Ready(ft) /\ Depth > 0 /\ fr.k = "switch" /\ FrameOK(ft, fr) /\ frames' = Pop
      /\ ft' = LeaveSwitch(ft, fr)
      BY TopFrame DEF Translating, EndSwitch, Inner
<1> HIDE DEF fr
<1>2. SwitchOK(ft, fr)
      BY <1>1 DEF FrameOK
<1>3. Ready(ft') /\ Grows(ft, ft') /\ ft'.dead = FALSE
      BY <1>1, <1>2, LeaveSwitchKeeps
<1> QED BY <1>1, <1>3, LiveStep

\* inline_call up to the callee's body.
LEMMA CallStep == ASSUME Translating, Call PROVE Translating'
<1> DEFINE fr == [k |-> "call", stage |-> "callee", saved |-> ft.inlineReturn]
           x == [ft EXCEPT !.inlineReturn = NoSSA]
<1>1. Ready(ft) /\ ft.dead = FALSE
      BY DEF Translating, Call, AtStatement, Ready, Busy, Fields
<1>2. ft' = x /\ frames' = Append(frames, fr)
      BY DEF Call
<1>3. fr.k = "call"
      OBVIOUS
<1> HIDE DEF fr
<1>4. Ready(x) /\ Grows(ft, x) /\ x.dead = ft.dead
      BY <1>1, HeadKeeps
<1> HIDE DEF x
<1>5. FrameOK(ft', fr)
      BY <1>3 DEF FrameOK
<1>6. Ready(ft') /\ Grows(ft, ft') /\ ft'.dead = FALSE
      BY <1>1, <1>2, <1>4
<1> QED BY <1>2, <1>5, <1>6, LiveStep

\* The caller goes on.
LEMMA EndCallStep == ASSUME Translating, EndCall PROVE Translating'
<1> DEFINE fr == Frame
<1>1. Ready(ft) /\ Depth > 0 /\ frames' = Pop /\ ft' = LeaveCall(ft, fr)
      BY DEF Translating, EndCall, Inner
<1> HIDE DEF fr
<1>2. Ready(ft') /\ Grows(ft, ft') /\ ft'.dead = FALSE
      BY <1>1, LeaveCallKeeps
<1> QED BY <1>1, <1>2, LiveStep

\* The loop a jump belongs to.
LEMMA JumpLoop ==
    ASSUME Translating, LoopFrames # {}
    PROVE  /\ LastLoop \in LoopFrames /\ LastLoop \in 1 .. Len(frames)
           /\ frames[LastLoop].k = "loop" /\ LoopOK(ft, frames[LastLoop])
<1>1. Len(frames) \in Nat
      BY AppendSequence DEF Translating, FramesOK
<1>2. LoopFrames \in SUBSET (1 .. Len(frames))
      BY DEF LoopFrames, OfFunction, Depth
<1>3. \E x \in LoopFrames : \A y \in LoopFrames : y <= x
      BY <1>1, <1>2, LargestNumber
<1>4. LastLoop \in LoopFrames
      BY <1>3 DEF LastLoop
<1>5. LastLoop \in 1 .. Len(frames) /\ frames[LastLoop].k = "loop"
      BY <1>2, <1>4 DEF LoopFrames
<1>6. FrameOK(ft, frames[LastLoop])
      BY <1>5 DEF Translating, FramesOK
<1> QED BY <1>4, <1>5, <1>6 DEF FrameOK

\* Where a jump may stand, the code after it may be dead.
LEMMA JumpPlace ==
    ASSUME Translating, AtStatement, MayJump, Depth > 0
    PROVE  MayBeDead(Frame)
<1>1. Depth \in 1 .. Depth /\ \A m \in Depth .. Depth : m = Depth
  <2>1. Depth \in Nat
        BY TopFrame
  <2> QED BY <2>1
<1>2. Frame.k = "loop" => Depth \in LoopFrames
      BY <1>1 DEF LoopFrames, OfFunction, Frame
<1>3. Depth \in LoopFrames => LastLoop = Depth
  <2>1. SUFFICES ASSUME Depth \in LoopFrames PROVE LastLoop = Depth
        OBVIOUS
  <2>2. Depth \in Nat /\ LastLoop \in 1 .. Depth
        BY <2>1, TopFrame, JumpLoop DEF Depth
  <2>3. \A m \in LoopFrames : m <= Depth
        BY DEF LoopFrames, OfFunction
  <2>4. \E n \in LoopFrames : \A m \in LoopFrames : m <= n
        BY <2>1, <2>3
  <2>5. Depth <= LastLoop
        BY <2>1, <2>4 DEF LastLoop
  <2> QED BY <2>2, <2>5
<1>4. Frame.k = "loop" => Frame.stage = "body"
      BY <1>2, <1>3 DEF MayJump, Frame
<1> QED BY <1>4 DEF AtStatement, MayBeDead

\* A return stands where a jump out of the loop may stand.
LEMMA ReturnJumps == ASSUME Translating, MayReturn PROVE MayJump
BY JumpLoop DEF MayReturn, MayJump

\* A step that leaves dead code behind, with at most one frame changed.
LEMMA JumpFrames ==
    ASSUME Translating, AtStatement, MayJump, Ready(ft'), Grows(ft, ft'),
           NEW n \in 1 .. Len(frames), NEW fr, FrameOK(ft', fr),
           fr.k = frames[n].k, fr.stage = frames[n].stage, frames' = Changed(frames, n, fr)
    PROVE  Translating'
<1>1. Fields(ft) /\ Fields(ft') /\ FramesOK(ft, frames)
      BY DEF Translating, Ready, Busy
<1> DEFINE t == Changed(frames, n, fr)
<1>2. /\ FramesOK(ft', t) /\ Len(t) = Len(frames) /\ t[n] = fr
      /\ \A k \in 1 .. Len(frames) : k # n => t[k] = frames[k]
      BY <1>1, FrameChanged
<1>3. frames' = t
      OBVIOUS
<1> HIDE DEF t
<1>4. Len(frames) \in Nat /\ Len(frames) \in 1 .. Len(frames) /\ Depth > 0
  <2>1. Len(frames) \in Nat
        BY AppendSequence DEF Translating, FramesOK
  <2> QED BY <2>1 DEF Depth
<1>5. MayBeDead(frames[Len(frames)])
      BY <1>4, JumpPlace DEF Frame, Depth
<1>6. MayBeDead(t[Len(frames)])
  <2>1. CASE n = Len(frames)
        BY <1>2, <1>5, <2>1 DEF MayBeDead
  <2>2. CASE n # Len(frames)
        BY <1>2, <1>4, <1>5, <2>2
  <2> QED BY <2>1, <2>2
<1>7. DeadTop(ft', t)
      BY <1>2, <1>6 DEF DeadTop
<1> QED BY <1>2, <1>3, <1>7 DEF Translating

\* Statement::Break.
LEMMA BreakStep == ASSUME Translating, Break PROVE Translating'
<1> DEFINE L == LastLoop
           fr == frames[L]
           b == Len(ft.blocks) + 1
           B == fr.breaks \cup {b}
           fx == [fr EXCEPT !.breaks = B]
           p == fr.exitPhi
           l == fr.exitLabel
           x == JumpOut(ft, p, l)
<1>1. Ready(ft) /\ ~ft.dead /\ AtStatement /\ MayJump
      BY DEF Translating, Break, AtStatement
<1>2. L \in 1 .. Len(frames) /\ fr.k = "loop" /\ LoopOK(ft, fr)
      BY JumpLoop DEF Break
<1>3. ft' = x
      BY DEF Break
<1>4. frames' = Changed(frames, L, fx)
  <2>1. frames' = [frames EXCEPT ![L].breaks = @ \cup {b}]
        BY DEF Break, NextBlockId
  <2> QED BY <2>1 DEF Changed
<1> HIDE DEF L, fr, p, l
<1>5. Ready(x) /\ Grows(ft, x) /\ Feeds(x, b, p)
      BY <1>1, JumpKeeps
<1> HIDE DEF x, b
<1>6. /\ IsLoop(fx) /\ fx.k = fr.k /\ fx.stage = fr.stage /\ fx.header = fr.header
      /\ fx.headerPhi = fr.headerPhi /\ fx.exitPhi = fr.exitPhi /\ fx.contPhi = fr.contPhi
      /\ fx.breaks = B /\ fx.continues = fr.continues /\ fx.cont = fr.cont
  <2>1. fx = [fr EXCEPT !.breaks = B]
        OBVIOUS
  <2>2. IsLoop(fr)
        BY <1>2 DEF LoopOK
  <2> HIDE DEF fx, B
  <2>3. fx = [k |-> fr.k, stage |-> fr.stage, headerLabel |-> fr.headerLabel,
              contLabel |-> fr.contLabel, exitLabel |-> fr.exitLabel, headerPhi |-> fr.headerPhi,
              exitPhi |-> fr.exitPhi, contPhi |-> fr.contPhi, header |-> fr.header,
              cont |-> fr.cont, bodyDead |-> fr.bodyDead, breaks |-> B,
              continues |-> fr.continues]
        BY <2>1, <2>2 DEF IsLoop
  <2> QED BY <2>3 DEF IsLoop
<1> HIDE DEF fx
<1>7. LoopOK(x, fx)
  <2>0. Fields(ft) /\ Fields(x)
        BY <1>1, <1>5 DEF Ready, Busy
  <2>1. /\ Takes(x, fr.header, {fr.headerPhi})
        /\ \A c \in fr.breaks : Feeds(x, c, fr.exitPhi)
        /\ \A c \in fr.continues : Feeds(x, c, fr.contPhi)
        /\ fr.stage = "cont" => Takes(x, fr.cont, {fr.contPhi})
        /\ fr.stage \in {"body", "cont"}
        BY <1>2, <1>5, <2>0, FrameGrows DEF LoopOK
  <2>2. \A c \in fx.breaks : Feeds(x, c, fx.exitPhi)
        BY <1>5, <1>6, <2>1 DEF p
  <2> QED BY <1>6, <2>1, <2>2 DEF LoopOK
<1>8. FrameOK(ft', fx)
      BY <1>2, <1>3, <1>6, <1>7 DEF FrameOK
<1>9. Ready(ft') /\ Grows(ft, ft')
      BY <1>3, <1>5
<1>10. fx.k = frames[L].k /\ fx.stage = frames[L].stage
      BY <1>6 DEF fr
<1> QED BY <1>1, <1>2, <1>4, <1>8, <1>9, <1>10, JumpFrames

\* Statement::Continue.
LEMMA ContinueStep == ASSUME Translating, Continue PROVE Translating'
<1> DEFINE L == LastLoop
           fr == frames[L]
           b == Len(ft.blocks) + 1
           C == fr.continues \cup {b}
           fx == [fr EXCEPT !.continues = C]
           p == fr.contPhi
           l == fr.contLabel
           x == JumpOut(ft, p, l)
<1>1. Ready(ft) /\ ~ft.dead /\ AtStatement /\ MayJump
      BY DEF Translating, Continue, AtStatement
<1>2. L \in 1 .. Len(frames) /\ fr.k = "loop" /\ LoopOK(ft, fr)
      BY JumpLoop DEF Continue
<1>3. ft' = x
      BY DEF Continue
<1>4. frames' = Changed(frames, L, fx)
  <2>1. frames' = [frames EXCEPT ![L].continues = @ \cup {b}]
        BY DEF Continue, NextBlockId
  <2> QED BY <2>1 DEF Changed
<1> HIDE DEF L, fr, p, l
<1>5. Ready(x) /\ Grows(ft, x) /\ Feeds(x, b, p)
      BY <1>1, JumpKeeps
<1> HIDE DEF x, b
<1>6. /\ IsLoop(fx) /\ fx.k = fr.k /\ fx.stage = fr.stage /\ fx.header = fr.header
      /\ fx.headerPhi = fr.headerPhi /\ fx.exitPhi = fr.exitPhi /\ fx.contPhi = fr.contPhi
      /\ fx.breaks = fr.breaks /\ fx.continues = C /\ fx.cont = fr.cont
  <2>1. fx = [fr EXCEPT !.continues = C]
        OBVIOUS
  <2>2. IsLoop(fr)
        BY <1>2 DEF LoopOK
  <2> HIDE DEF fx, C
  <2>3. fx = [k |-> fr.k, stage |-> fr.stage, headerLabel |-> fr.headerLabel,
              contLabel |-> fr.contLabel, exitLabel |-> fr.exitLabel, headerPhi |-> fr.headerPhi,
              exitPhi |-> fr.exitPhi, contPhi |-> fr.contPhi, header |-> fr.header,
              cont |-> fr.cont, bodyDead |-> fr.bodyDead, breaks |-> fr.breaks,
              continues |-> C]
        BY <2>1, <2>2 DEF IsLoop
  <2> QED BY <2>3 DEF IsLoop
<1> HIDE DEF fx
<1>7. LoopOK(x, fx)
  <2>0. Fields(ft) /\ Fields(x)
        BY <1>1, <1>5 DEF Ready, Busy
  <2>1. /\ Takes(x, fr.header, {fr.headerPhi})
        /\ \A c \in fr.breaks : Feeds(x, c, fr.exitPhi)
        /\ \A c \in fr.continues : Feeds(x, c, fr.contPhi)
        /\ fr.stage = "cont" => Takes(x, fr.cont, {fr.contPhi})
        /\ fr.stage \in {"body", "cont"}
        BY <1>2, <1>5, <2>0, FrameGrows DEF LoopOK
  <2>2. \A c \in fx.continues : Feeds(x, c, fx.contPhi)
        BY <1>5, <1>6, <2>1 DEF p
  <2> QED BY <1>6, <2>1, <2>2 DEF LoopOK
<1>8. FrameOK(ft', fx)
      BY <1>2, <1>3, <1>6, <1>7 DEF FrameOK
<1>9. Ready(ft') /\ Grows(ft, ft')
      BY <1>3, <1>5
<1>10. fx.k = frames[L].k /\ fx.stage = frames[L].stage
      BY <1>6 DEF fr
<1> QED BY <1>1, <1>2, <1>4, <1>8, <1>9, <1>10, JumpFrames

\* Statement::Return.
LEMMA ReturnStep == ASSUME Translating, Return PROVE Translating'
<1> DEFINE x == ReturnTo(ft, Inlining)
<1>1. Ready(ft) /\ AtStatement /\ MayJump
      BY ReturnJumps DEF Translating, Return
<1>2. ft' = x /\ frames' = frames
      BY DEF Return
<1>3. Inlining \in BOOLEAN
      BY DEF Inlining
<1>4. Ready(x) /\ Grows(ft, x)
      BY <1>1, <1>3, ReturnKeeps
<1> HIDE DEF x
<1>5. FramesOK(x, frames)
      BY <1>1, <1>4, FramesKept DEF Translating, Ready, Busy
<1>6. DeadTop(x, frames)
      BY <1>1, JumpPlace DEF DeadTop, Frame, Depth
<1> QED BY <1>2, <1>4, <1>5, <1>6 DEF Translating

\* Every statement keeps the invariant of the translation.
LEMMA TranslateStep == ASSUME Translating, TranslateStatement PROVE Translating'
BY StoreStep, BreakStep, ContinueStep, ReturnStep, IfStep, ElseStep, EndIfStep, LoopStep,
   ContinuingStep, EndLoopStep, SwitchStep, CaseStep, EndCaseStep, DefaultStep, EndSwitchStep,
   CallStep, EndCallStep DEF TranslateStatement

\* The finished function: all its edges join blocks that are closed.
LEMMA FunctionEnd ==
    ASSUME NEW f, Ready(f), NEW g, g = EndFunction(f), NEW e \in g.edges
    PROVE  /\ Single(g.blocks[e[2]].instrs, "phidsts") /\ Single(g.blocks[e[1]].instrs, "phisrcs")
           /\ DstPhis(g.blocks[e[2]].instrs) \subseteq SrcPhis(g.blocks[e[1]].instrs)
<1> DEFINE i == Exit(f.vs)
           k == Push(f, i)
<1>1. i.op = "exit"
      BY DEF Exit
<1> HIDE DEF i
<1>2. Busy(k)
      BY <1>1, PushKeeps DEF Ready
<1>3. g = Close(k, Len(k.blocks) + 1)
      BY DEF EndFunction, FinishBlock, NextBlockId, i
<1> HIDE DEF k
<1>4. Ready(g) /\ \A d \in g.edges : d[2] \in Closed(g)
      BY <1>2, <1>3, CloseKeeps
<1>5. e[2] \in Closed(g) /\ Complete(g, e) /\ \A b \in Closed(g) : Simple(g.blocks[b].instrs)
      BY <1>4 DEF Ready, Busy, EdgesComplete, Fields
<1> QED BY <1>5 DEF Complete, CodeAt, Simple

\* Finish: the phis of the finished function are complete.
LEMMA FinishStep == ASSUME Translating, Finish PROVE PhisComplete'
<1> DEFINE g == ft'
<1>1. Ready(ft) /\ g = EndFunction(ft)
      BY DEF Translating, Finish
<1>2. \A b, op : PhiOf(b, op)' = LookUp(g.blocks[b].instrs, op)
      BY DEF PhiOf, Code, Instrs, LookUp
<1> HIDE DEF g
<1>3. ASSUME NEW b, NEW op, Single(g.blocks[b].instrs, op)
      PROVE  DOMAIN PhiOf(b, op)' = PhisAt(g.blocks[b].instrs, op)
      BY <1>2, <1>3, PhiLookup
<1>4. ASSUME NEW e \in g.edges
      PROVE  DOMAIN PhiOf(e[2], "phidsts")' \subseteq DOMAIN PhiOf(e[1], "phisrcs")'
  <2>1. /\ Single(g.blocks[e[2]].instrs, "phidsts") /\ Single(g.blocks[e[1]].instrs, "phisrcs")
        /\ DstPhis(g.blocks[e[2]].instrs) \subseteq SrcPhis(g.blocks[e[1]].instrs)
        BY <1>1, FunctionEnd
  <2>2. /\ DOMAIN PhiOf(e[2], "phidsts")' = DstPhis(g.blocks[e[2]].instrs)
        /\ DOMAIN PhiOf(e[1], "phisrcs")' = SrcPhis(g.blocks[e[1]].instrs)
        BY <1>3, <2>1 DEF DstPhis, SrcPhis
  <2> QED BY <2>1, <2>2
<1> QED BY <1>4 DEF PhisComplete, g

\* The translator starts with an entry block that defines the variable.
LEMMA InitTranslating == Init => Inv
<1> SUFFICES ASSUME Init PROVE Inv
    OBVIOUS
<1> DEFINE t == Translator
           i == Def(1, 0)
<1>1. /\ t.blocks = <<>> /\ t.edges = {} /\ t.instrs = <<>> /\ t.block = NoBlock
      /\ t.dead = FALSE /\ IsTranslator(t)
      BY DEF Translator, IsTranslator
<1>2. i.op = "def"
      BY DEF Def
<1>3. ft = Push(t, i) /\ frames = <<>> /\ phase = "translate"
      BY DEF Init, NewTranslator
<1> HIDE DEF t, i
<1>4. Ready(t)
  <2> DEFINE s == <<>>
  <2>0. Sequence(s) /\ Len(s) = 0 /\ Simple(s) /\ Without(s, "phisrcs") /\ t.blocks = s /\ t.instrs = s
        BY <1>1, EmptySequence, EmptyBlock
  <2> HIDE DEF s
  <2>1. Closed(t) = {}
        BY <2>0 DEF Closed
  <2>2. Fields(t)
        BY <1>1, <2>0, <2>1 DEF Fields
  <2>3. EdgesComplete(t) /\ FallThrough(t)
        BY <1>1 DEF EdgesComplete, FallThrough
  <2> QED BY <2>0, <2>2, <2>3 DEF Ready, Busy
<1>5. Busy(ft) /\ Without(ft.instrs, "phisrcs")
      BY <1>2, <1>3, <1>4, PushKeeps DEF Ready
<1>6. FramesOK(ft, frames) /\ DeadTop(ft, frames)
      BY <1>3, EmptySequence DEF FramesOK, DeadTop
<1> QED BY <1>3, <1>5, <1>6 DEF Inv, Translating, Ready, PhisComplete, Done

\* A step of the whole specification.
LEMMA StepInv == Inv /\ [Next]_vars => Inv'
<1> SUFFICES ASSUME Inv, [Next]_vars PROVE Inv'
    OBVIOUS
<1>1. CASE Translate
  <2>1. Translating' /\ phase' = "translate"
        BY <1>1, TranslateStep DEF Translate, Inv
  <2> QED BY <2>1 DEF Inv, PhisComplete, Done
<1>2. CASE Finish
  <2>1. PhisComplete' /\ phase' = "translated"
        BY <1>2, FinishStep DEF Finish, Inv
  <2> QED BY <2>1 DEF Inv
<1>3. CASE Start
  <2>1. phase' = "run"
        BY <1>3 DEF Start
  <2> QED BY <2>1 DEF Inv, PhisComplete, Done
<1>4. CASE SrcStep \/ MachStep
  <2>1. phase' = "run"
        BY <1>4 DEF SrcStep, MachStep
  <2> QED BY <2>1 DEF Inv, PhisComplete, Done
<1>5. CASE Both
  <2>1. phase' \in {"run", "stopped"}
        BY <1>5 DEF Both, AtEvent
  <2> QED BY <2>1 DEF Inv, PhisComplete, Done
<1>6. CASE UNCHANGED vars
  <2>1. ft' = ft /\ frames' = frames /\ phase' = phase
        BY <1>6 DEF vars
  <2>2. Translating' = Translating
        BY <2>1 DEF Translating
  <2>3. PhisComplete' = PhisComplete
        BY <2>1 DEF PhisComplete, Done, PhiOf, Code, Instrs
  <2> QED BY <2>1, <2>2, <2>3 DEF Inv
<1> QED BY <1>1, <1>2, <1>3, <1>4, <1>5, <1>6 DEF Next, Stopped

\* Every predecessor of a block with phi destinations has a source for each
\* of them, whatever the program: no later pass finds phi_srcs missing.
THEOREM PhisCompleteHolds == Spec => []PhisComplete
<1>1. Inv => PhisComplete
      BY DEF Inv
<1> QED BY <1>1, InitTranslating, StepInv, PTL DEF Spec
=============================================================================
