---------------------------- MODULE FuncControl ----------------------------
(***************************************************************************)
(* The control-flow half of the naga front end: FuncTranslator turns the   *)
(* structured statements of a naga function into basic blocks, CFG edges,  *)
(* labels and branches, and keeps every register-promoted local variable   *)
(* in SSA form with PhiSrcs / PhiDsts.                                     *)
(*   naga_translate/func.rs          block management, statement dispatch  *)
(*   naga_translate/func_control.rs  if, loop, switch                      *)
(*   naga_translate/func_ops.rs      inlining of calls                     *)
(*                                                                         *)
(* The program is an input: it arrives as a sequence of tokens, one per    *)
(* statement, plus one for each point at which the recursive translator    *)
(* comes back to a compound statement (the end of an arm, of a body, of a  *)
(* case).  The recursion of translate_block is the explicit stack          *)
(* "frames"; a frame holds the locals of the Rust function that is         *)
(* suspended there, a loop frame also its LoopContext.                     *)
(*                                                                         *)
(* Data: one promoted variable with one component (the code treats slots   *)
(* and components one by one and alike).  Conditions and selectors are     *)
(* opaque but read the variable, a store writes a value that names it, and *)
(* a return passes on the variable's value.                                *)
(***************************************************************************)
EXTENDS Naturals, Sequences, FiniteSets, SequencesExt, TLC

CONSTANTS
    MaxTokens,   \* bound: tokens of a program, closing ones included
    MaxDepth,    \* bound: nesting of compound statements
    MaxStores,   \* bound: stores of a program
    Kinds,       \* statements the programs of this instance are made of
    Forms        \* the forms of them that need care, see InForm

AllKinds == {"store", "if", "ifelse", "loop", "switch", "call",
             "break", "continue", "return"}
AllForms == {"update in switch", "break in switch", "fall through in switch",
             "nested return in call"}

ASSUME BoundsAssumption == MaxTokens \in Nat /\ MaxDepth \in Nat /\ MaxStores \in Nat
ASSUME InputAssumption == Kinds \subseteq AllKinds /\ Forms \subseteq AllForms

VARIABLES
    prog,     \* the tokens translated so far
    ft,       \* FuncTranslator: the fields the control flow uses
    frames    \* the suspended translate_* calls, outermost first

----------------------------------------------------------------------------
(* Instructions.  A condition carries the SSA value it reads.  NoSSA marks *)
(* an unconditional branch and the exits of unreachable code.              *)
NoSSA == 0

PhiSrcs(m) == [op |-> "phisrcs", m |-> m]
PhiDsts(m) == [op |-> "phidsts", m |-> m]
Bra(l) == [op |-> "bra", target |-> l, ssa |-> NoSSA, neg |-> FALSE]
BraIf(l, s) == [op |-> "bra", target |-> l, ssa |-> s, neg |-> FALSE]
BraIfNot(l, s) == [op |-> "bra", target |-> l, ssa |-> s, neg |-> TRUE]
Exit(s) == [op |-> "exit", ssa |-> s]
Def(s, v) == [op |-> "def", ssa |-> s, val |-> v]
Read(s) == [op |-> "read", ssa |-> s]

PhiMap(p, s) == [q \in {p} |-> s]

----------------------------------------------------------------------------
(* Block management.  Block ids count from 1; 0 is current_block_id = None.*)
NoBlock == 0

NextBlockId(f) == Len(f.blocks) + 1

StartBlockAt(f, label) == [f EXCEPT !.label = label, !.instrs = <<>>]

StartBlock(f) == [StartBlockAt(f, f.nlabel) EXCEPT !.nlabel = @ + 1]

AddEdge(f, from, to) == [f EXCEPT !.edges = @ \cup {<<from, to>>}]

Push(f, instr) == IF f.dead THEN f ELSE [f EXCEPT !.instrs = Append(@, instr)]

\* The block is added, gets its edge from current_block_id, and becomes
\* current_block_id or leaves it empty.
Close(f, current) ==
    LET id == NextBlockId(f)
    IN  [f EXCEPT !.blocks = Append(@, [label |-> f.label, instrs |-> f.instrs]),
                  !.instrs = <<>>,
                  !.edges = @ \cup {<<p, id>> : p \in {f.block} \ {NoBlock}},
                  !.block = current]

FinishBlock(f) == Close(f, NextBlockId(f))

FinishBlockNoFallthrough(f) == Close(f, NoBlock)

Alive(f) == [f EXCEPT !.dead = FALSE]

\* start_block and the OpExit put into it past push_instr, which would drop
\* it: what follows a jump is unreachable.
StartDeadBlock(f) ==
    [StartBlock(f) EXCEPT !.instrs = <<Exit(NoSSA)>>, !.dead = TRUE]

\* PhiDsts of a merge: a fresh SSA value that becomes the variable's.
PushPhiDst(f, p) ==
    Push([f EXCEPT !.vs = f.nssa, !.nssa = @ + 1], PhiDsts(PhiMap(p, f.nssa)))

Translator ==
    [blocks |-> <<>>, edges |-> {}, instrs |-> <<>>, label |-> 1,
     block |-> NoBlock, dead |-> FALSE, vs |-> 1, inlineReturn |-> NoSSA,
     nssa |-> 2, nphi |-> 1, nlabel |-> 2]

\* translate_function: start_block, then pre_allocate_local_vars zeroes the
\* variable.
NewTranslator == Push(Translator, Def(1, 0))

----------------------------------------------------------------------------
(* Where the next token stands.                                            *)
Depth == Len(frames)
Frame == frames[Depth]
Inner(k) == Depth > 0 /\ Frame.k = k

Pop == SubSeq(frames, 1, Depth - 1)
SetFrame(fr) == [frames EXCEPT ![Depth] = fr]

\* Indices of the frames of the function being translated: those above the
\* innermost inlined call.
OfFunction == {n \in 1..Depth : \A m \in n..Depth : frames[m].k # "call"}

Inlining == \E n \in 1..Depth : frames[n].k = "call"

LoopFrames == {n \in OfFunction : frames[n].k = "loop"}
LastLoop == CHOOSE n \in LoopFrames : \A m \in LoopFrames : m <= n

\* A statement may stand here: in a block, not between two cases, and not
\* where translate_statement returns at once because the code is dead.
AtStatement ==
    /\ ~ft.dead
    /\ Depth > 0 => Frame.k # "switch" \/ Frame.stage \in {"case", "default"}

\* naga's rules for jumps: a break or continue leaves no continuing block,
\* but may stand in the body of a loop nested in one; a return may not even
\* there.  A break of a switch inside a continuing block is left out.
MayJump == LoopFrames # {} => frames[LastLoop].stage = "body"
MayReturn == \A n \in LoopFrames : frames[n].stage = "body"

\* Room for n more tokens and for closing every open construct: an if with
\* else still owes two tokens in its accept arm, a loop before its
\* continuing block, a switch before its default.
Owed(fr) == IF fr.stage \in {"accept of two", "body", "checks"} THEN 2
            ELSE IF fr.stage = "case" THEN 3 ELSE 1
Room(n) == Len(prog) + n + FoldSeq(LAMBDA fr, s : s + Owed(fr), 0, frames) <= MaxTokens

\* A token is recorded with the nesting it stands at.
Token(t) == prog' = Append(prog, t @@ [level |-> Depth])

Stores == Cardinality({n \in 1..Len(prog) : prog[n].k = "store"})

\* The forms a program takes only when Forms names them.  A store, an if
\* and a loop give the variable a new SSA value.
InSwitch == \E n \in 1..Depth : frames[n].k = "switch"
InForm(form, condition) == condition => form \in Forms

\* naga's Break leaves the innermost loop or switch.
Breakable == {n \in OfFunction : frames[n].k \in {"loop", "switch"}}
BreakTarget == CHOOSE n \in Breakable : \A m \in Breakable : m <= n

----------------------------------------------------------------------------
(* Statements without a body.                                              *)

\* Statement::Store to a promoted variable: the slot now names the value.
Store ==
    /\ "store" \in Kinds /\ AtStatement /\ Room(1) /\ Stores < MaxStores
    /\ InForm("update in switch", InSwitch)
    /\ Token([k |-> "store"])
    /\ ft' = [Push(ft, Def(ft.nssa, Len(prog) + 1)) EXCEPT !.vs = ft.nssa, !.nssa = @ + 1]
    /\ UNCHANGED frames

\* The jump shared by Break and Continue: the phi sources for the target,
\* the branch, and a block nobody reaches after it.
JumpOut(f, phi, label) ==
    StartDeadBlock(FinishBlockNoFallthrough(
        Push(Push(f, PhiSrcs(PhiMap(phi, f.vs))), Bra(label))))

\* loop_stack.last() whatever lies between: a switch has no entry there.
Break ==
    /\ "break" \in Kinds /\ AtStatement /\ Room(1) /\ MayJump
    /\ LoopFrames # {}
    /\ InForm("break in switch", frames[BreakTarget].k = "switch")
    /\ Token([k |-> "break"])
    /\ frames' = [frames EXCEPT ![LastLoop].breaks = @ \cup {NextBlockId(ft)}]
    /\ ft' = JumpOut(ft, frames[LastLoop].exitPhi, frames[LastLoop].exitLabel)

Continue ==
    /\ "continue" \in Kinds /\ AtStatement /\ Room(1) /\ MayJump
    /\ LoopFrames # {}
    /\ Token([k |-> "continue"])
    /\ frames' = [frames EXCEPT ![LastLoop].continues = @ \cup {NextBlockId(ft)}]
    /\ ft' = JumpOut(ft, frames[LastLoop].contPhi, frames[LastLoop].contLabel)

\* At top level the block is left through OpExit; while a call is inlined
\* only dead_code and the returned value are set.
ReturnTo(f, inlining) ==
    IF inlining THEN [f EXCEPT !.inlineReturn = f.vs, !.dead = TRUE]
    ELSE StartDeadBlock(FinishBlockNoFallthrough(Push(f, Exit(f.vs))))

Return ==
    /\ "return" \in Kinds /\ AtStatement /\ Room(1) /\ MayReturn
    /\ InForm("nested return in call", Inlining /\ ~Inner("call"))
    /\ Token([k |-> "return"])
    /\ ft' = ReturnTo(ft, Inlining)
    /\ UNCHANGED frames

----------------------------------------------------------------------------
(* translate_if.                                                           *)

\* Up to the accept arm, reject arm empty: the condition block is itself a
\* predecessor of the merge block and carries phi sources for it.
IfNoElse(f) ==
    StartBlock(FinishBlockNoFallthrough(
        Push(Push([f EXCEPT !.nphi = @ + 1, !.nlabel = @ + 1],
                  PhiSrcs(PhiMap(f.nphi, f.vs))),
             BraIfNot(f.nlabel, f.vs))))

IfElse(f) ==
    StartBlock(FinishBlockNoFallthrough(
        Push([f EXCEPT !.nphi = @ + 1, !.nlabel = @ + 2],
             BraIfNot(f.nlabel + 1, f.vs))))

IfFrame(f, stage) ==
    [k |-> "if", stage |-> stage, merge |-> f.nlabel, phi |-> f.nphi, pre |-> f.vs,
     cond |-> NextBlockId(f), start |-> NextBlockId(f) + 1,
     acceptEnd |-> NoBlock, acceptDead |-> FALSE, acceptVs |-> NoSSA]

If ==
    /\ AtStatement /\ Depth < MaxDepth /\ InForm("update in switch", InSwitch)
    /\ \/ /\ "if" \in Kinds /\ Room(2)
          /\ Token([k |-> "if", else |-> FALSE])
          /\ frames' = Append(frames, IfFrame(ft, "accept"))
          /\ ft' = IfNoElse(ft)
       \/ /\ "ifelse" \in Kinds /\ Room(3)
          /\ Token([k |-> "if", else |-> TRUE])
          /\ frames' = Append(frames, IfFrame(ft, "accept of two"))
          /\ ft' = IfElse(ft)

\* An arm that is not dead hands its value to the merge block and branches
\* there; the block is closed either way.
EndArm(f, fr) ==
    FinishBlockNoFallthrough(
        Push(Push(f, PhiSrcs(PhiMap(fr.phi, f.vs))), Bra(fr.merge)))

\* The end of the accept arm when there is a reject arm.
Else ==
    /\ Inner("if") /\ Frame.stage = "accept of two"
    /\ Token([k |-> "else"])
    /\ LET f == AddEdge(EndArm(ft, Frame), Frame.cond, Frame.start)
       IN  /\ ft' = [StartBlockAt(f, Frame.merge + 1) EXCEPT !.vs = Frame.pre, !.dead = FALSE]
           /\ frames' = SetFrame([Frame EXCEPT !.stage = "reject",
                                   !.start = NextBlockId(f), !.acceptEnd = NextBlockId(ft),
                                   !.acceptDead = ft.dead, !.acceptVs = ft.vs])

\* The merge block, reject arm empty.
MergeNoElse(f, fr) ==
    LET g == StartBlockAt(AddEdge(EndArm(f, fr), fr.cond, fr.start), fr.merge)
        m == NextBlockId(g)
        h == AddEdge(g, fr.cond, m)
    IN  IF f.dead THEN Alive([h EXCEPT !.vs = fr.pre])
        ELSE PushPhiDst(AddEdge(h, NextBlockId(f), m), fr.phi)

\* Mutant: when only the accept arm reaches the merge block, its value of
\* the variable is not taken back.
MergeElse_KeepReject(f, fr) ==
    LET g == StartBlockAt(AddEdge(EndArm(f, fr), fr.cond, fr.start), fr.merge)
        m == NextBlockId(g)
        ends == (IF fr.acceptDead THEN {} ELSE {fr.acceptEnd})
                \cup (IF f.dead THEN {} ELSE {NextBlockId(f)})
        h == Alive([g EXCEPT !.edges = @ \cup {<<e, m>> : e \in ends}])
    IN  CASE fr.acceptDead /\ f.dead -> [h EXCEPT !.vs = fr.pre]
          [] fr.acceptDead # f.dead -> h
          [] OTHER -> PushPhiDst(h, fr.phi)

\* The merge block of two arms.  Only the arms that are not dead reach it;
\* phis are needed when both do.
MergeElse(f, fr) ==
    LET g == StartBlockAt(AddEdge(EndArm(f, fr), fr.cond, fr.start), fr.merge)
        m == NextBlockId(g)
        ends == (IF fr.acceptDead THEN {} ELSE {fr.acceptEnd})
                \cup (IF f.dead THEN {} ELSE {NextBlockId(f)})
        h == Alive([g EXCEPT !.edges = @ \cup {<<e, m>> : e \in ends}])
    IN  CASE fr.acceptDead /\ f.dead -> [h EXCEPT !.vs = fr.pre]
          [] fr.acceptDead /\ ~f.dead -> h
          [] ~fr.acceptDead /\ f.dead -> [h EXCEPT !.vs = fr.acceptVs]
          [] OTHER -> PushPhiDst(h, fr.phi)

EndIf ==
    /\ Inner("if") /\ Frame.stage \in {"accept", "reject"}
    /\ Token([k |-> "endif"])
    /\ frames' = Pop
    /\ ft' = IF Frame.stage = "accept" THEN MergeNoElse(ft, Frame)
             ELSE MergeElse(ft, Frame)

----------------------------------------------------------------------------
(* translate_loop.  Labels: header, continue, exit.  Phis: the header's,   *)
(* the exit's and the continuing block's.                                  *)
LoopFrame(f) ==
    [k |-> "loop", stage |-> "body",
     headerLabel |-> f.nlabel, contLabel |-> f.nlabel + 1, exitLabel |-> f.nlabel + 2,
     headerPhi |-> f.nphi, exitPhi |-> f.nphi + 1, contPhi |-> f.nphi + 2,
     header |-> NextBlockId(f) + 1, cont |-> NoBlock, bodyDead |-> FALSE,
     breaks |-> {}, continues |-> {}]

\* The block before the loop feeds the header's phi and falls into it.
EnterLoop(f, fr) ==
    LET pre == FinishBlockNoFallthrough(
                   Push([f EXCEPT !.nlabel = @ + 3, !.nphi = @ + 3],
                        PhiSrcs(PhiMap(fr.headerPhi, f.vs))))
    IN  PushPhiDst(AddEdge(StartBlockAt(pre, fr.headerLabel),
                           NextBlockId(f), fr.header), fr.headerPhi)

Loop ==
    /\ "loop" \in Kinds /\ AtStatement /\ Depth < MaxDepth /\ Room(3)
    /\ InForm("update in switch", InSwitch)
    /\ Token([k |-> "loop"])
    /\ frames' = Append(frames, LoopFrame(ft))
    /\ ft' = EnterLoop(ft, LoopFrame(ft))

\* The end of the body: the continuing block starts, with the phi that
\* merges the end of the body and every Continue.
EnterContinuing(f, fr) ==
    LET g == StartBlockAt(
                 FinishBlockNoFallthrough(
                     Push(Push(f, PhiSrcs(PhiMap(fr.contPhi, f.vs))), Bra(fr.contLabel))),
                 fr.contLabel)
        h == IF f.dead THEN g ELSE AddEdge(g, NextBlockId(f), NextBlockId(g))
    IN  PushPhiDst(Alive(h), fr.contPhi)

Continuing ==
    /\ Inner("loop") /\ Frame.stage = "body"
    /\ Token([k |-> "continuing"])
    /\ frames' = SetFrame([Frame EXCEPT !.stage = "cont", !.bodyDead = ft.dead,
                                        !.cont = NextBlockId(ft) + 1])
    /\ ft' = EnterContinuing(ft, Frame)

\* Mutant: the latch has no phi sources for the loop's exit.
BackEdge_NoExitPhi(f, fr, breakIf) ==
    LET g == Push(f, PhiSrcs(PhiMap(fr.headerPhi, f.vs)))
        h == IF breakIf THEN Push(g, BraIf(fr.exitLabel, f.vs)) ELSE g
    IN  AddEdge(FinishBlockNoFallthrough(Push(h, Bra(fr.headerLabel))),
                NextBlockId(f), fr.header)

\* Mutant: the branch back to the header comes before break_if's.
BackEdge_LateBreak(f, fr, breakIf) ==
    LET srcs == IF breakIf
                THEN [p \in {fr.exitPhi, fr.headerPhi} |-> f.vs]
                ELSE PhiMap(fr.headerPhi, f.vs)
        g == Push(Push(f, PhiSrcs(srcs)), Bra(fr.headerLabel))
        h == IF breakIf THEN Push(g, BraIf(fr.exitLabel, f.vs)) ELSE g
    IN  AddEdge(FinishBlockNoFallthrough(h), NextBlockId(f), fr.header)

\* The back edge, if the continuing block can be reached: phi sources for
\* the header and, with break_if, for the exit; the branches in that order.
BackEdge(f, fr, breakIf) ==
    LET srcs == IF breakIf
                THEN [p \in {fr.exitPhi, fr.headerPhi} |-> f.vs]
                ELSE PhiMap(fr.headerPhi, f.vs)
        g == Push(f, PhiSrcs(srcs))
        h == IF breakIf THEN Push(g, BraIf(fr.exitLabel, f.vs)) ELSE g
    IN  AddEdge(FinishBlockNoFallthrough(Push(h, Bra(fr.headerLabel))),
                NextBlockId(f), fr.header)

\* Mutant: no CFG edge for break_if.
LeaveLoop_NoBreakIfEdge(f, fr, breakIf) ==
    LET g == IF ~fr.bodyDead \/ fr.continues # {} THEN BackEdge(f, fr, breakIf)
             ELSE FinishBlockNoFallthrough(f)
        h == PushPhiDst(StartBlockAt(g, fr.exitLabel), fr.exitPhi)
    IN  [h EXCEPT !.edges = @ \cup {<<b, NextBlockId(g)>> : b \in fr.breaks}
                              \cup {<<c, fr.cont>> : c \in fr.continues}]

LeaveLoop(f, fr, breakIf) ==
    LET reachable == ~fr.bodyDead \/ fr.continues # {}
        g == IF reachable THEN BackEdge(f, fr, breakIf) ELSE FinishBlockNoFallthrough(f)
        exit == NextBlockId(g)
        leaving == fr.breaks \cup (IF breakIf /\ reachable THEN {NextBlockId(f)} ELSE {})
        h == PushPhiDst(StartBlockAt(g, fr.exitLabel), fr.exitPhi)
    IN  [h EXCEPT !.edges = @ \cup {<<b, exit>> : b \in leaving}
                              \cup {<<c, fr.cont>> : c \in fr.continues}]

EndLoop ==
    /\ Inner("loop") /\ Frame.stage = "cont"
    /\ \E breakIf \in BOOLEAN :
         /\ Token([k |-> "endloop", breakIf |-> breakIf])
         /\ ft' = LeaveLoop(ft, Frame, breakIf)
    /\ frames' = Pop

----------------------------------------------------------------------------
(* translate_switch: a chain of comparisons.  The variable's value is not  *)
(* restored between cases and no phi is made at the merge block.           *)
SwitchFrame(f) ==
    [k |-> "switch", stage |-> "checks", merge |-> f.nlabel, sel |-> f.vs,
     check |-> NoBlock, next |-> 0, ends |-> {}]

Switch ==
    /\ "switch" \in Kinds /\ AtStatement /\ Depth < MaxDepth /\ Room(3)
    /\ Token([k |-> "switch"])
    /\ frames' = Append(frames, SwitchFrame(ft))
    /\ ft' = [ft EXCEPT !.nlabel = @ + 1]

\* A valued case up to its body: compare, branch away, fall into the body.
EnterCase(f, fr) ==
    Alive(StartBlock(FinishBlockNoFallthrough(
        Push([f EXCEPT !.nlabel = @ + 1], BraIfNot(f.nlabel, fr.sel)))))

Case ==
    /\ Inner("switch") /\ Frame.stage = "checks" /\ Room(2)
    /\ Token([k |-> "case"])
    /\ frames' = SetFrame([Frame EXCEPT !.stage = "case", !.check = NextBlockId(ft),
                                        !.next = ft.nlabel])
    /\ ft' = EnterCase(ft, Frame)

\* The end of a case body and the start of the next comparison.
LeaveCase(f, fr) ==
    LET g == AddEdge(FinishBlockNoFallthrough(Push(f, Bra(fr.merge))),
                     fr.check, fr.check + 1)
        h == StartBlockAt(g, fr.next)
    IN  Alive(AddEdge(h, fr.check, NextBlockId(h)))

\* A case of the program may fall through into the next one (the selectors
\* of "case 1u, 2u" are such cases); of a case the translator reads the
\* value and the body, nothing else, so its code is the same.
EndCase ==
    /\ Inner("switch") /\ Frame.stage = "case"
    /\ \E fall \in BOOLEAN :
         /\ InForm("fall through in switch", fall)
         /\ Token([k |-> "endcase", fall |-> fall])
    /\ frames' = SetFrame([Frame EXCEPT !.stage = "checks",
                             !.ends = IF ft.dead THEN @ ELSE @ \cup {NextBlockId(ft)}])
    /\ ft' = LeaveCase(ft, Frame)

\* The default body continues in the last comparison block.
Default ==
    /\ Inner("switch") /\ Frame.stage = "checks"
    /\ Token([k |-> "default"])
    /\ frames' = SetFrame([Frame EXCEPT !.stage = "default"])
    /\ UNCHANGED ft

\* The block that ends the default body joins the merge block even if dead.
LeaveSwitch(f, fr) ==
    LET g == StartBlockAt(FinishBlockNoFallthrough(Push(f, Bra(fr.merge))), fr.merge)
    IN  Alive([g EXCEPT !.edges = @ \cup
                  {<<e, NextBlockId(g)>> : e \in fr.ends \cup {NextBlockId(f)}}])

EndSwitch ==
    /\ Inner("switch") /\ Frame.stage = "default"
    /\ Token([k |-> "endswitch"])
    /\ frames' = Pop
    /\ ft' = LeaveSwitch(ft, Frame)

----------------------------------------------------------------------------
(* inline_call: the callee's body is translated in place.                  *)
Call ==
    /\ "call" \in Kinds /\ AtStatement /\ Depth < MaxDepth /\ Room(2)
    /\ Token([k |-> "call"])
    /\ frames' = Append(frames, [k |-> "call", stage |-> "callee", saved |-> ft.inlineReturn])
    /\ ft' = [ft EXCEPT !.inlineReturn = NoSSA]

\* The caller's state comes back; a callee that ended dead gets its block
\* closed.  The result is whatever the last translated Return left.
LeaveCall(f, fr) ==
    LET g == [f EXCEPT !.dead = FALSE, !.inlineReturn = fr.saved]
        h == IF f.dead THEN StartBlock(FinishBlock(g)) ELSE g
    IN  IF f.inlineReturn = NoSSA THEN h ELSE Push(h, Read(f.inlineReturn))

EndCall ==
    /\ Inner("call")
    /\ Token([k |-> "endcall"])
    /\ frames' = Pop
    /\ ft' = LeaveCall(ft, Frame)

----------------------------------------------------------------------------
TranslateStatement ==
    \/ Store \/ Break \/ Continue \/ Return
    \/ If \/ Else \/ EndIf
    \/ Loop \/ Continuing \/ EndLoop
    \/ Switch \/ Case \/ EndCase \/ Default \/ EndSwitch
    \/ Call \/ EndCall

\* translate_function after the body: the final OpExit and finish_block.
EndFunction(f) == FinishBlock(Push(f, Exit(f.vs)))
=============================================================================
