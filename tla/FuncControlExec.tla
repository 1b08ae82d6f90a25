-------------------------- MODULE FuncControlExec --------------------------
(***************************************************************************)
(* What the translated function does, beside what the program says.  Once  *)
(* a program is translated, two machines run in lockstep: one interprets   *)
(* the tokens by the rules of the naga IR (external), the other executes   *)
(* the blocks the translator emitted, in their layout order, with the      *)
(* branches, the fallthroughs and the phis on the CFG edges that the rest  *)
(* of the compiler works with.  Silent steps are taken alone; at a store,  *)
(* a decision, a use of a call's result or the exit both must be there     *)
(* with the same value of the variable, and a decision goes the same way.  *)
(***************************************************************************)
EXTENDS FuncControl, Integers

VARIABLES
    phase,    \* "translate", "translated", "run" or "stopped"
    src,      \* the interpreter: token, value of the variable, returned value
    mach      \* the machine: block, instruction, value of every SSA value

vars == <<prog, ft, frames, phase, src, mach>>

Undef == -1      \* fix_entry_live_in: OpUndef at entry for every SSA value

----------------------------------------------------------------------------
(* The source.  Positions run over 1..Len(prog) + 1, the last one the end  *)
(* of the function.                                                        *)
Closing == {"endif", "endloop", "endswitch", "endcall"}

Level(n) == prog[n].level

\* The first token after n at nesting level l whose kind is in ks.
After(n, l, ks) ==
    CHOOSE m \in (n + 1)..Len(prog) :
        /\ prog[m].k \in ks /\ Level(m) = l
        /\ \A q \in (n + 1)..(m - 1) : ~(prog[q].k \in ks /\ Level(q) = l)

\* The innermost open token around n with kind in ks.
Enclosing(n, ks) ==
    LET open == {m \in 1..(n - 1) : /\ prog[m].k \in ks
                                    /\ After(m, Level(m) + 1, Closing) >= n}
    IN  IF open = {} THEN 0 ELSE CHOOSE m \in open : \A q \in open : q <= m

EndOf(n) == After(n, Level(n) + 1, Closing)

\* Where a decision at token n leads.
Decide(n, b) ==
    CASE prog[n].k = "if" ->
             IF b THEN n + 1
             ELSE After(n, Level(n) + 1, {"else", "endif"}) + 1
      [] prog[n].k = "case" ->
             IF b THEN n + 1 ELSE After(n, Level(n), {"endcase"}) + 1
      [] prog[n].k = "endloop" ->
             IF b THEN n + 1 ELSE Enclosing(n, {"loop"}) + 1

\* What token n does: an event the machine must match, or a silent step.
SrcEvent ==
    LET n == src.pc
    IN  IF n > Len(prog) THEN "exit"
        ELSE CASE prog[n].k = "store" -> "def"
               [] prog[n].k \in {"if", "case"} -> "decide"
               [] prog[n].k = "endloop" -> IF prog[n].breakIf THEN "decide" ELSE "none"
               [] prog[n].k = "return" -> IF Enclosing(n, {"call"}) = 0 THEN "exit" ELSE "none"
               [] prog[n].k = "endcall" -> IF src.ret = Undef THEN "none" ELSE "read"
               [] OTHER -> "none"

\* The value that goes with the event.
SrcValue ==
    CASE SrcEvent = "def" -> src.pc
      [] SrcEvent = "read" -> src.ret
      [] OTHER -> src.x

SrcGoto(n) == src' = [src EXCEPT !.pc = n]

SrcSilent ==
    LET n == src.pc
    IN  CASE prog[n].k = "endloop" -> SrcGoto(Enclosing(n, {"loop"}) + 1)
          [] prog[n].k = "else" -> SrcGoto(After(n, Level(n), {"endif"}))
          [] prog[n].k = "endcase" ->   \* n + 2: past the next "case" or "default"
                 SrcGoto(IF prog[n].fall THEN n + 2 ELSE After(n, Level(n), {"endswitch"}))
          [] prog[n].k = "break" -> SrcGoto(EndOf(Enclosing(n, {"loop", "switch"})) + 1)
          [] prog[n].k = "continue" ->
                 LET l == Enclosing(n, {"loop"})
                 IN  SrcGoto(After(l, Level(l) + 1, {"continuing"}))
          [] prog[n].k = "return" ->
                 src' = [src EXCEPT !.pc = EndOf(Enclosing(n, {"call"})), !.ret = src.x]
          [] OTHER -> SrcGoto(n + 1)

----------------------------------------------------------------------------
(* The emitted code.                                                       *)
Blocks == DOMAIN ft.blocks
Instrs(b) == ft.blocks[b].instrs
Code(b, op) == {Instrs(b)[i] : i \in {j \in DOMAIN Instrs(b) : Instrs(b)[j].op = op}}

Labelled(l) == CHOOSE b \in Blocks : ft.blocks[b].label = l

\* The one PhiSrcs / PhiDsts of a block as a map, empty if it has none.
PhiOf(b, op) ==
    IF Code(b, op) = {} THEN <<>> ELSE (CHOOSE i \in Code(b, op) : TRUE).m

\* Values after the edge from p to b.  A copy is made per CFG edge and per
\* phi that the predecessor has a source for.
Enter(env, p, b) ==
    LET srcs == PhiOf(p, "phisrcs")
        dsts == PhiOf(b, "phidsts")
        moved == IF <<p, b>> \in ft.edges THEN DOMAIN srcs \cap DOMAIN dsts ELSE {}
    IN  [s \in DOMAIN env |->
            IF \E q \in moved : dsts[q] = s
            THEN env[srcs[CHOOSE q \in moved : dsts[q] = s]]
            ELSE env[s]]

MachGoto(b) == mach' = [b |-> b, i |-> 1, env |-> Enter(mach.env, mach.b, b)]

Past == mach.i > Len(Instrs(mach.b))
Instr == Instrs(mach.b)[mach.i]

MachEvent ==
    IF Past THEN IF mach.b = Len(ft.blocks) THEN "off the end" ELSE "none"
    ELSE CASE Instr.op = "bra" -> IF Instr.ssa = NoSSA THEN "none" ELSE "decide"
           [] Instr.op \in {"def", "read", "exit"} -> Instr.op
           [] OTHER -> "none"

MachValue ==
    CASE MachEvent = "def" -> Instr.val
      [] MachEvent = "exit" -> IF Instr.ssa = NoSSA THEN Undef ELSE mach.env[Instr.ssa]
      [] MachEvent \in {"read", "decide"} -> mach.env[Instr.ssa]
      [] OTHER -> Undef

MachSilent ==
    IF Past THEN MachGoto(mach.b + 1)
    ELSE IF Instr.op = "bra" THEN MachGoto(Labelled(Instr.target))
    ELSE mach' = [mach EXCEPT !.i = @ + 1]

----------------------------------------------------------------------------
Init ==
    /\ prog = <<>> /\ frames = <<>> /\ ft = NewTranslator
    /\ phase = "translate"
    /\ src = [pc |-> 1, x |-> 0, ret |-> Undef]
    /\ mach = [b |-> 1, i |-> 1, env |-> <<>>]

Translate ==
    /\ phase = "translate"
    /\ TranslateStatement
    /\ UNCHANGED <<phase, src, mach>>

\* The function is complete.  The machine starts behind the first
\* instruction, the zero the variable starts with, which has no token.
Finish ==
    /\ phase = "translate" /\ frames = <<>>
    /\ ft' = EndFunction(ft)
    /\ phase' = "translated"
    /\ mach' = [b |-> 1, i |-> 2,
                env |-> [s \in 1..(ft.nssa - 1) |-> IF s = 1 THEN 0 ELSE Undef]]
    /\ UNCHANGED <<prog, frames, src>>

Start ==
    /\ phase = "translated" /\ phase' = "run"
    /\ UNCHANGED <<prog, ft, frames, src, mach>>

SrcStep ==
    /\ phase = "run" /\ SrcEvent = "none"
    /\ SrcSilent
    /\ UNCHANGED <<prog, ft, frames, phase, mach>>

MachStep ==
    /\ phase = "run" /\ MachEvent = "none" /\ SrcEvent # "none"
    /\ MachSilent
    /\ UNCHANGED <<prog, ft, frames, phase, src>>

AtEvent == phase = "run" /\ SrcEvent # "none" /\ MachEvent # "none"
Agree == SrcEvent = MachEvent /\ SrcValue = MachValue

Both ==
    /\ AtEvent /\ Agree
    /\ \/ /\ SrcEvent = "def"
          /\ src' = [src EXCEPT !.pc = @ + 1, !.x = SrcValue]
          /\ mach' = [mach EXCEPT !.i = @ + 1, !.env[Instr.ssa] = MachValue]
          /\ UNCHANGED phase
       \/ /\ SrcEvent = "read"
          /\ src' = [src EXCEPT !.pc = @ + 1, !.ret = Undef]
          /\ mach' = [mach EXCEPT !.i = @ + 1]
          /\ UNCHANGED phase
       \/ /\ SrcEvent = "decide"
          /\ \E b \in BOOLEAN :
               /\ SrcGoto(Decide(src.pc, b))
               /\ IF b # Instr.neg THEN MachGoto(Labelled(Instr.target))
                  ELSE mach' = [mach EXCEPT !.i = @ + 1]
          /\ UNCHANGED phase
       \/ /\ SrcEvent = "exit"
          /\ phase' = "stopped"
          /\ UNCHANGED <<src, mach>>
    /\ UNCHANGED <<prog, ft, frames>>

\* The end of a run: the exit, or a disagreement.
Stopped ==
    /\ (phase = "stopped") \/ (AtEvent /\ ~Agree)
    /\ UNCHANGED vars

Next == Translate \/ Finish \/ Start \/ SrcStep \/ MachStep \/ Both \/ Stopped

Spec == Init /\ [][Next]_vars /\ WF_vars(SrcStep \/ MachStep \/ Both)

----------------------------------------------------------------------------
(* The graph.                                                              *)
Done == phase = "translated"

Succs(b) == {e[2] : e \in {g \in ft.edges : g[1] = b}}

\* Where the machine can go from b: the targets of its branches and, unless
\* the last instruction leaves for good, the next block in the layout.
Leaves(i) == i.op \in {"exit", "bra"} /\ (i.op = "bra" => i.ssa = NoSSA)
Flows(b) ==
    {Labelled(i.target) : i \in Code(b, "bra")}
    \cup (IF Instrs(b) # <<>> /\ Leaves(Last(Instrs(b))) THEN {} ELSE {b + 1})

\* The closure of the machine's own flow from the entry block.
Reached ==
    LET r[n \in 0..Len(ft.blocks)] ==
            IF n = 0 THEN {1}
            ELSE r[n - 1] \cup UNION {Flows(b) \cap Blocks : b \in r[n - 1]}
    IN  r[Len(ft.blocks)]

\* Whenever program and code both come to something visible it is the same
\* thing with the same value of the variable: every decision, store, call
\* result and exit of the source happens, in order, in the translation.
CodeFollowsSource == AtEvent => Agree

\* The code reads no SSA value that no instruction has defined on the way:
\* the dominance violations of the builder are repaired before liveness.
ReadsDefined ==
    AtEvent /\ MachEvent \in {"decide", "read", "exit"} /\ Instr.ssa # NoSSA
        => MachValue # Undef

\* The CFG edges later passes rely on are the ways control really leaves a
\* block: label branches and the fallthrough into the next block.
EdgesMatchBranches == Done => \A b \in Reached : Succs(b) = Flows(b)

\* Every predecessor of a block with phi destinations has a source for each
\* of them ("Missing phi_srcs" where parallel copies are built).
PhisComplete ==
    Done => \A e \in ft.edges :
        DOMAIN PhiOf(e[2], "phidsts") \subseteq DOMAIN PhiOf(e[1], "phisrcs")

\* Every program point of the source is eventually left: the code never
\* loops silently where the source comes to something visible.
EventsReached == (phase = "run" /\ SrcEvent # "none") ~> (phase = "stopped" \/ AtEvent)
=============================================================================
