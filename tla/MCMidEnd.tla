------------------------------ MODULE MCMidEnd ------------------------------
\* Instances of MidEnd: small control-flow shapes, each block with one of a few
\* bodies over two variables.
EXTENDS MidEnd

Def(id, d, s) == [Instr("def", <<d>>, s) EXCEPT !.id = id]
Store(s) == Instr("store", << >>, <<s>>)
Bra(to) == [Instr("bra", << >>, << >>) EXCEPT !.to = to]
BraIf(id, to) == [Instr("bra", << >>, << >>) EXCEPT !.to = to, !.cond = TRUE, !.id = id]
Exit == Instr("exit", << >>, << >>)
PhiDsts(qs, vs) == [Instr("phidsts", vs, << >>) EXCEPT !.phi = qs]
PhiSrcs(qs, vs) == [Instr("phisrcs", << >>, vs) EXCEPT !.phi = qs]

MCIds == 0 .. 19
\* Branches 8 and 9: taken or not the first, the second and every later time.
MCOutcomes == [{8, 9} -> {<<FALSE>>, <<TRUE>>, <<TRUE, FALSE>>, <<FALSE, TRUE>>}]

Function(blocks, ssa, phi) ==
    [blocks |-> blocks, cfg |-> BuildCfg(blocks), ssa |-> ssa, phi |-> phi, failed |-> FALSE]

\* The bodies of block b over the variables 1 and 2.
Body(b) == {<< >>, <<Def(b, 1, << >>)>>, <<Def(b, 1, <<2>>)>>, <<Def(b, 2, <<1>>)>>, <<Store(1)>>,
            <<Def(b, 1, <<2>>), Def(b + 10, 2, <<1>>)>>}
Some(b) == {<< >>, <<Def(b, 1, << >>)>>, <<Def(b, 2, <<1>>)>>}
Both == <<Def(6, 1, << >>), Def(7, 2, << >>)>>
End == <<Store(1), Store(2), Exit>>

IfElse == {Function(<<Both \o x \o <<BraIf(8, 3)>>, y \o <<Bra(4)>>, z, End>>, 2, 0)
              : x \in Some(1), y \in Body(2), z \in Body(3)}
NestedIf == {Function(<<Both \o <<BraIf(8, 4)>>, x \o <<BraIf(9, 4)>>, y, z, End>>, 2, 0)
              : x \in Some(2), y \in Body(3), z \in Body(4)}
\* loop { x; break_if } : the latch y has an edge back and one out.
DoLoop == {Function(<<w, x, y \o <<BraIf(8, 2)>>, End>>, 2, 0)
              : w \in {Both, <<Def(6, 1, << >>)>>}, x \in Body(2), y \in Body(3)}
\* loop { x; if { break; } y } and loop { x; if { continue; } y; continuing z }
WhileLoop == {Function(<<w, x \o <<BraIf(8, 4)>>, y \o <<Bra(2)>>, End>>, 2, 0)
              : w \in {Both, <<Def(6, 1, << >>)>>}, x \in Body(2), y \in Body(3)}
ContinueLoop == {Function(<<Both, x \o <<BraIf(8, 4)>>, y, z \o <<BraIf(9, 2)>>, End>>, 2, 0)
              : x \in Some(2), y \in Body(3), z \in Some(4)}
NestedLoop == {Function(<<Both, x, y \o <<BraIf(8, 3)>>, z \o <<BraIf(9, 2)>>, End>>, 2, 0)
              : x \in Some(2), y \in Body(3), z \in Some(4)}
\* loop { x; if { break; } if { y } else { z } u } and one loop in another, with
\* a third variable that lives through them.
Three == Both \o <<Def(5, 3, << >>)>>
EndThree == <<Store(3)>> \o End
LoopIf == {Function(<<Three, x \o <<BraIf(8, 7)>>, <<BraIf(9, 5)>>, y \o <<Bra(6)>>, z,
                      u \o <<Bra(2)>>, EndThree>>, 3, 0)
              : x \in Some(2), y \in Body(3), z \in Body(4), u \in Some(0)}
NestedWhile == {Function(<<Three, x \o <<BraIf(8, 7)>>, << >>, y \o <<BraIf(9, 6)>>, z \o <<Bra(4)>>,
                           u \o <<Bra(2)>>, EndThree>>, 3, 0)
              : x \in Some(2), y \in Body(3), z \in Body(4), u \in Some(0)}
\* A block nothing leads to, and an exit in the middle.
DeadBlock == {Function(<<x \o <<Bra(3)>>, y, z \o <<BraIf(8, 5)>>, <<Exit>>, End>>, 2, 0)
              : x \in {Both, <<Def(6, 1, << >>)>>}, y \in Body(2), z \in Some(3)}

\* if c { x } as translate_if makes it: the block with the condition leads to the
\* block after the if as well, and has the phi sources for it.
IfThen == {Function(<<Both \o <<PhiSrcs(<<1, 2>>, <<1, 2>>), BraIf(8, 3)>>,
                      x \o <<PhiSrcs(<<1, 2>>, s), Bra(3)>>,
                      <<PhiDsts(<<1, 2>>, <<3, 4>>), Store(3), Store(4)>> \o z \o <<Exit>>>>, 6, 2)
              : x \in {<<Def(1, 5, <<1>>)>>, <<Store(1), Def(1, 5, <<2>>)>>,
                       <<Def(1, 5, <<1>>), Store(2)>>, <<Def(1, 5, << >>), Store(1)>>},
                s \in {<<1, 2>>, <<2, 1>>, <<5, 1>>, <<5, 2>>, <<1, 5>>, <<2, 5>>, <<1, 1>>, <<5, 5>>},
                z \in {<< >>, <<Store(1)>>}}

\* Functions with phis, as the front end makes them: a loop that exchanges two
\* variables and uses them after the loop.
SwapWhile == {Function(<<Both \o <<PhiSrcs(<<1, 2>>, <<1, 2>>)>>,
                         <<PhiDsts(<<1, 2>>, <<3, 4>>), BraIf(8, 4)>>,
                         <<Def(1, 5, <<3>>), Store(5), PhiSrcs(<<1, 2>>, s), Bra(2)>>,
                         <<Store(3), Store(4), Exit>>>>, 5, 2)
              : s \in {<<4, 3>>, <<5, 3>>, <<5, 4>>, <<4, 5>>, <<1, 3>>, <<3, 3>>}}

(***************************************************************************)
(* Loops as translate_loop makes them, over two variables with the values 3     *)
(* and 4 at the header: phis 1 and 2 for the header, 3 and 4 for the exit, 5     *)
(* and 6 for the continuing block.  mid are the variables' values after the      *)
(* body's first part, which defines 5; fin those at the latch.                 *)
(***************************************************************************)
Before == Both \o <<PhiSrcs(<<1, 2>>, <<1, 2>>)>>
Header == <<PhiDsts(<<1, 2>>, <<3, 4>>), Def(1, 5, <<3>>)>>
After == <<PhiDsts(<<3, 4>>, <<8, 9>>), Store(8), Store(9), Exit>>
Mid == {<<3, 4>>, <<4, 3>>, <<5, 3>>, <<5, 4>>, <<4, 5>>, <<1, 3>>}
\* loop { if c { break; } continuing { } }
BreakLoop ==
    {Function(<<Before,
                Header \o <<BraIf(8, 4)>>,
                <<PhiSrcs(<<3, 4>>, mid), Bra(6)>>,
                <<Def(2, 10, <<mid[1]>>), Store(10), PhiSrcs(<<5, 6>>, fin), Bra(5)>>,
                <<PhiDsts(<<5, 6>>, <<6, 7>>), PhiSrcs(<<1, 2>>, <<6, 7>>), Bra(2)>>,
                After>>, 10, 6) : mid \in Mid, fin \in {<<3, 4>>, <<4, 3>>, <<10, 3>>, <<4, 10>>}}
\* loop { continuing { break if c; } }: the latch ends in two branches and has
\* one PhiSrcs, for the exit and for the header; nothing reads the variables
\* after the loop (PhiWebs::new panics when the exit keeps its phis).
BreakIfWith(mid) ==
    [Function(<<Before,
                Header \o <<PhiSrcs(<<5, 6>>, mid), Bra(3)>>,
                <<PhiDsts(<<5, 6>>, <<6, 7>>), Store(6),
                  PhiSrcs(<<3, 4, 1, 2>>, <<6, 7, 6, 7>>), BraIf(8, 4), Bra(2)>>,
                <<PhiDsts(<<3, 4>>, <<8, 9>>), Exit>>>>, 9, 6) EXCEPT !.cfg = Build(4, <<<<1, 2>>, <<2, 3>>, <<3, 2>>, <<3, 4>>>>)]
BreakIfUnread == {BreakIfWith(mid) : mid \in Mid}

AllFunctions == IfElse \cup NestedIf \cup DoLoop \cup WhileLoop \cup ContinueLoop \cup NestedLoop
                  \cup LoopIf \cup NestedWhile \cup DeadBlock
                  \cup IfThen \cup SwapWhile \cup BreakLoop \cup BreakIfUnread
=============================================================================
