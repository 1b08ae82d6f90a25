---------------------------- MODULE MCInstrDeps ----------------------------
\* Instances of CalcDelays: the code of a few control-flow shapes.
EXTENDS CalcDelays

\* Instructions with at most one destination and at most one source.
Alu == {[k |-> "alu", dst |-> d, src |-> s] : d \in {{r} : r \in {1, 2}},
                                              s \in {{}} \cup {{r} : r \in {1, 2}}}
Var == {[k |-> "var", dst |-> {d}, src |-> {s}] : d, s \in {1, 2}}
Store == {[k |-> "mem", dst |-> {}, src |-> {s}] : s \in {1, 2}}
Sync == {[k |-> "sync", dst |-> {}, src |-> {}]}
AnyOp == Alu \cup Var \cup Store \cup Sync

In(b, x) == [b |-> b, k |-> x.k, dst |-> x.dst, src |-> x.src, to |-> 0, cond |-> FALSE]
Bra(b, to, c) == [b |-> b, k |-> "bra", dst |-> {}, src |-> {}, to |-> to, cond |-> c]

Straight == {<<In(1, x), In(1, y), In(1, z), Bra(1, 0, FALSE)>> : x, y, z \in AnyOp}
Loop == {<<In(1, x), Bra(1, 2, FALSE), In(2, y), In(2, z), Bra(2, 2, TRUE), Bra(3, 0, FALSE)>>
            : x \in Var \cup Store, y, z \in Alu \cup Var}
Diamond == {<<In(1, x), Bra(1, 3, TRUE), In(2, y), Bra(2, 3, FALSE), In(3, z), Bra(3, 0, FALSE)>>
            : x, y, z \in Alu \cup Var}
Nested == {<<In(1, x), Bra(1, 3, TRUE), In(2, y), Bra(2, 3, FALSE), In(3, z), Bra(3, 1, TRUE),
             Bra(4, 0, FALSE)>> : x, y, z \in Alu}


\* Blocks that run into the next one: before a loop header, and the arm of
\* an if before the code behind it.
FallThrough ==
    {<<In(1, x), In(2, y), Bra(2, 2, TRUE), Bra(3, 0, FALSE)>> : x, y \in Alu \cup Var}
      \cup
    {<<In(1, x), Bra(1, 3, TRUE), In(2, y), In(3, z), Bra(3, 0, FALSE)>> : x, y, z \in Alu \cup Var}

Shapes == Straight \cup Loop \cup Diamond \cup Nested \cup FallThrough
=============================================================================
