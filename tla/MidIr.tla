------------------------------- MODULE MidIr -------------------------------
(***************************************************************************)
(* Functions in the middle of the compiler: a control-flow graph of basic     *)
(* blocks of instructions over SSA values, and what such a function does.     *)
(*                                                                         *)
(* An instruction has an operation, destinations, sources, and, for PhiSrcs   *)
(* and PhiDsts, the phi each of them belongs to.  Operations:                 *)
(*   "def"    a pure operation        "store"  one with an effect              *)
(*   "undef"  OpUndef                 "copy"   OpCopy                          *)
(*   "pcopy"  OpParCopy               "phisrcs", "phidsts"                     *)
(*   "bra"    OpBra, with a condition or without      "exit"  OpExit           *)
(* A block's label is its position: no pass moves or removes a block.         *)
(* A block ends in at most one branch, except the latch of a loop with          *)
(* break_if, which ends in two (translate_loop).                              *)
(***************************************************************************)
EXTENDS Cfg, FiniteSetsExt, Functions

Instr(op, dst, src) ==
    [op |-> op, dst |-> dst, src |-> src, phi |-> << >>, to |-> 0, cond |-> FALSE, id |-> 0]

IsBranch(i) == i.op \in {"bra", "exit"}
IsBranchAlwaysTaken(i) == IsBranch(i) /\ ~i.cond

HasBranch(block) == block # << >> /\ IsBranch(Last(block))
FallsThrough(block) == HasBranch(block) => ~IsBranchAlwaysTaken(Last(block))

\* The edges of the code, the fall-through first, in the order of rewrite_cfg.
EdgesOfBlock(blocks, b) ==
    (IF FallsThrough(blocks[b]) /\ b < Len(blocks) THEN <<<<b, b + 1>>>> ELSE << >>)
      \o (IF HasBranch(blocks[b]) /\ Last(blocks[b]).op = "bra"
          THEN <<<<b, Last(blocks[b]).to>>>> ELSE << >>)
BuildCfg(blocks) ==
    Build(Len(blocks), FoldLeft(LAMBDA acc, b : acc \o EdgesOfBlock(blocks, b), << >>,
                                [b \in DOMAIN blocks |-> b]))

\* f: the blocks, the graph, and the next SSA value and phi to allocate.
Blocks(f) == DOMAIN f.blocks
Instrs(f) == UNION {{f.blocks[b][i] : i \in DOMAIN f.blocks[b]} : b \in Blocks(f)}
UsesOf(f) == UNION {ToSet(i.src) : i \in Instrs(f)}
DefsOf(f) == UNION {ToSet(i.dst) : i \in Instrs(f)}
\* The places where a value is defined.
DefPlaces(f, v) == {p \in UNION {{<<b, i>> : i \in DOMAIN f.blocks[b]} : b \in Blocks(f)} :
                       v \in ToSet(f.blocks[p[1]][p[2]].dst)}

PhiDstsOf(block) == {i \in DOMAIN block : block[i].op = "phidsts"}
PhiSrcsOf(block) == {i \in DOMAIN block : block[i].op = "phisrcs"}

-----------------------------------------------------------------------------
(* What a function does: the values it stores.  A value is what made it: the  *)
(* operation, how often it ran before, and its operands.  Undef is the value   *)
(* of what was never written.  loc[v] is where value v is kept: a place of its *)
(* own, or the place of its phi congruence class.                             *)

CONSTANT Ids         \* the instructions and branches of the source, by number

Undef == << >>

Result(i, n, args) == IF Undef \in ToSet(args) THEN Undef ELSE <<i.id, n, args>>

\* One instruction.  st: values by place, phi values, times run, the stores.
Step(st, i, loc, phis) ==
    LET args == [k \in DOMAIN i.src |-> st.env[loc[i.src[k]]]]
        write(vals) == [p \in DOMAIN st.env |->
                          LET hit == {k \in DOMAIN i.dst : loc[i.dst[k]] = p}
                          IN  IF hit = {} THEN st.env[p] ELSE vals[Max(hit)]]
        ran == [st EXCEPT !.n = [@ EXCEPT ![i.id] = @ + 1]]
    IN  CASE i.op = "def" -> [ran EXCEPT !.env = write([k \in DOMAIN i.dst |->
                                                           Result(i, st.n[i.id], args)])]
          [] i.op = "undef" -> [st EXCEPT !.env = write(<<Undef>>)]
          [] i.op \in {"copy", "pcopy"} -> [st EXCEPT !.env = write(args)]
          [] i.op = "store" -> [st EXCEPT !.out = Append(@, args)]
          [] i.op = "phisrcs" /\ phis ->
                [st EXCEPT !.phi = [q \in DOMAIN st.phi |->
                    LET hit == {k \in DOMAIN i.phi : i.phi[k] = q}
                    IN  IF hit = {} THEN st.phi[q] ELSE args[Max(hit)]]]
          [] i.op = "phidsts" /\ phis ->
                [st EXCEPT !.env = write([k \in DOMAIN i.phi |-> st.phi[i.phi[k]]])]
          [] OTHER -> st

\* Whether a conditional branch is taken the n-th time: the choices repeat the
\* last one.
Taken(choice, i, n) == choice[i.id][IF n < Len(choice[i.id]) THEN n + 1 ELSE Len(choice[i.id])]

\* From instruction k of block b on; fuel bounds the blocks visited.
RECURSIVE RunFrom(_, _, _, _, _, _, _, _)
RunFrom(f, b, k, st, choice, fuel, loc, phis) ==
    IF fuel = 0 THEN [out |-> st.out, ended |-> FALSE]
    ELSE IF b > Len(f.blocks) THEN [out |-> st.out, ended |-> TRUE]
    ELSE IF k > Len(f.blocks[b])
    THEN RunFrom(f, b + 1, 1, st, choice, fuel - 1, loc, phis)
    ELSE LET i == f.blocks[b][k]
             next == IF i.cond THEN [st EXCEPT !.n = [@ EXCEPT ![i.id] = @ + 1]]
                     ELSE Step(st, i, loc, phis)
         IN  IF i.op = "exit" THEN [out |-> st.out, ended |-> TRUE]
             ELSE IF i.op = "bra" /\ (i.cond => Taken(choice, i, st.n[i.id]))
             THEN RunFrom(f, i.to, 1, next, choice, fuel - 1, loc, phis)
             ELSE RunFrom(f, b, k + 1, next, choice, fuel, loc, phis)

Run(f, choice, fuel, loc, phis) ==
    RunFrom(f, Entry, 1,
            [env |-> [v \in 1 .. f.ssa |-> Undef], phi |-> [q \in 1 .. f.phi |-> Undef],
             n |-> [k \in Ids |-> 0], out |-> << >>],
            choice, fuel, loc, phis)

\* got does what want does, where what want does is defined.
Agrees(want, got) ==
    /\ Len(want.out) <= Len(got.out)
    /\ want.ended => got.ended /\ Len(want.out) = Len(got.out)
    /\ \A k \in DOMAIN want.out : \A j \in DOMAIN want.out[k] :
          want.out[k][j] \in {Undef, got.out[k][j]}
=============================================================================
