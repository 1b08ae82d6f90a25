----------------------------- MODULE MidPasses -----------------------------
(***************************************************************************)
(* opt_dce.rs, opt_jump_thread.rs and the liveness of liveness.rs.            *)
(***************************************************************************)
EXTENDS MidIr

-----------------------------------------------------------------------------
(* Dead code elimination                                                    *)

CanEliminate(i) == i.op \notin {"store", "bra", "exit"}

\* The positions of a phi or copy list that are live; an ordinary instruction
\* lives when it has an effect or a live destination.
LiveParts(live, i) ==
    CASE i.op = "phisrcs" -> {k \in DOMAIN i.phi : i.phi[k] \in live.phi}
      [] i.op \in {"phidsts", "pcopy"} -> {k \in DOMAIN i.dst : i.dst[k] \in live.ssa}
      [] OTHER -> IF ~CanEliminate(i) \/ ToSet(i.dst) \cap live.ssa # {} THEN {1} ELSE {}

\* mark_instr
MarkInstr(live, i) ==
    LET parts == LiveParts(live, i)
    IN  CASE i.op = "phidsts" -> [live EXCEPT !.phi = @ \cup {i.phi[k] : k \in parts}]
          [] i.op \in {"phisrcs", "pcopy"} ->
                [live EXCEPT !.ssa = @ \cup {i.src[k] : k \in parts}]
          [] OTHER -> IF parts = {} THEN live ELSE [live EXCEPT !.ssa = @ \cup ToSet(i.src)]

\* Rounds over the blocks from the last instruction to the first, until nothing
\* new is alive.
RECURSIVE MarkLive(_, _)
MarkLive(f, live) ==
    LET block(acc, b) == FoldRight(LAMBDA i, a : MarkInstr(a, i), f.blocks[b], acc)
        next == FoldRight(LAMBDA b, a : block(a, b), [b \in Blocks(f) |-> b], live)
    IN  IF next = live THEN live ELSE MarkLive(f, next)

\* The positions of a sequence that are in ks.
Pick(s, ks) == [j \in 1 .. Cardinality(ks) |-> s[Ascending(ks)[j]]]

\* map_instr
Kept(live, i) ==
    LET ks == LiveParts(live, i)
    IN  CASE i.op = "phisrcs" -> [i EXCEPT !.phi = Pick(@, ks), !.src = Pick(@, ks)]
          [] i.op = "phidsts" -> [i EXCEPT !.phi = Pick(@, ks), !.dst = Pick(@, ks)]
          [] i.op = "pcopy" -> [i EXCEPT !.dst = Pick(@, ks), !.src = Pick(@, ks)]
          [] OTHER -> i

KeepLive(f, live) ==
    LET keep(block) == LET alive == SelectSeq(block, LAMBDA i : LiveParts(live, i) # {})
                       IN  [k \in DOMAIN alive |-> Kept(live, alive[k])]
    IN  [f EXCEPT !.blocks = [b \in Blocks(f) |-> keep(f.blocks[b])]]
OptDce(f) == KeepLive(f, MarkLive(f, [ssa |-> {}, phi |-> {}]))

-----------------------------------------------------------------------------
(* Jump threading                                                           *)

\* repl: label -> the branch that stands for a branch to it, or none.
NoRepl == Instr("none", << >>, << >>)

\* The last branch of a block, replaced where its target is trivial.
\* Mutant: a conditional branch is replaced as a whole, too.
Threaded_DropCond(i, repl) ==
    IF i.op # "bra" \/ repl[i.to] = NoRepl THEN i ELSE repl[i.to]

CanThread(i, repl) ==
    i.op = "bra" /\ repl[i.to] # NoRepl /\ (i.cond => repl[i.to].op = "bra")
Threaded(i, repl) ==
    IF ~CanThread(i, repl) THEN i
    ELSE IF i.cond THEN [i EXCEPT !.to = repl[i.to].to]
    ELSE repl[i.to]

ThreadBlock(st, b) ==
    LET old == st.blocks[b]
        block == IF old = << >> THEN old
                 ELSE Front(old) \o <<Threaded(Last(old), st.repl)>>
        next == [Instr("bra", << >>, << >>) EXCEPT !.to = b + 1]
        trivial == CASE Len(block) = 1 /\ IsBranchAlwaysTaken(block[1]) -> block[1]
                     [] block = << >> /\ b < Len(st.blocks) ->
                           IF st.repl[b + 1] # NoRepl THEN st.repl[b + 1] ELSE next
                     [] OTHER -> NoRepl
    IN  [blocks |-> [st.blocks EXCEPT ![b] = block],
         repl |-> [st.repl EXCEPT ![b] = trivial],
         progress |-> st.progress \/ (old # << >> /\ CanThread(Last(old), st.repl))]

\* opt_fall_through: a branch to the next block is dropped.
FallThrough(blocks) ==
    [b \in DOMAIN blocks |->
        IF b < Len(blocks) /\ HasBranch(blocks[b]) /\ Last(blocks[b]).op = "bra"
             /\ Last(blocks[b]).to = b + 1
        THEN Front(blocks[b]) ELSE blocks[b]]

\* jump_thread, rewrite_cfg, and opt_fall_through when something changed.  The
\* edges are those of the code before the branches to the next block go.
OptJumpThread(f) ==
    LET st == FoldRight(LAMBDA b, acc : ThreadBlock(acc, b), [b \in Blocks(f) |-> b],
                        [blocks |-> f.blocks, repl |-> [b \in Blocks(f) |-> NoRepl],
                         progress |-> FALSE])
    IN  IF ~st.progress THEN f
        ELSE [f EXCEPT !.blocks = FallThrough(st.blocks), !.cfg = BuildCfg(st.blocks)]

-----------------------------------------------------------------------------
(* Liveness                                                                 *)

BlockUses(f, b) == UNION {ToSet(f.blocks[b][i].src) : i \in DOMAIN f.blocks[b]}
BlockDefs(f, b) == UNION {ToSet(f.blocks[b][i].dst) : i \in DOMAIN f.blocks[b]}

\* SimpleLiveness::for_function: rounds in post order until nothing changes.
LiveRound(f, live) ==
    FoldLeft(LAMBDA acc, b :
                LET out == UNION {acc.live_in[s] : s \in Succs(f.cfg, b)}
                IN  [live_out |-> [acc.live_out EXCEPT ![b] = out],
                     live_in |-> [acc.live_in EXCEPT
                                    ![b] = (out \cup BlockUses(f, b)) \ BlockDefs(f, b)]],
             live, PostOrder(f.cfg))
\* Mutant: one round only.
LivenessRounds_One(f, live) == LiveRound(f, live)

RECURSIVE LivenessRounds(_, _)
LivenessRounds(f, live) ==
    LET next == LiveRound(f, live)
    IN  IF next.live_in = live.live_in THEN next ELSE LivenessRounds(f, next)

Liveness(f) == LivenessRounds(f, [live_in |-> [b \in Blocks(f) |-> {}],
                                  live_out |-> [b \in Blocks(f) |-> {}]])

LastUse(f, b, v) == Max({0} \cup {i \in DOMAIN f.blocks[b] : v \in ToSet(f.blocks[b][i].src)})
IsLiveAfterIp(f, live, v, b, ip) == v \in live.live_out[b] \/ LastUse(f, b, v) > ip

\* def_block_ip: where the value is defined; of several places the last.
DefPlace(f, v) ==
    CHOOSE p \in DefPlaces(f, v) :
        \A q \in DefPlaces(f, v) : q[1] < p[1] \/ (q[1] = p[1] /\ q[2] <= p[2])

Interferes(f, live, v, w) ==
    LET p == DefPlace(f, v)
        q == DefPlace(f, w)
    IN  \/ p = q
        \/ /\ p[1] < q[1] \/ (p[1] = q[1] /\ p[2] < q[2])
           /\ IsLiveAfterIp(f, live, v, q[1], q[2])
        \/ /\ q[1] < p[1] \/ (p[1] = q[1] /\ q[2] < p[2])
           /\ IsLiveAfterIp(f, live, w, p[1], p[2])
=============================================================================
