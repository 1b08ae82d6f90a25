----------------------------- MODULE AssignRegs -----------------------------
(***************************************************************************)
(* assign_regs: registers for the blocks of a function in conventional SSA    *)
(* form (assign_regs/mod.rs, block.rs, types.rs), for scalar values of one     *)
(* register file.  RegAlloc has what happens inside a block with vectors and    *)
(* pins; here are the phi webs, the registers a block takes over from its       *)
(* predecessors, the phis, and the copies on the edges.                       *)
(*                                                                         *)
(* st: for each block the registers of its values at its end (ra), what it      *)
(* expects in which register at its start (live_in), the registers of its phi   *)
(* sources (phi_out) and its new code; the last register of each phi web         *)
(* (assigned); and whether an assertion or expectation has failed.  Register 0  *)
(* stands for none.                                                          *)
(***************************************************************************)
EXTENDS ToCssa

CONSTANT MinRegs       \* registers a function gets at least (16 in the code)

HasBackEdge(f, b) == \E p \in ToSet(f.cfg.pred[b]) : p >= b
ForwardPreds(f, b) == SelectSeq(f.cfg.pred[b], LAMBDA p : p < b)
Unreachable(f, b) == b # Entry /\ f.cfg.pred[b] = << >>

-----------------------------------------------------------------------------
(* Register pressure                                                        *)

Dying(f, live, b, ip, vals) == {v \in ToSet(vals) : ~IsLiveAfterIp(f, live, v, b, ip)}

\* insert_instr_top_down
PressureAt(f, live, b, acc, ip) ==
    LET i == f.blocks[b][ip]
        with == (acc.live \ Dying(f, live, b, ip, i.src)) \cup ToSet(i.dst)
    IN  [live |-> with \ Dying(f, live, b, ip, i.dst),
         max |-> Max({acc.max, Cardinality(acc.live), Cardinality(with)})]

\* calc_max_live_back_edge_aware, one block.
BlockPressure(f, live, acc, b) ==
    LET seed == IF HasBackEdge(f, b) THEN live.live_in[b]
                ELSE live.live_in[b] \cap UNION {acc.out[p] : p \in ToSet(ForwardPreds(f, b))}
        r == FoldLeft(LAMBDA a, ip : PressureAt(f, live, b, a, ip),
                      [live |-> seed, max |-> acc.max], [ip \in DOMAIN f.blocks[b] |-> ip])
    IN  [out |-> Append(acc.out, r.live), max |-> r.max]

MaxLive(f, live) ==
    FoldLeft(LAMBDA a, b : BlockPressure(f, live, a, b), [out |-> << >>, max |-> 0],
             [b \in Blocks(f) |-> b]).max

-----------------------------------------------------------------------------
(* Phi webs                                                                 *)

PhisAt(block, places) == UNION {ToSet(block[k].phi) : k \in places}

\* PhiWebs::new expects phi sources in every predecessor of a block with phis,
\* and all of them to be of phis of the block.
PhiWebsDefined(f) ==
    \A b \in Blocks(f) : PhiDstsOf(f.blocks[b]) # {} =>
        \A p \in ToSet(f.cfg.pred[b]) :
            /\ PhiSrcsIp(f.blocks[p]) # 0
            /\ ToSet(f.blocks[p][PhiSrcsIp(f.blocks[p])].phi)
                  \subseteq PhisAt(f.blocks[b], PhiDstsOf(f.blocks[b]))

\* The values of each phi are one class.
PhiWebs(f) ==
    LET vals(i) == IF i.op = "phidsts" THEN i.dst ELSE i.src
        entries == UNION {{<<i.phi[k], vals(i)[k]>> : k \in DOMAIN i.phi} : i \in Instrs(f)}
        join(rep, q) == FoldSet(LAMBDA v, r : Union(r, v, CHOOSE w \in {e[2] : e \in {x \in entries : x[1] = q}} : TRUE),
                                rep, {e[2] : e \in {x \in entries : x[1] = q}})
    IN  FoldSet(LAMBDA q, rep : join(rep, q), [v \in 1 .. f.ssa |-> v], {e[1] : e \in entries})

-----------------------------------------------------------------------------
(* One block.  env: the function, its liveness, its webs and the register limit. *)

Fail(acc) == [acc EXCEPT !.failed = TRUE]
Used(acc) == Range(acc.ra)

\* assign_reg
AssignReg(acc, v, r) ==
    IF r = 0 \/ r \in Used(acc) \/ v \in DOMAIN acc.ra THEN Fail(acc)
    ELSE [acc EXCEPT !.ra = (v :> r) @@ @]

\* try_find_unused_reg_range(0, 1, 1, 0)
FindUnused(acc, limit) ==
    LET free == (1 .. limit) \ Used(acc) IN IF free = {} THEN 0 ELSE Min(free)

\* alloc_scalar: the last register of the phi web, or the first unused one.
AllocScalar(env, acc, v) ==
    LET hint == acc.assigned[env.webs[v]]
    IN  AssignReg(acc, v, IF hint # 0 /\ hint \notin Used(acc) THEN hint
                          ELSE FindUnused(acc, env.limit))
AllocScalars(env, acc, vals) == FoldLeft(LAMBDA a, v : AllocScalar(env, a, v), acc, vals)

\* free_killed
FreeKilled(acc, vals) ==
    IF vals \subseteq DOMAIN acc.ra THEN [acc EXCEPT !.ra = Restrict(@, DOMAIN @ \ vals)]
    ELSE Fail(acc)

RegsOf(ra, vals) == [k \in DOMAIN vals |-> ra[vals[k]]]
Emit(acc, i) == [acc EXCEPT !.instrs = Append(@, i)]

\* try_coalesce: the destination takes the register of a source that has died.
Coalesce(acc, i, regs, k) ==
    IF regs[k] \in Used(acc.acc) THEN [acc EXCEPT !.left = Append(@, k)]
    ELSE [acc EXCEPT !.acc = AssignReg(@, i.dst[k], regs[k])]

\* Op::Copy and Op::ParCopy; what is not coalesced is copied.
AssignCopy(env, acc, i, dying, dead) ==
    LET regs == RegsOf(acc.ra, i.src)
        freed == FreeKilled(acc, dying)
        c == FoldLeft(LAMBDA a, k : Coalesce(a, i, regs, k), [acc |-> freed, left |-> << >>],
                      [k \in DOMAIN i.dst |-> k])
        done == AllocScalars(env, c.acc, [j \in DOMAIN c.left |-> i.dst[c.left[j]]])
        copy == Instr("pcopy", [j \in DOMAIN c.left |-> done.ra[i.dst[c.left[j]]]],
                      [j \in DOMAIN c.left |-> regs[c.left[j]]])
    IN  IF done.failed THEN done
        ELSE FreeKilled(IF c.left = << >> THEN done ELSE Emit(done, copy), dead)

\* Op::PhiDsts
AssignPhiDsts(env, acc, i, dead) ==
    LET got == AllocScalars(env, acc, i.dst)
        expect == [k \in DOMAIN i.dst |-> [phi |-> TRUE, n |-> i.phi[k], reg |-> got.ra[i.dst[k]]]]
    IN  IF got.failed THEN got
        ELSE FreeKilled([got EXCEPT !.live_in = @ \o expect], dead)

\* The default arm for scalars: sources in place, killed ones freed, then the
\* destinations.
AssignPlain(env, acc, i, dying, dead) ==
    LET regs == RegsOf(acc.ra, i.src)
        got == AllocScalars(env, FreeKilled(acc, dying), i.dst)
    IN  IF got.failed THEN got
        ELSE FreeKilled(Emit(got, [i EXCEPT !.src = regs, !.dst = RegsOf(got.ra, i.dst)]), dead)

\* assign_regs_instr
AssignInstr(env, b, acc, ip) ==
    LET i == env.f.blocks[b][ip]
        dying == Dying(env.f, env.live, b, ip, i.src)
        dead == Dying(env.f, env.live, b, ip, i.dst)
    IN  IF acc.failed THEN acc
        ELSE IF ~(ToSet(i.src) \subseteq DOMAIN acc.ra) THEN Fail(acc)
        ELSE CASE i.op = "undef" -> FreeKilled(AllocScalars(env, acc, i.dst), dead)
               [] i.op = "phisrcs" ->
                     [acc EXCEPT !.phi_out = [q \in ToSet(i.phi) |->
                         acc.ra[i.src[Max({k \in DOMAIN i.phi : i.phi[k] = q})]]] @@ @]
               [] i.op = "phidsts" -> AssignPhiDsts(env, acc, i, dead)
               [] i.op \in {"copy", "pcopy"} -> AssignCopy(env, acc, i, dying, dead)
               [] OTHER -> AssignPlain(env, acc, i, dying, dead)

\* Values that are live into the block keep the register of the first
\* predecessor that has them.
TakeOver(env, b, acc, ra) ==
    FoldLeft(LAMBDA a, v : LET got == AssignReg(a, v, ra[v])
                           IN  [got EXCEPT !.live_in = Append(@, [phi |-> FALSE, n |-> v, reg |-> ra[v]])],
             acc, Ascending({v \in DOMAIN ra : v \in env.live.live_in[b] /\ v \notin DOMAIN acc.ra}))

\* pre_alloc_back_edge_live_in
PreAlloc(env, b, acc) ==
    FoldLeft(LAMBDA a, v : LET r == FindUnused(a, env.limit)
                           IN  [AssignReg(a, v, r) EXCEPT
                                  !.live_in = Append(@, [phi |-> FALSE, n |-> v, reg |-> r])],
             acc, Ascending(env.live.live_in[b] \ DOMAIN acc.ra))

\* first_pass, and the registers for what only an edge back brings.
FirstPass(env, st, b) ==
    LET f == env.f
        preds == ForwardPreds(f, b)
        acc0 == [ra |-> << >>, live_in |-> << >>, phi_out |-> << >>, instrs |-> << >>,
                 assigned |-> st.assigned, failed |-> st.failed]
        acc1 == FoldLeft(LAMBDA a, p : TakeOver(env, b, a, st.blocks[p].ra), acc0, preds)
        acc2 == FoldLeft(LAMBDA a, ip : AssignInstr(env, b, a, ip), acc1,
                         [ip \in DOMAIN f.blocks[b] |-> ip])
        \* the order of a hash map, here any of two
        vals == IF env.up THEN Ascending(DOMAIN acc2.ra) ELSE Reverse(Ascending(DOMAIN acc2.ra))
        web == FoldLeft(LAMBDA a, v : [a EXCEPT ![env.webs[v]] = acc2.ra[v]], acc2.assigned, vals)
        acc3 == IF HasBackEdge(f, b) /\ ~acc2.failed THEN PreAlloc(env, b, acc2) ELSE acc2
    IN  IF Unreachable(f, b) THEN [st EXCEPT !.blocks = Append(@, acc0)]
        ELSE [blocks |-> Append(st.blocks, acc3), assigned |-> web, failed |-> acc3.failed]

-----------------------------------------------------------------------------
(* The edges                                                                *)

\* Before the branch at the end.  Mutant: at the end.
Insert_End(block, i) == Append(block, i)

Insert(block, i) ==
    IF HasBranch(block) THEN Front(block) \o <<i, Last(block)>> ELSE Append(block, i)

\* second_pass: the copies for one successor.  A value the block does not have
\* comes from another predecessor.
SecondPass(blocks, acc, b, s) ==
    LET from == blocks[b]
        known == SelectSeq(blocks[s].live_in, LAMBDA l : l.phi \/ l.n \in DOMAIN from.ra)
        src(l) == IF l.phi THEN from.phi_out[l.n] ELSE from.ra[l.n]
        moves == SelectSeq(known, LAMBDA l : src(l) # l.reg)
        copy == Instr("pcopy", [k \in DOMAIN moves |-> moves[k].reg],
                      [k \in DOMAIN moves |-> src(moves[k])])
    IN  IF \E k \in DOMAIN known : known[k].phi /\ known[k].n \notin DOMAIN from.phi_out
        THEN Fail(acc)
        ELSE IF moves = << >> THEN acc
        ELSE [acc EXCEPT !.code = Insert(@, copy)]

BlockCode(f, blocks, b) ==
    FoldLeft(LAMBDA a, s : IF a.failed \/ Unreachable(f, s) THEN a ELSE SecondPass(blocks, a, b, s),
             [code |-> IF Unreachable(f, b) THEN f.blocks[b] ELSE blocks[b].instrs, failed |-> FALSE],
             IF Unreachable(f, b) THEN << >> ELSE f.cfg.succ[b])

Environment(f, live, up) ==
    [f |-> f, live |-> live, webs |-> PhiWebs(f), limit |-> Max({MinRegs, MaxLive(f, live)}), up |-> up]

\* PhiWebs::new, and the blocks in order.
FirstPasses(env) ==
    FoldLeft(LAMBDA a, b : IF a.failed THEN a ELSE FirstPass(env, a, b),
             [blocks |-> << >>, assigned |-> [v \in 1 .. env.f.ssa |-> 0],
              failed |-> ~PhiWebsDefined(env.f)],
             [b \in Blocks(env.f) |-> b])

\* assign_regs: the code over registers.
AssignRegs(env, st) ==
    LET code == [b \in Blocks(env.f) |-> BlockCode(env.f, st.blocks, b)]
    IN  IF st.failed THEN [env.f EXCEPT !.failed = TRUE]
        ELSE [env.f EXCEPT !.blocks = [b \in Blocks(env.f) |-> code[b].code], !.ssa = env.limit,
                           !.failed = \E b \in Blocks(env.f) : code[b].failed]
=============================================================================
