----------------------------- MODULE RepairSsa -----------------------------
(***************************************************************************)
(* repair_ssa.rs: repair_ssa and fix_entry_live_in, and the union-find of     *)
(* union_find.rs.                                                           *)
(*                                                                         *)
(* The tracker st has, for each block, the current value of each multiply     *)
(* defined value (defs) and the phis wanted at its start (phis); the blocks    *)
(* whose edges back still need phi sources (needs); the undefined values made  *)
(* up for blocks without predecessors; the allocators; and whether the code    *)
(* has failed.                                                              *)
(***************************************************************************)
EXTENDS MidPasses

\* The value of ssa at the end of block b, by a work list that takes the
\* earliest block first: [st, val].
RECURSIVE Resolve(_, _, _, _)
Resolve(f, st, work, ssa) ==
    LET b == Min(work)
        preds == f.cfg.pred[b]
        forward == SelectSeq(preds, LAMBDA p : p < b)
        unknown == {p \in ToSet(forward) : ssa \notin DOMAIN st.defs[p]}
        vals == {st.defs[p][ssa] : p \in ToSet(forward) \ unknown}
        all_same == Len(forward) = Len(preds) /\ Cardinality(vals) <= 1
        finish(s, v) ==
            LET known == [s EXCEPT !.defs[b] = (ssa :> v) @@ @]
            IN  IF work = {b} THEN [st |-> known, val |-> v]
                ELSE Resolve(f, known, work \ {b}, ssa)
    IN  IF ssa \in DOMAIN st.defs[b]
        THEN IF work = {b} THEN [st |-> st, val |-> st.defs[b][ssa]]
             ELSE Resolve(f, st, work \ {b}, ssa)
        ELSE IF unknown # {} THEN Resolve(f, st, work \cup unknown, ssa)
        ELSE IF all_same /\ vals # {} THEN finish(st, CHOOSE v \in vals : TRUE)
        ELSE IF all_same /\ b # Entry /\ preds = << >>
        THEN finish([st EXCEPT !.ssa = @ + 1, !.undefs = Append(@, <<b, st.ssa + 1>>)],
                    st.ssa + 1)
        ELSE IF all_same THEN [st |-> [st EXCEPT !.failed = TRUE], val |-> ssa]
        ELSE LET phi == [phi  |-> st.phi + 1, orig |-> ssa, dst |-> st.ssa + 1,
                         srcs |-> [p \in ToSet(forward) |-> st.defs[p][ssa]]]
             IN  finish([st EXCEPT !.phi = @ + 1, !.ssa = @ + 1,
                                   !.phis[b] = Append(@, phi),
                                   !.needs = @ \cup {p \in ToSet(preds) : p >= b}],
                        st.ssa + 1)

\* One use and one definition of a value defined more than once.
RenameUse(f, multi, b, acc, v) ==
    IF v \notin multi \/ acc.st.failed THEN [acc EXCEPT !.new = Append(@, v)]
    ELSE LET r == Resolve(f, acc.st, {b}, v)
         IN  [st |-> r.st, new |-> Append(acc.new, r.val)]
RenameDef(f, multi, b, acc, v) ==
    IF v \notin multi THEN [acc EXCEPT !.new = Append(@, v)]
    ELSE LET w == acc.st.ssa + 1
         IN  [st |-> [acc.st EXCEPT !.ssa = w, !.defs[b] = (v :> w) @@ @],
              new |-> Append(acc.new, w)]

\* The destinations of i, and the renamed instruction.
RenameDefs(f, multi, b, acc, i, uses) ==
    LET defs == FoldLeft(LAMBDA a, v : RenameDef(f, multi, b, a, v),
                         [st |-> uses.st, new |-> << >>], i.dst)
    IN  [st |-> defs.st, instrs |-> Append(acc.instrs, [i EXCEPT !.src = uses.new,
                                                                 !.dst = defs.new])]

\* Uses come before definitions.
RenameInstr(f, multi, b, acc, i) ==
    IF acc.st.failed THEN acc
    ELSE RenameDefs(f, multi, b, acc, i,
                    FoldLeft(LAMBDA a, v : RenameUse(f, multi, b, a, v),
                             [st |-> acc.st, new |-> << >>], i.src))

RenameBlock(f, multi, acc, b) ==
    LET r == FoldLeft(LAMBDA a, i : RenameInstr(f, multi, b, a, i),
                      [st |-> acc.st, instrs |-> << >>], f.blocks[b])
    IN  IF acc.st.failed THEN acc
        ELSE [st |-> r.st, blocks |-> Append(acc.blocks, r.instrs)]

\* All blocks in layout order, from a tracker that knows nothing.
RenameAll(f, multi) ==
    LET st == [defs |-> [b \in Blocks(f) |-> << >>], phis |-> [b \in Blocks(f) |-> << >>],
               needs |-> {}, undefs |-> << >>, ssa |-> f.ssa, phi |-> f.phi, failed |-> FALSE]
    IN  FoldLeft(LAMBDA acc, b : RenameBlock(f, multi, acc, b),
                 [st |-> st, blocks |-> << >>], [b \in Blocks(f) |-> b])

\* The source of phi k of block s for the edge back from b.  While the phis of
\* s are borrowed none may be added to s.
BackSource(f, b, s, st, k) ==
    IF b \in DOMAIN st.phis[s][k].srcs THEN st
    ELSE LET r == Resolve(f, st, {b}, st.phis[s][k].orig)
         IN  [r.st EXCEPT !.phis[s][k].srcs = (b :> r.val) @@ @,
                          !.failed = @ \/ Len(r.st.phis[s]) # Len(st.phis[s])]

\* The earliest block that needs sources.
BackEdgesOf(f, st) ==
    LET b == Min(st.needs)
        back == SelectSeq(f.cfg.succ[b], LAMBDA s : s <= b)
        one(acc, s) == FoldLeft(LAMBDA a, k : BackSource(f, b, s, a, k), acc,
                                [k \in DOMAIN acc.phis[s] |-> k])
    IN  FoldLeft(one, [st EXCEPT !.needs = @ \ {b}], back)

RECURSIVE BackEdges(_, _)
BackEdges(f, st) == IF st.needs = {} THEN st ELSE BackEdges(f, BackEdgesOf(f, st))

-----------------------------------------------------------------------------
(* Redundant phis.  rep maps a value to the representative of its class.      *)

Find(rep, v) == rep[v]
Union(rep, a, b) == [v \in DOMAIN rep |-> IF rep[v] = rep[b] THEN rep[a] ELSE rep[v]]

\* One phi: remap its sources; it goes when they are one value besides itself.
VisitPhi(acc, phi) ==
    LET srcs == [p \in DOMAIN phi.srcs |-> Find(acc.rep, phi.srcs[p])]
        others == Range(srcs) \ {phi.dst}
        seen == [phi EXCEPT !.srcs = srcs]
    IN  IF Cardinality(others) > 1 THEN [acc EXCEPT !.kept = Append(@, seen)]
        ELSE IF others = {} THEN [acc EXCEPT !.failed = TRUE]
        ELSE [acc EXCEPT !.rep = Union(@, CHOOSE v \in others : TRUE, phi.dst), !.to_do = TRUE]

RECURSIVE DropRedundant(_, _)
DropRedundant(st, rep) ==
    LET visit(acc, b) ==
            LET r == FoldLeft(VisitPhi, [rep |-> acc.rep, kept |-> << >>, to_do |-> acc.to_do,
                                         failed |-> acc.failed], st.phis[b])
            IN  [rep |-> r.rep, to_do |-> r.to_do, failed |-> r.failed,
                 phis |-> Append(acc.phis, r.kept)]
        round == FoldLeft(visit, [rep |-> rep, to_do |-> FALSE, failed |-> st.failed,
                                  phis |-> << >>], [b \in DOMAIN st.phis |-> b])
        next == [st EXCEPT !.phis = round.phis, !.failed = round.failed]
    IN  IF round.to_do /\ ~round.failed THEN DropRedundant(next, round.rep)
        ELSE [st |-> next, rep |-> round.rep]

-----------------------------------------------------------------------------
(* Placing the phis                                                         *)

\* get_or_insert_phi_dsts, and the destinations pushed onto it.
AddPhiDsts(block, phis) ==
    LET new == [k \in DOMAIN phis |-> phis[k].dst]
        ids == [k \in DOMAIN phis |-> phis[k].phi]
    IN  IF phis = << >> THEN block
        ELSE IF block # << >> /\ block[1].op = "phidsts"
        THEN [block EXCEPT ![1].dst = @ \o new, ![1].phi = @ \o ids]
        ELSE <<[Instr("phidsts", new, << >>) EXCEPT !.phi = ids]>> \o block

\* phi_srcs_ip: before the branches at the end, or 0.
PhiSrcsIp(block) ==
    LET n == Max({0} \cup {k \in DOMAIN block : ~IsBranch(block[k])})
    IN  IF n > 0 /\ block[n].op = "phisrcs" THEN n ELSE 0

\* get_or_insert_phi_srcs: a new one goes before the last branch.
AddPhiSrcs(block, entries) ==
    LET ids == [k \in DOMAIN entries |-> entries[k][1]]
        new == [k \in DOMAIN entries |-> entries[k][2]]
        ip == PhiSrcsIp(block)
        made == [Instr("phisrcs", << >>, new) EXCEPT !.phi = ids]
    IN  IF ip # 0 THEN [block EXCEPT ![ip].src = @ \o new, ![ip].phi = @ \o ids]
        ELSE IF HasBranch(block) THEN Front(block) \o <<made, Last(block)>>
        ELSE Append(block, made)

\* Mutant: the phis of a single successor only.
PhiSuccs_Single(f, st, b) == IF Len(f.cfg.succ[b]) = 1 THEN f.cfg.succ[b] ELSE << >>

\* A block with one successor serves it, one with several those that have phis.
PhiSuccs(f, st, b) ==
    IF Len(f.cfg.succ[b]) = 1 THEN f.cfg.succ[b]
    ELSE SelectSeq(f.cfg.succ[b], LAMBDA s : st.phis[s] # << >>)

PlacePhis(f, st, rep, b, block) ==
    LET dsts == AddPhiDsts(block, st.phis[b])
        mapped == [k \in DOMAIN dsts |->
                     [dsts[k] EXCEPT !.src = [j \in DOMAIN @ |-> Find(rep, @[j])]]]
        entries(s) == LET has == SelectSeq(st.phis[s], LAMBDA p : b \in DOMAIN p.srcs)
                      IN  [k \in DOMAIN has |-> <<has[k].phi, Find(rep, has[k].srcs[b])>>]
        add(acc, s) == IF st.phis[s] = << >> THEN acc ELSE AddPhiSrcs(acc, entries(s))
    IN  FoldLeft(add, mapped, PhiSuccs(f, st, b))

\* OpUndef at the start of the blocks that asked for one.
PlaceUndefs(undefs, b, block) ==
    FoldLeft(LAMBDA acc, u : IF u[1] = b THEN <<Instr("undef", <<u[2]>>, << >>)>> \o acc ELSE acc,
             block, undefs)

\* The values defined more than once.
MultiDefs(f) == {v \in DefsOf(f) :
                    \/ Cardinality(DefPlaces(f, v)) > 1
                    \/ \E p \in DefPlaces(f, v) :
                          LET d == f.blocks[p[1]][p[2]].dst
                          IN  \E j, k \in DOMAIN d : j # k /\ d[j] = v /\ d[k] = v}

\* The phis that are left and the undefined values are put into the code.
PlaceAll(f, blocks, few) ==
    IF few.st.failed THEN [f EXCEPT !.failed = TRUE]
    ELSE [f EXCEPT !.blocks = [b \in Blocks(f) |->
                                 PlaceUndefs(few.st.undefs, b,
                                             PlacePhis(f, few.st, few.rep, b, blocks[b]))],
                   !.ssa = few.st.ssa, !.phi = few.st.phi]

\* Only a graph with loops can have redundant phis.
Necessary(f, st) ==
    LET self == [v \in 1 .. st.ssa |-> v]
    IN  IF HasLoop(f.cfg) THEN DropRedundant(st, self) ELSE [st |-> st, rep |-> self]

WithPhis(f, named) ==
    IF named.st.failed THEN [f EXCEPT !.failed = TRUE]
    ELSE PlaceAll(f, named.blocks, Necessary(f, BackEdges(f, named.st)))

\* repair_ssa; failed is the code's error or panic.
RepairMulti(f, multi) == IF multi = {} THEN f ELSE WithPhis(f, RenameAll(f, multi))
Repair(f) == RepairMulti(f, MultiDefs(f))

-----------------------------------------------------------------------------
(* fix_entry_live_in                                                        *)

\* Blocks the entry does not reach are cleared and disconnected.
ClearUnreachable(f) ==
    LET dead == Blocks(f) \ Reachable(f.cfg)
    IN  [f EXCEPT !.blocks = [b \in Blocks(f) |-> IF b \in dead THEN << >> ELSE @[b]],
                  !.cfg = FoldLeft(LAMBDA g, b : DisconnectBlock(g, b), @,
                                   Ascending(dead))]

\* Every value defined or used anywhere is defined at the entry first.  What is
\* live into the entry is among them.  Mutant: none is.
WithUndefs_None(f, vals) == f

WithUndefs(f, vals) ==
    [f EXCEPT !.blocks[Entry] =
        [k \in 1 .. Cardinality(vals) |-> Instr("undef", <<Ascending(vals)[k]>>, << >>)] \o @]

DceUnlessFailed(f) == IF f.failed THEN f ELSE OptDce(f)

FixEntryLiveIn(f) ==
    IF DefsOf(f) = {} THEN f
    ELSE DceUnlessFailed(Repair(WithUndefs(ClearUnreachable(f), DefsOf(f) \cup UsesOf(f))))
=============================================================================
