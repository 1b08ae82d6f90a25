# coralReef in TLA+

coralReef is a shader compiler (WGSL, SPIR-V and GLSL through naga, to NVIDIA and
AMD machine code) and a server that offers it to other programs over local
sockets and TCP. This directory holds TLA+ models of the parts of it whose
correctness is an argument about many steps, the TLC configurations that check
them, and TLAPS proofs.

`PROJECT.json` is the index: components, runs, mutants, the map from every
definition to the source lines it stands for, findings, hazards, theorems.

To check one run: `tlc -config LowerParCopy.cfg MCLowerParCopy`.
To check the proofs of a component: `tlapm LowerParCopyProofs.tla`.

## 1. The system

### The compiler (`crates/coral-reef`, `crates/coral-reef-stubs`)

`codegen/pipeline.rs` runs a fixed sequence of passes over one `Shader`:

    naga module --naga_translate--> SSA over a CFG --opt_*, fix_entry_live_in,
    lower_fma, sched_prepass, lower_f64, legalize--> legal SSA
    --assign_regs (liveness, spill, to_cssa, blocks)--> registers + OpParCopy
    --lower_par_copies, lower_copy_swap--> machine operations
    --assign_deps_serial, sched_postpass--> encoder

It is sequential and keeps no state between shaders. What is hard is not
concurrency but invariants that one pass establishes and another relies on, and
that only break for particular shapes of program, of control flow or of
register layout:

| part | state | operations | must hold |
|---|---|---|---|
| control flow translation (`naga_translate/func*.rs`) | open block, CFG edges, loop stack, `var_storage`, `dead_code` | one per statement | the emitted blocks behave as the program; edges are the branches; every phi has a source per edge |
| CFG library (`coral-reef-stubs/src/cfg`) | cached dominators, loop depths, tree numbers | build, analyse, query, disconnect a block | the answers are those of the paths of the graph; the iteration ends; the cache is not stale |
| middle end (`opt_dce`, `opt_jump_thread`, `repair_ssa`, `to_cssa`) | the function being rewritten | mark, thread, insert phis and undefs, coalesce | the function stores what it stored before, for every outcome of its branches |
| block-level assignment (`assign_regs/{mod,block,types}.rs`) | per-block allocators, phi webs, live-in lists | `first_pass`, pre-allocation for back edges, `second_pass` | the same, with values in registers |
| register assignment in a block (`assign_regs/reg_allocator.rs`, `instr_assign.rs`) | `ssa_reg`, `reg_ssa`, `used`, `pinned`, evictions, the parallel copy | one per instruction, alloc, free, evict, finish | every live value is in the register the tables say; no assert fails |
| parallel copies (`lower_par_copies.rs`) | copy graph, ready stack | build, ready loop, cycle loop | sequential copies and swaps have the effect of the parallel copy |
| copies and swaps (`lower_copy_swap.rs`) | spill memory size | lower one copy or swap | every copy and swap that reaches it has an instruction |
| dependencies and post-RA scheduling (`calc_instr_deps`, `opt_instr_sched_postpass`) | scoreboard masks, dependency graph, delays per block | annotate, reorder, data flow to a fixed point | no instruction issues before what it depends on is done |
| spilling, pre-RA scheduling | next-use distances | heuristics | not modelled, see section 6 |
| encoders, PTX emitter, f64 lowering, legalization, generated tables | none | case analysis | not a subject for a state machine |

### The server (`crates/coralreef-core`)

`cmd_server` opens three listeners, each an accept loop in a task of its own,
writes a discovery file and a PID file, registers with an ecosystem registry and
waits for a signal. On a signal it writes a watch channel, joins the loops under
a timeout, removes its files and returns. Peers find a server through names in a
directory that all servers share: a socket per family, one `{domain}.sock` link,
one discovery file, one PID file. Processes therefore interact through the file
system, system call by system call, and may die between any two. An accept loop
dispatches a connection inline (first byte, first line, protocol negotiation,
BTSP handshake), so it is also at the mercy of its peers; the connection is then
served by a task of its own, with compilations on tokio's blocking pool.

| part | state | must hold |
|---|---|---|
| start and stop | listeners, files, exit code | a serving server is reachable, a stopped one leaves nothing, a signalled one ends |
| connection dispatch | the await it stands at, the backlog, bytes read ahead | every line is answered once, in order, in the framing its sender uses; a silent peer does not hold up the others |
| BTSP handshake and sessions | a global map | a session is known to the connection that made it |
| compile deadline (tarpc) | blocking pool, pending requests | a late compilation does not answer twice; no request waits for ever |
| registration and heartbeat | none | not modelled: best-effort requests without state |

`PROJECT.json` lists all the parts, including those left out and why, and the
hazards at the lines where they bite.

## 2. Modules

| module | models | extends |
|---|---|---|
| `ParallelCopy` | the abstract parallel copy: every destination receives, once, the value its source had | |
| `LowerCopySwap` | which copies and swaps `lower_copy`/`lower_swap` have instructions for; the three-XOR and `plop3` swaps as sequences of machine steps | |
| `LowerParCopy` | `lower_par_copy`: copy graph, ready stack, cycle breaking with swaps or through `pc.tmp`; instantiates `ParallelCopy` | `LowerCopySwap` |
| `LowerParCopyProofs` | the theorems about it | `LowerParCopy`, `TLAPS` |
| `RegAlloc` | `RegAllocator`, `VecRegAllocator`, `instr_assign_regs_file` and the Copy, Pin, Unpin arms of `assign_regs_instr`, for one block and one register file | |
| `RegAllocProofs` | no value is lost, the tables agree, operands hold their values | `RegAlloc`, `TLAPS` |
| `RegAllocRoomProofs` | registers are always found | `RegAllocProofs` |
| `FuncControl` | `FuncTranslator`: if, loop, switch, break, continue, return, promoted variables, inlined calls | |
| `FuncControlExec` | a naga-IR interpreter and a machine for the emitted blocks, run in lockstep | `FuncControl` |
| `FuncControlProofs` | the phis of the translated function are complete | `FuncControlExec`, `TLAPS` |
| `FuncControlEdgeProofs` | its CFG edges are where its code goes | `FuncControlProofs` |
| `Cfg` | the graph, its builder and its traversals | |
| `CfgDom` | dominators, loop depths, tree numbers, `loop_header_index`, the cache | `Cfg` |
| `MidIr` | functions as blocks of instructions, and what they store when run | `Cfg` |
| `MidPasses` | `opt_dce`, `opt_jump_thread` with `rewrite_cfg` and `opt_fall_through`, `SimpleLiveness` | `MidIr` |
| `RepairSsa` | `fix_entry_live_in`, `repair_ssa`, union-find | `MidPasses` |
| `ToCssa` | conversion to conventional SSA | `RepairSsa` |
| `AssignRegs` | phi webs, register limit, `first_pass`, back-edge pre-allocation, `second_pass` | `ToCssa` |
| `MidEnd` | the passes above, one action each, in the order of the pipeline | `AssignRegs` |
| `InstrDeps` | `assign_deps_serial`, `assign_barriers`, the post-RA scheduler | |
| `InstrDepsProofs` | the scheduler keeps conflicting instructions in order | `InstrDeps`, `TLAPS` |
| `CalcDelays` | `calc_delays` and the machine that runs the annotated code | `InstrDeps`, `Cfg` |
| `ServerLifecycle` | `cmd_server`, the accept loops, the shared files, several processes, kills | |
| `ServerLifecycleProofs` | what a serving server holds and a stopped one leaves | `ServerLifecycle`, `TLAPS` |
| `Connections` | backlog, dispatch, negotiation, BTSP relay, JSON-RPC loop, tarpc requests, blocking pool | |
| `ConnectionsProofs` | replies and framing | `Connections`, `TLAPS` |
| `MC*` | the instances TLC checks | the module named |

### LowerParCopy and ParallelCopy

One behaviour lowers one parallel copy. The initial states are all the copies
`assign_regs` can build over `NumDst` destinations and `NumSrc` further sources
(every source function, every combination of register files that `ParCopyPair`
allows, `pc.tmp` present where the code needs it). `BuildEdge`, `ScanReady`,
`CopyReady`/`SkipReady`, `SwapStep`, `TmpSave`/`TmpMove`/`TmpRestore` and
`SkipIsolated` are the iterations of the loops of the function. Instead of
keeping the emitted program, the model runs it: `reg` and `tmp` are the machine
after the instructions so far, with values as sets of bits so that the XOR swap
is computed, not assumed. `ParallelCopy` says what all this is for without a
program; the mapping takes a destination as served (`Delivered`) once its copy
left the graph, so a step that disturbs a served destination refines nothing.

### RegAlloc

A behaviour assigns registers to an instruction chosen freely among those that
are legal (`LegalSrcs`, `FitsMaxLive`): vector sources collected in place or
elsewhere with evictions, vector destinations allocated, killed sources freed,
evicted values re-homed by `finish`, scalar destinations coalesced or allocated.
Each loop iteration of `VecRegAllocator` is a step, because the interesting
states are between them. The four tables are written by one operator: `Reassign`
frees some values and gives others their places, as runs of `free_ssa` and
`assign_reg` do. `val` is what the machine registers hold; the parallel copy is
applied to it when the instruction is emitted, which is also when OpPin pins its
destination and destinations nobody reads are freed. SSA names are recycled: a
new value gets the lowest name that is dead, so that blocks of any length need no
more names than there are values.

### FuncControl and FuncControlExec

In phase `translate` the program is chosen token by token while `FuncTranslator`
consumes it; `frames` is its recursion stack with the locals of `translate_if`,
`translate_loop`, `translate_switch` and `inline_call`. One promoted variable is
enough to see phis: slots do not interact. When the program is complete, a source
interpreter and a machine for the emitted blocks run side by side with the same
branch decisions. They must meet at every event (a decision, a store, the value of
a read, an exit). Constructs on which the translation is known to differ from the
source are admitted only when `Forms` names them, and the passing run names none:
it shows that within its bounds no other construct of the model differs. A case
that falls through is told by its closing token (`EndCase`), since the translator
has nothing to remember of it; the source interpreter goes on in the next body.
The model's default is the last case, and a break of a switch that stands in a
continuing block is left out.

### Cfg and CfgDom

The Cooper-Harvey-Kennedy iteration block by block, the search for natural loops
in every order the hash map may give, the pre-order walk, and the query the
spiller makes, on graphs that may lose an unreachable block to
`disconnect_block` afterwards. The references are definitions by paths
(`DominatesRef`, `LoopOf`).

### MidIr to MidEnd

A function is a sequence of blocks over SSA values, not necessarily in SSA form
when it comes in: the front end's output is not either, and `fix_entry_live_in`
is there to repair it. `MidEnd` takes a function and one action per pass, in the
order of `pipeline.rs`; a pass is an operator on functions, recursive where the
code loops. `want` records what the function stored before the first pass for
every outcome of its branches (terms rather than numbers, so that equal means
computed the same way); after each pass the function is run again. `Run` takes
the places of the values as a parameter: every value apart, or one place per phi
web, or registers, which is how the phi congruence property and the register
assignment are judged by their meaning.

### InstrDeps and CalcDelays

Both passes that decide who waits for whom: `assign_deps_serial`, which the
pipeline runs before the post-RA scheduler, and `assign_barriers` with
`calc_delays`. The machine issues in order; operations that need a scoreboard
stay in flight until somebody waits for their barrier (the slowest hardware),
everything else ends with its latency. An instruction that issues while one it
depends on is in flight is a hazard. `generate_order` may take any order its
graph allows: the heuristics only choose among them.

### ServerLifecycle

`pc[p]` walks through `cmd_server`; `task[p][l]` is the await at which the accept
loop of listener `l` stands; `sock`, `link`, `disc` and `pidf` are the shared
names and whose file is behind them. `exists()`, `remove_file()`, `bind()` and
`symlink()` are separate steps. `link.exists()` follows the link, as in the code:
a dangling link does not exist, but its name is taken. Returning from `cmd_server`
drops the sender of the watch channel and then the runtime: a loop may still
notice the former before it is dropped by the latter, and the two unlinks at its
end are never cut apart by a drop, only by a kill. A process is started at most
once, with a configuration chosen at its launch, and its memory is forgotten when
it exits; what it left on disk stays. A TCP bind and the writing of the
discovery and PID files may fail at will; other file operations fail only because
a name exists or is missing. Running compilations, which also delay the drop of
the runtime, are left out.

### Connections

One connection per peer, from `connect` to its last reply. The first line of a
peer arrives in two pieces because the dispatch reads its first byte by itself;
the listener is busy until the dispatch hands the connection to a task. A
PROTOCOLS line may be too long or not UTF-8 (`NegotiateRefused`).
Peers may stop anywhere, shut down their writing side or vanish; a timeout may
elapse whenever its bytes are not there. The provider may answer or fail, or
not answer. Tarpc requests of a connection run concurrently, each against its
deadline; a deadline abandons the compilation but does not stop it, so it keeps
its thread of the pool. `RepliesMatch` numbers a JSON-RPC reply by counting the
requests answered before it.

## 3. Runs

Passing runs (distinct states are approximate).

| run | cfg | instance | shows |
|---|---|---|---|
| `parcopy` | `LowerParCopy` | all copies of 4 destinations and 1 more source over GPR, UGPR, predicates, spill memory, barriers and constants | copies and swaps have the effect of the parallel copy and refine `ParallelCopy`; every emitted copy has an instruction; termination |
| `regalloc` | `RegAlloc` | 6 registers, scalars and pairs, up to 2 sources and 2 destinations, with and without a pinned vector, from every allocator state | live values and sources stay where the four tables say, the copy is well formed, no assert fails, pinned values stay |
| `control` | `FuncControl` | all programs of 8 tokens, all statements, depth 3, 2 stores, without the forms listed below | emitted code follows the source and never circles silently, edges match branches, phis are complete |
| `cfg` | `CfgDom` | all graphs of 4 blocks with up to 2 edges each | dominators, their convergence, loop depths, tree numbers and header queries agree with their definitions by paths, also after a block was disconnected |
| `midend` | `MidEnd` | 13 control flow shapes, each with all combinations of a few bodies over two or three variables; 16 outcomes of the branches | no pass fails; the stores are kept; strict SSA after the repair; liveness exact; phi congruence and registers where no edge is critical |
| `deps` | `InstrDeps` | straight, looping and branching code of three instructions over two registers, with blocks that end in a branch and blocks that do not, both passes | the schedule keeps conflicting pairs in order, no hazard on any path (in serial mode when every block ends in a branch), the data flow ends |
| `server_restart` | `ServerLifecycleRestart` | two processes one after the other, every mode, two families and a path outside the directory, one kill | sockets are recovered, the capability link leads to the serving server, a joined stop leaves nothing, a signalled server ends |
| `server_race` | `ServerLifecycleRace` | two processes of one family side by side, up to symmetry | no server waits for a signal without a listener |
| `connections` | `Connections` | two peers of any two of eleven kinds, either mode, with and without tarpc, one pool thread; 2.0 M | each line is answered once and in order, both ends agree on the framing, every whole line is answered in the end |

Runs that refute what a comment, a document or a test says (the quotations are
in `PROJECT.json`, "findings"):

| run | cfg | what happens |
|---|---|---|
| `control_switch_update` | `FuncControlSwitchUpdate` | a variable stored in one case reads undefined after the switch on the other paths |
| `allocation_critical_edge` | `MidEndCritical` | the copies for the block after an `if` without `else` run on the way into the arm as well |

The same models show further limits of the code, which have no run of their own.
The passing runs leave out exactly these cases, by the named condition.

Front end:

* `break` in a switch inside a loop leaves the loop, and a `return` inside an
  `if`, loop or switch of an inlined function only sets `dead_code`, which the
  enclosing statement clears again, so control falls through into the rest of the
  callee. Admitted by `Forms = {"break in switch"}` and `{"nested return in call"}`;
  `CodeFollowsSource` then fails, with the second also `EdgesMatchBranches`.
* `translate_switch` reads the value and the body of a case, not its
  `fall_through`, which naga sets, with an empty body, for all selectors but the
  last of `case 1u, 2u`: the shared body is then run for the last selector only.
  Admitted by `Forms = {"fall through in switch"}`; `CodeFollowsSource` then fails.
* Every `if` without `else` makes a critical edge, and no later pass splits it.

Middle end:

* A loop with `break_if` whose variables are read after it: `PhiWebs::new`
  (`assign_regs/types.rs:193`) indexes the exit's destinations by the header's
  phis and panics. The instance `BreakIfWith` with an exit that reads its phis
  violates `PassesSucceed`; the checked one, `BreakIfUnread`, does not read them.
* `rewrite_cfg` looks only at a block's last branch. When jump threading changes
  anything in a function with such a loop, the edge to the exit is lost and
  `fix_entry_live_in` clears the code after the loop (`SemanticsKept`).
* `init_sets` (`to_cssa.rs:152`) lists only the first node of a phi's set, so
  `PhiCongruence` fails on `break_if` latches; `PhiCongruenceSplit` leaves out
  functions with critical edges, to which they belong.
* `sets_interfere` of a set with itself is true: a harmless extra copy.
  `repair_ssa` pushes the sources of a phi twice for two edges to one successor.
  A comment in `rewrite_cfg` says the builder removes dead blocks; it removes none.

CFG library:

* `loop_header_index` (`dom.rs:37`) never returns for the header of an outermost
  loop, because the walk stays at the entry; `HeaderQueryAnswers` says that this
  happens for no other block. The spiller makes the query.
* `compute_loop_depth` looks at one latch per header, whichever the hash map
  gives first; `LoopDepths` is about headers with one latch.

Dependencies:

* `assign_deps_serial` starts every block with an empty wait mask and relies on
  the branch that ends a block to wait for everything. Where a block runs into the
  next one without a branch (before a loop header, or after `opt_fall_through`),
  the next block's first instructions do not wait for it. So `HazardFree` asks of
  the serial pass only code whose blocks all end in a branch; without that
  condition it fails. `assign_barriers` and `calc_delays` have no such limit.
* `calc_delays` is not monotone: there is code on a ring of three blocks for
  which its input alternates for ever. `FlowCompletes` is about the code of the
  run: a loop of one block, and one of three blocks with a branch inside.

Server:

* A peer slow in its negotiation or handshake makes a stopping server end
  without removing its socket (`tests_unix_edge.rs:482` asserts removal);
  `CleanExit` is about stops that joined their loops.
* `prepare_local_bind` does not ask whether the socket it removes is still in use,
  so of two servers side by side one may serve on a name that leads to the other;
  `ServingReachable` is a property of servers that follow one another.
* A kill between the two unlinks of a stop leaves a dangling capability link,
  which `link.exists()` does not see and `symlink()` does not replace;
  `DomainLinkReachable` excepts killed servers for that reason.
* Discovery and PID files are named after the crate alone: of two families side
  by side, the one that stops first removes the other's.

Connections (those that keep a line unanswered are exceptions written into `PeersAnswered`):

* The rest of a PROTOCOLS line, the ChallengeResponse and the provider's answers
  are awaited without a timeout, in the accept branch: they hold up the backlog.
* A PROTOCOLS line that is not UTF-8 is consumed without a reply. One of more than
  256 bytes is given up within, and its rest read as a JSON-RPC line.
* A JSON-RPC compilation has no deadline (`STATUS.md:56` says "all IPC handlers").
* The TCP listener consumes a ClientHello without a ServerHello: both ends wait.
* A relayed session is never registered, so `btsp.negotiate` is refused on the
  connection that has just made the handshake.

### Bounds, and why they are enough

* Parallel copies: four destinations allow two 2-cycles, 3- and 4-cycles, trees
  hanging off a cycle and fan-out; longer cycles repeat the same step, and the
  proof removes the bound altogether.
* Registers: with pairs, six registers hold two vectors that must swap around
  three scalars, so eviction chains of length two happen; `EnoughRegs` is the
  condition `assign_regs` itself establishes. The run starts from every allocator
  state, so one instruction is enough: each later one starts from such a state.
* Programs: eight tokens nest an `if` in a loop in a loop, or put break,
  continue and return in both arms of an if-else in a loop. `MaxStores` keeps the
  values of the variable apart.
* Graphs: four blocks hold two nested loops, two headers that enter each other
  (irreducible), and an unreachable cycle with an edge into the rest.
* Functions: a loop in a loop with an if around a variable that lives through both.
  An execution visits at most `Fuel` = 16 blocks, several rounds of every
  loop; two executions are compared as far as both got. `MinRegs = 1` (16 in the
  code) gives a function exactly as many registers as are live at once; with 16,
  no small function would meet a full file.
* Dependencies: two barriers (6 in the code) so that they run out, two registers
  so that every pair of instructions can conflict in every way, latencies that
  differ for the three kinds of conflict. `MaxRounds` only caps the counter that
  `FlowCompletes` bounds.
* Processes: two, since every interaction found is between a process and one
  other, earlier or concurrent.
* Connections: two, one to be slow and one to wait behind it, in the backlog or
  for the one thread of the pool. Two requests per peer make order and the
  framing after the negotiation visible.

### Fairness

* The compiler passes are loops of one thread: weak fairness of their next-state
  relation (`FairSpec` of LowerParCopy; the joint step of source and machine in
  FuncControlExec, where a run is only shown not to circle silently). The other
  passes' loops end by invariants on counters of iterations (`DominatorsConverge`,
  `FlowCompletes`), which need no fairness.
* ServerLifecycle: weak fairness of the steps of `cmd_server` and of the awaits
  that the code puts under `tokio::time::timeout`; strong fairness of the shutdown
  branch, because `select!` picks at random among its ready branches. No fairness
  of peers, of the security provider, of signals or of launches.
* Connections: weak fairness of each connection's own server steps, timeouts
  included, and of `accept`: tokio polls every task that is ready. None of peers,
  of the provider, or of compilations, which may run for ever.

`CHECK_DEADLOCK FALSE` is set for the server and connection runs only: when
every process has exited, or every peer has gone or is silent, nothing is left to
do. `ShutdownCompletes` and `PeersAnswered` say that they do not stop short of it.

## 4. Proofs

TLC checks small instances; what follows is proved for every value of the
constants that satisfies the named assumptions of the module. An inductive
invariant was first checked by TLC on an instance, then proved: it holds
initially, every action keeps it (one lemma per action), and it implies the
property.

| module | theorems | for every |
|---|---|---|
| `LowerParCopyProofs` | `Correct`, `Refinement`, `CyclesLeft`, `PendingKept`, `TypeCorrect`, `AllLowerable` | number of destinations and sources, kinds of nodes, values |
| `RegAllocProofs` | `TablesAgreeHolds`, `LiveValuesHeldHolds`, `SourcesHeldHolds`, `CopyWellFormedHolds`, `PinnedStayHolds` | register file, vector width up to 4, number of operands, length of the block |
| `RegAllocRoomProofs` | `AssertsHoldHolds` | the same |
| `FuncControlProofs` | `PhisCompleteHolds` | program, of any length and nesting, in all the forms of `Forms` |
| `FuncControlEdgeProofs` | `EdgesMatchBranchesHolds` | program, of any length and nesting, in which no inlined function returns from inside an `if`, loop or switch |
| `InstrDepsProofs` | `ScheduleKeepsConflictsHolds` | code in layout order over any registers, any order the graph allows |
| `ServerLifecycleProofs` | `ServesSomewhereHolds`, `CleanExitHolds`; `ServingReachableHolds`, `DomainLinkReachableHolds` when servers follow one another | number of processes, configurations, kills |
| `ConnectionsProofs` | `RepliesMatchHolds`, `FramingAgreesHolds` | number of peers, profiles, offers, requests, pool size |

### Parallel copies

`ParallelSemantics` is not inductive: it says nothing until the end.
`DoneHasValue` (a destination without a pending source has its final value) and
`PendingValueKept` (what is pending can still be read) carry it through the
loops. For a plain copy the second is preserved because the overwritten node has
`num_reads = 0`, which means that nobody waits for it only if `num_reads` counts
the readers (`ReadsCounted`). For the cycle loop one needs that the rest of
the graph is a permutation: `CycleInv`. It is established when the ready stack is
empty: then every destination that waits is read by someone (`ReadyInv`), so the
function from waiting destinations to their sources maps a finite set onto a
superset of itself, hence is a bijection. That pigeonhole step is the heart of
the proof and uses the library's cardinality theorems. `TmpInv` describes the
open cycle while its head is saved in `pc.tmp`. The correctness of the XOR and
`plop3` swaps is a lemma about sets of bits. `Inductive` is also an invariant of
the run.

`Refinement` is `Spec => ImplementsParCopy`: initial states map to initial states
of `ParallelCopy`, and every step serves some destinations or stutters. It uses
`DoneHasValue` on both sides of a step: a served destination stays served and
keeps its value.

`AllLowerable` (every emitted copy and swap is one `lower_copy_swap` has a case
for) rests on `Lowerable`. A copy is emitted for an edge of the input
(`EdgesAreCopies`), which `assign_regs` built (`GoodInput`); a swap is emitted in
a cycle, and cycles stay within one register file (`OneFile`): a uniform register
is copied from uniform ones only, so by counting once more no other destination
of a permutation is left to read one.

Assumptions: `NumDst` positive, at most two temporaries, initial values are
values, the kinds are known kinds.

### Register assignment in a block

While an instruction is assigned, a value is in the register its table names only
once the parallel copy has run, or in no register (evicted). `Inv` says where
each value is at every step of the handler:

* `Tables`, `Held`, `EvictedHeld`: a live value is in its register after the copy
  so far; an evicted one is still where it was before the instruction. The latter
  is what `finish` copies from, and it survives because the copy is parallel.
* `CopyOK`: only registers pinned by the `VecRegAllocator` are destinations of the
  copy, and pinning is permanent within the instruction, so that no register is
  written twice.
* `SrcsCollected`, `VpinOwners`, `SrcsKept`, `PinsTogether`: a collected vector is
  in its range, the range is pinned, and a pinned register belongs to a
  collected value, a destination or OpPin. So the next `collect_vector` evicts
  none of them. `PinsTogether` is what keeps a vector from having one component
  held by OpPin and another elsewhere.
* `MoveOK`: the loop over the components of a vector that is being moved.
* `Plans`, `DstsPlaced`, `DstsGiven`: ranges chosen for destinations before they
  are assigned (in killed sources, or in unused registers) are free when they are.
* `PinsKnown`, `VpinUsed`, `AtIdle`, `Places`, `InstrOK`: order of the handler.

`PinnedStayHolds` is an action property from the same invariant: a value in a
pinned register is never in the set that a step moves.

`AssertsHoldHolds` says that every assertion, `unwrap` and `expect` holds, that
is, that registers are always found. It needs counts. `Blocks`: each operand pins
registers of one aligned block of `MaxComps` registers (`OneBlock`), so with
operands left, and room for `MaxOperands` of them (`EnoughRegs`: the 16 GPRs that
`assign_regs` reserves), some block is not pinned at all and has an aligned
range. `Room`: the values that have or need a register, the evicted ones
included, are always a subset of those `LiveSet::insert_instr_top_down` counted,
before the sources die (`EarlyFit`) and after (`LateFit`); hence `finish` and
`alloc_scalar` find a register. `EvictedFit` carries the first count over the step
at which sources are freed while their registers stay pinned. `PlansFit`,
`CopyPlain` and `KilledGone` are what the two counts need of the plans, of OpCopy
and of the killed sources.

Assumptions: `SizeAssumption` (vectors of 1, 2 or 4 components at most, as in the
code; at least as many names as registers) and `EnoughRegs`. What an
instruction may look like is in the guards of `BeginInstr`, `BeginCopy` and
`BeginPin`: identical or disjoint vector sources (legalization), live sources and
new destinations (SSA), and as many live values as registers (spilling).

### Phis of the front end

`FuncTranslator` adds the edges of its graph long after the blocks they join: those
of a break when the loop is closed, those into an arm when the arm is. So
`PhisComplete` alone is not inductive; every frame of the translation has to carry
what its edges will need. `IfOK`, `LoopOK` and `SwitchOK` say it for the three
compound statements: the blocks a frame remembers `Feed` the phi they will be
joined to (the condition block, the end of an arm that is not dead, every break
and continue), and the blocks they will lead to `Take` no other phi (the header,
the continuing block; nothing at the start of an arm or of a case body). `Ready`
says it of the translator: all edges so far are complete, a block that falls into
the open one finds no phis there, and a block has at most one `PhiSrcs` and one
`PhiDsts`, so that looking them up is unambiguous.

Two things make it inductive. `Grows`: a step leaves closed blocks as they are
and the open one with the phi destinations it has, so what frames remember stays
true (`FrameGrows`). `DeadTop`: code is dead only inside a loop's body, a case or
an arm, never in a continuing block or between two cases, so the latch always
emits its phi sources. There is one lemma per operator of the translator
(`JumpKeeps`, `MergeElseKeeps`, `LeaveLoopKeeps` ...) and one per action. TLC
checked the invariant on all programs of 8 tokens first.

### Edges of the front end

`EdgesMatchBranches` speaks of the finished function only, while branches name
labels whose blocks do not exist yet and edges are added when their target does.
The invariant, `Good`, is an account of what is outstanding:

* `Owes`, `OwesNext`: the branches and fallthroughs of closed blocks whose edge a
  frame is still to add (from a condition into and past the arm, from a break to
  the exit, from the end of a case to the merge block). `DebtsOK`: the code does
  what the frame thinks it does. `FlowOK`: whatever closed code does has its edge
  or is owed. `EdgesOK`: an edge that is there is one the code takes.
* `Named`, `Placed`: labels handed out for a block to come, and labels whose block
  exists. `LabelsOK`, `NamesOK`: no two blocks, and no block and a label to come,
  share one, so a branch has one target whenever its block is placed.
* A set `U` of blocks that nothing leads to: what follows a jump, and the
  continuing block of a loop that neither the end of the body nor a continue
  reaches (`Sealed`). There the edges differ from the code: a switch joins the
  merge block even from a dead default, a dead block has its own `OpExit`. `ShutOK`
  keeps `U` closed against the rest, `SealOK` and `HeadOK` make the exception
  consistent for everything nested in such a continuing block, whose loop headers
  would otherwise look reachable.

All operators of the translator are one kind of step, a move: the open block is
closed with some code, edges are added, a block is opened, and the innermost frame
changes. `MoveGraph` shows once that a move keeps the invariant if the accounts
balance (`Relabels`, `Borrows`, `Due`, `Pays`, `Seals`); a lemma per operator
shows what its move is (`LeaveLoopOpens` ...), one that it balances
(`LeaveLoopStepOK` ...), and one per action puts both together. At the end no
frame is left, so nothing is owed (`EndSettles`). That the machine stays out of
`U` is an induction over the recursive function in `Reached`; it is written with
the least counterexample (`LayersStay`), and that the function exists at all is
shown with the walks from the entry block (`NextLayer`).

The theorem assumes `"nested return in call" \notin Forms`. A return inside an
`if`, loop or switch of an inlined function leaves no branch and only sets
`dead_code`, so the arm is taken for dead while its block runs on into the next:
TLC finds `EdgesMatchBranches` violated when the form is admitted. A break in a
switch, and stores in one, are covered by the theorem.

### Scheduling

The scheduler draws edges only to the nearest dependent of each instruction. The
invariant `SchedInv` (`LaidOut`, `Placed`, `NoneLeftBehind`, `KeepsOrder`) says
that nothing that must stay behind a placed instruction is still unplaced,
although nothing keeps it there directly: between two conflicting instructions
without an edge there is one that conflicts with both and whose turn comes first
(`SmallestNumber` picks the nearest). The theorem is about `DepsSpec`, the part of
the system that `CalcDelays` composes with the machine.

### The server's life

`Ordered` says what `cmd_server` has started at each of its positions, `Owned`
whose the files are: a name belongs to a process only if the process has bound it
and not yet unlinked it. They hold however the processes interleave, and give
`ServesSomewhere` and `CleanExit`. `Alone` (a name is free when it is taken, and
kept until it is given up) and `Linked` (the capability link dangles only while
its owner stops or its successor binds) need `~SideBySide`, servers that follow
one another, as the two properties do. Assumptions: `ConfigAssumption`; one path
per family.

### Connections

The invariant of one connection (`Good`) relates what its peer has sent, what is
unread, what was answered and the stage at which the server stands. `Wire`: the
unread pieces are the last ones sent. `Staged`: how much of them each stage has
read, and which framing the unread ones have. `Served`, `InFlight`, `Orderly`: the
lines read are the lines answered or in flight, with different ids. `ErrorFree`:
a parse error goes only to a peer that broke off. `Queued` and `Pooled` relate
connections to the backlogs and the pool: a compilation whose caller waits is the
caller's only one, so its answer goes to the request it was asked by. Assumption:
`ProfileAssumption`, the kinds of peers.

### Only model-checked

* Termination and all other liveness, and the fairness it needs: the prover does
  not treat them.
* The modules from `Cfg` to `MidEnd`, and `CalcDelays`: their passes are recursive
  operators, and what a recursive definition computes is outside the prover's
  reach.
* `FuncControlExec`: `CodeFollowsSource` relates two machines through a program of
  any nesting, which is induction over data.

## 5. Mutants

Every property of a passing run has a mutant, an operator beside the definition
it alters (`CopyReady_NoPush`, `BackEdge_LateBreak`, `Reinject_Drop` ...) that a
plausible slip in the code would give, and TLC finds the property violated under
the run's own configuration.

## 6. What is left, in order

1. `ServerLifecycle`: an abstract specification of a published name (at most one
   owner, gone when the owner is) that it implements when servers do not overlap.
2. Spilling over edges with next-use distances; `OpBMov` and `OpRegOut`.
3. `expr_map` and lazily evaluated arguments in `FuncControl`.

### Not modelled, and why

* Instruction encoders (NVIDIA, AMD), latency tables, `amd/isa_generated` and its
  generator, bit views, ISA constants: data rather than behaviour. They are most
  of the repository's lines, so the share of lines the map covers stays small
  whatever else is modelled.
* Expression translation, legalization, peephole rewriting, f64 lowering, PTX
  text: case analyses over single operations or floating-point arithmetic.
* `opt_bar_prop`: the front end of this commit emits no convergence barriers.
* The forward data-flow solver: no pass uses it.
* JSON-RPC methods, the method gate, provenance, registration, command line and
  environment: stateless, or requests whose answers are not read.
* Cryptography, naga, tokio and the file system are external; what the code
  relies on of them is in the actions that use them.
