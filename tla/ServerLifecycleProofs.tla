----------------------- MODULE ServerLifecycleProofs -----------------------
(***************************************************************************)
(* The server processes keep their promises about the files they share,    *)
(* for any number of processes, configurations and kills.                  *)
(*                                                                         *)
(* Ordered relates the position of cmd_server to its accept loops, Owned   *)
(* the accept loops to the files; both hold however the processes          *)
(* interleave.  Alone and Linked add what holds when a process starts only *)
(* after the one before it has ended.                                      *)
(***************************************************************************)
EXTENDS ServerLifecycle, TLAPS

Opening  == {"prepare", "unlink old", "bind"}
Linking  == {"link check", "link remove", "link create"}
Open     == {"tarpc tcp", "discovery", "pid", "serving"}
Ending   == {"joining", "remove discovery", "remove pid", "dropping"}
PcValue  == {"idle", "tcp", "exited"} \cup Opening \cup Linking \cup Open \cup Ending
TaskValue == {"none", "bound", "done", "dropped"} \cup Running \cup Cleanup
CodeValue == {"none", "ConfigError", "GeneralError", "Signal", "killed"}

TypeInv ==
    /\ pc \in [Proc -> PcValue]
    /\ cfg \in [Proc -> Config]
    /\ opening \in [Proc -> {"local", "tarpc"}]
    /\ task \in [Proc -> [Listener -> TaskValue]]
    /\ uds \in [Proc -> SUBSET {"local", "tarpc"}]
    /\ capLink \in [Proc -> BOOLEAN] /\ joined \in [Proc -> BOOLEAN]
    /\ code \in [Proc -> CodeValue]
    /\ sock \in [SockName -> Proc \cup {NoProc}]
    /\ link \in {NoLink} \cup [to : Family, by : Proc]
    /\ disc \in Proc \cup {NoProc} /\ pidf \in Proc \cup {NoProc}
    /\ kills \in Nat

\* cmd_server of p is past its JSON-RPC socket and has seen no signal.
PastLocal(p) == pc[p] \in Open \/ (pc[p] \in Opening /\ opening[p] = "tarpc")

\* What a process has done by the time cmd_server stands at pc[p].
OrderedAt(p) ==
    /\ pc[p] \in {"idle", "tcp", "exited"} =>
          /\ opening[p] = "local" /\ uds[p] = {} /\ ~capLink[p]
          /\ \A l \in Listener : task[p][l] = "none"
    /\ cfg[p].mode = "UdsOnly" => pc[p] # "tcp"
    /\ pc[p] \in Opening /\ opening[p] = "local" => ~capLink[p]
    /\ pc[p] \in Linking =>
          opening[p] = "local" /\ "local" \in uds[p] /\ task[p]["local"] = "bound"
    /\ cfg[p].mode # "UdsOnly" /\ pc[p] \in Opening \cup Linking \cup Open =>
          task[p]["rpc"] \in Running
    /\ cfg[p].mode = "UdsOnly" /\ PastLocal(p) => task[p]["local"] \in Running
    /\ \A l \in Listener : task[p][l] \in Cleanup \cup {"done"} => pc[p] \in Ending
    /\ \A l \in uds[p] : task[p][l] # "none"
    /\ capLink[p] => "local" \in uds[p] /\ task[p]["local"] # "bound"
    /\ joined[p] => pc[p] \in {"remove discovery", "remove pid", "dropping", "exited"}
    /\ code[p] = "Signal" => pc[p] \in {"dropping", "exited"}
Ordered == \A p \in Proc : OrderedAt(p)

\* Which files are p's.
OwnedAt(p) ==
    /\ pc[p] # "exited" =>
          /\ \A n \in SockName : sock[n] = p => \E l \in uds[p] : n = UdsPath(p, l)
          /\ link.by = p => capLink[p]
    /\ \A l \in uds[p] : task[p][l] \in {"unlink link", "done"} => sock[UdsPath(p, l)] # p
    /\ capLink[p] /\ task[p]["local"] = "done" => link.by # p
    /\ joined[p] => link.by # p /\ \A n \in SockName : sock[n] # p
    /\ pc[p] = "remove pid" => disc # p
    /\ code[p] = "Signal" => disc # p /\ pidf # p
Owned == \A p \in Proc : OwnedAt(p)

\* One process at a time: its names are free when it takes them, and its own
\* until it gives them up.
NamesAt(p) ==
    /\ pc[p] = "unlink old" => sock[UdsPath(p, opening[p])] # NoProc
    /\ pc[p] = "bind" => sock[UdsPath(p, opening[p])] = NoProc
    /\ \A l \in uds[p] : task[p][l] \in Running \cup {"bound"} => sock[UdsPath(p, l)] = p
    /\ pc[p] \in Opening \cup Linking => cfg[p].mode # "TcpOnly"
    /\ pc[p] \in Opening => uds[p] = IF opening[p] = "local" THEN {} ELSE {"local"}
    /\ pc[p] \in Linking => uds[p] = {"local"}
    /\ pc[p] \in Opening /\ opening[p] = "tarpc" => cfg[p].tarpc = "unix"
    /\ pc[p] = "tarpc tcp" => cfg[p].tarpc = "tcp" /\ "tarpc" \notin uds[p]
    /\ cfg[p].mode # "TcpOnly" /\ PastLocal(p) =>
          "local" \in uds[p] /\ task[p]["local"] \in Running
    /\ cfg[p].mode # "TcpOnly" /\ cfg[p].tarpc = "unix"
          /\ pc[p] \in {"discovery", "pid", "serving"} =>
          "tarpc" \in uds[p] /\ task[p]["tarpc"] \in Running
    /\ \A l \in Listener : task[p][l] \in Cleanup =>
          l \in uds[p] /\ (task[p][l] = "unlink link" => l = "local")
    /\ code[p] = "killed" => pc[p] = "exited"
Alone == /\ \A p, q \in Proc : Alive(p) /\ Alive(q) => p = q
         /\ \A p \in Proc : NamesAt(p)

NoneKilled == \A q \in Proc : code[q] # "killed"

\* Without kills the capability link dangles only while the process that owns
\* it stops, or while its successor replaces the socket it leads to.
LinkLeads ==
    link # NoLink =>
        /\ \E c \in Config : c.eco /\ c.family = link.to
        /\ \/ LinkExists
           \/ \E p \in Proc : task[p]["local"] = "unlink link"
           \/ \E p \in Proc : /\ pc[p] = "bind" /\ opening[p] = "local"
                              /\ cfg[p].family = link.to
LinkedAt(p) ==
    /\ pc[p] = "link create" => link = NoLink
    /\ pc[p] \in {"link remove", "link create"} \/ capLink[p] => cfg[p].eco
    /\ cfg[p].eco /\ "local" \in uds[p] /\ task[p]["local"] # "bound" => capLink[p]
    /\ capLink[p] /\ task[p]["local"] # "done" => link = [to |-> cfg[p].family, by |-> p]
Linked == LinkLeads /\ \A p \in Proc : LinkedAt(p)
----------------------------------------------------------------------------
(* What a step writes: the row of one process, and files that get free or  *)
(* become its own.                                                         *)

\* Only the entry of p is written.
Own(f, g, p, S) == g \in [Proc -> S] /\ \A q \in Proc \ {p} : g[q] = f[q]

RowOf(p) ==
    /\ Own(pc, pc', p, PcValue) /\ Own(cfg, cfg', p, Config)
    /\ Own(opening, opening', p, {"local", "tarpc"})
    /\ Own(task, task', p, [Listener -> TaskValue])
    /\ Own(uds, uds', p, SUBSET {"local", "tarpc"})
    /\ Own(capLink, capLink', p, BOOLEAN) /\ Own(joined, joined', p, BOOLEAN)
    /\ Own(code, code', p, CodeValue)

FilesOf(p) ==
    /\ sock' \in [SockName -> Proc \cup {NoProc}]
    /\ \A n \in SockName : sock'[n] \in {sock[n], NoProc, p}
    /\ link' \in {NoLink} \cup [to : Family, by : Proc] /\ link'.by \in {link.by, NoProc, p}
    /\ disc' \in {disc, NoProc, p} /\ pidf' \in {pidf, NoProc, p}
    /\ kills' \in Nat

StepOf(p) == RowOf(p) /\ FilesOf(p)

\* A function that keeps its value writes no other entry.
LEMMA OwnSame == ASSUME NEW S, NEW f \in [Proc -> S], NEW p PROVE Own(f, f, p, S)
BY DEF Own

\* An EXCEPT at p writes only the entry of p.
LEMMA OwnExcept ==
    ASSUME NEW S, NEW f \in [Proc -> S], NEW p \in Proc, NEW v \in S, NEW g,
           g = [f EXCEPT ![p] = v]
    PROVE  Own(f, g, p, S) /\ g[p] = v
BY DEF Own

\* What the configurations say of the names the files may have.
LEMMA ConfigType ==
    /\ NoProc \notin Proc /\ AnyConfig \in Config
    /\ \A c \in Config : c.family \in Family
BY ConfigAssumption DEF AnyConfig, Family

\* The first state, before any cmd_server runs, has the declared types.
LEMMA TypeInit == Init => TypeInv
BY ConfigType, ConfigAssumption DEF Init, TypeInv, PcValue, TaskValue, CodeValue

\* A step of one process keeps the types.
LEMMA StepTypes == ASSUME TypeInv, NEW p \in Proc, StepOf(p) PROVE TypeInv'
BY DEF StepOf, RowOf, FilesOf, Own, TypeInv

\* What a step leaves alone.
LEMMA SameRow ==
    ASSUME TypeInv, NEW p \in Proc
    PROVE  /\ UNCHANGED pc => Own(pc, pc', p, PcValue)
           /\ UNCHANGED cfg => Own(cfg, cfg', p, Config)
           /\ UNCHANGED opening => Own(opening, opening', p, {"local", "tarpc"})
           /\ UNCHANGED task => Own(task, task', p, [Listener -> TaskValue])
           /\ UNCHANGED uds => Own(uds, uds', p, SUBSET {"local", "tarpc"})
           /\ UNCHANGED capLink => Own(capLink, capLink', p, BOOLEAN)
           /\ UNCHANGED joined => Own(joined, joined', p, BOOLEAN)
           /\ UNCHANGED code => Own(code, code', p, CodeValue)
BY OwnSame DEF TypeInv

\* A step that touches no shared file keeps them as they are.
LEMMA SameFiles ==
    ASSUME TypeInv, NEW p \in Proc, UNCHANGED <<files, kills>>
    PROVE  FilesOf(p)
BY DEF TypeInv, FilesOf, files

\* Moving cmd_server writes one entry, of the declared type.
LEMMA GotoFacts ==
    ASSUME TypeInv, NEW p \in Proc, NEW at \in PcValue, Goto(p, at)
    PROVE  Own(pc, pc', p, PcValue) /\ pc'[p] = at
BY OwnExcept DEF TypeInv, Goto

\* Moving one accept loop writes one entry, of the declared type.
LEMMA SetTaskFacts ==
    ASSUME TypeInv, NEW p \in Proc, NEW l \in Listener, NEW s \in TaskValue, SetTask(p, l, s)
    PROVE  /\ Own(task, task', p, [Listener -> TaskValue]) /\ task'[p][l] = s
           /\ \A k \in Listener \ {l} : task'[p][k] = task[p][k]
BY DEF TypeInv, SetTask, Own

\* cmd_server returning writes one entry, of the declared type.
LEMMA ReturnFacts ==
    ASSUME TypeInv, NEW p \in Proc, NEW c \in CodeValue, Return(p, c)
    PROVE  /\ Own(pc, pc', p, PcValue) /\ pc'[p] = "dropping"
           /\ Own(code, code', p, CodeValue) /\ code'[p] = c
<1>1. "dropping" \in PcValue
      BY DEF PcValue, Ending
<1> QED BY <1>1, GotoFacts, OwnExcept DEF TypeInv, Return

\* The start of a local listener writes one entry, of the declared type.
LEMMA OpenLocalFacts ==
    ASSUME TypeInv, NEW p \in Proc, NEW l \in {"local", "tarpc"}, OpenLocal(p, l)
    PROVE  /\ Own(pc, pc', p, PcValue) /\ pc'[p] = "prepare"
           /\ Own(opening, opening', p, {"local", "tarpc"}) /\ opening'[p] = l
<1>1. "prepare" \in PcValue
      BY DEF PcValue, Opening
<1> QED BY <1>1, GotoFacts, OwnExcept DEF TypeInv, OpenLocal

\* Where cmd_server goes after the JSON-RPC listeners.
AfterRpc(p) ==
    \/ pc'[p] = "discovery" /\ (cfg[p].mode = "TcpOnly" \/ cfg[p].tarpc = "none")
    \/ /\ pc'[p] = "prepare" /\ opening'[p] = "tarpc"
       /\ cfg[p].mode # "TcpOnly" /\ cfg[p].tarpc = "unix"
    \/ pc'[p] = "tarpc tcp" /\ cfg[p].mode # "TcpOnly" /\ cfg[p].tarpc = "tcp"

\* The choice of the tarpc transport writes one entry, of the declared type.
LEMMA StartTarpcFacts ==
    ASSUME TypeInv, NEW p \in Proc, StartTarpc(p)
    PROVE  /\ Own(pc, pc', p, PcValue) /\ Own(opening, opening', p, {"local", "tarpc"})
           /\ AfterRpc(p)
<1>1. "discovery" \in PcValue /\ "tarpc tcp" \in PcValue
      BY DEF PcValue, Open
<1>2. CASE /\ Goto(p, "discovery") /\ UNCHANGED opening
           /\ (cfg[p].mode = "TcpOnly" \/ cfg[p].tarpc = "none")
      BY <1>1, <1>2, GotoFacts, SameRow DEF AfterRpc
<1>3. CASE cfg[p].mode # "TcpOnly" /\ cfg[p].tarpc = "unix" /\ OpenLocal(p, "tarpc")
      BY <1>3, OpenLocalFacts DEF AfterRpc
<1>4. CASE /\ cfg[p].mode # "TcpOnly" /\ cfg[p].tarpc = "tcp" /\ Goto(p, "tarpc tcp")
           /\ UNCHANGED opening
      BY <1>1, <1>4, GotoFacts, SameRow DEF AfterRpc
<1> QED BY <1>2, <1>3, <1>4 DEF StartTarpc

\* A socket could not be opened.
AfterFailed(p) ==
    \/ /\ opening[p] = "local" /\ cfg[p].mode = "UdsOnly"
       /\ pc'[p] = "dropping" /\ code'[p] = "GeneralError"
    \/ opening[p] = "local" /\ cfg[p].mode = "Both" /\ AfterRpc(p) /\ code' = code
    \/ opening[p] = "tarpc" /\ pc'[p] = "tarpc tcp" /\ code' = code

\* A local socket that could not be opened writes one entry, of the declared
\* type.
LEMMA LocalFailedFacts ==
    ASSUME TypeInv, NEW p \in Proc, LocalFailed(p)
    PROVE  /\ Own(pc, pc', p, PcValue) /\ Own(opening, opening', p, {"local", "tarpc"})
           /\ Own(code, code', p, CodeValue) /\ AfterFailed(p)
<1>1. "tarpc tcp" \in PcValue /\ "GeneralError" \in CodeValue
      BY DEF PcValue, Open, CodeValue
<1>2. CASE /\ opening[p] = "local" /\ cfg[p].mode = "UdsOnly" /\ Return(p, "GeneralError")
           /\ UNCHANGED opening
      BY <1>1, <1>2, ReturnFacts, SameRow DEF AfterFailed
<1>3. CASE opening[p] = "local" /\ cfg[p].mode = "Both" /\ StartTarpc(p) /\ UNCHANGED code
      BY <1>3, StartTarpcFacts, SameRow DEF AfterFailed
<1>4. CASE opening[p] = "tarpc" /\ Goto(p, "tarpc tcp") /\ UNCHANGED <<opening, code>>
      BY <1>1, <1>4, GotoFacts, SameRow DEF AfterFailed
<1> QED BY <1>2, <1>3, <1>4 DEF LocalFailed

\* The process is gone.
LEMMA ExitFacts ==
    ASSUME TypeInv, NEW p \in Proc, Exit(p)
    PROVE  /\ Own(pc, pc', p, PcValue) /\ pc'[p] = "exited"
           /\ Own(task, task', p, [Listener -> TaskValue])
           /\ \A l \in Listener : task'[p][l] = "none"
           /\ Own(cfg, cfg', p, Config)
           /\ Own(opening, opening', p, {"local", "tarpc"}) /\ opening'[p] = "local"
           /\ Own(uds, uds', p, SUBSET {"local", "tarpc"}) /\ uds'[p] = {}
           /\ Own(capLink, capLink', p, BOOLEAN) /\ ~capLink'[p]
<1>1. "exited" \in PcValue /\ "none" \in TaskValue
      BY DEF PcValue, TaskValue
<1>2. Own(pc, pc', p, PcValue) /\ pc'[p] = "exited"
      BY <1>1, GotoFacts DEF Exit
<1>3. [l \in Listener |-> "none"] \in [Listener -> TaskValue]
      BY <1>1
<1>4. Own(task, task', p, [Listener -> TaskValue]) /\ task'[p] = [l \in Listener |-> "none"]
      BY <1>3, OwnExcept DEF Exit, TypeInv
<1>5. Own(cfg, cfg', p, Config)
      BY ConfigType, OwnExcept DEF Exit, TypeInv
<1>6. Own(opening, opening', p, {"local", "tarpc"}) /\ opening'[p] = "local"
      BY OwnExcept DEF Exit, TypeInv
<1>7. Own(uds, uds', p, SUBSET {"local", "tarpc"}) /\ uds'[p] = {}
      BY OwnExcept DEF Exit, TypeInv
<1>8. Own(capLink, capLink', p, BOOLEAN) /\ ~capLink'[p]
      BY DEF Exit, TypeInv, Own
<1> QED BY <1>2, <1>4, <1>5, <1>6, <1>7, <1>8

----------------------------------------------------------------------------
(* Each step of a process writes its own row only.                          *)

\* The start of cmd_server writes no row but p's, and no file except to free it
\* or make it p's.
LEMMA LaunchRow == ASSUME TypeInv, NEW p \in Proc, Launch(p) PROVE StepOf(p)
<1>1. "tcp" \in PcValue /\ "prepare" \in PcValue /\ "ConfigError" \in CodeValue
      BY DEF PcValue, Opening, CodeValue
<1>2. UNCHANGED <<opening, uds, capLink, joined, task, files, kills>>
      BY DEF Launch
<1>3. CASE Return(p, "ConfigError") /\ UNCHANGED cfg
      BY <1>1, <1>2, <1>3, ReturnFacts, SameRow, SameFiles DEF StepOf, RowOf
<1>4. ASSUME NEW c \in Config, cfg' = [cfg EXCEPT ![p] = c], UNCHANGED code,
             Goto(p, IF c.mode = "UdsOnly" THEN "prepare" ELSE "tcp")
      PROVE  StepOf(p)
  <2>1. Own(cfg, cfg', p, Config)
        BY <1>4, OwnExcept DEF TypeInv
  <2>2. Own(pc, pc', p, PcValue)
        BY <1>1, <1>4, GotoFacts
  <2> QED BY <1>2, <1>4, <2>1, <2>2, SameRow, SameFiles DEF StepOf, RowOf
<1> QED BY <1>3, <1>4 DEF Launch

\* start_newline_tcp_jsonrpc writes no row but p's, and no file except to free
\* it or make it p's.
LEMMA OpenTcpRow == ASSUME TypeInv, NEW p \in Proc, OpenTcp(p) PROVE StepOf(p)
<1>1. "listening" \in TaskValue /\ "GeneralError" \in CodeValue /\ "rpc" \in Listener
      BY DEF TaskValue, Running, CodeValue, Listener
<1>2. UNCHANGED <<cfg, uds, capLink, joined, files, kills>>
      BY DEF OpenTcp
<1>3. CASE Return(p, "GeneralError") /\ UNCHANGED <<task, opening>>
      BY <1>1, <1>2, <1>3, ReturnFacts, SameRow, SameFiles DEF StepOf, RowOf
<1>4. CASE /\ SetTask(p, "rpc", "listening") /\ UNCHANGED code
           /\ (OpenLocal(p, "local") \/ StartTarpc(p))
  <2>1. Own(task, task', p, [Listener -> TaskValue])
        BY <1>1, <1>4, SetTaskFacts
  <2>2. Own(pc, pc', p, PcValue) /\ Own(opening, opening', p, {"local", "tarpc"})
        BY <1>4, OpenLocalFacts, StartTarpcFacts
  <2> QED BY <1>2, <1>4, <2>1, <2>2, SameRow, SameFiles DEF StepOf, RowOf
<1> QED BY <1>3, <1>4 DEF OpenTcp

\* The exists() of prepare_local_bind writes no row but p's, and no file except
\* to free it or make it p's.
LEMMA PrepareLocalBindRow ==
    ASSUME TypeInv, NEW p \in Proc, PrepareLocalBind(p)
    PROVE  StepOf(p)
<1>1. "bind" \in PcValue /\ "unlink old" \in PcValue
      BY DEF PcValue, Opening
<1>2. Own(pc, pc', p, PcValue)
      BY <1>1, GotoFacts DEF PrepareLocalBind
<1> QED BY <1>2, SameRow, SameFiles DEF PrepareLocalBind, StepOf, RowOf

\* The remove_file() of prepare_local_bind writes no row but p's, and no file
\* except to free it or make it p's.
LEMMA UnlinkOldRow == ASSUME TypeInv, NEW p \in Proc, UnlinkOld(p) PROVE StepOf(p)
<1>1. UNCHANGED <<cfg, uds, capLink, joined, task, link, disc, pidf, kills>>
      BY DEF UnlinkOld
<1>2. CASE LocalFailed(p) /\ UNCHANGED sock
  <2>1. UNCHANGED <<files, kills>>
        BY <1>1, <1>2 DEF files
  <2> QED BY <1>1, <1>2, <2>1, LocalFailedFacts, SameRow, SameFiles DEF StepOf, RowOf
<1>3. CASE sock' = [sock EXCEPT ![UdsPath(p, opening[p])] = NoProc]
           /\ Goto(p, "bind") /\ UNCHANGED <<opening, code>>
  <2>1. "bind" \in PcValue
        BY DEF PcValue, Opening
  <2>2. Own(pc, pc', p, PcValue)
        BY <2>1, <1>3, GotoFacts
  <2>3. FilesOf(p)
        BY <1>1, <1>3 DEF FilesOf, TypeInv
  <2> QED BY <1>1, <1>3, <2>2, <2>3, SameRow DEF StepOf, RowOf
<1> QED BY <1>2, <1>3 DEF UnlinkOld

\* bind_local writes no row but p's, and no file except to free it or make it
\* p's.
LEMMA BindLocalRow == ASSUME TypeInv, NEW p \in Proc, BindLocal(p) PROVE StepOf(p)
<1>1. UNCHANGED <<cfg, capLink, joined, link, disc, pidf, kills>>
      BY DEF BindLocal
<1>2. CASE LocalFailed(p) /\ UNCHANGED <<sock, uds, task>>
  <2>1. UNCHANGED <<files, kills>>
        BY <1>1, <1>2 DEF files
  <2> QED BY <1>1, <1>2, <2>1, LocalFailedFacts, SameRow, SameFiles DEF StepOf, RowOf
<1>3. CASE /\ sock' = [sock EXCEPT ![UdsPath(p, opening[p])] = p]
           /\ uds' = [uds EXCEPT ![p] = @ \cup {opening[p]}]
           /\ \/ opening[p] = "tarpc" /\ Goto(p, "discovery") /\ SetTask(p, opening[p], "listening")
              \/ opening[p] = "local" /\ Goto(p, "link check") /\ SetTask(p, opening[p], "bound")
           /\ UNCHANGED <<opening, code>>
  <2>1. "discovery" \in PcValue /\ "link check" \in PcValue
        BY DEF PcValue, Open, Linking
  <2>2. /\ "listening" \in TaskValue /\ "bound" \in TaskValue
        /\ "tarpc" \in Listener /\ "local" \in Listener
        BY DEF TaskValue, Running, Listener
  <2>3. Own(pc, pc', p, PcValue)
        BY <2>1, <1>3, GotoFacts
  <2>4. Own(task, task', p, [Listener -> TaskValue])
        BY <2>2, <1>3, SetTaskFacts
  <2>5. Own(uds, uds', p, SUBSET {"local", "tarpc"})
        BY <1>3, OwnExcept DEF TypeInv
  <2>6. FilesOf(p)
        BY <1>1, <1>3 DEF FilesOf, TypeInv
  <2> QED BY <1>1, <1>3, <2>3, <2>4, <2>5, <2>6, SameRow DEF StepOf, RowOf
<1>4. opening[p] \in {"local", "tarpc"}
      BY DEF TypeInv
<1> QED BY <1>2, <1>3, <1>4 DEF BindLocal

\* Spawning the JSON-RPC accept loop writes no row but p's, and no file except
\* to free it or make it p's.
LEMMA SpawnLocalRow ==
    ASSUME TypeInv, NEW p \in Proc, NEW some \in BOOLEAN, SpawnLocal(p, some)
    PROVE  /\ Own(task, task', p, [Listener -> TaskValue])
           /\ task'[p]["local"] = "listening"
           /\ \A k \in Listener \ {"local"} : task'[p][k] = task[p][k]
           /\ Own(capLink, capLink', p, BOOLEAN) /\ capLink'[p] = some
           /\ Own(pc, pc', p, PcValue) /\ Own(opening, opening', p, {"local", "tarpc"})
           /\ AfterRpc(p)
<1>1. "listening" \in TaskValue /\ "local" \in Listener
      BY DEF TaskValue, Running, Listener
<1>2. SetTask(p, "local", "listening") /\ capLink' = [capLink EXCEPT ![p] = some] /\ StartTarpc(p)
      BY DEF SpawnLocal
<1>3. Own(capLink, capLink', p, BOOLEAN) /\ capLink'[p] = some
      BY <1>2 DEF Own, TypeInv
<1> QED BY <1>1, <1>2, <1>3, SetTaskFacts, StartTarpcFacts

\* The exists() of install_capability_symlink writes no row but p's, and no
\* file except to free it or make it p's.
LEMMA LinkCheckRow == ASSUME TypeInv, NEW p \in Proc, LinkCheck(p) PROVE StepOf(p)
<1>1. UNCHANGED <<cfg, uds, joined, code, files, kills>>
      BY DEF LinkCheck
<1>2. CASE SpawnLocal(p, FALSE)
      BY <1>1, <1>2, SpawnLocalRow, SameRow, SameFiles DEF StepOf, RowOf
<1>3. CASE /\ Goto(p, IF LinkExists THEN "link remove" ELSE "link create")
           /\ UNCHANGED <<opening, task, capLink>>
  <2>1. "link remove" \in PcValue /\ "link create" \in PcValue
        BY DEF PcValue, Linking
  <2>2. Own(pc, pc', p, PcValue)
        BY <1>3, <2>1, GotoFacts
  <2> QED BY <1>1, <1>3, <2>2, SameRow, SameFiles DEF StepOf, RowOf
<1> QED BY <1>2, <1>3 DEF LinkCheck

\* The remove_file() of install_capability_symlink writes no row but p's, and
\* no file except to free it or make it p's.
LEMMA LinkRemoveRow == ASSUME TypeInv, NEW p \in Proc, LinkRemove(p) PROVE StepOf(p)
<1>1. "link create" \in PcValue
      BY DEF PcValue, Linking
<1>2. Own(pc, pc', p, PcValue)
      BY <1>1, GotoFacts DEF LinkRemove
<1>3. FilesOf(p)
      BY DEF LinkRemove, FilesOf, TypeInv, NoLink
<1> QED BY <1>2, <1>3, SameRow DEF LinkRemove, StepOf, RowOf

\* create_local_symlink writes no row but p's, and no file except to free it or
\* make it p's.
LEMMA LinkCreateRow == ASSUME TypeInv, NEW p \in Proc, LinkCreate(p) PROVE StepOf(p)
<1>1. SpawnLocal(p, link = NoLink) /\ UNCHANGED <<cfg, uds, joined, code, sock, disc, pidf, kills>>
      BY DEF LinkCreate
<1>2. link' = link \/ (link' = [to |-> cfg[p].family, by |-> p] /\ cfg[p].family \in Family)
      BY ConfigType DEF LinkCreate, TypeInv
<1>3. FilesOf(p)
      BY <1>1, <1>2 DEF FilesOf, TypeInv
<1>4. (link = NoLink) \in BOOLEAN
      OBVIOUS
<1> QED BY <1>1, <1>3, <1>4, SpawnLocalRow, SameRow DEF StepOf, RowOf

\* start_tarpc_tcp_server writes no row but p's, and no file except to free it
\* or make it p's.
LEMMA TarpcTcpRow == ASSUME TypeInv, NEW p \in Proc, TarpcTcp(p) PROVE StepOf(p)
<1>1. UNCHANGED <<cfg, opening, uds, capLink, joined, files, kills>>
      BY DEF TarpcTcp
<1>2. /\ "discovery" \in PcValue /\ "listening" \in TaskValue
      /\ "GeneralError" \in CodeValue /\ "tarpc" \in Listener
      BY DEF PcValue, Open, TaskValue, Running, CodeValue, Listener
<1>3. CASE SetTask(p, "tarpc", "listening") /\ Goto(p, "discovery") /\ UNCHANGED code
      BY <1>1, <1>2, <1>3, SetTaskFacts, GotoFacts, SameRow, SameFiles DEF StepOf, RowOf
<1>4. CASE Goto(p, "discovery") /\ UNCHANGED <<task, code>>
      BY <1>1, <1>2, <1>4, GotoFacts, SameRow, SameFiles DEF StepOf, RowOf
<1>5. CASE /\ task' = [task EXCEPT ![p]["rpc"] = IF @ = "none" THEN @ ELSE "dropped"]
           /\ Return(p, "GeneralError")
  <2>1. "dropped" \in TaskValue /\ "rpc" \in Listener
        BY DEF TaskValue, Listener
  <2>2. Own(task, task', p, [Listener -> TaskValue])
        BY <1>5, <2>1 DEF Own, TypeInv
  <2> QED BY <1>1, <1>2, <1>5, <2>2, ReturnFacts, SameRow, SameFiles DEF StepOf, RowOf
<1> QED BY <1>3, <1>4, <1>5 DEF TarpcTcp

\* write_discovery_file writes no row but p's, and no file except to free it or
\* make it p's.
LEMMA WriteDiscoveryRow ==
    ASSUME TypeInv, NEW p \in Proc, WriteDiscovery(p)
    PROVE  StepOf(p)
<1>1. "pid" \in PcValue
      BY DEF PcValue, Open
<1>2. Own(pc, pc', p, PcValue)
      BY <1>1, GotoFacts DEF WriteDiscovery
<1>3. FilesOf(p)
      BY DEF WriteDiscovery, FilesOf, TypeInv
<1> QED BY <1>2, <1>3, SameRow DEF WriteDiscovery, StepOf, RowOf

\* write_pid_file writes no row but p's, and no file except to free it or make
\* it p's.
LEMMA WritePidRow == ASSUME TypeInv, NEW p \in Proc, WritePid(p) PROVE StepOf(p)
<1>1. "serving" \in PcValue
      BY DEF PcValue, Open
<1>2. Own(pc, pc', p, PcValue)
      BY <1>1, GotoFacts DEF WritePid
<1>3. FilesOf(p)
      BY DEF WritePid, FilesOf, TypeInv
<1> QED BY <1>2, <1>3, SameRow DEF WritePid, StepOf, RowOf

\* wait_for_shutdown_signal returning writes no row but p's, and no file except
\* to free it or make it p's.
LEMMA SignalRow == ASSUME TypeInv, NEW p \in Proc, Signal(p) PROVE StepOf(p)
<1>1. "joining" \in PcValue
      BY DEF PcValue, Ending
<1>2. Own(pc, pc', p, PcValue)
      BY <1>1, GotoFacts DEF Signal
<1> QED BY <1>2, SameRow, SameFiles DEF Signal, StepOf, RowOf

\* The join of the accept loops writes no row but p's, and no file except to
\* free it or make it p's.
LEMMA JoinRow == ASSUME TypeInv, NEW p \in Proc, Join(p) PROVE StepOf(p)
<1>1. "remove discovery" \in PcValue
      BY DEF PcValue, Ending
<1>2. Own(pc, pc', p, PcValue)
      BY <1>1, GotoFacts DEF Join
<1>3. Own(joined, joined', p, BOOLEAN)
      BY DEF Join, Own, TypeInv
<1> QED BY <1>2, <1>3, SameRow, SameFiles DEF Join, StepOf, RowOf

\* The timeout of the join writes no row but p's, and no file except to free it
\* or make it p's.
LEMMA JoinTimeoutRow == ASSUME TypeInv, NEW p \in Proc, JoinTimeout(p) PROVE StepOf(p)
<1>1. "remove discovery" \in PcValue
      BY DEF PcValue, Ending
<1>2. Own(pc, pc', p, PcValue)
      BY <1>1, GotoFacts DEF JoinTimeout
<1> QED BY <1>2, SameRow, SameFiles DEF JoinTimeout, StepOf, RowOf

\* remove_discovery_file writes no row but p's, and no file except to free it
\* or make it p's.
LEMMA RemoveDiscoveryRow ==
    ASSUME TypeInv, NEW p \in Proc, RemoveDiscovery(p)
    PROVE  StepOf(p)
<1>1. "remove pid" \in PcValue
      BY DEF PcValue, Ending
<1>2. Own(pc, pc', p, PcValue)
      BY <1>1, GotoFacts DEF RemoveDiscovery
<1>3. FilesOf(p)
      BY DEF RemoveDiscovery, FilesOf, TypeInv
<1> QED BY <1>2, <1>3, SameRow DEF RemoveDiscovery, StepOf, RowOf

\* remove_pid_file writes no row but p's, and no file except to free it or make
\* it p's.
LEMMA RemovePidRow == ASSUME TypeInv, NEW p \in Proc, RemovePid(p) PROVE StepOf(p)
<1>1. "Signal" \in CodeValue
      BY DEF CodeValue
<1>2. Own(pc, pc', p, PcValue) /\ Own(code, code', p, CodeValue)
      BY <1>1, ReturnFacts DEF RemovePid
<1>3. FilesOf(p)
      BY DEF RemovePid, FilesOf, TypeInv
<1> QED BY <1>2, <1>3, SameRow DEF RemovePid, StepOf, RowOf

\* The drop of the runtime writes no row but p's, and no file except to free it
\* or make it p's.
LEMMA RuntimeDropRow == ASSUME TypeInv, NEW p \in Proc, RuntimeDrop(p) PROVE StepOf(p)
BY ExitFacts, SameRow, SameFiles DEF RuntimeDrop, StepOf, RowOf

\* A kill writes no row but p's, and no file except to free it or make it p's.
LEMMA KillRow == ASSUME TypeInv, NEW p \in Proc, Kill(p) PROVE StepOf(p)
<1>1. Own(code, code', p, CodeValue)
  <2>1. "killed" \in CodeValue
        BY DEF CodeValue
  <2> QED BY <2>1, OwnExcept DEF Kill, TypeInv
<1>2. FilesOf(p)
      BY DEF Kill, FilesOf, files, TypeInv
<1> QED BY <1>1, <1>2, ExitFacts, SameRow DEF Kill, StepOf, RowOf

\* The accept loops, and an action that changes neither task nor files.
LEMMA LoopRow ==
    ASSUME TypeInv, NEW p \in Proc, NEW l \in Listener,
           Accept(p, l) \/ LoopStep(p, l) \/ PeerAnswers(p, l) \/ BreakLoop(p, l)
    PROVE  /\ UNCHANGED main /\ StepOf(p)
           /\ \A k \in Listener \ {l} : task'[p][k] = task[p][k]
<1>1. /\ {"first byte", "first line", "negotiate", "guard", "create", "challenge", "verify",
          "listening"} \subseteq Running
      /\ Running \subseteq TaskValue
      /\ "unlink link" \in TaskValue /\ "unlink socket" \in TaskValue /\ "done" \in TaskValue
      BY DEF Running, Bounded, OnPeer, TaskValue, Cleanup
<1>2. \E s \in TaskValue : SetTask(p, l, s)
  <2>1. ASSUME NEW from, NEW to \in SUBSET TaskValue, Dispatch(p, l, from, to)
        PROVE  \E s \in TaskValue : SetTask(p, l, s)
        BY <2>1 DEF Dispatch
  <2>2. CASE Accept(p, l) \/ PeerAnswers(p, l)
        BY <1>1, <2>1, <2>2 DEF Accept, PeerAnswers, Negotiate, Guard, Create, Challenge, Verify
  <2>3. CASE FirstByte(p, l)
    <3>1. {"first line", "listening"} \cup (IF l = "local" THEN {"negotiate"} ELSE {})
             \cup (IF cfg[p].btsp THEN {"guard"} ELSE {}) \in SUBSET TaskValue
          BY <1>1
    <3> QED BY <2>1, <2>3, <3>1 DEF FirstByte
  <2>5. CASE FirstLine(p, l)
    <3>1. {"listening"} \cup (IF ~cfg[p].btsp THEN {}
             ELSE IF l = "local" THEN {"create"} ELSE {"guard"}) \in SUBSET TaskValue
          BY <1>1
    <3> QED BY <2>1, <2>5, <3>1 DEF FirstLine
  <2>4. CASE UnlinkSocket(p, l) \/ UnlinkLink(p, l) \/ BreakLoop(p, l)
        BY <1>1, <2>4 DEF UnlinkSocket, UnlinkLink, BreakLoop
  <2> QED BY <2>2, <2>3, <2>4, <2>5 DEF LoopStep
<1>3. UNCHANGED main /\ (UNCHANGED <<files, kills>> \/ UnlinkSocket(p, l) \/ UnlinkLink(p, l))
      BY DEF Accept, LoopStep, PeerAnswers, BreakLoop, FirstByte, FirstLine, UnlinkSocket,
             UnlinkLink, Negotiate, Guard, Create, Challenge, Verify, Dispatch
<1>4. UnlinkSocket(p, l) => FilesOf(p)
      BY DEF UnlinkSocket, FilesOf, TypeInv
<1>6. UnlinkLink(p, l) => FilesOf(p)
  <2>1. NoLink.by = NoProc
        BY DEF NoLink
  <2> QED BY <2>1 DEF UnlinkLink, FilesOf, TypeInv
<1>5. FilesOf(p)
      BY <1>3, <1>4, <1>6, SameFiles
<1> QED BY <1>2, <1>3, <1>5, SetTaskFacts, SameRow DEF main, StepOf, RowOf

----------------------------------------------------------------------------
(* What the steps that start listeners do to the row of their process.      *)

\* What moving one accept loop does to the state of p, entry by entry.
LEMMA SetTaskDoes ==
    ASSUME TypeInv, NEW p \in Proc, NEW l \in {"rpc", "local", "tarpc"}, NEW s, SetTask(p, l, s)
    PROVE  /\ task'[p]["rpc"] = IF l = "rpc" THEN s ELSE task[p]["rpc"]
           /\ task'[p]["local"] = IF l = "local" THEN s ELSE task[p]["local"]
           /\ task'[p]["tarpc"] = IF l = "tarpc" THEN s ELSE task[p]["tarpc"]
BY DEF SetTask, TypeInv, Listener

\* What moving cmd_server does to the state of p, entry by entry.
LEMMA GotoDoes == ASSUME TypeInv, NEW p \in Proc, NEW at, Goto(p, at) PROVE pc'[p] = at
BY DEF Goto, TypeInv

\* What cmd_server returning does to the state of p, entry by entry.
LEMMA ReturnDoes ==
    ASSUME TypeInv, NEW p \in Proc, NEW c, Return(p, c)
    PROVE  pc'[p] = "dropping" /\ code'[p] = c
BY DEF Return, Goto, TypeInv

\* What start_newline_tcp_jsonrpc does to the state of p, entry by entry.
LEMMA OpenTcpDoes ==
    ASSUME TypeInv, NEW p \in Proc, OpenTcp(p)
    PROVE  /\ pc[p] = "tcp" /\ UNCHANGED <<cfg, uds, capLink, joined, files>>
           /\ \/ pc'[p] = "dropping" /\ code'[p] = "GeneralError" /\ UNCHANGED <<task, opening>>
              \/ /\ task'[p]["rpc"] = "listening" /\ UNCHANGED code
                 /\ task'[p]["local"] = task[p]["local"] /\ task'[p]["tarpc"] = task[p]["tarpc"]
                 /\ \/ cfg[p].mode = "Both" /\ pc'[p] = "prepare" /\ opening'[p] = "local"
                    \/ cfg[p].mode # "Both" /\ AfterRpc(p)
<1>1. pc[p] = "tcp" /\ UNCHANGED <<cfg, uds, capLink, joined, files>>
      BY DEF OpenTcp
<1>2. CASE Return(p, "GeneralError") /\ UNCHANGED <<task, opening>>
      BY <1>1, <1>2, ReturnDoes
<1>3. CASE /\ SetTask(p, "rpc", "listening") /\ UNCHANGED code /\ cfg[p].mode = "Both"
           /\ OpenLocal(p, "local")
      BY <1>1, <1>3, SetTaskDoes, OpenLocalFacts
<1>4. CASE /\ SetTask(p, "rpc", "listening") /\ UNCHANGED code /\ cfg[p].mode # "Both"
           /\ StartTarpc(p)
      BY <1>1, <1>4, SetTaskDoes, StartTarpcFacts
<1> QED BY <1>2, <1>3, <1>4 DEF OpenTcp

\* What bind_local does to the state of p, entry by entry.
LEMMA BindLocalDoes ==
    ASSUME TypeInv, NEW p \in Proc, BindLocal(p)
    PROVE  /\ pc[p] = "bind" /\ UNCHANGED <<cfg, capLink, joined, link, disc, pidf>>
           /\ \/ /\ sock[UdsPath(p, opening[p])] = NoProc
                 /\ sock' = [sock EXCEPT ![UdsPath(p, opening[p])] = p]
                 /\ uds'[p] = uds[p] \cup {opening[p]} /\ UNCHANGED <<opening, code>>
                 /\ \/ /\ opening[p] = "tarpc" /\ pc'[p] = "discovery"
                       /\ task'[p]["tarpc"] = "listening" /\ task'[p]["local"] = task[p]["local"]
                    \/ /\ opening[p] = "local" /\ pc'[p] = "link check"
                       /\ task'[p]["local"] = "bound" /\ task'[p]["tarpc"] = task[p]["tarpc"]
                 /\ task'[p]["rpc"] = task[p]["rpc"]
              \/ /\ sock[UdsPath(p, opening[p])] # NoProc
                 /\ AfterFailed(p) /\ UNCHANGED <<sock, uds, task>>
<1>1. pc[p] = "bind" /\ UNCHANGED <<cfg, capLink, joined, link, disc, pidf>>
      BY DEF BindLocal
<1>2. CASE sock[UdsPath(p, opening[p])] # NoProc
      BY <1>1, <1>2, LocalFailedFacts DEF BindLocal
<1>3. CASE sock[UdsPath(p, opening[p])] = NoProc
  <2>1. /\ sock' = [sock EXCEPT ![UdsPath(p, opening[p])] = p]
        /\ uds' = [uds EXCEPT ![p] = @ \cup {opening[p]}]
        /\ IF opening[p] = "tarpc"
           THEN Goto(p, "discovery") /\ SetTask(p, opening[p], "listening")
           ELSE Goto(p, "link check") /\ SetTask(p, opening[p], "bound")
        /\ UNCHANGED <<opening, code>>
        BY <1>3 DEF BindLocal
  <2>2. uds'[p] = uds[p] \cup {opening[p]}
        BY <2>1 DEF TypeInv
  <2>3. CASE opening[p] = "tarpc"
    <3>1. Goto(p, "discovery") /\ SetTask(p, "tarpc", "listening")
          BY <2>1, <2>3
    <3>2. pc'[p] = "discovery"
          BY <3>1, GotoDoes
    <3> QED BY <1>1, <1>3, <2>1, <2>2, <2>3, <3>1, <3>2, SetTaskDoes
  <2>4. CASE opening[p] = "local"
    <3>1. Goto(p, "link check") /\ SetTask(p, "local", "bound")
          BY <2>1, <2>4
    <3>2. pc'[p] = "link check"
          BY <3>1, GotoDoes
    <3> QED BY <1>1, <1>3, <2>1, <2>2, <2>4, <3>1, <3>2, SetTaskDoes
  <2> QED BY <2>3, <2>4 DEF TypeInv
<1> QED BY <1>2, <1>3

\* The JSON-RPC socket has an accept loop from now on.
Spawned(p, some) ==
    /\ task'[p]["local"] = "listening"
    /\ task'[p]["rpc"] = task[p]["rpc"] /\ task'[p]["tarpc"] = task[p]["tarpc"]
    /\ capLink'[p] = some /\ AfterRpc(p)

\* What the exists() of install_capability_symlink does to the state of p,
\* entry by entry.
LEMMA LinkCheckDoes ==
    ASSUME TypeInv, NEW p \in Proc, LinkCheck(p)
    PROVE  /\ pc[p] = "link check" /\ UNCHANGED <<cfg, uds, joined, code, files>>
           /\ \/ ~cfg[p].eco /\ Spawned(p, FALSE)
              \/ /\ cfg[p].eco /\ UNCHANGED <<opening, task, capLink>>
                 /\ \/ LinkExists /\ pc'[p] = "link remove"
                    \/ ~LinkExists /\ pc'[p] = "link create"
<1>1. pc[p] = "link check" /\ UNCHANGED <<cfg, uds, joined, code, files>>
      BY DEF LinkCheck
<1>2. CASE ~cfg[p].eco /\ SpawnLocal(p, FALSE)
      BY <1>1, <1>2, SpawnLocalRow DEF Spawned, Listener
<1>3. CASE /\ cfg[p].eco /\ Goto(p, IF LinkExists THEN "link remove" ELSE "link create")
           /\ UNCHANGED <<opening, task, capLink>>
      BY <1>1, <1>3 DEF Goto, TypeInv
<1> QED BY <1>2, <1>3 DEF LinkCheck

\* What create_local_symlink does to the state of p, entry by entry.
LEMMA LinkCreateDoes ==
    ASSUME TypeInv, NEW p \in Proc, LinkCreate(p)
    PROVE  /\ pc[p] = "link create" /\ UNCHANGED <<cfg, uds, joined, code, sock, disc, pidf>>
           /\ link' = IF link = NoLink THEN [to |-> cfg[p].family, by |-> p] ELSE link
           /\ Spawned(p, link = NoLink)
<1>1. SpawnLocal(p, link = NoLink) /\ (link = NoLink) \in BOOLEAN
      BY DEF LinkCreate
<1>2. Spawned(p, link = NoLink)
      BY <1>1, SpawnLocalRow DEF Spawned, Listener
<1> QED BY <1>2 DEF LinkCreate

\* What start_tarpc_tcp_server does to the state of p, entry by entry.
LEMMA TarpcTcpDoes ==
    ASSUME TypeInv, NEW p \in Proc, TarpcTcp(p)
    PROVE  /\ pc[p] = "tarpc tcp" /\ UNCHANGED <<cfg, opening, uds, capLink, joined, files>>
           /\ task'[p]["local"] = task[p]["local"]
           /\ \/ /\ pc'[p] = "discovery" /\ code'[p] = code[p]
                 /\ task'[p]["rpc"] = task[p]["rpc"]
                 /\ task'[p]["tarpc"] \in {task[p]["tarpc"], "listening"}
              \/ /\ cfg[p].tarpc = "tcp" /\ pc'[p] = "dropping" /\ code'[p] = "GeneralError"
                 /\ task'[p]["rpc"] = IF task[p]["rpc"] = "none" THEN "none" ELSE "dropped"
                 /\ task'[p]["tarpc"] = task[p]["tarpc"]
<1>1. pc[p] = "tarpc tcp" /\ UNCHANGED <<cfg, opening, uds, capLink, joined, files>>
      BY DEF TarpcTcp
<1>2. CASE SetTask(p, "tarpc", "listening") /\ Goto(p, "discovery") /\ UNCHANGED code
      BY <1>1, <1>2, SetTaskDoes, GotoDoes
<1>3. CASE Goto(p, "discovery") /\ UNCHANGED <<task, code>>
      BY <1>1, <1>3, GotoDoes
<1>4. CASE /\ cfg[p].tarpc = "tcp"
           /\ task' = [task EXCEPT ![p]["rpc"] = IF @ = "none" THEN @ ELSE "dropped"]
           /\ Return(p, "GeneralError")
  <2>1. /\ task'[p]["rpc"] = IF task[p]["rpc"] = "none" THEN "none" ELSE "dropped"
        /\ task'[p]["local"] = task[p]["local"] /\ task'[p]["tarpc"] = task[p]["tarpc"]
        BY <1>4 DEF TypeInv, Listener
  <2> QED BY <1>1, <1>4, <2>1, ReturnDoes
<1> QED BY <1>2, <1>3, <1>4 DEF TarpcTcp

----------------------------------------------------------------------------
(* The order of cmd_server.                                                 *)

\* A step of p leaves every other process where it stood.
LEMMA OrderedOther ==
    ASSUME TypeInv, NEW p \in Proc, RowOf(p), NEW q \in Proc \ {p}, OrderedAt(q)
    PROVE  OrderedAt(q)'
<1>1. /\ pc'[q] = pc[q] /\ cfg'[q] = cfg[q] /\ opening'[q] = opening[q]
      /\ task'[q] = task[q] /\ uds'[q] = uds[q] /\ capLink'[q] = capLink[q]
      /\ joined'[q] = joined[q] /\ code'[q] = code[q]
      BY DEF RowOf, Own
<1> QED BY <1>1 DEF OrderedAt, PastLocal

\* The exists() of prepare_local_bind leaves cmd_server with the listeners its
\* position says.
LEMMA PrepareLocalBindOrdered ==
    ASSUME TypeInv, NEW p \in Proc, OrderedAt(p), PrepareLocalBind(p)
    PROVE  OrderedAt(p)'
BY DEF PrepareLocalBind, Goto, OrderedAt, Opening, Linking, Open, Ending, PastLocal, TypeInv

\* The remove_file() of install_capability_symlink leaves cmd_server with the
\* listeners its position says.
LEMMA LinkRemoveOrdered ==
    ASSUME TypeInv, NEW p \in Proc, OrderedAt(p), LinkRemove(p)
    PROVE  OrderedAt(p)'
BY DEF LinkRemove, Goto, OrderedAt, Opening, Linking, Open, Ending, PastLocal, TypeInv

\* write_discovery_file leaves cmd_server with the listeners its position says.
LEMMA WriteDiscoveryOrdered ==
    ASSUME TypeInv, NEW p \in Proc, OrderedAt(p), WriteDiscovery(p)
    PROVE  OrderedAt(p)'
BY DEF WriteDiscovery, Goto, OrderedAt, Opening, Linking, Open, Ending, PastLocal, TypeInv

\* write_pid_file leaves cmd_server with the listeners its position says.
LEMMA WritePidOrdered ==
    ASSUME TypeInv, NEW p \in Proc, OrderedAt(p), WritePid(p)
    PROVE  OrderedAt(p)'
BY DEF WritePid, Goto, OrderedAt, Opening, Linking, Open, Ending, PastLocal, TypeInv

\* wait_for_shutdown_signal returning leaves cmd_server with the listeners its
\* position says.
LEMMA SignalOrdered ==
    ASSUME TypeInv, NEW p \in Proc, OrderedAt(p), Signal(p)
    PROVE  OrderedAt(p)'
BY DEF Signal, Goto, OrderedAt, Opening, Linking, Open, Ending, PastLocal, TypeInv

\* The join of the accept loops leaves cmd_server with the listeners its
\* position says.
LEMMA JoinOrdered ==
    ASSUME TypeInv, NEW p \in Proc, OrderedAt(p), Join(p)
    PROVE  OrderedAt(p)'
BY DEF Join, Goto, Finished, Listener, Cleanup, OrderedAt, Opening, Linking, Open, Ending,
       PastLocal, TypeInv

\* The timeout of the join leaves cmd_server with the listeners its position
\* says.
LEMMA JoinTimeoutOrdered ==
    ASSUME TypeInv, NEW p \in Proc, OrderedAt(p), JoinTimeout(p)
    PROVE  OrderedAt(p)'
BY DEF JoinTimeout, Goto, OrderedAt, Opening, Linking, Open, Ending, PastLocal, TypeInv

\* remove_discovery_file leaves cmd_server with the listeners its position
\* says.
LEMMA RemoveDiscoveryOrdered ==
    ASSUME TypeInv, NEW p \in Proc, OrderedAt(p), RemoveDiscovery(p)
    PROVE  OrderedAt(p)'
BY DEF RemoveDiscovery, Goto, OrderedAt, Opening, Linking, Open, Ending, PastLocal, TypeInv

\* remove_pid_file leaves cmd_server with the listeners its position says.
LEMMA RemovePidOrdered ==
    ASSUME TypeInv, NEW p \in Proc, OrderedAt(p), RemovePid(p)
    PROVE  OrderedAt(p)'
BY DEF RemovePid, Goto, Return, OrderedAt, Opening, Linking, Open, Ending, PastLocal, TypeInv

\* The drop of the runtime leaves cmd_server with the listeners its position
\* says.
LEMMA RuntimeDropOrdered ==
    ASSUME TypeInv, NEW p \in Proc, OrderedAt(p), RuntimeDrop(p)
    PROVE  OrderedAt(p)'
BY DEF RuntimeDrop, Exit, Goto, Cleanup, OrderedAt, Opening, Linking, Open, Ending, PastLocal,
       TypeInv

\* A kill leaves cmd_server with the listeners its position says.
LEMMA KillOrdered ==
    ASSUME TypeInv, NEW p \in Proc, OrderedAt(p), Kill(p)
    PROVE  OrderedAt(p)'
BY DEF Kill, Exit, Goto, Cleanup, OrderedAt, Opening, Linking, Open, Ending, PastLocal, TypeInv

\* The start of cmd_server leaves cmd_server with the listeners its position
\* says.
LEMMA LaunchOrdered ==
    ASSUME TypeInv, NEW p \in Proc, OrderedAt(p), Launch(p)
    PROVE  OrderedAt(p)'
BY DEF Launch, Goto, Return, OrderedAt, Opening, Linking, Open, Ending, PastLocal, TypeInv

\* The remove_file() of prepare_local_bind leaves cmd_server with the listeners
\* its position says.
LEMMA UnlinkOldOrdered ==
    ASSUME TypeInv, NEW p \in Proc, OrderedAt(p), UnlinkOld(p)
    PROVE  OrderedAt(p)'
BY DEF UnlinkOld, LocalFailed, Goto, Return, StartTarpc, OpenLocal, OrderedAt, Opening,
       Linking, Open, Ending, PastLocal, TypeInv

\* start_newline_tcp_jsonrpc leaves cmd_server with the listeners its position
\* says.
LEMMA OpenTcpOrdered ==
    ASSUME TypeInv, NEW p \in Proc, OrderedAt(p), OpenTcp(p)
    PROVE  OrderedAt(p)'
<1>1. "listening" \in Running /\ "listening" \notin Cleanup
      BY DEF Running, Cleanup
<1>2. opening[p] = "local" /\ uds[p] = {} /\ ~capLink[p] /\ \A l \in Listener : task[p][l] = "none"
      BY OpenTcpDoes DEF OrderedAt
<1>3. cfg[p].mode # "UdsOnly"
      BY OpenTcpDoes DEF OrderedAt
<1>4. ~joined[p] /\ code[p] # "Signal"
      BY OpenTcpDoes DEF OrderedAt
<1>5. /\ cfg'[p] = cfg[p] /\ uds'[p] = {} /\ ~capLink'[p] /\ joined'[p] = joined[p]
      BY <1>2, OpenTcpDoes
<1>6. CASE pc'[p] = "dropping" /\ code'[p] = "GeneralError" /\ UNCHANGED <<task, opening>>
      BY <1>2, <1>3, <1>4, <1>5, <1>6 DEF OrderedAt, Opening, Linking, Open, Ending, PastLocal
<1>7. CASE /\ task'[p]["rpc"] = "listening" /\ UNCHANGED code
           /\ task'[p]["local"] = "none" /\ task'[p]["tarpc"] = "none"
           /\ pc'[p] \in {"prepare", "discovery", "tarpc tcp"}
      BY <1>1, <1>2, <1>3, <1>4, <1>5, <1>7 DEF OrderedAt, Opening, Linking, Open, Ending,
                                                PastLocal, Cleanup, Listener
<1> QED BY <1>2, <1>6, <1>7, OpenTcpDoes DEF AfterRpc, Listener

\* bind_local leaves cmd_server with the listeners its position says.
LEMMA BindLocalOrdered ==
    ASSUME TypeInv, NEW p \in Proc, OrderedAt(p), BindLocal(p)
    PROVE  OrderedAt(p)'
<1>1. "listening" \in Running /\ "listening" \notin Cleanup /\ "bound" \notin Cleanup
      BY DEF Running, Cleanup
<1>2. /\ pc[p] = "bind" /\ ~joined[p] /\ code[p] # "Signal"
      /\ opening[p] \in {"local", "tarpc"} /\ uds[p] \subseteq {"local", "tarpc"}
      BY BindLocalDoes DEF OrderedAt, TypeInv
<1>3. /\ cfg[p].mode # "UdsOnly" => task[p]["rpc"] \in Running
      /\ opening[p] = "local" => ~capLink[p]
      /\ cfg[p].mode = "UdsOnly" /\ opening[p] = "tarpc" => task[p]["local"] \in Running
      /\ \A l \in Listener : task[p][l] \notin Cleanup \cup {"done"}
      /\ \A l \in uds[p] : task[p][l] # "none"
      /\ capLink[p] => "local" \in uds[p] /\ task[p]["local"] # "bound"
      BY <1>2 DEF OrderedAt, Opening, Linking, Open, Ending, PastLocal
<1>4. /\ cfg'[p] = cfg[p] /\ capLink'[p] = capLink[p] /\ joined'[p] = joined[p]
      BY BindLocalDoes
<1>5. CASE /\ opening[p] = "tarpc" /\ pc'[p] = "discovery" /\ UNCHANGED <<opening, code>>
           /\ task'[p]["tarpc"] = "listening" /\ task'[p]["local"] = task[p]["local"]
           /\ task'[p]["rpc"] = task[p]["rpc"] /\ uds'[p] = uds[p] \cup {"tarpc"}
      BY <1>1, <1>2, <1>3, <1>4, <1>5 DEF OrderedAt, Opening, Linking, Open, Ending, PastLocal,
                                          Listener
<1>6. CASE /\ opening[p] = "local" /\ pc'[p] = "link check" /\ UNCHANGED <<opening, code>>
           /\ task'[p]["local"] = "bound" /\ task'[p]["tarpc"] = task[p]["tarpc"]
           /\ task'[p]["rpc"] = task[p]["rpc"] /\ uds'[p] = uds[p] \cup {"local"}
      BY <1>1, <1>2, <1>3, <1>4, <1>6 DEF OrderedAt, Opening, Linking, Open, Ending, PastLocal,
                                          Listener
<1>7. CASE AfterFailed(p) /\ UNCHANGED <<uds, task>>
  <2>1. CASE pc'[p] = "dropping" /\ code'[p] = "GeneralError"
        BY <1>2, <1>3, <1>4, <1>7, <2>1 DEF OrderedAt, Opening, Linking, Open, Ending, PastLocal
  <2>2. CASE code' = code /\ opening[p] = "local" /\ cfg[p].mode = "Both" /\ AfterRpc(p)
        BY <1>2, <1>3, <1>4, <1>7, <2>2 DEF OrderedAt, AfterRpc, Opening, Linking, Open,
                                            Ending, PastLocal
  <2>3. CASE code' = code /\ opening[p] = "tarpc" /\ pc'[p] = "tarpc tcp"
        BY <1>2, <1>3, <1>4, <1>7, <2>3 DEF OrderedAt, Opening, Linking, Open, Ending, PastLocal
  <2> QED BY <1>7, <2>1, <2>2, <2>3 DEF AfterFailed
<1> QED BY <1>5, <1>6, <1>7, BindLocalDoes

\* The accept loop of the JSON-RPC socket starts.
LEMMA SpawnedOrdered ==
    ASSUME TypeInv, NEW p \in Proc, OrderedAt(p), NEW some \in BOOLEAN, Spawned(p, some),
           pc[p] \in Linking, some => "local" \in uds[p], UNCHANGED <<cfg, uds, joined, code>>
    PROVE  OrderedAt(p)'
<1>1. "listening" \in Running /\ "listening" \notin Cleanup
      BY DEF Running, Cleanup
<1>2. /\ ~joined[p] /\ code[p] # "Signal"
      /\ cfg[p].mode # "UdsOnly" => task[p]["rpc"] \in Running
      /\ \A l \in Listener : task[p][l] \notin Cleanup \cup {"done"}
      /\ \A l \in uds[p] : task[p][l] # "none"
      BY DEF OrderedAt, Linking, Opening, Open, Ending
<1>3. uds[p] \subseteq {"local", "tarpc"}
      BY DEF TypeInv
<1> QED BY <1>1, <1>2, <1>3 DEF Spawned, AfterRpc, OrderedAt, Opening, Linking, Open, Ending,
                                PastLocal, Listener

\* The exists() of install_capability_symlink leaves cmd_server with the
\* listeners its position says.
LEMMA LinkCheckOrdered ==
    ASSUME TypeInv, NEW p \in Proc, OrderedAt(p), LinkCheck(p)
    PROVE  OrderedAt(p)'
<1>1. CASE Spawned(p, FALSE)
      BY <1>1, SpawnedOrdered, LinkCheckDoes DEF Linking
<1>2. CASE UNCHANGED <<opening, task, capLink>> /\ pc'[p] \in {"link remove", "link create"}
      BY <1>2, LinkCheckDoes DEF OrderedAt, Opening, Linking, Open, Ending, PastLocal
<1> QED BY <1>1, <1>2, LinkCheckDoes

\* create_local_symlink leaves cmd_server with the listeners its position says.
LEMMA LinkCreateOrdered ==
    ASSUME TypeInv, NEW p \in Proc, OrderedAt(p), LinkCreate(p)
    PROVE  OrderedAt(p)'
<1>1. (link = NoLink) \in BOOLEAN /\ pc[p] \in Linking /\ "local" \in uds[p]
      BY LinkCreateDoes DEF Linking, OrderedAt
<1> QED BY <1>1, SpawnedOrdered, LinkCreateDoes

\* start_tarpc_tcp_server leaves cmd_server with the listeners its position
\* says.
LEMMA TarpcTcpOrdered ==
    ASSUME TypeInv, NEW p \in Proc, OrderedAt(p), TarpcTcp(p)
    PROVE  OrderedAt(p)'
<1>1. "listening" \notin Cleanup /\ "dropped" \notin Cleanup
      BY DEF Cleanup
<1>2. /\ pc[p] = "tarpc tcp" /\ ~joined[p] /\ code[p] # "Signal"
      /\ cfg[p].mode # "UdsOnly" => task[p]["rpc"] \in Running
      /\ cfg[p].mode = "UdsOnly" => task[p]["local"] \in Running
      /\ \A l \in Listener : task[p][l] \notin Cleanup \cup {"done"}
      /\ \A l \in uds[p] : task[p][l] # "none"
      /\ capLink[p] => "local" \in uds[p] /\ task[p]["local"] # "bound"
      BY TarpcTcpDoes DEF OrderedAt, Opening, Linking, Open, Ending, PastLocal
<1>3. /\ cfg'[p] = cfg[p] /\ capLink'[p] = capLink[p] /\ joined'[p] = joined[p]
      /\ uds'[p] = uds[p] /\ uds[p] \subseteq {"local", "tarpc"}
      /\ task'[p]["local"] = task[p]["local"]
      BY TarpcTcpDoes DEF TypeInv
<1>4. CASE /\ pc'[p] = "discovery" /\ code'[p] = code[p] /\ task'[p]["rpc"] = task[p]["rpc"]
           /\ task'[p]["tarpc"] \in {task[p]["tarpc"], "listening"}
  <2>1. \A l \in Listener : task'[p][l] \in {task[p][l], "listening"}
        BY <1>3, <1>4 DEF Listener
  <2>2. /\ \A l \in Listener : task'[p][l] \notin Cleanup \cup {"done"}
        /\ \A l \in uds'[p] : task'[p][l] # "none"
        BY <1>1, <1>2, <1>3, <2>1 DEF Listener
  <2> QED BY <1>2, <1>3, <1>4, <2>2 DEF OrderedAt, Opening, Linking, Open, Ending, PastLocal
<1>5. CASE /\ pc'[p] = "dropping" /\ code'[p] = "GeneralError"
           /\ task'[p]["tarpc"] = task[p]["tarpc"]
      BY <1>1, <1>2, <1>3, <1>5 DEF OrderedAt, Opening, Linking, Open, Ending, PastLocal
<1> QED BY <1>4, <1>5, TarpcTcpDoes

\* What the accept loops do.
LEMMA LoopDoes ==
    ASSUME TypeInv, NEW p \in Proc, NEW l \in Listener,
           Accept(p, l) \/ LoopStep(p, l) \/ PeerAnswers(p, l) \/ BreakLoop(p, l)
    PROVE  \/ task[p][l] \in Running /\ task'[p][l] \in Running /\ UNCHANGED files
           \/ /\ task[p][l] = "listening" /\ ShutdownSeen(p) /\ UNCHANGED files
              /\ task'[p][l] = IF l \in uds[p] THEN "unlink socket" ELSE "done"
           \/ /\ task[p][l] = "unlink socket" /\ UNCHANGED <<link, disc, pidf>>
              /\ sock' = [sock EXCEPT ![UdsPath(p, l)] = NoProc]
              /\ task'[p][l] = IF l = "local" /\ capLink[p] THEN "unlink link" ELSE "done"
           \/ /\ task[p][l] = "unlink link" /\ UNCHANGED <<sock, disc, pidf>>
              /\ link' = NoLink /\ task'[p][l] = "done"
<1>1. {"first byte", "first line", "negotiate", "guard", "create", "challenge", "verify",
       "listening"} \subseteq Running
      BY DEF Running, Bounded, OnPeer
<1>2. ASSUME NEW s, SetTask(p, l, s) PROVE task'[p][l] = s
      BY <1>2 DEF SetTask, TypeInv
<1>3. ASSUME NEW from \in Running, NEW to \in SUBSET Running, Dispatch(p, l, from, to)
      PROVE  task[p][l] \in Running /\ task'[p][l] \in Running /\ UNCHANGED files
      BY <1>2, <1>3 DEF Dispatch
<1>4. CASE Accept(p, l) \/ PeerAnswers(p, l)
      BY <1>1, <1>3, <1>4 DEF Accept, PeerAnswers, Negotiate, Guard, Create, Challenge, Verify
<1>5. CASE FirstByte(p, l)
  <2>1. {"first line", "listening"} \cup (IF l = "local" THEN {"negotiate"} ELSE {})
           \cup (IF cfg[p].btsp THEN {"guard"} ELSE {}) \in SUBSET Running
        BY <1>1
  <2> QED BY <1>1, <1>3, <1>5, <2>1 DEF FirstByte
<1>6. CASE FirstLine(p, l)
  <2>1. {"listening"} \cup (IF ~cfg[p].btsp THEN {}
           ELSE IF l = "local" THEN {"create"} ELSE {"guard"}) \in SUBSET Running
        BY <1>1
  <2> QED BY <1>1, <1>3, <1>6, <2>1 DEF FirstLine
<1>7. CASE BreakLoop(p, l)
      BY <1>2, <1>7 DEF BreakLoop
<1>8. CASE UnlinkSocket(p, l)
      BY <1>2, <1>8 DEF UnlinkSocket
<1>9. CASE UnlinkLink(p, l)
      BY <1>2, <1>9 DEF UnlinkLink
<1> QED BY <1>4, <1>5, <1>6, <1>7, <1>8, <1>9 DEF LoopStep

\* Accept loops run only while cmd_server has started them, and end only after
\* the shutdown was seen.
LEMMA LoopOrdered ==
    ASSUME TypeInv, NEW p \in Proc, NEW l \in Listener, OrderedAt(p),
           Accept(p, l) \/ LoopStep(p, l) \/ PeerAnswers(p, l) \/ BreakLoop(p, l)
    PROVE  OrderedAt(p)'
<1>1. Running \cap (Cleanup \cup {"done", "none", "bound"}) = {}
      BY DEF Running, Bounded, OnPeer, Cleanup
<1>2. Cleanup = {"unlink socket", "unlink link"} /\ uds[p] \subseteq Listener
      BY DEF Cleanup, TypeInv, Listener
<1>3. /\ UNCHANGED <<pc, cfg, opening, uds, capLink, joined, code>>
      /\ \A k \in Listener \ {l} : task'[p][k] = task[p][k]
      BY LoopRow DEF main
<1>4. CASE task[p][l] \in Running /\ task'[p][l] \in Running
  <2>1. /\ \A k \in Listener : task'[p][k] \in Running <=> task[p][k] \in Running
        /\ \A k \in Listener : task'[p][k] \notin Running => task'[p][k] = task[p][k]
        BY <1>3, <1>4
  <2>2. "local" \in Listener /\ "rpc" \in Listener
        BY DEF Listener
  <2> QED BY <1>1, <1>2, <1>3, <2>1, <2>2 DEF OrderedAt, PastLocal
<1>5. CASE pc[p] \in Ending /\ task'[p][l] \in Cleanup \cup {"done"}
  <2>1. pc[p] \notin Opening \cup Linking \cup Open \cup {"idle", "tcp", "exited"}
        BY <1>5 DEF Opening, Linking, Open, Ending
  <2> QED BY <1>1, <1>2, <1>3, <1>5, <2>1 DEF OrderedAt, PastLocal
<1>6. task[p][l] \in Cleanup \/ ShutdownSeen(p) => pc[p] \in Ending
      BY DEF OrderedAt, ShutdownSeen, Ending
<1> QED BY <1>2, <1>4, <1>5, <1>6, LoopDoes

\* No process has opened anything before cmd_server runs.
LEMMA OrderedInit == Init => Ordered
BY DEF Init, Ordered, OrderedAt, PastLocal, Opening, Linking, Open, Ending, Cleanup

----------------------------------------------------------------------------
(* The files of a process.                                                  *)

\* A step of p gives no other process a file and takes back none that it gave up.
LEMMA OwnedOther ==
    ASSUME TypeInv, NEW p \in Proc, StepOf(p), NEW q \in Proc \ {p}, OwnedAt(q)
    PROVE  OwnedAt(q)'
<1>1. /\ pc'[q] = pc[q] /\ cfg'[q] = cfg[q] /\ task'[q] = task[q] /\ uds'[q] = uds[q]
      /\ capLink'[q] = capLink[q] /\ joined'[q] = joined[q] /\ code'[q] = code[q]
      BY DEF StepOf, RowOf, Own
<1>2. q # NoProc /\ q # p /\ uds[q] \subseteq {"local", "tarpc"}
      BY ConfigType DEF TypeInv
<1>3. /\ \A n \in SockName : sock'[n] = q => sock[n] = q
      /\ link'.by = q => link.by = q
      /\ disc' = q => disc = q
      /\ pidf' = q => pidf = q
      BY <1>2 DEF StepOf, FilesOf
<1>4. \A l \in uds[q] : UdsPath(q, l) \in SockName
      BY <1>2, ConfigType DEF UdsPath, SockName, TypeInv
<1>5. pc'[q] # "exited" =>
        /\ \A n \in SockName : sock'[n] = q => \E l \in uds'[q] : n = UdsPath(q, l)'
        /\ link'.by = q => capLink'[q]
      BY <1>1, <1>3 DEF OwnedAt, UdsPath
<1>6. \A l \in uds'[q] : task'[q][l] \in {"unlink link", "done"} => sock'[UdsPath(q, l)'] # q
  <2> SUFFICES ASSUME NEW l \in uds[q], task[q][l] \in {"unlink link", "done"}
               PROVE  sock'[UdsPath(q, l)'] # q
      BY <1>1
  <2>1. sock[UdsPath(q, l)] # q /\ UdsPath(q, l) \in SockName
        BY <1>4 DEF OwnedAt
  <2>2. UdsPath(q, l)' = UdsPath(q, l)
        BY <1>1 DEF UdsPath
  <2> QED BY <1>3, <2>1, <2>2
<1>7. joined'[q] => link'.by # q /\ \A n \in SockName : sock'[n] # q
      BY <1>1, <1>3 DEF OwnedAt
<1>8. capLink'[q] /\ task'[q]["local"] = "done" => link'.by # q
      BY <1>1, <1>3 DEF OwnedAt
<1>9. /\ pc'[q] = "remove pid" => disc' # q
      /\ code'[q] = "Signal" => disc' # q /\ pidf' # q
      BY <1>1, <1>3 DEF OwnedAt
<1> QED BY <1>5, <1>6, <1>7, <1>8, <1>9 DEF OwnedAt, UdsPath

\* A step that gives p no file and ends none of its accept loops.
LEMMA OwnedKept ==
    ASSUME TypeInv, NEW p \in Proc, OwnedAt(p), pc[p] # "exited",
           \A n \in SockName : sock'[n] = p => sock[n] = p, link'.by = p => link.by = p,
           cfg'[p] = cfg[p], uds'[p] = uds[p], capLink'[p] <=> capLink[p],
           joined'[p] = joined[p],
           \A l \in Listener : task'[p][l] \in Cleanup \cup {"done"} => task'[p][l] = task[p][l],
           pc'[p] = "remove pid" => disc' # p,
           code'[p] = "Signal" => disc' # p /\ pidf' # p
    PROVE  OwnedAt(p)'
<1>1. uds[p] \subseteq {"local", "tarpc"} /\ {"local", "tarpc"} \subseteq Listener
      BY DEF TypeInv, Listener
<1>2. \A l \in uds[p] : UdsPath(p, l) \in SockName
      BY <1>1, ConfigType DEF UdsPath, SockName, TypeInv
<1>3. {"done", "unlink link"} \subseteq Cleanup \cup {"done"}
      BY DEF Cleanup
<1>4. \A l \in uds'[p] : task'[p][l] \in {"unlink link", "done"} => sock'[UdsPath(p, l)'] # p
  <2> SUFFICES ASSUME NEW l \in uds[p], task'[p][l] \in {"unlink link", "done"}
               PROVE  sock'[UdsPath(p, l)'] # p
      OBVIOUS
  <2>1. sock[UdsPath(p, l)] # p /\ UdsPath(p, l) \in SockName
        BY <1>1, <1>2, <1>3 DEF OwnedAt
  <2>2. UdsPath(p, l)' = UdsPath(p, l)
        BY DEF UdsPath
  <2> QED BY <2>1, <2>2
<1>5. link'.by = p => capLink'[p]
      BY DEF OwnedAt
<1>8. \A n \in SockName : sock'[n] = p => \E l \in uds'[p] : n = UdsPath(p, l)'
      BY DEF OwnedAt, UdsPath
<1>6. capLink'[p] /\ task'[p]["local"] = "done" => link'.by # p
      BY <1>1, <1>3 DEF OwnedAt
<1>7. joined'[p] => link'.by # p /\ \A n \in SockName : sock'[n] # p
      BY DEF OwnedAt
<1> QED BY <1>4, <1>5, <1>6, <1>7, <1>8 DEF OwnedAt

\* There is no file before any cmd_server runs.
LEMMA OwnedInit == Init => Owned
BY ConfigType DEF Init, Owned, OwnedAt, NoLink

\* A step of cmd_server that binds nothing keeps to the files of its process.
LEMMA StartOwned ==
    ASSUME TypeInv, NEW p \in Proc, OrderedAt(p), OwnedAt(p),
           \/ PrepareLocalBind(p) \/ Signal(p) \/ JoinTimeout(p) \/ WriteDiscovery(p)
           \/ WritePid(p) \/ RemoveDiscovery(p) \/ RemovePid(p)
    PROVE  OwnedAt(p)'
<1>1. UNCHANGED <<sock, link, cfg, uds, capLink, joined, task>>
      BY DEF PrepareLocalBind, Signal, JoinTimeout, WriteDiscovery, WritePid, RemoveDiscovery,
             RemovePid, files
<1>2. NoProc # p
      BY ConfigType
<1>3. CASE PrepareLocalBind(p) \/ Signal(p) \/ JoinTimeout(p) \/ WriteDiscovery(p) \/ WritePid(p)
  <2>1. pc[p] \notin {"exited", "dropping"} /\ pc'[p] # "remove pid" /\ code' = code
        BY <1>3 DEF PrepareLocalBind, Signal, JoinTimeout, WriteDiscovery, WritePid, Goto, TypeInv
  <2>2. code[p] # "Signal"
        BY <2>1 DEF OrderedAt
  <2> QED BY <1>1, <2>1, <2>2, OwnedKept
<1>4. CASE RemoveDiscovery(p)
  <2>1. pc[p] = "remove discovery" /\ pc'[p] = "remove pid" /\ code' = code /\ disc' = NoProc
        BY <1>4 DEF RemoveDiscovery, Goto, TypeInv
  <2>2. code[p] # "Signal"
        BY <2>1 DEF OrderedAt
  <2> QED BY <1>1, <1>2, <2>1, <2>2, OwnedKept
<1>5. CASE RemovePid(p)
  <2>1. pc[p] = "remove pid" /\ pc'[p] = "dropping" /\ disc' = disc /\ pidf' = NoProc
        BY <1>5 DEF RemovePid, Return, Goto, TypeInv
  <2>2. disc # p
        BY <2>1 DEF OwnedAt
  <2> QED BY <1>1, <1>2, <2>1, <2>2, OwnedKept
<1> QED BY <1>3, <1>4, <1>5

\* The start of cmd_server keeps to the files of its process.
LEMMA LaunchOwned ==
    ASSUME TypeInv, NEW p \in Proc, OrderedAt(p), OwnedAt(p), Launch(p) PROVE OwnedAt(p)'
<1>1. /\ pc[p] = "idle" /\ UNCHANGED <<opening, uds, capLink, joined, task, files>>
      /\ code'[p] # "Signal" /\ pc'[p] \notin {"idle", "remove pid"}
      BY DEF Launch, Return, Goto, TypeInv, OrderedAt
<1>2. uds[p] = {} /\ ~capLink[p]
      BY <1>1 DEF OrderedAt
<1>3. link.by # p /\ \A n \in SockName : sock[n] # p
      BY <1>1, <1>2 DEF OwnedAt
<1> QED BY <1>1, <1>2, <1>3 DEF OwnedAt, files

\* Steps that open or give up a listener without a file.
LEMMA ListenOwned ==
    ASSUME TypeInv, NEW p \in Proc, OrderedAt(p), OwnedAt(p), OpenTcp(p) \/ TarpcTcp(p)
    PROVE  OwnedAt(p)'
<1>1. /\ pc[p] \notin {"exited", "dropping"} /\ pc'[p] # "remove pid"
      /\ UNCHANGED <<cfg, uds, capLink, joined, files>>
      /\ code'[p] \in {code[p], "GeneralError"}
      /\ \A l \in Listener : task'[p][l] \in {"dropped", "listening", "none", task[p][l]}
      BY OpenTcpDoes, TarpcTcpDoes DEF AfterRpc, Listener
<1>2. code[p] # "Signal"
      BY <1>1 DEF OrderedAt
<1>3. Cleanup \cap {"dropped", "listening", "none"} = {}
      BY DEF Cleanup
<1> QED BY <1>1, <1>2, <1>3, OwnedKept DEF files

\* A check or removal of the capability link keeps to the files of its process.
LEMMA LinkingOwned ==
    ASSUME TypeInv, NEW p \in Proc, OrderedAt(p), OwnedAt(p), LinkCheck(p) \/ LinkRemove(p)
    PROVE  OwnedAt(p)'
<1>1. pc[p] \in Linking /\ ~capLink[p] /\ code[p] # "Signal"
      BY DEF LinkCheck, LinkRemove, Linking, OrderedAt
<1>2. "listening" \notin Cleanup
      BY DEF Cleanup
<1>3. CASE LinkCheck(p)
  <2>1. /\ pc'[p] # "remove pid" /\ UNCHANGED <<cfg, uds, joined, code, files>>
        /\ ~capLink'[p]
        /\ \A l \in Listener : task'[p][l] \in {"listening", task[p][l]}
        BY <1>1, <1>3, LinkCheckDoes DEF Spawned, AfterRpc, Listener
  <2> QED BY <1>1, <1>2, <2>1, OwnedKept DEF files, Linking
<1>4. CASE LinkRemove(p)
  <2>1. /\ pc'[p] = "link create" /\ UNCHANGED <<cfg, uds, capLink, joined, code, task, sock>>
        /\ link'.by # p
        BY <1>4, ConfigType DEF LinkRemove, Goto, TypeInv, NoLink
  <2> QED BY <1>1, <2>1, OwnedKept DEF Linking
<1> QED BY <1>3, <1>4

\* create_local_symlink keeps to the files of its process.
LEMMA LinkCreateOwned ==
    ASSUME TypeInv, NEW p \in Proc, OrderedAt(p), OwnedAt(p), LinkCreate(p) PROVE OwnedAt(p)'
<1>1. /\ pc[p] = "link create" /\ UNCHANGED <<cfg, uds, joined, code, sock, disc, pidf>>
      /\ link' = IF link = NoLink THEN [to |-> cfg[p].family, by |-> p] ELSE link
      /\ capLink'[p] = (link = NoLink) /\ pc'[p] \notin {"exited", "remove pid"}
      /\ task'[p]["local"] = "listening"
      /\ \A l \in Listener : task'[p][l] \in {"listening", task[p][l]}
      BY LinkCreateDoes DEF Spawned, AfterRpc, Listener
<1>2. ~capLink[p] /\ ~joined[p] /\ code[p] # "Signal" /\ link.by # p
      BY <1>1 DEF OrderedAt, OwnedAt, Linking
<1>3. uds[p] \subseteq Listener
      BY DEF TypeInv, Listener
<1>4. \A l \in uds'[p] : task'[p][l] \in {"unlink link", "done"} => sock'[UdsPath(p, l)'] # p
      BY <1>1, <1>3 DEF OwnedAt, UdsPath
<1>5. \A n \in SockName : sock'[n] = p => \E l \in uds'[p] : n = UdsPath(p, l)'
      BY <1>1 DEF OwnedAt, UdsPath
<1> QED BY <1>1, <1>2, <1>4, <1>5 DEF OwnedAt

\* The remove_file() of prepare_local_bind keeps to the files of its process.
LEMMA UnlinkOldOwned ==
    ASSUME TypeInv, NEW p \in Proc, OrderedAt(p), OwnedAt(p), UnlinkOld(p) PROVE OwnedAt(p)'
<1>1. /\ pc[p] = "unlink old" /\ UNCHANGED <<cfg, uds, capLink, joined, task, link>>
      BY DEF UnlinkOld
<1>2. code[p] # "Signal" /\ NoProc # p
      BY <1>1, ConfigType DEF OrderedAt
<1>3. \A n \in SockName : sock'[n] = p => sock[n] = p
      BY <1>2 DEF UnlinkOld, TypeInv
<1>4. pc'[p] # "remove pid" /\ code'[p] \in {code[p], "GeneralError"}
      BY LocalFailedFacts DEF UnlinkOld, Goto, TypeInv, AfterFailed, AfterRpc
<1> QED BY <1>1, <1>2, <1>3, <1>4, OwnedKept

\* bind_local keeps to the files of its process.
LEMMA BindLocalOwned ==
    ASSUME TypeInv, NEW p \in Proc, OrderedAt(p), OwnedAt(p), BindLocal(p) PROVE OwnedAt(p)'
<1>1. /\ pc[p] = "bind" /\ UNCHANGED <<cfg, capLink, joined, link>>
      /\ ~joined[p] /\ code[p] # "Signal"
      /\ opening[p] \in {"local", "tarpc"} /\ uds[p] \subseteq Listener
      BY BindLocalDoes DEF OrderedAt, TypeInv, Listener
<1>2. CASE AfterFailed(p) /\ UNCHANGED <<sock, uds, task>>
  <2>1. pc'[p] # "remove pid" /\ code'[p] \in {code[p], "GeneralError"}
        BY <1>2 DEF AfterFailed, AfterRpc
  <2> QED BY <1>1, <1>2, <2>1, OwnedKept
<1>3. CASE /\ sock' = [sock EXCEPT ![UdsPath(p, opening[p])] = p]
           /\ uds'[p] = uds[p] \cup {opening[p]} /\ UNCHANGED <<opening, code>>
           /\ pc'[p] \in {"discovery", "link check"}
           /\ \A l \in Listener : task'[p][l] \in {"listening", "bound", task[p][l]}
  <2>1. \A l \in Listener : task[p][l] \notin {"unlink link", "done"}
        BY <1>1 DEF OrderedAt, Cleanup, Ending
  <2>2. \A l \in uds'[p] : task'[p][l] \notin {"unlink link", "done"}
        BY <1>1, <1>3, <2>1 DEF Listener
  <2>3. \A n \in SockName : sock'[n] = p => \E l \in uds'[p] : n = UdsPath(p, l)'
        BY <1>1, <1>3 DEF OwnedAt, UdsPath, TypeInv
  <2>4. capLink[p] => task'[p]["local"] # "done"
        BY <1>3, <2>1 DEF Listener
  <2> QED BY <1>1, <1>3, <2>2, <2>3, <2>4 DEF OwnedAt
<1>4. CASE sock[UdsPath(p, opening[p])] = NoProc
  <2>1. /\ task'[p]["rpc"] = task[p]["rpc"]
        /\ task'[p]["local"] \in {"bound", task[p]["local"]}
        /\ task'[p]["tarpc"] \in {"listening", task[p]["tarpc"]}
        BY <1>4, BindLocalDoes
  <2>2. \A l \in Listener : task'[p][l] \in {"listening", "bound", task[p][l]}
        BY <2>1 DEF Listener
  <2> QED BY <1>3, <1>4, <2>2, BindLocalDoes
<1> QED BY <1>2, <1>4, BindLocalDoes

\* The join of the accept loops keeps to the files of its process.
LEMMA JoinOwned ==
    ASSUME TypeInv, NEW p \in Proc, OrderedAt(p), OwnedAt(p), Join(p) PROVE OwnedAt(p)'
<1>1. /\ pc[p] = "joining" /\ pc'[p] = "remove discovery" /\ joined'[p] /\ code[p] # "Signal"
      /\ UNCHANGED <<cfg, opening, uds, capLink, code, task, files>>
      BY DEF Join, Goto, TypeInv, OrderedAt
<1>2. uds[p] \subseteq Listener
      BY DEF TypeInv, Listener
<1>3. \A l \in uds[p] : task[p][l] = "done"
      BY <1>2 DEF Join, Finished, OrderedAt
<1>4. \A n \in SockName : sock[n] # p
      BY <1>1, <1>3 DEF OwnedAt
<1>5. link.by # p
      BY <1>1, <1>3 DEF OwnedAt, OrderedAt
<1> QED BY <1>1, <1>4, <1>5 DEF OwnedAt, UdsPath, files

\* The end of a process keeps to the files of its process.
LEMMA ExitOwned ==
    ASSUME TypeInv, NEW p \in Proc, OwnedAt(p), RuntimeDrop(p) \/ Kill(p) PROVE OwnedAt(p)'
<1>1. /\ pc'[p] = "exited" /\ uds'[p] = {} /\ ~capLink'[p]
      BY ExitFacts DEF RuntimeDrop, Kill
<1>2. code'[p] \in {code[p], "killed"} /\ UNCHANGED <<joined, sock, link, disc, pidf>>
      BY DEF RuntimeDrop, Kill, files, TypeInv
<1> QED BY <1>1, <1>2 DEF OwnedAt

\* A step of an accept loop keeps to the files of its process.
LEMMA LoopOwned ==
    ASSUME TypeInv, NEW p \in Proc, NEW l \in Listener, OrderedAt(p), OwnedAt(p),
           Accept(p, l) \/ LoopStep(p, l) \/ PeerAnswers(p, l) \/ BreakLoop(p, l)
    PROVE  OwnedAt(p)'
<1>1. /\ UNCHANGED <<pc, cfg, opening, uds, capLink, joined, code>>
      /\ \A k \in Listener \ {l} : task'[p][k] = task[p][k]
      BY LoopRow DEF main
<1>2. Running \cap {"unlink link", "done", "unlink socket"} = {}
      BY DEF Running, Bounded, OnPeer
<1>3. uds[p] \subseteq Listener /\ NoProc # p /\ "local" \in Listener
      BY ConfigType DEF TypeInv, Listener
<1>4. \A k \in uds[p] : UdsPath(p, k) \in SockName
      BY ConfigType DEF UdsPath, SockName, TypeInv
<1>5. /\ \A n \in SockName : sock'[n] = p => sock[n] = p
      /\ link'.by = p => link.by = p
      /\ disc' = disc /\ pidf' = pidf
  <2>1. sock' = sock \/ sock' = [sock EXCEPT ![UdsPath(p, l)] = NoProc]
        BY LoopDoes DEF files
  <2>2. link' = link \/ link' = NoLink
        BY LoopDoes DEF files
  <2>3. disc' = disc /\ pidf' = pidf
        BY LoopDoes DEF files
  <2>4. \A n \in SockName : sock'[n] = p => sock[n] = p
        BY <1>3, <2>1 DEF TypeInv
  <2>5. link'.by = p => link.by = p
        BY <1>3, <2>2 DEF NoLink
  <2> QED BY <2>3, <2>4, <2>5
<1>6. \A k \in uds[p] : task'[p][k] \in {"unlink link", "done"} => sock'[UdsPath(p, k)] # p
  <2> SUFFICES ASSUME NEW k \in uds[p], task'[p][k] \in {"unlink link", "done"}
               PROVE  sock'[UdsPath(p, k)] # p
      OBVIOUS
  <2>1. CASE task[p][k] \in {"unlink link", "done"}
        BY <1>4, <1>5, <2>1 DEF OwnedAt
  <2>2. CASE task[p][k] \notin {"unlink link", "done"}
    <3>1. k = l
          BY <1>1, <1>3, <2>2
    <3>2. sock' = [sock EXCEPT ![UdsPath(p, k)] = NoProc]
          BY <1>2, <2>2, <3>1, LoopDoes
    <3> QED BY <1>3, <1>4, <3>2 DEF TypeInv
  <2> QED BY <2>1, <2>2
<1>7. capLink[p] /\ task'[p]["local"] = "done" => link'.by # p
  <2> SUFFICES ASSUME capLink[p], task'[p]["local"] = "done" PROVE link'.by # p
      OBVIOUS
  <2>1. CASE task[p]["local"] = "done"
        BY <1>5, <2>1 DEF OwnedAt
  <2>2. CASE task[p]["local"] # "done"
    <3>1. l = "local" /\ "local" \in uds[p]
          BY <1>1, <1>3, <2>2 DEF OrderedAt
    <3>2. link' = NoLink
          BY <1>2, <2>2, <3>1, LoopDoes
    <3> QED BY <1>3, <3>2 DEF NoLink
  <2> QED BY <2>1, <2>2
<1>8. \A k \in uds'[p] : task'[p][k] \in {"unlink link", "done"} => sock'[UdsPath(p, k)'] # p
      BY <1>1, <1>6 DEF UdsPath
<1>9. pc'[p] # "exited" =>
         /\ \A n \in SockName : sock'[n] = p => \E k \in uds'[p] : n = UdsPath(p, k)'
         /\ link'.by = p => capLink'[p]
       BY <1>1, <1>5 DEF OwnedAt, UdsPath
<1>10. joined'[p] => link'.by # p /\ \A n \in SockName : sock'[n] # p
       BY <1>1, <1>5 DEF OwnedAt
<1> QED BY <1>1, <1>5, <1>7, <1>8, <1>9, <1>10 DEF OwnedAt

----------------------------------------------------------------------------
(* However the processes interleave.                                        *)

Inv == TypeInv /\ Ordered /\ Owned

\* A step of cmd_server writes its own row and keeps what holds of its process.
LEMMA InvProcess ==
    ASSUME Inv, NEW p \in Proc, Launch(p) \/ Starting(p) \/ Signal(p) \/ Stopping(p) \/ Kill(p)
    PROVE  StepOf(p) /\ OrderedAt(p)' /\ OwnedAt(p)'
<1>1. TypeInv /\ OrderedAt(p) /\ OwnedAt(p)
      BY DEF Inv, Ordered, Owned
<1>2. CASE Launch(p)
      BY <1>1, <1>2, LaunchRow, LaunchOrdered, LaunchOwned
<1>3. CASE Signal(p) \/ Kill(p)
      BY <1>1, <1>3, SignalRow, SignalOrdered, StartOwned, KillRow, KillOrdered, ExitOwned
<1>4. CASE OpenTcp(p)
      BY <1>1, <1>4, OpenTcpRow, OpenTcpOrdered, ListenOwned
<1>5. CASE PrepareLocalBind(p)
      BY <1>1, <1>5, PrepareLocalBindRow, PrepareLocalBindOrdered, StartOwned
<1>6. CASE UnlinkOld(p)
      BY <1>1, <1>6, UnlinkOldRow, UnlinkOldOrdered, UnlinkOldOwned
<1>7. CASE BindLocal(p)
      BY <1>1, <1>7, BindLocalRow, BindLocalOrdered, BindLocalOwned
<1>8. CASE LinkCheck(p)
      BY <1>1, <1>8, LinkCheckRow, LinkCheckOrdered, LinkingOwned
<1>9. CASE LinkRemove(p)
      BY <1>1, <1>9, LinkRemoveRow, LinkRemoveOrdered, LinkingOwned
<1>10. CASE LinkCreate(p)
      BY <1>1, <1>10, LinkCreateRow, LinkCreateOrdered, LinkCreateOwned
<1>11. CASE TarpcTcp(p)
      BY <1>1, <1>11, TarpcTcpRow, TarpcTcpOrdered, ListenOwned
<1>12. CASE WriteDiscovery(p) \/ WritePid(p)
      BY <1>1, <1>12, WriteDiscoveryRow, WriteDiscoveryOrdered, WritePidRow, WritePidOrdered,
         StartOwned
<1>13. CASE Join(p)
      BY <1>1, <1>13, JoinRow, JoinOrdered, JoinOwned
<1>14. CASE JoinTimeout(p)
      BY <1>1, <1>14, JoinTimeoutRow, JoinTimeoutOrdered, StartOwned
<1>15. CASE RemoveDiscovery(p) \/ RemovePid(p)
      BY <1>1, <1>15, RemoveDiscoveryRow, RemoveDiscoveryOrdered, RemovePidRow,
         RemovePidOrdered, StartOwned
<1>16. CASE RuntimeDrop(p)
      BY <1>1, <1>16, RuntimeDropRow, RuntimeDropOrdered, ExitOwned
<1> QED BY <1>2, <1>3, <1>4, <1>5, <1>6, <1>7, <1>8, <1>9, <1>10, <1>11, <1>12, <1>13, <1>14,
           <1>15, <1>16 DEF Starting, Stopping

\* Stuttering keeps the invariant.
LEMMA InvStutter == Inv /\ UNCHANGED vars => Inv'
<1> SUFFICES ASSUME Inv, UNCHANGED vars PROVE Inv'
    OBVIOUS
<1>1. /\ pc' = pc /\ cfg' = cfg /\ opening' = opening /\ task' = task /\ uds' = uds
      /\ capLink' = capLink /\ joined' = joined /\ code' = code
      /\ sock' = sock /\ link' = link /\ disc' = disc /\ pidf' = pidf /\ kills' = kills
      BY DEF vars, main, files
<1>2. TypeInv'
      BY <1>1 DEF Inv, TypeInv
<1>3. ASSUME NEW p \in Proc PROVE OrderedAt(p)' /\ OwnedAt(p)'
  <2>1. OrderedAt(p) /\ OwnedAt(p)
        BY DEF Inv, Ordered, Owned
  <2>2. OrderedAt(p)'
        BY <1>1, <2>1 DEF OrderedAt, PastLocal
  <2>3. OwnedAt(p)'
        BY <1>1, <2>1 DEF OwnedAt, UdsPath
  <2> QED BY <2>2, <2>3
<1> QED BY <1>2, <1>3 DEF Inv, Ordered, Owned

\* Ordered and Owned are kept by every step.
LEMMA InvStep == Inv /\ [Next]_vars => Inv'
<1> SUFFICES ASSUME Inv, [Next]_vars PROVE Inv'
    OBVIOUS
<1>1. ASSUME NEW p \in Proc, StepOf(p), OrderedAt(p)', OwnedAt(p)' PROVE Inv'
  <2>1. TypeInv'
        BY <1>1, StepTypes DEF Inv
  <2>2. \A q \in Proc : OrderedAt(q)'
        BY <1>1, OrderedOther DEF Inv, Ordered, StepOf
  <2>3. \A q \in Proc : OwnedAt(q)'
        BY <1>1, OwnedOther DEF Inv, Owned
  <2> QED BY <2>1, <2>2, <2>3 DEF Inv, Ordered, Owned
<1>2. ASSUME NEW p \in Proc, Launch(p) \/ Starting(p) \/ Signal(p) \/ Stopping(p) \/ Kill(p)
      PROVE  Inv'
      BY <1>1, <1>2, InvProcess
<1>3. ASSUME NEW p \in Proc, NEW l \in Listener,
             Accept(p, l) \/ LoopStep(p, l) \/ PeerAnswers(p, l) \/ BreakLoop(p, l)
      PROVE  Inv'
      BY <1>1, <1>3, LoopRow, LoopOrdered, LoopOwned DEF Inv, Ordered, Owned
<1> QED BY <1>2, <1>3, InvStutter DEF Next

\* However the processes interleave and whenever they are killed, cmd_server has
\* started what its position says, and every file belongs to whom it says.
THEOREM Invariant == Spec => []Inv
<1>1. Init => Inv
      BY TypeInit, OrderedInit, OwnedInit DEF Inv
<1> QED BY <1>1, InvStep, PTL DEF Spec

\* ServesSomewhere for any number of processes and configurations, racing each
\* other's exists(), remove_file() and bind(): cmd_server waits for a signal only
\* with a listener.
THEOREM ServesSomewhereHolds == Spec => []ServesSomewhere
<1>1. Inv => ServesSomewhere
  <2> SUFFICES ASSUME Inv, NEW p \in Proc, pc[p] = "serving"
               PROVE  \E l \in Listener : task[p][l] \in Running
      BY DEF ServesSomewhere
  <2>1. OrderedAt(p)
        BY DEF Inv, Ordered
  <2>2. CASE cfg[p].mode = "UdsOnly"
        BY <2>1, <2>2 DEF OrderedAt, PastLocal, Open, Listener
  <2>3. CASE cfg[p].mode # "UdsOnly"
        BY <2>1, <2>3 DEF OrderedAt, Open, Listener
  <2> QED BY <2>2, <2>3
<1> QED BY <1>1, Invariant, PTL

\* CleanExit for any number of processes, racing each other: a server whose join
\* of the accept loops did not time out leaves no file of its own behind.
THEOREM CleanExitHolds == Spec => []CleanExit
<1>1. Inv => CleanExit
  <2> SUFFICES ASSUME Inv, NEW p \in Proc, code[p] = "Signal", joined[p]
               PROVE  p \notin {sock[n] : n \in SockName} \cup {link.by, disc, pidf}
      BY DEF CleanExit
  <2>1. OwnedAt(p)
        BY DEF Inv, Owned
  <2> QED BY <2>1 DEF OwnedAt
<1> QED BY <1>1, Invariant, PTL

----------------------------------------------------------------------------
(* One process after the other.                                             *)

\* Nothing is left of the other processes but their files.
LEMMA AloneOthers ==
    ASSUME Inv, Alone, NEW p \in Proc, Alive(p) \/ \A r \in Proc : ~Alive(r), NEW q \in Proc \ {p}
    PROVE  /\ ~Alive(q) /\ pc[q] \in {"idle", "exited"} /\ uds[q] = {} /\ ~capLink[q]
           /\ \A l \in Listener : task[q][l] = "none"
<1>1. ~Alive(q) /\ pc[q] \in {"idle", "exited"}
      BY DEF Alone, Alive
<1> QED BY <1>1 DEF Inv, Ordered, OrderedAt

\* A process that is not alive has no names to lose to the one that is.
LEMMA NamesOther ==
    ASSUME Inv, Alone, NEW p \in Proc, Alive(p) \/ \A r \in Proc : ~Alive(r),
           NEW q \in Proc \ {p},
           StepOf(p)
    PROVE  ~Alive(q)' /\ NamesAt(q)'
<1>1. /\ pc[q] \in {"idle", "exited"} /\ uds[q] = {}
      /\ \A l \in Listener : task[q][l] = "none"
      BY AloneOthers
<1>2. /\ pc'[q] = pc[q] /\ cfg'[q] = cfg[q] /\ opening'[q] = opening[q]
      /\ task'[q] = task[q] /\ uds'[q] = uds[q] /\ code'[q] = code[q]
      BY DEF StepOf, RowOf, Own
<1>3. code[q] = "killed" => pc[q] = "exited"
      BY DEF Alone, NamesAt
<1>4. "none" \notin Cleanup
      BY DEF Cleanup
<1> QED BY <1>1, <1>2, <1>3, <1>4 DEF NamesAt, Alive, Opening, Linking, Open, PastLocal

\* A step of the only process keeps it the only one.
LEMMA AloneStepOf ==
    ASSUME Inv, Alone, NEW p \in Proc, Alive(p) \/ \A r \in Proc : ~Alive(r), StepOf(p),
           NamesAt(p)'
    PROVE  Alone'
BY NamesOther DEF Alone

\* Steps after the listeners, and the end.
LEMMA StartedNames ==
    ASSUME TypeInv, NEW p \in Proc, OrderedAt(p), NamesAt(p),
           \/ Signal(p) \/ Join(p) \/ JoinTimeout(p) \/ WriteDiscovery(p) \/ WritePid(p)
           \/ RemoveDiscovery(p) \/ RemovePid(p) \/ LinkRemove(p)
    PROVE  NamesAt(p)'
<1>1. UNCHANGED <<cfg, opening, uds, task, sock>>
      BY DEF Signal, Join, JoinTimeout, WriteDiscovery, WritePid, RemoveDiscovery, RemovePid,
             LinkRemove, files
<1>2. /\ pc[p] # "exited" /\ code'[p] \in {code[p], "Signal"}
      /\ \/ pc'[p] \in Ending
         \/ pc[p] \in {"discovery", "pid"} /\ pc'[p] \in {"pid", "serving"}
         \/ pc[p] = "link remove" /\ pc'[p] = "link create"
      BY DEF Signal, Join, JoinTimeout, WriteDiscovery, WritePid, RemoveDiscovery, RemovePid,
             LinkRemove, Goto, Return, TypeInv, Ending
<1>3. code'[p] # "killed"
      BY <1>2 DEF NamesAt
<1>4. \A l : UdsPath(p, l)' = UdsPath(p, l)
      BY <1>1 DEF UdsPath
<1>5. \A l \in uds'[p] : task'[p][l] \in Running \cup {"bound"} => sock'[UdsPath(p, l)'] = p
      BY <1>1 DEF NamesAt, UdsPath
<1>6. \A l \in Listener : task'[p][l] \in Cleanup =>
        l \in uds'[p] /\ (task'[p][l] = "unlink link" => l = "local")
      BY <1>1 DEF NamesAt
<1>7. CASE pc'[p] \in Ending
      BY <1>3, <1>5, <1>6, <1>7 DEF NamesAt, Ending, Opening, Linking, Open, PastLocal
<1>8. CASE pc[p] \in {"discovery", "pid"} /\ pc'[p] \in {"pid", "serving"}
      BY <1>1, <1>3, <1>5, <1>6, <1>8 DEF NamesAt, Opening, Linking, Open, PastLocal
<1>9. CASE pc[p] = "link remove" /\ pc'[p] = "link create"
      BY <1>1, <1>3, <1>5, <1>6, <1>9 DEF NamesAt, Opening, Linking, Open, PastLocal
<1> QED BY <1>2, <1>7, <1>8, <1>9

\* The end of a process keeps the names the process holds.
LEMMA ExitNames ==
    ASSUME TypeInv, NEW p \in Proc, RuntimeDrop(p) \/ Kill(p) PROVE NamesAt(p)'
<1>1. /\ pc'[p] = "exited" /\ uds'[p] = {}
      /\ \A l \in Listener : task'[p][l] = "none"
      BY ExitFacts DEF RuntimeDrop, Kill
<1> QED BY <1>1 DEF NamesAt, Opening, Linking, Open, PastLocal, Cleanup

\* The start of cmd_server keeps the names the process holds.
LEMMA LaunchNames ==
    ASSUME TypeInv, NEW p \in Proc, OrderedAt(p), NamesAt(p), Launch(p) PROVE NamesAt(p)'
<1>1. /\ pc[p] = "idle" /\ UNCHANGED <<opening, uds, task>>
      /\ code'[p] \in {code[p], "ConfigError"}
      /\ \/ pc'[p] = "prepare" /\ cfg'[p].mode = "UdsOnly"
         \/ pc'[p] \in {"tcp", "dropping"}
      BY DEF Launch, Return, Goto, TypeInv
<1>2. uds[p] = {} /\ opening[p] = "local" /\ \A l \in Listener : task[p][l] = "none"
      BY <1>1 DEF OrderedAt
<1>3. code'[p] # "killed"
      BY <1>1 DEF NamesAt
<1> QED BY <1>1, <1>2, <1>3 DEF NamesAt, Opening, Linking, Open, PastLocal, Cleanup

\* start_newline_tcp_jsonrpc keeps the names the process holds.
LEMMA OpenTcpNames ==
    ASSUME TypeInv, NEW p \in Proc, OrderedAt(p), NamesAt(p), OpenTcp(p) PROVE NamesAt(p)'
<1>1. /\ pc[p] = "tcp" /\ UNCHANGED <<cfg, uds>>
      /\ uds[p] = {} /\ opening[p] = "local" /\ cfg[p].mode # "UdsOnly"
      /\ \A l \in Listener : task[p][l] = "none"
      BY OpenTcpDoes DEF OrderedAt
<1>2. code'[p] # "killed" /\ cfg[p].mode \in {"TcpOnly", "UdsOnly", "Both"}
      BY <1>1, OpenTcpDoes, ConfigAssumption DEF NamesAt, TypeInv
<1>3. \A l \in Listener : task'[p][l] \in {"none", "listening"}
      BY <1>1, OpenTcpDoes DEF Listener
<1>4. Cleanup \cap {"none", "listening"} = {}
      BY DEF Cleanup
<1>5. \/ pc'[p] = "dropping"
      \/ pc'[p] = "prepare" /\ opening'[p] = "local" /\ cfg[p].mode = "Both"
      \/ pc'[p] = "discovery" /\ cfg[p].mode = "TcpOnly"
      BY <1>1, <1>2, OpenTcpDoes DEF AfterRpc
<1> QED BY <1>1, <1>2, <1>3, <1>4, <1>5 DEF NamesAt, Opening, Linking, Open, PastLocal

\* The exists() of prepare_local_bind keeps the names the process holds.
LEMMA PrepareNames ==
    ASSUME TypeInv, NEW p \in Proc, OrderedAt(p), NamesAt(p),
           PrepareLocalBind(p) PROVE NamesAt(p)'
<1>1. /\ pc[p] = "prepare" /\ UNCHANGED <<cfg, opening, uds, task, code, sock>>
      /\ pc'[p] = IF sock[UdsPath(p, opening[p])] = NoProc THEN "bind" ELSE "unlink old"
      BY DEF PrepareLocalBind, Goto, TypeInv, files
<1> QED BY <1>1 DEF NamesAt, Opening, Linking, Open, PastLocal, UdsPath

\* The remove_file() of prepare_local_bind keeps the names the process holds.
LEMMA UnlinkOldNames ==
    ASSUME TypeInv, NEW p \in Proc, OrderedAt(p), NamesAt(p), UnlinkOld(p) PROVE NamesAt(p)'
<1>1. /\ pc[p] = "unlink old" /\ pc'[p] = "bind"
      /\ UNCHANGED <<cfg, opening, uds, task, code>>
      /\ sock' = [sock EXCEPT ![UdsPath(p, opening[p])] = NoProc]
      BY DEF UnlinkOld, NamesAt, Goto, TypeInv
<1>2. opening[p] \in {"local", "tarpc"} /\ opening[p] \notin uds[p]
      BY <1>1 DEF NamesAt, Opening, TypeInv
<1>3. \A l \in {"local", "tarpc"} : UdsPath(p, l) \in SockName
      BY ConfigType DEF UdsPath, SockName, TypeInv
<1>4. \A l \in uds'[p] : task'[p][l] \in Running \cup {"bound"} => sock'[UdsPath(p, l)'] = p
  <2> SUFFICES ASSUME NEW l \in uds[p], task[p][l] \in Running \cup {"bound"}
               PROVE  sock'[UdsPath(p, l)] = p
      BY <1>1 DEF UdsPath
  <2>1. l \in {"local", "tarpc"} /\ l # opening[p] /\ sock[UdsPath(p, l)] = p
        BY <1>2 DEF NamesAt, TypeInv
  <2>2. UdsPath(p, l) # UdsPath(p, opening[p])
        BY <2>1 DEF UdsPath
  <2> QED BY <1>1, <1>3, <2>1, <2>2 DEF TypeInv
<1>5. sock'[UdsPath(p, opening[p])'] = NoProc
      BY <1>1, <1>2, <1>3 DEF UdsPath, TypeInv
<1> QED BY <1>1, <1>4, <1>5 DEF NamesAt, Opening, Linking, Open, PastLocal

\* bind_local keeps the names the process holds.
LEMMA BindNames ==
    ASSUME TypeInv, NEW p \in Proc, OrderedAt(p), NamesAt(p), BindLocal(p) PROVE NamesAt(p)'
<1>1. /\ pc[p] = "bind" /\ sock[UdsPath(p, opening[p])] = NoProc
      /\ opening[p] \in {"local", "tarpc"}
      BY BindLocalDoes DEF NamesAt, TypeInv
<1>2. /\ sock' = [sock EXCEPT ![UdsPath(p, opening[p])] = p]
      /\ uds'[p] = uds[p] \cup {opening[p]} /\ UNCHANGED <<opening, code, cfg>>
      /\ task'[p]["rpc"] = task[p]["rpc"]
      /\ \/ /\ opening[p] = "tarpc" /\ pc'[p] = "discovery"
            /\ task'[p]["tarpc"] = "listening" /\ task'[p]["local"] = task[p]["local"]
         \/ /\ opening[p] = "local" /\ pc'[p] = "link check"
            /\ task'[p]["local"] = "bound" /\ task'[p]["tarpc"] = task[p]["tarpc"]
      BY <1>1, BindLocalDoes
<1>3. \A l \in {"local", "tarpc"} : UdsPath(p, l) \in SockName
      BY ConfigType DEF UdsPath, SockName, TypeInv
<1>4. \A l \in uds'[p] : sock'[UdsPath(p, l)'] = p
  <2>1. sock'[UdsPath(p, opening[p])] = p
        BY <1>1, <1>2, <1>3 DEF TypeInv
  <2>2. CASE opening[p] = "local"
        BY <1>1, <1>2, <2>1, <2>2 DEF NamesAt, Opening, UdsPath
  <2>3. CASE opening[p] = "tarpc"
    <3>1. uds[p] = {"local"} /\ task[p]["local"] \in Running
          BY <1>1, <2>3 DEF NamesAt, Opening, PastLocal
    <3>2. sock[UdsPath(p, "local")] = p
          BY <3>1 DEF NamesAt
    <3>3. sock'[UdsPath(p, "local")] = p
          BY <1>2, <1>3, <2>3, <3>2 DEF UdsPath, TypeInv
    <3> QED BY <1>2, <2>1, <2>3, <3>1, <3>3 DEF UdsPath
  <2> QED BY <1>1, <2>2, <2>3
<1>5. \A l \in Listener : task'[p][l] \notin Cleanup
  <2>1. \A l \in Listener : task[p][l] \notin Cleanup
        BY <1>1 DEF OrderedAt, Ending
  <2>2. "listening" \notin Cleanup /\ "bound" \notin Cleanup
        BY DEF Cleanup
  <2> QED BY <1>2, <2>1, <2>2 DEF Listener
<1>6. "listening" \in Running
      BY DEF Running
<1> QED BY <1>1, <1>2, <1>4, <1>5, <1>6 DEF NamesAt, Opening, Linking, Open, PastLocal

\* The exists() of install_capability_symlink keeps the names the process
\* holds.
LEMMA LinkCheckNames ==
    ASSUME TypeInv, NEW p \in Proc, OrderedAt(p), NamesAt(p), LinkCheck(p) \/ LinkCreate(p)
    PROVE  NamesAt(p)'
<1>1. /\ pc[p] \in Linking /\ UNCHANGED <<cfg, uds, code, sock>>
      /\ \/ Spawned(p, FALSE) \/ Spawned(p, link = NoLink)
         \/ UNCHANGED <<opening, task>> /\ pc'[p] \in {"link remove", "link create"}
      BY LinkCheckDoes, LinkCreateDoes DEF Linking, files
<1>2. /\ uds[p] = {"local"} /\ task[p]["local"] = "bound" /\ cfg[p].mode # "TcpOnly"
      /\ sock[UdsPath(p, "local")] = p /\ code[p] # "killed"
      /\ \A l \in Listener : task[p][l] \notin Cleanup
      BY <1>1 DEF NamesAt, OrderedAt, Linking, Ending
<1>3. sock'[UdsPath(p, "local")'] = p
      BY <1>1, <1>2 DEF UdsPath
<1>4. CASE UNCHANGED <<opening, task>> /\ pc'[p] \in {"link remove", "link create"}
      BY <1>1, <1>2, <1>3, <1>4 DEF NamesAt, Opening, Linking, Open, PastLocal
<1>5. ASSUME NEW some, Spawned(p, some) PROVE NamesAt(p)'
  <2>1. "listening" \in Running /\ "listening" \notin Cleanup
        BY DEF Running, Cleanup
  <2>2. \A l \in Listener : task'[p][l] \notin Cleanup
        BY <1>2, <1>5, <2>1 DEF Spawned, Listener
  <2> QED BY <1>1, <1>2, <1>3, <1>5, <2>1, <2>2 DEF Spawned, AfterRpc, NamesAt, Opening,
                                                    Linking, Open, PastLocal
<1> QED BY <1>1, <1>4, <1>5

\* start_tarpc_tcp_server keeps the names the process holds.
LEMMA TarpcTcpNames ==
    ASSUME TypeInv, NEW p \in Proc, OrderedAt(p), NamesAt(p), TarpcTcp(p) PROVE NamesAt(p)'
<1>1. /\ pc[p] = "tarpc tcp" /\ UNCHANGED <<cfg, uds, sock>> /\ code'[p] # "killed"
      /\ cfg[p].tarpc = "tcp" /\ "tarpc" \notin uds[p] /\ task'[p]["local"] = task[p]["local"]
      /\ \/ pc'[p] = "discovery" /\ task'[p]["rpc"] = task[p]["rpc"]
                 /\ task'[p]["tarpc"] \in {task[p]["tarpc"], "listening"}
         \/ /\ pc'[p] = "dropping" /\ task'[p]["tarpc"] = task[p]["tarpc"]
            /\ task'[p]["rpc"] = IF task[p]["rpc"] = "none" THEN "none" ELSE "dropped"
      BY TarpcTcpDoes DEF NamesAt, files
<1>2. \A l \in Listener : task[p][l] \notin Cleanup
      BY <1>1 DEF OrderedAt, Ending
<1>3. Cleanup \cap {"none", "dropped", "listening"} = {}
      BY DEF Cleanup
<1>4. \A l \in Listener : task'[p][l] \notin Cleanup
      BY <1>1, <1>2, <1>3 DEF Listener
<1>5. \A l \in uds'[p] : task'[p][l] \in Running \cup {"bound"} => sock'[UdsPath(p, l)'] = p
  <2>1. uds[p] \subseteq {"local"}
        BY <1>1 DEF TypeInv
  <2> QED BY <1>1, <2>1 DEF NamesAt, UdsPath
<1>6. cfg[p].mode # "TcpOnly" => "local" \in uds[p] /\ task[p]["local"] \in Running
      BY <1>1 DEF NamesAt, Open, PastLocal
<1>7. CASE pc'[p] = "discovery"
      BY <1>1, <1>4, <1>5, <1>6, <1>7 DEF NamesAt, Opening, Linking, Open, PastLocal
<1>8. CASE pc'[p] = "dropping"
      BY <1>1, <1>4, <1>5, <1>8 DEF NamesAt, Opening, Linking, Open, PastLocal
<1> QED BY <1>1, <1>7, <1>8

\* A step of an accept loop keeps the names the process holds.
LEMMA LoopNames ==
    ASSUME TypeInv, NEW p \in Proc, NEW l \in Listener, OrderedAt(p), NamesAt(p),
           Accept(p, l) \/ LoopStep(p, l) \/ PeerAnswers(p, l) \/ BreakLoop(p, l)
    PROVE  NamesAt(p)' /\ Alive(p)
<1>1. /\ UNCHANGED <<pc, cfg, opening, uds, capLink, joined, code>>
      /\ \A k \in Listener \ {l} : task'[p][k] = task[p][k]
      BY LoopRow DEF main
<1>2. /\ Running \cap {"none", "unlink link", "done", "unlink socket", "bound"} = {}
      /\ Cleanup = {"unlink link", "unlink socket"}
      BY DEF Running, Bounded, OnPeer, Cleanup
<1>3. task[p][l] # "none"
      BY <1>2, LoopDoes
<1>4. Alive(p)
      BY <1>3 DEF OrderedAt, Alive
<1>5. uds[p] \subseteq {"local", "tarpc"} /\ {"local", "tarpc"} \subseteq Listener
      BY DEF TypeInv, Listener
<1>6. CASE task[p][l] \in Running /\ task'[p][l] \in Running /\ UNCHANGED files
  <2>1. /\ \A k \in Listener : task'[p][k] \in Running <=> task[p][k] \in Running
        /\ \A k \in Listener : task'[p][k] \notin Running => task'[p][k] = task[p][k]
        BY <1>1, <1>6
  <2>2. sock' = sock
        BY <1>6 DEF files
  <2>3. \A k \in uds'[p] : task'[p][k] \in Running \cup {"bound"} => sock'[UdsPath(p, k)'] = p
        BY <1>1, <1>2, <1>5, <1>6, <2>1, <2>2 DEF NamesAt, UdsPath
  <2>4. \A k \in Listener : task'[p][k] \in Cleanup =>
          k \in uds'[p] /\ (task'[p][k] = "unlink link" => k = "local")
        BY <1>1, <1>2, <2>1 DEF NamesAt
  <2>5. /\ cfg[p].mode # "TcpOnly" /\ PastLocal(p) =>
               "local" \in uds[p] /\ task'[p]["local"] \in Running
        /\ cfg[p].mode # "TcpOnly" /\ cfg[p].tarpc = "unix"
              /\ pc[p] \in {"discovery", "pid", "serving"} =>
               "tarpc" \in uds[p] /\ task'[p]["tarpc"] \in Running
        BY <1>5, <2>1 DEF NamesAt
  <2>6. /\ pc[p] = "unlink old" => sock'[UdsPath(p, opening[p])'] # NoProc
        /\ pc[p] = "bind" => sock'[UdsPath(p, opening[p])'] = NoProc
        BY <1>1, <2>2 DEF NamesAt, UdsPath
  <2> QED BY <1>1, <1>4, <2>3, <2>4, <2>5, <2>6 DEF NamesAt, PastLocal
<1>7. CASE /\ pc[p] \in Ending /\ task'[p][l] \notin Running \cup {"bound"}
           /\ task'[p][l] \in Cleanup => l \in uds[p] /\ (task'[p][l] = "unlink link" => l = "local")
           /\ (sock' = sock \/ sock' = [sock EXCEPT ![UdsPath(p, l)] = NoProc])
  <2>1. \A k \in uds'[p] : task'[p][k] \in Running \cup {"bound"} => sock'[UdsPath(p, k)'] = p
    <3> SUFFICES ASSUME NEW k \in uds[p], task'[p][k] \in Running \cup {"bound"}
                 PROVE  sock'[UdsPath(p, k)] = p
        BY <1>1 DEF UdsPath
    <3>1. k # l /\ sock[UdsPath(p, k)] = p
          BY <1>1, <1>5, <1>7 DEF NamesAt
    <3>2. UdsPath(p, k) # UdsPath(p, l)
          BY <3>1 DEF UdsPath
    <3>3. UdsPath(p, k) \in SockName
          BY <1>5, ConfigType DEF UdsPath, SockName, TypeInv
    <3> QED BY <1>7, <3>1, <3>2, <3>3 DEF TypeInv
  <2>2. \A k \in Listener : task'[p][k] \in Cleanup =>
          k \in uds'[p] /\ (task'[p][k] = "unlink link" => k = "local")
        BY <1>1, <1>7 DEF NamesAt
  <2>3. /\ pc'[p] \notin Opening \cup Linking \cup Open
        /\ pc'[p] \notin {"unlink old", "bind", "tarpc tcp", "discovery", "pid", "serving"}
        BY <1>1, <1>7 DEF Ending, Opening, Linking, Open
  <2>4. code'[p] # "killed"
        BY <1>1, <1>7 DEF NamesAt, Ending
  <2> QED BY <1>4, <2>1, <2>2, <2>3, <2>4 DEF NamesAt, PastLocal
<1>8. task[p][l] \in Cleanup \/ ShutdownSeen(p) => pc[p] \in Ending
      BY DEF OrderedAt, ShutdownSeen, Ending
<1>9. task[p][l] \in Cleanup => l \in uds[p]
      BY DEF NamesAt
<1>10. CASE task[p][l] = "listening" /\ ShutdownSeen(p) /\ UNCHANGED files
            /\ task'[p][l] = IF l \in uds[p] THEN "unlink socket" ELSE "done"
       BY <1>2, <1>7, <1>8, <1>10 DEF files
<1>11. CASE /\ task[p][l] \in Cleanup /\ task'[p][l] \in {"unlink link", "done"}
            /\ task'[p][l] = "unlink link" => l = "local"
            /\ (sock' = sock \/ sock' = [sock EXCEPT ![UdsPath(p, l)] = NoProc])
       BY <1>2, <1>7, <1>8, <1>9, <1>11
<1> QED BY <1>2, <1>6, <1>10, <1>11, LoopDoes

\* At the start no process is alive.
LEMMA AloneInit == Init => Alone
BY DEF Init, Alone, NamesAt, Alive, Opening, Linking, Open, PastLocal, Cleanup

\* Every step of a process belongs to one that is alive, or launches the first.
LEMMA ActsAlive ==
    ASSUME NEW p \in Proc, Starting(p) \/ Signal(p) \/ Stopping(p) \/ Kill(p)
    PROVE  Alive(p)
BY DEF Starting, Stopping, Signal, Kill, Alive, OpenTcp, PrepareLocalBind, UnlinkOld, BindLocal,
       LinkCheck, LinkRemove, LinkCreate, TarpcTcp, WriteDiscovery, WritePid, Join, JoinTimeout,
       RemoveDiscovery, RemovePid, RuntimeDrop

\* A step of cmd_server keeps the names of the only process that is alive.
LEMMA NamesProcess ==
    ASSUME Inv, Alone, NEW p \in Proc,
           Launch(p) \/ Starting(p) \/ Signal(p) \/ Stopping(p) \/ Kill(p)
    PROVE  NamesAt(p)'
<1>1. TypeInv /\ OrderedAt(p) /\ NamesAt(p)
      BY DEF Inv, Ordered, Alone
<1>2. CASE Launch(p) \/ Signal(p) \/ Kill(p)
      BY <1>1, <1>2, LaunchNames, StartedNames, ExitNames
<1>3. CASE Starting(p)
      BY <1>1, <1>3, OpenTcpNames, PrepareNames, UnlinkOldNames, BindNames, LinkCheckNames,
         TarpcTcpNames, StartedNames DEF Starting
<1>4. CASE Stopping(p)
      BY <1>1, <1>4, StartedNames, ExitNames DEF Stopping
<1> QED BY <1>2, <1>3, <1>4

\* Stuttering keeps Alone.
LEMMA AloneStutter == Alone /\ UNCHANGED vars => Alone'
<1> SUFFICES ASSUME Alone, UNCHANGED vars PROVE Alone'
    OBVIOUS
<1>1. /\ pc' = pc /\ cfg' = cfg /\ opening' = opening /\ task' = task /\ uds' = uds
      /\ code' = code /\ sock' = sock
      BY DEF vars, main, files
<1>2. ASSUME NEW p \in Proc PROVE NamesAt(p)'
  <2>1. NamesAt(p)
        BY DEF Alone
  <2> QED BY <1>1, <2>1 DEF NamesAt, UdsPath, PastLocal
<1> QED BY <1>1, <1>2 DEF Alone, Alive

\* No step starts a process beside another one, or takes a name from the one
\* that is alive.
LEMMA AloneStep == ASSUME ~SideBySide, Inv, Alone, [Next]_vars PROVE Alone'
<1>1. ASSUME NEW p \in Proc, Launch(p) PROVE Alone'
  <2>1. \A r \in Proc : ~Alive(r)
        BY <1>1 DEF Launch
  <2> QED BY <1>1, <2>1, InvProcess, NamesProcess, AloneStepOf
<1>2. ASSUME NEW p \in Proc, Starting(p) \/ Signal(p) \/ Stopping(p) \/ Kill(p) PROVE Alone'
      BY <1>2, ActsAlive, InvProcess, NamesProcess, AloneStepOf
<1>3. ASSUME NEW p \in Proc, NEW l \in Listener,
             Accept(p, l) \/ LoopStep(p, l) \/ PeerAnswers(p, l) \/ BreakLoop(p, l)
      PROVE  Alone'
  <2>1. TypeInv /\ OrderedAt(p) /\ NamesAt(p)
        BY DEF Inv, Ordered, Alone
  <2> QED BY <1>3, <2>1, LoopRow, LoopNames, AloneStepOf
<1> QED BY <1>1, <1>2, <1>3, AloneStutter DEF Next

\* When a process starts only after the one before it has ended, the names are
\* the living process's own, whatever killed or failed servers left on disk.
THEOREM AloneInvariant == ASSUME ~SideBySide PROVE Spec => [](Inv /\ Alone)
<1>1. Init => Alone
      BY AloneInit
<1>2. Inv /\ Alone /\ [Next]_vars => Alone'
      BY AloneStep
<1> QED BY <1>1, <1>2, Invariant, PTL DEF Spec

\* ServingReachable for any number of successive servers and kills: prepare_local_bind
\* and bind_local always regain the names, and nobody takes them away.
THEOREM ServingReachableHolds == ASSUME ~SideBySide PROVE Spec => []ServingReachable
<1>1. Inv /\ Alone => ServingReachable
  <2> SUFFICES ASSUME Inv, Alone, NEW p \in Proc, pc[p] = "serving", cfg[p].mode # "TcpOnly"
               PROVE  /\ sock[UdsPath(p, "local")] = p /\ task[p]["local"] \in Running
                      /\ cfg[p].tarpc = "unix" =>
                            sock[UdsPath(p, "tarpc")] = p /\ task[p]["tarpc"] \in Running
      BY DEF ServingReachable
  <2>1. NamesAt(p)
        BY DEF Alone
  <2>2. "local" \in uds[p] /\ task[p]["local"] \in Running
        BY <2>1 DEF NamesAt, PastLocal, Open
  <2>3. cfg[p].tarpc = "unix" => "tarpc" \in uds[p] /\ task[p]["tarpc"] \in Running
        BY <2>1 DEF NamesAt
  <2> QED BY <2>1, <2>2, <2>3 DEF NamesAt
<1> QED BY <1>1, AloneInvariant, PTL

----------------------------------------------------------------------------
(* The capability link, one process after the other and none killed.        *)

\* A link that exists names a family.
LEMMA LinkType ==
    ASSUME TypeInv, link # NoLink
    PROVE  link.to \in Family /\ <<link.to, "local">> \in SockName
BY DEF TypeInv, SockName

\* The link goes on leading somewhere when p removes no socket.
LEMMA LeadsKept ==
    ASSUME TypeInv, NEW p \in Proc, StepOf(p), LinkLeads, link' = link,
           \A n \in SockName : sock[n] # NoProc => sock'[n] # NoProc,
           task[p]["local"] = "unlink link" => task'[p]["local"] = "unlink link",
           pc[p] = "bind" /\ opening[p] = "local" =>
               pc'[p] = "bind" /\ opening'[p] = "local" /\ cfg'[p] = cfg[p]
    PROVE  LinkLeads'
<1> SUFFICES ASSUME link # NoLink PROVE LinkLeads'
    BY DEF LinkLeads, NoLink
<1>1. \A q \in Proc \ {p} : /\ pc'[q] = pc[q] /\ cfg'[q] = cfg[q]
                            /\ opening'[q] = opening[q] /\ task'[q] = task[q]
      BY DEF StepOf, RowOf, Own
<1>2. LinkExists => LinkExists'
      BY LinkType DEF LinkExists, NoLink
<1>3. ASSUME NEW q \in Proc,
             task[q]["local"] = "unlink link" PROVE task'[q]["local"] = "unlink link"
      BY <1>1, <1>3
<1>4. ASSUME NEW q \in Proc, pc[q] = "bind", opening[q] = "local", cfg[q].family = link.to
      PROVE  pc'[q] = "bind" /\ opening'[q] = "local" /\ cfg'[q].family = link'.to
      BY <1>1, <1>4
<1>5. \E c \in Config : c.eco /\ c.family = link'.to
      BY DEF LinkLeads
<1>6. CASE LinkExists
      BY <1>2, <1>5, <1>6 DEF LinkLeads
<1>7. CASE \E q \in Proc : task[q]["local"] = "unlink link"
      BY <1>3, <1>5, <1>7 DEF LinkLeads
<1>8. CASE \E q \in Proc : pc[q] = "bind" /\ opening[q] = "local" /\ cfg[q].family = link.to
      BY <1>4, <1>5, <1>8 DEF LinkLeads
<1> QED BY <1>6, <1>7, <1>8 DEF LinkLeads

\* A step that leaves the link and p's claim to it alone.
LEMMA LinkedKept ==
    ASSUME NEW p \in Proc, LinkedAt(p), link' = link, cfg'[p] = cfg[p],
           capLink'[p] <=> capLink[p],
           pc'[p] \notin {"link remove", "link create"},
           "local" \in uds'[p] /\ task'[p]["local"] # "bound" =>
               "local" \in uds[p] /\ task[p]["local"] # "bound",
           task[p]["local"] = "done" => task'[p]["local"] = "done"
    PROVE  LinkedAt(p)'
BY DEF LinkedAt, NoLink

\* A step of the only living process says nothing new of the others' links.
LEMMA LinkedOther ==
    ASSUME Inv, Alone, NEW p \in Proc, Alive(p) \/ \A r \in Proc : ~Alive(r),
           NEW q \in Proc \ {p},
           StepOf(p)
    PROVE  LinkedAt(q)'
<1>1. pc[q] \in {"idle", "exited"} /\ uds[q] = {} /\ ~capLink[q]
      BY AloneOthers
<1>2. pc'[q] = pc[q] /\ uds'[q] = uds[q] /\ capLink'[q] = capLink[q]
      BY DEF StepOf, RowOf, Own
<1> QED BY <1>1, <1>2 DEF LinkedAt

\* The steps of cmd_server that touch neither the link nor a socket.
LEMMA QuietLinked ==
    ASSUME TypeInv, NEW p \in Proc, OrderedAt(p), LinkLeads, LinkedAt(p), StepOf(p),
           \/ OpenTcp(p) \/ PrepareLocalBind(p) \/ TarpcTcp(p) \/ WriteDiscovery(p) \/ WritePid(p)
           \/ Signal(p) \/ Join(p) \/ JoinTimeout(p) \/ RemoveDiscovery(p) \/ RemovePid(p)
    PROVE  LinkLeads' /\ LinkedAt(p)'
<1>1. /\ pc[p] # "bind" /\ pc'[p] \notin {"link remove", "link create"}
      /\ UNCHANGED <<cfg, uds, capLink, sock, link>>
      /\ task'[p]["local"] = task[p]["local"]
  <2>1. CASE OpenTcp(p) \/ TarpcTcp(p)
        BY <2>1, OpenTcpDoes, TarpcTcpDoes DEF AfterRpc, files
  <2>2. CASE PrepareLocalBind(p) \/ WriteDiscovery(p) \/ WritePid(p) \/ Signal(p) \/ Join(p)
        BY <2>2 DEF PrepareLocalBind, WriteDiscovery, WritePid, Signal, Join, Goto, TypeInv, files
  <2>3. CASE JoinTimeout(p) \/ RemoveDiscovery(p) \/ RemovePid(p)
        BY <2>3 DEF JoinTimeout, RemoveDiscovery, RemovePid, Return, Goto, TypeInv, files
  <2> QED BY <2>1, <2>2, <2>3
<1>2. LinkLeads'
      BY <1>1, LeadsKept
<1>3. LinkedAt(p)'
      BY <1>1, LinkedKept
<1> QED BY <1>2, <1>3

\* A start or an end of a process keeps the capability link leading to a live
\* socket.
LEMMA EndsLinked ==
    ASSUME TypeInv, NEW p \in Proc, OrderedAt(p), LinkLeads, LinkedAt(p), StepOf(p),
           Launch(p) \/ RuntimeDrop(p)
    PROVE  LinkLeads' /\ LinkedAt(p)'
<1>1. CASE Launch(p)
  <2>1. /\ pc[p] = "idle" /\ pc'[p] \notin {"link remove", "link create"}
        /\ UNCHANGED <<uds, capLink, task, sock, link>>
        BY <1>1 DEF Launch, Return, Goto, TypeInv, files
  <2>2. uds[p] = {} /\ ~capLink[p]
        BY <2>1 DEF OrderedAt
  <2>3. LinkLeads'
        BY <2>1, LeadsKept
  <2>4. LinkedAt(p)'
        BY <2>1, <2>2 DEF LinkedAt
  <2> QED BY <2>3, <2>4
<1>2. CASE RuntimeDrop(p)
  <2>1. /\ pc[p] = "dropping" /\ pc'[p] = "exited" /\ uds'[p] = {} /\ ~capLink'[p]
        /\ UNCHANGED <<sock, link>>
        BY <1>2, ExitFacts DEF RuntimeDrop, files
  <2>2. task[p]["local"] # "unlink link"
        BY <1>2 DEF RuntimeDrop, Cleanup, Listener
  <2>3. LinkLeads'
        BY <2>1, <2>2, LeadsKept
  <2>4. LinkedAt(p)'
        BY <2>1 DEF LinkedAt
  <2> QED BY <2>3, <2>4
<1> QED BY <1>1, <1>2

\* The old socket goes while the link may lead to it: bind will put it back.
LEMMA UnlinkOldLinked ==
    ASSUME TypeInv, NEW p \in Proc, OrderedAt(p), NamesAt(p), LinkLeads, LinkedAt(p),
           StepOf(p), UnlinkOld(p)
    PROVE  LinkLeads' /\ LinkedAt(p)'
<1>1. /\ pc[p] = "unlink old" /\ pc'[p] = "bind"
      /\ UNCHANGED <<cfg, opening, uds, task, capLink, link>>
      /\ sock' = [sock EXCEPT ![UdsPath(p, opening[p])] = NoProc]
      BY DEF UnlinkOld, NamesAt, Goto, TypeInv
<1>2. LinkedAt(p)'
      BY <1>1, LinkedKept
<1>3. LinkLeads'
  <2> SUFFICES ASSUME link # NoLink PROVE LinkLeads'
      BY <1>1 DEF LinkLeads, NoLink
  <2>1. \E c \in Config : c.eco /\ c.family = link'.to
        BY <1>1 DEF LinkLeads
  <2>2. CASE <<link.to, "local">> = UdsPath(p, opening[p])
    <3>1. opening'[p] = "local" /\ cfg'[p].family = link'.to
          BY <1>1, <2>2 DEF UdsPath
    <3> QED BY <1>1, <2>1, <3>1 DEF LinkLeads
  <2>3. CASE <<link.to, "local">> # UdsPath(p, opening[p])
    <3>1. LinkExists => LinkExists'
          BY <1>1, <2>3, LinkType DEF LinkExists, NoLink, TypeInv
    <3>2. \A q \in Proc : pc[q] = "bind" => q # p
          BY <1>1
    <3>3. \A q \in Proc \ {p} : pc'[q] = pc[q]
          BY DEF StepOf, RowOf, Own
    <3>4. CASE LinkExists
          BY <2>1, <3>1, <3>4 DEF LinkLeads
    <3>5. CASE \E q \in Proc : task[q]["local"] = "unlink link"
          BY <1>1, <2>1, <3>5 DEF LinkLeads
    <3>6. CASE \E q \in Proc : pc[q] = "bind" /\ opening[q] = "local" /\ cfg[q].family = link.to
          BY <1>1, <2>1, <3>2, <3>3, <3>6 DEF LinkLeads
    <3> QED BY <3>4, <3>5, <3>6 DEF LinkLeads
  <2> QED BY <2>2, <2>3
<1> QED BY <1>2, <1>3

\* bind_local keeps the capability link leading to a live socket.
LEMMA BindLinked ==
    ASSUME TypeInv, NEW p \in Proc, OrderedAt(p), NamesAt(p), LinkLeads, LinkedAt(p),
           StepOf(p), BindLocal(p)
    PROVE  LinkLeads' /\ LinkedAt(p)'
<1>1. /\ pc[p] = "bind" /\ opening[p] \in {"local", "tarpc"} /\ UNCHANGED <<cfg, capLink, link>>
      /\ sock' = [sock EXCEPT ![UdsPath(p, opening[p])] = p]
      /\ uds'[p] = uds[p] \cup {opening[p]}
      /\ pc'[p] \in {"discovery", "link check"}
      /\ \/ opening[p] = "tarpc" /\ task'[p]["local"] = task[p]["local"]
         \/ opening[p] = "local" /\ task'[p]["local"] = "bound"
      BY BindLocalDoes DEF NamesAt, TypeInv
<1>2. \A l \in Listener : task[p][l] \notin {"done", "unlink link"}
      BY <1>1 DEF OrderedAt, Ending, Cleanup
<1>3. LinkedAt(p)'
      BY <1>1, <1>2, LinkedKept DEF Listener
<1>4. \A n \in SockName : sock[n] # NoProc => sock'[n] # NoProc
      BY <1>1, ConfigType DEF TypeInv
<1>5. LinkLeads'
  <2> SUFFICES ASSUME link # NoLink PROVE LinkLeads'
      BY <1>1 DEF LinkLeads, NoLink
  <2>1. CASE opening[p] = "local" /\ cfg[p].family = link.to
    <3>1. sock'[<<link'.to, "local">>] = p
          BY <1>1, <2>1, LinkType DEF UdsPath, TypeInv
    <3>2. LinkExists'
          BY <1>1, <3>1, ConfigType DEF LinkExists, NoLink
    <3> QED BY <1>1, <3>2 DEF LinkLeads
  <2>2. CASE ~(opening[p] = "local" /\ cfg[p].family = link.to)
    <3>1. \A q \in Proc \ {p} : /\ pc'[q] = pc[q] /\ cfg'[q] = cfg[q]
                                /\ opening'[q] = opening[q] /\ task'[q] = task[q]
          BY DEF StepOf, RowOf, Own
    <3>2. LinkExists => LinkExists'
          BY <1>1, <1>4, LinkType DEF LinkExists, NoLink
    <3>3. \E c \in Config : c.eco /\ c.family = link'.to
          BY <1>1 DEF LinkLeads
    <3>4. CASE LinkExists
          BY <3>2, <3>3, <3>4 DEF LinkLeads
    <3>5. CASE \E q \in Proc : task[q]["local"] = "unlink link"
          BY <1>2, <3>1, <3>3, <3>5 DEF LinkLeads, Listener
    <3>6. CASE \E q \in Proc : pc[q] = "bind" /\ opening[q] = "local" /\ cfg[q].family = link.to
          BY <1>1, <2>2, <3>1, <3>3, <3>6 DEF LinkLeads
    <3> QED BY <3>4, <3>5, <3>6 DEF LinkLeads
  <2> QED BY <2>1, <2>2
<1> QED BY <1>3, <1>5

\* exists() sees every link there is, so what it does not see can be created.
LEMMA LinkCheckLinked ==
    ASSUME Inv, Alone, NEW p \in Proc, LinkLeads, LinkedAt(p), StepOf(p), LinkCheck(p)
    PROVE  LinkLeads' /\ LinkedAt(p)'
<1>1. /\ pc[p] = "link check" /\ UNCHANGED <<cfg, uds, sock, link>>
      BY LinkCheckDoes DEF Inv, files
<1>2. TypeInv /\ OrderedAt(p) /\ NamesAt(p) /\ Alive(p)
      BY <1>1 DEF Inv, Ordered, Alone, Alive
<1>3. task[p]["local"] = "bound" /\ ~capLink[p]
      BY <1>1, <1>2 DEF OrderedAt, Linking
<1>4. LinkLeads'
      BY <1>1, <1>2, <1>3, LeadsKept
<1>5. ~LinkExists => link = NoLink
  <2>1. \A q \in Proc \ {p} : pc[q] # "bind" /\ task[q]["local"] # "unlink link"
        BY <1>2, AloneOthers DEF Listener
  <2> QED BY <1>1, <1>3, <2>1 DEF LinkLeads
<1>6. LinkedAt(p)'
  <2>1. CASE ~cfg[p].eco /\ Spawned(p, FALSE)
        BY <1>1, <2>1 DEF Spawned, AfterRpc, LinkedAt
  <2>2. CASE cfg[p].eco /\ UNCHANGED <<task, capLink>> /\ LinkExists /\ pc'[p] = "link remove"
        BY <1>1, <1>3, <2>2 DEF LinkedAt
  <2>3. CASE cfg[p].eco /\ UNCHANGED <<task, capLink>> /\ ~LinkExists /\ pc'[p] = "link create"
        BY <1>1, <1>3, <1>5, <2>3 DEF LinkedAt, NoLink
  <2> QED BY <1>2, <2>1, <2>2, <2>3, LinkCheckDoes
<1> QED BY <1>4, <1>6

\* create_local_symlink keeps the capability link leading to a live socket.
LEMMA LinkCreateLinked ==
    ASSUME TypeInv, NEW p \in Proc, OrderedAt(p), NamesAt(p), LinkLeads, LinkedAt(p), StepOf(p),
           LinkRemove(p) \/ LinkCreate(p)
    PROVE  LinkLeads' /\ LinkedAt(p)'
<1>1. CASE LinkRemove(p)
  <2>1. pc[p] = "link remove" /\ link' = NoLink /\ UNCHANGED <<cfg, uds, task, capLink>>
        BY <1>1 DEF LinkRemove
  <2>2. task[p]["local"] = "bound" /\ ~capLink[p] /\ cfg[p].eco
        BY <2>1 DEF OrderedAt, Linking, LinkedAt
  <2> QED BY <2>1, <2>2 DEF LinkLeads, LinkedAt, NoLink
<1>2. CASE LinkCreate(p)
  <2>1. /\ pc[p] = "link create" /\ link = NoLink /\ cfg[p].eco
        /\ link' = [to |-> cfg[p].family, by |-> p] /\ UNCHANGED <<cfg, uds, sock>>
        /\ Spawned(p, link = NoLink)
        BY <1>2, LinkCreateDoes DEF LinkedAt
  <2>2. sock[UdsPath(p, "local")] = p
        BY <2>1 DEF OrderedAt, NamesAt, Linking
  <2>3. sock'[<<link'.to, "local">>] # NoProc /\ link' # NoLink
        BY <2>1, <2>2, ConfigType DEF UdsPath, NoLink
  <2>4. LinkExists'
        BY <2>3 DEF LinkExists, NoLink
  <2>5. \E c \in Config : c.eco /\ c.family = link'.to
        BY <2>1 DEF TypeInv
  <2>6. LinkLeads'
        BY <2>4, <2>5 DEF LinkLeads
  <2>7. LinkedAt(p)'
        BY <2>1 DEF Spawned, AfterRpc, LinkedAt
  <2> QED BY <2>6, <2>7
<1> QED BY <1>1, <1>2

\* A stopping process whose socket the link leads to removes the link too.
LEMMA LoopLinked ==
    ASSUME TypeInv, NEW p \in Proc, NEW l \in Listener, OrderedAt(p), NamesAt(p),
           LinkLeads, LinkedAt(p),
           Accept(p, l) \/ LoopStep(p, l) \/ PeerAnswers(p, l) \/ BreakLoop(p, l)
    PROVE  LinkLeads' /\ LinkedAt(p)'
<1>1. /\ UNCHANGED <<pc, cfg, opening, uds, capLink>> /\ StepOf(p)
      /\ \A k \in Listener \ {l} : task'[p][k] = task[p][k]
      BY LoopRow DEF main
<1>2. "local" \in Listener /\ uds[p] \subseteq Listener
      BY DEF Listener, TypeInv
<1>3. Running \cap {"none", "unlink link", "done", "unlink socket", "bound"} = {}
      BY DEF Running, Bounded, OnPeer
<1>4. CASE /\ task[p][l] \in Running /\ UNCHANGED files
           /\ task'[p][l] \in Running \cup {"unlink socket", "done"}
  <2>1. LinkLeads'
        BY <1>1, <1>2, <1>3, <1>4, LeadsKept DEF files
  <2>2. /\ task[p]["local"] = "bound" => task'[p]["local"] = "bound"
        /\ task[p]["local"] = "done" => task'[p]["local"] = "done"
        /\ link' = link
        BY <1>1, <1>2, <1>3, <1>4 DEF files
  <2>3. LinkedAt(p)'
        BY <1>1, <2>2 DEF LinkedAt
  <2> QED BY <2>1, <2>3
<1>5. CASE /\ task[p][l] = "unlink link" /\ link' = NoLink /\ task'[p][l] = "done"
  <2>1. l = "local" /\ "local" \in uds[p] /\ pc[p] \in Ending
        BY <1>5 DEF NamesAt, OrderedAt, Cleanup
  <2>2. LinkLeads'
        BY <1>5 DEF LinkLeads, NoLink
  <2>3. LinkedAt(p)'
        BY <1>1, <1>5, <2>1 DEF LinkedAt, Ending
  <2> QED BY <2>2, <2>3
<1>6. CASE /\ task[p][l] = "unlink socket" /\ link' = link
           /\ sock' = [sock EXCEPT ![UdsPath(p, l)] = NoProc]
           /\ task'[p][l] = IF l = "local" /\ capLink[p] THEN "unlink link" ELSE "done"
  <2>1. l \in uds[p] /\ pc[p] \in Ending
        BY <1>6 DEF NamesAt, OrderedAt, Cleanup
  <2>2. /\ task[p]["local"] = "bound" => task'[p]["local"] = "bound"
        /\ task[p]["local"] = "done" => task'[p]["local"] = "done"
        /\ task[p]["local"] = "unlink link" => task'[p]["local"] = "unlink link"
        BY <1>1, <1>2, <1>6
  <2>3. LinkedAt(p)'
        BY <1>1, <1>6, <2>1, <2>2 DEF LinkedAt, Ending
  <2>4. LinkLeads'
    <3> SUFFICES ASSUME link # NoLink PROVE LinkLeads'
        BY <1>6 DEF LinkLeads, NoLink
    <3>1. PICK c \in Config : c.eco /\ c.family = link.to
          BY DEF LinkLeads
    <3>2. \E d \in Config : d.eco /\ d.family = link'.to
          BY <1>6, <3>1
    <3>3. CASE <<link.to, "local">> = UdsPath(p, l)
      <4>1. l = "local" /\ cfg[p].family = c.family /\ cfg[p] \in Config
            BY <3>1, <3>3 DEF UdsPath, TypeInv
      <4>2. cfg[p].eco
            BY <3>1, <4>1, ConfigAssumption
      <4>3. capLink[p]
            BY <1>6, <2>1, <4>1, <4>2 DEF LinkedAt
      <4> QED BY <1>6, <3>2, <4>1, <4>3 DEF LinkLeads
    <3>4. CASE <<link.to, "local">> # UdsPath(p, l)
      <4>1. LinkExists => LinkExists'
            BY <1>6, <3>4, LinkType DEF LinkExists, NoLink, TypeInv
      <4>2. \A q \in Proc \ {p} : task'[q] = task[q]
            BY <1>1 DEF StepOf, RowOf, Own
      <4>3. CASE LinkExists
            BY <3>2, <4>1, <4>3 DEF LinkLeads
      <4>4. CASE \E q \in Proc : task[q]["local"] = "unlink link"
            BY <2>2, <3>2, <4>2, <4>4 DEF LinkLeads
      <4>5. CASE \E q \in Proc : pc[q] = "bind" /\ opening[q] = "local" /\ cfg[q].family = link.to
            BY <1>1, <1>6, <3>2, <4>5 DEF LinkLeads
      <4> QED BY <4>3, <4>4, <4>5 DEF LinkLeads
    <3> QED BY <3>3, <3>4
  <2> QED BY <2>3, <2>4
<1>7. CASE /\ task[p][l] = "listening" /\ UNCHANGED files
           /\ task'[p][l] = IF l \in uds[p] THEN "unlink socket" ELSE "done"
  <2>1. "listening" \in Running
        BY DEF Running
  <2> QED BY <1>4, <1>7, <2>1
<1> QED BY <1>4, <1>5, <1>6, <1>7, LoopDoes

\* At the start there is no capability link.
LEMMA LinkedInit == Init => Linked
BY DEF Init, Linked, LinkLeads, LinkedAt, NoLink

\* Stuttering keeps Linked.
LEMMA LinkedStutter == Linked /\ UNCHANGED vars => Linked'
<1> SUFFICES ASSUME Linked, UNCHANGED vars PROVE Linked'
    OBVIOUS
<1>1. /\ pc' = pc /\ cfg' = cfg /\ opening' = opening /\ task' = task /\ uds' = uds
      /\ capLink' = capLink /\ sock' = sock /\ link' = link
      BY DEF vars, main, files
<1>2. LinkLeads'
      BY <1>1 DEF Linked, LinkLeads, LinkExists, NoLink
<1>3. \A p \in Proc : LinkedAt(p)'
      BY <1>1 DEF Linked, LinkedAt, NoLink
<1> QED BY <1>2, <1>3 DEF Linked

\* A process that was killed stays killed.
LEMMA KilledStays ==
    ASSUME Inv, Alone, [Next]_vars, NoneKilled'
    PROVE  NoneKilled
<1> SUFFICES ASSUME NEW q \in Proc, code[q] = "killed" PROVE code'[q] = "killed"
    BY DEF NoneKilled
<1>1. pc[q] = "exited" /\ ~Alive(q)
      BY DEF Alone, NamesAt, Alive
<1>2. ASSUME NEW p \in Proc, Launch(p) \/ Starting(p) \/ Signal(p) \/ Stopping(p) \/ Kill(p)
      PROVE  code'[q] = "killed"
  <2>1. p # q
        BY <1>1, <1>2, ActsAlive DEF Launch
  <2> QED BY <1>2, <2>1, InvProcess DEF StepOf, RowOf, Own
<1>3. ASSUME NEW p \in Proc, NEW l \in Listener,
             Accept(p, l) \/ LoopStep(p, l) \/ PeerAnswers(p, l) \/ BreakLoop(p, l)
      PROVE  code'[q] = "killed"
      BY <1>3, LoopRow DEF Inv, main
<1> QED BY <1>2, <1>3 DEF Next, vars, main

\* Without kills, no step leaves a capability link dangling that the next
\* server would have to replace (install_capability_symlink).
LEMMA LinkedStep ==
    ASSUME ~SideBySide, Inv, Alone, Linked, [Next]_vars, NoneKilled'
    PROVE  Linked'
<1>1. ASSUME NEW p \in Proc
      PROVE  TypeInv /\ OrderedAt(p) /\ NamesAt(p) /\ LinkLeads /\ LinkedAt(p)
      BY DEF Inv, Ordered, Alone, Linked
<1>2. ASSUME NEW p \in Proc, Alive(p) \/ \A r \in Proc : ~Alive(r), StepOf(p),
             LinkLeads' /\ LinkedAt(p)'
      PROVE  Linked'
      BY <1>2, LinkedOther DEF Linked
<1>3. ASSUME NEW p \in Proc, Launch(p) PROVE Linked'
  <2>1. \A r \in Proc : ~Alive(r)
        BY <1>3 DEF Launch
  <2> QED BY <1>1, <1>2, <1>3, <2>1, InvProcess, EndsLinked
<1>4. ASSUME NEW p \in Proc, Starting(p) PROVE Linked'
  <2>1. StepOf(p) /\ Alive(p)
        BY <1>4, InvProcess, ActsAlive
  <2>2. LinkLeads' /\ LinkedAt(p)'
        BY <1>1, <1>4, <2>1, QuietLinked, UnlinkOldLinked, BindLinked, LinkCheckLinked,
           LinkCreateLinked DEF Starting
  <2> QED BY <1>2, <2>1, <2>2
<1>5. ASSUME NEW p \in Proc, Signal(p) \/ Stopping(p) PROVE Linked'
  <2>1. StepOf(p) /\ Alive(p)
        BY <1>5, InvProcess, ActsAlive
  <2>2. LinkLeads' /\ LinkedAt(p)'
        BY <1>1, <1>5, <2>1, QuietLinked, EndsLinked DEF Stopping
  <2> QED BY <1>2, <2>1, <2>2
<1>6. ASSUME NEW p \in Proc, Kill(p) PROVE FALSE
      BY <1>6 DEF Kill, NoneKilled, Inv, TypeInv
<1>7. ASSUME NEW p \in Proc, NEW l \in Listener,
             Accept(p, l) \/ LoopStep(p, l) \/ PeerAnswers(p, l) \/ BreakLoop(p, l)
      PROVE  Linked'
  <2>1. StepOf(p) /\ Alive(p)
        BY <1>1, <1>7, LoopRow, LoopNames
  <2>2. LinkLeads' /\ LinkedAt(p)'
        BY <1>1, <1>7, LoopLinked
  <2> QED BY <1>2, <2>1, <2>2
<1> QED BY <1>3, <1>4, <1>5, <1>6, <1>7, LinkedStutter DEF Next

\* DomainLinkReachable for any number of successive servers: unless one was killed,
\* install_capability_symlink always makes the link lead to the serving process.
THEOREM DomainLinkReachableHolds ==
    ASSUME ~SideBySide
    PROVE  Spec => []DomainLinkReachable
<1>1. Init => (NoneKilled => Linked)
      BY LinkedInit
<1>2. Inv /\ Alone /\ (NoneKilled => Linked) /\ [Next]_vars => (NoneKilled => Linked)'
      BY LinkedStep, KilledStays
<1>3. Inv /\ Alone /\ (NoneKilled => Linked) => DomainLinkReachable
  <2> SUFFICES ASSUME Inv, Alone, Linked, NEW p \in Proc, pc[p] = "serving",
                      cfg[p].mode # "TcpOnly", cfg[p].eco
               PROVE  LinkExists /\ sock[<<link.to, "local">>] = p
      BY DEF DomainLinkReachable, NoneKilled
  <2>1. /\ "local" \in uds[p] /\ task[p]["local"] \in Running
        /\ sock[UdsPath(p, "local")] = p
        BY DEF Alone, NamesAt, PastLocal, Open
  <2>2. "bound" \notin Running /\ "done" \notin Running
        BY DEF Running, Bounded, OnPeer
  <2>3. link = [to |-> cfg[p].family, by |-> p]
        BY <2>1, <2>2 DEF Linked, LinkedAt
  <2>4. sock[<<link.to, "local">>] = p
        BY <2>1, <2>3 DEF UdsPath
  <2> QED BY <2>3, <2>4, ConfigType DEF LinkExists, NoLink
<1> QED BY <1>1, <1>2, <1>3, AloneInvariant, PTL DEF Spec

====
