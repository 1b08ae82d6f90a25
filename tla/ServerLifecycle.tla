--------------------------- MODULE ServerLifecycle ---------------------------
(***************************************************************************)
(* The server processes of coralreef-core and the files they share.       *)
(*                                                                         *)
(* Every process runs cmd_server: it opens a TCP listener (rpc), a Unix    *)
(* JSON-RPC listener (local) and a tarpc listener, writes a discovery file *)
(* and a PID file, waits for a signal, tells its accept loops to stop,     *)
(* joins them under a timeout, removes its files and returns.  All         *)
(* processes share one ecosystem directory: a socket name per family, one  *)
(* capability link, one discovery file, one PID file.  Every system call   *)
(* on a shared name is a step of its own, so processes interleave between  *)
(* them, and a process may be killed between any two.                      *)
(*                                                                         *)
(* Time is abstract.  An await that the code puts under a timeout always   *)
(* ends; an await on a peer without one may last for ever.                 *)
(***************************************************************************)
EXTENDS Naturals, FiniteSets

CONSTANTS
    Proc,           \* the server processes, each started at most once
    Config,         \* the configurations a process may be started with
    NoProc,         \* "no process": the file does not exist
    SideBySide,     \* may a process start while another one is alive?
    EarlyTimeout,   \* may the join timeout elapse before a bounded await ends?
    MaxKills        \* how many processes may be killed

ASSUME ConfigAssumption ==
    /\ NoProc \notin Proc
    /\ SideBySide \in BOOLEAN /\ EarlyTimeout \in BOOLEAN
    /\ MaxKills \in Nat
    /\ \A c \in Config : /\ c.mode \in {"TcpOnly", "UdsOnly", "Both"}
                         /\ c.tarpc \in {"none", "unix", "tcp"}
                         /\ c.eco \in BOOLEAN     \* path under the ecosystem directory
                         /\ c.btsp \in BOOLEAN    \* BtspMode::Production
    /\ Config # {}
    /\ \A c, d \in Config : c.family = d.family => c.eco = d.eco  \* one path per family

VARIABLES
    pc,         \* pc[p]: where cmd_server of p stands
    cfg,        \* cfg[p]: p's configuration
    opening,    \* opening[p]: the local socket that is being bound
    task,       \* task[p][l]: where the accept loop of listener l stands
    uds,        \* uds[p]: the listeners of p that hold a cleanup_path
    capLink,    \* capLink[p]: did install_capability_symlink return Some?
    joined,     \* joined[p]: the join of the accept loops did not time out
    code,       \* code[p]: the exit code
    sock,       \* sock[n]: whose listener the socket file n belongs to
    link,       \* the capability link: the name it holds and who made it
    disc,       \* whose discovery file is on disk
    pidf,       \* whose PID file is on disk
    kills       \* processes killed so far

main  == <<pc, cfg, opening, uds, capLink, joined, code>>
files == <<sock, link, disc, pidf>>
vars  == <<main, task, files, kills>>

Listener == {"rpc", "local", "tarpc"}
Family   == {c.family : c \in Config}
SockName == Family \X {"local", "tarpc"}
AnyConfig == CHOOSE c \in Config : TRUE
NoLink   == [to |-> "none", by |-> NoProc]

\* Await points of an accept loop: under a timeout, and on a peer.
Bounded == {"first byte", "first line"}
OnPeer  == {"negotiate", "guard", "create", "challenge", "verify"}
Cleanup == {"unlink socket", "unlink link"}
Running == {"listening"} \cup Bounded \cup OnPeer

\* The two sockets of a process have different names (resolve_uds_binds).
UdsPath(p, l) == <<cfg[p].family, l>>

Alive(p) == pc[p] \notin {"idle", "exited"}

\* The sender is used once, by the signal branch, and dropped on return:
\* changed() resolves in both cases.
ShutdownSeen(p) == pc[p] \in {"joining", "remove discovery", "remove pid", "dropping"}

Init ==
    /\ pc = [p \in Proc |-> "idle"]
    /\ cfg = [p \in Proc |-> AnyConfig]
    /\ opening = [p \in Proc |-> "local"]
    /\ task = [p \in Proc |-> [l \in Listener |-> "none"]]
    /\ uds = [p \in Proc |-> {}]
    /\ capLink = [p \in Proc |-> FALSE] /\ joined = [p \in Proc |-> FALSE]
    /\ code = [p \in Proc |-> "none"]
    /\ sock = [n \in SockName |-> NoProc]
    /\ link = NoLink /\ disc = NoProc /\ pidf = NoProc
    /\ kills = 0

------------------------------------------------------------------------------
(* cmd_server: starting.                                                   *)

Goto(p, at)   == pc' = [pc EXCEPT ![p] = at]
SetTask(p, l, s) == task' = [task EXCEPT ![p][l] = s]

Return(p, c) == Goto(p, "dropping") /\ code' = [code EXCEPT ![p] = c]

\* Begin start_unix_jsonrpc_server or start_tarpc_local_impl.
OpenLocal(p, l) == Goto(p, "prepare") /\ opening' = [opening EXCEPT ![p] = l]

\* After the JSON-RPC listeners: tarpc, unless it is skipped.
StartTarpc(p) ==
    LET skip_tarpc == cfg[p].tarpc = "none" \/ cfg[p].mode = "TcpOnly"
    IN  \/ skip_tarpc /\ Goto(p, "discovery") /\ UNCHANGED opening
        \/ ~skip_tarpc /\ cfg[p].tarpc = "unix" /\ OpenLocal(p, "tarpc")
        \/ ~skip_tarpc /\ cfg[p].tarpc = "tcp" /\ Goto(p, "tarpc tcp") /\ UNCHANGED opening

\* main starts cmd_server; validate_insecure_guard and resolve_bind_with_mode
\* may refuse the configuration.
Launch(p) ==
    /\ pc[p] = "idle"
    /\ SideBySide \/ \A q \in Proc : ~Alive(q)
    /\ \/ \E c \in Config :
             /\ cfg' = [cfg EXCEPT ![p] = c]
             /\ Goto(p, IF c.mode = "UdsOnly" THEN "prepare" ELSE "tcp")
             /\ UNCHANGED code
       \/ Return(p, "ConfigError") /\ UNCHANGED cfg
    /\ UNCHANGED <<opening, uds, capLink, joined, task, files, kills>>

\* start_newline_tcp_jsonrpc: without the TCP listener there is no server.
OpenTcp(p) ==
    /\ pc[p] = "tcp"
    /\ \/ /\ SetTask(p, "rpc", "listening")
          /\ IF cfg[p].mode = "Both" THEN OpenLocal(p, "local") ELSE StartTarpc(p)
          /\ UNCHANGED code
       \/ Return(p, "GeneralError") /\ UNCHANGED <<task, opening>>
    /\ UNCHANGED <<cfg, uds, capLink, joined, files, kills>>

\* MUTANT of LocalFailed: a missing JSON-RPC socket is a warning in every mode.
LocalFailed_Warn(p) ==
    \/ opening[p] = "local" /\ StartTarpc(p) /\ UNCHANGED code
    \/ opening[p] = "tarpc" /\ Goto(p, "tarpc tcp") /\ UNCHANGED <<opening, code>>

\* A local socket could not be opened: fatal for an injected UDS endpoint,
\* a warning in standalone mode, a TCP fallback for tarpc.
LocalFailed(p) ==
    \/ /\ opening[p] = "local" /\ cfg[p].mode = "UdsOnly"
       /\ Return(p, "GeneralError") /\ UNCHANGED opening
    \/ /\ opening[p] = "local" /\ cfg[p].mode = "Both"
       /\ StartTarpc(p) /\ UNCHANGED code
    \/ /\ opening[p] = "tarpc"
       /\ Goto(p, "tarpc tcp") /\ UNCHANGED <<opening, code>>

\* MUTANT of PrepareLocalBind: an old socket is not removed.
PrepareLocalBind_KeepOld(p) ==
    /\ pc[p] = "prepare" /\ Goto(p, "bind")
    /\ UNCHANGED <<cfg, opening, uds, capLink, joined, code, task, files, kills>>

\* prepare_local_bind: path.exists().
PrepareLocalBind(p) ==
    /\ pc[p] = "prepare"
    /\ Goto(p, IF sock[UdsPath(p, opening[p])] = NoProc THEN "bind" ELSE "unlink old")
    /\ UNCHANGED <<cfg, opening, uds, capLink, joined, code, task, files, kills>>

\* prepare_local_bind: remove_file, which fails if the file has gone.
UnlinkOld(p) ==
    LET n == UdsPath(p, opening[p])
    IN  /\ pc[p] = "unlink old"
        /\ \/ /\ sock[n] # NoProc
              /\ sock' = [sock EXCEPT ![n] = NoProc]
              /\ Goto(p, "bind") /\ UNCHANGED <<opening, code>>
           \/ /\ sock[n] = NoProc
              /\ LocalFailed(p) /\ UNCHANGED sock
        /\ UNCHANGED <<cfg, uds, capLink, joined, task, link, disc, pidf, kills>>

\* bind_local, which fails if the name is taken.  The tarpc accept loop is
\* spawned at once, the JSON-RPC one after install_capability_symlink.
BindLocal(p) ==
    LET l == opening[p]
        n == UdsPath(p, l)
    IN  /\ pc[p] = "bind"
        /\ \/ /\ sock[n] = NoProc
              /\ sock' = [sock EXCEPT ![n] = p]
              /\ uds' = [uds EXCEPT ![p] = @ \cup {l}]
              /\ IF l = "tarpc"
                 THEN Goto(p, "discovery") /\ SetTask(p, l, "listening")
                 ELSE Goto(p, "link check") /\ SetTask(p, l, "bound")
              /\ UNCHANGED <<opening, code>>
           \/ /\ sock[n] # NoProc
              /\ LocalFailed(p) /\ UNCHANGED <<sock, uds, task>>
        /\ UNCHANGED <<cfg, capLink, joined, link, disc, pidf, kills>>

\* path.exists() follows the link: a dangling link does not exist.
LinkExists == link # NoLink /\ sock[<<link.to, "local">>] # NoProc

SpawnLocal(p, some) ==
    /\ SetTask(p, "local", "listening")
    /\ capLink' = [capLink EXCEPT ![p] = some]
    /\ StartTarpc(p)

\* MUTANT of LinkCheck: an existing link is not removed.
LinkCheck_KeepOld(p) ==
    /\ pc[p] = "link check"
    /\ \/ ~cfg[p].eco /\ SpawnLocal(p, FALSE)
       \/ cfg[p].eco /\ Goto(p, "link create") /\ UNCHANGED <<opening, task, capLink>>
    /\ UNCHANGED <<cfg, uds, joined, code, files, kills>>

\* install_capability_symlink: skipped outside the ecosystem directory;
\* an existing link is to be removed first.
LinkCheck(p) ==
    /\ pc[p] = "link check"
    /\ \/ ~cfg[p].eco /\ SpawnLocal(p, FALSE)
       \/ /\ cfg[p].eco
          /\ Goto(p, IF LinkExists THEN "link remove" ELSE "link create")
          /\ UNCHANGED <<opening, task, capLink>>
    /\ UNCHANGED <<cfg, uds, joined, code, files, kills>>

LinkRemove(p) ==
    /\ pc[p] = "link remove"
    /\ link' = NoLink /\ Goto(p, "link create")
    /\ UNCHANGED <<cfg, opening, uds, capLink, joined, code, task, sock, disc, pidf, kills>>

\* create_local_symlink fails if the name is taken: a warning, no link.
LinkCreate(p) ==
    /\ pc[p] = "link create"
    /\ link' = IF link = NoLink THEN [to |-> cfg[p].family, by |-> p] ELSE link
    /\ SpawnLocal(p, link = NoLink)
    /\ UNCHANGED <<cfg, uds, joined, code, sock, disc, pidf, kills>>

\* start_tarpc_tcp_server: as the fallback of a tarpc socket its failure is a
\* warning, as the configured bind it aborts the TCP listener and returns.
TarpcTcp(p) ==
    /\ pc[p] = "tarpc tcp"
    /\ \/ SetTask(p, "tarpc", "listening") /\ Goto(p, "discovery") /\ UNCHANGED code
       \/ cfg[p].tarpc = "unix" /\ Goto(p, "discovery") /\ UNCHANGED <<task, code>>
       \/ /\ cfg[p].tarpc = "tcp"
          /\ task' = [task EXCEPT ![p]["rpc"] = IF @ = "none" THEN @ ELSE "dropped"]
          /\ Return(p, "GeneralError")
    /\ UNCHANGED <<cfg, opening, uds, capLink, joined, files, kills>>

\* write_discovery_file and write_pid_file: a failed write is only logged.
WriteDiscovery(p) ==
    /\ pc[p] = "discovery"
    /\ disc' \in {disc, p} /\ Goto(p, "pid")
    /\ UNCHANGED <<cfg, opening, uds, capLink, joined, code, task, sock, link, pidf, kills>>

WritePid(p) ==
    /\ pc[p] = "pid"
    /\ pidf' \in {pidf, p} /\ Goto(p, "serving")
    /\ UNCHANGED <<cfg, opening, uds, capLink, joined, code, task, sock, link, disc, kills>>

------------------------------------------------------------------------------
(* cmd_server: stopping.                                                   *)

\* wait_for_shutdown_signal returns and the watch channel is written.
Signal(p) ==
    /\ pc[p] = "serving"
    /\ Goto(p, "joining")
    /\ UNCHANGED <<cfg, opening, uds, capLink, joined, code, task, files, kills>>

Finished(p) == \A l \in Listener : task[p][l] \in {"none", "done"}

\* All the handles were awaited within the timeout.
Join(p) ==
    /\ pc[p] = "joining" /\ Finished(p)
    /\ joined' = [joined EXCEPT ![p] = TRUE] /\ Goto(p, "remove discovery")
    /\ UNCHANGED <<cfg, opening, uds, capLink, code, task, files, kills>>

\* MUTANT of JoinTimeout: the handles are awaited without a timeout.
JoinTimeout_Never(p) == FALSE /\ UNCHANGED vars /\ p \in Proc

\* The timeout elapsed.  It is longer than the bounded awaits, so with the
\* release default only a listener that waits for a peer makes it elapse.
JoinTimeout(p) ==
    /\ pc[p] = "joining" /\ ~Finished(p)
    /\ EarlyTimeout \/ \E l \in Listener : task[p][l] \in OnPeer
    /\ Goto(p, "remove discovery")
    /\ UNCHANGED <<cfg, opening, uds, capLink, joined, code, task, files, kills>>

RemoveDiscovery(p) ==
    /\ pc[p] = "remove discovery"
    /\ disc' = NoProc /\ Goto(p, "remove pid")
    /\ UNCHANGED <<cfg, opening, uds, capLink, joined, code, task, sock, link, pidf, kills>>

RemovePid(p) ==
    /\ pc[p] = "remove pid"
    /\ pidf' = NoProc /\ Return(p, "Signal")
    /\ UNCHANGED <<cfg, opening, uds, capLink, joined, task, sock, link, disc, kills>>

\* The process is gone, and with it its memory and its tasks.
Exit(p) ==
    /\ Goto(p, "exited")
    /\ task' = [task EXCEPT ![p] = [l \in Listener |-> "none"]]
    /\ cfg' = [cfg EXCEPT ![p] = AnyConfig]
    /\ opening' = [opening EXCEPT ![p] = "local"]
    /\ uds' = [uds EXCEPT ![p] = {}]
    /\ capLink' = [capLink EXCEPT ![p] = FALSE]

\* main returned: the runtime drops the tasks at their await points.  The
\* two unlinks of an accept loop have no await between them.
RuntimeDrop(p) ==
    /\ pc[p] = "dropping"
    /\ \A l \in Listener : task[p][l] \notin Cleanup
    /\ Exit(p)
    /\ UNCHANGED <<joined, code, files, kills>>

\* The process is killed, or gets a signal before it waits for one.
Kill(p) ==
    /\ Alive(p) /\ kills < MaxKills
    /\ kills' = kills + 1
    /\ Exit(p) /\ code' = [code EXCEPT ![p] = "killed"]
    /\ UNCHANGED <<joined, files>>

------------------------------------------------------------------------------
(* The accept loops.  A connection is dispatched inside the accept branch  *)
(* of select!, so the loop sees neither a shutdown nor the next connection *)
(* until the dispatch has spawned the connection's task or closed it; both *)
(* lead back to "listening".  The tarpc loops spawn without an await.      *)

Dispatch(p, l, from, to) ==
    /\ task[p][l] = from
    /\ \E s \in to : SetTask(p, l, s)
    /\ UNCHANGED <<main, files, kills>>

Accept(p, l) == l # "tarpc" /\ Dispatch(p, l, "listening", {"first byte"})

\* The first byte, a closed stream or the timeout: '{' needs the line, 'P'
\* (local only) negotiates, any other byte goes through the BTSP guard.
FirstByte(p, l) ==
    Dispatch(p, l, "first byte",
        {"first line", "listening"}
            \cup (IF l = "local" THEN {"negotiate"} ELSE {})
            \cup (IF cfg[p].btsp THEN {"guard"} ELSE {}))

\* The rest of the line, a closed stream or the timeout: a BTSP ClientHello
\* starts the handshake (local) or the guard (rpc), if there is a provider.
FirstLine(p, l) ==
    Dispatch(p, l, "first line",
        {"listening"} \cup (IF ~cfg[p].btsp THEN {}
                            ELSE IF l = "local" THEN {"create"} ELSE {"guard"}))

\* Answers of the peer or of the security provider, or an error.
Negotiate(p, l) == Dispatch(p, l, "negotiate", {"listening"})
Guard(p, l)     == Dispatch(p, l, "guard", {"listening"})
Create(p, l)    == Dispatch(p, l, "create", {"challenge", "listening"})
Challenge(p, l) == Dispatch(p, l, "challenge", {"verify", "listening"})
Verify(p, l)    == Dispatch(p, l, "verify", {"listening"})

PeerAnswers(p, l) == \/ Negotiate(p, l) \/ Guard(p, l) \/ Create(p, l)
                     \/ Challenge(p, l) \/ Verify(p, l)

\* shutdown_rx.changed(): the loop ends; a local one removes its names.
BreakLoop(p, l) ==
    /\ task[p][l] = "listening" /\ ShutdownSeen(p)
    /\ SetTask(p, l, IF l \in uds[p] THEN "unlink socket" ELSE "done")
    /\ UNCHANGED <<main, files, kills>>

\* MUTANT of UnlinkSocket: the capability link is left behind.
UnlinkSocket_KeepLink(p, l) ==
    /\ task[p][l] = "unlink socket"
    /\ sock' = [sock EXCEPT ![UdsPath(p, l)] = NoProc]
    /\ SetTask(p, l, "done")
    /\ UNCHANGED <<main, link, disc, pidf, kills>>

UnlinkSocket(p, l) ==
    /\ task[p][l] = "unlink socket"
    /\ sock' = [sock EXCEPT ![UdsPath(p, l)] = NoProc]
    /\ SetTask(p, l, IF l = "local" /\ capLink[p] THEN "unlink link" ELSE "done")
    /\ UNCHANGED <<main, link, disc, pidf, kills>>

UnlinkLink(p, l) ==
    /\ task[p][l] = "unlink link"
    /\ link' = NoLink
    /\ SetTask(p, l, "done")
    /\ UNCHANGED <<main, sock, disc, pidf, kills>>

------------------------------------------------------------------------------
Starting(p) == \/ OpenTcp(p) \/ PrepareLocalBind(p) \/ UnlinkOld(p) \/ BindLocal(p)
               \/ LinkCheck(p) \/ LinkRemove(p) \/ LinkCreate(p) \/ TarpcTcp(p)
               \/ WriteDiscovery(p) \/ WritePid(p)

Stopping(p) == \/ Join(p) \/ JoinTimeout(p) \/ RemoveDiscovery(p) \/ RemovePid(p)
               \/ RuntimeDrop(p)

\* What an accept loop does by itself once it has left the select!: its awaits
\* are under a timeout, its cleanup has none.
LoopStep(p, l) == \/ FirstByte(p, l) \/ FirstLine(p, l)
                  \/ UnlinkSocket(p, l) \/ UnlinkLink(p, l)

Next ==
    \E p \in Proc :
        \/ Launch(p) \/ Starting(p) \/ Signal(p) \/ Stopping(p) \/ Kill(p)
        \/ \E l \in Listener : \/ Accept(p, l) \/ LoopStep(p, l)
                              \/ PeerAnswers(p, l) \/ BreakLoop(p, l)

\* cmd_server and the awaits under a timeout make progress; select! picks at
\* random between its ready branches, so a loop that keeps returning to it
\* sees the shutdown.  Peers, signals and launches are not fair.
Fairness ==
    \A p \in Proc :
        /\ WF_vars(Starting(p) \/ Stopping(p))
        /\ \A l \in Listener : WF_vars(LoopStep(p, l)) /\ SF_vars(BreakLoop(p, l))

Spec == Init /\ [][Next]_vars /\ Fairness

------------------------------------------------------------------------------
(* Properties.                                                             *)

\* A server that reached wait_for_shutdown_signal answers on the names it was
\* configured with, whatever the servers before it left on disk: killed ones,
\* ones whose start failed half way, ones whose join timed out (cmd_server,
\* prepare_local_bind, bind_local).
ServingReachable ==
    \A p \in Proc :
        pc[p] = "serving" /\ cfg[p].mode # "TcpOnly" =>
            /\ sock[UdsPath(p, "local")] = p /\ task[p]["local"] \in Running
            /\ cfg[p].tarpc = "unix" =>
                  sock[UdsPath(p, "tarpc")] = p /\ task[p]["tarpc"] \in Running

\* A server never waits for a signal without a single listener, whatever the
\* servers starting and stopping beside it did to its names between its
\* exists(), remove_file() and bind() (cmd_server: which failures are fatal).
ServesSomewhere ==
    \A p \in Proc : pc[p] = "serving" => \E l \in Listener : task[p][l] \in Running

\* A server that joined its accept loops leaves none of its files behind: no
\* socket, no capability link, no discovery file, no PID file (cmd_server and
\* the ends of the accept loops).
CleanExit ==
    \A p \in Proc :
        pc[p] = "exited" /\ code[p] = "Signal" /\ joined[p] =>
            p \notin {sock[n] : n \in SockName} \cup {link.by, disc, pidf}

\* While a server under the ecosystem directory serves, the capability link
\* leads to its socket, whichever family the server before it belonged to and
\* wherever that one's start failed or its stop timed out.  A kill between the
\* two unlinks of a stop is excepted: it leaves a dangling link, which exists()
\* does not see and symlink() does not replace (install_capability_symlink).
DomainLinkReachable ==
    (\A q \in Proc : code[q] # "killed") =>
        \A p \in Proc :
            pc[p] = "serving" /\ cfg[p].mode # "TcpOnly" /\ cfg[p].eco =>
                LinkExists /\ sock[<<link.to, "local">>] = p

\* A signalled server ends, even when a peer never answers and an accept loop
\* hangs in its dispatch (cmd_server: the join is under a timeout).
ShutdownCompletes == \A p \in Proc : pc[p] = "joining" ~> pc[p] = "exited"
=============================================================================
