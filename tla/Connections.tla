---------------------------- MODULE Connections ----------------------------
(***************************************************************************)
(* What happens to a connection between accept() and its last reply.       *)
(* An accept loop (start_unix_jsonrpc_server, start_newline_tcp_jsonrpc)   *)
(* takes one connection at a time from its backlog and finds out inside    *)
(* the accept branch what the peer speaks: plain JSON-RPC lines, a G65     *)
(* PROTOCOLS line, or a BTSP ClientHello whose handshake is relayed to a   *)
(* provider.  Only then is a task spawned that serves the connection, by   *)
(* newline JSON-RPC or by tarpc, with compilations on the blocking pool.   *)
(*                                                                         *)
(* The first line of a peer arrives in two pieces, its first byte and the  *)
(* rest, since the dispatch reads it that way; later lines and tarpc       *)
(* frames arrive whole.  What the lines hold is reduced to their kind.     *)
(* Peers may stop sending anywhere, shut down their writing side or        *)
(* vanish; timeouts may elapse whenever the awaited bytes are not there.   *)
(***************************************************************************)
EXTENDS Naturals, Sequences, FiniteSets, SequencesExt

CONSTANTS
    Peer,       \* the peers, one connection each
    NoPeer,     \* "the accept loop is in its select!"
    Profile,    \* what peers may be: see ProfileAssumption
    PoolSize    \* threads of tokio's blocking pool

ASSUME ProfileAssumption ==
    /\ NoPeer \notin Peer
    /\ PoolSize \in Nat \ {0}
    /\ \A f \in Profile :
          /\ f.on \in {"uds", "tcp"}
          /\ f.speaks \in {"jsonrpc", "g65", "btsp"}
          /\ f.first \in {"brace", "blank", "P"}    \* first byte of the first line
          /\ f.first = "P" <=> f.speaks = "g65"
          /\ f.speaks = "btsp" => f.first = "brace"
          /\ f.offers \in Seq({"tarpc", "jsonrpc"}) \* the recognised names of its PROTOCOLS line
          /\ f.wire \in {"sound", "long", "binary"} \* that line: more than 256 bytes, not UTF-8
          /\ f.work \in Seq({"quick", "compile", "negotiate"})

VARIABLES
    prof,       \* the profile of each peer
    srv,        \* the server: [prod |-> FAMILY_ID is set, tarpc |-> feature tarpc-transport]
    sent,       \* the pieces each peer has sent
    conn,       \* "new", "open", "half" (the peer shut down writing), "gone"
    in,         \* the pieces the server has not consumed
    out,        \* the replies written to each peer, all of them
    st,         \* where the server is with the connection: "none", "queued" in the backlog;
                \* in the dispatch "first", "line", "g65", "guard", "relay", "challenge",
                \* "verify"; in a task of its own "serve", "compiling", "tarpc"; "closed"
    queue,      \* the backlog of each listener
    busy,       \* the connection each accept loop is dispatching
    pend,       \* tarpc requests in flight
    pool,       \* compilations on the blocking pool, in order of submission
    sessions    \* SESSION_REGISTRY

net == <<prof, srv, sent, conn>>
loops == <<queue, busy>>
vars == <<prof, srv, sent, conn, in, out, st, queue, busy, pend, pool, sessions>>

Listener == {"uds", "tcp"}

-----------------------------------------------------------------------------
(* Peers.                                                                  *)

\* What the server told a peer to speak, by its PROTOCOL: line.
Told(c) == IF out[c] # <<>> /\ out[c][1].kind \in {"tarpc", "jsonrpc"}
           THEN out[c][1].kind ELSE "none"

\* The framing of the requests of a peer.
Framing(c) == IF Told(c) = "tarpc" THEN "frame" ELSE "line"

Line(kind, id, work, first) == [kind |-> kind, id |-> id, work |-> work, first |-> first]

Intro(c) ==
    CASE prof[c].speaks = "g65"  -> <<Line("offer", 0, "none", "P")>>
      [] prof[c].speaks = "btsp" -> <<Line("hello", 0, "none", "brace"),
                                      Line("proof", 0, "none", "brace")>>
      [] OTHER -> <<>>

\* All a peer would like to send: its part of a handshake, then its requests.
Lines(c) ==
    Intro(c) \o [i \in DOMAIN prof[c].work |->
        Line(IF Framing(c) = "frame" THEN "frame" ELSE "request", i, prof[c].work[i],
             IF i = 1 /\ Intro(c) = <<>> THEN prof[c].first ELSE "brace")]

\* The lines of a peer whose every piece was sent; the first one has two.
LinesSent(c) == IF sent[c] = 0 THEN 0 ELSE sent[c] - 1

\* A peer waits for the reply to each line of its handshake, and gives up when
\* it is not the one it expects; requests are pipelined.
MaySend(c, n) ==
    n <= Len(Intro(c)) + 1 /\ n > 1 =>
        /\ Len(out[c]) = n - 1
        /\ \A i \in 1..(n - 1) : out[c][i].kind \in {"tarpc", "jsonrpc", "ServerHello", "Complete"}

Connect(c) ==
    /\ conn[c] = "new"
    /\ conn' = [conn EXCEPT ![c] = "open"]
    /\ st' = [st EXCEPT ![c] = "queued"]
    /\ queue' = [queue EXCEPT ![prof[c].on] = Append(@, c)]
    /\ UNCHANGED <<prof, srv, sent, in, out, busy, pend, pool, sessions>>

Send(c) ==
    LET n == IF sent[c] < 2 THEN 1 ELSE sent[c]
        part == CASE sent[c] = 0 -> "head" [] sent[c] = 1 -> "tail" [] OTHER -> "all"
    IN  /\ conn[c] = "open" /\ st[c] # "closed"
        /\ n <= Len(Lines(c)) /\ MaySend(c, n)
        /\ sent' = [sent EXCEPT ![c] = @ + 1]
        /\ in' = [in EXCEPT ![c] = Append(@, [line |-> Lines(c)[n], part |-> part])]
        /\ UNCHANGED <<prof, srv, conn, out, st, loops, pend, pool, sessions>>

HangUp(c) ==
    /\ \/ conn[c] = "open" /\ conn' = [conn EXCEPT ![c] = "half"]
       \/ conn[c] \in {"open", "half"} /\ conn' = [conn EXCEPT ![c] = "gone"]
    /\ UNCHANGED <<prof, srv, sent, in, out, st, loops, pend, pool, sessions>>

-----------------------------------------------------------------------------
(* Reading and writing a connection.                                       *)

Eof(c) == conn[c] # "open"

\* A whole line, or what is left of one, is in the buffer.
HasLine(c) ==
    /\ in[c] # <<>> /\ Head(in[c]).line.kind # "frame"
    /\ Head(in[c]).part = "head" => Len(in[c]) > 1

FirstLineOf(c) == Head(in[c]).line
AfterLine(c) == SubSeq(in[c], IF Head(in[c]).part = "head" THEN 3 ELSE 2, Len(in[c]))

\* The text of the next line is the peer's: nothing of it was consumed before,
\* or only a blank.
Intact(c) == Head(in[c]).part = "tail" => Head(in[c]).line.first = "blank"

Reply(kind, id) == [kind |-> kind, id |-> id]

\* The server is done with a reply: a peer that has gone makes the write fail.
Write(c, kind, id) ==
    out' = IF conn[c] = "gone" THEN out ELSE [out EXCEPT ![c] = Append(@, Reply(kind, id))]

\* The accept branch ends: the connection is at stage s, the loop free.
Leave(c, s) ==
    /\ st' = [st EXCEPT ![c] = s]
    /\ busy' = [busy EXCEPT ![prof[c].on] = NoPeer]
    /\ UNCHANGED queue

Stay(c, s) == st' = [st EXCEPT ![c] = s] /\ UNCHANGED loops

-----------------------------------------------------------------------------
(* The accept loops.                                                       *)

Accept(l) ==
    /\ busy[l] = NoPeer /\ queue[l] # <<>>
    /\ busy' = [busy EXCEPT ![l] = Head(queue[l])]
    /\ queue' = [queue EXCEPT ![l] = Tail(@)]
    /\ st' = [st EXCEPT ![Head(queue[l])] = "first"]
    /\ UNCHANGED <<net, in, out, pend, pool, sessions>>

\* The first byte is there: read on the Unix socket, peeked at on TCP, where
\* PROTOCOLS lines are not known.
FirstByte(c) ==
    /\ st[c] = "first" /\ in[c] # <<>>
    /\ LET first == FirstLineOf(c).first IN
          CASE first = "brace" -> Stay(c, "line")
            [] first = "P" /\ prof[c].on = "uds" -> Stay(c, "g65")
            [] OTHER -> IF srv.prod THEN Stay(c, "guard") ELSE Leave(c, "serve")
    /\ in' = [in EXCEPT ![c] = IF prof[c].on = "uds" THEN Tail(@) ELSE @]
    /\ UNCHANGED <<net, out, pend, pool, sessions>>

\* The wait for the first byte times out, or the peer ends the stream: it is
\* accepted all the same.
NoFirstByte(c) ==
    /\ st[c] = "first" /\ in[c] = <<>>
    /\ Leave(c, "serve")
    /\ UNCHANGED <<net, in, out, pend, pool, sessions>>

\* MUTANT of Reinject: the line read to recognise the peer is not put back.
Reinject_Drop(c) == AfterLine(c)

\* What the serving task will read: LinePrefixed puts the first line back.
Reinject(c) == <<[line |-> FirstLineOf(c), part |-> "all"]>> \o AfterLine(c)

\* The first line after a brace is there.
FirstLine(c) ==
    /\ st[c] = "line" /\ HasLine(c)
    /\ IF FirstLineOf(c).kind = "hello"
       THEN /\ in' = [in EXCEPT ![c] = AfterLine(c)]
            /\ CASE prof[c].on = "uds" -> IF srv.prod THEN Stay(c, "relay") ELSE Leave(c, "closed")
                 [] prof[c].on = "tcp" -> IF srv.prod THEN Stay(c, "guard") ELSE Leave(c, "serve")
       ELSE /\ in' = [in EXCEPT ![c] = Reinject(c)]
            /\ Leave(c, "serve")
    /\ UNCHANGED <<net, out, pend, pool, sessions>>

\* MUTANT of NoFirstLine: the read of the first line is not under a timeout.
NoFirstLine_Wait(c) ==
    /\ st[c] = "line" /\ ~HasLine(c) /\ Eof(c)
    /\ Leave(c, IF prof[c].on = "tcp" THEN "serve" ELSE "closed")
    /\ UNCHANGED <<net, in, out, pend, pool, sessions>>

\* It does not come: the connection is dropped on a timeout; at the end of the
\* stream, TCP still has the brace, which it serves as a line.
NoFirstLine(c) ==
    /\ st[c] = "line" /\ ~HasLine(c)
    /\ \/ Leave(c, "closed")
       \/ Eof(c) /\ prof[c].on = "tcp" /\ Leave(c, "serve")
    /\ UNCHANGED <<net, in, out, pend, pool, sessions>>

\* guard_connection_inner: without a provider, or with one that fails, the
\* connection is accepted degraded; else the session it created is registered.
Guard(c) ==
    /\ st[c] = "guard"
    /\ sessions' \in {sessions, sessions \cup {<<"guard", c>>}}
    /\ Leave(c, "serve")
    /\ UNCHANGED <<net, in, out, pend, pool>>

-----------------------------------------------------------------------------
(* G65: no await of the negotiation has a timeout.                         *)

Supported == IF srv.tarpc THEN {"tarpc", "jsonrpc"} ELSE {"jsonrpc"}

\* select_protocol: the first of the client's protocols the server has.
SelectProtocol(offers) ==
    LET mutual == {i \in DOMAIN offers : offers[i] \in Supported}
    IN  IF mutual = {} THEN "jsonrpc" ELSE offers[Min(mutual)]

\* MUTANT of NegotiateServer: every negotiated connection is served as JSON-RPC.
NegotiateServer_JsonOnly(c) ==
    /\ st[c] = "g65" /\ HasLine(c) /\ prof[c].wire = "sound"
    /\ in' = [in EXCEPT ![c] = AfterLine(c)]
    /\ Write(c, SelectProtocol(prof[c].offers), 0)
    /\ Leave(c, "serve")
    /\ UNCHANGED <<net, pend, pool, sessions>>

\* The rest of the PROTOCOLS line is there; a line without a known name is
\* answered with jsonrpc.  When the answer cannot be written, or the stream
\* ends first, JSON-RPC is served to whatever is left of it.
NegotiateServer(c) ==
    /\ st[c] = "g65" /\ HasLine(c) /\ prof[c].wire = "sound"
    /\ LET selected == SelectProtocol(prof[c].offers) IN
          /\ Write(c, selected, 0)
          /\ Leave(c, IF selected = "tarpc" /\ conn[c] # "gone" THEN "tarpc" ELSE "serve")
    /\ in' = [in EXCEPT ![c] = AfterLine(c)]
    /\ UNCHANGED <<net, pend, pool, sessions>>

\* A line that is not UTF-8 is read to its end, one that is too long is given
\* up within, and what is left of it (here not a blank) stays unread.  Neither
\* is answered.
NegotiateRefused(c) ==
    /\ st[c] = "g65" /\ HasLine(c) /\ prof[c].wire # "sound"
    /\ in' = [in EXCEPT ![c] = IF prof[c].wire = "binary" THEN AfterLine(c) ELSE @]
    /\ Leave(c, "serve")
    /\ UNCHANGED <<net, out, pend, pool, sessions>>

NegotiateEof(c) ==
    /\ st[c] = "g65" /\ ~HasLine(c) /\ Eof(c)
    /\ Leave(c, "serve")
    /\ UNCHANGED <<net, in, out, pend, pool, sessions>>

-----------------------------------------------------------------------------
(* relay_json_line_handshake, on the Unix socket only.                     *)

\* btsp.session.create: no provider or an error closes the connection.
RelayCreate(c) ==
    /\ st[c] = "relay"
    /\ \/ Leave(c, "closed") /\ UNCHANGED out
       \/ conn[c] # "gone" /\ Write(c, "ServerHello", 0) /\ Stay(c, "challenge")
    /\ UNCHANGED <<net, in, pend, pool, sessions>>

\* read_line of the ChallengeResponse, without a timeout.
RelayChallenge(c) ==
    /\ st[c] = "challenge"
    /\ IF HasLine(c)
       THEN in' = [in EXCEPT ![c] = AfterLine(c)] /\ Stay(c, "verify")
       ELSE Eof(c) /\ Leave(c, "closed") /\ UNCHANGED in
    /\ UNCHANGED <<net, out, pend, pool, sessions>>

\* btsp.session.verify; the session is not entered into the registry.
RelayVerify(c) ==
    /\ st[c] = "verify"
    /\ \/ Leave(c, "closed") /\ UNCHANGED out
       \/ Write(c, "failed", 0) /\ Leave(c, "closed")
       \/ Write(c, "Complete", 0) /\ Leave(c, IF conn[c] = "gone" THEN "closed" ELSE "serve")
    /\ UNCHANGED <<net, in, pend, pool, sessions>>

-----------------------------------------------------------------------------
(* process_newline_reader_writer: one request at a time.                   *)

\* handle_negotiate: production knows only registered sessions; the one a peer
\* can name is the one HandshakeComplete told it.
NegotiateOutcome(c) == IF srv.prod /\ <<"relay", c>> \notin sessions THEN "refused" ELSE "answer"

\* The loop goes on after a reply, unless the write failed.
Answer(c, kind, id) ==
    /\ Write(c, kind, id)
    /\ Stay(c, IF conn[c] = "gone" THEN "closed" ELSE "serve")

ServeLine(c) ==
    /\ st[c] = "serve" /\ HasLine(c)
    /\ in' = [in EXCEPT ![c] = AfterLine(c)]
    /\ LET line == FirstLineOf(c) IN
          IF line.kind # "request" \/ ~Intact(c)
          THEN Answer(c, "parse error", 0) /\ UNCHANGED pool
          ELSE \/ line.work = "quick" /\ Answer(c, "answer", line.id) /\ UNCHANGED pool
               \/ line.work = "negotiate" /\ Answer(c, NegotiateOutcome(c), line.id) /\ UNCHANGED pool
               \/ /\ line.work = "compile"      \* spawn_blocking, awaited without a deadline
                  /\ pool' = Append(pool, [peer |-> c, id |-> line.id])
                  /\ Stay(c, "compiling") /\ UNCHANGED out
    /\ UNCHANGED <<net, pend, sessions>>

\* The stream ends; what was left of a line still counts as one, if not blank.
ServeEof(c) ==
    /\ st[c] = "serve" /\ Eof(c) /\ ~HasLine(c)
    /\ Stay(c, "closed")
    /\ IF in[c] # <<>> /\ FirstLineOf(c).first # "blank"
       THEN Write(c, "parse error", 0) ELSE UNCHANGED out
    /\ in' = [in EXCEPT ![c] = <<>>]
    /\ UNCHANGED <<net, pend, pool, sessions>>

-----------------------------------------------------------------------------
(* handle_tarpc_negotiated: every request has a task of its own.           *)

TarpcFrame(c) ==
    /\ st[c] = "tarpc" /\ in[c] # <<>>
    /\ LET line == FirstLineOf(c) IN
          IF line.kind = "frame"
          THEN /\ pend' = [pend EXCEPT ![c] = @ \cup {line}]
               /\ pool' = IF line.work = "compile"
                          THEN Append(pool, [peer |-> c, id |-> line.id]) ELSE pool
               /\ UNCHANGED st
          ELSE /\ pend' = [pend EXCEPT ![c] = {}]   \* not a frame: the channel ends
               /\ st' = [st EXCEPT ![c] = "closed"] /\ UNCHANGED pool
    /\ in' = [in EXCEPT ![c] = Tail(@)]
    /\ UNCHANGED <<net, out, loops, sessions>>

\* A task ends with a reply: at once, or because the deadline has passed while
\* the compilation goes on in its thread.
TarpcReply(c, r) ==
    /\ st[c] = "tarpc"
    /\ Write(c, IF r.work = "compile" THEN "deadline" ELSE "answer", r.id)
    /\ pend' = [pend EXCEPT ![c] = @ \ {r}]
    /\ UNCHANGED <<net, in, st, loops, pool, sessions>>

TarpcEof(c) ==
    /\ st[c] = "tarpc" /\ Eof(c) /\ in[c] = <<>>
    /\ conn[c] = "gone" \/ pend[c] = {}     \* BaseChannel first answers what is in flight
    /\ st' = [st EXCEPT ![c] = "closed"]
    /\ pend' = [pend EXCEPT ![c] = {}]
    /\ UNCHANGED <<net, in, out, loops, pool, sessions>>

\* A compilation ends, with a result, an error or a panic; the result of one
\* nobody waits for any more is dropped.
FinishCompile(i) ==
    LET c == pool[i].peer
        r == {q \in pend[c] : q.id = pool[i].id}
    IN  /\ pool' = RemoveAt(pool, i)
        /\ IF st[c] = "compiling"
           THEN Answer(c, "answer", pool[i].id) /\ UNCHANGED pend
           ELSE /\ IF r # {} THEN Write(c, "answer", pool[i].id) ELSE UNCHANGED out
                /\ pend' = [pend EXCEPT ![c] = @ \ r]
                /\ UNCHANGED <<st, loops>>
        /\ UNCHANGED <<net, in, sessions>>

-----------------------------------------------------------------------------
Init ==
    /\ prof \in [Peer -> Profile]
    /\ srv \in [prod : BOOLEAN, tarpc : BOOLEAN]
    /\ sent = [c \in Peer |-> 0] /\ conn = [c \in Peer |-> "new"]
    /\ in = [c \in Peer |-> <<>>] /\ out = [c \in Peer |-> <<>>]
    /\ st = [c \in Peer |-> "none"]
    /\ queue = [l \in Listener |-> <<>>] /\ busy = [l \in Listener |-> NoPeer]
    /\ pend = [c \in Peer |-> {}] /\ pool = <<>> /\ sessions = {}

\* What the server does by itself, once bytes or a timeout are there.
ServerStep(c) ==
    \/ FirstByte(c) \/ NoFirstByte(c) \/ FirstLine(c) \/ NoFirstLine(c)
    \/ NegotiateServer(c) \/ NegotiateRefused(c) \/ NegotiateEof(c) \/ RelayChallenge(c)
    \/ ServeLine(c) \/ ServeEof(c) \/ TarpcFrame(c) \/ TarpcEof(c)
    \/ \E r \in pend[c] : TarpcReply(c, r)

\* What waits for the provider, whose answers are not under a timeout either.
ProviderStep(c) == Guard(c) \/ RelayCreate(c) \/ RelayVerify(c)

Next ==
    \/ \E c \in Peer : Connect(c) \/ Send(c) \/ HangUp(c) \/ ServerStep(c) \/ ProviderStep(c)
    \/ \E l \in Listener : Accept(l)
    \/ \E i \in 1..Len(pool) : i <= PoolSize /\ FinishCompile(i)

\* The runtime polls every task that can go on.  Nothing is assumed of peers,
\* of the provider, or of compilations.
Fairness ==
    /\ \A c \in Peer : WF_vars(ServerStep(c))
    /\ \A l \in Listener : WF_vars(Accept(l))

Spec == Init /\ [][Next]_vars /\ Fairness

-----------------------------------------------------------------------------
(* Properties.                                                             *)

\* How many of the first n replies carry the id of a request.
Answers(c, n) == Cardinality({i \in 1..n : out[c][i].id > 0})

\* Every line gets its own reply and no other, although the dispatch consumes
\* the first byte and the first line and hands the rest to another task: the
\* answers to JSON-RPC lines come in the order of the requests, whole requests
\* are never parse errors, whatever timeout elapsed before; a tarpc request is
\* answered once, although its compilation may end after its deadline was
\* reported (dispatch_connection, LinePrefixed, process_newline_reader_writer,
\* TarpcServer).
RepliesMatch ==
    \A c \in Peer :
        /\ Len(out[c]) <= LinesSent(c) + (IF sent[c] = 1 THEN 1 ELSE 0)
        /\ \A i \in DOMAIN out[c] : out[c][i].id > 0 =>
              IF Framing(c) = "line" THEN out[c][i].id = Answers(c, i)
              ELSE \A j \in 1..(i - 1) : out[c][j].id # out[c][i].id
        /\ prof[c].speaks = "jsonrpc" /\ sent[c] # 1 =>
              \A i \in DOMAIN out[c] : out[c][i].kind # "parse error"

\* Both ends agree on the framing: what is on its way from a peer is read by
\* the loop it was written for, for every list of protocols a peer may offer,
\* with and without the tarpc feature, after a malformed PROTOCOLS line, one
\* that came too late to be recognised, or one sent to the TCP listener
\* (handle_g65_connection, negotiate_server_after_p).
FramingAgrees ==
    \A c \in Peer :
        st[c] \in {"serve", "compiling", "tarpc"} /\ conn[c] # "gone" =>
            /\ Told(c) = "tarpc" <=> st[c] = "tarpc"
            /\ \A i \in DOMAIN in[c] : in[c][i].line.kind = "frame" <=> st[c] = "tarpc"

\* An accept loop that awaits something without a timeout: the rest of a
\* PROTOCOLS line, a ChallengeResponse, or the provider.
Stalled(l) == busy[l] # NoPeer /\ st[busy[l]] \in {"g65", "challenge", "guard", "relay", "verify"}

\* Every whole line is answered in the end, also on a connection whose peer has
\* shut down writing, behind peers that stay silent or stop within a line, and
\* behind compilations that never end when they were asked for by tarpc.  What
\* the code does not give is excepted: a dispatch that hangs in an await
\* without a timeout holds up its own connection and the backlog; a JSON-RPC
\* compilation has no deadline; a failed BTSP handshake ends the connection,
\* and the TCP listener has no ServerHello for a ClientHello; a PROTOCOLS line
\* that is not UTF-8 is dropped without a word (dispatch_connection,
\* start_newline_tcp_jsonrpc, TarpcServer, read_negotiation_line_after_p).
PeersAnswered ==
    \A c \in Peer :
        <>[](\/ Len(out[c]) >= LinesSent(c)
             \/ conn[c] = "gone" \/ st[c] = "compiling"
             \/ st[c] \in {"queued", "guard", "relay", "verify"} /\ Stalled(prof[c].on)
             \/ prof[c].speaks = "btsp" /\ (st[c] = "closed" \/ prof[c].on = "tcp")
             \/ prof[c].speaks = "g65" /\ prof[c].on = "uds" /\ prof[c].wire = "binary")
=============================================================================
