------------------------- MODULE ConnectionsProofs -------------------------
(***************************************************************************)
(* Every peer is served in the framing it was told and gets its own        *)
(* replies, for any number of peers of any profile.                        *)
(*                                                                         *)
(* Wire says that what the server has not read of a peer is determined by  *)
(* how much the peer has sent and how much was consumed; Staged relates    *)
(* the stage of a connection to both; Served counts the replies against    *)
(* the lines consumed; Orderly and ErrorFree are what the replies so far   *)
(* promise; Pooled ties the blocking pool to its callers.                  *)
(***************************************************************************)
EXTENDS Connections, FiniteSetTheorems, SequenceTheorems, WellFoundedInduction, TLAPS

\* Stages before the dispatch reads, before the first reply, and all of them.
Waiting  == {"none", "queued", "first"}
Early    == Waiting \cup {"line", "g65", "guard", "relay"}
StValue  == Early \cup {"challenge", "verify", "serve", "compiling", "tarpc", "closed"}
ConnValue == {"new", "open", "half", "gone"}
Work     == {"quick", "compile", "negotiate"}
LineType == [kind : {"offer", "hello", "proof", "request", "frame"}, id : Nat,
             work : Work \cup {"none"}, first : {"brace", "blank", "P"}]
Piece    == [line : LineType, part : {"head", "tail", "all"}]
ReplyKind == {"tarpc", "jsonrpc", "ServerHello", "Complete", "failed", "answer",
              "refused", "deadline", "parse error"}
ReplyType == [kind : ReplyKind, id : Nat]

TypeInv ==
    /\ prof \in [Peer -> Profile]
    /\ srv \in [prod : BOOLEAN, tarpc : BOOLEAN]
    /\ sent \in [Peer -> Nat]
    /\ conn \in [Peer -> ConnValue]
    /\ in \in [Peer -> Seq(Piece)]
    /\ out \in [Peer -> Seq(ReplyType)]
    /\ st \in [Peer -> StValue]
    /\ queue \in [Listener -> Seq(Peer)]
    /\ busy \in [Listener -> Peer \cup {NoPeer}]
    /\ pend \in [Peer -> SUBSET LineType]
    /\ pool \in Seq([peer : Peer, id : Nat])

\* The lines of a peer before its first request.
Intros(f) == IF f.speaks = "g65" THEN 1 ELSE IF f.speaks = "btsp" THEN 2 ELSE 0

\* The line a piece belongs to: the first line is sent in two.
LineNo(n) == IF n = 1 THEN 1 ELSE n - 1

\* What the k-th line of a peer of profile f is, whatever its framing.
IsLine(f, k, line) ==
    /\ line.id = IF k > Intros(f) THEN k - Intros(f) ELSE 0
    /\ line.kind \in {"request", "frame"} <=> k > Intros(f)
    /\ line.kind = "hello" <=> f.speaks = "btsp" /\ k = 1
    /\ line.first = IF k = 1 THEN f.first ELSE "brace"

\* The unread pieces s of a peer that has sent n: the last ones it has sent.
Wire(f, n, s) ==
    /\ Len(s) <= n
    /\ \A i \in 1..Len(s) :
          /\ IsLine(f, LineNo(n - Len(s) + i), s[i].line)
          /\ s[i].part = "head" <=> n - Len(s) + i = 1
          /\ s[i].part = "tail" => n - Len(s) + i = 2

\* The lines of a peer that were read to their end, and the requests among them.
Consumed(n, s) == IF n > Len(s) THEN n - Len(s) - 1 ELSE 0
Asked(f, n, s) == IF Consumed(n, s) > Intros(f) THEN Consumed(n, s) - Intros(f) ELSE 0

\* What replies o told a peer to speak.
ToldOf(o) == IF o # <<>> /\ o[1].kind \in {"tarpc", "jsonrpc"} THEN o[1].kind ELSE "none"

\* Everything unread is a tarpc frame; nothing is.
Frames(s)   == \A i \in 1..Len(s) : s[i].line.kind = "frame"
NoFrames(s) == \A i \in 1..Len(s) : s[i].line.kind # "frame"

\* A first line that begins with a brace is not torn: its first byte is unread,
\* or the line was put back.
Whole(f, n, s) == f.first = "brace" /\ n = Len(s) + 1 => s # <<>> /\ s[1].part = "all"

\* How far the server is with a connection at stage x, whose peer has profile f,
\* has sent n pieces, of which s are unread, and got the replies o.
Staged(f, n, k, s, o, x) ==
    /\ k = "new" => x = "none" /\ n = 0
    /\ x \in Early => o = <<>>
    /\ x \in Waiting => Len(s) = n
    /\ x = "line" => /\ f.on = "tcp" => Len(s) = n
                     /\ f.on = "uds" => Len(s) + 1 = n
    /\ x = "g65" => f.speaks = "g65" /\ Len(s) < n
    /\ x \in {"relay", "challenge", "verify"} => f.speaks = "btsp"
    /\ Len(o) < Intros(f) => n <= Len(o) + 2
    /\ x = "tarpc" => ToldOf(o) = "tarpc" /\ Frames(s) /\ f.speaks = "g65" /\ n >= 2
    /\ x \notin {"tarpc", "closed"} => ToldOf(o) # "tarpc" /\ NoFrames(s)
    /\ x \in {"guard", "serve", "compiling"} => Whole(f, n, s)

\* How many of the first n replies, and of all, answer a request.
Count(o, n) == Cardinality({i \in 1..n : o[i].id > 0})
Answered(o) == Count(o, Len(o))

\* The lines that were read and whose reply is still to come.
Owed(x, p) == IF x \in {"relay", "verify", "compiling"} THEN 1 ELSE Cardinality(p)

\* How many replies there are, and to what.
Served(f, n, s, o, x, p) ==
    /\ Len(o) + Owed(x, p) <= Consumed(n, s) + (IF x = "closed" /\ n = 1 THEN 1 ELSE 0)
    /\ x \in {"challenge", "verify"} => Len(o) = 1
    /\ IsFiniteSet(p) /\ (p # {} => x = "tarpc")
    /\ x \notin {"compiling", "tarpc", "closed"} => Answered(o) = Asked(f, n, s)
    /\ x = "compiling" => Answered(o) + 1 = Asked(f, n, s)

\* The requests in flight over tarpc, those still to come and those answered
\* are all different.
InFlight(f, n, s, o, x, p) ==
    x = "tarpc" =>
        /\ \A r \in p : r.id > 0 /\ r.id <= Asked(f, n, s)
        /\ \A q, r \in p : q.id = r.id => q = r
        /\ \A i \in 1..Len(o) : o[i].id <= Asked(f, n, s) /\ \A r \in p : r.id # o[i].id

\* The replies o are in order.
Orderly(o) ==
    \A i \in 1..Len(o) : o[i].id > 0 =>
        IF ToldOf(o) # "tarpc" THEN o[i].id = Count(o, i)
        ELSE \A j \in 1..(i - 1) : o[j].id # o[i].id

\* A parse error goes only to a peer that broke off within its first line.
ErrorFree(f, n, o, x) ==
    f.speaks = "jsonrpc" /\ ~(x = "closed" /\ n = 1) =>
        \A i \in 1..Len(o) : o[i].kind # "parse error"

\* The invariant of one connection.
Good(f, n, k, s, o, x, p) ==
    /\ Wire(f, n, s) /\ Orderly(o) /\ Staged(f, n, k, s, o, x)
    /\ Served(f, n, s, o, x, p) /\ InFlight(f, n, s, o, x, p) /\ ErrorFree(f, n, o, x)

PeerInv(c) == Good(prof[c], sent[c], conn[c], in[c], out[c], st[c], pend[c])

\* A backlog holds the connections that no accept loop has taken, each once.
Queued ==
    /\ \A l \in Listener : \A i \in 1..Len(queue[l]) : st[queue[l][i]] = "queued"
    /\ \A l, m \in Listener : \A i \in 1..Len(queue[l]), j \in 1..Len(queue[m]) :
          queue[l][i] = queue[m][j] => l = m /\ i = j

\* A compilation whose caller waits for it is the caller's only one.
Pooled ==
    \A i \in 1..Len(pool) :
        /\ st[pool[i].peer] \in {"compiling", "tarpc", "closed"}
        /\ st[pool[i].peer] = "compiling" =>
              /\ pool[i].id = Asked(prof[pool[i].peer], sent[pool[i].peer], in[pool[i].peer])
              /\ \A j \in 1..Len(pool) : pool[j].peer = pool[i].peer => j = i

\* The inductive invariant.
Inv == TypeInv /\ Queued /\ Pooled /\ \A c \in Peer : PeerInv(c)
----------------------------------------------------------------------------
(* Lines, pieces and replies.                                              *)

\* t is what is left of s when the first k pieces are read.
Dropped(s, t, k) ==
    /\ t \in Seq(Piece) /\ Len(t) = Len(s) - k
    /\ \A i \in 1..Len(t) : t[i] = s[i + k]

\* A suffix of the unread pieces.
LEMMA SuffixDropped ==
    ASSUME NEW s \in Seq(Piece), NEW k \in 0..Len(s)
    PROVE  Dropped(s, SubSeq(s, k + 1, Len(s)), k)
<1>1. Len(s) \in Nat /\ \A i \in (k + 1)..Len(s) : s[i] \in Piece
      BY LenProperties, ElementOfSeq
<1>2. /\ SubSeq(s, k + 1, Len(s)) \in Seq(Piece)
      /\ Len(SubSeq(s, k + 1, Len(s))) = IF k + 1 <= Len(s) THEN Len(s) - (k + 1) + 1 ELSE 0
      /\ \A i \in 1..(Len(s) - (k + 1) + 1) : SubSeq(s, k + 1, Len(s))[i] = s[k + 1 + i - 1]
      BY <1>1, SubSeqProperties
<1> QED BY <1>1, <1>2 DEF Dropped

\* What is unread when one piece is read (the first byte, or a tarpc frame).
LEMMA TailDropped ==
    ASSUME NEW s \in Seq(Piece), s # <<>>
    PROVE  Dropped(s, Tail(s), 1) /\ Head(s) = s[1] /\ Len(s) >= 1
BY HeadTailProperties, EmptySeq, LenProperties DEF Dropped

\* Reading pieces keeps the rest in step with what was sent.
LEMMA DropWire ==
    ASSUME NEW f, NEW n \in Nat, NEW s \in Seq(Piece), NEW t, NEW k \in 0..Len(s),
           Wire(f, n, s), Dropped(s, t, k)
    PROVE  Wire(f, n, t)
<1>1. Len(s) \in Nat /\ Len(t) \in Nat /\ Len(t) = Len(s) - k
      BY LenProperties DEF Dropped
<1>2. ASSUME NEW i \in 1..Len(t)
      PROVE  i + k \in 1..Len(s) /\ t[i] = s[i + k] /\ n - Len(t) + i = n - Len(s) + (i + k)
      BY <1>1 DEF Dropped
<1>3. ASSUME NEW i \in 1..Len(t)
      PROVE  /\ IsLine(f, LineNo(n - Len(t) + i), t[i].line)
             /\ t[i].part = "head" <=> n - Len(t) + i = 1
             /\ t[i].part = "tail" => n - Len(t) + i = 2
  <2>1. /\ IsLine(f, LineNo(n - Len(s) + (i + k)), s[i + k].line)
        /\ s[i + k].part = "head" <=> n - Len(s) + (i + k) = 1
        /\ s[i + k].part = "tail" => n - Len(s) + (i + k) = 2
        BY <1>2 DEF Wire
  <2> QED BY <1>2, <2>1
<1>4. Len(t) <= n
      BY <1>1 DEF Wire
<1> QED BY <1>3, <1>4 DEF Wire

\* Every profile has its fields.
LEMMA ProfileFields ==
    ASSUME NEW f \in Profile
    PROVE  /\ f.on \in {"uds", "tcp"} /\ f.speaks \in {"jsonrpc", "g65", "btsp"}
           /\ f.first \in {"brace", "blank", "P"}
           /\ f.first = "P" <=> f.speaks = "g65"
           /\ f.speaks = "btsp" => f.first = "brace"
           /\ f.offers \in Seq({"tarpc", "jsonrpc"}) /\ f.work \in Seq(Work)
           /\ Intros(f) \in 0..2
BY ProfileAssumption DEF Work, Intros

\* What a peer would like to send.
LEMMA LinesAre ==
    ASSUME TypeInv, NEW c \in Peer
    PROVE  /\ Len(Lines(c)) \in Nat /\ Len(Intro(c)) = Intros(prof[c])
           /\ \A n \in 1..Len(Lines(c)) :
                 /\ Lines(c)[n] \in LineType /\ IsLine(prof[c], n, Lines(c)[n])
                 /\ Lines(c)[n].kind = "frame" <=> n > Intros(prof[c]) /\ Told(c) = "tarpc"
<1> DEFINE f == prof[c]
           req(i) == Line(IF Framing(c) = "frame" THEN "frame" ELSE "request", i, f.work[i],
                          IF i = 1 /\ Intro(c) = <<>> THEN f.first ELSE "brace")
           reqs == [i \in DOMAIN f.work |-> req(i)]
<1>1. f \in Profile
      BY DEF TypeInv
<1>2. /\ f.speaks \in {"jsonrpc", "g65", "btsp"} /\ f.first \in {"brace", "blank", "P"}
      /\ f.first = "P" <=> f.speaks = "g65"
      /\ f.speaks = "btsp" => f.first = "brace"
      /\ f.work \in Seq(Work)
      BY <1>1, ProfileFields
<1>3. Len(f.work) \in Nat /\ DOMAIN f.work = 1..Len(f.work)
      /\ \A i \in 1..Len(f.work) : f.work[i] \in Work
      BY <1>2, LenProperties, ElementOfSeq
<1>4. \A i \in 1..Len(f.work) : req(i) \in LineType
      BY <1>2, <1>3 DEF Line, LineType
<1>5. reqs \in [1..Len(f.work) -> LineType]
      BY <1>3, <1>4
<1>6. reqs \in Seq(LineType) /\ Len(reqs) = Len(f.work)
      BY <1>3, <1>5
<1>7. /\ f.speaks = "g65" => Intro(c) = <<Line("offer", 0, "none", "P")>>
      /\ f.speaks = "btsp" => Intro(c) = <<Line("hello", 0, "none", "brace"),
                                           Line("proof", 0, "none", "brace")>>
      /\ f.speaks = "jsonrpc" => Intro(c) = <<>>
      BY DEF Intro
<1>8. Line("offer", 0, "none", "P") \in LineType /\ Line("hello", 0, "none", "brace") \in LineType
      /\ Line("proof", 0, "none", "brace") \in LineType
      BY DEF Line, LineType, Work
<1>9. Intro(c) \in Seq(LineType) /\ Len(Intro(c)) = Intros(f)
  <2>1. CASE f.speaks = "g65"
    <3> HIDE DEF f
    <3>1. Intros(f) = 1
          BY <2>1 DEF Intros
    <3>2. ASSUME NEW a \in LineType PROVE <<a>> \in Seq(LineType) /\ Len(<<a>>) = 1
          OBVIOUS
    <3> QED BY <1>7, <1>8, <2>1, <3>1, <3>2
  <2>2. CASE f.speaks = "btsp"
    <3>1. f.speaks # "g65"
          BY <2>2
    <3> HIDE DEF f
    <3>2. Intros(f) = 2
          BY <2>2, <3>1 DEF Intros
    <3>3. ASSUME NEW a \in LineType, NEW b \in LineType
          PROVE  <<a, b>> \in Seq(LineType) /\ Len(<<a, b>>) = 2
          OBVIOUS
    <3> QED BY <1>7, <1>8, <2>2, <3>2, <3>3
  <2>3. CASE f.speaks = "jsonrpc"
        BY <1>7, <2>3, EmptySeq DEF Intros
  <2> QED BY <1>2, <2>1, <2>2, <2>3
<1>10. Lines(c) = Intro(c) \o reqs
      BY DEF Lines
<1>11. /\ Lines(c) \in Seq(LineType) /\ Len(Lines(c)) = Len(Intro(c)) + Len(reqs)
       /\ \A i \in 1..(Len(Intro(c)) + Len(reqs)) :
             Lines(c)[i] = IF i <= Len(Intro(c)) THEN Intro(c)[i] ELSE reqs[i - Len(Intro(c))]
  <2> HIDE DEF reqs
  <2>1. /\ Intro(c) \o reqs \in Seq(LineType)
        /\ Len(Intro(c) \o reqs) = Len(Intro(c)) + Len(reqs)
        /\ \A i \in 1..(Len(Intro(c)) + Len(reqs)) : (Intro(c) \o reqs)[i] =
              IF i <= Len(Intro(c)) THEN Intro(c)[i] ELSE reqs[i - Len(Intro(c))]
        BY <1>6, <1>9, ConcatProperties
  <2> QED BY <1>10, <2>1
<1>12. Len(Lines(c)) \in Nat
       BY <1>11, LenProperties
<1> SUFFICES ASSUME NEW n \in 1..Len(Lines(c))
             PROVE  /\ Lines(c)[n] \in LineType /\ IsLine(f, n, Lines(c)[n])
                    /\ Lines(c)[n].kind = "frame" <=> n > Intros(f) /\ Told(c) = "tarpc"
    BY <1>9, <1>12
<1>13. /\ Len(Lines(c)) = Intros(f) + Len(f.work)
       /\ Lines(c)[n] = IF n <= Intros(f) THEN Intro(c)[n] ELSE reqs[n - Intros(f)]
  <2>1. Intros(f) \in Nat
        BY DEF Intros
  <2> HIDE DEF reqs, f
  <2>2. Len(Lines(c)) = Intros(f) + Len(f.work) /\ n \in 1..(Len(Intro(c)) + Len(reqs))
        BY <1>6, <1>9, <1>11
  <2> QED BY <1>3, <1>6, <1>9, <1>11, <2>1, <2>2
<1>14. Lines(c)[n] \in LineType
       BY <1>11, ElementOfSeq
<1>15. CASE n <= Intros(f)
  <2>1. Lines(c)[n] = Intro(c)[n] /\ n \in {1, 2}
        BY <1>13, <1>15 DEF Intros
  <2>2. CASE f.speaks = "g65"
        BY <1>2, <1>7, <1>9, <1>14, <1>15, <2>1, <2>2 DEF IsLine, Intros, Line
  <2>3. CASE f.speaks = "btsp"
        BY <1>2, <1>7, <1>9, <1>14, <1>15, <2>1, <2>3 DEF IsLine, Intros, Line
  <2>4. f.speaks # "jsonrpc"
        BY <1>15 DEF Intros
  <2> QED BY <1>2, <2>2, <2>3, <2>4
<1>16. CASE n > Intros(f)
  <2>1. n - Intros(f) \in 1..Len(f.work) /\ n \in Nat /\ Intros(f) \in Nat
    <3>1. Intros(f) \in Nat
          BY DEF Intros
    <3> HIDE DEF f
    <3> QED BY <1>3, <1>13, <1>16, <3>1
  <2>2. Lines(c)[n] = req(n - Intros(f))
    <3>1. Lines(c)[n] = reqs[n - Intros(f)]
          BY <1>13, <1>16, <2>1
    <3> QED BY <1>3, <2>1, <3>1, Zenon
  <2>3. /\ Lines(c)[n].id = n - Intros(f)
        /\ Lines(c)[n].kind = IF Framing(c) = "frame" THEN "frame" ELSE "request"
        /\ Lines(c)[n].first = IF n - Intros(f) = 1 /\ Intro(c) = <<>> THEN f.first ELSE "brace"
        BY <2>2 DEF Line
  <2>4. Intro(c) = <<>> <=> Intros(f) = 0
        BY <1>9, EmptySeq
  <2>5. Lines(c)[n].first = IF n = 1 THEN f.first ELSE "brace"
        BY <2>1, <2>3, <2>4, <1>16
  <2>6. f.speaks = "btsp" => n # 1
        BY <1>16, <2>1 DEF Intros
  <2> QED BY <1>9, <1>14, <1>16, <2>1, <2>3, <2>5, <2>6 DEF IsLine, Framing
<1> QED BY <1>3, <1>13, <1>15, <1>16, ProfileFields, <1>1

\* Answers are counted reply by reply.
LEMMA CountStep ==
    ASSUME NEW o \in Seq(ReplyType), NEW r \in ReplyType
    PROVE  /\ \A n \in 0..Len(o) : Count(o, n) \in Nat /\ Count(Append(o, r), n) = Count(o, n)
           /\ Count(Append(o, r), Len(o) + 1) = Answered(o) + (IF r.id > 0 THEN 1 ELSE 0)
<1> DEFINE p == Append(o, r)
<1>1. /\ p \in Seq(ReplyType) /\ Len(p) = Len(o) + 1 /\ Len(o) \in Nat
      /\ \A i \in 1..Len(o) : p[i] = o[i]
      /\ p[Len(o) + 1] = r /\ r.id \in Nat
      BY AppendProperties, LenProperties DEF ReplyType
<1> HIDE DEF p
<1>2. ASSUME NEW n \in 0..Len(o)
      PROVE  IsFiniteSet({i \in 1..n : o[i].id > 0}) /\ Count(o, n) \in Nat
  <2>1. IsFiniteSet(1..n)
        BY <1>1, FS_Interval
  <2>2. {i \in 1..n : o[i].id > 0} \in SUBSET (1..n)
        OBVIOUS
  <2>3. IsFiniteSet({i \in 1..n : o[i].id > 0})
        BY <2>1, <2>2, FS_Subset
  <2> QED BY <2>3, FS_CardinalityType DEF Count
<1>3. ASSUME NEW n \in 0..Len(o) PROVE Count(p, n) = Count(o, n)
  <2>1. {i \in 1..n : p[i].id > 0} = {i \in 1..n : o[i].id > 0}
        BY <1>1
  <2> QED BY <2>1 DEF Count
<1>4. Count(p, Len(o) + 1) = Answered(o) + (IF r.id > 0 THEN 1 ELSE 0)
  <2> DEFINE A == {i \in 1..Len(o) : o[i].id > 0}
             B == {i \in 1..(Len(o) + 1) : p[i].id > 0}
  <2>1. Cardinality(A) = Answered(o) /\ Cardinality(B) = Count(p, Len(o) + 1)
        BY DEF Answered, Count
  <2>2. Len(o) \in 0..Len(o)
        BY <1>1
  <2>3. IsFiniteSet(A) /\ Answered(o) \in Nat
        BY <1>2, <2>2 DEF Answered
  <2>4. CASE r.id > 0
    <3>1. B = A \cup {Len(o) + 1} /\ Len(o) + 1 \notin A
          BY <1>1, <2>4
    <3> QED BY <2>1, <2>4, <2>3, <3>1, FS_AddElement
  <2>5. CASE ~(r.id > 0)
    <3>1. B = A
          BY <1>1, <2>5
    <3>2. Count(p, Len(o) + 1) = Answered(o)
          BY <2>1, <3>1, Zenon
    <3> QED BY <2>3, <2>5, <3>2
  <2> QED BY <2>4, <2>5
<1> QED BY <1>2, <1>3, <1>4 DEF p

\* A further reply changes what the peer was told only when it is the first.
LEMMA ToldStep ==
    ASSUME NEW o \in Seq(ReplyType), NEW r \in ReplyType
    PROVE  /\ o # <<>> => ToldOf(Append(o, r)) = ToldOf(o)
           /\ r.kind # "tarpc" /\ ToldOf(o) # "tarpc" => ToldOf(Append(o, r)) # "tarpc"
           /\ o = <<>> /\ r.kind = "tarpc" => ToldOf(Append(o, r)) = "tarpc"
<1>1. /\ Append(o, r) # <<>> /\ Len(o) \in Nat /\ (o = <<>> <=> Len(o) = 0)
      /\ \A i \in 1..Len(o) : Append(o, r)[i] = o[i]
      /\ Append(o, r)[Len(o) + 1] = r
      BY AppendProperties, LenProperties, EmptySeq
<1>2. o # <<>> => Append(o, r)[1] = o[1]
      BY <1>1
<1>3. o = <<>> => Append(o, r)[1] = r
      BY <1>1
<1> QED BY <1>1, <1>2, <1>3 DEF ToldOf

\* What the next reply may be.
LEMMA OrderlyStep ==
    ASSUME NEW o \in Seq(ReplyType), NEW r \in ReplyType, Orderly(o),
           \/ r.id = 0
           \/ ToldOf(o) # "tarpc" /\ r.kind # "tarpc" /\ r.id = Answered(o) + 1
           \/ ToldOf(o) = "tarpc" /\ \A i \in 1..Len(o) : o[i].id # r.id,
           o = <<>> \/ r.kind # "tarpc"
    PROVE  Orderly(Append(o, r))
<1> DEFINE p == Append(o, r)
<1>1. /\ p \in Seq(ReplyType) /\ Len(p) = Len(o) + 1 /\ Len(o) \in Nat
      /\ \A i \in 1..Len(o) : p[i] = o[i]
      /\ p[Len(o) + 1] = r /\ r.id \in Nat
      /\ o = <<>> <=> Len(o) = 0
      BY AppendProperties, LenProperties, EmptySeq DEF ReplyType
<1>2. /\ \A n \in 0..Len(o) : Count(p, n) = Count(o, n)
      /\ Count(p, Len(o) + 1) = Answered(o) + (IF r.id > 0 THEN 1 ELSE 0)
      BY CountStep
<1>3. o # <<>> => ToldOf(p) = ToldOf(o)
      BY ToldStep
<1>4. ToldOf(o) # "tarpc" /\ r.kind # "tarpc" => ToldOf(p) # "tarpc"
      BY ToldStep
<1>5. ToldOf(o) = "tarpc" => o # <<>>
      BY DEF ToldOf
<1> HIDE DEF p
<1> SUFFICES ASSUME NEW i \in 1..(Len(o) + 1), p[i].id > 0
             PROVE  IF ToldOf(p) # "tarpc" THEN p[i].id = Count(p, i)
                    ELSE \A j \in 1..(i - 1) : p[j].id # p[i].id
    BY <1>1 DEF Orderly, p
<1>6. CASE i \in 1..Len(o)
  <2>1. o # <<>> /\ p[i] = o[i] /\ i \in 0..Len(o) /\ \A j \in 1..(i - 1) : p[j] = o[j]
        BY <1>1, <1>6
  <2>2. IF ToldOf(o) # "tarpc" THEN o[i].id = Count(o, i)
        ELSE \A j \in 1..(i - 1) : o[j].id # o[i].id
        BY <1>6, <2>1 DEF Orderly
  <2> QED BY <1>2, <1>3, <2>1, <2>2
<1>7. CASE i = Len(o) + 1
  <2>1. r.id > 0 /\ p[i] = r
        BY <1>1, <1>7
  <2>2. CASE ToldOf(o) # "tarpc" /\ r.kind # "tarpc" /\ r.id = Answered(o) + 1
        BY <1>2, <1>4, <1>7, <2>1, <2>2
  <2>3. CASE ToldOf(o) = "tarpc" /\ \A j \in 1..Len(o) : o[j].id # r.id
        BY <1>1, <1>3, <1>5, <1>7, <2>1, <2>3
  <2> QED BY <2>1, <2>2, <2>3
<1> QED BY <1>1, <1>6, <1>7
----------------------------------------------------------------------------
(* What a step does to the input of a peer.                                *)

\* A piece on the wire.
PieceOf(line, part) == [line |-> line, part |-> part]

\* A peer sends its next piece.
LEMMA SendWire ==
    ASSUME NEW f \in Profile, NEW n \in Nat, NEW s \in Seq(Piece), NEW line \in LineType,
           NEW part \in {"head", "tail", "all"},
           Wire(f, n, s), IsLine(f, LineNo(n + 1), line),
           part = "head" <=> n = 0, part = "tail" => n = 1
    PROVE  /\ Wire(f, n + 1, Append(s, PieceOf(line, part)))
           /\ Append(s, PieceOf(line, part)) \in Seq(Piece)
           /\ Consumed(n + 1, Append(s, PieceOf(line, part))) = Consumed(n, s)
<1> DEFINE e == PieceOf(line, part)
           t == Append(s, e)
<1>1. e \in Piece /\ e.line = line /\ e.part = part
      BY DEF Piece, PieceOf
<1> HIDE DEF e
<1>2. /\ t \in Seq(Piece) /\ Len(t) = Len(s) + 1 /\ Len(s) \in Nat
      /\ \A i \in 1..Len(s) : t[i] = s[i]
      /\ t[Len(s) + 1] = e
      BY <1>1, AppendProperties, LenProperties
<1> HIDE DEF t
<1>3. Len(s) <= n
      BY DEF Wire
<1>4. ASSUME NEW i \in 1..(Len(s) + 1)
      PROVE  /\ IsLine(f, LineNo(n + 1 - Len(t) + i), t[i].line)
             /\ t[i].part = "head" <=> n + 1 - Len(t) + i = 1
             /\ t[i].part = "tail" => n + 1 - Len(t) + i = 2
  <2>1. n + 1 - Len(t) + i = n - Len(s) + i
        BY <1>2
  <2>2. CASE i \in 1..Len(s)
    <3>1. /\ IsLine(f, LineNo(n - Len(s) + i), s[i].line)
          /\ s[i].part = "head" <=> n - Len(s) + i = 1
          /\ s[i].part = "tail" => n - Len(s) + i = 2
          BY <2>2 DEF Wire
    <3> QED BY <1>2, <2>1, <2>2, <3>1
  <2>3. CASE i = Len(s) + 1
    <3>1. n - Len(s) + i = n + 1 /\ t[i] = e
          BY <1>2, <2>3
    <3> QED BY <1>1, <2>1, <3>1
  <2> QED BY <1>2, <2>2, <2>3
<1>5. Wire(f, n + 1, t)
      BY <1>2, <1>3, <1>4 DEF Wire
<1>6. Consumed(n + 1, t) = Consumed(n, s)
      BY <1>2, <1>3 DEF Consumed
<1> QED BY <1>2, <1>5, <1>6 DEF t, e

\* The server reads a line to its end: a whole one, or what is left of it.
Reads(n, s, t) ==
    /\ Len(t) + 2 <= n /\ Len(t) < Len(s)
    /\ \/ Dropped(s, t, 1) /\ s[1].part # "head"
       \/ Dropped(s, t, 2) /\ s[1].part = "head"

\* A line that read_line or next_line returns is the next one of the peer.
LEMMA LineRead ==
    ASSUME TypeInv, NEW c \in Peer, Wire(prof[c], sent[c], in[c]), HasLine(c)
    PROVE  /\ AfterLine(c) \in Seq(Piece) /\ Reads(sent[c], in[c], AfterLine(c))
           /\ Wire(prof[c], sent[c], AfterLine(c))
           /\ Consumed(sent[c], AfterLine(c)) = Consumed(sent[c], in[c]) + 1
           /\ Consumed(sent[c], in[c]) \in Nat
           /\ in[c] # <<>> /\ Head(in[c]) = in[c][1] /\ in[c][1] \in Piece
           /\ IsLine(prof[c], Consumed(sent[c], in[c]) + 1, FirstLineOf(c))
           /\ FirstLineOf(c) \in LineType /\ FirstLineOf(c) = in[c][1].line
           /\ in[c][1].part = "tail" => sent[c] = Len(in[c]) + 1
<1> DEFINE s == in[c]
           n == sent[c]
           t == AfterLine(c)
<1>1. s \in Seq(Piece) /\ n \in Nat /\ prof[c] \in Profile
      BY DEF TypeInv
<1>2. s # <<>> /\ (Head(s).part = "head" => Len(s) > 1)
      BY DEF HasLine
<1>3. Head(s) = s[1] /\ Len(s) >= 1 /\ Len(s) \in Nat /\ Dropped(s, Tail(s), 1)
      BY <1>1, <1>2, TailDropped, LenProperties
<1>4. s[1] \in Piece /\ s[1].line \in LineType
  <2>1. 1 \in 1..Len(s)
        BY <1>3
  <2>2. s[1] \in Piece
        BY <1>1, <2>1, ElementOfSeq
  <2> QED BY <2>2 DEF Piece
<1>5. Len(s) <= n
      BY DEF Wire
<1>6. /\ IsLine(prof[c], LineNo(n - Len(s) + 1), s[1].line)
      /\ s[1].part = "head" <=> n - Len(s) + 1 = 1
      /\ s[1].part = "tail" => n - Len(s) + 1 = 2
      BY <1>3 DEF Wire
<1>7. CASE s[1].part = "head"
  <2>1. n = Len(s) /\ 2 \in 0..Len(s)
        BY <1>1, <1>2, <1>3, <1>5, <1>6, <1>7
  <2>2. t = SubSeq(s, 3, Len(s))
        BY <1>3, <1>7 DEF AfterLine
  <2>3. Dropped(s, t, 2)
    <3>1. Dropped(s, SubSeq(s, 2 + 1, Len(s)), 2)
          BY <1>1, <2>1, SuffixDropped
    <3>2. 2 + 1 = 3
          OBVIOUS
    <3> HIDE DEF s
    <3> QED BY <2>2, <3>1, <3>2
  <2>4. Wire(prof[c], n, t)
        BY <1>1, <2>1, <2>3, DropWire
  <2>5. Len(t) = Len(s) - 2 /\ t \in Seq(Piece)
        BY <2>3 DEF Dropped
  <2> HIDE DEF t, n, s
  <2>6. Consumed(n, t) = 1 /\ Consumed(n, s) = 0 /\ LineNo(n - Len(s) + 1) = 1
        BY <1>1, <1>3, <2>1, <2>5 DEF Consumed, LineNo
  <2>7. Reads(n, s, t)
        BY <1>1, <1>3, <1>7, <2>1, <2>3, <2>5 DEF Reads
  <2> QED BY <1>2, <1>3, <1>4, <1>6, <1>7, <2>4, <2>5, <2>6, <2>7 DEF FirstLineOf, n, s, t
<1>8. CASE s[1].part # "head"
  <2>1. n >= Len(s) + 1 /\ 1 \in 0..Len(s)
    <3> HIDE DEF n, s
    <3>1. n - Len(s) + 1 # 1
          BY <1>6, <1>8
    <3> QED BY <1>1, <1>3, <1>5, <3>1
  <2>2. t = SubSeq(s, 2, Len(s))
    <3>1. Head(in[c]).part # "head"
          BY <1>3, <1>8
    <3> QED BY <3>1, Zenon DEF AfterLine
  <2>3. Dropped(s, t, 1)
    <3>1. Dropped(s, SubSeq(s, 1 + 1, Len(s)), 1)
          BY <1>1, <2>1, SuffixDropped
    <3>2. 1 + 1 = 2
          OBVIOUS
    <3> HIDE DEF s
    <3> QED BY <2>2, <3>1, <3>2
  <2>4. Wire(prof[c], n, t)
        BY <1>1, <2>1, <2>3, DropWire
  <2>5. Len(t) = Len(s) - 1 /\ t \in Seq(Piece)
        BY <2>3 DEF Dropped
  <2> HIDE DEF t, n, s
  <2>6. /\ Consumed(n, t) = Consumed(n, s) + 1 /\ Consumed(n, s) \in Nat
        /\ LineNo(n - Len(s) + 1) = Consumed(n, s) + 1
        BY <1>1, <1>3, <2>1, <2>5 DEF Consumed, LineNo
  <2>7. Reads(n, s, t)
        BY <1>1, <1>3, <1>8, <2>1, <2>3, <2>5 DEF Reads
  <2>8. s[1].part = "tail" => n = Len(s) + 1
        BY <1>1, <1>3, <1>6
  <2> QED BY <1>2, <1>3, <1>4, <1>6, <2>4, <2>5, <2>6, <2>7, <2>8 DEF FirstLineOf, n, s, t
<1> QED BY <1>7, <1>8

\* LinePrefixed puts the line back that was read to recognise the peer.
LEMMA LinePutBack ==
    ASSUME TypeInv, NEW c \in Peer, Wire(prof[c], sent[c], in[c]), HasLine(c)
    PROVE  /\ Reinject(c) \in Seq(Piece) /\ Wire(prof[c], sent[c], Reinject(c))
           /\ Consumed(sent[c], Reinject(c)) = Consumed(sent[c], in[c])
           /\ Reinject(c) # <<>> /\ Reinject(c)[1].part = "all"
           /\ NoFrames(in[c]) => NoFrames(Reinject(c))
<1> DEFINE n == sent[c]
           s == in[c]
           a == AfterLine(c)
           e == [line |-> FirstLineOf(c), part |-> "all"]
           t == Reinject(c)
<1>1. n \in Nat /\ s \in Seq(Piece) /\ Len(s) \in Nat /\ a \in Seq(Piece) /\ Len(a) \in Nat
      BY LineRead, LenProperties DEF TypeInv
<1>2. Len(a) + 2 <= n /\ Reads(n, s, a)
      BY LineRead DEF Reads
<1>3. /\ Wire(prof[c], n, a) /\ Consumed(n, a) = Consumed(n, s) + 1 /\ Consumed(n, s) \in Nat
      /\ IsLine(prof[c], Consumed(n, s) + 1, FirstLineOf(c))
      /\ FirstLineOf(c) \in LineType /\ FirstLineOf(c) = s[1].line /\ s # <<>>
      BY LineRead
<1>4. e \in Piece /\ e.part = "all" /\ e.line = FirstLineOf(c)
      BY <1>3 DEF Piece
<1>5. t = <<e>> \o a
      BY DEF Reinject
<1> HIDE DEF e, a
<1>6. <<e>> \in Seq(Piece) /\ Len(<<e>>) = 1 /\ <<e>>[1] = e
      BY <1>4
<1>7. /\ <<e>> \o a \in Seq(Piece) /\ Len(<<e>> \o a) = Len(<<e>>) + Len(a)
      /\ \A i \in 1..(Len(<<e>>) + Len(a)) :
            (<<e>> \o a)[i] = IF i <= Len(<<e>>) THEN <<e>>[i] ELSE a[i - Len(<<e>>)]
      BY <1>1, <1>6, ConcatProperties
<1>8. /\ t \in Seq(Piece) /\ Len(t) = 1 + Len(a) /\ t[1] = e
      /\ \A i \in 2..Len(t) : t[i] = a[i - 1]
      BY <1>1, <1>5, <1>6, <1>7
<1> HIDE DEF n, s, t
<1>9. Consumed(n, t) = Consumed(n, s) /\ n - Len(t) + 1 = Consumed(n, s) + 2
  <2>1. Consumed(n, a) = n - Len(a) - 1
        BY <1>1, <1>2 DEF Consumed
  <2>2. Consumed(n, t) = n - Len(t) - 1
        BY <1>1, <1>2, <1>8 DEF Consumed
  <2> QED BY <1>1, <1>3, <1>8, <2>1, <2>2
<1>10. ASSUME NEW i \in 1..Len(t)
       PROVE  /\ IsLine(prof[c], LineNo(n - Len(t) + i), t[i].line)
              /\ t[i].part = "head" <=> n - Len(t) + i = 1
              /\ t[i].part = "tail" => n - Len(t) + i = 2
  <2>1. CASE i = 1
    <3>1. n - Len(t) + i = Consumed(n, s) + 2 /\ t[i] = e
          BY <1>8, <1>9, <2>1
    <3>2. LineNo(n - Len(t) + i) = Consumed(n, s) + 1 /\ n - Len(t) + i # 1
          BY <1>3, <3>1 DEF LineNo
    <3> QED BY <1>3, <1>4, <3>1, <3>2
  <2>2. CASE i # 1
    <3>1. i \in 2..Len(t) /\ i - 1 \in 1..Len(a) /\ n - Len(t) + i = n - Len(a) + (i - 1)
          BY <1>1, <1>8, <2>2
    <3>2. /\ IsLine(prof[c], LineNo(n - Len(a) + (i - 1)), a[i - 1].line)
          /\ a[i - 1].part = "head" <=> n - Len(a) + (i - 1) = 1
          /\ a[i - 1].part = "tail" => n - Len(a) + (i - 1) = 2
          BY <1>3, <3>1 DEF Wire
    <3> QED BY <1>8, <3>1, <3>2
  <2> QED BY <2>1, <2>2
<1>11. Wire(prof[c], n, t)
  <2>1. Len(t) <= n
        BY <1>1, <1>2, <1>8
  <2> QED BY <1>10, <2>1 DEF Wire
<1>12. ASSUME NoFrames(s) PROVE NoFrames(t)
  <2>1. Len(s) >= 1
        BY <1>1, <1>3, EmptySeq
  <2>2. e.line.kind # "frame"
        BY <1>1, <1>3, <1>4, <1>12, <2>1 DEF NoFrames
  <2>3. PICK k \in {1, 2} : Dropped(s, a, k)
        BY <1>2 DEF Reads
  <2>4. \A i \in 1..Len(a) : a[i].line.kind # "frame"
    <3> SUFFICES ASSUME NEW i \in 1..Len(a) PROVE a[i].line.kind # "frame"
        OBVIOUS
    <3>1. Len(a) = Len(s) - k /\ a[i] = s[i + k]
          BY <2>3 DEF Dropped
    <3>2. i + k \in 1..Len(s)
          BY <1>1, <3>1
    <3> QED BY <1>12, <3>1, <3>2 DEF NoFrames
  <2> SUFFICES ASSUME NEW i \in 1..Len(t) PROVE t[i].line.kind # "frame"
      BY DEF NoFrames
  <2>5. CASE i = 1
        BY <1>8, <2>2, <2>5
  <2>6. CASE i # 1
    <3>1. i \in 2..Len(t) /\ i - 1 \in 1..Len(a)
          BY <1>1, <1>8, <2>6
    <3> QED BY <1>8, <2>4, <3>1
  <2> QED BY <2>5, <2>6
<1>13. t # <<>> /\ t[1].part = "all"
       BY <1>1, <1>4, <1>8, EmptySeq
<1> QED BY <1>8, <1>9, <1>11, <1>12, <1>13 DEF n, s, t
----------------------------------------------------------------------------
(* What the steps of a connection do to its invariant.                     *)

\* The types of what the server keeps of one connection.
Typed(f, n, k, s, o, x, p) ==
    /\ f \in Profile /\ n \in Nat /\ k \in ConnValue /\ s \in Seq(Piece)
    /\ o \in Seq(ReplyType) /\ x \in StValue /\ p \in SUBSET LineType

\* The numbers of the invariant are natural.
LEMMA Numbers ==
    ASSUME NEW f, NEW n, NEW k, NEW s, NEW o, NEW x, NEW p,
           Typed(f, n, k, s, o, x, p), IsFiniteSet(p)
    PROVE  /\ Len(s) \in Nat /\ Len(o) \in Nat /\ n \in Nat /\ Intros(f) \in 0..2
           /\ Consumed(n, s) \in Nat /\ Asked(f, n, s) \in Nat /\ Owed(x, p) \in Nat
           /\ Cardinality(p) \in Nat /\ Answered(o) \in Nat
           /\ o = <<>> <=> Len(o) = 0
           /\ s = <<>> <=> Len(s) = 0
<1>1. /\ Len(s) \in Nat /\ Len(o) \in Nat /\ n \in Nat /\ Intros(f) \in 0..2
      /\ Cardinality(p) \in Nat
      BY LenProperties, FS_CardinalityType DEF Typed, Intros
<1>2. Consumed(n, s) \in Nat
      BY <1>1 DEF Consumed
<1>3. Asked(f, n, s) \in Nat
      BY <1>1, <1>2 DEF Asked
<1>4. Owed(x, p) \in Nat
      BY <1>1 DEF Owed
<1>5. Answered(o) \in Nat
  <2>1. IsFiniteSet(1..Len(o)) /\ {i \in 1..Len(o) : o[i].id > 0} \in SUBSET (1..Len(o))
        BY <1>1, FS_Interval
  <2> QED BY <2>1, FS_Subset, FS_CardinalityType DEF Answered, Count
<1> QED BY <1>1, <1>2, <1>3, <1>4, <1>5, EmptySeq DEF Typed

\* Nothing is in flight on a connection that does not speak tarpc.
LEMMA NoneInFlight ==
    ASSUME NEW f, NEW n, NEW s, NEW o, NEW x, NEW p, Served(f, n, s, o, x, p), x # "tarpc"
    PROVE  p = {} /\ Cardinality(p) = 0 /\ IsFiniteSet(p)
BY FS_EmptySet DEF Served

\* The dispatch goes on, or hands the connection over, without a reply.
LEMMA QuietGood ==
    ASSUME NEW f, NEW n, NEW k, NEW s, NEW o, NEW x, NEW p, NEW t, NEW y,
           Typed(f, n, k, s, o, x, p), Typed(f, n, k, t, o, y, p),
           Good(f, n, k, s, o, x, p), x \notin {"compiling", "tarpc", "closed"},
           Wire(f, n, t), Consumed(n, t) = Consumed(n, s), Staged(f, n, k, t, o, y),
           y \notin {"relay", "challenge", "verify", "compiling", "tarpc"}
    PROVE  Good(f, n, k, t, o, y, p)
<1>1. Served(f, n, s, o, x, p) /\ ErrorFree(f, n, o, x) /\ Orderly(o)
      BY DEF Good
<1>2. p = {} /\ Cardinality(p) = 0 /\ IsFiniteSet(p)
      BY <1>1, NoneInFlight
<1>3. Len(o) \in Nat /\ Consumed(n, s) \in Nat /\ Owed(x, p) \in Nat
      BY <1>2, Numbers
<1>4. Owed(y, p) = 0 /\ Asked(f, n, t) = Asked(f, n, s)
      BY <1>2 DEF Owed, Asked
<1>5. Len(o) + Owed(y, p) <= Consumed(n, t) + (IF y = "closed" /\ n = 1 THEN 1 ELSE 0)
      BY <1>1, <1>3, <1>4 DEF Served
<1>6. Served(f, n, t, o, y, p)
      BY <1>1, <1>2, <1>4, <1>5 DEF Served
<1>7. ErrorFree(f, n, o, y) /\ InFlight(f, n, t, o, y, p)
      BY <1>1 DEF ErrorFree, InFlight
<1> QED BY <1>1, <1>6, <1>7 DEF Good

\* The connection is closed without a further reply.
LEMMA ClosedGood ==
    ASSUME NEW f, NEW n, NEW k, NEW s, NEW o, NEW x, NEW p, NEW t,
           Typed(f, n, k, s, o, x, p), t \in Seq(Piece),
           Good(f, n, k, s, o, x, p), x # "closed", k # "new",
           Wire(f, n, t), Consumed(n, t) >= Consumed(n, s)
    PROVE  Good(f, n, k, t, o, "closed", {})
<1>1. Served(f, n, s, o, x, p) /\ ErrorFree(f, n, o, x) /\ Orderly(o) /\ Staged(f, n, k, s, o, x)
      BY DEF Good
<1>2. /\ Len(o) \in Nat /\ Consumed(n, s) \in Nat /\ Owed(x, p) \in Nat /\ n \in Nat
      /\ Len(t) \in Nat
      BY <1>1, Numbers, LenProperties DEF Served
<1>3. Owed("closed", {}) = 0 /\ IsFiniteSet({})
      BY FS_EmptySet DEF Owed
<1>4. Len(o) <= Consumed(n, s) /\ Consumed(n, t) \in Nat
      BY <1>1, <1>2 DEF Served, Consumed
<1>5. Served(f, n, t, o, "closed", {})
  <2>1. Len(o) + 0 <= Consumed(n, t) + (IF "closed" = "closed" /\ n = 1 THEN 1 ELSE 0)
        BY <1>2, <1>4
  <2> QED BY <1>3, <2>1 DEF Served
<1>6. ErrorFree(f, n, o, "closed") /\ InFlight(f, n, t, o, "closed", {})
      BY <1>1 DEF ErrorFree, InFlight
<1>7. Staged(f, n, k, t, o, "closed")
      BY <1>1 DEF Staged, Early, Waiting
<1> QED BY <1>1, <1>5, <1>6, <1>7 DEF Good

\* A reply r is appended to o.
LEMMA Replied ==
    ASSUME NEW o \in Seq(ReplyType), NEW r \in ReplyType
    PROVE  /\ Append(o, r) \in Seq(ReplyType) /\ Len(Append(o, r)) = Len(o) + 1
           /\ Len(o) \in Nat /\ Append(o, r) # <<>> /\ r.id \in Nat
           /\ \A i \in 1..(Len(o) + 1) :
                 Append(o, r)[i] = IF i <= Len(o) THEN o[i] ELSE r
           /\ Answered(Append(o, r)) = Answered(o) + (IF r.id > 0 THEN 1 ELSE 0)
<1>1. /\ Append(o, r) \in Seq(ReplyType) /\ Len(Append(o, r)) = Len(o) + 1
      /\ Len(o) \in Nat /\ Append(o, r) # <<>> /\ r.id \in Nat
      /\ \A i \in 1..Len(o) : Append(o, r)[i] = o[i]
      /\ Append(o, r)[Len(o) + 1] = r
      BY AppendProperties, LenProperties DEF ReplyType
<1>2. \A i \in 1..(Len(o) + 1) : Append(o, r)[i] = IF i <= Len(o) THEN o[i] ELSE r
  <2> SUFFICES ASSUME NEW i \in 1..(Len(o) + 1)
               PROVE  Append(o, r)[i] = IF i <= Len(o) THEN o[i] ELSE r
      OBVIOUS
  <2>1. CASE i \in 1..Len(o)
        BY <1>1, <2>1
  <2>2. CASE i = Len(o) + 1
        BY <1>1, <2>2
  <2> QED BY <1>1, <2>1, <2>2
<1>3. Answered(Append(o, r)) = Answered(o) + (IF r.id > 0 THEN 1 ELSE 0)
      BY <1>1, CountStep DEF Answered
<1> QED BY <1>1, <1>2, <1>3

\* The peer was expecting few enough replies before r, and it is still so.
LEMMA RepliedStaged ==
    ASSUME NEW f, NEW n, NEW k, NEW s, NEW o, NEW x, NEW r \in ReplyType, NEW t, NEW y,
           f \in Profile, n \in Nat, o \in Seq(ReplyType), t \in Seq(Piece),
           Staged(f, n, k, s, o, x), k # "new",
           x \notin {"tarpc", "closed"}, r.kind # "tarpc", NoFrames(t),
           \/ y = "closed"
           \/ y = "challenge" /\ f.speaks = "btsp"
           \/ y = "serve" /\ Whole(f, n, t)
    PROVE  Staged(f, n, k, t, Append(o, r), y)
<1>1. Len(Append(o, r)) = Len(o) + 1 /\ Len(o) \in Nat /\ Intros(f) \in 0..2
      BY Replied, ProfileFields
<1>2. ToldOf(o) # "tarpc"
      BY DEF Staged
<1>3. ToldOf(Append(o, r)) # "tarpc"
      BY <1>2, ToldStep
<1>4. Len(Append(o, r)) < Intros(f) => n <= Len(Append(o, r)) + 2
      BY <1>1 DEF Staged
<1>5. y \notin Early /\ y \notin {"line", "g65", "relay", "verify", "tarpc", "guard", "compiling"}
      BY DEF Early, Waiting
<1>6. y \notin Waiting
      BY DEF Waiting
<1> QED BY <1>3, <1>4, <1>5, <1>6 DEF Staged

\* After replies o, r is the one to the request a, or to a line that is none.
NextReply(f, o, r, a) ==
    /\ r.kind # "tarpc" /\ (r.kind = "parse error" => f.speaks # "jsonrpc")
    /\ \/ r.id = 0 /\ a = Answered(o)
       \/ r.id = Answered(o) + 1 /\ a = Answered(o) + 1

\* A line, or the compilation it asked for, is answered and the next one awaited.
LEMMA AnsweredGood ==
    ASSUME NEW f, NEW n, NEW k, NEW s, NEW o, NEW x, NEW p, NEW r \in ReplyType, NEW t,
           Typed(f, n, k, s, o, x, p), t \in Seq(Piece),
           Good(f, n, k, s, o, x, p), k # "new", x \notin {"tarpc", "closed"},
           Wire(f, n, t), NoFrames(t),
           Whole(f, n, t),
           Len(o) + 1 <= Consumed(n, t),
           NextReply(f, o, r, Asked(f, n, t))
    PROVE  Good(f, n, k, t, Append(o, r), "serve", p)
<1>1. /\ Served(f, n, s, o, x, p) /\ ErrorFree(f, n, o, x) /\ Orderly(o)
      /\ Staged(f, n, k, s, o, x) /\ o \in Seq(ReplyType)
      BY DEF Good, Typed
<1>2. p = {} /\ Cardinality(p) = 0 /\ IsFiniteSet(p)
      BY <1>1, NoneInFlight
<1>3. Len(o) \in Nat /\ Answered(o) \in Nat /\ n \in Nat
      BY <1>2, Numbers
<1>4. /\ Len(Append(o, r)) = Len(o) + 1
      /\ \A i \in 1..(Len(o) + 1) : Append(o, r)[i] = IF i <= Len(o) THEN o[i] ELSE r
      /\ Answered(Append(o, r)) = Answered(o) + (IF r.id > 0 THEN 1 ELSE 0) /\ r.id \in Nat
      BY <1>1, Replied
<1>5. Answered(Append(o, r)) = Asked(f, n, t)
  <2>1. CASE r.id = 0 /\ Asked(f, n, t) = Answered(o)
        BY <1>3, <1>4, <2>1
  <2>2. CASE r.id = Answered(o) + 1 /\ Asked(f, n, t) = Answered(o) + 1
        BY <1>3, <1>4, <2>2
  <2> QED BY <2>1, <2>2, Zenon DEF NextReply
<1>6. Staged(f, n, k, t, Append(o, r), "serve")
      BY <1>1, RepliedStaged DEF Typed, NextReply
<1>7. Orderly(Append(o, r))
  <2>1. ToldOf(o) # "tarpc"
        BY <1>1 DEF Staged
  <2> QED BY <1>1, <2>1, OrderlyStep DEF NextReply
<1>8. Served(f, n, t, Append(o, r), "serve", p)
  <2>1. Owed("serve", p) = 0
        BY <1>2 DEF Owed
  <2>2. Consumed(n, t) \in Nat
        BY <1>3, LenProperties DEF Consumed
  <2>3. Len(Append(o, r)) + 0 <= Consumed(n, t) + 0
        BY <1>3, <1>4, <2>2
  <2> QED BY <1>2, <1>5, <2>1, <2>3 DEF Served
<1>9. ErrorFree(f, n, Append(o, r), "serve")
  <2> SUFFICES ASSUME f.speaks = "jsonrpc", NEW i \in 1..(Len(o) + 1)
               PROVE  Append(o, r)[i].kind # "parse error"
      BY <1>4 DEF ErrorFree
  <2>1. i <= Len(o) => i \in 1..Len(o)
        BY <1>3
  <2> QED BY <1>1, <1>4, <2>1 DEF ErrorFree, NextReply
<1>10. InFlight(f, n, t, Append(o, r), "serve", p)
       BY DEF InFlight
<1> QED BY <1>6, <1>7, <1>8, <1>9, <1>10 DEF Good

\* A reply that is no answer: a refused handshake or a parse error.
LastReply(f, n, r) ==
    r.id = 0 /\ r.kind # "tarpc" /\ (r.kind = "parse error" => f.speaks # "jsonrpc" \/ n = 1)

\* A last reply that is no answer, and the connection is closed.
LEMMA RefusedGood ==
    ASSUME NEW f, NEW n, NEW k, NEW s, NEW o, NEW x, NEW p, NEW r \in ReplyType, NEW t,
           Typed(f, n, k, s, o, x, p), t \in Seq(Piece),
           Good(f, n, k, s, o, x, p), k # "new", x \notin {"tarpc", "closed"},
           Wire(f, n, t), NoFrames(t), LastReply(f, n, r),
           Len(o) + 1 <= Consumed(n, t) + (IF n = 1 THEN 1 ELSE 0)
    PROVE  Good(f, n, k, t, Append(o, r), "closed", p)
<1>1. /\ Served(f, n, s, o, x, p) /\ ErrorFree(f, n, o, x) /\ Orderly(o)
      /\ Staged(f, n, k, s, o, x) /\ o \in Seq(ReplyType)
      BY DEF Good, Typed
<1>2. p = {} /\ Cardinality(p) = 0 /\ IsFiniteSet(p)
      BY <1>1, NoneInFlight
<1>3. Len(o) \in Nat /\ n \in Nat
      BY <1>2, Numbers
<1>4. /\ Len(Append(o, r)) = Len(o) + 1
      /\ \A i \in 1..(Len(o) + 1) : Append(o, r)[i] = IF i <= Len(o) THEN o[i] ELSE r
      BY <1>1, Replied
<1>5. Staged(f, n, k, t, Append(o, r), "closed")
      BY <1>1, RepliedStaged DEF Typed, LastReply
<1>6. Orderly(Append(o, r))
  <2>1. ToldOf(o) # "tarpc"
        BY <1>1 DEF Staged
  <2> QED BY <1>1, <2>1, OrderlyStep DEF LastReply
<1>7. Served(f, n, t, Append(o, r), "closed", p)
  <2>1. Owed("closed", p) = 0
        BY <1>2 DEF Owed
  <2>2. Consumed(n, t) \in Nat
        BY <1>3, LenProperties DEF Consumed
  <2>3. Len(Append(o, r)) + 0 <= Consumed(n, t) + (IF "closed" = "closed" /\ n = 1 THEN 1 ELSE 0)
        BY <1>3, <1>4, <2>2
  <2> QED BY <1>2, <2>1, <2>3 DEF Served
<1>8. ErrorFree(f, n, Append(o, r), "closed")
  <2> SUFFICES ASSUME f.speaks = "jsonrpc", n # 1, NEW i \in 1..(Len(o) + 1)
               PROVE  Append(o, r)[i].kind # "parse error"
      BY <1>4 DEF ErrorFree
  <2>1. i <= Len(o) => i \in 1..Len(o)
        BY <1>3
  <2> QED BY <1>1, <1>4, <2>1 DEF ErrorFree, LastReply
<1>9. InFlight(f, n, t, Append(o, r), "closed", p)
      BY DEF InFlight
<1> QED BY <1>5, <1>6, <1>7, <1>8, <1>9 DEF Good

\* A line is read whose reply is still to come, or that gets none.
LEMMA ReadGood ==
    ASSUME NEW f, NEW n, NEW k, NEW s, NEW o, NEW x, NEW p, NEW t, NEW y,
           Typed(f, n, k, s, o, x, p), Typed(f, n, k, t, o, y, p),
           Good(f, n, k, s, o, x, p), x \notin {"compiling", "tarpc", "closed"},
           Wire(f, n, t), Consumed(n, t) = Consumed(n, s) + 1, Staged(f, n, k, t, o, y),
           y \notin {"challenge", "tarpc", "closed"}, y = "verify" => x = "challenge",
           Asked(f, n, t) = Asked(f, n, s) + (IF y = "compiling" THEN 1 ELSE 0)
    PROVE  Good(f, n, k, t, o, y, p)
<1>1. Served(f, n, s, o, x, p) /\ ErrorFree(f, n, o, x) /\ Orderly(o)
      BY DEF Good
<1>2. p = {} /\ Cardinality(p) = 0 /\ IsFiniteSet(p)
      BY <1>1, NoneInFlight
<1>3. /\ Len(o) \in Nat /\ Consumed(n, s) \in Nat /\ Owed(x, p) \in Nat
      /\ Asked(f, n, s) \in Nat /\ Answered(o) \in Nat
      BY <1>2, Numbers
<1>4. Owed(y, p) \in {0, 1}
      BY <1>2 DEF Owed
<1>5. Len(o) + Owed(y, p) <= Consumed(n, t) + (IF y = "closed" /\ n = 1 THEN 1 ELSE 0)
      BY <1>1, <1>3, <1>4 DEF Served
<1>6. Answered(o) = Asked(f, n, s)
      BY <1>1 DEF Served
<1>7. Served(f, n, t, o, y, p)
      BY <1>1, <1>2, <1>3, <1>5, <1>6 DEF Served
<1>8. ErrorFree(f, n, o, y) /\ InFlight(f, n, t, o, y, p)
      BY <1>1 DEF ErrorFree, InFlight
<1> QED BY <1>1, <1>7, <1>8 DEF Good

\* r is the PROTOCOL: line after which the connection is at stage y.
Chosen(r, y) == r.id = 0 /\ r.kind \in {"tarpc", "jsonrpc"} /\ (r.kind = "tarpc" <=> y = "tarpc")

\* r is the ServerHello.
Greets(r) == r.id = 0 /\ r.kind = "ServerHello"

\* The PROTOCOLS line is answered: nothing of the peer is unread, and it goes on
\* in the framing it is told.
LEMMA NegotiatedGood ==
    ASSUME NEW f, NEW n, NEW k, NEW s, NEW o, NEW p, NEW r \in ReplyType, NEW t, NEW y,
           Typed(f, n, k, s, o, "g65", p), t \in Seq(Piece),
           Good(f, n, k, s, o, "g65", p), k # "new", Wire(f, n, t),
           Len(t) + 2 <= n, Len(t) < Len(s), y \in {"tarpc", "serve"},
           Chosen(r, y)
    PROVE  Good(f, n, k, t, Append(o, r), y, p)
<1>1. /\ Served(f, n, s, o, "g65", p) /\ ErrorFree(f, n, o, "g65") /\ Orderly(o)
      /\ Staged(f, n, k, s, o, "g65") /\ o \in Seq(ReplyType) /\ f \in Profile
      BY DEF Good, Typed
<1>2. p = {} /\ Cardinality(p) = 0 /\ IsFiniteSet(p)
      BY <1>1, NoneInFlight
<1>3. Len(o) \in Nat /\ n \in Nat /\ Answered(o) \in Nat /\ Len(s) \in Nat /\ Len(t) \in Nat
      BY <1>2, Numbers, LenProperties
<1>4. o = <<>> /\ Len(o) = 0 /\ f.speaks = "g65" /\ Len(s) < n
      BY <1>1 DEF Staged, Early
<1>5. Intros(f) = 1 /\ n <= 2
      BY <1>1, <1>4 DEF Staged, Intros
<1>6. n = 2 /\ Len(t) = 0
      BY <1>3, <1>4, <1>5
<1>7. t = <<>> /\ f.first # "brace"
      BY <1>1, <1>4, <1>6, EmptySeq, ProfileFields
<1>8. Consumed(n, t) = 1 /\ Asked(f, n, t) = 0
      BY <1>5, <1>6 DEF Consumed, Asked
<1>9. /\ Len(Append(o, r)) = 1 /\ Append(o, r) # <<>> /\ Append(o, r)[1] = r
      /\ Answered(Append(o, r)) = Answered(o)
  <2>1. /\ Len(Append(o, r)) = Len(o) + 1 /\ Append(o, r) # <<>>
        /\ \A i \in 1..(Len(o) + 1) : Append(o, r)[i] = IF i <= Len(o) THEN o[i] ELSE r
        /\ Answered(Append(o, r)) = Answered(o) + (IF r.id > 0 THEN 1 ELSE 0)
        BY <1>1, Replied
  <2>2. r.id = 0
        BY DEF Chosen
  <2>3. Len(Append(o, r)) = 1 /\ Append(o, r)[1] = r
        BY <1>4, <2>1
  <2>4. Answered(Append(o, r)) = Answered(o)
        BY <1>3, <2>1, <2>2
  <2> QED BY <2>1, <2>3, <2>4
<1>10. Answered(o) = 0
  <2>1. Consumed(n, s) = 0
    <3>1. Len(s) < 2 /\ 0 < Len(s)
          BY <1>4, <1>6
    <3>2. \A m \in Nat : m < 2 /\ 0 < m => m = 1
          OBVIOUS
    <3>3. Len(s) = 1
          BY <1>3, <3>1, <3>2, Zenon
    <3> QED BY <1>6, <3>3 DEF Consumed
  <2>2. Answered(o) = Asked(f, n, s)
        BY <1>1 DEF Served
  <2> QED BY <1>5, <2>1, <2>2 DEF Asked
<1>11. Served(f, n, t, Append(o, r), y, p)
  <2>1. Owed(y, p) = 0
        BY <1>2 DEF Owed
  <2>2. Len(Append(o, r)) + 0 <= Consumed(n, t) + (IF y = "closed" /\ n = 1 THEN 1 ELSE 0)
        BY <1>8, <1>9
  <2> QED BY <1>2, <1>8, <1>9, <1>10, <2>1, <2>2 DEF Served
<1>12. Orderly(Append(o, r))
       BY <1>1, <1>4, OrderlyStep DEF Chosen
<1>13. InFlight(f, n, t, Append(o, r), y, p)
       BY <1>2, <1>8, <1>9 DEF InFlight, Chosen
<1>14. ErrorFree(f, n, Append(o, r), y)
       BY <1>4 DEF ErrorFree
<1>15. Staged(f, n, k, t, Append(o, r), y)
  <2>1. ToldOf(Append(o, r)) = r.kind
        BY <1>9 DEF ToldOf, Chosen
  <2>2. Frames(t) /\ NoFrames(t) /\ Whole(f, n, t)
        BY <1>6, <1>7 DEF Frames, NoFrames, Whole
  <2>3. y \notin Early /\ y \notin Waiting
        BY DEF Early, Waiting
  <2>4. y \notin {"line", "g65", "relay", "challenge", "verify"}
        OBVIOUS
  <2>5. r.kind = "tarpc" <=> y = "tarpc"
        BY DEF Chosen
  <2> QED BY <1>4, <1>5, <1>6, <1>9, <2>1, <2>2, <2>3, <2>4, <2>5 DEF Staged
<1> QED BY <1>11, <1>12, <1>13, <1>14, <1>15 DEF Good

\* A ClientHello is answered with the ServerHello.
LEMMA HelloGood ==
    ASSUME NEW f, NEW n, NEW k, NEW s, NEW o, NEW p, NEW r \in ReplyType,
           Typed(f, n, k, s, o, "relay", p), Good(f, n, k, s, o, "relay", p), k # "new",
           Greets(r)
    PROVE  Good(f, n, k, s, Append(o, r), "challenge", p)
<1>1. /\ Served(f, n, s, o, "relay", p) /\ ErrorFree(f, n, o, "relay") /\ Orderly(o)
      /\ Staged(f, n, k, s, o, "relay") /\ o \in Seq(ReplyType) /\ f \in Profile
      /\ Wire(f, n, s) /\ s \in Seq(Piece) /\ n \in Nat
      BY DEF Good, Typed
<1>2. p = {} /\ Cardinality(p) = 0 /\ IsFiniteSet(p)
      BY <1>1, NoneInFlight
<1>3. Len(o) \in Nat /\ Consumed(n, s) \in Nat /\ Answered(o) \in Nat
      BY <1>2, Numbers
<1>4. o = <<>> /\ f.speaks = "btsp" /\ ToldOf(o) # "tarpc" /\ NoFrames(s)
      BY <1>1 DEF Staged, Early
<1>5. /\ Len(Append(o, r)) = Len(o) + 1 /\ Len(o) = 0
      /\ Answered(Append(o, r)) = Answered(o)
  <2>1. /\ Len(Append(o, r)) = Len(o) + 1
        /\ Answered(Append(o, r)) = Answered(o) + (IF r.id > 0 THEN 1 ELSE 0)
        BY <1>1, Replied
  <2>2. r.id = 0
        BY DEF Greets
  <2>3. Answered(Append(o, r)) = Answered(o)
        BY <1>3, <2>1, <2>2
  <2> QED BY <1>4, <2>1, <2>3
<1>6. Staged(f, n, k, s, Append(o, r), "challenge")
  <2>1. r.kind # "tarpc"
        BY DEF Greets
  <2>2. "relay" \notin {"tarpc", "closed"}
        OBVIOUS
  <2> QED BY <1>1, <1>4, <2>1, <2>2, RepliedStaged, ZenonT(30)
<1>7. Orderly(Append(o, r))
      BY <1>1, <1>4, OrderlyStep DEF Greets
<1>8. Served(f, n, s, Append(o, r), "challenge", p)
  <2>1. Owed("challenge", p) = 0 /\ Owed("relay", p) = 1
        BY <1>2 DEF Owed
  <2>2. Len(o) + 1 <= Consumed(n, s) + 0
        BY <1>1, <2>1 DEF Served
  <2>3. Len(Append(o, r)) + 0 <= Consumed(n, s) + 0
        BY <1>3, <1>5, <2>2
  <2> QED BY <1>1, <1>2, <1>5, <2>1, <2>3 DEF Served
<1>9. ErrorFree(f, n, Append(o, r), "challenge") /\ InFlight(f, n, s, Append(o, r), "challenge", p)
      BY <1>4 DEF ErrorFree, InFlight
<1> QED BY <1>1, <1>6, <1>7, <1>8, <1>9 DEF Good

\* A tarpc request is taken from the stream: its id is a new one.
LEMMA FrameGood ==
    ASSUME NEW f, NEW n, NEW k, NEW s, NEW o, NEW p,
           Typed(f, n, k, s, o, "tarpc", p), Good(f, n, k, s, o, "tarpc", p), s # <<>>
    PROVE  Good(f, n, k, Tail(s), o, "tarpc", p \cup {s[1].line})
<1> DEFINE t == Tail(s)
           e == s[1].line
           q == p \cup {e}
<1>1. /\ Served(f, n, s, o, "tarpc", p) /\ ErrorFree(f, n, o, "tarpc") /\ Orderly(o)
      /\ Staged(f, n, k, s, o, "tarpc") /\ InFlight(f, n, s, o, "tarpc", p)
      /\ Wire(f, n, s) /\ s \in Seq(Piece) /\ n \in Nat
      BY DEF Good, Typed
<1>2. IsFiniteSet(p)
      BY <1>1 DEF Served
<1>3. /\ Len(s) \in Nat /\ Len(o) \in Nat /\ Consumed(n, s) \in Nat /\ Cardinality(p) \in Nat
      /\ Asked(f, n, s) \in Nat
      BY <1>2, Numbers
<1>4. Dropped(s, t, 1) /\ Len(s) >= 1
      BY <1>1, TailDropped
<1>5. Len(t) = Len(s) - 1 /\ t \in Seq(Piece) /\ \A i \in 1..Len(t) : t[i] = s[i + 1]
      BY <1>4 DEF Dropped
<1>6. Wire(f, n, t)
      BY <1>1, <1>3, <1>4, DropWire
<1>7. f.speaks = "g65" /\ Intros(f) = 1 /\ Frames(s) /\ n >= 2
      BY <1>1 DEF Staged, Intros
<1>8. /\ IsLine(f, LineNo(n - Len(s) + 1), e) /\ e.kind = "frame" /\ Len(s) <= n
      BY <1>1, <1>3, <1>4, <1>7 DEF Wire, Frames
<1>9. LineNo(n - Len(s) + 1) > 1
      BY <1>7, <1>8 DEF IsLine
<1>10. n > Len(s) /\ LineNo(n - Len(s) + 1) = n - Len(s)
       BY <1>1, <1>3, <1>8, <1>9 DEF LineNo
<1>11. e.id = n - Len(s) - 1 /\ n - Len(s) > 1
       BY <1>7, <1>8, <1>9, <1>10 DEF IsLine
<1> HIDE DEF t, e, q
<1>12. /\ Consumed(n, s) = n - Len(s) - 1 /\ Consumed(n, t) = Consumed(n, s) + 1
       /\ Consumed(n, s) >= 1
       BY <1>1, <1>3, <1>5, <1>10, <1>11 DEF Consumed
<1>13. Asked(f, n, s) = Consumed(n, s) - 1 /\ Asked(f, n, t) = Consumed(n, s)
       BY <1>3, <1>7, <1>12 DEF Asked
<1>14. e.id = Asked(f, n, s) + 1 /\ Asked(f, n, t) = Asked(f, n, s) + 1
       BY <1>3, <1>11, <1>12, <1>13
<1>15. IsFiniteSet(q) /\ Cardinality(q) <= Cardinality(p) + 1 /\ Cardinality(q) \in Nat
  <2>1. IsFiniteSet(q) /\ Cardinality(q) = IF e \in p THEN Cardinality(p) ELSE Cardinality(p) + 1
        BY <1>2, FS_AddElement DEF q
  <2> QED BY <1>3, <2>1
<1>16. Served(f, n, t, o, "tarpc", q)
  <2>1. Owed("tarpc", p) = Cardinality(p) /\ Owed("tarpc", q) = Cardinality(q)
        BY DEF Owed
  <2>2. Len(o) + Cardinality(p) <= Consumed(n, s) + 0
        BY <1>1, <2>1 DEF Served
  <2>3. Len(o) + Cardinality(q) <= Consumed(n, t) + 0
        BY <1>3, <1>12, <1>15, <2>2
  <2> QED BY <1>15, <2>1, <2>3 DEF Served
<1>17. ASSUME NEW a \in p PROVE a.id > 0 /\ a.id <= Asked(f, n, s) /\ a.id \in Nat
  <2>1. a \in LineType
        BY DEF Typed
  <2> QED BY <1>1, <2>1 DEF InFlight, LineType
<1>18. ASSUME NEW i \in 1..Len(o)
       PROVE  o[i].id <= Asked(f, n, s) /\ o[i].id \in Nat /\ \A a \in p : a.id # o[i].id
  <2>1. o[i] \in ReplyType
        BY ElementOfSeq DEF Typed
  <2> QED BY <1>1, <2>1 DEF InFlight, ReplyType
<1>19. InFlight(f, n, t, o, "tarpc", q)
  <2>1. ASSUME NEW a \in q PROVE a.id > 0 /\ a.id <= Asked(f, n, t)
        BY <1>3, <1>14, <1>17 DEF q
  <2>2. ASSUME NEW a \in q, NEW b \in q, a.id = b.id PROVE a = b
    <3>1. CASE a \in p /\ b \in p
          BY <1>1, <2>2, <3>1 DEF InFlight
    <3>2. CASE a \in p /\ b = e
          BY <1>3, <1>14, <1>17, <2>2, <3>2
    <3>3. CASE a = e /\ b \in p
          BY <1>3, <1>14, <1>17, <2>2, <3>3
    <3> QED BY <3>1, <3>2, <3>3 DEF q
  <2>3. ASSUME NEW i \in 1..Len(o)
        PROVE  o[i].id <= Asked(f, n, t) /\ \A a \in q : a.id # o[i].id
    <3>1. o[i].id <= Asked(f, n, s) /\ o[i].id \in Nat
          BY <1>18
    <3>2. o[i].id <= Asked(f, n, t) /\ e.id # o[i].id
          BY <1>3, <1>14, <3>1
    <3> QED BY <1>18, <3>2 DEF q
  <2> QED BY <2>1, <2>2, <2>3 DEF InFlight
<1>20. Staged(f, n, k, t, o, "tarpc")
  <2>1. Frames(t)
    <3> SUFFICES ASSUME NEW i \in 1..Len(t) PROVE t[i].line.kind = "frame"
        BY DEF Frames
    <3>1. i + 1 \in 1..Len(s)
          BY <1>3, <1>5
    <3> QED BY <1>5, <1>7, <3>1 DEF Frames
  <2> QED BY <1>1, <2>1 DEF Staged, Early, Waiting
<1> QED BY <1>1, <1>6, <1>16, <1>19, <1>20 DEF Good, t, q, e

\* r is the reply to the tarpc request q.
RepliesTo(r, q) == r.id = q.id /\ r.kind \in {"answer", "deadline"}

\* A tarpc request is answered, to a peer that is still there or not.
LEMMA TarpcGood ==
    ASSUME NEW f, NEW n, NEW k, NEW s, NEW o, NEW p, NEW q \in p, NEW r \in ReplyType,
           Typed(f, n, k, s, o, "tarpc", p), Good(f, n, k, s, o, "tarpc", p), RepliesTo(r, q)
    PROVE  /\ Good(f, n, k, s, Append(o, r), "tarpc", p \ {q})
           /\ Good(f, n, k, s, o, "tarpc", p \ {q})
<1> DEFINE w == p \ {q}
<1>1. /\ Served(f, n, s, o, "tarpc", p) /\ ErrorFree(f, n, o, "tarpc") /\ Orderly(o)
      /\ Staged(f, n, k, s, o, "tarpc") /\ InFlight(f, n, s, o, "tarpc", p)
      /\ Wire(f, n, s) /\ o \in Seq(ReplyType) /\ p \subseteq LineType
      BY DEF Good, Typed
<1>2. IsFiniteSet(p)
      BY <1>1 DEF Served
<1>3. Len(o) \in Nat /\ Consumed(n, s) \in Nat /\ Cardinality(p) \in Nat /\ Asked(f, n, s) \in Nat
      BY <1>2, Numbers
<1>4. IsFiniteSet(w) /\ Cardinality(w) = Cardinality(p) - 1
      BY <1>2, FS_RemoveElement
<1>5. ToldOf(o) = "tarpc" /\ f.speaks = "g65" /\ Intros(f) = 1
      BY <1>1 DEF Staged, Intros
<1>6. o # <<>> /\ Len(o) >= 1
      BY <1>1, <1>3, <1>5, EmptySeq DEF ToldOf
<1>7. r.id = q.id /\ r.kind # "tarpc"
      BY DEF RepliesTo
<1>8. /\ Len(Append(o, r)) = Len(o) + 1
      /\ \A i \in 1..(Len(o) + 1) : Append(o, r)[i] = IF i <= Len(o) THEN o[i] ELSE r
      BY <1>1, Replied
<1>9. q.id > 0 /\ q.id <= Asked(f, n, s)
      BY <1>1 DEF InFlight
<1>10. \A i \in 1..Len(o) : o[i].id <= Asked(f, n, s) /\ \A a \in p : a.id # o[i].id
       BY <1>1 DEF InFlight
<1>11. ASSUME NEW a \in w PROVE a.id > 0 /\ a.id <= Asked(f, n, s) /\ a.id # r.id
  <2>1. a \in p /\ a # q
        OBVIOUS
  <2>2. a.id > 0 /\ a.id <= Asked(f, n, s) /\ (a.id = q.id => a = q)
        BY <1>1, <2>1 DEF InFlight
  <2> QED BY <1>7, <2>1, <2>2
<1>12. ASSUME NEW a \in w, NEW b \in w, a.id = b.id PROVE a = b
       BY <1>1, <1>12 DEF InFlight
<1>13. Orderly(Append(o, r))
  <2>1. \A i \in 1..Len(o) : o[i].id # r.id
        BY <1>7, <1>10
  <2> QED BY <1>1, <1>5, <1>7, <2>1, OrderlyStep
<1>14. Owed("tarpc", p) = Cardinality(p) /\ Owed("tarpc", w) = Cardinality(w)
       BY DEF Owed
<1>15. Len(o) + Cardinality(p) <= Consumed(n, s) + 0
       BY <1>1, <1>14 DEF Served
<1> HIDE DEF w
<1>16. Served(f, n, s, Append(o, r), "tarpc", w)
  <2>1. Len(Append(o, r)) + Cardinality(w) <= Consumed(n, s) + 0
        BY <1>3, <1>4, <1>8, <1>15
  <2> QED BY <1>4, <1>14, <2>1 DEF Served
<1>17. Served(f, n, s, o, "tarpc", w)
  <2>1. Len(o) + Cardinality(w) <= Consumed(n, s) + 0
        BY <1>3, <1>4, <1>15
  <2> QED BY <1>4, <1>14, <2>1 DEF Served
<1>18. InFlight(f, n, s, o, "tarpc", w)
       BY <1>10, <1>11, <1>12 DEF InFlight, w
<1>19. InFlight(f, n, s, Append(o, r), "tarpc", w)
  <2>1. ASSUME NEW i \in 1..(Len(o) + 1)
        PROVE  /\ Append(o, r)[i].id <= Asked(f, n, s)
               /\ \A a \in w : a.id # Append(o, r)[i].id
    <3>1. CASE i <= Len(o)
      <4>1. i \in 1..Len(o) /\ Append(o, r)[i] = o[i]
            BY <1>3, <1>8, <3>1
      <4> QED BY <1>10, <4>1 DEF w
    <3>2. CASE ~(i <= Len(o))
      <4>1. Append(o, r)[i] = r
            BY <1>8, <3>2
      <4> QED BY <1>7, <1>9, <1>11, <4>1
    <3> QED BY <3>1, <3>2
  <2> QED BY <1>8, <1>11, <1>12, <2>1 DEF InFlight
<1>20. ErrorFree(f, n, Append(o, r), "tarpc")
       BY <1>5 DEF ErrorFree
<1>21. Staged(f, n, k, s, Append(o, r), "tarpc")
  <2>1. ToldOf(Append(o, r)) = "tarpc"
        BY <1>1, <1>5, <1>6, ToldStep
  <2>2. ~(Len(Append(o, r)) < Intros(f))
        BY <1>3, <1>5, <1>6, <1>8
  <2> QED BY <1>1, <2>1, <2>2 DEF Staged, Early, Waiting
<1> QED BY <1>1, <1>13, <1>16, <1>17, <1>18, <1>19, <1>20, <1>21 DEF Good, w

\* Only the first step of a peer depends on whether it is still there.
LEMMA ConnGood ==
    ASSUME NEW f, NEW n, NEW k, NEW s, NEW o, NEW x, NEW p, NEW m,
           Good(f, n, k, s, o, x, p), m # "new"
    PROVE  Good(f, n, m, s, o, x, p)
BY DEF Good, Staged

\* A peer keeps to its handshake: it has the reply to one line before the next.
Paced(f, n, o) ==
    LineNo(n + 1) <= Intros(f) + 1 /\ LineNo(n + 1) > 1 => Len(o) = LineNo(n + 1) - 1

\* A piece a peer may send after n others, in the framing the replies o told it.
Sends(f, n, o, line, part) ==
    /\ line \in LineType /\ part \in {"head", "tail", "all"}
    /\ IsLine(f, LineNo(n + 1), line)
    /\ part = "head" <=> n = 0
    /\ part = "tail" => n = 1
    /\ line.kind = "frame" <=> LineNo(n + 1) > Intros(f) /\ ToldOf(o) = "tarpc"
    /\ Paced(f, n, o)

\* A peer sends its next piece, in the framing it was told.
LEMMA SendGood ==
    ASSUME NEW f, NEW n, NEW k, NEW s, NEW o, NEW x, NEW p, NEW line, NEW part,
           Typed(f, n, k, s, o, x, p), Good(f, n, k, s, o, x, p), k # "new", x # "closed",
           Sends(f, n, o, line, part)
    PROVE  /\ Good(f, n + 1, k, Append(s, PieceOf(line, part)), o, x, p)
           /\ Append(s, PieceOf(line, part)) \in Seq(Piece)
           /\ Asked(f, n + 1, Append(s, PieceOf(line, part))) = Asked(f, n, s)
<1> DEFINE e == PieceOf(line, part)
           t == Append(s, e)
<1>1. /\ Served(f, n, s, o, x, p) /\ ErrorFree(f, n, o, x) /\ Orderly(o)
      /\ Staged(f, n, k, s, o, x) /\ InFlight(f, n, s, o, x, p)
      /\ Wire(f, n, s) /\ s \in Seq(Piece) /\ n \in Nat /\ f \in Profile
      BY DEF Good, Typed
<1>2. Wire(f, n + 1, t) /\ t \in Seq(Piece) /\ Consumed(n + 1, t) = Consumed(n, s)
  <2>1. /\ line \in LineType /\ part \in {"head", "tail", "all"}
        /\ IsLine(f, LineNo(n + 1), line) /\ (part = "head" <=> n = 0) /\ (part = "tail" => n = 1)
        BY DEF Sends
  <2> QED BY <1>1, <2>1, SendWire
<1>3. Asked(f, n + 1, t) = Asked(f, n, s)
      BY <1>2 DEF Asked
<1>4. e \in Piece /\ e.line = line
      BY DEF Piece, PieceOf, Sends
<1>5. Len(s) \in Nat /\ Len(o) \in Nat /\ Intros(f) \in 0..2 /\ (o = <<>> <=> Len(o) = 0)
      /\ (s = <<>> <=> Len(s) = 0)
      BY <1>1, Numbers DEF Served
<1> HIDE DEF e
<1>6. Len(t) = Len(s) + 1 /\ (\A i \in 1..Len(s) : t[i] = s[i]) /\ t[Len(s) + 1] = e
      BY <1>1, <1>4, AppendProperties
<1> HIDE DEF t
<1>7. Served(f, n + 1, t, o, x, p)
  <2>1. Len(o) + Owed(x, p) <= Consumed(n + 1, t) + 0
        BY <1>1, <1>2 DEF Served
  <2> QED BY <1>1, <1>3, <2>1 DEF Served
<1>8. InFlight(f, n + 1, t, o, x, p) /\ ErrorFree(f, n + 1, o, x)
      BY <1>1, <1>3 DEF InFlight, ErrorFree
<1>9. Len(o) < Intros(f) => n + 1 <= Len(o) + 2
  <2> SUFFICES ASSUME Len(o) < Intros(f), n >= Len(o) + 2 PROVE FALSE
      BY <1>1, <1>5
  <2>1. n = Len(o) + 2 /\ n <= Intros(f) + 1 /\ n > 1
        BY <1>1, <1>5 DEF Staged
  <2>2. LineNo(n + 1) = n
        BY <1>1, <2>1 DEF LineNo
  <2> QED BY <1>5, <2>1, <2>2 DEF Paced, Sends
<1>10. ASSUME x = "tarpc" PROVE Frames(t)
  <2>1. ToldOf(o) = "tarpc" /\ Frames(s) /\ Intros(f) = 1 /\ n >= 2
        BY <1>1, <1>10 DEF Staged, Intros
  <2>2. LineNo(n + 1) > Intros(f)
        BY <1>1, <2>1 DEF LineNo
  <2>3. e.line.kind = "frame"
        BY <1>4, <2>1, <2>2 DEF Sends
  <2> SUFFICES ASSUME NEW i \in 1..(Len(s) + 1) PROVE t[i].line.kind = "frame"
      BY <1>6 DEF Frames
  <2>4. CASE i \in 1..Len(s)
        BY <1>6, <2>1, <2>4 DEF Frames
  <2>5. CASE i = Len(s) + 1
        BY <1>6, <2>3, <2>5
  <2> QED BY <1>5, <2>4, <2>5
<1>11. ASSUME x # "tarpc" PROVE NoFrames(t)
  <2>1. ToldOf(o) # "tarpc" /\ NoFrames(s)
        BY <1>1, <1>11 DEF Staged
  <2>2. e.line.kind # "frame"
        BY <1>4, <2>1 DEF Sends
  <2> SUFFICES ASSUME NEW i \in 1..(Len(s) + 1) PROVE t[i].line.kind # "frame"
      BY <1>6 DEF NoFrames
  <2>3. CASE i \in 1..Len(s)
        BY <1>6, <2>1, <2>3 DEF NoFrames
  <2>4. CASE i = Len(s) + 1
        BY <1>6, <2>2, <2>4
  <2> QED BY <1>5, <2>3, <2>4
<1>12. ASSUME Whole(f, n, s) PROVE Whole(f, n + 1, t)
  <2> SUFFICES ASSUME f.first = "brace", n + 1 = Len(t) + 1 PROVE t # <<>> /\ t[1].part = "all"
      BY DEF Whole
  <2>1. n = Len(s) + 1
        BY <1>1, <1>5, <1>6
  <2>2. s # <<>> /\ s[1].part = "all"
        BY <1>12, <2>1 DEF Whole
  <2>3. 1 \in 1..Len(s) /\ Len(t) # 0
        BY <1>5, <1>6, <2>2
  <2> QED BY <1>2, <1>6, <2>2, <2>3, EmptySeq
<1>13. Staged(f, n + 1, k, t, o, x)
  <2>1. x \in Waiting => Len(t) = n + 1
        BY <1>1, <1>6 DEF Staged
  <2>2. x = "line" => (f.on = "tcp" => Len(t) = n + 1) /\ (f.on = "uds" => Len(t) + 1 = n + 1)
        BY <1>1, <1>6 DEF Staged
  <2>3. x = "g65" => f.speaks = "g65" /\ Len(t) < n + 1
        BY <1>1, <1>5, <1>6 DEF Staged
  <2>4. x = "tarpc" => n + 1 >= 2
        BY <1>1 DEF Staged
  <2>5. /\ x \in Early => o = <<>>
        /\ x \in {"relay", "challenge", "verify"} => f.speaks = "btsp"
        /\ x = "tarpc" => ToldOf(o) = "tarpc" /\ f.speaks = "g65"
        /\ x \notin {"tarpc", "closed"} => ToldOf(o) # "tarpc"
        BY <1>1 DEF Staged
  <2>6. x \in {"guard", "serve", "compiling"} => Whole(f, n + 1, t)
        BY <1>1, <1>12 DEF Staged
  <2> QED BY <1>9, <1>10, <1>11, <2>1, <2>2, <2>3, <2>4, <2>5, <2>6 DEF Staged
<1> QED BY <1>1, <1>2, <1>3, <1>7, <1>8, <1>13 DEF Good, t, e
----------------------------------------------------------------------------
(* What a step leaves alone.                                               *)

\* A step concerns the connection c only, and leaves it as told.
Becomes(c, n, k, s, o, x, p) ==
    /\ prof' = prof /\ srv' = srv
    /\ sent' = [sent EXCEPT ![c] = n] /\ conn' = [conn EXCEPT ![c] = k]
    /\ in' = [in EXCEPT ![c] = s] /\ out' = [out EXCEPT ![c] = o]
    /\ st' = [st EXCEPT ![c] = x] /\ pend' = [pend EXCEPT ![c] = p]

\* What is assigned its own value is unchanged.
LEMMA Same ==
    ASSUME NEW S, NEW f \in [Peer -> S], NEW c \in Peer
    PROVE  f = [f EXCEPT ![c] = f[c]]
OBVIOUS

\* What is typed and what a row holds when one entry is replaced.
LEMMA Replaced ==
    ASSUME NEW S, NEW f \in [Peer -> S], NEW c \in Peer, NEW v \in S
    PROVE  /\ [f EXCEPT ![c] = v] \in [Peer -> S]
           /\ [f EXCEPT ![c] = v][c] = v
           /\ \A d \in Peer : d # c => [f EXCEPT ![c] = v][d] = f[d]
OBVIOUS

\* A typed row.
LEMMA RowTyped ==
    ASSUME TypeInv, NEW c \in Peer
    PROVE  Typed(prof[c], sent[c], conn[c], in[c], out[c], st[c], pend[c])
BY DEF TypeInv, Typed

\* The rows after a step of c.
LEMMA RowsAfter ==
    ASSUME TypeInv, NEW c \in Peer, NEW n, NEW k, NEW s, NEW o, NEW x, NEW p,
           Typed(prof[c], n, k, s, o, x, p), Becomes(c, n, k, s, o, x, p)
    PROVE  /\ prof' = prof /\ srv' = srv
           /\ sent' \in [Peer -> Nat] /\ conn' \in [Peer -> ConnValue]
           /\ in' \in [Peer -> Seq(Piece)] /\ out' \in [Peer -> Seq(ReplyType)]
           /\ st' \in [Peer -> StValue] /\ pend' \in [Peer -> SUBSET LineType]
           /\ sent'[c] = n /\ conn'[c] = k /\ in'[c] = s /\ out'[c] = o /\ st'[c] = x /\ pend'[c] = p
           /\ \A d \in Peer : d # c =>
                 /\ sent'[d] = sent[d] /\ conn'[d] = conn[d] /\ in'[d] = in[d]
                 /\ out'[d] = out[d] /\ st'[d] = st[d] /\ pend'[d] = pend[d]
<1>1. /\ n \in Nat /\ k \in ConnValue /\ s \in Seq(Piece)
      /\ o \in Seq(ReplyType) /\ x \in StValue /\ p \in SUBSET LineType
      BY DEF Typed
<1>2. /\ sent \in [Peer -> Nat] /\ conn \in [Peer -> ConnValue] /\ in \in [Peer -> Seq(Piece)]
      /\ out \in [Peer -> Seq(ReplyType)] /\ st \in [Peer -> StValue]
      /\ pend \in [Peer -> SUBSET LineType]
      BY DEF TypeInv
<1>3. /\ sent' \in [Peer -> Nat] /\ sent'[c] = n
      /\ \A d \in Peer : d # c => sent'[d] = sent[d]
      BY <1>1, <1>2, Replaced DEF Becomes
<1>4. /\ conn' \in [Peer -> ConnValue] /\ conn'[c] = k
      /\ \A d \in Peer : d # c => conn'[d] = conn[d]
      BY <1>1, <1>2, Replaced DEF Becomes
<1>5. /\ in' \in [Peer -> Seq(Piece)] /\ in'[c] = s
      /\ \A d \in Peer : d # c => in'[d] = in[d]
      BY <1>1, <1>2, Replaced DEF Becomes
<1>6. /\ out' \in [Peer -> Seq(ReplyType)] /\ out'[c] = o
      /\ \A d \in Peer : d # c => out'[d] = out[d]
      BY <1>1, <1>2, Replaced DEF Becomes
<1>7. /\ st' \in [Peer -> StValue] /\ st'[c] = x
      /\ \A d \in Peer : d # c => st'[d] = st[d]
      BY <1>1, <1>2, Replaced DEF Becomes
<1>8. /\ pend' \in [Peer -> SUBSET LineType] /\ pend'[c] = p
      /\ \A d \in Peer : d # c => pend'[d] = pend[d]
      BY <1>1, <1>2, Replaced DEF Becomes
<1> QED BY <1>3, <1>4, <1>5, <1>6, <1>7, <1>8 DEF Becomes

\* A step of c keeps the invariant when it keeps what it says of c, of the
\* backlogs and of the pool: every task works on its own connection.
LEMMA PeerStep ==
    ASSUME Inv, NEW c \in Peer, NEW n, NEW k, NEW s, NEW o, NEW x, NEW p,
           Typed(prof[c], n, k, s, o, x, p), Becomes(c, n, k, s, o, x, p),
           Good(prof[c], n, k, s, o, x, p),
           queue' \in [Listener -> Seq(Peer)], busy' \in [Listener -> Peer \cup {NoPeer}],
           pool' \in Seq([peer : Peer, id : Nat]), Queued', Pooled'
    PROVE  Inv'
<1>1. TypeInv
      BY DEF Inv
<1>2. /\ prof' = prof /\ srv' = srv
      /\ sent' \in [Peer -> Nat] /\ conn' \in [Peer -> ConnValue]
      /\ in' \in [Peer -> Seq(Piece)] /\ out' \in [Peer -> Seq(ReplyType)]
      /\ st' \in [Peer -> StValue] /\ pend' \in [Peer -> SUBSET LineType]
      BY <1>1, RowsAfter
<1>3. sent'[c] = n /\ conn'[c] = k /\ in'[c] = s /\ out'[c] = o /\ st'[c] = x /\ pend'[c] = p
      BY <1>1, RowsAfter
<1>4. \A d \in Peer : d # c =>
         /\ sent'[d] = sent[d] /\ conn'[d] = conn[d] /\ in'[d] = in[d]
         /\ out'[d] = out[d] /\ st'[d] = st[d] /\ pend'[d] = pend[d]
      BY <1>1, RowsAfter
<1>5. TypeInv'
      BY <1>1, <1>2 DEF TypeInv
<1>6. ASSUME NEW d \in Peer PROVE PeerInv(d)'
  <2>1. CASE d = c
    <3>1. Good(prof'[c], sent'[c], conn'[c], in'[c], out'[c], st'[c], pend'[c])
          BY <1>2, <1>3, Zenon
    <3> QED BY <2>1, <3>1, Zenon DEF PeerInv
  <2>2. CASE d # c
    <3>1. Good(prof[d], sent[d], conn[d], in[d], out[d], st[d], pend[d])
          BY DEF Inv, PeerInv
    <3>2. /\ sent'[d] = sent[d] /\ conn'[d] = conn[d] /\ in'[d] = in[d]
          /\ out'[d] = out[d] /\ st'[d] = st[d] /\ pend'[d] = pend[d]
          BY <1>4, <2>2
    <3>3. Good(prof'[d], sent'[d], conn'[d], in'[d], out'[d], st'[d], pend'[d])
          BY <1>2, <3>1, <3>2, Zenon
    <3> QED BY <3>3, Zenon DEF PeerInv
  <2> QED BY <2>1, <2>2
<1> QED BY <1>5, <1>6 DEF Inv

\* The callers of a compilation.
Callers == {"compiling", "tarpc", "closed"}

\* The compilations of c are what they were, or nobody waits for them.
PoolKept(c, n, s, x) ==
    \/ st[c] \notin Callers
    \/ x \in {"tarpc", "closed"}
    \/ /\ st[c] = "compiling" /\ x = "compiling"
       /\ Asked(prof[c], n, s) = Asked(prof[c], sent[c], in[c])

\* The backlogs hold what they held.
LEMMA QueuedKept ==
    ASSUME Inv, NEW c \in Peer, NEW n, NEW k, NEW s, NEW o, NEW x, NEW p,
           Typed(prof[c], n, k, s, o, x, p), Becomes(c, n, k, s, o, x, p),
           queue' = queue, st[c] # "queued" \/ x = "queued"
    PROVE  Queued'
<1>1. TypeInv /\ Queued /\ Pooled
      BY DEF Inv
<1>2. prof' = prof /\ sent'[c] = n /\ in'[c] = s /\ st'[c] = x
      BY <1>1, RowsAfter
<1>3. \A d \in Peer : d # c => sent'[d] = sent[d] /\ in'[d] = in[d] /\ st'[d] = st[d]
      BY <1>1, RowsAfter
<1>4. ASSUME NEW l \in Listener, NEW i \in 1..Len(queue[l]) PROVE st'[queue[l][i]] = "queued"
  <2>1. queue[l] \in Seq(Peer)
        BY <1>1 DEF TypeInv
  <2>2. queue[l][i] \in Peer /\ st[queue[l][i]] = "queued"
        BY <1>1, <2>1, ElementOfSeq DEF Queued
  <2> QED BY <1>2, <1>3, <2>2
<1> QED BY <1>1, <1>4 DEF Queued

\* The pool holds what it held.
LEMMA PooledKept ==
    ASSUME Inv, NEW c \in Peer, NEW n, NEW k, NEW s, NEW o, NEW x, NEW p,
           Typed(prof[c], n, k, s, o, x, p), Becomes(c, n, k, s, o, x, p),
           pool' = pool, PoolKept(c, n, s, x)
    PROVE  Pooled'
<1>1. TypeInv /\ Queued /\ Pooled
      BY DEF Inv
<1>2. prof' = prof /\ sent'[c] = n /\ in'[c] = s /\ st'[c] = x
      BY <1>1, RowsAfter
<1>3. \A d \in Peer : d # c => sent'[d] = sent[d] /\ in'[d] = in[d] /\ st'[d] = st[d]
      BY <1>1, RowsAfter
<1> SUFFICES ASSUME NEW i \in 1..Len(pool)
             PROVE  /\ st'[pool[i].peer] \in Callers
                    /\ st'[pool[i].peer] = "compiling" =>
                          /\ pool[i].id = Asked(prof[pool[i].peer], sent'[pool[i].peer],
                                                in'[pool[i].peer])
                          /\ \A j \in 1..Len(pool) : pool[j].peer = pool[i].peer => j = i
    BY <1>2, Zenon DEF Pooled, Callers
<1> DEFINE d == pool[i].peer
<1>4. d \in Peer
  <2>1. pool \in Seq([peer : Peer, id : Nat])
        BY <1>1 DEF TypeInv
  <2>2. pool[i] \in [peer : Peer, id : Nat]
        BY <2>1, ElementOfSeq
  <2> QED BY <2>2
<1>5. /\ st[d] \in Callers
      /\ st[d] = "compiling" =>
            /\ pool[i].id = Asked(prof[d], sent[d], in[d])
            /\ \A j \in 1..Len(pool) : pool[j].peer = d => j = i
      BY <1>1 DEF Pooled, Callers
<1> HIDE DEF d
<1>6. CASE d # c
  <2>1. sent'[d] = sent[d] /\ in'[d] = in[d] /\ st'[d] = st[d]
        BY <1>3, <1>4, <1>6
  <2> QED BY <1>5, <2>1, Zenon DEF d
<1>7. CASE d = c
  <2>1. CASE x \in {"tarpc", "closed"}
    <3>1. st'[d] \in Callers /\ st'[d] # "compiling"
          BY <1>2, <1>7, <2>1 DEF Callers
    <3> QED BY <3>1 DEF d
  <2>2. CASE /\ st[c] = "compiling" /\ x = "compiling"
             /\ Asked(prof[c], n, s) = Asked(prof[c], sent[c], in[c])
    <3>1. st'[d] = st[d] /\ Asked(prof[d], sent'[d], in'[d]) = Asked(prof[d], sent[d], in[d])
          BY <1>2, <1>7, <2>2
    <3> QED BY <1>5, <3>1, Zenon DEF d
  <2>3. st[c] \in Callers
        BY <1>5, <1>7
  <2> QED BY <2>1, <2>2, <2>3 DEF PoolKept
<1> QED BY <1>6, <1>7

\* A step of c that leaves the backlogs and the pool alone.
LEMMA PlainStep ==
    ASSUME Inv, NEW c \in Peer, NEW n, NEW k, NEW s, NEW o, NEW x, NEW p,
           Typed(prof[c], n, k, s, o, x, p), Becomes(c, n, k, s, o, x, p),
           Good(prof[c], n, k, s, o, x, p),
           queue' = queue, busy' \in [Listener -> Peer \cup {NoPeer}], pool' = pool,
           st[c] # "queued" \/ x = "queued", PoolKept(c, n, s, x)
    PROVE  Inv'
<1>1. queue' \in [Listener -> Seq(Peer)] /\ pool' \in Seq([peer : Peer, id : Nat])
      BY DEF Inv, TypeInv
<1>2. Queued' /\ Pooled'
      BY QueuedKept, PooledKept
<1> QED BY <1>1, <1>2, PeerStep

\* The accept branch ends or goes on: the accept loops stay typed.
LEMMA LoopsAfter ==
    ASSUME TypeInv, NEW c \in Peer, NEW x
    PROVE  /\ Leave(c, x) => /\ st' = [st EXCEPT ![c] = x] /\ queue' = queue
                             /\ busy' \in [Listener -> Peer \cup {NoPeer}]
           /\ Stay(c, x) => /\ st' = [st EXCEPT ![c] = x] /\ queue' = queue
                            /\ busy' \in [Listener -> Peer \cup {NoPeer}]
BY DEF TypeInv, Leave, Stay, loops

\* The replies of a peer after a write.
Written(c, kind, id) == IF conn[c] = "gone" THEN out[c] ELSE Append(out[c], Reply(kind, id))

\* A write concerns its own connection.
LEMMA WriteDoes ==
    ASSUME TypeInv, NEW c \in Peer, NEW kind \in ReplyKind, NEW id \in Nat, Write(c, kind, id)
    PROVE  /\ out' = [out EXCEPT ![c] = Written(c, kind, id)]
           /\ Written(c, kind, id) \in Seq(ReplyType)
           /\ Reply(kind, id) \in ReplyType
           /\ Reply(kind, id).kind = kind /\ Reply(kind, id).id = id
<1>1. out \in [Peer -> Seq(ReplyType)]
      BY DEF TypeInv
<1>2. Reply(kind, id) \in ReplyType /\ Reply(kind, id).kind = kind /\ Reply(kind, id).id = id
      BY DEF Reply, ReplyType
<1>3. out[c] \in Seq(ReplyType) /\ Append(out[c], Reply(kind, id)) \in Seq(ReplyType)
      BY <1>1, <1>2, AppendProperties
<1>4. CASE conn[c] = "gone"
      BY <1>1, <1>2, <1>3, <1>4, Same DEF Write, Written
<1>5. CASE conn[c] # "gone"
      BY <1>1, <1>2, <1>3, <1>5 DEF Write, Written
<1> QED BY <1>4, <1>5
----------------------------------------------------------------------------
(* The steps of the system.                                                *)

\* select_protocol returns one of the two protocols.
LEMMA Selected ==
    ASSUME NEW offers \in Seq({"tarpc", "jsonrpc"})
    PROVE  SelectProtocol(offers) \in {"tarpc", "jsonrpc"}
<1> DEFINE mutual == {i \in DOMAIN offers : offers[i] \in Supported}
<1>1. CASE mutual = {}
      BY <1>1 DEF SelectProtocol
<1>2. CASE mutual # {}
  <2>1. mutual \subseteq Nat /\ mutual \subseteq DOMAIN offers
        BY LenProperties
  <2>2. \E x \in mutual : \A y \in mutual : ~ (<<y, x>> \in OpToRel(<, Nat))
        BY <1>2, <2>1, NatLessThanWellFounded, WFMin
  <2>3. \E x \in mutual : \A y \in mutual : x <= y
    <3>1. PICK x \in mutual : \A y \in mutual : ~ (<<y, x>> \in OpToRel(<, Nat))
          BY <2>2
    <3>2. ASSUME NEW y \in mutual PROVE x <= y
      <4>1. x \in Nat /\ y \in Nat
            BY <2>1
      <4> HIDE DEF mutual
      <4>2. <<y, x>> \in Nat \X Nat /\ <<y, x>>[1] = y /\ <<y, x>>[2] = x
            BY <4>1
      <4>3. y < x => <<y, x>> \in OpToRel(<, Nat)
            BY <4>2, Zenon DEF OpToRel
      <4>4. ~(y < x)
            BY <3>1, <4>3
      <4> QED BY <4>1, <4>4
    <3> QED BY <3>2
  <2>4. Min(mutual) \in mutual
        BY <2>3 DEF Min
  <2>5. offers[Min(mutual)] \in {"tarpc", "jsonrpc"}
        BY <2>1, <2>4, ElementOfSeq, LenProperties
  <2>6. SelectProtocol(offers) = offers[Min(mutual)]
        BY <1>2, Zenon DEF SelectProtocol
  <2> QED BY <2>5, <2>6
<1> QED BY <1>1, <1>2

\* A step of c that reads its input down to t, leaves it with the replies o and
\* takes it to stage y.
Turns(c, t, o, y) ==
    /\ prof' = prof /\ srv' = srv /\ sent' = sent /\ conn' = conn /\ pend' = pend /\ pool' = pool
    /\ in' = [in EXCEPT ![c] = t] /\ out' = [out EXCEPT ![c] = o] /\ st' = [st EXCEPT ![c] = y]
    /\ queue' = queue /\ busy' \in [Listener -> Peer \cup {NoPeer}]

\* The invariant of a connection, part by part.
LEMMA Here ==
    ASSUME Inv, NEW c \in Peer
    PROVE  /\ TypeInv /\ Typed(prof[c], sent[c], conn[c], in[c], out[c], st[c], pend[c])
           /\ Good(prof[c], sent[c], conn[c], in[c], out[c], st[c], pend[c])
           /\ prof[c] \in Profile /\ sent[c] \in Nat /\ conn[c] \in ConnValue
           /\ in[c] \in Seq(Piece) /\ out[c] \in Seq(ReplyType) /\ st[c] \in StValue
           /\ pend[c] \in SUBSET LineType
           /\ Wire(prof[c], sent[c], in[c])
           /\ Staged(prof[c], sent[c], conn[c], in[c], out[c], st[c])
           /\ Served(prof[c], sent[c], in[c], out[c], st[c], pend[c])
           /\ st[c] # "none" => conn[c] # "new"
           /\ in = [in EXCEPT ![c] = in[c]] /\ out = [out EXCEPT ![c] = out[c]]
<1>1. TypeInv /\ Good(prof[c], sent[c], conn[c], in[c], out[c], st[c], pend[c])
      BY DEF Inv, PeerInv
<1>2. Typed(prof[c], sent[c], conn[c], in[c], out[c], st[c], pend[c])
      BY <1>1, RowTyped
<1>3. in = [in EXCEPT ![c] = in[c]] /\ out = [out EXCEPT ![c] = out[c]]
      BY <1>1 DEF TypeInv
<1>4. st[c] # "none" => conn[c] # "new"
      BY <1>1 DEF Good, Staged
<1> QED BY <1>1, <1>2, <1>3, <1>4 DEF Good, Typed

\* Such a step keeps the invariant when it keeps that of c.
LEMMA TurnStep ==
    ASSUME Inv, NEW c \in Peer, NEW t \in Seq(Piece), NEW o \in Seq(ReplyType), NEW y \in StValue,
           Turns(c, t, o, y), Good(prof[c], sent[c], conn[c], t, o, y, pend[c]),
           st[c] # "queued", PoolKept(c, sent[c], t, y)
    PROVE  Inv'
<1>1. /\ TypeInv /\ prof[c] \in Profile /\ sent[c] \in Nat /\ conn[c] \in ConnValue
      /\ pend[c] \in SUBSET LineType
      BY Here
<1>2. Typed(prof[c], sent[c], conn[c], t, o, y, pend[c])
      BY <1>1 DEF Typed
<1>3. Becomes(c, sent[c], conn[c], t, o, y, pend[c])
  <2>1. /\ sent = [sent EXCEPT ![c] = sent[c]] /\ conn = [conn EXCEPT ![c] = conn[c]]
        /\ pend = [pend EXCEPT ![c] = pend[c]]
        BY <1>1 DEF TypeInv
  <2> QED BY <2>1, Zenon DEF Becomes, Turns
<1>4. queue' = queue /\ busy' \in [Listener -> Peer \cup {NoPeer}] /\ pool' = pool
      BY DEF Turns
<1> QED BY <1>2, <1>3, <1>4, PlainStep

\* What stage y needs of the input t and the replies o.
Enters(f, n, t, o, y) ==
    \/ y = "closed"
    \/ y \in {"queued", "first"} /\ o = <<>> /\ Len(t) = n
    \/ y = "line" /\ o = <<>> /\ (f.on = "tcp" => Len(t) = n) /\ (f.on = "uds" => Len(t) + 1 = n)
    \/ y = "g65" /\ o = <<>> /\ f.speaks = "g65" /\ Len(t) < n
    \/ y = "guard" /\ o = <<>> /\ Whole(f, n, t)
    \/ y \in {"serve", "compiling"} /\ Whole(f, n, t)
    \/ y = "relay" /\ o = <<>> /\ f.speaks = "btsp"
    \/ y = "verify" /\ f.speaks = "btsp"

\* A connection that enters stage y.
LEMMA EntersStaged ==
    ASSUME NEW f, NEW n, NEW k, NEW s, NEW o, NEW x, NEW t, NEW y,
           Staged(f, n, k, s, o, x), k # "new", x \notin {"tarpc", "closed"}, NoFrames(t),
           Enters(f, n, t, o, y)
    PROVE  Staged(f, n, k, t, o, y)
<1>1. ToldOf(o) # "tarpc" /\ (Len(o) < Intros(f) => n <= Len(o) + 2)
      BY DEF Staged
<1>2. CASE y = "closed"
      BY <1>1, <1>2 DEF Staged, Early, Waiting
<1>3. CASE y \in {"queued", "first"} /\ o = <<>> /\ Len(t) = n
      BY <1>1, <1>3 DEF Staged, Early, Waiting
<1>4. CASE y = "line" /\ o = <<>> /\ (f.on = "tcp" => Len(t) = n) /\ (f.on = "uds" => Len(t) + 1 = n)
      BY <1>1, <1>4 DEF Staged, Early, Waiting
<1>5. CASE y = "g65" /\ o = <<>> /\ f.speaks = "g65" /\ Len(t) < n
      BY <1>1, <1>5 DEF Staged, Early, Waiting
<1>6. CASE y = "guard" /\ o = <<>> /\ Whole(f, n, t)
      BY <1>1, <1>6 DEF Staged, Early, Waiting
<1>7. CASE y \in {"serve", "compiling"} /\ Whole(f, n, t)
      BY <1>1, <1>7 DEF Staged, Early, Waiting
<1>8. CASE y = "relay" /\ o = <<>> /\ f.speaks = "btsp"
      BY <1>1, <1>8 DEF Staged, Early, Waiting
<1>9. CASE y = "verify" /\ f.speaks = "btsp"
      BY <1>1, <1>9 DEF Staged, Early, Waiting
<1> QED BY <1>2, <1>3, <1>4, <1>5, <1>6, <1>7, <1>8, <1>9, Zenon DEF Enters

\* A step without a reply that reads no line to its end.
LEMMA QuietTurn ==
    ASSUME Inv, NEW c \in Peer, NEW t \in Seq(Piece), NEW y \in StValue,
           st[c] \notin Callers \cup {"none", "queued"}, Turns(c, t, out[c], y),
           Wire(prof[c], sent[c], t), Consumed(sent[c], t) = Consumed(sent[c], in[c]),
           NoFrames(t), Enters(prof[c], sent[c], t, out[c], y),
           y \notin {"relay", "challenge", "verify", "compiling", "tarpc"}
    PROVE  Inv'
<1>1. /\ Typed(prof[c], sent[c], conn[c], in[c], out[c], st[c], pend[c])
      /\ Good(prof[c], sent[c], conn[c], in[c], out[c], st[c], pend[c])
      /\ Staged(prof[c], sent[c], conn[c], in[c], out[c], st[c])
      /\ conn[c] # "new" /\ out[c] \in Seq(ReplyType)
      BY Here
<1>2. st[c] \notin {"compiling", "tarpc", "closed"} /\ st[c] # "queued"
      BY DEF Callers
<1>3. Staged(prof[c], sent[c], conn[c], t, out[c], y)
      BY <1>1, <1>2, EntersStaged
<1>4. Typed(prof[c], sent[c], conn[c], t, out[c], y, pend[c])
      BY <1>1 DEF Typed
<1>5. Good(prof[c], sent[c], conn[c], t, out[c], y, pend[c])
      BY <1>1, <1>2, <1>3, <1>4, QuietGood
<1>6. PoolKept(c, sent[c], t, y)
      BY DEF PoolKept
<1> QED BY <1>1, <1>2, <1>5, <1>6, TurnStep

\* A step that reads a line without replying to it yet.
LEMMA ReadTurn ==
    ASSUME Inv, NEW c \in Peer, NEW t \in Seq(Piece), NEW y \in StValue,
           st[c] \notin Callers \cup {"none", "queued"}, Turns(c, t, out[c], y),
           Wire(prof[c], sent[c], t), Consumed(sent[c], t) = Consumed(sent[c], in[c]) + 1,
           NoFrames(t), Enters(prof[c], sent[c], t, out[c], y),
           y \notin {"challenge", "compiling", "tarpc", "closed"},
           y = "verify" => st[c] = "challenge",
           Asked(prof[c], sent[c], t) = Asked(prof[c], sent[c], in[c])
    PROVE  Inv'
<1>1. /\ Typed(prof[c], sent[c], conn[c], in[c], out[c], st[c], pend[c])
      /\ Good(prof[c], sent[c], conn[c], in[c], out[c], st[c], pend[c])
      /\ Staged(prof[c], sent[c], conn[c], in[c], out[c], st[c])
      /\ conn[c] # "new" /\ out[c] \in Seq(ReplyType)
      BY Here
<1>2. st[c] \notin {"compiling", "tarpc", "closed"} /\ st[c] # "queued"
      BY DEF Callers
<1>3. Staged(prof[c], sent[c], conn[c], t, out[c], y)
      BY <1>1, <1>2, EntersStaged
<1>4. Typed(prof[c], sent[c], conn[c], t, out[c], y, pend[c])
      BY <1>1 DEF Typed
<1>5. Asked(prof[c], sent[c], in[c]) \in Nat
      BY <1>1, Numbers DEF Good, Served
<1>6. Asked(prof[c], sent[c], t)
         = Asked(prof[c], sent[c], in[c]) + (IF y = "compiling" THEN 1 ELSE 0)
      BY <1>5
<1>7. Good(prof[c], sent[c], conn[c], t, out[c], y, pend[c])
      BY <1>1, <1>2, <1>3, <1>4, <1>6, ReadGood
<1>8. PoolKept(c, sent[c], t, y)
      BY DEF PoolKept
<1> QED BY <1>1, <1>2, <1>7, <1>8, TurnStep

\* A step that closes the connection without a reply.
LEMMA CloseTurn ==
    ASSUME Inv, NEW c \in Peer, NEW t \in Seq(Piece),
           st[c] \notin {"none", "queued", "tarpc", "closed"}, Turns(c, t, out[c], "closed"),
           Wire(prof[c], sent[c], t), Consumed(sent[c], t) >= Consumed(sent[c], in[c])
    PROVE  Inv'
<1>1. /\ Typed(prof[c], sent[c], conn[c], in[c], out[c], st[c], pend[c])
      /\ Good(prof[c], sent[c], conn[c], in[c], out[c], st[c], pend[c])
      /\ Served(prof[c], sent[c], in[c], out[c], st[c], pend[c])
      /\ conn[c] # "new" /\ out[c] \in Seq(ReplyType)
      BY Here
<1>2. pend[c] = {}
      BY <1>1, NoneInFlight
<1>3. Good(prof[c], sent[c], conn[c], t, out[c], "closed", {})
      BY <1>1, ClosedGood
<1>4. Good(prof[c], sent[c], conn[c], t, out[c], "closed", pend[c])
      BY <1>2, <1>3, Zenon
<1>5. PoolKept(c, sent[c], t, "closed") /\ "closed" \in StValue /\ st[c] # "queued"
      BY DEF PoolKept, StValue
<1> QED BY <1>1, <1>4, <1>5, TurnStep

\* The number of the line an unread piece of the first line belongs to is 1.
LEMMA FirstPiece ==
    ASSUME NEW f, NEW n \in Nat, NEW s \in Seq(Piece), Wire(f, n, s), s # <<>>, Len(s) = n
    PROVE  s[1].line.first = f.first
<1>1. Len(s) \in Nat /\ Len(s) >= 1
      BY LenProperties, EmptySeq
<1>2. 1 \in 1..Len(s)
      BY <1>1
<1>3. IsLine(f, LineNo(n - Len(s) + 1), s[1].line)
      BY <1>2 DEF Wire
<1>4. LineNo(n - Len(s) + 1) = 1
      BY <1>1 DEF LineNo
<1> QED BY <1>3, <1>4 DEF IsLine

\* The accept branch reads or peeks at the first byte.
LEMMA FirstByteKeeps ==
    ASSUME Inv, NEW c \in Peer, FirstByte(c)
    PROVE  Inv'
<1> DEFINE f == prof[c]
           n == sent[c]
           s == in[c]
           t == IF f.on = "uds" THEN Tail(s) ELSE s
<1>1. /\ TypeInv /\ f \in Profile /\ n \in Nat /\ s \in Seq(Piece) /\ Wire(f, n, s)
      /\ Staged(f, n, conn[c], s, out[c], st[c]) /\ out = [out EXCEPT ![c] = out[c]]
      BY Here
<1>2. st[c] = "first" /\ s # <<>>
      BY DEF FirstByte
<1>3. out[c] = <<>> /\ Len(s) = n /\ NoFrames(s)
      BY <1>1, <1>2 DEF Staged, Early, Waiting
<1>4. Dropped(s, Tail(s), 1) /\ Head(s) = s[1] /\ Len(s) >= 1 /\ Len(s) \in Nat
      BY <1>1, <1>2, TailDropped, LenProperties
<1>5. FirstLineOf(c).first = f.first
      BY <1>1, <1>2, <1>3, <1>4, FirstPiece DEF FirstLineOf
<1>6. f.on \in {"uds", "tcp"} /\ (f.first = "P" => f.speaks = "g65")
      BY <1>1, ProfileFields
<1> HIDE DEF s, n, f
<1>7. t \in Seq(Piece) /\ Wire(f, n, t) /\ NoFrames(t)
      /\ (f.on = "uds" => Len(t) + 1 = n) /\ (f.on = "tcp" => Len(t) = n)
  <2>1. CASE f.on = "uds"
    <3>1. t = Tail(s) /\ Len(t) = Len(s) - 1 /\ t \in Seq(Piece)
          /\ \A i \in 1..Len(t) : t[i] = s[i + 1]
          BY <1>4, <2>1 DEF Dropped
    <3>2. Wire(f, n, t)
      <4>1. 1 \in 0..Len(s)
            BY <1>4
      <4> QED BY <1>1, <1>4, <3>1, <4>1, DropWire
    <3> HIDE DEF t
    <3>3. NoFrames(t)
      <4> SUFFICES ASSUME NEW i \in 1..Len(t) PROVE t[i].line.kind # "frame"
          BY DEF NoFrames
      <4>1. i + 1 \in 1..Len(s)
            BY <1>4, <3>1
      <4> QED BY <1>3, <3>1, <4>1 DEF NoFrames
    <3>4. Len(t) + 1 = n
          BY <1>3, <1>4, <3>1
    <3>5. f.on # "tcp"
          BY <2>1
    <3> QED BY <3>1, <3>2, <3>3, <3>4, <3>5
  <2>2. CASE f.on = "tcp"
    <3>1. t = s /\ f.on # "uds"
          BY <2>2
    <3> QED BY <1>1, <1>3, <2>2, <3>1
  <2> QED BY <1>6, <2>1, <2>2
<1> HIDE DEF t
<1>8. Consumed(n, t) = 0 /\ Consumed(n, s) = 0 /\ Len(t) \in Nat
  <2>1. Len(t) \in Nat
        BY <1>7, LenProperties
  <2>2. Consumed(n, s) = 0
        BY <1>3, <1>4 DEF Consumed
  <2>3. Len(t) + 1 = n \/ Len(t) = n
        BY <1>6, <1>7
  <2>4. Consumed(n, t) = 0
        BY <2>1, <2>3 DEF Consumed
  <2> QED BY <2>1, <2>2, <2>4
<1>9. /\ prof' = prof /\ srv' = srv /\ sent' = sent /\ conn' = conn /\ pend' = pend /\ pool' = pool
      /\ in' = [in EXCEPT ![c] = t] /\ out' = out
      BY DEF FirstByte, net, t, s, f
<1>10. ASSUME NEW y \in StValue, Stay(c, y) \/ Leave(c, y),
              y \notin {"relay", "challenge", "verify", "compiling", "tarpc"},
              Enters(f, n, t, out[c], y)
       PROVE  Inv'
  <2>1. Turns(c, t, out[c], y)
        BY <1>1, <1>9, <1>10, LoopsAfter DEF Turns
  <2>2. st[c] \notin Callers \cup {"none", "queued"}
        BY <1>2 DEF Callers
  <2> QED BY <1>7, <1>8, <1>10, <2>1, <2>2, QuietTurn DEF f, n, s
<1>11. CASE f.first = "brace"
  <2>1. Stay(c, "line")
        BY <1>5, <1>11 DEF FirstByte
  <2>2. Enters(f, n, t, out[c], "line")
        BY <1>3, <1>7 DEF Enters
  <2> QED BY <1>10, <2>1, <2>2 DEF StValue, Early
<1>12. CASE f.first = "P" /\ f.on = "uds"
  <2>1. Stay(c, "g65")
        BY <1>5, <1>12 DEF FirstByte, f
  <2>2. Len(t) < n
        BY <1>1, <1>7, <1>8, <1>12
  <2>3. Enters(f, n, t, out[c], "g65")
        BY <1>3, <1>6, <1>12, <2>2 DEF Enters
  <2> QED BY <1>10, <2>1, <2>3 DEF StValue, Early
<1>13. CASE f.first # "brace" /\ ~(f.first = "P" /\ f.on = "uds")
  <2>1. Stay(c, "guard") \/ Leave(c, "serve")
        BY <1>5, <1>13 DEF FirstByte, f
  <2>2. Whole(f, n, t)
        BY <1>13 DEF Whole
  <2>3. Enters(f, n, t, out[c], "guard") /\ Enters(f, n, t, out[c], "serve")
        BY <1>3, <2>2 DEF Enters
  <2> QED BY <1>10, <2>1, <2>3 DEF StValue, Early
<1> QED BY <1>11, <1>12, <1>13

\* A dispatch that gives up waiting, or reading within a line, and one that
\* has its provider's answer: nothing is read to its end.
LEMMA WaitEnds ==
    ASSUME Inv, NEW c \in Peer,
           \/ NoFirstByte(c) \/ NoFirstLine(c) \/ Guard(c) \/ NegotiateEof(c)
           \/ NegotiateRefused(c) /\ prof[c].wire # "binary"
    PROVE  Inv'
<1> DEFINE f == prof[c]
           n == sent[c]
           s == in[c]
<1>1. /\ TypeInv /\ f \in Profile /\ n \in Nat /\ s \in Seq(Piece) /\ Wire(f, n, s)
      /\ Staged(f, n, conn[c], s, out[c], st[c])
      /\ in = [in EXCEPT ![c] = in[c]] /\ out = [out EXCEPT ![c] = out[c]]
      BY Here
<1>2. Len(s) \in Nat /\ Consumed(n, s) \in Nat
      BY <1>1, LenProperties DEF Consumed
<1>3. /\ prof' = prof /\ srv' = srv /\ sent' = sent /\ conn' = conn /\ pend' = pend /\ pool' = pool
      /\ in' = in /\ out' = out
  <2>1. CASE NegotiateRefused(c) /\ prof[c].wire # "binary"
        BY <1>1, <2>1, Zenon DEF NegotiateRefused, net
  <2>2. CASE NoFirstByte(c) \/ NoFirstLine(c) \/ Guard(c) \/ NegotiateEof(c)
        BY <2>2 DEF NoFirstByte, NoFirstLine, Guard, NegotiateEof, net
  <2> QED BY <2>1, <2>2
<1>4. st[c] \in {"first", "line", "guard", "g65"}
      BY DEF NoFirstByte, NoFirstLine, Guard, NegotiateEof, NegotiateRefused
<1>5. NoFrames(s) /\ out[c] = <<>>
      BY <1>1, <1>4 DEF Staged, Early, Waiting
<1>6. ASSUME NEW y, Leave(c, y) PROVE Turns(c, s, out[c], y)
      BY <1>1, <1>3, <1>6, LoopsAfter DEF Turns
<1>7. ASSUME Leave(c, "serve"), Whole(f, n, s) PROVE Inv'
  <2>1. Turns(c, s, out[c], "serve")
        BY <1>6, <1>7
  <2>2. Enters(f, n, s, out[c], "serve")
        BY <1>7 DEF Enters
  <2>3. st[c] \notin Callers \cup {"none", "queued"} /\ "serve" \in StValue
        BY <1>4 DEF Callers, StValue
  <2> QED BY <1>1, <1>5, <2>1, <2>2, <2>3, QuietTurn
<1>8. ASSUME Leave(c, "closed") PROVE Inv'
  <2>1. Turns(c, s, out[c], "closed")
        BY <1>6, <1>8
  <2>2. st[c] \notin {"none", "queued", "tarpc", "closed"} /\ Consumed(n, s) >= Consumed(n, s)
        BY <1>2, <1>4
  <2> QED BY <1>1, <2>1, <2>2, CloseTurn
<1> HIDE DEF f, n, s
<1>9. CASE NoFirstByte(c)
  <2>1. Leave(c, "serve") /\ st[c] = "first"
        BY <1>9 DEF NoFirstByte
  <2>2. Len(s) = n
        BY <1>1, <2>1 DEF Staged, Waiting
  <2>3. Whole(f, n, s)
        BY <1>2, <2>2 DEF Whole
  <2> QED BY <1>7, <2>1, <2>3
<1>10. CASE NoFirstLine(c)
  <2>1. Leave(c, "closed") \/ (f.on = "tcp" /\ Leave(c, "serve"))
        BY <1>10 DEF NoFirstLine, f
  <2>2. ASSUME f.on = "tcp" PROVE Whole(f, n, s)
    <3>1. st[c] = "line"
          BY <1>10 DEF NoFirstLine
    <3>2. Len(s) = n
          BY <1>1, <2>2, <3>1 DEF Staged
    <3> QED BY <1>2, <3>2 DEF Whole
  <2> QED BY <1>7, <1>8, <2>1, <2>2
<1>11. CASE Guard(c)
  <2>1. Leave(c, "serve") /\ st[c] = "guard"
        BY <1>11 DEF Guard
  <2>2. Whole(f, n, s)
        BY <1>1, <2>1 DEF Staged
  <2> QED BY <1>7, <2>1, <2>2
<1>12. CASE NegotiateEof(c) \/ NegotiateRefused(c)
  <2>1. Leave(c, "serve") /\ st[c] = "g65"
        BY <1>12 DEF NegotiateEof, NegotiateRefused
  <2>2. f.speaks = "g65"
        BY <1>1, <2>1 DEF Staged
  <2>3. f.first # "brace"
        BY <1>1, <2>2, ProfileFields
  <2>4. Whole(f, n, s)
        BY <2>3 DEF Whole
  <2> QED BY <1>7, <2>1, <2>4
<1> QED BY <1>9, <1>10, <1>11, <1>12

\* What is known when the server reads a line of c to its end: the rest is in
\* step with what was sent, holds no frame and does not begin within a line.
LEMMA AfterRead ==
    ASSUME Inv, NEW c \in Peer, HasLine(c), NoFrames(in[c])
    PROVE  /\ AfterLine(c) \in Seq(Piece) /\ Wire(prof[c], sent[c], AfterLine(c))
           /\ Len(AfterLine(c)) \in Nat /\ Len(AfterLine(c)) + 2 <= sent[c]
           /\ Len(AfterLine(c)) < Len(in[c])
           /\ NoFrames(AfterLine(c)) /\ Whole(prof[c], sent[c], AfterLine(c))
           /\ Consumed(sent[c], AfterLine(c)) = Consumed(sent[c], in[c]) + 1
           /\ Consumed(sent[c], in[c]) \in Nat
           /\ IsLine(prof[c], Consumed(sent[c], in[c]) + 1, FirstLineOf(c))
<1> DEFINE s == in[c]
           t == AfterLine(c)
           n == sent[c]
<1>1. TypeInv /\ s \in Seq(Piece) /\ n \in Nat /\ Wire(prof[c], n, s) /\ Len(s) \in Nat
      BY Here, LenProperties
<1>2. /\ t \in Seq(Piece) /\ Reads(n, s, t) /\ Wire(prof[c], n, t)
      /\ Consumed(n, t) = Consumed(n, s) + 1 /\ Consumed(n, s) \in Nat
      /\ IsLine(prof[c], Consumed(n, s) + 1, FirstLineOf(c))
      BY <1>1, LineRead
<1> HIDE DEF s, t, n
<1>3. Len(t) + 2 <= n /\ Len(t) < Len(s) /\ Len(t) \in Nat
      BY <1>2, LenProperties DEF Reads
<1>4. PICK j \in {1, 2} : Dropped(s, t, j)
      BY <1>2 DEF Reads
<1>5. NoFrames(t)
  <2> SUFFICES ASSUME NEW i \in 1..Len(t) PROVE t[i].line.kind # "frame"
      BY DEF NoFrames
  <2>1. Len(t) = Len(s) - j /\ t[i] = s[i + j]
        BY <1>4 DEF Dropped
  <2>2. i + j \in 1..Len(s)
        BY <1>1, <2>1
  <2> QED BY <2>1, <2>2 DEF NoFrames, s
<1>6. Whole(prof[c], n, t)
  <2>1. n # Len(t) + 1
        BY <1>1, <1>3
  <2> QED BY <2>1 DEF Whole
<1> QED BY <1>2, <1>3, <1>5, <1>6 DEF s, t, n

\* The first line is recognised: a ClientHello is consumed, anything else is
\* left to the task that serves the connection.
LEMMA FirstLineKeeps ==
    ASSUME Inv, NEW c \in Peer, FirstLine(c)
    PROVE  Inv'
<1> DEFINE f == prof[c]
           n == sent[c]
           s == in[c]
           a == AfterLine(c)
<1>1. /\ TypeInv /\ f \in Profile /\ n \in Nat /\ s \in Seq(Piece) /\ Wire(f, n, s)
      /\ Staged(f, n, conn[c], s, out[c], st[c]) /\ out = [out EXCEPT ![c] = out[c]]
      BY Here
<1>2. st[c] = "line" /\ HasLine(c)
      BY DEF FirstLine
<1>3. out[c] = <<>> /\ NoFrames(s)
      BY <1>1, <1>2 DEF Staged, Early
<1>4. /\ prof' = prof /\ srv' = srv /\ sent' = sent /\ conn' = conn /\ pend' = pend /\ pool' = pool
      /\ out' = out
      BY DEF FirstLine, net
<1>5. st[c] \notin Callers \cup {"none", "queued"}
      BY <1>2 DEF Callers
<1>6. ASSUME NEW t, NEW y, in' = [in EXCEPT ![c] = t], Leave(c, y) \/ Stay(c, y)
      PROVE  Turns(c, t, out[c], y)
      BY <1>1, <1>4, <1>6, LoopsAfter DEF Turns
<1>7. CASE FirstLineOf(c).kind # "hello"
  <2>1. Turns(c, Reinject(c), out[c], "serve")
        BY <1>6, <1>7 DEF FirstLine
  <2>2. /\ Reinject(c) \in Seq(Piece) /\ Wire(f, n, Reinject(c))
        /\ Consumed(n, Reinject(c)) = Consumed(n, s)
        /\ Reinject(c) # <<>> /\ Reinject(c)[1].part = "all" /\ NoFrames(Reinject(c))
        BY <1>1, <1>2, <1>3, LinePutBack
  <2>3. Enters(f, n, Reinject(c), out[c], "serve")
        BY <2>2 DEF Enters, Whole
  <2>4. "serve" \in StValue
        BY DEF StValue
  <2> QED BY <1>5, <2>1, <2>2, <2>3, <2>4, QuietTurn
<1>8. CASE FirstLineOf(c).kind = "hello"
  <2>1. /\ a \in Seq(Piece) /\ Wire(f, n, a) /\ NoFrames(a) /\ Whole(f, n, a)
        /\ Consumed(n, a) = Consumed(n, s) + 1 /\ Consumed(n, s) \in Nat
        /\ IsLine(f, Consumed(n, s) + 1, FirstLineOf(c))
        BY <1>2, <1>3, AfterRead
  <2> HIDE DEF f, n, s
  <2>2. f.speaks = "btsp" /\ Consumed(n, s) + 1 = 1
        BY <1>8, <2>1 DEF IsLine
  <2>3. Intros(f) = 2
        BY <2>2 DEF Intros
  <2>4. Consumed(n, s) = 0 /\ Consumed(n, a) = 1
        BY <2>1, <2>2
  <2>5. Asked(f, n, a) = 0 /\ Asked(f, n, s) = 0
        BY <2>3, <2>4 DEF Asked
  <2>6. in' = [in EXCEPT ![c] = a]
        BY <1>8 DEF FirstLine
  <2>7. ASSUME NEW y \in {"relay", "guard", "serve"}, Leave(c, y) \/ Stay(c, y) PROVE Inv'
    <3>1. Turns(c, a, out[c], y)
          BY <1>6, <2>6, <2>7
    <3>2. Enters(f, n, a, out[c], y)
          BY <1>3, <2>1, <2>2 DEF Enters
    <3>3. y \in StValue /\ y \notin {"challenge", "compiling", "tarpc", "closed"} /\ y # "verify"
          BY DEF StValue, Early
    <3>4. Asked(f, n, a) = Asked(f, n, s)
          BY <2>5
    <3> QED BY <1>5, <2>1, <3>1, <3>2, <3>3, <3>4, ReadTurn DEF f, n, s
  <2>8. ASSUME Leave(c, "closed") PROVE Inv'
    <3>1. Turns(c, a, out[c], "closed")
          BY <1>6, <2>6, <2>8
    <3>2. Consumed(n, a) >= Consumed(n, s) /\ st[c] \notin {"none", "queued", "tarpc", "closed"}
          BY <1>2, <2>4
    <3> QED BY <2>1, <3>1, <3>2, CloseTurn DEF f, n, s
  <2>9. f.on \in {"uds", "tcp"}
        BY <1>1, ProfileFields
  <2>10. Stay(c, "relay") \/ Leave(c, "closed") \/ Stay(c, "guard") \/ Leave(c, "serve")
         BY <1>8, <2>9 DEF FirstLine, f
  <2> QED BY <2>7, <2>8, <2>10
<1> QED BY <1>7, <1>8

\* A PROTOCOLS line is answered.
LEMMA NegotiateServerKeeps ==
    ASSUME Inv, NEW c \in Peer, NegotiateServer(c)
    PROVE  Inv'
<1> DEFINE f == prof[c]
           n == sent[c]
           s == in[c]
           o == out[c]
           a == AfterLine(c)
           sel == SelectProtocol(f.offers)
           y == IF sel = "tarpc" /\ conn[c] # "gone" THEN "tarpc" ELSE "serve"
<1>1. /\ TypeInv /\ f \in Profile /\ n \in Nat /\ s \in Seq(Piece) /\ Wire(f, n, s)
      /\ Staged(f, n, conn[c], s, o, st[c]) /\ o \in Seq(ReplyType)
      /\ st[c] # "none" => conn[c] # "new"
      /\ Typed(f, n, conn[c], s, o, st[c], pend[c]) /\ Good(f, n, conn[c], s, o, st[c], pend[c])
      BY Here
<1>2. st[c] = "g65" /\ HasLine(c)
      BY DEF NegotiateServer
<1>3. o = <<>> /\ NoFrames(s) /\ f.speaks = "g65" /\ conn[c] # "new"
      BY <1>1, <1>2 DEF Staged, Early
<1>4. /\ a \in Seq(Piece) /\ Wire(f, n, a) /\ NoFrames(a) /\ Whole(f, n, a)
      /\ Consumed(n, a) = Consumed(n, s) + 1 /\ Consumed(n, s) \in Nat
      /\ Len(a) \in Nat /\ Len(a) + 2 <= n /\ Len(a) < Len(s)
      BY <1>2, <1>3, AfterRead
<1>5. sel \in {"tarpc", "jsonrpc"}
      BY <1>1, ProfileFields, Selected
<1>6. Write(c, sel, 0) /\ Leave(c, y) /\ in' = [in EXCEPT ![c] = a]
      BY DEF NegotiateServer
<1>7. /\ prof' = prof /\ srv' = srv /\ sent' = sent /\ conn' = conn /\ pend' = pend /\ pool' = pool
      BY DEF NegotiateServer, net
<1> HIDE DEF sel
<1>8. /\ out' = [out EXCEPT ![c] = Written(c, sel, 0)] /\ Written(c, sel, 0) \in Seq(ReplyType)
      /\ Reply(sel, 0) \in ReplyType /\ Reply(sel, 0).kind = sel /\ Reply(sel, 0).id = 0
  <2>1. sel \in ReplyKind /\ 0 \in Nat
        BY <1>5 DEF ReplyKind
  <2> QED BY <1>1, <1>6, <2>1, WriteDoes
<1>9. Turns(c, a, Written(c, sel, 0), y)
      BY <1>1, <1>6, <1>7, <1>8, LoopsAfter DEF Turns
<1>10. st[c] \notin Callers \cup {"none", "queued"} /\ st[c] # "queued"
       BY <1>2 DEF Callers
<1>11. CASE conn[c] = "gone"
  <2>1. y = "serve" /\ Written(c, sel, 0) = o
        BY <1>11 DEF Written
  <2>2. Turns(c, a, o, "serve")
        BY <1>9, <2>1, Zenon
  <2>3. Intros(f) = 1
        BY <1>3 DEF Intros
  <2>4. n <= 2
    <3>1. Len(o) = 0
          BY <1>3
    <3> QED BY <1>1, <2>3, <3>1 DEF Staged
  <2> HIDE DEF n, s, f, a
  <2>5. Consumed(n, a) <= 1
        BY <1>1, <1>4, <2>4 DEF Consumed
  <2>6. Asked(f, n, a) = 0
        BY <1>4, <2>3, <2>5 DEF Asked
  <2>7. Consumed(n, s) <= 1
        BY <1>4, <2>5
  <2>8. Asked(f, n, s) = 0
        BY <1>4, <2>3, <2>7 DEF Asked
  <2>9. Asked(f, n, a) = Asked(f, n, s) /\ "serve" \in StValue
        BY <2>6, <2>8 DEF StValue
  <2>10. Enters(f, n, a, o, "serve")
         BY <1>4 DEF Enters
  <2> QED BY <1>4, <1>10, <2>2, <2>9, <2>10, ReadTurn DEF f, n, s, a
<1>12. CASE conn[c] # "gone"
  <2>1. Written(c, sel, 0) = Append(o, Reply(sel, 0)) /\ (y = "tarpc" <=> sel = "tarpc")
        BY <1>12 DEF Written
  <2>2. y \in {"tarpc", "serve"}
        OBVIOUS
  <2>3. Chosen(Reply(sel, 0), y)
        BY <1>5, <1>8, <2>1 DEF Chosen
  <2> HIDE DEF y, f, n, s, o, a
  <2>4. Typed(f, n, conn[c], s, o, "g65", pend[c]) /\ Good(f, n, conn[c], s, o, "g65", pend[c])
        BY <1>1, <1>2
  <2>5. Good(f, n, conn[c], a, Append(o, Reply(sel, 0)), y, pend[c])
        BY <1>3, <1>4, <1>8, <2>2, <2>3, <2>4, NegotiatedGood
  <2>6. y \in StValue /\ PoolKept(c, n, a, y)
        BY <1>10, <2>2 DEF StValue, PoolKept
  <2>7. Turns(c, a, Append(o, Reply(sel, 0)), y) /\ Append(o, Reply(sel, 0)) \in Seq(ReplyType)
        BY <1>8, <1>9, <2>1
  <2> QED BY <1>4, <1>10, <2>5, <2>6, <2>7, TurnStep DEF f, n
<1> QED BY <1>11, <1>12

\* A PROTOCOLS line that is not UTF-8 is read and not answered.
LEMMA NegotiateDropped ==
    ASSUME Inv, NEW c \in Peer, NegotiateRefused(c), prof[c].wire = "binary"
    PROVE  Inv'
<1> DEFINE f == prof[c]
           n == sent[c]
           s == in[c]
           o == out[c]
           a == AfterLine(c)
<1>1. /\ TypeInv /\ f \in Profile /\ n \in Nat /\ s \in Seq(Piece) /\ Wire(f, n, s)
      /\ Staged(f, n, conn[c], s, o, st[c]) /\ o \in Seq(ReplyType)
      /\ out = [out EXCEPT ![c] = out[c]]
      BY Here
<1>2. st[c] = "g65" /\ HasLine(c) /\ Leave(c, "serve") /\ in' = [in EXCEPT ![c] = a]
      BY DEF NegotiateRefused
<1>3. o = <<>> /\ NoFrames(s) /\ f.speaks = "g65"
      BY <1>1, <1>2 DEF Staged, Early
<1>4. /\ a \in Seq(Piece) /\ Wire(f, n, a) /\ NoFrames(a) /\ Whole(f, n, a)
      /\ Consumed(n, a) = Consumed(n, s) + 1 /\ Consumed(n, s) \in Nat
      /\ Len(a) \in Nat /\ Len(a) + 2 <= n
      BY <1>2, <1>3, AfterRead
<1>5. /\ prof' = prof /\ srv' = srv /\ sent' = sent /\ conn' = conn /\ pend' = pend /\ pool' = pool
      /\ out' = out
      BY DEF NegotiateRefused, net
<1>6. Turns(c, a, o, "serve")
      BY <1>1, <1>2, <1>5, LoopsAfter DEF Turns
<1>7. st[c] \notin Callers \cup {"none", "queued"} /\ "serve" \in StValue
      BY <1>2 DEF Callers, StValue
<1>8. Intros(f) = 1
      BY <1>3 DEF Intros
<1>9. n <= 2
  <2>1. Len(o) = 0
        BY <1>3
  <2> QED BY <1>1, <1>8, <2>1 DEF Staged
<1> HIDE DEF n, s, f, a
<1>10. Consumed(n, a) <= 1
       BY <1>1, <1>4, <1>9 DEF Consumed
<1>11. Asked(f, n, a) = 0 /\ Asked(f, n, s) = 0
  <2>1. Consumed(n, s) <= 1
        BY <1>4, <1>10
  <2> QED BY <1>4, <1>8, <1>10, <2>1 DEF Asked
<1>12. Enters(f, n, a, o, "serve")
       BY <1>4 DEF Enters
<1> QED BY <1>4, <1>6, <1>7, <1>11, <1>12, ReadTurn DEF f, n, s, a

\* The relay of a BTSP handshake.
LEMMA RelayKeeps ==
    ASSUME Inv, NEW c \in Peer, RelayCreate(c) \/ RelayChallenge(c) \/ RelayVerify(c)
    PROVE  Inv'
<1> DEFINE f == prof[c]
           n == sent[c]
           s == in[c]
           o == out[c]
           k == conn[c]
           p == pend[c]
<1>1. /\ TypeInv /\ f \in Profile /\ n \in Nat /\ s \in Seq(Piece) /\ Wire(f, n, s)
      /\ Staged(f, n, k, s, o, st[c]) /\ o \in Seq(ReplyType) /\ Served(f, n, s, o, st[c], p)
      /\ st[c] # "none" => k # "new"
      /\ Typed(f, n, k, s, o, st[c], p) /\ Good(f, n, k, s, o, st[c], p)
      /\ in = [in EXCEPT ![c] = in[c]] /\ out = [out EXCEPT ![c] = out[c]]
      BY Here
<1>2. st[c] \in {"relay", "challenge", "verify"}
      BY DEF RelayCreate, RelayChallenge, RelayVerify
<1>3. NoFrames(s) /\ f.speaks = "btsp" /\ k # "new"
      BY <1>1, <1>2 DEF Staged
<1>4. st[c] \notin Callers \cup {"none", "queued"} /\ st[c] # "queued"
      /\ st[c] \notin {"none", "queued", "tarpc", "closed"}
      BY <1>2 DEF Callers
<1>5. /\ prof' = prof /\ srv' = srv /\ sent' = sent /\ conn' = conn /\ pend' = pend /\ pool' = pool
      BY DEF RelayCreate, RelayChallenge, RelayVerify, net
<1>6. p = {} /\ Len(s) \in Nat /\ Len(o) \in Nat /\ Consumed(n, s) \in Nat
      /\ Intros(f) = 2
  <2>1. p = {} /\ IsFiniteSet(p)
        BY <1>1, <1>4, NoneInFlight
  <2>2. Intros(f) = 2
        BY <1>3 DEF Intros
  <2> QED BY <1>1, <2>1, <2>2, Numbers
<1>7. ASSUME Leave(c, "closed"), in' = in, out' = out PROVE Inv'
  <2>1. Turns(c, s, o, "closed")
        BY <1>1, <1>5, <1>7, LoopsAfter DEF Turns
  <2>2. Consumed(n, s) >= Consumed(n, s)
        BY <1>6
  <2> QED BY <1>1, <1>4, <2>1, <2>2, CloseTurn
<1>8. ASSUME NEW kind \in ReplyKind, NEW y \in StValue, Write(c, kind, 0), in' = in,
             Leave(c, y) \/ Stay(c, y), k # "gone",
             Good(f, n, k, s, Append(o, Reply(kind, 0)), y, p)
      PROVE  Inv'
  <2>1. out' = [out EXCEPT ![c] = Written(c, kind, 0)] /\ Written(c, kind, 0) \in Seq(ReplyType)
        BY <1>1, <1>8, WriteDoes
  <2>2. Written(c, kind, 0) = Append(o, Reply(kind, 0))
        BY <1>8 DEF Written
  <2>3. Turns(c, s, Append(o, Reply(kind, 0)), y)
        BY <1>1, <1>5, <1>8, <2>1, <2>2, LoopsAfter DEF Turns
  <2>4. PoolKept(c, n, s, y)
        BY <1>4 DEF PoolKept
  <2>5. Append(o, Reply(kind, 0)) \in Seq(ReplyType)
        BY <2>1, <2>2
  <2> QED BY <1>1, <1>4, <1>8, <2>3, <2>4, <2>5, TurnStep
<1>9. ASSUME NEW kind \in ReplyKind
      PROVE  Reply(kind, 0) \in ReplyType /\ Reply(kind, 0).kind = kind /\ Reply(kind, 0).id = 0
      BY DEF Reply, ReplyType
<1>10. CASE RelayCreate(c)
  <2>1. st[c] = "relay" /\ in' = in
        BY <1>10 DEF RelayCreate
  <2>2. CASE Leave(c, "closed") /\ UNCHANGED out
        BY <1>7, <2>1, <2>2
  <2>3. CASE k # "gone" /\ Write(c, "ServerHello", 0) /\ Stay(c, "challenge")
    <3>1. "ServerHello" \in ReplyKind /\ "challenge" \in StValue
          BY DEF ReplyKind, StValue
    <3>2. Greets(Reply("ServerHello", 0)) /\ Reply("ServerHello", 0) \in ReplyType
          BY <1>9, <3>1 DEF Greets
    <3> HIDE DEF f, n, s, o, k, p
    <3>3. Typed(f, n, k, s, o, "relay", p) /\ Good(f, n, k, s, o, "relay", p)
          BY <1>1, <2>1
    <3>4. Good(f, n, k, s, Append(o, Reply("ServerHello", 0)), "challenge", p)
          BY <1>3, <3>2, <3>3, HelloGood
    <3> QED BY <1>8, <2>1, <2>3, <3>1, <3>4
  <2> QED BY <1>10, <2>2, <2>3 DEF RelayCreate
<1>11. CASE RelayChallenge(c)
  <2>1. st[c] = "challenge" /\ out' = out
        BY <1>11 DEF RelayChallenge
  <2>2. CASE HasLine(c)
    <3> DEFINE a == AfterLine(c)
    <3>1. in' = [in EXCEPT ![c] = a] /\ Stay(c, "verify")
          BY <1>11, <2>2 DEF RelayChallenge
    <3>2. /\ a \in Seq(Piece) /\ Wire(f, n, a) /\ NoFrames(a)
          /\ Consumed(n, a) = Consumed(n, s) + 1
          /\ Len(a) \in Nat /\ Len(a) + 2 <= n
          BY <1>3, <2>2, AfterRead
    <3>3. Turns(c, a, o, "verify")
          BY <1>1, <1>5, <2>1, <3>1, LoopsAfter DEF Turns
    <3>4. Len(o) = 1
          BY <1>1, <2>1 DEF Served
    <3>5. n <= 3
          BY <1>1, <1>6, <3>4 DEF Staged
    <3> HIDE DEF f, n, s, o, k, p, a
    <3>6. Consumed(n, a) <= 2
          BY <1>1, <3>2, <3>5 DEF Consumed
    <3>7. Consumed(n, s) <= 2
          BY <1>6, <3>2, <3>6
    <3>8. Asked(f, n, a) = 0
          BY <1>6, <3>2, <3>6 DEF Asked
    <3>9. Asked(f, n, s) = 0
          BY <1>6, <3>7 DEF Asked
    <3>10. Asked(f, n, a) = Asked(f, n, s) /\ "verify" \in StValue
           BY <3>8, <3>9 DEF StValue
    <3>11. Enters(f, n, a, o, "verify")
           BY <1>3 DEF Enters
    <3> QED BY <1>4, <2>1, <3>2, <3>3, <3>10, <3>11, ReadTurn DEF f, n, s, o, a
  <2>3. CASE ~HasLine(c)
        BY <1>7, <1>11, <2>1, <2>3 DEF RelayChallenge
  <2> QED BY <2>2, <2>3
<1>12. CASE RelayVerify(c)
  <2>1. st[c] = "verify" /\ in' = in
        BY <1>12 DEF RelayVerify
  <2>2. Len(o) = 1 /\ Len(o) + 1 <= Consumed(n, s)
    <3>1. Len(o) = 1
          BY <1>1, <2>1 DEF Served
    <3>2. Owed(st[c], p) = 1 /\ st[c] # "closed"
          BY <2>1 DEF Owed
    <3>3. Len(o) + 1 <= Consumed(n, s) + 0
          BY <1>1, <3>2 DEF Served
    <3> QED BY <1>6, <3>1, <3>3
  <2>3. Whole(f, n, s)
    <3> HIDE DEF f, n, s, o
    <3>1. n # Len(s) + 1
      <4>1. Consumed(n, s) # 0
            BY <1>6, <2>2
      <4> QED BY <1>1, <1>6, <4>1 DEF Consumed
    <3> QED BY <3>1 DEF Whole
  <2>4. Answered(o) = Asked(f, n, s)
        BY <1>1, <2>1 DEF Served
  <2>5. ASSUME NEW kind \in ReplyKind, Write(c, kind, 0), k = "gone" PROVE out' = out
        BY <2>5 DEF Write
  <2>6. CASE Leave(c, "closed") /\ UNCHANGED out
        BY <1>7, <2>1, <2>6
  <2>7. CASE Write(c, "failed", 0) /\ Leave(c, "closed")
    <3>1. "failed" \in ReplyKind /\ "closed" \in StValue
          BY DEF ReplyKind, StValue
    <3>2. CASE k = "gone"
          BY <1>7, <2>1, <2>5, <2>7, <3>1, <3>2
    <3>3. CASE k # "gone"
      <4> DEFINE r == Reply("failed", 0)
      <4>1. r \in ReplyType /\ LastReply(f, n, r)
            BY <1>9, <3>1 DEF LastReply
      <4> HIDE DEF f, n, s, o, k, p, r
      <4>2. Len(o) + 1 <= Consumed(n, s) + (IF n = 1 THEN 1 ELSE 0)
            BY <1>6, <2>2
      <4>3. st[c] \notin {"tarpc", "closed"}
            BY <2>1
      <4>4. Good(f, n, k, s, Append(o, r), "closed", p)
            BY <1>1, <1>3, <4>1, <4>2, <4>3, RefusedGood
      <4> QED BY <1>8, <2>1, <2>7, <3>1, <3>3, <4>4 DEF r
    <3> QED BY <3>2, <3>3
  <2>8. CASE Write(c, "Complete", 0) /\ Leave(c, IF conn[c] = "gone" THEN "closed" ELSE "serve")
    <3>1. "Complete" \in ReplyKind /\ "serve" \in StValue
          BY DEF ReplyKind, StValue
    <3>2. CASE k = "gone"
          BY <1>7, <2>1, <2>5, <2>8, <3>1, <3>2
    <3>3. CASE k # "gone"
      <4> DEFINE r == Reply("Complete", 0)
      <4>1. r \in ReplyType /\ NextReply(f, o, r, Asked(f, n, s))
            BY <1>9, <2>4, <3>1 DEF NextReply
      <4>2. Leave(c, "serve")
            BY <2>8, <3>3
      <4> HIDE DEF f, n, s, o, k, p, r
      <4>3. st[c] \notin {"tarpc", "closed"}
            BY <2>1
      <4>4. Good(f, n, k, s, Append(o, r), "serve", p)
            BY <1>1, <1>3, <2>2, <2>3, <4>1, <4>3, AnsweredGood
      <4> QED BY <1>8, <2>1, <2>8, <3>1, <3>3, <4>2, <4>4 DEF r
    <3> QED BY <3>2, <3>3
  <2> QED BY <1>12, <2>6, <2>7, <2>8 DEF RelayVerify
<1> QED BY <1>10, <1>11, <1>12

\* Where the serving loop is after a reply.
Resumes(c) == IF conn[c] = "gone" THEN "closed" ELSE "serve"

\* A request of the newline loop is answered, now or by its compilation.
LEMMA AnswerGood ==
    ASSUME Inv, NEW c \in Peer, NEW t \in Seq(Piece), NEW kind \in ReplyKind, NEW id \in Nat,
           st[c] \in {"serve", "compiling"},
           Wire(prof[c], sent[c], t), NoFrames(t), Whole(prof[c], sent[c], t),
           Len(out[c]) + 1 <= Consumed(sent[c], t),
           Consumed(sent[c], t) >= Consumed(sent[c], in[c]),
           NextReply(prof[c], out[c], Reply(kind, id), Asked(prof[c], sent[c], t)),
           Write(c, kind, id)
    PROVE  /\ Good(prof[c], sent[c], conn[c], t, Written(c, kind, id), Resumes(c), pend[c])
           /\ out' = [out EXCEPT ![c] = Written(c, kind, id)]
           /\ Written(c, kind, id) \in Seq(ReplyType) /\ Resumes(c) \in StValue
           /\ st[c] # "queued" /\ pend[c] = {}
<1> DEFINE f == prof[c]
           n == sent[c]
           s == in[c]
           o == out[c]
           k == conn[c]
           p == pend[c]
           r == Reply(kind, id)
<1>1. /\ TypeInv /\ Served(f, n, s, o, st[c], p) /\ (st[c] # "none" => k # "new")
      /\ Typed(f, n, k, s, o, st[c], p) /\ Good(f, n, k, s, o, st[c], p)
      BY Here
<1>2. /\ out' = [out EXCEPT ![c] = Written(c, kind, id)]
      /\ Written(c, kind, id) \in Seq(ReplyType) /\ r \in ReplyType
      BY <1>1, WriteDoes
<1>3. st[c] \notin {"tarpc", "closed"} /\ st[c] # "tarpc" /\ st[c] # "closed"
      /\ st[c] # "queued" /\ k # "new"
      BY <1>1
<1>4. p = {}
      BY <1>1, <1>3, NoneInFlight
<1>5. Resumes(c) \in StValue
      BY DEF Resumes, StValue
<1>6. CASE k = "gone"
  <2>1. Written(c, kind, id) = o /\ Resumes(c) = "closed"
        BY <1>6 DEF Written, Resumes
  <2> HIDE DEF f, n, s, o, k, p
  <2>2. Good(f, n, k, t, o, "closed", {})
        BY <1>1, <1>3, ClosedGood DEF f, n, s, o, k, p
  <2> QED BY <1>2, <1>3, <1>4, <1>5, <2>1, <2>2 DEF f, n, s, o, k, p
<1>7. CASE k # "gone"
  <2>1. Written(c, kind, id) = Append(o, r) /\ Resumes(c) = "serve"
        BY <1>7 DEF Written, Resumes
  <2>2. Good(f, n, k, t, Append(o, r), "serve", p)
        BY <1>1, <1>2, <1>3, AnsweredGood
  <2> QED BY <1>2, <1>3, <1>4, <1>5, <2>1, <2>2
<1> QED BY <1>6, <1>7

\* A line that the newline loop reads is the next request, unless the peer is
\* not one that speaks JSON-RPC from its first byte on.
LEMMA NextLine ==
    ASSUME Inv, NEW c \in Peer, st[c] = "serve", HasLine(c)
    PROVE  /\ (FirstLineOf(c).kind # "request" \/ ~Intact(c)) =>
                 /\ Asked(prof[c], sent[c], AfterLine(c)) = Answered(out[c])
                 /\ prof[c].speaks # "jsonrpc"
           /\ ~(FirstLineOf(c).kind # "request" \/ ~Intact(c)) =>
                 /\ Asked(prof[c], sent[c], AfterLine(c)) = Answered(out[c]) + 1
                 /\ FirstLineOf(c).id = Answered(out[c]) + 1
           /\ Len(out[c]) + 1 <= Consumed(sent[c], AfterLine(c)) /\ Answered(out[c]) \in Nat
           /\ Answered(out[c]) = Asked(prof[c], sent[c], in[c])
           /\ NoFrames(in[c])
           /\ FirstLineOf(c) \in LineType
<1> DEFINE f == prof[c]
           n == sent[c]
           s == in[c]
           o == out[c]
           a == AfterLine(c)
           line == FirstLineOf(c)
           m == Consumed(n, s)
<1>1. /\ TypeInv /\ f \in Profile /\ n \in Nat /\ s \in Seq(Piece) /\ Wire(f, n, s)
      /\ Staged(f, n, conn[c], s, o, st[c]) /\ o \in Seq(ReplyType)
      /\ Served(f, n, s, o, st[c], pend[c])
      /\ Typed(f, n, conn[c], s, o, st[c], pend[c])
      BY Here
<1>2. NoFrames(s) /\ Whole(f, n, s)
      BY <1>1 DEF Staged
<1>3. /\ Consumed(n, a) = m + 1 /\ m \in Nat /\ IsLine(f, m + 1, line)
      BY <1>2, AfterRead
<1>4. line \in LineType /\ line = s[1].line /\ (s[1].part = "tail" => n = Len(s) + 1)
      /\ Head(s) = s[1] /\ s # <<>>
      BY <1>1, LineRead
<1>5. Answered(o) = Asked(f, n, s) /\ Len(o) \in Nat /\ Answered(o) \in Nat /\ Intros(f) \in 0..2
      /\ Len(s) \in Nat
      BY <1>1, Numbers DEF Served
<1>6. Len(o) + 1 <= Consumed(n, a)
  <2>1. Len(o) + Owed(st[c], pend[c]) <= Consumed(n, s) + 0
        BY <1>1 DEF Served
  <2>2. Owed(st[c], pend[c]) \in Nat
        BY <1>1, Numbers DEF Served
  <2> QED BY <1>3, <1>5, <2>1, <2>2
<1>7. line.kind # "frame"
  <2>1. 1 \in 1..Len(s)
        BY <1>1, <1>4, <1>5, EmptySeq
  <2> QED BY <1>2, <1>4, <2>1 DEF NoFrames
<1>8. Intact(c) <=> (s[1].part = "tail" => line.first = "blank")
      BY <1>4 DEF Intact, FirstLineOf
<1>9. f.first = "P" => f.speaks = "g65"
      BY <1>1, ProfileFields
<1>10. f.first \in {"brace", "blank", "P"} /\ f.speaks \in {"jsonrpc", "g65", "btsp"}
       BY <1>1, ProfileFields
<1> HIDE DEF f, n, s, o, a, line, m
<1>11. ASSUME m + 1 <= Intros(f)
       PROVE  Asked(f, n, a) = Answered(o) /\ f.speaks # "jsonrpc"
  <2>1. Asked(f, n, a) = 0 /\ Asked(f, n, s) = 0
    <3>1. ~(m + 1 > Intros(f)) /\ ~(m > Intros(f))
          BY <1>3, <1>5, <1>11
    <3> QED BY <1>3, <3>1 DEF Asked, m
  <2>2. f.speaks # "jsonrpc"
    <3>1. Intros(f) # 0
          BY <1>3, <1>5, <1>11
    <3> QED BY <3>1 DEF Intros
  <2> QED BY <1>5, <2>1, <2>2
<1>12. ASSUME line.kind # "request" \/ ~Intact(c) PROVE m + 1 <= Intros(f)
  <2>1. CASE line.kind # "request"
    <3>1. ~(m + 1 > Intros(f))
          BY <1>3, <1>7, <2>1 DEF IsLine
    <3> QED BY <1>3, <1>5, <3>1
  <2>2. CASE ~Intact(c)
    <3>1. s[1].part = "tail" /\ line.first # "blank"
          BY <1>8, <2>2
    <3>2. n = Len(s) + 1
          BY <1>4, <3>1
    <3>3. m = 0
          BY <1>5, <3>2 DEF Consumed, m
    <3>4. line.first = f.first
          BY <1>3, <3>3 DEF IsLine
    <3>5. f.first # "brace"
          BY <1>2, <3>1, <3>2 DEF Whole
    <3>6. f.speaks = "g65"
          BY <1>9, <1>10, <3>1, <3>4, <3>5
    <3>7. Intros(f) = 1
          BY <3>6 DEF Intros
    <3> QED BY <3>3, <3>7
  <2> QED BY <1>12, <2>1, <2>2
<1>13. ASSUME line.kind = "request"
       PROVE  Asked(f, n, a) = Answered(o) + 1 /\ line.id = Answered(o) + 1
  <2>1. m + 1 > Intros(f)
        BY <1>3, <1>13 DEF IsLine
  <2>2. line.id = (m + 1) - Intros(f)
        BY <1>3, <1>5, <2>1 DEF IsLine
  <2>3. Asked(f, n, a) = (m + 1) - Intros(f)
    <3>1. Consumed(n, a) > Intros(f)
          BY <1>3, <2>1
    <3>2. Asked(f, n, a) = Consumed(n, a) - Intros(f)
          BY <3>1, Zenon DEF Asked
    <3>3. Consumed(n, a) = m + 1
          BY <1>3
    <3> QED BY <3>2, <3>3, Zenon
  <2>4. Asked(f, n, s) = m - Intros(f)
    <3>1. CASE m > Intros(f)
          BY <1>3, <3>1 DEF Asked, m
    <3>2. CASE ~(m > Intros(f))
      <4>1. m - Intros(f) = 0
            BY <1>3, <1>5, <2>1, <3>2
      <4> QED BY <1>3, <3>2, <4>1 DEF Asked, m
    <3> QED BY <3>1, <3>2
  <2> QED BY <1>3, <1>5, <2>2, <2>3, <2>4
<1> QED BY <1>2, <1>4, <1>5, <1>6, <1>11, <1>12, <1>13 DEF f, n, s, o, a, line

\* A compilation is submitted: its caller has no other, or does not wait for it.
LEMMA Submitted ==
    ASSUME Inv, NEW c \in Peer, NEW s \in Seq(Piece), NEW x \in StValue, NEW p \in SUBSET LineType,
           NEW id \in Nat,
           Becomes(c, sent[c], conn[c], s, out[c], x, p),
           Good(prof[c], sent[c], conn[c], s, out[c], x, p),
           pool' = Append(pool, [peer |-> c, id |-> id]),
           queue' = queue, busy' = busy, st[c] # "queued",
           \/ x = "compiling" /\ st[c] \notin Callers /\ id = Asked(prof[c], sent[c], s)
           \/ x = "tarpc" /\ st[c] = "tarpc"
    PROVE  Inv'
<1> DEFINE e == [peer |-> c, id |-> id]
<1>1. TypeInv /\ Queued /\ Pooled /\ prof[c] \in Profile /\ sent[c] \in Nat /\ conn[c] \in ConnValue
      /\ out[c] \in Seq(ReplyType)
      BY Here DEF Inv
<1>2. Typed(prof[c], sent[c], conn[c], s, out[c], x, p)
      BY <1>1 DEF Typed
<1>3. pool \in Seq([peer : Peer, id : Nat]) /\ Len(pool) \in Nat
      BY <1>1, LenProperties DEF TypeInv
<1>4. e \in [peer : Peer, id : Nat] /\ e.peer = c /\ e.id = id
      OBVIOUS
<1> HIDE DEF e
<1>5. /\ pool' \in Seq([peer : Peer, id : Nat]) /\ Len(pool') = Len(pool) + 1
      /\ \A i \in 1..Len(pool) : pool'[i] = pool[i]
      /\ pool'[Len(pool) + 1] = e
      BY <1>3, <1>4, AppendProperties DEF e
<1>6. prof' = prof /\ sent'[c] = sent[c] /\ in'[c] = s /\ st'[c] = x
      BY <1>1, <1>2, RowsAfter
<1>7. \A d \in Peer : d # c => sent'[d] = sent[d] /\ in'[d] = in[d] /\ st'[d] = st[d]
      BY <1>1, <1>2, RowsAfter
<1>8. queue' \in [Listener -> Seq(Peer)] /\ busy' \in [Listener -> Peer \cup {NoPeer}]
      BY <1>1 DEF TypeInv
<1>9. Queued'
      BY <1>2, QueuedKept
<1>10. ASSUME NEW i \in 1..Len(pool)
       PROVE  /\ pool[i].peer \in Peer /\ st[pool[i].peer] \in Callers
              /\ st[pool[i].peer] = "compiling" =>
                    /\ pool[i].id = Asked(prof[pool[i].peer], sent[pool[i].peer], in[pool[i].peer])
                    /\ \A j \in 1..Len(pool) : pool[j].peer = pool[i].peer => j = i
  <2>1. pool[i] \in [peer : Peer, id : Nat]
        BY <1>3, ElementOfSeq
  <2>2. pool[i].peer \in Peer
        BY <2>1
  <2> QED BY <1>1, <2>2 DEF Pooled, Callers
<1>11. Pooled'
  <2> SUFFICES ASSUME NEW i \in 1..(Len(pool) + 1)
               PROVE  /\ st'[pool'[i].peer] \in Callers
                      /\ st'[pool'[i].peer] = "compiling" =>
                            /\ pool'[i].id = Asked(prof[pool'[i].peer], sent'[pool'[i].peer],
                                                   in'[pool'[i].peer])
                            /\ \A j \in 1..(Len(pool) + 1) :
                                  pool'[j].peer = pool'[i].peer => j = i
      BY <1>5, <1>6, Zenon DEF Pooled, Callers
  <2>1. CASE i \in 1..Len(pool) /\ pool[i].peer # c
    <3>1. pool'[i] = pool[i]
          BY <1>5, <2>1
    <3>2. /\ sent'[pool[i].peer] = sent[pool[i].peer] /\ in'[pool[i].peer] = in[pool[i].peer]
          /\ st'[pool[i].peer] = st[pool[i].peer]
          BY <1>7, <1>10, <2>1
    <3>3. ASSUME st[pool[i].peer] = "compiling", NEW j \in 1..(Len(pool) + 1),
                 pool'[j].peer = pool[i].peer
          PROVE  j = i
      <4>1. CASE j \in 1..Len(pool)
            BY <1>5, <1>10, <2>1, <3>3, <4>1
      <4>2. CASE j = Len(pool) + 1
            BY <1>4, <1>5, <2>1, <3>3, <4>2
      <4> QED BY <1>3, <4>1, <4>2
    <3> QED BY <1>10, <2>1, <3>1, <3>2, <3>3
  <2>2. CASE i \in 1..Len(pool) /\ pool[i].peer = c
    <3>1. x = "tarpc"
          BY <1>10, <2>2
    <3>2. st'[pool'[i].peer] = "tarpc"
          BY <1>5, <1>6, <2>2, <3>1
    <3> QED BY <3>2 DEF Callers
  <2>3. CASE i = Len(pool) + 1
    <3>1. pool'[i] = e
          BY <1>5, <2>3
    <3>2. st'[e.peer] = x /\ x \in Callers
          BY <1>4, <1>6 DEF Callers
    <3>3. ASSUME x = "compiling"
          PROVE  /\ e.id = Asked(prof[e.peer], sent'[e.peer], in'[e.peer])
                 /\ \A j \in 1..(Len(pool) + 1) : pool'[j].peer = e.peer => j = i
      <4>1. st[c] \notin Callers /\ id = Asked(prof[c], sent[c], s)
            BY <3>3
      <4>2. e.id = Asked(prof[e.peer], sent'[e.peer], in'[e.peer])
            BY <1>4, <1>6, <4>1
      <4>3. ASSUME NEW j \in 1..(Len(pool) + 1), pool'[j].peer = e.peer PROVE j = i
        <5>1. ~(j \in 1..Len(pool))
              BY <1>4, <1>5, <1>10, <4>1, <4>3
        <5> QED BY <1>3, <2>3, <5>1
      <4> QED BY <4>2, <4>3
    <3> QED BY <3>1, <3>2, <3>3, Zenon
  <2> QED BY <1>3, <2>1, <2>2, <2>3
<1> QED BY <1>2, <1>5, <1>8, <1>9, <1>11, PeerStep

\* process_newline_reader_writer reads a line.
LEMMA ServeLineKeeps ==
    ASSUME Inv, NEW c \in Peer, ServeLine(c)
    PROVE  Inv'
<1> DEFINE f == prof[c]
           n == sent[c]
           o == out[c]
           a == AfterLine(c)
           line == FirstLineOf(c)
<1>1. TypeInv /\ o \in Seq(ReplyType)
      BY Here
<1>2. st[c] = "serve" /\ HasLine(c) /\ in' = [in EXCEPT ![c] = a]
      BY DEF ServeLine
<1>3. /\ (line.kind # "request" \/ ~Intact(c)) =>
            Asked(f, n, a) = Answered(o) /\ f.speaks # "jsonrpc"
      /\ ~(line.kind # "request" \/ ~Intact(c)) =>
            Asked(f, n, a) = Answered(o) + 1 /\ line.id = Answered(o) + 1
      /\ Len(o) + 1 <= Consumed(n, a) /\ Answered(o) \in Nat
      /\ Answered(o) = Asked(f, n, in[c]) /\ NoFrames(in[c]) /\ line \in LineType
      BY <1>2, NextLine
<1>4. /\ a \in Seq(Piece) /\ Wire(f, n, a) /\ NoFrames(a) /\ Whole(f, n, a)
      /\ Consumed(n, a) = Consumed(n, in[c]) + 1 /\ Consumed(n, in[c]) \in Nat
      BY <1>2, <1>3, AfterRead
<1>5. Consumed(n, a) >= Consumed(n, in[c])
      BY <1>4
<1>6. /\ prof' = prof /\ srv' = srv /\ sent' = sent /\ conn' = conn /\ pend' = pend
      BY DEF ServeLine, net
<1>7. st[c] \notin Callers /\ st[c] # "queued" /\ st[c] \notin Callers \cup {"none", "queued"}
      BY <1>2 DEF Callers
<1>8. ASSUME NEW kind \in ReplyKind, NEW id \in Nat, Answer(c, kind, id), pool' = pool,
             NextReply(f, o, Reply(kind, id), Asked(f, n, a))
      PROVE  Inv'
  <2>1. Write(c, kind, id) /\ Stay(c, Resumes(c))
        BY <1>8 DEF Answer, Resumes
  <2>2. /\ Good(f, n, conn[c], a, Written(c, kind, id), Resumes(c), pend[c])
        /\ out' = [out EXCEPT ![c] = Written(c, kind, id)]
        /\ Written(c, kind, id) \in Seq(ReplyType) /\ Resumes(c) \in StValue
        BY <1>2, <1>3, <1>4, <1>5, <1>8, <2>1, AnswerGood
  <2>3. Turns(c, a, Written(c, kind, id), Resumes(c))
        BY <1>1, <1>2, <1>6, <1>8, <2>1, <2>2, LoopsAfter DEF Turns
  <2>4. PoolKept(c, n, a, Resumes(c))
        BY <1>7 DEF PoolKept
  <2> QED BY <1>4, <1>7, <2>2, <2>3, <2>4, TurnStep
<1>9. ASSUME NEW kind \in ReplyKind, NEW id \in Nat
      PROVE  Reply(kind, id).kind = kind /\ Reply(kind, id).id = id
      BY DEF Reply
<1>10. CASE line.kind # "request" \/ ~Intact(c)
  <2>1. Answer(c, "parse error", 0) /\ pool' = pool
        BY <1>10 DEF ServeLine
  <2>2. "parse error" \in ReplyKind
        BY DEF ReplyKind
  <2>3. Reply("parse error", 0).kind = "parse error" /\ Reply("parse error", 0).id = 0
        BY <1>9, <2>2
  <2>4. NextReply(f, o, Reply("parse error", 0), Asked(f, n, a))
        BY <1>3, <1>10, <2>3 DEF NextReply
  <2> QED BY <1>8, <2>1, <2>2, <2>4
<1>11. CASE ~(line.kind # "request" \/ ~Intact(c))
  <2>1. Asked(f, n, a) = Answered(o) + 1 /\ line.id = Answered(o) + 1 /\ line.id \in Nat
        BY <1>3, <1>11
  <2>2. ASSUME NEW kind \in {"answer", "refused"}, Answer(c, kind, line.id), pool' = pool
        PROVE  Inv'
    <3>1. kind \in ReplyKind /\ kind # "tarpc" /\ kind # "parse error"
          BY DEF ReplyKind
    <3>2. Reply(kind, line.id).kind = kind /\ Reply(kind, line.id).id = line.id
          BY <1>9, <2>1, <3>1
    <3>3. NextReply(f, o, Reply(kind, line.id), Asked(f, n, a))
          BY <2>1, <3>1, <3>2 DEF NextReply
    <3> QED BY <1>8, <2>1, <2>2, <3>1, <3>3
  <2>3. CASE Answer(c, "answer", line.id) /\ pool' = pool
        BY <2>2, <2>3
  <2>4. CASE Answer(c, NegotiateOutcome(c), line.id) /\ pool' = pool
    <3>1. NegotiateOutcome(c) \in {"answer", "refused"}
          BY DEF NegotiateOutcome
    <3> QED BY <2>2, <2>4, <3>1
  <2>5. CASE /\ pool' = Append(pool, [peer |-> c, id |-> line.id])
             /\ Stay(c, "compiling") /\ UNCHANGED out
    <3>1. /\ Typed(f, n, conn[c], in[c], o, st[c], pend[c]) /\ conn[c] # "new"
          /\ Good(f, n, conn[c], in[c], o, st[c], pend[c])
          /\ Staged(f, n, conn[c], in[c], o, st[c])
          /\ pend[c] \in SUBSET LineType /\ out = [out EXCEPT ![c] = out[c]]
          BY <1>2, Here
    <3>2. Enters(f, n, a, o, "compiling") /\ "compiling" \in StValue
          BY <1>4 DEF Enters, StValue
    <3>3. Staged(f, n, conn[c], a, o, "compiling")
          BY <1>2, <1>4, <3>1, <3>2, EntersStaged
    <3>4. Typed(f, n, conn[c], a, o, "compiling", pend[c])
          BY <1>4, <3>1, <3>2 DEF Typed
    <3>5. Asked(f, n, a) = Asked(f, n, in[c]) + (IF "compiling" = "compiling" THEN 1 ELSE 0)
          BY <1>3, <2>1
    <3>6. st[c] \notin {"compiling", "tarpc", "closed"}
          BY <1>2
    <3>7. Good(f, n, conn[c], a, o, "compiling", pend[c])
          BY <1>4, <3>1, <3>3, <3>4, <3>5, <3>6, ReadGood
    <3>8. Becomes(c, n, conn[c], a, o, "compiling", pend[c])
      <4>1. /\ sent = [sent EXCEPT ![c] = sent[c]] /\ conn = [conn EXCEPT ![c] = conn[c]]
            /\ pend = [pend EXCEPT ![c] = pend[c]]
            BY <1>1 DEF TypeInv
      <4>2. st' = [st EXCEPT ![c] = "compiling"] /\ out' = out
            BY <2>5 DEF Stay
      <4> QED BY <1>2, <1>6, <3>1, <4>1, <4>2, Zenon DEF Becomes
    <3>9. queue' = queue /\ busy' = busy
          BY <2>5 DEF Stay, loops
    <3>10. line.id = Asked(f, n, a)
           BY <2>1
    <3> QED BY <1>4, <1>7, <2>1, <2>5, <3>1, <3>2, <3>7, <3>8, <3>9, <3>10, Submitted
  <2> QED BY <1>11, <2>3, <2>4, <2>5 DEF ServeLine
<1> QED BY <1>10, <1>11

\* The stream of a connection ends.
LEMMA ServeEofKeeps ==
    ASSUME Inv, NEW c \in Peer, ServeEof(c)
    PROVE  Inv'
<1> DEFINE f == prof[c]
           n == sent[c]
           s == in[c]
           o == out[c]
           k == conn[c]
           p == pend[c]
<1>1. /\ TypeInv /\ f \in Profile /\ n \in Nat /\ s \in Seq(Piece) /\ Wire(f, n, s)
      /\ Staged(f, n, k, s, o, st[c]) /\ o \in Seq(ReplyType) /\ Served(f, n, s, o, st[c], p)
      /\ st[c] # "none" => k # "new"
      /\ Typed(f, n, k, s, o, st[c], p) /\ Good(f, n, k, s, o, st[c], p)
      /\ out = [out EXCEPT ![c] = out[c]]
      BY Here
<1>2. /\ st[c] = "serve" /\ ~HasLine(c) /\ Stay(c, "closed") /\ in' = [in EXCEPT ![c] = <<>>]
      /\ prof' = prof /\ srv' = srv /\ sent' = sent /\ conn' = conn /\ pend' = pend /\ pool' = pool
      BY DEF ServeEof, net
<1>3. NoFrames(s) /\ k # "new"
      BY <1>1, <1>2 DEF Staged
<1>4. Len(s) \in Nat /\ Len(o) \in Nat /\ Consumed(n, s) \in Nat /\ Len(s) <= n
      BY <1>1, Numbers DEF Served, Wire
<1>5. /\ <<>> \in Seq(Piece) /\ Len(<<>>) = 0 /\ NoFrames(<<>>)
      BY DEF NoFrames
<1>6. Wire(f, n, <<>>)
      BY <1>1 DEF Wire
<1> HIDE DEF f, n, s, o, k, p
<1>7. Consumed(n, <<>>) \in Nat /\ Consumed(n, <<>>) >= Consumed(n, s)
      BY <1>1, <1>4, <1>5 DEF Consumed
<1>8. ASSUME out' = out PROVE Inv'
  <2>1. Turns(c, <<>>, out[c], "closed")
        BY <1>1, <1>2, <1>8, LoopsAfter DEF Turns, o
  <2>2. st[c] \notin {"none", "queued", "tarpc", "closed"}
        BY <1>2
  <2> QED BY <1>5, <1>6, <1>7, <2>1, <2>2, CloseTurn DEF f, n, s
<1>9. CASE ~(s # <<>> /\ FirstLineOf(c).first # "blank")
      BY <1>8, <1>9 DEF ServeEof, s
<1>10. CASE s # <<>> /\ FirstLineOf(c).first # "blank"
  <2>1. Write(c, "parse error", 0)
        BY <1>10 DEF ServeEof, s
  <2>2. Head(s) = s[1] /\ 1 \in 1..Len(s)
        BY <1>1, <1>4, <1>10, TailDropped
  <2>3. s[1].line.kind # "frame"
        BY <1>3, <2>2 DEF NoFrames
  <2>4. s[1].part = "head" /\ ~(Len(s) > 1)
        BY <1>2, <1>10, <2>2, <2>3 DEF HasLine, s
  <2>5. n - Len(s) + 1 = 1
        BY <1>1, <2>2, <2>4 DEF Wire
  <2>6. n = 1
        BY <1>1, <1>4, <2>2, <2>4, <2>5
  <2>7. Len(o) = 0
    <3>1. Len(s) = 1
      <4>1. \A m \in Nat : 1 \in 1..m /\ ~(m > 1) => m = 1
            OBVIOUS
      <4> QED BY <1>4, <2>2, <2>4, <4>1, Zenon
    <3>2. Consumed(n, s) = 0
          BY <2>6, <3>1 DEF Consumed
    <3>3. Len(o) + Owed(st[c], p) <= Consumed(n, s) + 0
          BY <1>1, <1>2 DEF Served
    <3>4. Owed(st[c], p) \in Nat
          BY <1>1, Numbers DEF Served
    <3> QED BY <1>4, <3>2, <3>3, <3>4
  <2>8. "parse error" \in ReplyKind /\ 0 \in Nat
        BY DEF ReplyKind
  <2>9. /\ out' = [out EXCEPT ![c] = Written(c, "parse error", 0)]
        /\ Written(c, "parse error", 0) \in Seq(ReplyType)
        /\ Reply("parse error", 0) \in ReplyType
        /\ Reply("parse error", 0).kind = "parse error" /\ Reply("parse error", 0).id = 0
    <3>1. ASSUME NEW kind \in ReplyKind, NEW id \in Nat, Write(c, kind, id)
          PROVE  /\ out' = [out EXCEPT ![c] = Written(c, kind, id)]
                 /\ Written(c, kind, id) \in Seq(ReplyType)
          BY <1>1, <3>1, WriteDoes
    <3>2. ASSUME NEW kind \in ReplyKind
          PROVE  /\ Reply(kind, 0) \in ReplyType
                 /\ Reply(kind, 0).kind = kind /\ Reply(kind, 0).id = 0
          BY DEF Reply, ReplyType
    <3> QED BY <2>1, <2>8, <3>1, <3>2
  <2>10. CASE k = "gone"
    <3>1. out' = out
          BY <2>1, <2>10 DEF Write, k
    <3> QED BY <1>8, <3>1
  <2>11. CASE k # "gone"
    <3> DEFINE r == Reply("parse error", 0)
    <3>1. Written(c, "parse error", 0) = Append(o, r)
          BY <2>11 DEF Written, k, o
    <3>2. LastReply(f, n, r) /\ r \in ReplyType
          BY <2>6, <2>9 DEF LastReply
    <3> HIDE DEF r
    <3>3. Len(o) + 1 <= Consumed(n, <<>>) + (IF n = 1 THEN 1 ELSE 0)
          BY <1>7, <2>6, <2>7
    <3>4. st[c] \notin {"tarpc", "closed"} /\ st[c] # "queued" /\ "closed" \in StValue
          BY <1>2 DEF StValue
    <3>5. Good(f, n, k, <<>>, Append(o, r), "closed", p)
          BY <1>1, <1>3, <1>5, <1>6, <3>2, <3>3, <3>4, RefusedGood
    <3>6. Turns(c, <<>>, Append(o, r), "closed")
          BY <1>1, <1>2, <2>9, <3>1, LoopsAfter DEF Turns
    <3>7. PoolKept(c, n, <<>>, "closed") /\ Append(o, r) \in Seq(ReplyType)
          BY <2>9, <3>1 DEF PoolKept
    <3> QED BY <1>5, <3>4, <3>5, <3>6, <3>7, TurnStep DEF f, n, k, p
  <2> QED BY <2>10, <2>11
<1> QED BY <1>9, <1>10

\* Rows that a step assigns their own value.
LEMMA OwnRows ==
    ASSUME TypeInv, NEW c \in Peer
    PROVE  /\ sent = [sent EXCEPT ![c] = sent[c]] /\ conn = [conn EXCEPT ![c] = conn[c]]
           /\ in = [in EXCEPT ![c] = in[c]] /\ out = [out EXCEPT ![c] = out[c]]
           /\ st = [st EXCEPT ![c] = st[c]] /\ pend = [pend EXCEPT ![c] = pend[c]]
BY DEF TypeInv

\* handle_tarpc_negotiated takes a request from the stream.
LEMMA TarpcFrameKeeps ==
    ASSUME Inv, NEW c \in Peer, TarpcFrame(c)
    PROVE  Inv'
<1> DEFINE f == prof[c]
           n == sent[c]
           s == in[c]
           o == out[c]
           k == conn[c]
           p == pend[c]
           e == s[1].line
           q == p \cup {e}
<1>1. /\ TypeInv /\ f \in Profile /\ n \in Nat /\ s \in Seq(Piece)
      /\ Staged(f, n, k, s, o, st[c]) /\ p \in SUBSET LineType
      /\ Typed(f, n, k, s, o, st[c], p) /\ Good(f, n, k, s, o, st[c], p)
      BY Here
<1>2. st[c] = "tarpc" /\ s # <<>>
      BY DEF TarpcFrame
<1>3. Dropped(s, Tail(s), 1) /\ Head(s) = s[1] /\ Len(s) >= 1 /\ Len(s) \in Nat
      BY <1>1, <1>2, TailDropped, LenProperties
<1>4. Tail(s) \in Seq(Piece)
      BY <1>3 DEF Dropped
<1>5. 1 \in 1..Len(s)
      BY <1>3
<1>6. s[1] \in Piece
      BY <1>1, <1>5, ElementOfSeq
<1>7. e \in LineType /\ e.id \in Nat
      BY <1>6 DEF Piece, LineType
<1>8. e.kind = "frame"
  <2>1. Frames(s)
        BY <1>1, <1>2 DEF Staged
  <2> QED BY <1>5, <2>1 DEF Frames
<1>9. FirstLineOf(c) = e
      BY <1>3 DEF FirstLineOf
<1>10. /\ pend' = [pend EXCEPT ![c] = q] /\ st' = st /\ in' = [in EXCEPT ![c] = Tail(s)]
       /\ pool' = IF e.work = "compile" THEN Append(pool, [peer |-> c, id |-> e.id]) ELSE pool
  <2>1. /\ pend' = [pend EXCEPT ![c] = @ \cup {e}] /\ st' = st
        /\ pool' = IF e.work = "compile" THEN Append(pool, [peer |-> c, id |-> e.id]) ELSE pool
        /\ in' = [in EXCEPT ![c] = Tail(@)]
        BY <1>8, <1>9 DEF TarpcFrame
  <2> QED BY <1>1, <2>1 DEF TypeInv
<1>11. /\ prof' = prof /\ srv' = srv /\ sent' = sent /\ conn' = conn /\ out' = out
       /\ queue' = queue /\ busy' = busy
       BY DEF TarpcFrame, net, loops
<1>12. Good(f, n, k, Tail(s), o, "tarpc", q)
  <2> HIDE DEF f, n, s, o, k, p
  <2> QED BY <1>1, <1>2, FrameGood
<1>13. q \in SUBSET LineType /\ "tarpc" \in StValue
       BY <1>1, <1>7 DEF StValue
<1> HIDE DEF q
<1>14. Becomes(c, n, k, Tail(s), o, "tarpc", q)
  <2>1. /\ sent = [sent EXCEPT ![c] = sent[c]] /\ conn = [conn EXCEPT ![c] = conn[c]]
        /\ out = [out EXCEPT ![c] = out[c]] /\ st = [st EXCEPT ![c] = "tarpc"]
        BY <1>1, <1>2, OwnRows
  <2> QED BY <1>10, <1>11, <2>1, Zenon DEF Becomes
<1>15. CASE e.work = "compile"
  <2>1. pool' = Append(pool, [peer |-> c, id |-> e.id])
        BY <1>10, <1>15
  <2>2. st[c] # "queued"
        BY <1>2
  <2> HIDE DEF e
  <2> QED BY <1>2, <1>4, <1>7, <1>11, <1>12, <1>13, <1>14, <2>1, <2>2, Submitted
<1>16. CASE e.work # "compile"
  <2>1. pool' = pool /\ busy' \in [Listener -> Peer \cup {NoPeer}]
        BY <1>1, <1>10, <1>11, <1>16 DEF TypeInv
  <2>2. PoolKept(c, n, Tail(s), "tarpc") /\ st[c] # "queued"
        BY <1>2 DEF PoolKept
  <2>3. Typed(f, n, k, Tail(s), o, "tarpc", q)
        BY <1>1, <1>4, <1>13 DEF Typed
  <2> QED BY <1>11, <1>12, <1>14, <2>1, <2>2, <2>3, PlainStep
<1> QED BY <1>15, <1>16

\* A tarpc task ends with a reply, or the channel ends.
LEMMA TarpcEnds ==
    ASSUME Inv, NEW c \in Peer, (\E r \in pend[c] : TarpcReply(c, r)) \/ TarpcEof(c)
    PROVE  Inv'
<1> DEFINE f == prof[c]
           n == sent[c]
           s == in[c]
           o == out[c]
           k == conn[c]
           p == pend[c]
<1>1. /\ TypeInv /\ f \in Profile /\ n \in Nat /\ s \in Seq(Piece) /\ o \in Seq(ReplyType)
      /\ Staged(f, n, k, s, o, st[c]) /\ p \in SUBSET LineType /\ k \in ConnValue
      /\ Wire(f, n, s) /\ Served(f, n, s, o, st[c], p) /\ (st[c] # "none" => k # "new")
      /\ Typed(f, n, k, s, o, st[c], p) /\ Good(f, n, k, s, o, st[c], p)
      BY Here
<1>2. /\ prof' = prof /\ srv' = srv /\ sent' = sent /\ conn' = conn /\ in' = in
      /\ queue' = queue /\ busy' = busy /\ pool' = pool /\ st[c] = "tarpc"
      BY DEF TarpcReply, TarpcEof, net, loops
<1>3. busy' \in [Listener -> Peer \cup {NoPeer}] /\ st[c] # "queued"
      BY <1>1, <1>2 DEF TypeInv
<1>4. ASSUME NEW w \in SUBSET LineType, NEW v \in Seq(ReplyType), NEW x \in {"tarpc", "closed"},
             pend' = [pend EXCEPT ![c] = w], out' = [out EXCEPT ![c] = v],
             st' = [st EXCEPT ![c] = x], Good(f, n, k, s, v, x, w)
      PROVE  Inv'
  <2>1. /\ sent = [sent EXCEPT ![c] = sent[c]] /\ conn = [conn EXCEPT ![c] = conn[c]]
        /\ in = [in EXCEPT ![c] = in[c]]
        BY <1>1, OwnRows
  <2>2. Becomes(c, n, k, s, v, x, w)
        BY <1>2, <1>4, <2>1, Zenon DEF Becomes
  <2>3. Typed(f, n, k, s, v, x, w) /\ PoolKept(c, n, s, x)
        BY <1>1 DEF Typed, StValue, PoolKept
  <2> QED BY <1>2, <1>3, <1>4, <2>2, <2>3, PlainStep
<1>5. ASSUME NEW r \in p, TarpcReply(c, r) PROVE Inv'
  <2> DEFINE kind == IF r.work = "compile" THEN "deadline" ELSE "answer"
  <2>1. r \in LineType /\ r.id \in Nat
        BY <1>1 DEF LineType
  <2>2. kind \in ReplyKind /\ kind \in {"answer", "deadline"}
        BY DEF ReplyKind
  <2>3. Write(c, kind, r.id) /\ pend' = [pend EXCEPT ![c] = p \ {r}] /\ st' = st
    <3>1. Write(c, kind, r.id) /\ pend' = [pend EXCEPT ![c] = @ \ {r}] /\ st' = st
          BY <1>5 DEF TarpcReply
    <3> QED BY <1>1, <3>1 DEF TypeInv
  <2> HIDE DEF kind
  <2>4. /\ out' = [out EXCEPT ![c] = Written(c, kind, r.id)]
        /\ Written(c, kind, r.id) \in Seq(ReplyType)
        BY <1>1, <2>1, <2>2, <2>3, WriteDoes
  <2>5. Reply(kind, r.id) \in ReplyType /\ RepliesTo(Reply(kind, r.id), r)
        BY <2>1, <2>2 DEF Reply, ReplyType, RepliesTo
  <2>6. /\ Good(f, n, k, s, Append(o, Reply(kind, r.id)), "tarpc", p \ {r})
        /\ Good(f, n, k, s, o, "tarpc", p \ {r})
    <3> HIDE DEF f, n, s, o, k, p
    <3>1. Typed(f, n, k, s, o, "tarpc", p) /\ Good(f, n, k, s, o, "tarpc", p)
          BY <1>1, <1>2
    <3> QED BY <2>5, <3>1, TarpcGood
  <2>7. Good(f, n, k, s, Written(c, kind, r.id), "tarpc", p \ {r})
        BY <2>6 DEF Written
  <2>8. st' = [st EXCEPT ![c] = "tarpc"] /\ p \ {r} \in SUBSET LineType
        BY <1>1, <1>2, <2>3, OwnRows
  <2> QED BY <1>4, <2>3, <2>4, <2>7, <2>8
<1>6. CASE TarpcEof(c)
  <2>1. st' = [st EXCEPT ![c] = "closed"] /\ pend' = [pend EXCEPT ![c] = {}] /\ out' = out
        BY <1>6 DEF TarpcEof
  <2>2. Consumed(n, s) \in Nat
        BY <1>1, Numbers DEF Served
  <2>3. Consumed(n, s) >= Consumed(n, s) /\ st[c] # "closed" /\ k # "new"
        BY <1>1, <1>2, <2>2
  <2>4. Good(f, n, k, s, o, "closed", {})
    <3> HIDE DEF f, n, s, o, k, p
    <3> QED BY <1>1, <2>3, ClosedGood
  <2>5. out = [out EXCEPT ![c] = out[c]]
        BY <1>1, OwnRows
  <2> QED BY <1>1, <1>4, <2>1, <2>4, <2>5
<1> QED BY <1>5, <1>6

\* Taking an element out of a sequence moves the later ones up.
LEMMA RemovedAt ==
    ASSUME NEW S, NEW s \in Seq(S), NEW i \in 1..Len(s)
    PROVE  /\ RemoveAt(s, i) \in Seq(S) /\ Len(RemoveAt(s, i)) = Len(s) - 1
           /\ \A j \in 1..(Len(s) - 1) :
                 RemoveAt(s, i)[j] = IF j < i THEN s[j] ELSE s[j + 1]
<1> DEFINE a == SubSeq(s, 1, i - 1)
           b == SubSeq(s, i + 1, Len(s))
<1>1. Len(s) \in Nat /\ i \in Nat
      BY LenProperties
<1>2. a \in Seq(S) /\ Len(a) = i - 1 /\ \A j \in 1..(i - 1) : a[j] = s[j]
  <2>1. \A j \in 1..(i - 1) : s[j] \in S
        BY <1>1, ElementOfSeq
  <2>2. 1 \in Int /\ i - 1 \in Int
        BY <1>1
  <2>3. /\ SubSeq(s, 1, i - 1) \in Seq(S)
        /\ Len(SubSeq(s, 1, i - 1)) = IF 1 <= i - 1 THEN (i - 1) - 1 + 1 ELSE 0
        /\ \A j \in 1..((i - 1) - 1 + 1) : SubSeq(s, 1, i - 1)[j] = s[1 + j - 1]
        BY <2>1, <2>2, SubSeqProperties
  <2> QED BY <1>1, <2>3
<1>3. b \in Seq(S) /\ Len(b) = Len(s) - i /\ \A j \in 1..(Len(s) - i) : b[j] = s[i + j]
  <2>1. \A j \in (i + 1)..Len(s) : s[j] \in S
        BY <1>1, ElementOfSeq
  <2>2. i + 1 \in Int /\ Len(s) \in Int
        BY <1>1
  <2>3. /\ SubSeq(s, i + 1, Len(s)) \in Seq(S)
        /\ Len(SubSeq(s, i + 1, Len(s))) = IF i + 1 <= Len(s) THEN Len(s) - (i + 1) + 1 ELSE 0
        /\ \A j \in 1..(Len(s) - (i + 1) + 1) : SubSeq(s, i + 1, Len(s))[j] = s[(i + 1) + j - 1]
        BY <2>1, <2>2, SubSeqProperties
  <2> QED BY <1>1, <2>3
<1>4. RemoveAt(s, i) = a \o b
      BY DEF RemoveAt
<1> HIDE DEF a, b
<1>5. /\ a \o b \in Seq(S) /\ Len(a \o b) = Len(a) + Len(b)
      /\ \A j \in 1..(Len(a) + Len(b)) : (a \o b)[j] = IF j <= Len(a) THEN a[j] ELSE b[j - Len(a)]
      BY <1>2, <1>3, ConcatProperties
<1>6. ASSUME NEW j \in 1..(Len(s) - 1)
      PROVE  (a \o b)[j] = IF j < i THEN s[j] ELSE s[j + 1]
  <2>1. (a \o b)[j] = IF j <= i - 1 THEN a[j] ELSE b[j - (i - 1)]
        BY <1>1, <1>2, <1>3, <1>5
  <2>2. CASE j < i
        BY <1>1, <1>2, <2>1, <2>2
  <2>3. CASE ~(j < i)
    <3>1. j - (i - 1) \in 1..(Len(s) - i) /\ i + (j - (i - 1)) = j + 1
          BY <1>1, <2>3
    <3>2. b[j - (i - 1)] = s[i + (j - (i - 1))]
          BY <1>3, <3>1
    <3>3. ~(j <= i - 1)
          BY <1>1, <2>3
    <3>4. (a \o b)[j] = b[j - (i - 1)]
          BY <2>1, <3>3, Zenon
    <3> QED BY <2>3, <3>1, <3>2, <3>4, Zenon
  <2> QED BY <2>2, <2>3
<1> QED BY <1>1, <1>2, <1>3, <1>4, <1>5, <1>6

\* A compilation ends: the other ones are what they were.
LEMMA Finished ==
    ASSUME Inv, NEW i \in 1..Len(pool), NEW o \in Seq(ReplyType), NEW x \in StValue,
           NEW p \in SUBSET LineType,
           Becomes(pool[i].peer, sent[pool[i].peer], conn[pool[i].peer], in[pool[i].peer], o, x, p),
           Good(prof[pool[i].peer], sent[pool[i].peer], conn[pool[i].peer], in[pool[i].peer], o, x, p),
           pool' = RemoveAt(pool, i), queue' = queue, busy' = busy,
           st[pool[i].peer] = "compiling" \/ x = st[pool[i].peer]
    PROVE  Inv'
<1> DEFINE c == pool[i].peer
<1>1. TypeInv /\ Queued /\ Pooled
      BY DEF Inv
<1>2. pool \in Seq([peer : Peer, id : Nat]) /\ Len(pool) \in Nat
      BY <1>1, LenProperties DEF TypeInv
<1>3. ASSUME NEW j \in 1..Len(pool)
      PROVE  /\ pool[j].peer \in Peer /\ st[pool[j].peer] \in Callers
             /\ st[pool[j].peer] = "compiling" =>
                   /\ pool[j].id = Asked(prof[pool[j].peer], sent[pool[j].peer], in[pool[j].peer])
                   /\ \A h \in 1..Len(pool) : pool[h].peer = pool[j].peer => h = j
  <2>1. pool[j] \in [peer : Peer, id : Nat]
        BY <1>2, ElementOfSeq
  <2>2. pool[j].peer \in Peer
        BY <2>1
  <2> QED BY <1>1, <2>2 DEF Pooled, Callers
<1>4. c \in Peer
      BY <1>3
<1> HIDE DEF c
<1>5. Becomes(c, sent[c], conn[c], in[c], o, x, p) /\ Good(prof[c], sent[c], conn[c], in[c], o, x, p)
      /\ (st[c] = "compiling" \/ x = st[c])
      BY DEF c
<1>6. Typed(prof[c], sent[c], conn[c], in[c], o, x, p) /\ st[c] # "queued"
  <2>1. prof[c] \in Profile /\ sent[c] \in Nat /\ conn[c] \in ConnValue /\ in[c] \in Seq(Piece)
        BY <1>4, Here
  <2>2. st[c] \in Callers
        BY <1>3 DEF c
  <2> QED BY <2>1, <2>2 DEF Typed, Callers
<1>7. prof' = prof /\ sent'[c] = sent[c] /\ in'[c] = in[c] /\ st'[c] = x
      BY <1>1, <1>4, <1>5, <1>6, RowsAfter
<1>8. \A d \in Peer : d # c => sent'[d] = sent[d] /\ in'[d] = in[d] /\ st'[d] = st[d]
      BY <1>1, <1>4, <1>5, <1>6, RowsAfter
<1>9. /\ pool' \in Seq([peer : Peer, id : Nat]) /\ Len(pool') = Len(pool) - 1
      /\ \A j \in 1..(Len(pool) - 1) : pool'[j] = IF j < i THEN pool[j] ELSE pool[j + 1]
      BY <1>2, RemovedAt
<1>10. Queued'
       BY <1>4, <1>5, <1>6, QueuedKept
<1> DEFINE from(j) == IF j < i THEN j ELSE j + 1
<1>11. ASSUME NEW j \in 1..(Len(pool) - 1)
       PROVE  from(j) \in 1..Len(pool) /\ from(j) # i /\ pool'[j] = pool[from(j)]
  <2>1. from(j) \in 1..Len(pool) /\ from(j) # i
        BY <1>2
  <2> QED BY <1>9, <2>1
<1>12. ASSUME NEW j \in 1..(Len(pool) - 1), NEW h \in 1..(Len(pool) - 1), from(j) = from(h)
       PROVE  j = h
       BY <1>2, <1>12
<1> HIDE DEF from
<1>13. Pooled'
  <2> SUFFICES ASSUME NEW j \in 1..(Len(pool) - 1)
               PROVE  /\ st'[pool'[j].peer] \in Callers
                      /\ st'[pool'[j].peer] = "compiling" =>
                            /\ pool'[j].id = Asked(prof[pool'[j].peer], sent'[pool'[j].peer],
                                                   in'[pool'[j].peer])
                            /\ \A h \in 1..(Len(pool) - 1) :
                                  pool'[h].peer = pool'[j].peer => h = j
      <3>1. Len(pool') = Len(pool) - 1 /\ prof' = prof
            BY <1>7, <1>9
      <3> QED BY <3>1, ZenonT(30) DEF Pooled, Callers
  <2> DEFINE g == from(j)
             d == pool[g].peer
  <2>1. g \in 1..Len(pool) /\ g # i /\ pool'[j] = pool[g]
        BY <1>11
  <2>2. /\ d \in Peer /\ st[d] \in Callers
        /\ st[d] = "compiling" => /\ pool[g].id = Asked(prof[d], sent[d], in[d])
                                  /\ \A h \in 1..Len(pool) : pool[h].peer = d => h = g
        BY <1>3, <2>1
  <2> HIDE DEF g
  <2>3. d = c => st[d] # "compiling"
        BY <2>1, <2>2 DEF c
  <2>4. sent'[d] = sent[d] /\ in'[d] = in[d] /\ st'[d] = st[d]
    <3>1. CASE d = c
          BY <1>5, <1>7, <2>3, <3>1
    <3>2. CASE d # c
          BY <1>8, <2>2, <3>2
    <3> QED BY <3>1, <3>2
  <2>5. ASSUME st[d] = "compiling", NEW h \in 1..(Len(pool) - 1), pool'[h].peer = d PROVE h = j
    <3>1. from(h) \in 1..Len(pool) /\ pool[from(h)].peer = d
          BY <1>11, <2>5
    <3>2. from(h) = g
          BY <2>2, <2>5, <3>1
    <3> QED BY <1>12, <3>2 DEF g
  <2> QED BY <2>1, <2>2, <2>4, <2>5
<1>14. queue' \in [Listener -> Seq(Peer)] /\ busy' \in [Listener -> Peer \cup {NoPeer}]
       BY <1>1 DEF TypeInv
<1> QED BY <1>4, <1>5, <1>6, <1>9, <1>10, <1>13, <1>14, PeerStep

\* spawn_blocking returns to the caller, or to nobody.
LEMMA FinishCompileKeeps ==
    ASSUME Inv, NEW i \in 1..Len(pool), FinishCompile(i)
    PROVE  Inv'
<1> DEFINE c == pool[i].peer
           id == pool[i].id
           f == prof[c]
           n == sent[c]
           s == in[c]
           o == out[c]
           k == conn[c]
           p == pend[c]
           R == {q \in p : q.id = id}
<1>1. TypeInv /\ Pooled
      BY DEF Inv
<1>2. c \in Peer /\ id \in Nat
  <2>1. pool \in Seq([peer : Peer, id : Nat])
        BY <1>1 DEF TypeInv
  <2>2. pool[i] \in [peer : Peer, id : Nat]
        BY <2>1, ElementOfSeq
  <2> QED BY <2>2
<1>3. /\ st[c] \in {"compiling", "tarpc", "closed"}
      /\ st[c] = "compiling" => id = Asked(f, n, s)
      BY <1>1 DEF Pooled
<1>4. /\ pool' = RemoveAt(pool, i) /\ prof' = prof /\ srv' = srv /\ sent' = sent /\ conn' = conn
      /\ in' = in
      BY DEF FinishCompile, net
<1>5. /\ st[c] = "compiling" => Answer(c, "answer", id) /\ pend' = pend
      /\ st[c] # "compiling" => /\ IF R # {} THEN Write(c, "answer", id) ELSE out' = out
                                /\ pend' = [pend EXCEPT ![c] = @ \ R]
                                /\ st' = st /\ queue' = queue /\ busy' = busy
      BY DEF FinishCompile, loops
<1> HIDE DEF c, id
<1>6. /\ f \in Profile /\ n \in Nat /\ s \in Seq(Piece) /\ o \in Seq(ReplyType)
      /\ Staged(f, n, k, s, o, st[c]) /\ p \in SUBSET LineType /\ k \in ConnValue
      /\ Wire(f, n, s) /\ Served(f, n, s, o, st[c], p) /\ (st[c] # "none" => k # "new")
      /\ Typed(f, n, k, s, o, st[c], p) /\ Good(f, n, k, s, o, st[c], p)
      BY <1>2, Here
<1>7. "answer" \in ReplyKind
      BY DEF ReplyKind
<1>8. ASSUME NEW v \in Seq(ReplyType), NEW x \in StValue, NEW w \in SUBSET LineType,
             out' = [out EXCEPT ![c] = v], st' = [st EXCEPT ![c] = x],
             pend' = [pend EXCEPT ![c] = w], queue' = queue, busy' = busy,
             Good(f, n, k, s, v, x, w), st[c] = "compiling" \/ x = st[c]
      PROVE  Inv'
  <2>1. /\ sent = [sent EXCEPT ![c] = sent[c]] /\ conn = [conn EXCEPT ![c] = conn[c]]
        /\ in = [in EXCEPT ![c] = in[c]]
        BY <1>1, <1>2, OwnRows
  <2>2. Becomes(c, n, k, s, v, x, w)
        BY <1>4, <1>8, <2>1, Zenon DEF Becomes
  <2> QED BY <1>4, <1>8, <2>2, Finished DEF c
<1>9. CASE st[c] = "compiling"
  <2>1. Answer(c, "answer", id) /\ pend' = pend /\ id = Asked(f, n, s)
        BY <1>3, <1>5, <1>9
  <2>2. Write(c, "answer", id) /\ Stay(c, Resumes(c))
        BY <2>1 DEF Answer, Resumes
  <2>3. NoFrames(s) /\ Whole(f, n, s) /\ Answered(o) + 1 = Asked(f, n, s)
        BY <1>6, <1>9 DEF Staged, Served
  <2>4. Len(o) \in Nat /\ Consumed(n, s) \in Nat /\ Answered(o) \in Nat
        BY <1>6, Numbers DEF Served
  <2>5. Len(o) + 1 <= Consumed(n, s)
    <3>1. Owed(st[c], p) = 1
          BY <1>9 DEF Owed
    <3>2. Len(o) + 1 <= Consumed(n, s) + 0
          BY <1>6, <1>9, <3>1 DEF Served
    <3> HIDE DEF o, n, s
    <3> QED BY <2>4, <3>2
  <2>6. NextReply(f, o, Reply("answer", id), Asked(f, n, s))
    <3>1. Reply("answer", id).kind = "answer" /\ Reply("answer", id).id = id
          BY DEF Reply
    <3> QED BY <2>1, <2>3, <3>1 DEF NextReply
  <2>7. Consumed(n, s) >= Consumed(n, s) /\ st[c] \in {"serve", "compiling"}
        BY <1>9, <2>4
  <2>8. /\ Good(f, n, k, s, Written(c, "answer", id), Resumes(c), p)
        /\ out' = [out EXCEPT ![c] = Written(c, "answer", id)]
        /\ Written(c, "answer", id) \in Seq(ReplyType) /\ Resumes(c) \in StValue
        BY <1>2, <1>6, <1>7, <2>2, <2>3, <2>5, <2>6, <2>7, AnswerGood
  <2>9. st' = [st EXCEPT ![c] = Resumes(c)] /\ queue' = queue /\ busy' = busy
        BY <2>2 DEF Stay, loops
  <2>10. pend' = [pend EXCEPT ![c] = pend[c]]
         BY <1>1, <1>2, <2>1, OwnRows
  <2> QED BY <1>6, <1>8, <1>9, <2>8, <2>9, <2>10
<1>10. CASE st[c] # "compiling"
  <2>1. /\ IF R # {} THEN Write(c, "answer", id) ELSE out' = out
        /\ pend' = [pend EXCEPT ![c] = @ \ R]
        /\ st' = st /\ queue' = queue /\ busy' = busy
        BY <1>5, <1>10
  <2>2. pend' = [pend EXCEPT ![c] = p \ R]
        BY <1>1, <1>2, <2>1 DEF TypeInv
  <2>3. st' = [st EXCEPT ![c] = st[c]] /\ st[c] \in StValue
        BY <1>1, <1>2, <2>1, OwnRows, Here
  <2>4. CASE R = {}
    <3>1. p \ R = p /\ out' = [out EXCEPT ![c] = out[c]]
          BY <1>1, <1>2, <2>1, <2>4, OwnRows
    <3>2. pend' = [pend EXCEPT ![c] = p]
          BY <2>2, <3>1, Zenon
    <3> QED BY <1>6, <1>8, <2>1, <2>3, <3>1, <3>2
  <2>5. CASE R # {}
    <3>1. PICK q \in p : q.id = id
          BY <2>5
    <3>2. st[c] = "tarpc"
          BY <1>6, <3>1 DEF Served
    <3>3. R = {q}
      <4>1. InFlight(f, n, s, o, st[c], p)
            BY <1>6 DEF Good
      <4>2. \A a, b \in p : a.id = b.id => a = b
            BY <3>2, <4>1 DEF InFlight
      <4> QED BY <3>1, <4>2
    <3>4. Write(c, "answer", id) /\ pend' = [pend EXCEPT ![c] = p \ {q}]
          BY <2>1, <2>2, <2>5, <3>3
    <3>5. /\ out' = [out EXCEPT ![c] = Written(c, "answer", id)]
          /\ Written(c, "answer", id) \in Seq(ReplyType)
          BY <1>1, <1>2, <1>7, <3>4, WriteDoes
    <3>6. Reply("answer", id) \in ReplyType /\ RepliesTo(Reply("answer", id), q)
          BY <1>2, <1>7, <3>1 DEF Reply, ReplyType, RepliesTo
    <3>7. /\ Good(f, n, k, s, Append(o, Reply("answer", id)), "tarpc", p \ {q})
          /\ Good(f, n, k, s, o, "tarpc", p \ {q})
      <4> HIDE DEF f, n, s, o, k, p
      <4>1. Typed(f, n, k, s, o, "tarpc", p) /\ Good(f, n, k, s, o, "tarpc", p)
            BY <1>6, <3>2
      <4> QED BY <3>6, <4>1, TarpcGood
    <3>8. Good(f, n, k, s, Written(c, "answer", id), "tarpc", p \ {q})
          BY <3>7 DEF Written
    <3>9. p \ {q} \in SUBSET LineType /\ "tarpc" \in StValue
          BY <1>6 DEF StValue
    <3>10. st' = [st EXCEPT ![c] = "tarpc"] /\ queue' = queue /\ busy' = busy
           BY <2>1, <2>3, <3>2
    <3> QED BY <1>8, <3>2, <3>4, <3>5, <3>8, <3>9, <3>10
  <2> QED BY <2>4, <2>5
<1> QED BY <1>9, <1>10

\* A peer sends its next piece.
LEMMA SendKeeps ==
    ASSUME Inv, NEW c \in Peer, Send(c)
    PROVE  Inv'
<1> DEFINE f == prof[c]
           n == sent[c]
           s == in[c]
           o == out[c]
           k == conn[c]
           p == pend[c]
           m == IF n < 2 THEN 1 ELSE n
           part == CASE n = 0 -> "head" [] n = 1 -> "tail" [] OTHER -> "all"
           line == Lines(c)[m]
           t == Append(s, PieceOf(line, part))
<1>1. /\ TypeInv /\ f \in Profile /\ n \in Nat /\ s \in Seq(Piece) /\ o \in Seq(ReplyType)
      /\ st[c] \in StValue /\ p \in SUBSET LineType /\ k \in ConnValue
      /\ Typed(f, n, k, s, o, st[c], p) /\ Good(f, n, k, s, o, st[c], p)
      BY Here
<1>2. k = "open" /\ st[c] # "closed" /\ m <= Len(Lines(c)) /\ MaySend(c, m)
      BY DEF Send
<1>3. /\ sent' = [sent EXCEPT ![c] = n + 1] /\ in' = [in EXCEPT ![c] = t]
      /\ prof' = prof /\ srv' = srv /\ conn' = conn /\ out' = out /\ st' = st /\ pend' = pend
      /\ queue' = queue /\ busy' = busy /\ pool' = pool
  <2>1. /\ sent' = [sent EXCEPT ![c] = @ + 1]
        /\ in' = [in EXCEPT ![c] = Append(@, [line |-> line, part |-> part])]
        /\ prof' = prof /\ srv' = srv /\ conn' = conn /\ out' = out /\ st' = st /\ pend' = pend
        /\ queue' = queue /\ busy' = busy /\ pool' = pool
        BY DEF Send, loops
  <2> QED BY <1>1, <2>1 DEF TypeInv, PieceOf
<1>4. m = LineNo(n + 1) /\ m \in Nat /\ m >= 1
  <2> HIDE DEF n
  <2>1. CASE n < 2
        BY <1>1, <2>1 DEF LineNo
  <2>2. CASE ~(n < 2)
        BY <1>1, <2>2 DEF LineNo
  <2> QED BY <2>1, <2>2
<1>5. m \in 1..Len(Lines(c))
  <2>1. Len(Lines(c)) \in Nat
        BY <1>1, LinesAre
  <2> HIDE DEF m
  <2> QED BY <1>2, <1>4, <2>1
<1>6. /\ line \in LineType /\ IsLine(f, m, line)
      /\ line.kind = "frame" <=> m > Intros(f) /\ Told(c) = "tarpc"
      /\ Len(Intro(c)) = Intros(f)
      BY <1>1, <1>5, LinesAre
<1>7. Told(c) = ToldOf(o)
      BY DEF Told, ToldOf
<1>8. /\ part \in {"head", "tail", "all"} /\ (part = "head" <=> n = 0) /\ (part = "tail" => n = 1)
      BY <1>1
<1>9. Paced(f, n, o)
      BY <1>2, <1>4, <1>6 DEF Paced, MaySend
<1>10. /\ IsLine(f, LineNo(n + 1), line)
       /\ line.kind = "frame" <=> LineNo(n + 1) > Intros(f) /\ ToldOf(o) = "tarpc"
       BY <1>4, <1>6, <1>7
<1> HIDE DEF f, n, s, o, k, p, m, part, line
<1>11. /\ Good(f, n + 1, k, t, o, st[c], p) /\ t \in Seq(Piece)
       /\ Asked(f, n + 1, t) = Asked(f, n, s)
  <2>1. k # "new"
        BY <1>2
  <2>2. Sends(f, n, o, line, part)
        BY <1>6, <1>8, <1>9, <1>10 DEF Sends
  <2>3. Typed(f, n, k, s, o, st[c], p) /\ Good(f, n, k, s, o, st[c], p) /\ st[c] # "closed"
        BY <1>1, <1>2
  <2> QED BY <2>1, <2>2, <2>3, SendGood
<1> HIDE DEF t
<1>12. Typed(f, n + 1, k, t, o, st[c], p)
       BY <1>1, <1>11 DEF Typed
<1>13. Becomes(c, n + 1, k, t, o, st[c], p)
  <2>1. /\ conn = [conn EXCEPT ![c] = conn[c]] /\ out = [out EXCEPT ![c] = out[c]]
        /\ st = [st EXCEPT ![c] = st[c]] /\ pend = [pend EXCEPT ![c] = pend[c]]
        BY <1>1, OwnRows
  <2> QED BY <1>3, <2>1, Zenon DEF Becomes, k, o, p
<1>14. PoolKept(c, n + 1, t, st[c])
       BY <1>11 DEF PoolKept, Callers, f, n, s
<1>15. busy' \in [Listener -> Peer \cup {NoPeer}]
       BY <1>1, <1>3 DEF TypeInv
<1>16. st[c] # "queued" \/ st[c] = "queued"
       OBVIOUS
<1> QED BY <1>3, <1>11, <1>12, <1>13, <1>14, <1>15, <1>16, PlainStep DEF f

\* A peer shuts down its writing side, or vanishes.
LEMMA HangUpKeeps ==
    ASSUME Inv, NEW c \in Peer, HangUp(c)
    PROVE  Inv'
<1>1. /\ TypeInv /\ st[c] \in StValue
      /\ Typed(prof[c], sent[c], conn[c], in[c], out[c], st[c], pend[c])
      /\ Good(prof[c], sent[c], conn[c], in[c], out[c], st[c], pend[c])
      BY Here
<1>2. PICK m \in {"half", "gone"} : conn' = [conn EXCEPT ![c] = m]
      BY DEF HangUp
<1>3. /\ prof' = prof /\ srv' = srv /\ sent' = sent /\ in' = in /\ out' = out /\ st' = st
      /\ pend' = pend /\ queue' = queue /\ busy' = busy /\ pool' = pool
      BY DEF HangUp, loops
<1>4. Good(prof[c], sent[c], m, in[c], out[c], st[c], pend[c])
      BY <1>1, ConnGood
<1>5. Typed(prof[c], sent[c], m, in[c], out[c], st[c], pend[c])
      BY <1>1 DEF Typed, ConnValue
<1>6. Becomes(c, sent[c], m, in[c], out[c], st[c], pend[c])
  <2>1. /\ sent = [sent EXCEPT ![c] = sent[c]]
        /\ in = [in EXCEPT ![c] = in[c]] /\ out = [out EXCEPT ![c] = out[c]]
        /\ st = [st EXCEPT ![c] = st[c]] /\ pend = [pend EXCEPT ![c] = pend[c]]
        BY <1>1, OwnRows
  <2> QED BY <1>2, <1>3, <2>1, Zenon DEF Becomes
<1>7. PoolKept(c, sent[c], in[c], st[c]) /\ (st[c] # "queued" \/ st[c] = "queued")
      BY DEF PoolKept, Callers
<1>8. busy' \in [Listener -> Peer \cup {NoPeer}]
      BY <1>1, <1>3 DEF TypeInv
<1> QED BY <1>3, <1>4, <1>5, <1>6, <1>7, <1>8, PlainStep

\* A connection enters the backlog, or an accept loop takes it out: in both it
\* has sent nothing that was read.
LEMMA AwaitsGood ==
    ASSUME Inv, NEW c \in Peer, st[c] \in {"none", "queued"}, NEW k \in ConnValue \ {"new"},
           NEW y \in {"queued", "first"}
    PROVE  /\ Good(prof[c], sent[c], k, in[c], out[c], y, pend[c])
           /\ Typed(prof[c], sent[c], k, in[c], out[c], y, pend[c])
           /\ PoolKept(c, sent[c], in[c], y)
<1> DEFINE f == prof[c]
           n == sent[c]
           s == in[c]
           o == out[c]
           p == pend[c]
<1>1. /\ Typed(f, n, conn[c], s, o, st[c], p) /\ Good(f, n, conn[c], s, o, st[c], p)
      /\ Wire(f, n, s)
      BY Here
<1>2. Good(f, n, k, s, o, st[c], p) /\ Staged(f, n, k, s, o, st[c]) /\ Wire(f, n, s)
      BY <1>1, ConnGood DEF Good
<1>3. Typed(f, n, k, s, o, st[c], p) /\ Typed(f, n, k, s, o, y, p)
      BY <1>1 DEF Typed, StValue, Early, Waiting
<1>4. o = <<>> /\ Len(s) = n /\ NoFrames(s)
      BY <1>2 DEF Staged, Early, Waiting
<1>5. Enters(f, n, s, o, y)
      BY <1>4 DEF Enters
<1>6. st[c] \notin {"tarpc", "closed"} /\ st[c] \notin {"compiling", "tarpc", "closed"}
      OBVIOUS
<1>7. Staged(f, n, k, s, o, y)
      BY <1>2, <1>4, <1>5, <1>6, EntersStaged
<1>8. Good(f, n, k, s, o, y, p)
      BY <1>2, <1>3, <1>6, <1>7, QuietGood
<1>9. PoolKept(c, n, s, y)
      BY DEF PoolKept, Callers
<1> QED BY <1>3, <1>8, <1>9

\* A peer connects: it enters the backlog of its listener, once.
LEMMA ConnectKeeps ==
    ASSUME Inv, NEW c \in Peer, Connect(c)
    PROVE  Inv'
<1> DEFINE l == prof[c].on
<1>1. /\ TypeInv /\ Queued /\ st[c] = "none" /\ prof[c] \in Profile
  <2>1. /\ TypeInv /\ Staged(prof[c], sent[c], conn[c], in[c], out[c], st[c]) /\ prof[c] \in Profile
        BY Here
  <2>2. conn[c] = "new"
        BY DEF Connect
  <2> QED BY <2>1, <2>2 DEF Staged, Inv
<1>2. "open" \in ConnValue \ {"new"}
      BY DEF ConnValue
<1>3. /\ Good(prof[c], sent[c], "open", in[c], out[c], "queued", pend[c])
      /\ Typed(prof[c], sent[c], "open", in[c], out[c], "queued", pend[c])
      /\ PoolKept(c, sent[c], in[c], "queued")
      BY <1>1, <1>2, AwaitsGood
<1>4. /\ conn' = [conn EXCEPT ![c] = "open"] /\ st' = [st EXCEPT ![c] = "queued"]
      /\ queue' = [queue EXCEPT ![l] = Append(@, c)]
      /\ prof' = prof /\ srv' = srv /\ sent' = sent /\ in' = in /\ out' = out /\ pend' = pend
      /\ busy' = busy /\ pool' = pool
      BY DEF Connect
<1>5. Becomes(c, sent[c], "open", in[c], out[c], "queued", pend[c])
  <2>1. /\ sent = [sent EXCEPT ![c] = sent[c]]
        /\ in = [in EXCEPT ![c] = in[c]] /\ out = [out EXCEPT ![c] = out[c]]
        /\ pend = [pend EXCEPT ![c] = pend[c]]
        BY <1>1, OwnRows
  <2> QED BY <1>4, <2>1, Zenon DEF Becomes
<1>6. queue \in [Listener -> Seq(Peer)] /\ l \in Listener
      BY <1>1, ProfileFields DEF TypeInv, Listener
<1> HIDE DEF l
<1>7. /\ queue[l] \in Seq(Peer) /\ Len(queue[l]) \in Nat
      /\ Append(queue[l], c) \in Seq(Peer) /\ Len(Append(queue[l], c)) = Len(queue[l]) + 1
      /\ \A i \in 1..Len(queue[l]) : Append(queue[l], c)[i] = queue[l][i]
      /\ Append(queue[l], c)[Len(queue[l]) + 1] = c
      BY <1>6, AppendProperties, LenProperties
<1>8. /\ queue' \in [Listener -> Seq(Peer)] /\ queue'[l] = Append(queue[l], c)
      /\ \A m \in Listener : m # l => queue'[m] = queue[m]
      BY <1>4, <1>6, <1>7
<1>9. ASSUME NEW m \in Listener, NEW i \in 1..Len(queue'[m])
      PROVE  \/ i \in 1..Len(queue[m]) /\ queue'[m][i] = queue[m][i]
             \/ m = l /\ i = Len(queue[l]) + 1 /\ queue'[m][i] = c
  <2>1. CASE m = l
    <3>1. i \in 1..(Len(queue[l]) + 1)
          BY <1>7, <1>8, <2>1
    <3>2. CASE i = Len(queue[l]) + 1
          BY <1>7, <1>8, <2>1, <3>2
    <3>3. CASE i \in 1..Len(queue[l])
          BY <1>7, <1>8, <2>1, <3>3
    <3> QED BY <1>7, <3>1, <3>2, <3>3
  <2>2. CASE m # l
        BY <1>8, <2>2
  <2> QED BY <2>1, <2>2
<1>10. ASSUME NEW m \in Listener, NEW i \in 1..Len(queue[m])
       PROVE  queue[m][i] \in Peer /\ st[queue[m][i]] = "queued" /\ queue[m][i] # c
  <2>1. queue[m] \in Seq(Peer)
        BY <1>6
  <2>2. queue[m][i] \in Peer
        BY <2>1, ElementOfSeq
  <2> QED BY <1>1, <2>2 DEF Queued
<1>11. ASSUME NEW m \in Listener, NEW h \in Listener, NEW i \in 1..Len(queue[m]),
              NEW j \in 1..Len(queue[h]), queue[m][i] = queue[h][j]
       PROVE  m = h /\ i = j
       BY <1>1, <1>11 DEF Queued
<1>12. \A d \in Peer : st'[d] = IF d = c THEN "queued" ELSE st[d]
       BY <1>1, <1>4 DEF TypeInv
<1>13. Queued'
  <2>1. ASSUME NEW m \in Listener, NEW i \in 1..Len(queue'[m])
        PROVE  st'[queue'[m][i]] = "queued"
        BY <1>9, <1>10, <1>12
  <2>2. ASSUME NEW m \in Listener, NEW h \in Listener,
               NEW i \in 1..Len(queue'[m]), NEW j \in 1..Len(queue'[h]),
               queue'[m][i] = queue'[h][j]
        PROVE  m = h /\ i = j
    <3>1. CASE queue'[m][i] = c
      <4>1. m = l /\ i = Len(queue[l]) + 1
            BY <1>9, <1>10, <3>1
      <4>2. h = l /\ j = Len(queue[l]) + 1
            BY <1>9, <1>10, <2>2, <3>1
      <4> QED BY <4>1, <4>2
    <3>2. CASE queue'[m][i] # c
      <4>1. i \in 1..Len(queue[m]) /\ queue'[m][i] = queue[m][i]
            BY <1>9, <3>2
      <4>2. j \in 1..Len(queue[h]) /\ queue'[h][j] = queue[h][j]
            BY <1>9, <2>2, <3>2
      <4>3. queue[m][i] = queue[h][j]
            BY <2>2, <4>1, <4>2, Zenon
      <4> QED BY <1>11, <4>1, <4>2, <4>3
    <3> QED BY <3>1, <3>2
  <2> QED BY <2>1, <2>2 DEF Queued
<1>14. Pooled'
       BY <1>3, <1>4, <1>5, PooledKept
<1>15. pool' \in Seq([peer : Peer, id : Nat]) /\ busy' \in [Listener -> Peer \cup {NoPeer}]
       BY <1>1, <1>4 DEF TypeInv
<1> QED BY <1>3, <1>5, <1>8, <1>13, <1>14, <1>15, PeerStep

\* An accept loop takes the first connection of its backlog.
LEMMA AcceptKeeps ==
    ASSUME Inv, NEW l \in Listener, Accept(l)
    PROVE  Inv'
<1> DEFINE c == Head(queue[l])
<1>1. TypeInv /\ Queued /\ queue \in [Listener -> Seq(Peer)]
      BY DEF Inv, TypeInv
<1>2. queue[l] \in Seq(Peer) /\ queue[l] # <<>>
      BY <1>1 DEF Accept
<1>3. /\ Len(queue[l]) \in Nat /\ Len(queue[l]) >= 1 /\ c = queue[l][1] /\ c \in Peer
      /\ Tail(queue[l]) \in Seq(Peer) /\ Len(Tail(queue[l])) = Len(queue[l]) - 1
      /\ \A i \in 1..(Len(queue[l]) - 1) : Tail(queue[l])[i] = queue[l][i + 1]
      BY <1>2, HeadTailProperties, LenProperties, EmptySeq
<1>4. 1 \in 1..Len(queue[l])
      BY <1>3
<1>5. st[c] = "queued"
      BY <1>1, <1>3, <1>4 DEF Queued
<1>6. /\ busy' = [busy EXCEPT ![l] = c] /\ queue' = [queue EXCEPT ![l] = Tail(@)]
      /\ st' = [st EXCEPT ![c] = "first"]
      /\ prof' = prof /\ srv' = srv /\ sent' = sent /\ conn' = conn /\ in' = in /\ out' = out
      /\ pend' = pend /\ pool' = pool
      BY DEF Accept, net
<1> HIDE DEF c
<1>7. conn[c] \in ConnValue \ {"new"}
      BY <1>3, <1>5, Here
<1>8. /\ Good(prof[c], sent[c], conn[c], in[c], out[c], "first", pend[c])
      /\ Typed(prof[c], sent[c], conn[c], in[c], out[c], "first", pend[c])
      /\ PoolKept(c, sent[c], in[c], "first")
      BY <1>3, <1>5, <1>7, AwaitsGood
<1>9. Becomes(c, sent[c], conn[c], in[c], out[c], "first", pend[c])
  <2>1. /\ sent = [sent EXCEPT ![c] = sent[c]] /\ conn = [conn EXCEPT ![c] = conn[c]]
        /\ in = [in EXCEPT ![c] = in[c]] /\ out = [out EXCEPT ![c] = out[c]]
        /\ pend = [pend EXCEPT ![c] = pend[c]]
        BY <1>1, <1>3, OwnRows
  <2> QED BY <1>6, <2>1, Zenon DEF Becomes
<1>10. /\ queue' \in [Listener -> Seq(Peer)] /\ queue'[l] = Tail(queue[l])
       /\ \A m \in Listener : m # l => queue'[m] = queue[m]
       BY <1>1, <1>3, <1>6
<1>11. ASSUME NEW m \in Listener, NEW h \in Listener, NEW i \in 1..Len(queue[m]),
              NEW j \in 1..Len(queue[h]), queue[m][i] = queue[h][j]
       PROVE  m = h /\ i = j
       BY <1>1, <1>11 DEF Queued
<1> DEFINE from(m, i) == IF m = l THEN i + 1 ELSE i
<1>12. ASSUME NEW m \in Listener, NEW i \in 1..Len(queue'[m])
       PROVE  /\ from(m, i) \in 1..Len(queue[m]) /\ queue'[m][i] = queue[m][from(m, i)]
              /\ (m = l => from(m, i) # 1) /\ i \in Nat
  <2>1. CASE m = l
    <3>1. i \in 1..(Len(queue[l]) - 1)
          BY <1>3, <1>10, <2>1
    <3> QED BY <1>3, <1>10, <2>1, <3>1
  <2>2. CASE m # l
    <3>1. queue[m] \in Seq(Peer)
          BY <1>1
    <3>2. Len(queue[m]) \in Nat /\ queue'[m] = queue[m]
          BY <1>10, <2>2, <3>1, LenProperties
    <3> QED BY <2>2, <3>2
  <2> QED BY <2>1, <2>2
<1>13. ASSUME NEW m \in Listener, NEW i \in Nat, NEW j \in Nat, from(m, i) = from(m, j) PROVE i = j
       BY <1>13
<1> HIDE DEF from
<1>14. \A d \in Peer : d # c => st'[d] = st[d]
       BY <1>1, <1>3, <1>6 DEF TypeInv
<1>15. Queued'
  <2>1. ASSUME NEW m \in Listener, NEW i \in 1..Len(queue'[m])
        PROVE  st'[queue'[m][i]] = "queued"
    <3>1. /\ from(m, i) \in 1..Len(queue[m]) /\ queue'[m][i] = queue[m][from(m, i)]
          /\ (m = l => from(m, i) # 1)
          BY <1>12
    <3>2. queue[m] \in Seq(Peer)
          BY <1>1
    <3>3. queue[m][from(m, i)] \in Peer /\ st[queue[m][from(m, i)]] = "queued"
          BY <1>1, <3>1, <3>2, ElementOfSeq DEF Queued
    <3>4. queue[m][from(m, i)] # c
          BY <1>1, <1>3, <1>4, <3>1 DEF Queued
    <3> QED BY <1>14, <3>1, <3>3, <3>4
  <2>2. ASSUME NEW m \in Listener, NEW h \in Listener,
               NEW i \in 1..Len(queue'[m]), NEW j \in 1..Len(queue'[h]),
               queue'[m][i] = queue'[h][j]
        PROVE  m = h /\ i = j
    <3>1. from(m, i) \in 1..Len(queue[m]) /\ queue'[m][i] = queue[m][from(m, i)] /\ i \in Nat
          BY <1>12
    <3>2. from(h, j) \in 1..Len(queue[h]) /\ queue'[h][j] = queue[h][from(h, j)] /\ j \in Nat
          BY <1>12
    <3>3. m = h /\ from(m, i) = from(h, j)
      <4>1. queue[m][from(m, i)] = queue[h][from(h, j)]
            BY <2>2, <3>1, <3>2, Zenon
      <4> QED BY <1>11, <3>1, <3>2, <4>1
    <3> QED BY <1>13, <3>1, <3>2, <3>3
  <2> QED BY <2>1, <2>2 DEF Queued
<1>16. Pooled'
       BY <1>3, <1>6, <1>8, <1>9, PooledKept
<1>17. pool' \in Seq([peer : Peer, id : Nat]) /\ busy' \in [Listener -> Peer \cup {NoPeer}]
       BY <1>1, <1>3, <1>6 DEF TypeInv
<1> QED BY <1>3, <1>8, <1>9, <1>10, <1>15, <1>16, <1>17, PeerStep

\* A connection that was not made yet.
LEMMA FreshGood ==
    ASSUME NEW f \in Profile
    PROVE  Good(f, 0, "new", <<>>, <<>>, "none", {})
<1>1. /\ Len(<<>>) = 0 /\ 1..Len(<<>>) = {} /\ Cardinality({}) = 0 /\ IsFiniteSet({})
      BY FS_EmptySet
<1>2. Intros(f) \in Nat /\ Intros(f) <= 2
      BY DEF Intros
<1>3. ToldOf(<<>>) = "none" /\ Answered(<<>>) = 0
  <2>1. {i \in 1..Len(<<>>) : <<>>[i].id > 0} = {}
        BY <1>1, Zenon
  <2>2. Answered(<<>>) = 0
        BY <1>1, <2>1, Zenon DEF Answered, Count
  <2> QED BY <2>2 DEF ToldOf
<1>4. Consumed(0, <<>>) = 0 /\ Asked(f, 0, <<>>) = 0 /\ Owed("none", {}) = 0
  <2>1. Consumed(0, <<>>) = 0
        BY <1>1 DEF Consumed
  <2>2. Owed("none", {}) = 0
        BY <1>1 DEF Owed
  <2> QED BY <1>2, <2>1, <2>2 DEF Asked
<1>5. Wire(f, 0, <<>>) /\ Orderly(<<>>)
      BY <1>1 DEF Wire, Orderly
<1>6. Staged(f, 0, "new", <<>>, <<>>, "none")
      BY <1>1, <1>2, <1>3 DEF Staged, NoFrames, Waiting, Early
<1>7. Served(f, 0, <<>>, <<>>, "none", {})
      BY <1>1, <1>3, <1>4 DEF Served
<1>8. InFlight(f, 0, <<>>, <<>>, "none", {}) /\ ErrorFree(f, 0, <<>>, "none")
      BY <1>1 DEF InFlight, ErrorFree
<1> QED BY <1>5, <1>6, <1>7, <1>8 DEF Good

\* The server starts without a connection, with empty backlogs and an idle pool.
LEMMA InitInv == Init => Inv
<1> SUFFICES ASSUME Init PROVE Inv
    OBVIOUS
<1>1. TypeInv
  <2>1. /\ "new" \in ConnValue /\ "none" \in StValue /\ 0 \in Nat
        /\ <<>> \in Seq(Piece) /\ <<>> \in Seq(ReplyType) /\ <<>> \in Seq(Peer)
        /\ <<>> \in Seq([peer : Peer, id : Nat]) /\ {} \in SUBSET LineType
        BY DEF ConnValue, StValue, Early, Waiting
  <2> QED BY <2>1 DEF Init, TypeInv
<1>2. Len(<<>>) = 0 /\ 1..0 = {}
      OBVIOUS
<1>3. Queued
      BY <1>2 DEF Init, Queued
<1>4. Pooled
      BY <1>2 DEF Init, Pooled
<1>5. ASSUME NEW c \in Peer PROVE PeerInv(c)
  <2>1. /\ prof[c] \in Profile /\ sent[c] = 0 /\ conn[c] = "new" /\ in[c] = <<>>
        /\ out[c] = <<>> /\ st[c] = "none" /\ pend[c] = {}
        BY DEF Init
  <2>2. Good(prof[c], 0, "new", <<>>, <<>>, "none", {})
        BY <2>1, FreshGood
  <2> QED BY <2>1, <2>2, Zenon DEF PeerInv
<1> QED BY <1>1, <1>3, <1>4, <1>5 DEF Inv

\* Whatever a peer, an accept loop, a serving task, the provider or a thread of
\* the blocking pool does next keeps the invariant.
LEMMA NextInv == Inv /\ [Next]_vars => Inv'
<1> SUFFICES ASSUME Inv, [Next]_vars PROVE Inv'
    OBVIOUS
<1>1. ASSUME NEW c \in Peer, Connect(c) \/ Send(c) \/ HangUp(c) PROVE Inv'
      BY <1>1, ConnectKeeps, SendKeeps, HangUpKeeps
<1>2. ASSUME NEW c \in Peer, ServerStep(c) PROVE Inv'
  <2>1. CASE FirstByte(c) \/ FirstLine(c) \/ NegotiateServer(c)
        BY <2>1, FirstByteKeeps, FirstLineKeeps, NegotiateServerKeeps
  <2>2. CASE NoFirstByte(c) \/ NoFirstLine(c) \/ NegotiateEof(c) \/ NegotiateRefused(c)
        BY <2>2, WaitEnds, NegotiateDropped
  <2>3. CASE RelayChallenge(c)
        BY <2>3, RelayKeeps
  <2>4. CASE ServeLine(c) \/ ServeEof(c)
        BY <2>4, ServeLineKeeps, ServeEofKeeps
  <2>5. CASE TarpcFrame(c)
        BY <2>5, TarpcFrameKeeps
  <2>6. CASE TarpcEof(c) \/ \E r \in pend[c] : TarpcReply(c, r)
        BY <2>6, TarpcEnds
  <2> QED BY <1>2, <2>1, <2>2, <2>3, <2>4, <2>5, <2>6 DEF ServerStep
<1>3. ASSUME NEW c \in Peer, ProviderStep(c) PROVE Inv'
  <2>1. CASE Guard(c)
        BY <2>1, WaitEnds
  <2>2. CASE RelayCreate(c) \/ RelayVerify(c)
        BY <2>2, RelayKeeps
  <2> QED BY <1>3, <2>1, <2>2 DEF ProviderStep
<1>4. ASSUME NEW l \in Listener, Accept(l) PROVE Inv'
      BY <1>4, AcceptKeeps
<1>5. ASSUME NEW i \in 1..Len(pool), FinishCompile(i) PROVE Inv'
      BY <1>5, FinishCompileKeeps
<1>6. CASE UNCHANGED vars
  <2>1. /\ prof' = prof /\ srv' = srv /\ sent' = sent /\ conn' = conn /\ in' = in /\ out' = out
        /\ st' = st /\ queue' = queue /\ busy' = busy /\ pend' = pend /\ pool' = pool
        BY <1>6 DEF vars
  <2>2. TypeInv' /\ Queued' /\ Pooled'
        BY <2>1 DEF Inv, TypeInv, Queued, Pooled
  <2>3. \A c \in Peer : PeerInv(c)'
        BY <2>1 DEF Inv, PeerInv
  <2> QED BY <2>2, <2>3 DEF Inv
<1> QED BY <1>1, <1>2, <1>3, <1>4, <1>5, <1>6 DEF Next

\* What is on its way from a peer is read by the loop it was written for
\* (handle_g65_connection, negotiate_server_after_p).
LEMMA InvFramingAgrees == Inv => FramingAgrees
<1> SUFFICES ASSUME Inv, NEW c \in Peer,
                    st[c] \in {"serve", "compiling", "tarpc"}
             PROVE  /\ Told(c) = "tarpc" <=> st[c] = "tarpc"
                    /\ \A i \in DOMAIN in[c] : in[c][i].line.kind = "frame" <=> st[c] = "tarpc"
    BY DEF FramingAgrees
<1>1. Staged(prof[c], sent[c], conn[c], in[c], out[c], st[c]) /\ in[c] \in Seq(Piece)
      BY DEF Inv, PeerInv, Good, TypeInv
<1>2. Told(c) = ToldOf(out[c])
      BY DEF Told, ToldOf
<1>3. DOMAIN in[c] = 1..Len(in[c])
      BY <1>1, LenProperties
<1>4. CASE st[c] = "tarpc"
  <2>1. ToldOf(out[c]) = "tarpc" /\ Frames(in[c])
        BY <1>1, <1>4 DEF Staged
  <2> QED BY <1>2, <1>3, <1>4, <2>1 DEF Frames
<1>5. CASE st[c] # "tarpc"
  <2>1. ToldOf(out[c]) # "tarpc" /\ NoFrames(in[c])
        BY <1>1, <1>5 DEF Staged
  <2> QED BY <1>2, <1>3, <1>5, <2>1 DEF NoFrames
<1> QED BY <1>4, <1>5

\* The replies a peer got are those to its lines, in order
\* (process_newline_reader_writer, TarpcServer).
LEMMA InvRepliesMatch == Inv => RepliesMatch
<1> SUFFICES ASSUME Inv, NEW c \in Peer
             PROVE  /\ Len(out[c]) <= LinesSent(c) + (IF sent[c] = 1 THEN 1 ELSE 0)
                    /\ \A i \in DOMAIN out[c] : out[c][i].id > 0 =>
                          IF Framing(c) = "line" THEN out[c][i].id = Answers(c, i)
                          ELSE \A j \in 1..(i - 1) : out[c][j].id # out[c][i].id
                    /\ prof[c].speaks = "jsonrpc" /\ sent[c] # 1 =>
                          \A i \in DOMAIN out[c] : out[c][i].kind # "parse error"
    BY DEF RepliesMatch
<1> DEFINE n == sent[c]
           s == in[c]
           o == out[c]
<1>1. /\ n \in Nat /\ s \in Seq(Piece) /\ o \in Seq(ReplyType)
      /\ pend[c] \in SUBSET LineType
      BY DEF Inv, TypeInv
<1>2. /\ Wire(prof[c], n, s) /\ Orderly(o) /\ ErrorFree(prof[c], n, o, st[c])
      /\ Served(prof[c], n, s, o, st[c], pend[c])
      BY DEF Inv, PeerInv, Good
<1>3. Told(c) = ToldOf(o) /\ (Framing(c) = "line" <=> ToldOf(o) # "tarpc")
      BY DEF Told, ToldOf, Framing
<1>4. /\ \A i \in Nat : Answers(c, i) = Count(o, i)
      /\ LinesSent(c) = IF n = 0 THEN 0 ELSE n - 1
      BY DEF Answers, Count, LinesSent
<1> HIDE DEF n, s, o
<1>5. Len(o) \in Nat /\ Len(s) \in Nat /\ DOMAIN o = 1..Len(o) /\ Len(s) <= n
      BY <1>1, <1>2, LenProperties DEF Wire
<1>6. Len(o) <= LinesSent(c) + (IF n = 1 THEN 1 ELSE 0)
  <2>1. Owed(st[c], pend[c]) \in Nat
    <3>1. Cardinality(pend[c]) \in Nat
          BY <1>2, FS_CardinalityType DEF Served
    <3> QED BY <3>1 DEF Owed
  <2>2. Consumed(n, s) \in Nat /\ Consumed(n, s) <= LinesSent(c)
        BY <1>1, <1>4, <1>5 DEF Consumed
  <2>3. /\ LinesSent(c) \in Nat
        /\ Len(o) + Owed(st[c], pend[c])
              <= Consumed(n, s) + (IF st[c] = "closed" /\ n = 1 THEN 1 ELSE 0)
        BY <1>1, <1>2, <1>4 DEF Served
  <2> QED BY <1>5, <2>1, <2>2, <2>3
<1>7. ASSUME NEW i \in DOMAIN o, o[i].id > 0
      PROVE  IF Framing(c) = "line" THEN o[i].id = Answers(c, i)
             ELSE \A j \in 1..(i - 1) : o[j].id # o[i].id
  <2>1. i \in 1..Len(o) /\ i \in Nat
        BY <1>5
  <2> QED BY <1>2, <1>3, <1>4, <1>7, <2>1 DEF Orderly
<1>8. prof[c].speaks = "jsonrpc" /\ n # 1 => \A i \in DOMAIN o : o[i].kind # "parse error"
      BY <1>2, <1>5 DEF ErrorFree
<1> QED BY <1>6, <1>7, <1>8 DEF n, o

\* What is unread of a connection, where the server is with it, its replies,
\* the backlogs and the blocking pool fit together at every moment.
THEOREM Invariant == Spec => []Inv
BY InitInv, NextInv, PTL DEF Spec

\* Both ends agree on the framing (dispatch_connection, handle_g65_connection).
THEOREM FramingAgreesHolds == Spec => []FramingAgrees
BY Invariant, InvFramingAgrees, PTL

\* Every line gets its own reply and no other (dispatch_connection,
\* LinePrefixed, process_newline_reader_writer, TarpcServer).
THEOREM RepliesMatchHolds == Spec => []RepliesMatch
BY Invariant, InvRepliesMatch, PTL
============================================================================
