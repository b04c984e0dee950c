-------------------------- MODULE ConnectionProofs --------------------------
(***************************************************************************)
(* Proofs about the two clients of a TCP connection.                       *)
(*                                                                         *)
(* AgentLink: with replies that arrive whole and hosts that keep their     *)
(* power, an agent reads one command at a time and never gets into the two *)
(* dead ends of its connection loop.                                       *)
(*                                                                         *)
(* OvsdbClient: two threads read from one socket, and main's replies are   *)
(* late by no more than the answers to echo requests that it took for one. *)
(*                                                                         *)
(* The two specifications share neither variables nor constants; the names *)
(* that both have carry the prefix Ovsdb in OvsdbClient.                   *)
(***************************************************************************)
EXTENDS AgentLink, OvsdbClient, SequenceTheorems, FiniteSetTheorems, TLAPS

(* --- AgentLink: the loop of every DPDK process -------------------------------- *)

\* The command under way, wherever it is: in the agent's kernel, in the agent,
\* or, as a reply, in the kernel of the management program.
InAgent == IF pc = "send" THEN 1 ELSE 0

\* At most one command is under way, and while the connection stands the
\* connection thread knows of it.
OneUnderWay ==
  /\ inbox + InAgent + unread <= 1
  /\ link = "open" => server /\ (inbox + InAgent + unread = 1 => waiting)
  /\ link # "open" => unread = 0

\* What a connection that is gone leaves behind: a reset one held an answer, so
\* the agent has nothing to answer any more, and one that was written to after
\* the FIN has had its last command; one the agent gave up is closed.
GoneInv ==
  /\ link # "half"
  /\ link \in {"rst", "pipe"} => pc = "recv" /\ inbox = 0
  /\ Up /\ pc = "connect" => link = "none" /\ sock # "used" /\ inbox = 0
  /\ ~Up => link = "none"

WholeInv == whole => OneUnderWay /\ GoneInv /\ proc # "killed"

(***************************************************************************)
(* TypeOK holds however replies arrive (TryConnect to ServerStarts, the    *)
(* whole loop of sec_zerocpy.c and connectionthread of spp.py).            *)
(***************************************************************************)
THEOREM LinkTypeCorrect == Spec => []TypeOK
<1>1. Init => TypeOK
  <2> SUFFICES ASSUME Init PROVE TypeOK
    OBVIOUS
  <2>1. server \in BOOLEAN /\ waiting \in BOOLEAN /\ whole \in BOOLEAN
    BY Zenon DEF Init
  <2>2. /\ proc = "up" /\ pc = "connect" /\ sock = "none" /\ link = "none"
        /\ inbox = 0 /\ unread = 0 /\ faults = 0
    BY Zenon DEF Init
  <2> QED BY <2>1, <2>2, LinkAssumption DEF TypeOK, Links
<1>2. TypeOK /\ [Next]_vars => TypeOK'
  <2> SUFFICES ASSUME TypeOK, [Next]_vars PROVE TypeOK'
    OBVIOUS
  <2> USE LinkAssumption DEF TypeOK, Links, agentVars, serverVars
  <2>1. CASE TryConnect BY <2>1 DEF TryConnect
  <2>2. CASE Recv BY <2>2 DEF Recv
  <2>3. CASE RecvFails BY <2>3 DEF RecvFails
  <2>4. CASE Send
    <3>1. unread' \in Nat
      BY <2>4 DEF Send
    <3>2. whole' \in BOOLEAN
      BY <2>4, Zenon DEF Send
    <3>3. proc' \in {"up", "exited", "killed"} /\ pc' \in {"connect", "recv", "send"}
      BY <2>4 DEF Send
    <3>4. link' \in Links
      BY <2>4 DEF Send
    <3>5. UNCHANGED <<sock, inbox, server, waiting, faults>>
      BY <2>4 DEF Send
    <3> QED BY <3>1, <3>2, <3>3, <3>4, <3>5
  <2>5. CASE SendCommand BY <2>5 DEF SendCommand
  <2>6. CASE RecvReply
    <3>1. PICK k \in 1..unread : unread' = unread - k
      BY <2>6 DEF RecvReply
    <3>2. unread' \in Nat
      BY <3>1
    <3>3. waiting' \in BOOLEAN
      BY <2>6, Zenon DEF RecvReply
    <3> QED BY <2>6, <3>2, <3>3 DEF RecvReply
  <2>7. CASE ThreadEnds BY <2>7 DEF ThreadEnds
  <2>8. CASE ServerEnds
    <3>1. server' \in BOOLEAN /\ waiting' \in BOOLEAN /\ whole' \in BOOLEAN
      BY <2>8, Zenon DEF ServerEnds
    <3>2. faults' \in 0..MaxFaults /\ unread' \in Nat
      BY <2>8 DEF ServerEnds
    <3>3. link' \in Links
      BY <2>8 DEF ServerEnds
    <3> QED BY <2>8, <3>1, <3>2, <3>3 DEF ServerEnds
  <2>9. CASE HostDies
    <3>1. server' \in BOOLEAN /\ waiting' \in BOOLEAN /\ whole' \in BOOLEAN
      BY <2>9, Zenon DEF HostDies
    <3>2. faults' \in 0..MaxFaults /\ unread' \in Nat
      BY <2>9 DEF HostDies
    <3>3. link' \in Links
      BY <2>9 DEF HostDies
    <3> QED BY <2>9, <3>1, <3>2, <3>3 DEF HostDies
  <2>10. CASE ServerStarts BY <2>10 DEF ServerStarts
  <2>11. CASE UNCHANGED vars BY <2>11 DEF vars
  <2> QED
    BY <2>1, <2>2, <2>3, <2>4, <2>5, <2>6, <2>7, <2>8, <2>9, <2>10, <2>11
    DEF Next, Agent
<1> QED BY <1>1, <1>2, PTL DEF Spec

(***************************************************************************)
(* While replies arrive whole and hosts keep their power every step keeps  *)
(* WholeInv (the recv and send of sec_zerocpy.c against the get, send and  *)
(* recv of connectionthread).                                              *)
(***************************************************************************)
LEMMA WholeInvariant == Spec => []WholeInv
<1>1. Init /\ TypeOK => WholeInv
  <2> SUFFICES ASSUME Init, TypeOK PROVE WholeInv
    OBVIOUS
  <2>1. /\ proc = "up" /\ pc = "connect" /\ sock = "none" /\ link = "none"
        /\ inbox = 0 /\ unread = 0
    BY Zenon DEF Init
  <2> QED BY <2>1 DEF WholeInv, OneUnderWay, GoneInv, InAgent, Up
<1>2. TypeOK /\ TypeOK' /\ WholeInv /\ [Next]_vars => WholeInv'
  <2> SUFFICES ASSUME TypeOK, TypeOK', WholeInv, [Next]_vars PROVE WholeInv'
    OBVIOUS
  <2> SUFFICES ASSUME whole' PROVE OneUnderWay' /\ GoneInv' /\ proc' # "killed"
    BY DEF WholeInv
  <2>0. OneUnderWay /\ GoneInv /\ proc # "killed"
    <3>1. whole
      BY Zenon DEF Next, Agent, TryConnect, Recv, RecvFails, Send, SendCommand, RecvReply,
                   ThreadEnds, ServerEnds, HostDies, ServerStarts, vars
    <3> QED BY <3>1 DEF WholeInv
  <2> USE <2>0 DEF TypeOK, Links, OneUnderWay, GoneInv, InAgent, Up,
              agentVars, serverVars
  <2>1. CASE TryConnect BY <2>1 DEF TryConnect
  <2>2. CASE Recv BY <2>2 DEF Recv
  <2>3. CASE RecvFails BY <2>3 DEF RecvFails
  <2>4. CASE Send
    <3>0. Up /\ pc = "send"
      BY <2>4, Zenon DEF Send
    <3>1. inbox = 0 /\ unread = 0 /\ link \in {"open", "fin"}
      <4>1. proc = "up" /\ pc = "send" /\ inbox \in Nat /\ unread \in Nat
            /\ inbox + 1 + unread <= 1
        BY <3>0
      <4>2. link \notin {"none", "half", "rst", "pipe"}
        BY <2>4, <3>0 DEF Send
      <4> QED BY <4>1, <4>2
    <3>2. CASE link = "open"
      <4>1. PICK k \in 1..MaxPieces : unread' = unread + k /\ whole' = (whole /\ k = 1)
        BY <2>4, <3>2 DEF Send
      <4>2. k = 1
        BY <4>1, Zenon
      <4>3. /\ pc' = "recv"
            /\ UNCHANGED <<proc, link, sock, inbox, server, waiting>>
        BY <2>4, <3>2 DEF Send
      <4> QED BY <3>0, <3>1, <3>2, <4>1, <4>2, <4>3
    <3>3. CASE link = "fin" BY <2>4, <3>0, <3>1, <3>3 DEF Send
    <3> QED BY <3>1, <3>2, <3>3
  <2>5. CASE SendCommand BY <2>5 DEF SendCommand
  <2>6. CASE RecvReply BY <2>6 DEF RecvReply
  <2>7. CASE ThreadEnds BY <2>7 DEF ThreadEnds
  <2>8. CASE ServerEnds BY <2>8 DEF ServerEnds
  <2>9. CASE HostDies BY <2>9 DEF HostDies
  <2>10. CASE ServerStarts BY <2>10 DEF ServerStarts
  <2>11. CASE UNCHANGED vars BY <2>11 DEF vars
  <2> QED
    BY <2>1, <2>2, <2>3, <2>4, <2>5, <2>6, <2>7, <2>8, <2>9, <2>10, <2>11
    DEF Next, Agent
<1> QED BY <1>1, <1>2, LinkTypeCorrect, PTL DEF Spec

(***************************************************************************)
(* Replies that arrive whole keep the two programs in step: an agent's     *)
(* recv never gets two commands (connectionthread of spp.py).              *)
(***************************************************************************)
THEOREM LinkOneCommand == Spec => []OneCommand
<1>1. TypeOK /\ WholeInv => OneCommand
  BY DEF WholeInv, TypeOK, OneUnderWay, InAgent, OneCommand
<1> QED BY <1>1, LinkTypeCorrect, WholeInvariant, PTL

(***************************************************************************)
(* They also keep an agent from a failed send with its dead socket and     *)
(* from SIGPIPE, whenever the management program ends (send, line 807 of   *)
(* sec_zerocpy.c).                                                         *)
(***************************************************************************)
THEOREM LinkNeverStuck == Spec => []NeverStuck
<1>1. WholeInv => NeverStuck
  BY DEF WholeInv, GoneInv, NeverStuck, Wedged
<1> QED BY <1>1, WholeInvariant, PTL

(* --- OvsdbClient: two readers of one socket ---------------------------------- *)

\* The monitor thread's queue at each of its steps: a turn of its loop begins with
\* at most one message, and select knows of it.
MonQueue ==
  /\ mon \in {"no", "select", "recv"} => Len(queue) <= 1
  /\ mon = "no" => queue = <<>>
  /\ mon = "recv" => (writable <=> queue # <<>>)
  /\ mon = "send" => queue # <<>>

\* A segment of a reply is of a reply to one of the requests lo..hi.  Of two such
\* segments the later one is of a later reply, or the rest of the same.
Mine(e, lo, hi) == OfReply(e) => lo <= e.id /\ e.id <= hi
Follows(d, e) ==
  OfReply(d) /\ OfReply(e) =>
    d.id < e.id \/ (d.id = e.id /\ d.kind = "names" /\ e.kind = "rest")

\* The replies in s, and those of what comes after s in t, are in order.
Ordered(s, lo, hi) ==
  /\ \A i \in 1..Len(s) : Mine(s[i], lo, hi)
  /\ \A i, j \in 1..Len(s) : i < j => Follows(s[i], s[j])
Then(s, t) == \A i \in 1..Len(s), j \in 1..Len(t) : Follows(s[i], t[j])
Stream(g, s, o, lo, hi) ==
  /\ Ordered(g, lo, hi) /\ Ordered(s, lo, hi) /\ Ordered(o, lo, hi)
  /\ Then(g, s) /\ Then(g, o) /\ Then(s, o)

\* What gather_reply has gathered of the reply it waits for, and the first request
\* whose reply may still come.
Gathered == IF main = "gather" THEN result ELSE <<>>
Oldest == (IF main = "prompt" THEN req + 1 ELSE req) - misled

\* The inductive invariant.  While main goes on, what it has gathered, what has
\* arrived and what the server still owes are replies in the order of the requests,
\* and the oldest of them is as many requests behind as main was misled.
StreamInv ==
  main # "ended" =>
    /\ Stream(Gathered, socket, owed, Oldest, req)
    /\ RepliesInStep

\* What one recv takes, and what it leaves.
LEMMA RecvCut ==
  ASSUME NEW T, NEW s \in Seq(T), NEW n \in 1..Len(s)
  PROVE  LET l == SubSeq(s, 1, n) IN LET h == SubSeq(s, n + 1, Len(s)) IN
         /\ l \in Seq(T) /\ h \in Seq(T)
         /\ Len(l) = n /\ Len(h) = Len(s) - n
         /\ \A i \in 1..n : l[i] = s[i]
         /\ \A i \in 1..(Len(s) - n) : h[i] = s[n + i]
<1> DEFINE l == SubSeq(s, 1, n)
           h == SubSeq(s, n + 1, Len(s))
           m == Len(s)
<1>1. m \in Nat /\ n \in Nat /\ n <= m /\ 1 <= n /\ s \in [1..m -> T]
  BY LenProperties
<1>2. /\ l \in Seq(T) /\ Len(l) = (IF 1 <= n THEN n - 1 + 1 ELSE 0)
      /\ \A i \in 1..n - 1 + 1 : l[i] = s[1 + i - 1]
  BY <1>1, SubSeqProperties
<1>3. /\ h \in Seq(T) /\ Len(h) = (IF n + 1 <= m THEN m - (n + 1) + 1 ELSE 0)
      /\ \A i \in 1..m - (n + 1) + 1 : h[i] = s[n + 1 + i - 1]
  BY <1>1, SubSeqProperties
<1> HIDE DEF l, h, m
<1>4. Len(l) = n /\ \A i \in 1..n : l[i] = s[i]
  BY <1>1, <1>2
<1>5. Len(h) = m - n /\ \A i \in 1..(m - n) : h[i] = s[n + i]
  BY <1>1, <1>3
<1> QED BY <1>2, <1>3, <1>4, <1>5 DEF l, h, m

\* What arrived is gathered, or dropped by the monitor thread.
LEMMA StreamRecv ==
  ASSUME NEW T, NEW g \in Seq(T), NEW s \in Seq(T), NEW o \in Seq(T), NEW lo, NEW hi,
         Stream(g, s, o, lo, hi), NEW n \in 1..Len(s)
  PROVE  /\ Stream(g \o SubSeq(s, 1, n), SubSeq(s, n + 1, Len(s)), o, lo, hi)
         /\ Stream(g, SubSeq(s, n + 1, Len(s)), o, lo, hi)
<1> DEFINE l == SubSeq(s, 1, n)
           h == SubSeq(s, n + 1, Len(s))
           c == g \o l
<1>1. /\ l \in Seq(T) /\ h \in Seq(T) /\ Len(l) = n /\ Len(h) = Len(s) - n
      /\ \A i \in 1..n : l[i] = s[i]
      /\ \A i \in 1..(Len(s) - n) : h[i] = s[n + i]
  BY RecvCut
<1>2. Len(g) \in Nat /\ Len(s) \in Nat /\ Len(o) \in Nat /\ n \in 1..Len(s)
  BY LenProperties
<1> HIDE DEF l, h
<1>3. /\ Len(c) = Len(g) + Len(l)
      /\ \A i \in 1..(Len(g) + Len(l)) : c[i] = IF i <= Len(g) THEN g[i] ELSE l[i - Len(g)]
  BY <1>1, ConcatProperties
<1> HIDE DEF c
<1>4. \A i \in 1..Len(h) : n + i \in 1..Len(s) /\ h[i] = s[n + i]
  BY <1>1, <1>2
<1>5. \A i \in 1..Len(c) : \/ i \in 1..Len(g) /\ c[i] = g[i]
                           \/ i > Len(g) /\ i - Len(g) \in 1..n /\ c[i] = s[i - Len(g)]
  BY <1>1, <1>2, <1>3
<1>6. Ordered(h, lo, hi)
  <2>1. \A i \in 1..Len(h) : Mine(h[i], lo, hi)
    BY <1>4 DEF Stream, Ordered
  <2>2. ASSUME NEW i \in 1..Len(h), NEW j \in 1..Len(h), i < j PROVE Follows(h[i], h[j])
    <3>1. n + i < n + j
      BY <1>1, <1>2, <2>2
    <3> QED BY <1>4, <3>1 DEF Stream, Ordered
  <2> QED BY <2>1, <2>2 DEF Ordered
<1>7. Then(g, h) /\ Then(h, o)
  BY <1>4 DEF Stream, Then
<1>8. Ordered(c, lo, hi)
  <2>1. 1..n \subseteq 1..Len(s)
    BY <1>2
  <2>2. \A i \in 1..Len(c) : Mine(c[i], lo, hi)
    BY <1>5, <2>1 DEF Stream, Ordered
  <2>3. ASSUME NEW i \in 1..Len(c), NEW j \in 1..Len(c), i < j PROVE Follows(c[i], c[j])
    <3>0. i \in Nat /\ j \in Nat /\ Len(c) \in Nat
      BY <1>1, <1>2, <1>3
    <3>1. CASE i > Len(g)
      <4>1. j > Len(g) /\ i - Len(g) < j - Len(g)
        BY <1>2, <2>3, <3>0, <3>1
      <4>2. /\ i - Len(g) \in 1..Len(s) /\ c[i] = s[i - Len(g)]
            /\ j - Len(g) \in 1..Len(s) /\ c[j] = s[j - Len(g)]
        <5>1. i - Len(g) \in 1..n /\ c[i] = s[i - Len(g)]
          BY <1>2, <1>5, <3>0, <3>1
        <5>2. j - Len(g) \in 1..n /\ c[j] = s[j - Len(g)]
          BY <1>2, <1>5, <3>0, <4>1
        <5> QED BY <2>1, <5>1, <5>2
      <4> QED BY <4>1, <4>2 DEF Stream, Ordered
    <3>2. CASE i <= Len(g)
      <4>1. i \in 1..Len(g) /\ c[i] = g[i]
        BY <1>2, <1>5, <3>0, <3>2
      <4>2. CASE j <= Len(g)
        <5>1. j \in 1..Len(g) /\ c[j] = g[j]
          BY <1>2, <1>5, <3>0, <4>2
        <5> QED BY <2>3, <4>1, <5>1 DEF Stream, Ordered
      <4>3. CASE j > Len(g)
        <5>1. j - Len(g) \in 1..Len(s) /\ c[j] = s[j - Len(g)]
          BY <1>2, <1>5, <2>1, <3>0, <4>3
        <5> QED BY <4>1, <5>1 DEF Stream, Then
      <4> QED BY <1>2, <3>0, <4>2, <4>3
    <3> QED BY <1>2, <3>0, <3>1, <3>2
  <2> QED BY <2>2, <2>3 DEF Ordered
<1>9. Then(c, h)
  <2> SUFFICES ASSUME NEW i \in 1..Len(c), NEW j \in 1..Len(h) PROVE Follows(c[i], h[j])
    BY DEF Then
  <2>1. CASE i \in 1..Len(g) /\ c[i] = g[i]
    BY <1>4, <2>1 DEF Stream, Then
  <2>2. CASE i - Len(g) \in 1..n /\ c[i] = s[i - Len(g)]
    <3>1. i - Len(g) \in 1..Len(s) /\ i - Len(g) < n + j
      BY <1>1, <1>2, <2>2
    <3> QED BY <1>4, <2>2, <3>1 DEF Stream, Ordered
  <2> QED BY <1>5, <2>1, <2>2
<1>10. Then(c, o)
  <2> SUFFICES ASSUME NEW i \in 1..Len(c), NEW j \in 1..Len(o) PROVE Follows(c[i], o[j])
    BY DEF Then
  <2>1. CASE i \in 1..Len(g) /\ c[i] = g[i]
    BY <2>1 DEF Stream, Then
  <2>2. CASE i - Len(g) \in 1..n /\ c[i] = s[i - Len(g)]
    <3>1. i - Len(g) \in 1..Len(s)
      BY <1>2, <2>2
    <3> QED BY <2>2, <3>1 DEF Stream, Then
  <2> QED BY <1>5, <2>1, <2>2
<1>11. Stream(c, h, o, lo, hi) /\ Stream(g, h, o, lo, hi)
  BY <1>6, <1>7, <1>8, <1>9, <1>10 DEF Stream
<1> QED BY <1>11 DEF c, l, h

\* What the server sends moves from what it owes to what has arrived.
LEMMA StreamSend ==
  ASSUME NEW T, NEW g \in Seq(T), NEW s \in Seq(T), NEW o \in Seq(T), NEW lo, NEW hi,
         Stream(g, s, o, lo, hi), o # <<>>
  PROVE  Stream(g, Append(s, Head(o)), Tail(o), lo, hi)
<1> DEFINE a == Append(s, Head(o))
           t == Tail(o)
<1>1. /\ Head(o) \in T /\ Head(o) = o[1] /\ Len(o) \in Nat \ {0}
      /\ Len(t) = Len(o) - 1 /\ \A i \in 1..Len(t) : t[i] = o[i + 1]
  BY HeadTailProperties, EmptySeq
<1>2. /\ Len(a) = Len(s) + 1 /\ \A i \in 1..Len(s) : a[i] = s[i]
      /\ a[Len(s) + 1] = o[1]
  BY <1>1, AppendProperties
<1>3. Len(g) \in Nat /\ Len(s) \in Nat
  BY LenProperties
<1> HIDE DEF a, t
<1>4. \A i \in 1..Len(a) : \/ i \in 1..Len(s) /\ a[i] = s[i]
                           \/ i = Len(s) + 1 /\ a[i] = o[1]
  BY <1>2, <1>3
<1>5. \A i \in 1..Len(t) : i + 1 \in 1..Len(o) /\ 1 < i + 1 /\ t[i] = o[i + 1]
  BY <1>1
<1>6. 1 \in 1..Len(o)
  BY <1>1
<1>7. Ordered(a, lo, hi)
  <2>1. \A i \in 1..Len(a) : Mine(a[i], lo, hi)
    BY <1>4, <1>6 DEF Stream, Ordered
  <2>2. ASSUME NEW i \in 1..Len(a), NEW j \in 1..Len(a), i < j PROVE Follows(a[i], a[j])
    <3>1. i \in 1..Len(s) /\ a[i] = s[i]
      BY <1>2, <1>3, <1>4, <2>2
    <3> QED BY <1>4, <1>6, <2>2, <3>1 DEF Stream, Ordered, Then
  <2> QED BY <2>1, <2>2 DEF Ordered
<1>8. Ordered(t, lo, hi)
  <2>1. \A i \in 1..Len(t) : Mine(t[i], lo, hi)
    BY <1>5 DEF Stream, Ordered
  <2>2. ASSUME NEW i \in 1..Len(t), NEW j \in 1..Len(t), i < j PROVE Follows(t[i], t[j])
    <3>1. i + 1 < j + 1
      BY <1>1, <2>2
    <3> QED BY <1>5, <3>1 DEF Stream, Ordered
  <2> QED BY <2>1, <2>2 DEF Ordered
<1>9. Then(g, a)
  BY <1>4, <1>6 DEF Stream, Then
<1>10. Then(g, t)
  BY <1>5 DEF Stream, Then
<1>11. Then(a, t)
  BY <1>4, <1>5, <1>6 DEF Stream, Then, Ordered
<1>12. Stream(g, a, t, lo, hi)
  BY <1>7, <1>8, <1>9, <1>10, <1>11 DEF Stream
<1> QED BY <1>12 DEF a, t

\* An echo request is of no reply.
LEMMA StreamEcho ==
  ASSUME NEW g \in Seq(Segments), NEW s \in Seq(Segments), NEW o \in Seq(Segments),
         NEW lo, NEW hi, Stream(g, s, o, lo, hi), Echo \in Segments
  PROVE  Stream(g, Append(s, Echo), o, lo, hi)
<1> DEFINE a == Append(s, Echo)
<1>1. /\ Len(a) = Len(s) + 1 /\ \A i \in 1..Len(s) : a[i] = s[i]
      /\ a[Len(s) + 1] = Echo
  BY AppendProperties
<1>2. Len(s) \in Nat
  BY LenProperties
<1>3. ~OfReply(Echo)
  BY DEF OfReply, Echo, Seg
<1> HIDE DEF a
<1>4. \A i \in 1..Len(a) : \/ i \in 1..Len(s) /\ a[i] = s[i]
                           \/ ~OfReply(a[i]) /\ i = Len(s) + 1
  BY <1>1, <1>2, <1>3
<1>5. Ordered(a, lo, hi)
  <2>1. \A i \in 1..Len(a) : Mine(a[i], lo, hi)
    BY <1>4 DEF Stream, Ordered, Mine
  <2>2. \A i, j \in 1..Len(a) : i < j => Follows(a[i], a[j])
    BY <1>4 DEF Stream, Ordered, Follows
  <2> QED BY <2>1, <2>2 DEF Ordered
<1>6. Then(g, a) /\ Then(a, o)
  <2>1. \A d, e : ~OfReply(d) \/ ~OfReply(e) => Follows(d, e)
    BY DEF Follows
  <2>2. Then(g, a)
    BY <1>4, <2>1 DEF Stream, Then
  <2>3. Then(a, o)
    BY <1>4, <2>1 DEF Stream, Then
  <2> QED BY <2>2, <2>3
<1>7. Stream(g, a, o, lo, hi)
  BY <1>5, <1>6 DEF Stream
<1> QED BY <1>7 DEF a

LEMMA SegmentTypes ==
  ASSUME NEW id \in 0..MaxReqs
  PROVE  /\ Echo \in Segments /\ Pong \in Segments
         /\ OneSegment(id) \in Seq(Segments) /\ TwoSegments(id) \in Seq(Segments)
<1>1. 0 \in 0..MaxReqs
  BY OvsdbAssumption
<1>2. /\ Echo \in Segments /\ Pong \in Segments /\ Seg("whole", id) \in Segments
      /\ Seg("names", id) \in Segments /\ Seg("rest", id) \in Segments
  BY <1>1 DEF Echo, Pong, Seg, Segments
<1> QED BY <1>2 DEF OneSegment, TwoSegments

LEMMA SegmentId ==
  ASSUME NEW q \in Seq(Segments), NEW i \in 1..Len(q)
  PROVE  q[i].id \in Int
<1>1. q[i] \in Segments
  BY ElementOfSeq
<1>2. q[i].id \in 0..MaxReqs
  BY <1>1 DEF Segments
<1> QED BY <1>2, OvsdbAssumption

\* What the server owes next comes after all that is under way.
LEMMA StreamOwe ==
  ASSUME NEW T, NEW g \in Seq(T), NEW s \in Seq(T), NEW o \in Seq(T), NEW a \in Seq(T),
         NEW lo, NEW hi, Stream(g, s, o, lo, hi), Ordered(a, lo, hi),
         Then(g, a), Then(s, a), Then(o, a)
  PROVE  Stream(g, s, o \o a, lo, hi)
<1> DEFINE c == o \o a
<1>1. /\ Len(c) = Len(o) + Len(a)
      /\ \A i \in 1..(Len(o) + Len(a)) : c[i] = IF i <= Len(o) THEN o[i] ELSE a[i - Len(o)]
  BY ConcatProperties
<1>2. Len(o) \in Nat /\ Len(a) \in Nat /\ Len(g) \in Nat /\ Len(s) \in Nat
  BY LenProperties
<1> HIDE DEF c
<1>3. \A i \in 1..Len(c) :
        \/ i \in 1..Len(o) /\ c[i] = o[i]
        \/ i > Len(o) /\ i - Len(o) \in 1..Len(a) /\ c[i] = a[i - Len(o)]
  BY <1>1, <1>2
<1>4. \A i \in 1..Len(c) : Mine(c[i], lo, hi)
  BY <1>3 DEF Stream, Ordered
<1>5. ASSUME NEW i \in 1..Len(c), NEW j \in 1..Len(c), i < j
      PROVE  Follows(c[i], c[j])
  <2>0. i \in Nat /\ j \in Nat
    BY <1>1, <1>2
  <2>1. CASE i \in 1..Len(o) /\ c[i] = o[i]
    <3>1. CASE j \in 1..Len(o) /\ c[j] = o[j]
      BY <1>5, <2>1, <3>1 DEF Stream, Ordered
    <3>2. CASE j - Len(o) \in 1..Len(a) /\ c[j] = a[j - Len(o)]
      BY <2>1, <3>2 DEF Then
    <3> QED BY <1>3, <3>1, <3>2
  <2>2. CASE i > Len(o) /\ i - Len(o) \in 1..Len(a) /\ c[i] = a[i - Len(o)]
    <3>1. j > Len(o) /\ i - Len(o) < j - Len(o)
      BY <1>2, <1>5, <2>0, <2>2
    <3>2. j - Len(o) \in 1..Len(a) /\ c[j] = a[j - Len(o)]
      <4>1. ~(j \in 1..Len(o))
        BY <1>2, <2>0, <3>1
      <4> QED BY <1>3, <4>1
    <3> QED BY <2>2, <3>1, <3>2 DEF Ordered
  <2> QED BY <1>3, <2>1, <2>2
<1>6. Then(g, c)
  BY <1>3 DEF Stream, Then
<1>7. Then(s, c)
  BY <1>3 DEF Stream, Then
<1>8. Stream(g, s, c, lo, hi)
  BY <1>4, <1>5, <1>6, <1>7 DEF Stream, Ordered
<1> QED BY <1>8 DEF c

\* The bounds of the requests that are answered may be widened.
LEMMA StreamWiden ==
  ASSUME NEW g \in Seq(Segments), NEW s \in Seq(Segments), NEW o \in Seq(Segments),
         NEW lo \in Int, NEW hi \in Int, NEW up \in Int, hi <= up,
         Stream(g, s, o, lo, hi)
  PROVE  Stream(g, s, o, lo, up)
<1>1. ASSUME NEW q \in Seq(Segments), Ordered(q, lo, hi)
      PROVE  Ordered(q, lo, up)
  <2>1. \A i \in 1..Len(q) : q[i].id \in Int
    BY SegmentId
  <2>2. \A i \in 1..Len(q) : Mine(q[i], lo, up)
    BY <1>1, <2>1 DEF Ordered, Mine
  <2> QED BY <1>1, <2>2 DEF Ordered
<1> QED BY <1>1 DEF Stream

\* The reply to request id, as the server owes it.
LEMMA ReplyIs ==
  ASSUME NEW id, NEW s, IsReply(s, id)
  PROVE  /\ Len(s) \in {1, 2} /\ s[1].id = id
         /\ Len(s) = 1 => s[1].kind = "whole"
         /\ Len(s) = 2 => s[1].kind = "names" /\ s[2].kind = "rest" /\ s[2].id = id
         /\ s # <<Pong>>
BY DEF IsReply, OneSegment, TwoSegments, Seg, Pong

\* The reply to a new request comes after those to the requests before it.
LEMMA StreamReply ==
  ASSUME NEW s \in Seq(Segments), NEW o \in Seq(Segments), NEW a \in Seq(Segments),
         NEW lo \in Int, NEW hi \in Int, lo <= hi + 1,
         Stream(<<>>, s, o, lo, hi), IsReply(a, hi + 1)
  PROVE  Stream(<<>>, s, o \o a, lo, hi + 1)
<1>1. /\ Len(a) \in {1, 2} /\ a[1].id = hi + 1
      /\ Len(a) = 1 => a[1].kind = "whole"
      /\ Len(a) = 2 => a[1].kind = "names" /\ a[2].kind = "rest" /\ a[2].id = hi + 1
  BY ReplyIs
<1>2. \A i \in 1..Len(a) : a[i].id = hi + 1
  BY <1>1
<1>3. ASSUME NEW q \in Seq(Segments), Ordered(q, lo, hi)
      PROVE  Then(q, a)
  <2>1. ASSUME NEW i \in 1..Len(q), NEW j \in 1..Len(a)
        PROVE  Follows(q[i], a[j])
    <3>1. Mine(q[i], lo, hi) /\ q[i].id \in Int /\ a[j].id = hi + 1
      BY <1>2, <1>3, <2>1, SegmentId DEF Ordered
    <3> QED BY <3>1 DEF Mine, Follows
  <2> QED BY <2>1 DEF Then
<1>4. Ordered(a, lo, hi + 1)
  <2>1. \A i \in 1..Len(a) : Mine(a[i], lo, hi + 1)
    BY <1>2 DEF Mine
  <2>2. \A i, j \in 1..Len(a) : i < j => Follows(a[i], a[j])
    BY <1>1 DEF Follows
  <2> QED BY <2>1, <2>2 DEF Ordered
<1>5. <<>> \in Seq(Segments) /\ hi + 1 \in Int /\ hi <= hi + 1
  BY EmptySeq
<1>6. Stream(<<>>, s, o, lo, hi + 1)
  BY <1>5, StreamWiden
<1>7. Then(<<>>, a) /\ Then(s, a) /\ Then(o, a)
  BY <1>3, <1>5 DEF Stream
<1> QED BY <1>4, <1>5, <1>6, <1>7, StreamOwe

\* The answers to echo requests are of no reply.
LEMMA StreamPongs ==
  ASSUME NEW g \in Seq(Segments), NEW s \in Seq(Segments), NEW o \in Seq(Segments),
         NEW lo, NEW hi, Stream(g, s, o, lo, hi), NEW m \in Nat, Pong \in Segments
  PROVE  /\ o \o [i \in 1..m |-> Pong] \in Seq(Segments)
         /\ Stream(g, s, o \o [i \in 1..m |-> Pong], lo, hi)
<1> DEFINE a == [i \in 1..m |-> Pong]
<1>1. a \in Seq(Segments) /\ Len(a) = m
  BY IsASeq
<1>2. \A i \in 1..Len(a) : ~OfReply(a[i])
  BY <1>1 DEF OfReply, Pong, Seg
<1>3. o \o a \in Seq(Segments)
  BY <1>1, ConcatProperties
<1> HIDE DEF a
<1>4. Ordered(a, lo, hi)
  BY <1>2 DEF Ordered, Mine, Follows
<1>5. Then(g, a) /\ Then(s, a) /\ Then(o, a)
  BY <1>2 DEF Then, Follows
<1>6. Stream(g, s, o \o a, lo, hi)
  BY <1>1, <1>4, <1>5, StreamOwe
<1> QED BY <1>3, <1>6 DEF a

\* Once main has a reply, only later ones are left.
LEMMA ReplyTaken ==
  ASSUME NEW g \in Seq(Segments), NEW s \in Seq(Segments), NEW o \in Seq(Segments),
         NEW lo \in Int, NEW hi \in Int, NEW id \in Int,
         Stream(g, s, o, lo, hi), IsReply(g, id)
  PROVE  lo <= id /\ id <= hi /\ Stream(<<>>, s, o, lo + 1, hi)
<1>1. /\ Len(g) \in {1, 2} /\ g[1].id = id
      /\ Len(g) = 1 => g[1].kind = "whole"
      /\ Len(g) = 2 => g[1].kind = "names" /\ g[2].kind = "rest" /\ g[2].id = id
  BY ReplyIs
<1>2. 1 \in 1..Len(g) /\ Len(g) \in 1..Len(g)
  BY <1>1
<1>3. lo <= id /\ id <= hi
  <2>1. OfReply(g[1])
    BY <1>1 DEF OfReply
  <2> QED BY <1>1, <1>2, <2>1 DEF Stream, Ordered, Mine
<1> DEFINE l == g[Len(g)]
<1>4. OfReply(l) /\ l.kind # "names" /\ l.id = id
  BY <1>1 DEF OfReply
<1>5. ASSUME NEW q \in Seq(Segments), Ordered(q, lo, hi), Then(g, q)
      PROVE  Ordered(q, lo + 1, hi)
  <2>1. ASSUME NEW i \in 1..Len(q)
        PROVE  Mine(q[i], lo + 1, hi)
    <3>1. Mine(q[i], lo, hi) /\ Follows(l, q[i]) /\ q[i].id \in Int
      BY <1>2, <1>5, <2>1, SegmentId DEF Ordered, Then
    <3> HIDE DEF l
    <3>2. OfReply(q[i]) => id < q[i].id
      BY <1>4, <3>1 DEF Follows
    <3> QED BY <1>3, <3>1, <3>2 DEF Mine
  <2> QED BY <1>5, <2>1 DEF Ordered
<1>6. Len(<<>>) = 0
  OBVIOUS
<1>7. Ordered(<<>>, lo + 1, hi) /\ Then(<<>>, s) /\ Then(<<>>, o)
  BY <1>6 DEF Ordered, Then
<1> QED BY <1>3, <1>5, <1>7 DEF Stream

\* One turn of gather_reply's loop.
LEMMA GatherDoes ==
  ASSUME OvsdbTypeOK, Gather
  PROVE  \E n \in 1..Len(socket) :
           LET l == SubSeq(socket, 1, n) IN LET h == SubSeq(socket, n + 1, Len(socket)) IN
           /\ result' = result \o l /\ socket' = h
           /\ result' \in Seq(Segments) /\ socket' \in Seq(Segments)
           /\ main = "gather" /\ main' \in {"gather", "prompt", "ended"}
           /\ main' = "prompt" =>
                \/ answer' = 0 /\ misled' = misled + 1
                \/ \E id \in 1..req : IsReply(result', id) /\ answer' = id /\ misled' = misled
           /\ main' # "prompt" => answer' = answer /\ misled' = misled
           /\ UNCHANGED <<req, owed, closed, echoes, mon, writable, queue, stolen>>
<1>1. PICK n \in 1..Len(socket) : /\ result' = result \o SubSeq(socket, 1, n)
                                  /\ socket' = SubSeq(socket, n + 1, Len(socket))
  BY DEF Gather
<1> DEFINE l == SubSeq(socket, 1, n)
           h == SubSeq(socket, n + 1, Len(socket))
<1>2. l \in Seq(Segments) /\ h \in Seq(Segments)
  BY RecvCut DEF OvsdbTypeOK
<1>3. result' \in Seq(Segments) /\ socket' \in Seq(Segments)
  BY <1>1, <1>2, ConcatProperties DEF OvsdbTypeOK
<1>4. /\ main = "gather" /\ main' \in {"gather", "prompt", "ended"}
      /\ main' = "prompt" => \/ result' = <<Pong>>
                             \/ \E id \in 1..req : IsReply(result', id)
      /\ answer' = IF main' = "prompt" THEN result'[1].id ELSE answer
      /\ misled' = IF main' = "prompt" /\ result' = <<Pong>> THEN misled + 1 ELSE misled
  BY DEF Gather, Loads
<1>5. ASSUME main' = "prompt"
      PROVE  \/ answer' = 0 /\ misled' = misled + 1
             \/ \E id \in 1..req : IsReply(result', id) /\ answer' = id /\ misled' = misled
  <2>1. CASE result' = <<Pong>>
    BY <1>4, <1>5, <2>1 DEF Pong, Seg
  <2>2. ASSUME NEW id \in 1..req, IsReply(result', id)
        PROVE  answer' = id /\ misled' = misled
    BY <1>4, <1>5, <2>2, ReplyIs
  <2> QED BY <1>4, <1>5, <2>1, <2>2
<1>6. UNCHANGED <<req, owed, closed, echoes, mon, writable, queue, stolen>>
  BY DEF Gather, replyVars, monVars
<1> QED BY <1>1, <1>3, <1>4, <1>5, <1>6

\* A turn of the monitor thread leaves main alone; what it receives is gone, and
\* what it sends may bring answers to echo requests.
LEMMA MonitorDoes ==
  ASSUME OvsdbTypeOK, MonQueue, Monitor
  PROVE  /\ UNCHANGED <<main, req, result, answer, misled, closed, echoes>>
         /\ \/ UNCHANGED <<socket, owed>>
            \/ /\ \E n \in 1..Len(socket) : socket' = SubSeq(socket, n + 1, Len(socket))
               /\ owed' = owed
            \/ /\ \E m \in Nat : owed' = owed \o [i \in 1..m |-> Pong]
               /\ socket' = socket
<1>1. UNCHANGED <<main, req, result, answer, misled, closed, echoes>>
  BY DEF Monitor, MonSelect, MonRecv, MonSend, mainVars, replyVars
<1>2. CASE MonSelect
  BY <1>1, <1>2 DEF MonSelect, replyVars
<1>3. CASE MonRecv
  <2>1. owed' = owed
    BY <1>3 DEF MonRecv, replyVars
  <2>2. \/ \E n \in 1..Len(socket) : socket' = SubSeq(socket, n + 1, Len(socket))
        \/ socket' = socket
    BY <1>3 DEF MonRecv
  <2> QED BY <1>1, <2>1, <2>2
<1>4. CASE MonSend
  <2>1. Head(queue) \in Nat
    BY <1>4, HeadTailProperties DEF MonSend, MonQueue, OvsdbTypeOK
  <2>2. 0..Head(queue) \subseteq Nat
    BY <2>1
  <2> QED BY <1>1, <1>4, <2>2 DEF MonSend
<1> QED BY <1>2, <1>3, <1>4 DEF Monitor

\* The count of the echo requests in a text is a number.
LEMMA EchoesInNat ==
  ASSUME NEW n \in Nat
  PROVE  EchoesIn(n) \in Nat
<1>1. IsFiniteSet(1..n)
  BY FS_Interval
<1>2. IsFiniteSet({i \in 1..n : socket[i] = Echo})
  BY <1>1, FS_Subset
<1> QED BY <1>2, FS_CardinalityType DEF EchoesIn

LEMMA MonQueueStep ==
  ASSUME OvsdbTypeOK, MonQueue, Monitor
  PROVE  /\ MonQueue' /\ mon' \in {"no", "select", "recv", "send", "ended"}
         /\ writable' \in BOOLEAN /\ queue' \in Seq(Nat) /\ Len(queue') <= 2
         /\ stolen' \in BOOLEAN
<1>1. /\ queue \in Seq(Nat) /\ Len(queue) <= 2 /\ Len(queue) \in Nat
      /\ queue = <<>> <=> Len(queue) = 0
  BY LenProperties, EmptySeq DEF OvsdbTypeOK
<1>2. CASE MonSelect
  <2>1. writable' = (queue # <<>>) /\ queue' = queue /\ stolen' = stolen
    BY <1>2 DEF MonSelect
  <2>2. mon = "select" /\ (mon' = "recv" \/ (mon' = "send" /\ queue # <<>>))
    <3>1. CASE socket # <<>> \/ closed
      BY <1>2, <3>1 DEF MonSelect
    <3>2. CASE ~(socket # <<>> \/ closed)
      <4>1. queue # <<>>
        BY <1>2, <3>2, Zenon DEF MonSelect
      <4> QED BY <1>2, <3>2, <4>1 DEF MonSelect
    <3> QED BY <3>1, <3>2
  <2>3. writable' \in BOOLEAN /\ stolen' \in BOOLEAN
    BY <2>1, Zenon DEF OvsdbTypeOK
  <2>4. writable' <=> queue' # <<>>
    BY <2>1, Zenon
  <2> QED BY <1>1, <2>1, <2>2, <2>3, <2>4 DEF MonQueue
<1>3. CASE MonRecv
  <2>1. \E c \in Nat : queue' = Append(queue, c)
    <3>1. \A n \in 1..Len(socket) : EchoesIn(n) \in Nat
      <4>1. Len(socket) \in Nat
        BY LenProperties DEF OvsdbTypeOK
      <4>2. 1..Len(socket) \subseteq Nat
        BY <4>1
      <4> QED BY <4>2, EchoesInNat
    <3>2. \/ \E n \in 1..Len(socket) : queue' = Append(queue, EchoesIn(n))
          \/ queue' = Append(queue, 0)
      BY <1>3 DEF MonRecv
    <3> QED BY <3>1, <3>2
  <2>2. queue' \in Seq(Nat) /\ Len(queue') = Len(queue) + 1
    BY <1>1, <2>1, AppendProperties
  <2>3. writable' = writable /\ mon = "recv" /\ mon' = IF writable THEN "send" ELSE "select"
    BY <1>3 DEF MonRecv
  <2>4. writable' \in BOOLEAN /\ stolen' \in BOOLEAN
    BY <1>3, Zenon DEF OvsdbTypeOK, MonRecv
  <2>5. Len(queue) <= 1 /\ (writable <=> queue # <<>>)
    BY <2>3 DEF MonQueue
  <2>6. mon' = "send" \/ (mon' = "select" /\ queue = <<>>)
    BY <2>3, <2>5, Zenon
  <2>7. Len(queue') <= 2 /\ queue' # <<>> /\ (queue = <<>> => Len(queue') <= 1)
    BY <1>1, <2>2, <2>5, EmptySeq
  <2> QED BY <2>2, <2>4, <2>6, <2>7 DEF MonQueue
<1>4. CASE MonSend
  <2>1. queue # <<>> /\ queue' = Tail(queue) /\ mon' = "select"
    BY <1>4 DEF MonSend, MonQueue
  <2>2. queue' \in Seq(Nat) /\ Len(queue') = Len(queue) - 1
    BY <1>1, <2>1, HeadTailProperties
  <2>3. writable' \in BOOLEAN /\ stolen' \in BOOLEAN
    BY <1>4, Zenon DEF OvsdbTypeOK, MonSend
  <2> QED BY <1>1, <2>1, <2>2, <2>3 DEF MonQueue
<1> QED BY <1>2, <1>3, <1>4 DEF Monitor

LEMMA OvsdbTypeStep ==
  OvsdbTypeOK /\ MonQueue /\ [OvsdbNext]_ovsdbVars => OvsdbTypeOK' /\ MonQueue'
<1> SUFFICES ASSUME OvsdbTypeOK, MonQueue, [OvsdbNext]_ovsdbVars
             PROVE  OvsdbTypeOK' /\ MonQueue'
  OBVIOUS
<1>0. Pong \in Segments /\ Echo \in Segments
  BY SegmentTypes DEF OvsdbTypeOK
<1>1. CASE Request
  <2>1. req' \in 0..MaxReqs
    BY <1>1, OvsdbAssumption DEF Request, OvsdbTypeOK
  <2>2. owed' \in Seq(Segments) /\ result' \in Seq(Segments)
    <3>1. /\ owed \in Seq(Segments) /\ <<>> \in Seq(Segments)
          /\ OneSegment(req') \in Seq(Segments) /\ TwoSegments(req') \in Seq(Segments)
      BY <2>1, SegmentTypes, EmptySeq DEF OvsdbTypeOK
    <3>2. /\ owed \o OneSegment(req') \in Seq(Segments)
          /\ owed \o TwoSegments(req') \in Seq(Segments)
      BY <3>1, ConcatProperties
    <3> QED BY <1>1, <3>1, <3>2 DEF Request
  <2>3. main' \in {"prompt", "gather", "ended"}
    BY <1>1 DEF Request
  <2> QED BY <1>1, <2>1, <2>2, <2>3 DEF Request, OvsdbTypeOK, MonQueue, monVars
<1>2. CASE Gather
  <2>1. /\ result' \in Seq(Segments) /\ socket' \in Seq(Segments)
        /\ main' \in {"gather", "prompt", "ended"}
        /\ answer' \in {0, answer} \/ answer' \in 1..req
        /\ misled' \in {misled, misled + 1}
        /\ UNCHANGED <<req, owed, closed, echoes, mon, writable, queue, stolen>>
    BY <1>2, GatherDoes
  <2>2. answer' \in 0..MaxReqs /\ misled' \in Nat
    BY <2>1, OvsdbAssumption DEF OvsdbTypeOK
  <2> QED BY <2>1, <2>2 DEF OvsdbTypeOK, MonQueue
<1>3. CASE StartMonitor \/ GatherFails \/ Exit
  <2>1. CASE StartMonitor
    BY <2>1, EmptySeq DEF StartMonitor, OvsdbTypeOK, MonQueue, mainVars, replyVars
  <2>2. CASE GatherFails \/ Exit
    BY <2>2 DEF GatherFails, Exit, OvsdbTypeOK, MonQueue, replyVars, monVars
  <2> QED BY <1>3, <2>1, <2>2
<1>9. CASE MonFails
  BY <1>9 DEF MonFails, OvsdbTypeOK, MonQueue, mainVars, replyVars
<1>4. CASE Monitor
  <2>1. UNCHANGED <<main, req, result, answer, misled, closed, echoes>>
    BY <1>4, MonitorDoes
  <2>2. /\ MonQueue' /\ mon' \in {"no", "select", "recv", "send", "ended"}
        /\ writable' \in BOOLEAN /\ queue' \in Seq(Nat) /\ Len(queue') <= 2
        /\ stolen' \in BOOLEAN
    BY <1>4, MonQueueStep
  <2>3. socket' \in Seq(Segments) /\ owed' \in Seq(Segments)
    <3>1. socket \in Seq(Segments) /\ owed \in Seq(Segments)
      BY DEF OvsdbTypeOK
    <3>2. \A n \in 1..Len(socket) : SubSeq(socket, n + 1, Len(socket)) \in Seq(Segments)
      BY <3>1, RecvCut
    <3>3. ASSUME NEW m \in Nat PROVE owed \o [i \in 1..m |-> Pong] \in Seq(Segments)
      <4>1. [i \in 1..m |-> Pong] \in Seq(Segments)
        BY <1>0, IsASeq
      <4> QED BY <3>1, <4>1, ConcatProperties
    <3> QED BY <1>4, <3>1, <3>2, <3>3, MonitorDoes
  <2> QED BY <2>1, <2>2, <2>3 DEF OvsdbTypeOK
<1>5. CASE ServerSends
  <2>1. owed' \in Seq(Segments) /\ socket' \in Seq(Segments)
    BY <1>5, HeadTailProperties, AppendProperties DEF ServerSends, OvsdbTypeOK
  <2> QED BY <1>5, <2>1 DEF ServerSends, OvsdbTypeOK, MonQueue, mainVars, monVars
<1>6. CASE ServerEchoes
  <2>2. socket' \in Seq(Segments)
    BY <1>0, <1>6, AppendProperties DEF ServerEchoes, OvsdbTypeOK
  <2>3. echoes' \in 0..MaxEchoes
    BY <1>6, OvsdbAssumption DEF ServerEchoes, OvsdbTypeOK
  <2> QED BY <1>6, <2>2, <2>3 DEF ServerEchoes, OvsdbTypeOK, MonQueue, mainVars, monVars
<1>7. CASE ServerCloses
  <2>1. owed' \in Seq(Segments)
    BY <1>7, EmptySeq DEF ServerCloses
  <2>2. closed' \in BOOLEAN
    BY <1>7, Zenon DEF ServerCloses
  <2> QED BY <1>7, <2>1, <2>2 DEF ServerCloses, OvsdbTypeOK, MonQueue, mainVars, monVars
<1>8. CASE UNCHANGED ovsdbVars
  BY <1>8 DEF ovsdbVars, OvsdbTypeOK, MonQueue
<1> QED BY <1>1, <1>2, <1>3, <1>4, <1>5, <1>6, <1>7, <1>8, <1>9 DEF OvsdbNext

LEMMA OvsdbTypeInit == OvsdbInit => OvsdbTypeOK /\ MonQueue
<1> SUFFICES ASSUME OvsdbInit PROVE OvsdbTypeOK /\ MonQueue
  OBVIOUS
<1>1. closed \in BOOLEAN /\ writable \in BOOLEAN /\ stolen \in BOOLEAN
  BY Zenon DEF OvsdbInit
<1>2. /\ main = "prompt" /\ req = 0 /\ result = <<>> /\ answer = 0 /\ misled = 0
      /\ socket = <<>> /\ owed = <<>> /\ echoes = 0 /\ mon = "no" /\ queue = <<>>
  BY Zenon DEF OvsdbInit
<1>3. <<>> \in Seq(Segments) /\ <<>> \in Seq(Nat) /\ Len(<<>>) = 0
  BY EmptySeq
<1> QED BY <1>1, <1>2, <1>3, OvsdbAssumption DEF OvsdbTypeOK, MonQueue

\* The state of ovsdb.py keeps its shape in every run, for any number of requests
\* and echo requests; the queue of listen_for_messages never grows beyond two.
THEOREM OvsdbTypeCorrect == OvsdbSpec => []OvsdbTypeOK
BY OvsdbTypeInit, OvsdbTypeStep, PTL DEF OvsdbSpec

LEMMA StreamStep ==
  OvsdbTypeOK /\ MonQueue /\ StreamInv /\ [OvsdbNext]_ovsdbVars => StreamInv'
<1> SUFFICES ASSUME OvsdbTypeOK, MonQueue, StreamInv, [OvsdbNext]_ovsdbVars,
                    main' # "ended"
             PROVE  Stream(Gathered', socket', owed', Oldest', req') /\ RepliesInStep'
  BY DEF StreamInv, Stream, Ordered, Mine, Then, Follows, OfReply
<1>0. /\ socket \in Seq(Segments) /\ owed \in Seq(Segments)
      /\ result \in Seq(Segments) /\ Gathered \in Seq(Segments) /\ <<>> \in Seq(Segments)
      /\ req \in Nat /\ misled \in Nat /\ answer \in Nat /\ Oldest \in Int
      /\ Pong \in Segments /\ Echo \in Segments
  BY EmptySeq, SegmentTypes, OvsdbAssumption DEF OvsdbTypeOK, Gathered, Oldest
<1>i. main # "ended" => Stream(Gathered, socket, owed, Oldest, req) /\ RepliesInStep
  BY DEF StreamInv
<1>1. CASE Request
  <2>1. /\ main = "prompt" /\ main' = "gather" /\ result' = <<>> /\ UNCHANGED <<socket, misled>>
        /\ req' = req + 1 /\ req' \in 0..MaxReqs
        /\ \/ owed' = owed \/ owed' = owed \o OneSegment(req')
           \/ owed' = owed \o TwoSegments(req')
    BY <1>0, <1>1, OvsdbAssumption DEF Request, OvsdbTypeOK
  <2>2. Gathered' = <<>> /\ Gathered = <<>> /\ Oldest' = Oldest /\ Oldest <= req + 1
    BY <1>0, <2>1 DEF Gathered, Oldest
  <2>3. Stream(<<>>, socket, owed, Oldest, req)
    BY <1>i, <2>1, <2>2
  <2>4. Stream(<<>>, socket, owed, Oldest, req + 1)
    <3>1. req \in Int /\ req + 1 \in Int /\ req <= req + 1
      BY <1>0
    <3> QED BY <1>0, <2>3, <3>1, StreamWiden
  <2>5. ASSUME NEW a \in Seq(Segments), IsReply(a, req + 1)
        PROVE  Stream(<<>>, socket, owed \o a, Oldest, req + 1)
    BY <1>0, <2>2, <2>3, <2>5, StreamReply
  <2>6. /\ OneSegment(req') \in Seq(Segments) /\ TwoSegments(req') \in Seq(Segments)
        /\ IsReply(OneSegment(req'), req + 1) /\ IsReply(TwoSegments(req'), req + 1)
    BY <2>1, SegmentTypes DEF IsReply
  <2>7. Stream(<<>>, socket, owed', Oldest, req + 1)
    BY <2>1, <2>4, <2>5, <2>6
  <2> QED BY <2>1, <2>2, <2>7 DEF RepliesInStep
<1>2. CASE Gather
  <2>1. PICK n \in 1..Len(socket) :
          /\ result' = result \o SubSeq(socket, 1, n)
          /\ socket' = SubSeq(socket, n + 1, Len(socket))
          /\ result' \in Seq(Segments) /\ socket' \in Seq(Segments)
          /\ main = "gather" /\ main' \in {"gather", "prompt", "ended"}
          /\ main' = "prompt" =>
               \/ answer' = 0 /\ misled' = misled + 1
               \/ \E id \in 1..req : IsReply(result', id) /\ answer' = id /\ misled' = misled
          /\ main' # "prompt" => answer' = answer /\ misled' = misled
          /\ req' = req /\ owed' = owed
    BY <1>2, GatherDoes
  <2>2. Stream(result, socket, owed, Oldest, req) /\ Oldest = req - misled
    BY <2>1, <1>i DEF Gathered, Oldest
  <2>3. Stream(result', socket', owed, Oldest, req)
    BY <1>0, <2>1, <2>2, StreamRecv
  <2>4. CASE main' = "gather"
    <3>1. Gathered' = result' /\ Oldest' = Oldest
      BY <2>1, <2>2, <2>4 DEF Gathered, Oldest
    <3> QED BY <2>1, <2>3, <2>4, <3>1 DEF RepliesInStep
  <2>5. CASE main' = "prompt" /\ answer' = 0 /\ misled' = misled + 1
    <3>1. Gathered' = <<>> /\ Oldest' = Oldest /\ Len(<<>>) = 0
      BY <1>0, <2>1, <2>2, <2>5 DEF Gathered, Oldest
    <3>2. Stream(<<>>, socket', owed, Oldest, req)
      BY <2>3, <3>1 DEF Stream, Ordered, Then
    <3>3. RepliesInStep'
      BY <1>0, <2>1, <2>5 DEF RepliesInStep
    <3> QED BY <2>1, <3>1, <3>2, <3>3
  <2>6. ASSUME main' = "prompt", NEW id \in 1..req, IsReply(result', id),
               answer' = id, misled' = misled
        PROVE  Stream(Gathered', socket', owed', Oldest', req') /\ RepliesInStep'
    <3>1. Oldest <= id /\ id <= req /\ Stream(<<>>, socket', owed, Oldest + 1, req)
      <4>1. req \in Int /\ id \in Int
        BY <1>0
      <4>2. socket' \in Seq(Segments) /\ result' \in Seq(Segments) /\ IsReply(result', id)
        BY <2>1, <2>6
      <4> DEFINE lo == Oldest
      <4>3. lo \in Int /\ Stream(result', socket', owed, lo, req)
        BY <1>0, <2>3
      <4> HIDE DEF lo
      <4>4. lo <= id /\ id <= req /\ Stream(<<>>, socket', owed, lo + 1, req)
        BY <1>0, <4>1, <4>2, <4>3, ReplyTaken
      <4> QED BY <4>4 DEF lo
    <3>2. Gathered' = <<>> /\ Oldest' = Oldest + 1
      BY <1>0, <2>1, <2>2, <2>6 DEF Gathered, Oldest
    <3>3. RepliesInStep'
      BY <1>0, <2>1, <2>2, <2>6, <3>1 DEF RepliesInStep
    <3> QED BY <2>1, <3>1, <3>2, <3>3
  <2> QED BY <2>1, <2>4, <2>5, <2>6
<1>3. CASE StartMonitor \/ MonFails
  <2>1. UNCHANGED <<main, req, result, answer, misled, socket, owed>>
    BY <1>3 DEF StartMonitor, MonFails, mainVars, replyVars
  <2> QED BY <1>i, <2>1 DEF Gathered, Oldest, RepliesInStep
<1>4. CASE Monitor
  <2>1. /\ UNCHANGED <<main, req, result, answer, misled>>
        /\ \/ UNCHANGED <<socket, owed>>
           \/ /\ \E n \in 1..Len(socket) : socket' = SubSeq(socket, n + 1, Len(socket))
              /\ owed' = owed
           \/ /\ \E m \in Nat : owed' = owed \o [i \in 1..m |-> Pong]
              /\ socket' = socket
    BY <1>4, MonitorDoes
  <2>2. Gathered' = Gathered /\ Oldest' = Oldest /\ (RepliesInStep' <=> RepliesInStep)
    BY <2>1 DEF Gathered, Oldest, RepliesInStep
  <2>3. Stream(Gathered, socket, owed, Oldest, req) /\ RepliesInStep
    BY <1>i, <2>1
  <2>4. \A n \in 1..Len(socket) :
          Stream(Gathered, SubSeq(socket, n + 1, Len(socket)), owed, Oldest, req)
    BY <1>0, <2>3, StreamRecv
  <2>5. \A m \in Nat : Stream(Gathered, socket, owed \o [i \in 1..m |-> Pong], Oldest, req)
    BY <1>0, <2>3, StreamPongs
  <2> QED BY <2>1, <2>2, <2>3, <2>4, <2>5
<1>5. CASE ServerSends
  <2>1. /\ owed # <<>> /\ socket' = Append(socket, Head(owed)) /\ owed' = Tail(owed)
        /\ UNCHANGED <<main, req, result, answer, misled>>
    BY <1>5 DEF ServerSends, mainVars
  <2>2. Gathered' = Gathered /\ Oldest' = Oldest /\ (RepliesInStep' <=> RepliesInStep)
    BY <2>1 DEF Gathered, Oldest, RepliesInStep
  <2>3. Stream(Gathered, socket', owed', Oldest, req)
    BY <1>0, <1>i, <2>1, StreamSend
  <2> QED BY <1>i, <2>1, <2>2, <2>3
<1>6. CASE ServerEchoes
  <2>1. /\ socket' = Append(socket, Echo)
        /\ UNCHANGED <<main, req, result, answer, misled, owed>>
    BY <1>6 DEF ServerEchoes, mainVars
  <2>2. Gathered' = Gathered /\ Oldest' = Oldest /\ (RepliesInStep' <=> RepliesInStep)
    BY <2>1 DEF Gathered, Oldest, RepliesInStep
  <2>3. Stream(Gathered, socket', owed, Oldest, req)
    BY <1>0, <1>i, <2>1, StreamEcho
  <2> QED BY <1>i, <2>1, <2>2, <2>3
<1>7. CASE ServerCloses
  <2>1. /\ owed' = <<>> /\ UNCHANGED <<main, req, result, answer, misled, socket>>
    BY <1>7 DEF ServerCloses, mainVars
  <2>2. Gathered' = Gathered /\ Oldest' = Oldest /\ Len(owed') = 0
        /\ (RepliesInStep' <=> RepliesInStep)
    BY <2>1 DEF Gathered, Oldest, RepliesInStep
  <2>3. Stream(Gathered, socket, owed', Oldest, req)
    BY <1>i, <2>1, <2>2 DEF Stream, Ordered, Then
  <2> QED BY <1>i, <2>1, <2>2, <2>3
<1>8. CASE UNCHANGED ovsdbVars
  <2>1. UNCHANGED <<main, req, result, answer, misled, socket, owed>>
    BY <1>8 DEF ovsdbVars
  <2> QED BY <1>i, <2>1 DEF Gathered, Oldest, RepliesInStep
<1>9. CASE GatherFails \/ Exit
  BY <1>9 DEF GatherFails, Exit
<1> QED BY <1>1, <1>2, <1>3, <1>4, <1>5, <1>6, <1>7, <1>8, <1>9 DEF OvsdbNext

\* Every request of ovsdb.py carries the same id, two threads read from one socket,
\* and the monitor thread makes the server answer its own echo requests.  Still
\* gather_reply returns a reply at most as many requests late as it took such
\* answers for replies, and with none of them the reply to the last request.
THEOREM OvsdbRepliesInStep == OvsdbSpec => []RepliesInStep
<1>1. OvsdbInit => StreamInv
  <2> SUFFICES ASSUME OvsdbInit PROVE StreamInv
    OBVIOUS
  <2>1. /\ main = "prompt" /\ req = 0 /\ answer = 0 /\ misled = 0
        /\ socket = <<>> /\ owed = <<>>
    BY DEF OvsdbInit
  <2>2. Gathered = <<>> /\ Len(<<>>) = 0
    BY <2>1 DEF Gathered
  <2>3. RepliesInStep
    BY <2>1 DEF RepliesInStep
  <2> QED BY <2>1, <2>2, <2>3 DEF StreamInv, Stream, Ordered, Then
<1>2. StreamInv => RepliesInStep
  BY DEF StreamInv, RepliesInStep
<1> QED BY <1>1, <1>2, StreamStep, OvsdbTypeInit, OvsdbTypeStep, PTL DEF OvsdbSpec
=============================================================================
