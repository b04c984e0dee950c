------------------------ MODULE SppControllerProofs ------------------------
(* Proofs about SppController, for any number of secondaries, primaries and  *)
(* commands: its type invariant, and that no answer is taken for another's.  *)
EXTENDS SppController, SequenceTheorems, TLAPS

Queue == Seq(Msgs)

\* The acceptthread is between two steps for an id that fits.
Room == apc # "accept" => count < MaxConn

\* The thread of an id that acceptthread has not come to is not there.
Unborn == \A l \in Ids : l >= count => tpc[l] = "unborn"

\* A queue holds nothing, or one message of the command last typed.
AtMostOne(s) == s = <<>> \/ \E e \in Msgs : e.no = n /\ s = <<e>>

\* Link l has the command or its answer in one place at most: in one of the
\* shell's queues, or with the thread, which waits for the reply while it is on
\* the wire.  An agent that is gone has nothing to read.
OneOnLink(l) ==
  /\ AtMostOne(m2s[l]) /\ AtMostOne(s2m[l]) /\ AtMostOne(c2a[l]) /\ AtMostOne(a2c[l])
  /\ m2s[l] # <<>> => s2m[l] = <<>> /\ tpc[l] # "recv"
  /\ s2m[l] # <<>> => tpc[l] # "recv"
  /\ c2a[l] # <<>> => a2c[l] = <<>> /\ tpc[l] = "recv" /\ link[l] = "open"
  /\ a2c[l] # <<>> => tpc[l] = "recv"

\* It has it only while the shell waits for it.
AwaitedOn(l) ==
  m2s[l] # <<>> \/ s2m[l] # <<>> \/ tpc[l] = "recv" =>
    shell \in {"get", "crashed"} /\ target = l

\* The inductive invariant.
LinkInv == \A l \in Links : OneOnLink(l) /\ AwaitedOn(l)
SppInv == TypeOK /\ Room /\ Unborn /\ LinkInv

(* --- queues ------------------------------------------------------------------ *)

LEMMA LinksFacts == Pri \in Links /\ Ids \subseteq Links /\ Pri \notin Ids
BY SppAssumption DEF Pri, Ids, Links

LEMMA EmptyQueue == <<>> \in Queue /\ Len(<<>>) = 0 /\ DOMAIN <<>> = {}
BY EmptySeq, LenProperties DEF Queue

\* Putting and getting keep a queue a queue.
LEMMA Push ==
  ASSUME NEW s \in Queue, NEW e \in Msgs
  PROVE  Append(s, e) \in Queue
BY AppendProperties DEF Queue

LEMMA Pop ==
  ASSUME NEW s \in Queue, s # <<>>
  PROVE  Tail(s) \in Queue /\ Head(s) \in Msgs
BY HeadTailProperties DEF Queue

\* TypeOK in two parts: the queues, and the rest.
QueuesOK == /\ m2s \in [Links -> Queue] /\ s2m \in [Links -> Queue]
            /\ c2a \in [Links -> Queue] /\ a2c \in [Links -> Queue]
ControlOK == /\ shell \in {"prompt", "put", "get", "crashed", "bye"} /\ target \in Links
             /\ kind \in {"exit", "other"} /\ n \in 0..MaxCmds
             /\ primary \in BOOLEAN
             /\ listed \subseteq Ids /\ count \in 0..MaxConn
             /\ apc \in {"accept", "m2s", "s2m", "spawn"}
             /\ tpc \in [Links -> {"unborn", "accept", "get", "recv", "ending", "ended"}]
             /\ link \in [Links -> {"none", "open", "fin", "rst"}]
             /\ npri \in 0..MaxPri

\* What the shell and the threads put into the queues is well formed.
LEMMA MsgTyped ==
  ASSUME TypeOK, NEW k \in {"exit", "other", "closing"}
  PROVE  [cmd |-> k, no |-> n] \in Msgs
BY DEF TypeOK, Msgs

(* --- the type invariant ------------------------------------------------------- *)

\* Every step keeps the state's shape.
LEMMA SppTypeStep == TypeOK /\ Room /\ [Next]_vars => TypeOK' /\ Room'
<1> SUFFICES ASSUME TypeOK, Room, [Next]_vars
             PROVE  TypeOK' /\ Room'
  OBVIOUS
<1>0. QueuesOK /\ ControlOK
  BY DEF TypeOK, QueuesOK, ControlOK, Queue
<1>q. SUFFICES QueuesOK' /\ ControlOK' /\ Room'
  BY DEF TypeOK, QueuesOK, ControlOK, Queue
<1> USE SppAssumption, LinksFacts
<1>1. CASE Operator \/ DoBye
  BY <1>0, <1>1 DEF Operator, DoPri, DoSec, DoBye, QueuesOK, ControlOK, Room,
                    acceptVars, netVars
<1>2. CASE ShellPut
  <2>1. [cmd |-> kind, no |-> n] \in Msgs
    BY <1>0, MsgTyped DEF ControlOK
  <2>2. \A l \in Links : Append(m2s[l], [cmd |-> kind, no |-> n]) \in Queue
    BY <1>0, <2>1, Push DEF QueuesOK
  <2>3. QueuesOK'
    BY <1>0, <1>2, <2>2 DEF ShellPut, QueuesOK, ControlOK, netVars
  <2> QED BY <1>0, <1>2, <2>3 DEF ShellPut, ControlOK, Room, acceptVars, netVars
<1>3. CASE ShellGet
  <2>1. HasSec2Main(target) => Tail(s2m[target]) \in Queue
    BY <1>0, <1>3, Pop DEF ShellGet, QueuesOK, ControlOK
  <2>2. QueuesOK'
    BY <1>0, <1>3, <2>1 DEF ShellGet, QueuesOK, ControlOK, netVars
  <2> QED BY <1>0, <1>3, <2>2 DEF ShellGet, ControlOK, Room, acceptVars, netVars
<1>4. CASE AcceptThread
  <2>1. CASE AcceptSecondary
    <3>1. count \in Ids /\ count \in Links
      BY <1>0, <2>1 DEF AcceptSecondary, ControlOK, Ids
    <3> QED BY <1>0, <2>1, <3>1 DEF AcceptSecondary, QueuesOK, ControlOK, Room, shellVars
  <2>2. CASE MakeQueue
    BY <1>0, <2>2 DEF MakeQueue, QueuesOK, ControlOK, Room, shellVars, netVars
  <2>3. CASE SpawnThread
    <3>1. count + 1 \in 0..MaxConn /\ count \in Links
      BY <1>0, <2>3 DEF SpawnThread, ControlOK, Room, Links
    <3> QED BY <1>0, <2>3, <3>1 DEF SpawnThread, QueuesOK, ControlOK, Room, shellVars, netVars
  <2> QED BY <1>4, <2>1, <2>2, <2>3 DEF AcceptThread
<1>5. CASE PrimaryAccept
  BY <1>0, <1>5, EmptyQueue DEF PrimaryAccept, QueuesOK, ControlOK, Room, shellVars, acceptVars
<1>6. ASSUME NEW l \in Links, ThreadSend(l)
      PROVE  QueuesOK' /\ ControlOK' /\ Room'
  <2>1. Tail(m2s[l]) \in Queue /\ Head(m2s[l]) \in Msgs
    BY <1>0, <1>6, Pop DEF ThreadSend, QueuesOK
  <2>2. Append(c2a[l], Head(m2s[l])) \in Queue
    BY <1>0, <2>1, Push DEF QueuesOK
  <2>3. QueuesOK'
    BY <1>0, <1>6, <2>1, <2>2 DEF ThreadSend, QueuesOK
  <2> QED BY <1>0, <1>6, <2>3 DEF ThreadSend, ControlOK, Room, shellVars, acceptVars
<1>7. ASSUME NEW l \in Links, ThreadReply(l)
      PROVE  QueuesOK' /\ ControlOK' /\ Room'
  <2>1. Tail(a2c[l]) \in Queue /\ Head(a2c[l]) \in Msgs
    BY <1>0, <1>7, Pop DEF ThreadReply, QueuesOK
  <2>2. Append(s2m[l], Head(a2c[l])) \in Queue
    BY <1>0, <2>1, Push DEF QueuesOK
  <2>3. QueuesOK'
    BY <1>0, <1>7, <2>1, <2>2 DEF ThreadReply, QueuesOK
  <2> QED BY <1>0, <1>7, <2>3 DEF ThreadReply, ControlOK, Room, shellVars, acceptVars
<1>8. ASSUME NEW l \in Links, ThreadClosing(l)
      PROVE  QueuesOK' /\ ControlOK' /\ Room'
  <2>1. Append(s2m[l], [cmd |-> "closing", no |-> n]) \in Queue
    BY <1>0, MsgTyped, Push DEF QueuesOK
  <2>2. QueuesOK'
    BY <1>0, <1>8, <2>1 DEF ThreadClosing, QueuesOK, netVars
  <2> QED BY <1>0, <1>8, <2>2
             DEF ThreadClosing, ControlOK, Room, shellVars, acceptVars, netVars
<1>9. ASSUME NEW l \in Links, ThreadError(l) \/ Ending(l)
      PROVE  QueuesOK' /\ ControlOK' /\ Room'
  <2>1. CASE ThreadError(l)
    BY <1>0, <2>1 DEF ThreadError, QueuesOK, ControlOK, Room, shellVars, acceptVars, netVars
  <2>2. CASE PrimaryLost
    BY <1>0, <2>2 DEF PrimaryLost, QueuesOK, ControlOK, Room, shellVars, acceptVars
  <2>3. CASE Unlist(l)
    BY <1>0, <2>3 DEF Unlist, QueuesOK, ControlOK, Room, shellVars, acceptVars
  <2>4. CASE Ending(l)
    <3>1. CASE l = Pri
      BY <2>2, <2>4, <3>1 DEF Ending
    <3>2. CASE l # Pri
      BY <2>3, <2>4, <3>2 DEF Ending
    <3> QED BY <3>1, <3>2
  <2> QED BY <1>9, <2>1, <2>4
<1>10. ASSUME NEW l \in Links, AgentReply(l)
       PROVE  QueuesOK' /\ ControlOK' /\ Room'
  <2>1. Tail(c2a[l]) \in Queue /\ Head(c2a[l]) \in Msgs
    BY <1>0, <1>10, Pop DEF AgentReply, QueuesOK
  <2>2. Append(a2c[l], Head(c2a[l])) \in Queue
    BY <1>0, <2>1, Push DEF QueuesOK
  <2>3. QueuesOK'
    BY <1>0, <1>10, <2>1, <2>2 DEF AgentReply, QueuesOK
  <2> QED BY <1>0, <1>10, <2>3 DEF AgentReply, ControlOK, Room, shellVars, acceptVars
<1>11. ASSUME NEW l \in Links, AgentDies(l)
       PROVE  QueuesOK' /\ ControlOK' /\ Room'
  BY <1>0, <1>11, EmptyQueue DEF AgentDies, QueuesOK, ControlOK, Room, shellVars, acceptVars
<1>12. CASE UNCHANGED vars
  BY <1>0, <1>12 DEF vars, QueuesOK, ControlOK, Room
<1> QED
  BY <1>1, <1>2, <1>3, <1>4, <1>5, <1>6, <1>7, <1>8, <1>9, <1>10, <1>11, <1>12
     DEF Next, Shell, Thread

LEMMA SppTypeInit == Init => TypeOK /\ Room
<1> SUFFICES ASSUME Init PROVE QueuesOK /\ ControlOK /\ Room
  BY DEF TypeOK, QueuesOK, ControlOK, Queue
<1>1. QueuesOK
  BY EmptyQueue DEF Init, QueuesOK
<1>2. tpc \in [Links -> {"unborn", "accept", "get", "recv", "ending", "ended"}]
  BY DEF Init
<1>3. primary \in BOOLEAN /\ Room
  BY DEF Init, Room
<1>4. n \in 0..MaxCmds /\ count \in 0..MaxConn /\ npri \in 0..MaxPri
  BY SppAssumption DEF Init
<1>5. link \in [Links -> {"none", "open", "fin", "rst"}]
  BY DEF Init
<1>6. ControlOK
  BY <1>2, <1>3, <1>4, <1>5, LinksFacts DEF Init, ControlOK
<1> QED BY <1>1, <1>3, <1>6

\* The management program's state keeps its shape in every run, for any number
\* of secondaries, primaries and commands.
THEOREM SppTypeCorrect == Spec => []TypeOK
BY SppTypeInit, SppTypeStep, PTL DEF Spec

(* --- AnswersMatch --------------------------------------------------------------- *)

LEMMA Single ==
  ASSUME NEW e
  PROVE  /\ <<e>> # <<>> /\ Append(<<>>, e) = <<e>>
         /\ Head(<<e>>) = e /\ Tail(<<e>>) = <<>>
         /\ Len(<<e>>) = 1 /\ DOMAIN <<e>> = {1} /\ <<e>>[1] = e
OBVIOUS

\* Where the shell does not wait nothing is under way.
LEMMA NotAwaited ==
  ASSUME LinkInv, NEW l \in Links, shell \notin {"get", "crashed"} \/ target # l
  PROVE  /\ m2s[l] = <<>> /\ s2m[l] = <<>> /\ c2a[l] = <<>> /\ a2c[l] = <<>>
         /\ tpc[l] # "recv"
BY DEF LinkInv, OneOnLink, AwaitedOn

\* A link that a step does not touch stays as it is.
LEMMA Untouched ==
  ASSUME LinkInv, NEW l \in Links, n' = n, target' = target,
         shell' = shell \/ shell' = "crashed" \/ shell \notin {"get", "crashed"},
         m2s'[l] = m2s[l], s2m'[l] = s2m[l], c2a'[l] = c2a[l], a2c'[l] = a2c[l],
         tpc'[l] = tpc[l] \/ (tpc[l] # "recv" /\ tpc'[l] # "recv"),
         link'[l] = link[l] \/ c2a[l] = <<>>
  PROVE  OneOnLink(l)' /\ AwaitedOn(l)'
<1>1. OneOnLink(l)'
  BY DEF LinkInv, OneOnLink, AtMostOne
<1>2. AwaitedOn(l)'
  BY DEF LinkInv, AwaitedOn
<1> QED BY <1>1, <1>2

\* The operator types, leaves or gets an answer while nothing is under way.
LEMMA OperatorStep ==
  ASSUME SppInv, Operator \/ DoBye
  PROVE  LinkInv'
<1>1. shell = "prompt" /\ UNCHANGED <<m2s, s2m, c2a, a2c, tpc, link>>
  BY DEF Operator, DoPri, DoSec, DoBye, netVars
<1> SUFFICES ASSUME NEW l \in Links PROVE OneOnLink(l)' /\ AwaitedOn(l)'
  BY DEF LinkInv
<1>2. /\ m2s[l] = <<>> /\ s2m[l] = <<>> /\ c2a[l] = <<>> /\ a2c[l] = <<>>
      /\ tpc[l] # "recv"
  BY <1>1, NotAwaited DEF SppInv
<1> QED BY <1>1, <1>2 DEF OneOnLink, AwaitedOn, AtMostOne

\* The shell puts its command: it is the only thing under way.
LEMMA PutStep ==
  ASSUME SppInv, ShellPut
  PROVE  LinkInv'
<1> SUFFICES ASSUME NEW l \in Links PROVE OneOnLink(l)' /\ AwaitedOn(l)'
  BY DEF LinkInv
<1>0. /\ UNCHANGED <<s2m, c2a, a2c, tpc, n, target, link>>
      /\ shell = "put" /\ m2s \in [Links -> Queue] /\ kind \in {"exit", "other"}
  BY DEF ShellPut, SppInv, TypeOK, Queue, netVars
<1>1. CASE m2s'[l] = m2s[l]
  BY <1>0, <1>1, Untouched DEF SppInv
<1>2. CASE m2s'[l] # m2s[l]
  <2> DEFINE e == [cmd |-> kind, no |-> n]
  <2>1. /\ m2s[l] = <<>> /\ s2m[l] = <<>> /\ c2a[l] = <<>> /\ a2c[l] = <<>>
        /\ tpc[l] # "recv"
    BY <1>0, NotAwaited DEF SppInv
  <2>2. e \in Msgs /\ e.no = n
    BY <1>0, MsgTyped DEF SppInv
  <2>3. shell' = "get" /\ target = l /\ m2s'[l] = Append(m2s[l], e)
    BY <1>0, <1>2 DEF ShellPut
  <2> HIDE DEF e
  <2>4. m2s'[l] = <<e>>
    BY <2>1, <2>3, Single
  <2>5. OneOnLink(l)'
    BY <1>0, <2>1, <2>2, <2>4 DEF OneOnLink, AtMostOne
  <2>6. AwaitedOn(l)'
    BY <1>0, <2>3 DEF AwaitedOn
  <2> QED BY <2>5, <2>6
<1> QED BY <1>1, <1>2

\* The shell gets an answer, which was the only thing under way.
LEMMA GetStep ==
  ASSUME SppInv, ShellGet
  PROVE  LinkInv'
<1> SUFFICES ASSUME NEW l \in Links PROVE OneOnLink(l)' /\ AwaitedOn(l)'
  BY DEF LinkInv
<1>0. /\ UNCHANGED <<m2s, c2a, a2c, tpc, n, target, link>>
      /\ shell = "get" /\ s2m \in [Links -> Queue]
  BY DEF ShellGet, SppInv, TypeOK, Queue, netVars
<1>1. CASE shell' = "crashed" /\ UNCHANGED s2m
  BY <1>0, <1>1, Untouched DEF SppInv
<1>2. CASE /\ s2m[target] # <<>> /\ shell' = "prompt"
           /\ s2m' = [s2m EXCEPT ![target] = Tail(@)]
  <2>1. CASE l = target
    <3>1. PICK e \in Msgs : s2m[l] = <<e>>
      BY <1>2, <2>1 DEF SppInv, LinkInv, OneOnLink, AtMostOne
    <3>2. s2m'[l] = <<>> /\ s2m[l] # <<>>
      BY <1>0, <1>2, <2>1, <3>1, Single
    <3>3. m2s[l] = <<>> /\ tpc[l] # "recv"
      BY <3>2 DEF SppInv, LinkInv, OneOnLink
    <3>4. OneOnLink(l)'
      BY <1>0, <3>2, <3>3 DEF SppInv, LinkInv, OneOnLink, AtMostOne
    <3>5. AwaitedOn(l)'
      BY <1>0, <3>2, <3>3 DEF AwaitedOn
    <3> QED BY <3>4, <3>5
  <2>2. CASE l # target
    <3>1. /\ m2s[l] = <<>> /\ s2m[l] = <<>> /\ c2a[l] = <<>> /\ a2c[l] = <<>>
          /\ tpc[l] # "recv"
      BY <2>2, NotAwaited DEF SppInv
    <3>2. s2m'[l] = <<>>
      BY <1>0, <1>2, <2>2, <3>1
    <3> QED BY <1>0, <3>1, <3>2 DEF OneOnLink, AwaitedOn, AtMostOne
  <2> QED BY <2>1, <2>2
<1> QED BY <1>1, <1>2 DEF ShellGet

\* acceptthread, the end of a connection and a new primary touch no link on
\* which something is under way.
LEMMA ConnectStep ==
  ASSUME SppInv, AcceptThread \/ PrimaryAccept \/ PrimaryLost
                 \/ \E id \in Links : Unlist(id)
  PROVE  LinkInv'
<1> SUFFICES ASSUME NEW l \in Links PROVE OneOnLink(l)' /\ AwaitedOn(l)'
  BY DEF LinkInv
<1>0. /\ m2s \in [Links -> Queue] /\ s2m \in [Links -> Queue]
      /\ c2a \in [Links -> Queue] /\ a2c \in [Links -> Queue]
      /\ tpc \in [Links -> {"unborn", "accept", "get", "recv", "ending", "ended"}]
      /\ link \in [Links -> {"none", "open", "fin", "rst"}]
  BY DEF SppInv, TypeOK, Queue
<1>1. UNCHANGED <<shell, target, n, m2s, s2m>>
  BY DEF AcceptThread, AcceptSecondary, MakeQueue, SpawnThread, PrimaryAccept,
         PrimaryLost, Unlist, shellVars
<1>2. OneOnLink(l)
  BY DEF SppInv, LinkInv
<1>3. CASE AcceptSecondary
  <2>1. UNCHANGED <<c2a, a2c, tpc>> /\ (link'[l] = link[l] \/ link'[l] = "open")
    BY <1>0, <1>3 DEF AcceptSecondary
  <2>2. OneOnLink(l)'
    BY <1>1, <1>2, <2>1 DEF OneOnLink, AtMostOne
  <2>3. AwaitedOn(l)'
    BY <1>1, <2>1 DEF SppInv, LinkInv, AwaitedOn
  <2> QED BY <2>2, <2>3
<1>4. CASE MakeQueue
  BY <1>1, <1>4, Untouched DEF MakeQueue, SppInv, netVars
<1>5. CASE SpawnThread
  <2>1. /\ UNCHANGED <<c2a, a2c, link>> /\ tpc' = [tpc EXCEPT ![count] = "get"]
        /\ apc = "spawn" /\ count \in 0..MaxConn
    BY <1>5 DEF SpawnThread, netVars, SppInv, TypeOK
  <2>2. tpc[count] = "unborn"
    BY <2>1, SppAssumption DEF SppInv, Room, Unborn, Ids
  <2> QED BY <1>0, <1>1, <2>1, <2>2, Untouched DEF SppInv
<1>6. CASE PrimaryAccept
  <2>1. /\ tpc[Pri] = "accept" /\ tpc' = [tpc EXCEPT ![Pri] = "get"]
        /\ link' = [link EXCEPT ![Pri] = "open"]
        /\ c2a' = [c2a EXCEPT ![Pri] = <<>>] /\ a2c' = [a2c EXCEPT ![Pri] = <<>>]
    BY <1>6 DEF PrimaryAccept
  <2>2. CASE l = Pri
    <3>1. /\ tpc[l] # "recv" /\ tpc'[l] # "recv" /\ c2a'[l] = <<>> /\ a2c'[l] = <<>>
          /\ c2a[l] = <<>> /\ a2c[l] = <<>>
      BY <1>0, <1>2, <2>1, <2>2 DEF OneOnLink
    <3> QED BY <1>1, <3>1, Untouched DEF SppInv
  <2>3. CASE l # Pri
    BY <1>0, <1>1, <2>1, <2>3, Untouched DEF SppInv
  <2> QED BY <2>2, <2>3
<1>7. CASE PrimaryLost \/ \E id \in Links : Unlist(id)
  <2>1. PICK k \in Links : /\ tpc[k] = "ending"
                           /\ \E s \in {"accept", "ended"} : tpc' = [tpc EXCEPT ![k] = s]
                           /\ link' = [link EXCEPT ![k] = "none"]
                           /\ UNCHANGED <<c2a, a2c>>
    BY <1>7, LinksFacts DEF PrimaryLost, Unlist
  <2>2. CASE l = k
    <3>1. tpc[l] # "recv" /\ tpc'[l] # "recv" /\ c2a[l] = <<>>
      BY <1>0, <1>2, <2>1, <2>2 DEF OneOnLink
    <3> QED BY <1>1, <2>1, <3>1, Untouched DEF SppInv
  <2>3. CASE l # k
    BY <1>0, <1>1, <2>1, <2>3, Untouched DEF SppInv
  <2> QED BY <2>2, <2>3
<1> QED BY <1>3, <1>4, <1>5, <1>6, <1>7 DEF AcceptThread

\* A thread takes a command from the queue and sends it, or loses it.
LEMMA SendStep ==
  ASSUME SppInv, NEW k \in Links, ThreadSend(k)
  PROVE  LinkInv'
<1> SUFFICES ASSUME NEW l \in Links PROVE OneOnLink(l)' /\ AwaitedOn(l)'
  BY DEF LinkInv
<1>0. /\ m2s \in [Links -> Queue] /\ c2a \in [Links -> Queue]
      /\ tpc \in [Links -> {"unborn", "accept", "get", "recv", "ending", "ended"}]
      /\ link \in [Links -> {"none", "open", "fin", "rst"}]
      /\ OneOnLink(l)
  BY DEF SppInv, TypeOK, Queue, LinkInv
<1>1. /\ UNCHANGED <<shell, target, n, s2m, a2c>> /\ tpc[k] = "get" /\ m2s[k] # <<>>
      /\ m2s' = [m2s EXCEPT ![k] = Tail(@)]
      /\ \/ /\ link[k] = "open" /\ link' = link /\ tpc' = [tpc EXCEPT ![k] = "recv"]
            /\ c2a' = [c2a EXCEPT ![k] = Append(@, Head(m2s[k]))]
         \/ /\ \E s \in {"fin", "rst"} : link' = [link EXCEPT ![k] = s]
            /\ link[k] = "fin"
            /\ tpc' = [tpc EXCEPT ![k] = "recv"] /\ c2a' = c2a
         \/ tpc' = [tpc EXCEPT ![k] = "ending"] /\ link' = link /\ c2a' = c2a
  BY DEF ThreadSend, shellVars
<1>2. CASE l # k
  BY <1>0, <1>1, <1>2, Untouched DEF SppInv
<1>3. CASE l = k
  <2>1. PICK e \in Msgs : e.no = n /\ m2s[l] = <<e>>
    BY <1>0, <1>1, <1>3 DEF OneOnLink, AtMostOne
  <2>2. m2s'[l] = <<>> /\ Head(m2s[l]) = e
    BY <1>0, <1>1, <1>3, <2>1, Single
  <2>3. s2m[l] = <<>> /\ c2a[l] = <<>> /\ a2c[l] = <<>>
    BY <1>0, <1>1, <1>3 DEF OneOnLink
  <2>4. /\ tpc'[l] \in {"recv", "ending"}
        /\ c2a'[l] = <<>> \/ (c2a'[l] = <<e>> /\ tpc'[l] = "recv" /\ link'[l] = "open")
    BY <1>0, <1>1, <1>3, <2>2, <2>3, Single
  <2>5. OneOnLink(l)'
    BY <1>1, <2>1, <2>2, <2>3, <2>4 DEF OneOnLink, AtMostOne
  <2>6. AwaitedOn(l)'
    BY <1>1, <1>3, <2>2, <2>3 DEF SppInv, LinkInv, AwaitedOn
  <2> QED BY <2>5, <2>6
<1> QED BY <1>2, <1>3

\* A thread passes a reply on, or "closing", or fails.
LEMMA RecvStep ==
  ASSUME SppInv, NEW k \in Links, ThreadReply(k) \/ ThreadClosing(k) \/ ThreadError(k)
  PROVE  LinkInv'
<1> SUFFICES ASSUME NEW l \in Links PROVE OneOnLink(l)' /\ AwaitedOn(l)'
  BY DEF LinkInv
<1>0. /\ s2m \in [Links -> Queue] /\ a2c \in [Links -> Queue]
      /\ tpc \in [Links -> {"unborn", "accept", "get", "recv", "ending", "ended"}]
      /\ OneOnLink(l)
  BY DEF SppInv, TypeOK, Queue, LinkInv
<1>1. /\ UNCHANGED <<shell, target, n, m2s, c2a, link>> /\ tpc[k] = "recv"
      /\ \E s \in {"get", "ending"} : tpc' = [tpc EXCEPT ![k] = s]
  BY DEF ThreadReply, ThreadClosing, ThreadError, shellVars, netVars
<1>2. CASE l # k
  <2>1. s2m'[l] = s2m[l] /\ a2c'[l] = a2c[l] /\ tpc'[l] = tpc[l]
    BY <1>0, <1>1, <1>2 DEF ThreadReply, ThreadClosing, ThreadError, netVars
  <2> QED BY <1>1, <2>1, Untouched DEF SppInv
<1>3. CASE l = k
  <2>1. m2s[l] = <<>> /\ s2m[l] = <<>> /\ tpc'[l] # "recv"
    BY <1>0, <1>1, <1>3 DEF OneOnLink
  <2>2. c2a[l] = <<>> /\ a2c'[l] = <<>> /\ AtMostOne(s2m[l])'
    <3>1. CASE ThreadReply(k)
      <4>1. PICK e \in Msgs : e.no = n /\ a2c[l] = <<e>>
        BY <1>0, <1>3, <3>1 DEF ThreadReply, OneOnLink, AtMostOne
      <4>2. a2c'[l] = <<>> /\ s2m'[l] = <<e>> /\ a2c[l] # <<>>
        BY <1>0, <1>3, <2>1, <3>1, <4>1, Single DEF ThreadReply
      <4> QED BY <1>0, <1>1, <4>1, <4>2 DEF AtMostOne, OneOnLink
    <3>2. CASE ThreadClosing(k)
      <4> DEFINE e == [cmd |-> "closing", no |-> n]
      <4>1. e \in Msgs /\ e.no = n
        BY MsgTyped DEF SppInv
      <4>2. s2m'[l] = Append(s2m[l], e) /\ a2c'[l] = <<>> /\ link[l] # "open"
        BY <1>0, <1>3, <3>2 DEF ThreadClosing, netVars
      <4> HIDE DEF e
      <4> QED BY <1>0, <1>1, <2>1, <4>1, <4>2, Single DEF AtMostOne, OneOnLink
    <3>3. CASE ThreadError(k)
      BY <1>0, <1>1, <1>3, <2>1, <3>3 DEF ThreadError, netVars, AtMostOne, OneOnLink
    <3> QED BY <3>1, <3>2, <3>3
  <2>3. OneOnLink(l)'
    BY <1>1, <2>1, <2>2 DEF OneOnLink, AtMostOne
  <2>4. AwaitedOn(l)'
    BY <1>1, <1>3 DEF SppInv, LinkInv, AwaitedOn
  <2> QED BY <2>3, <2>4
<1> QED BY <1>2, <1>3

\* The agent reads the command and answers it, or closes, or dies.
LEMMA AgentStep ==
  ASSUME SppInv, NEW k \in Links, AgentReply(k) \/ AgentDies(k)
  PROVE  LinkInv'
<1> SUFFICES ASSUME NEW l \in Links PROVE OneOnLink(l)' /\ AwaitedOn(l)'
  BY DEF LinkInv
<1>0. /\ c2a \in [Links -> Queue] /\ a2c \in [Links -> Queue]
      /\ link \in [Links -> {"none", "open", "fin", "rst"}]
      /\ OneOnLink(l)
  BY DEF SppInv, TypeOK, Queue, LinkInv
<1>1. UNCHANGED <<shell, target, n, m2s, s2m, tpc>>
  BY DEF AgentReply, AgentDies, shellVars
<1>2. CASE l # k
  <2>1. c2a'[l] = c2a[l] /\ a2c'[l] = a2c[l] /\ link'[l] = link[l]
    BY <1>0, <1>2 DEF AgentReply, AgentDies
  <2> QED BY <1>1, <2>1, Untouched DEF SppInv
<1>3. CASE l = k
  <2>1. c2a'[l] = <<>> /\ AtMostOne(a2c[l])' /\ (a2c'[l] # <<>> => tpc[l] = "recv")
    <3>1. CASE AgentReply(k)
      <4>1. PICK e \in Msgs : e.no = n /\ c2a[l] = <<e>>
        BY <1>0, <1>3, <3>1 DEF AgentReply, OneOnLink, AtMostOne
      <4>2. c2a'[l] = <<>> /\ Head(c2a[l]) = e /\ c2a[l] # <<>>
        BY <1>0, <1>3, <3>1, <4>1, Single DEF AgentReply
      <4>3. a2c[l] = <<>> /\ tpc[l] = "recv"
        BY <1>0, <4>2 DEF OneOnLink
      <4>4. a2c'[l] = <<>> \/ a2c'[l] = <<e>>
        BY <1>0, <1>3, <3>1, <4>2, <4>3, Single DEF AgentReply
      <4> QED BY <1>1, <4>1, <4>2, <4>3, <4>4 DEF AtMostOne
    <3>2. CASE AgentDies(k)
      BY <1>0, <1>1, <1>3, <3>2 DEF AgentDies, AtMostOne, OneOnLink
    <3> QED BY <3>1, <3>2
  <2>2. OneOnLink(l)'
    BY <1>0, <1>1, <2>1 DEF OneOnLink, AtMostOne
  <2>3. AwaitedOn(l)'
    BY <1>1 DEF SppInv, LinkInv, AwaitedOn
  <2> QED BY <2>2, <2>3
<1> QED BY <1>2, <1>3

\* Threads come in the order of the ids.
LEMMA UnbornStep == TypeOK /\ Room /\ Unborn /\ [Next]_vars => Unborn'
<1> SUFFICES ASSUME TypeOK, Room, Unborn, [Next]_vars, NEW i \in Ids, i >= count'
             PROVE  tpc'[i] = "unborn"
  BY DEF Unborn
<1>0. /\ tpc \in [Links -> {"unborn", "accept", "get", "recv", "ending", "ended"}]
      /\ count \in 0..MaxConn /\ i \in Links /\ i # Pri /\ i \in Nat
  <2>1. i \in Links /\ i # Pri
    BY LinksFacts
  <2>2. i \in Nat
    BY DEF Ids
  <2> QED BY <2>1, <2>2 DEF TypeOK
<1>1. CASE SpawnThread
  BY <1>0, <1>1 DEF SpawnThread, Unborn
<1>2. CASE ~SpawnThread
  <2>1. count' = count
    BY <1>2 DEF Next, Operator, DoPri, DoSec, DoBye, Shell, ShellPut, ShellGet,
       AcceptThread, AcceptSecondary, MakeQueue, PrimaryAccept, Thread, ThreadSend,
       ThreadReply, ThreadClosing, ThreadError, Ending, PrimaryLost, Unlist, AgentReply,
       AgentDies, vars, acceptVars
  <2>2. tpc[i] = "unborn"
    BY <2>1 DEF Unborn
  <2>3. ASSUME NEW k \in Links, Thread(k)
        PROVE  tpc'[i] = "unborn"
    <3>1. tpc[k] # "unborn" /\ \E s : tpc' = [tpc EXCEPT ![k] = s]
      <4>1. CASE Ending(k)
        <5>1. CASE k = Pri
          BY <4>1, <5>1 DEF Ending, PrimaryLost
        <5>2. CASE k # Pri
          BY <4>1, <5>2 DEF Ending, Unlist
        <5> QED BY <5>1, <5>2
      <4> QED BY <2>3, <4>1 DEF Thread, ThreadSend, ThreadReply, ThreadClosing, ThreadError
    <3> QED BY <1>0, <2>2, <3>1
  <2>4. CASE PrimaryAccept
    BY <1>0, <2>2, <2>4 DEF PrimaryAccept
  <2>5. CASE ~PrimaryAccept /\ ~(\E k \in Links : Thread(k))
    <3>1. tpc' = tpc
      BY <1>2, <2>5 DEF Next, Operator, DoPri, DoSec, DoBye, Shell, ShellPut, ShellGet,
         AcceptThread, AcceptSecondary, MakeQueue, AgentReply, AgentDies, vars
    <3> QED BY <2>2, <3>1
  <2> QED BY <2>3, <2>4, <2>5
<1> QED BY <1>1, <1>2

\* Every step keeps the invariant.
LEMMA SppStep == SppInv /\ [Next]_vars => SppInv'
<1> SUFFICES ASSUME SppInv, [Next]_vars PROVE SppInv'
  OBVIOUS
<1>1. TypeOK' /\ Room' /\ Unborn'
  BY SppTypeStep, UnbornStep DEF SppInv
<1>2. LinkInv'
  <2>1. ASSUME NEW l \in Links, Ending(l)
        PROVE  LinkInv'
    <3>1. CASE l = Pri
      BY <2>1, <3>1, ConnectStep DEF Ending
    <3>2. CASE l # Pri
      BY <2>1, <3>2, ConnectStep DEF Ending
    <3> QED BY <3>1, <3>2
  <2>2. CASE UNCHANGED vars
    <3>1. UNCHANGED <<shell, target, n, m2s, s2m, c2a, a2c, tpc, link>>
      BY <2>2 DEF vars
    <3> QED BY <3>1, Untouched DEF SppInv, LinkInv
  <2> QED BY <2>1, <2>2, OperatorStep, PutStep, GetStep, ConnectStep, SendStep, RecvStep,
             AgentStep DEF Next, Shell, Thread
<1> QED BY <1>1, <1>2 DEF SppInv

\* What the invariant says of the counts.
LEMMA SppInvMatches == SppInv => AnswersMatch
<1> SUFFICES ASSUME SppInv, NEW l \in Links
             PROVE  /\ Tokens(l) <= 1
                    /\ Tokens(l) = 1 => shell \in {"get", "crashed"} /\ target = l
                    /\ \A q \in {m2s, s2m} : \A i \in DOMAIN q[l] : q[l][i].no = n
                    /\ link[l] # "none" =>
                         \A q \in {c2a, a2c} : \A i \in DOMAIN q[l] : q[l][i].no = n
  BY DEF AnswersMatch
<1> DEFINE a == Len(m2s[l])
           b == Len(s2m[l])
<1>1. OneOnLink(l) /\ AwaitedOn(l)
  BY DEF SppInv, LinkInv
<1>2. ASSUME NEW s, AtMostOne(s)
      PROVE  /\ Len(s) \in {0, 1} /\ (Len(s) = 1 => s # <<>>)
             /\ \A i \in DOMAIN s : s[i].no = n
  <2>1. CASE s = <<>>
    BY <2>1, EmptyQueue
  <2>2. CASE s # <<>>
    <3>1. PICK e \in Msgs : e.no = n /\ s = <<e>>
      BY <1>2, <2>2 DEF AtMostOne
    <3> QED BY <2>2, <3>1, Single
  <2> QED BY <2>1, <2>2
<1>3. /\ a \in {0, 1} /\ (a = 1 => m2s[l] # <<>>)
      /\ b \in {0, 1} /\ (b = 1 => s2m[l] # <<>>)
  BY <1>1, <1>2 DEF OneOnLink
<1>4. Tokens(l) = a + b + (IF tpc[l] = "recv" THEN 1 ELSE 0)
  BY DEF Tokens
<1> HIDE DEF a, b
<1>5. Tokens(l) <= 1
  BY <1>1, <1>3, <1>4 DEF OneOnLink
<1>6. Tokens(l) = 1 => m2s[l] # <<>> \/ s2m[l] # <<>> \/ tpc[l] = "recv"
  BY <1>3, <1>4
<1>7. /\ \A q \in {m2s, s2m} : \A i \in DOMAIN q[l] : q[l][i].no = n
      /\ \A q \in {c2a, a2c} : \A i \in DOMAIN q[l] : q[l][i].no = n
  BY <1>1, <1>2 DEF OneOnLink
<1> QED BY <1>1, <1>5, <1>6, <1>7 DEF AwaitedOn

\* spp.py: no answer is taken for another command's, although queues outlive
\* connections, for any number of secondaries, primaries and commands.
THEOREM SppAnswersMatch == Spec => []AnswersMatch
<1>1. Init => SppInv
  <2> SUFFICES ASSUME Init PROVE SppInv
    OBVIOUS
  <2>1. TypeOK /\ Room
    BY SppTypeInit
  <2>2. Unborn
    BY LinksFacts DEF Init, Unborn
  <2>3. LinkInv
    BY DEF Init, LinkInv, OneOnLink, AwaitedOn, AtMostOne
  <2> QED BY <2>1, <2>2, <2>3 DEF SppInv
<1> QED BY <1>1, SppStep, SppInvMatches, PTL DEF Spec
=============================================================================
