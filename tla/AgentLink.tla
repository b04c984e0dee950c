----------------------------- MODULE AgentLink -----------------------------
(***************************************************************************)
(* The connection loop that every DPDK process of the patch panel runs on  *)
(* its master lcore (sec_zerocpy.c, the same in the primaries), against    *)
(* the connection thread of the management program, over TCP, with         *)
(* management programs that end or crash and come back.                    *)
(*                                                                         *)
(* What a command does is in SecForward; here a command or a reply is only *)
(* there or not.  A reply may reach the management program in several      *)
(* segments, and its recv takes what has arrived.  The TCP of the kernel   *)
(* is external: a process that ends with unread data resets the            *)
(* connection, one that has read all sends a FIN, a host that loses power  *)
(* sends nothing; a socket that was connected once cannot be connected     *)
(* again (EISCONN).                                                        *)
(***************************************************************************)
EXTENDS Naturals

CONSTANTS MaxPieces,  \* bound: segments of a reply
          Window,     \* bound: segments that wait for the management program
          MaxFaults   \* bound on the ends and crashes of the management program

ASSUME LinkAssumption ==
  MaxPieces \in Nat \ {0} /\ Window \in Nat /\ MaxFaults \in Nat

VARIABLES
  proc,      \* the agent: "up", "exited", "killed" (SIGPIPE)
  pc,        \* its step: "connect" (connected == 0), "recv", "send"
  sock,      \* its socket: "none" (SOCK_RESET), "fresh", "used" (was connected)
  link,      \* the connection as the agent's kernel sees it
  inbox,     \* commands that the agent's kernel holds
  server,    \* is the management program up?
  waiting,   \* has its connection thread a command under way?
  unread,    \* segments of replies that its kernel holds
  faults,
  whole      \* history: every reply came in one segment and no host lost power

agentVars == <<proc, pc, sock>>
serverVars == <<server, waiting, unread>>
vars == <<proc, pc, sock, link, inbox, server, waiting, unread, faults, whole>>

Links == {"none", "open",
          "fin",    \* the peer closed
          "pipe",   \* and answered what was sent after that with a reset
          "rst",    \* the peer reset the connection
          "half"}   \* the peer's host died: the agent does not know

Init ==
  /\ proc = "up" /\ pc = "connect" /\ sock = "none"
  /\ link = "none" /\ inbox = 0
  /\ server = FALSE /\ waiting = FALSE /\ unread = 0 /\ faults = 0
  /\ whole = TRUE

Up == proc = "up"

(* --- the agent -------------------------------------------------------------- *)

\* socket() if there is none, and connect(); refused or EISCONN: sleep, again.
\* A failed socket() ends the process.
TryConnect ==
  /\ Up /\ pc = "connect"
  /\ \/ /\ sock # "used" /\ server
        /\ sock' = "used" /\ link' = "open" /\ pc' = "recv"
        /\ UNCHANGED proc
     \/ /\ sock # "used" /\ ~server
        /\ sock' = "fresh"
        /\ UNCHANGED <<proc, link, pc>>
     \/ /\ sock = "used"
        /\ UNCHANGED <<proc, pc, sock, link>>
     \/ /\ sock = "none"
        /\ proc' = "exited"
        /\ UNCHANGED <<pc, sock, link>>
  /\ UNCHANGED <<inbox, serverVars, faults, whole>>

\* recv() gets what there is: if the peer went on while commands waited, they
\* are handled as one.  "exit" ends the process.
Recv ==
  /\ Up /\ pc = "recv" /\ inbox > 0
  /\ inbox' = 0
  /\ \/ pc' = "send" /\ UNCHANGED <<proc, link>>
     \/ proc' = "exited" /\ link' = "none" /\ UNCHANGED pc
  /\ UNCHANGED <<sock, serverVars, faults, whole>>

\* Variant with a bug: connected keeps its value.
RecvFailsConnected ==
  /\ Up /\ pc = "recv"
  /\ \/ link \in {"fin", "pipe"} /\ inbox = 0
     \/ link = "rst"
  /\ sock' = "none" /\ link' = "none" /\ inbox' = 0
  /\ UNCHANGED <<proc, pc, serverVars, faults, whole>>

\* Variant with a bug: the socket is closed but not forgotten.
RecvFailsKeepsSock ==
  /\ Up /\ pc = "recv"
  /\ \/ link \in {"fin", "pipe"} /\ inbox = 0
     \/ link = "rst"
  /\ link' = "none" /\ inbox' = 0 /\ pc' = "connect"
  /\ UNCHANGED <<proc, sock, serverVars, faults, whole>>

\* recv() returns 0 or an error; after a reset the commands that wait are lost
\* or not.  close(), SOCK_RESET, and back to connecting.
RecvFails ==
  /\ Up /\ pc = "recv"
  /\ \/ link \in {"fin", "pipe"} /\ inbox = 0
     \/ link = "rst"
  /\ sock' = "none" /\ link' = "none" /\ inbox' = 0 /\ pc' = "connect"
  /\ UNCHANGED <<proc, serverVars, faults, whole>>

\* send() waits for room in the window.  Into a closed connection it succeeds
\* once and is answered by a reset; after that it raises SIGPIPE.  On a reset
\* connection it fails, and the agent goes back to connecting with the socket
\* it has.
Send ==
  /\ Up /\ pc = "send"
  /\ \/ /\ link = "open"
        /\ \E k \in 1..MaxPieces :
             /\ unread + k <= Window
             /\ unread' = unread + k
             /\ whole' = (whole /\ k = 1)
        /\ pc' = "recv"
        /\ UNCHANGED <<proc, link>>
     \/ /\ link \in {"fin", "half"}
        /\ pc' = "recv" /\ link' = IF link = "fin" THEN "pipe" ELSE "rst"
        /\ UNCHANGED <<proc, unread, whole>>
     \/ /\ link = "rst"
        /\ pc' = "connect"
        /\ UNCHANGED <<proc, link, unread, whole>>
     \/ /\ link = "pipe"
        /\ proc' = "killed"
        /\ UNCHANGED <<pc, link, unread, whole>>
  /\ UNCHANGED <<sock, inbox, server, waiting, faults>>

(* --- the management program: connectionthread -------------------------------- *)

\* Variant with a bug: the thread does not wait for the answer.
SendCommandEager ==
  /\ server /\ link = "open" /\ inbox < 2
  /\ inbox' = inbox + 1 /\ waiting' = TRUE
  /\ UNCHANGED <<agentVars, link, server, unread, faults, whole>>

\* conn.send of the next command the operator typed.
SendCommand ==
  /\ server /\ link = "open" /\ ~waiting
  /\ inbox' = inbox + 1 /\ waiting' = TRUE
  /\ UNCHANGED <<agentVars, link, server, unread, faults, whole>>

\* Variant with a bug: conn does not block, an answer is taken that is not there.
RecvReplyNoWait ==
  /\ server /\ waiting
  /\ \E k \in 1..MaxPieces : unread' = unread - k
  /\ waiting' = FALSE
  /\ UNCHANGED <<agentVars, link, inbox, server, faults, whole>>

\* conn.recv(1024) takes what has arrived for the answer.
RecvReply ==
  /\ server /\ waiting
  /\ \E k \in 1..unread : unread' = unread - k
  /\ waiting' = FALSE
  /\ UNCHANGED <<agentVars, link, inbox, server, faults, whole>>

\* conn.recv returns '' once the agent's end is closed: the thread ends.
ThreadEnds ==
  /\ server /\ waiting /\ unread = 0 /\ proc # "up"
  /\ waiting' = FALSE
  /\ UNCHANGED <<agentVars, link, inbox, server, unread, faults, whole>>

(* --- ends, crashes and restarts ----------------------------------------------- *)

\* "bye", an exception nothing catches, a kill: the kernel closes the socket.
ServerEnds ==
  /\ server /\ faults < MaxFaults
  /\ server' = FALSE /\ waiting' = FALSE /\ unread' = 0 /\ faults' = faults + 1
  /\ link' = IF link # "open" THEN link ELSE IF unread > 0 THEN "rst" ELSE "fin"
  /\ UNCHANGED <<agentVars, inbox, whole>>

\* Its host loses power.
HostDies ==
  /\ server /\ faults < MaxFaults
  /\ server' = FALSE /\ waiting' = FALSE /\ unread' = 0 /\ faults' = faults + 1
  /\ link' = IF link = "open" THEN "half" ELSE link
  /\ whole' = FALSE
  /\ UNCHANGED <<agentVars, inbox>>

ServerStarts ==
  /\ ~server
  /\ server' = TRUE
  /\ UNCHANGED <<agentVars, link, inbox, waiting, unread, faults, whole>>

Agent == TryConnect \/ Recv \/ RecvFails \/ Send
Next ==
  \/ Agent \/ SendCommand \/ RecvReply \/ ThreadEnds
  \/ ServerEnds \/ HostDies \/ ServerStarts

Spec == Init /\ [][Next]_vars

\* The master lcore runs its loop; nobody has to type, end or start anything.
FairSpec == Spec /\ WF_vars(Agent)

(* --- properties ---------------------------------------------------------------- *)

\* Every variable has its type.
TypeOK ==
  /\ proc \in {"up", "exited", "killed"} /\ pc \in {"connect", "recv", "send"}
  /\ sock \in {"none", "fresh", "used"} /\ link \in Links
  /\ inbox \in Nat /\ unread \in Nat /\ faults \in 0..MaxFaults
  /\ server \in BOOLEAN /\ waiting \in BOOLEAN /\ whole \in BOOLEAN

\* The agent tries to connect a socket that was connected before, for ever.
Wedged == Up /\ pc = "connect" /\ sock = "used"
\* The agent waits on a connection whose other end is gone without a word.
HalfOpen == Up /\ pc = "recv" /\ link = "half"
Linked == Up /\ pc # "connect" /\ link = "open"

\* Replies that arrive whole keep the two programs in step: there is never more
\* than one command on its way to an agent, so its recv never reads two as one.
OneCommand == whole => inbox <= 1

\* Replies that arrive whole also keep the agent out of its two bad ends: a
\* failed send, after which it keeps the dead socket and can only get EISCONN,
\* and SIGPIPE.  It is never between recv and send on a reset connection.
NeverStuck == whole => ~Wedged /\ proc # "killed"

\* Once a management program stays up, an agent that runs ends up connected to
\* it, whatever it was doing when the old one went away; only after a reply in
\* segments, or a host without power, it may end in one of two dead ends.
Reconnects ==
  <>[]server => <>[](Linked \/ ~Up \/ (~whole /\ (Wedged \/ HalfOpen)))
=============================================================================
