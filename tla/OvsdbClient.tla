---------------------------- MODULE OvsdbClient ----------------------------
(***************************************************************************)
(* The client of the OVSDB server (ovsdb.py): the main thread sends a      *)
(* request and gathers its reply, and the monitor thread, started after    *)
(* the first requests, reads from the same socket and sends back what it   *)
(* reads.                                                                  *)
(*                                                                         *)
(* The server is external.  A reply is one or two segments, the names of   *)
(* all its fields ("error", "id", "result") in the first; the server also  *)
(* sends echo requests of its own, and answers those that come back to it  *)
(* with a reply of one segment.  One recv takes any number of the segments *)
(* that have arrived (BUFFER_SIZE is 4096 bytes).                          *)
(***************************************************************************)
EXTENDS Naturals, Sequences, FiniteSets

CONSTANTS InitReqs,  \* requests before the monitor thread starts
          MaxReqs,   \* bound: requests
          MaxEchoes  \* bound: echo requests of the server

ASSUME OvsdbAssumption ==
  InitReqs \in Nat /\ MaxReqs \in Nat /\ MaxEchoes \in Nat

VARIABLES
  main,     \* "prompt", "gather", or "ended" (exit, or an exception)
  req,      \* requests sent; the last one's number
  result,   \* the text gathered so far
  answer,   \* the request whose reply gather_reply returned last, 0: none of them
  socket,   \* the segments that have arrived
  owed,     \* the segments that the server has to send
  closed,   \* has the server closed the connection?
  echoes,   \* echo requests sent
  mon,      \* monitor thread: "no", "select", "recv", "send", "ended"
  writable, \* did its select report the socket as writable?
  queue,    \* message_queues[sock]: the number of echo requests in each text
  stolen,   \* history: did the monitor thread take a segment of main's reply?
  misled    \* history: how often main took the answer to an echo request

mainVars == <<main, req, result, answer, misled>>
replyVars == <<owed, closed, echoes>>
monVars == <<mon, writable, queue, stolen>>
ovsdbVars == <<main, req, result, answer, socket, owed, closed, echoes, mon,
               writable, queue, stolen, misled>>

Seg(kind, id) == [kind |-> kind, id |-> id]
OneSegment(id) == <<Seg("whole", id)>>
TwoSegments(id) == <<Seg("names", id), Seg("rest", id)>>
Echo == Seg("echo", 0)  \* an echo request of the server
Pong == Seg("pong", 0)  \* the server's answer to one that came back
Segments == [kind : {"whole", "names", "rest", "echo", "pong"}, id : 0..MaxReqs]
OfReply(e) == e.kind \in {"whole", "names", "rest"}  \* to a request of main

OvsdbInit ==
  /\ main = "prompt" /\ req = 0 /\ result = <<>> /\ answer = 0
  /\ socket = <<>> /\ owed = <<>> /\ closed = FALSE /\ echoes = 0
  /\ mon = "no" /\ writable = FALSE /\ queue = <<>> /\ stolen = FALSE
  /\ misled = 0

(* --- main ------------------------------------------------------------------------ *)

\* A command of the operator: s.send of the request, and gather_reply.  On a
\* closed connection send goes nowhere or fails.
Request ==
  /\ main = "prompt" /\ req < MaxReqs
  /\ req < InitReqs <=> mon = "no"
  /\ req' = req + 1 /\ result' = <<>>
  /\ \/ /\ ~closed /\ main' = "gather"
        /\ \/ owed' = owed \o OneSegment(req')
           \/ owed' = owed \o TwoSegments(req')
     \/ closed /\ main' \in {"gather", "ended"} /\ UNCHANGED owed
  /\ UNCHANGED <<answer, misled, socket, closed, echoes, monVars>>

\* Variant with a bug: the loop never sees the field it waits for.
AllFieldsNever(s) == \E i \in 1..Len(s) : s[i].kind = "status"

\* The names of all the fields are in the text.
AllFields(s) == \E i \in 1..Len(s) : s[i].kind \in {"whole", "names", "pong"}

\* json.loads accepts one reply and nothing else.
IsReply(s, id) == s = OneSegment(id) \/ s = TwoSegments(id)
Loads(s) == s = <<Pong>> \/ \E id \in 1..req : IsReply(s, id)

\* Variant with a bug: recv has a timeout, and gather_reply returns without reply.
GatherTimesOut ==
  \/ /\ main = "gather" /\ socket = <<>>
     /\ main' = "prompt" /\ answer' = req
     /\ UNCHANGED <<req, result, misled, socket, replyVars, monVars>>
  \/ /\ main = "gather" /\ socket # <<>> /\ IsReply(socket, socket[1].id)
     /\ main' = "prompt" /\ answer' = socket[1].id /\ socket' = <<>>
     /\ UNCHANGED <<req, result, misled, replyVars, monVars>>

\* One turn of gather_reply's loop, and json.loads when it ends.  Main may look
\* for something in the reply that is not there.
Gather ==
  /\ main = "gather" /\ socket # <<>>
  /\ \E n \in 1..Len(socket) :
       /\ result' = result \o SubSeq(socket, 1, n)
       /\ socket' = SubSeq(socket, n + 1, Len(socket))
  /\ \/ ~AllFields(result') /\ main' = "gather"
     \/ AllFields(result') /\ Loads(result') /\ main' = "prompt"
     \/ AllFields(result') /\ main' = "ended"
  /\ answer' = IF main' = "prompt" THEN result'[1].id ELSE answer
  /\ misled' = IF main' = "prompt" /\ result' = <<Pong>> THEN misled + 1 ELSE misled
  /\ UNCHANGED <<req, replyVars, monVars>>

\* recv on a connection that was reset raises socket.error.
GatherFails ==
  /\ main = "gather" /\ socket = <<>> /\ closed
  /\ main' = "ended"
  /\ UNCHANGED <<req, result, answer, misled, socket, replyVars, monVars>>

\* The command exit, or the end of the operator's input.
Exit ==
  /\ main = "prompt" /\ mon # "no"
  /\ main' = "ended"
  /\ UNCHANGED <<req, result, answer, misled, socket, replyVars, monVars>>

\* start_new_thread once the names and the schema are there.
StartMonitor ==
  /\ main = "prompt" /\ req = InitReqs /\ mon = "no"
  /\ mon' = "select"
  /\ UNCHANGED <<mainVars, socket, replyVars, writable, queue, stolen>>

(* --- the monitor thread: listen_for_messages --------------------------------------- *)

\* select: the socket can be read, or there is something to send; the socket
\* takes what is sent.
MonSelect ==
  /\ mon = "select"
  /\ socket # <<>> \/ closed \/ queue # <<>>
  /\ writable' = (queue # <<>>)
  /\ mon' = IF socket # <<>> \/ closed THEN "recv" ELSE "send"
  /\ UNCHANGED <<mainVars, socket, replyVars, queue, stolen>>

EchoesIn(n) == Cardinality({i \in 1..n : socket[i] = Echo})

\* recv, which waits if main was faster; what came is queued to be sent back.
\* A closed connection gives the empty string, again and again.
MonRecv ==
  /\ mon = "recv"
  /\ \/ \E n \in 1..Len(socket) :
          /\ socket' = SubSeq(socket, n + 1, Len(socket))
          /\ stolen' = (stolen \/ \E i \in 1..n : OfReply(socket[i]))
          /\ queue' = Append(queue, EchoesIn(n))
     \/ /\ socket = <<>> /\ closed
        /\ queue' = Append(queue, 0)
        /\ UNCHANGED <<socket, stolen>>
  /\ mon' = IF writable THEN "send" ELSE "select"
  /\ UNCHANGED <<mainVars, replyVars, writable>>

\* Variant with a bug: what is sent stays in the queue.
MonSendKeeps ==
  /\ mon = "send"
  /\ mon' = "select"
  /\ UNCHANGED <<mainVars, socket, replyVars, writable, queue, stolen>>

\* The text goes back to the server, which answers the echo requests in it, all
\* of them or those before something that it cannot use.
MonSend ==
  /\ mon = "send"
  /\ queue' = Tail(queue)
  /\ \/ ~closed /\ \E m \in 0..Head(queue) : owed' = owed \o [i \in 1..m |-> Pong]
     \/ closed /\ UNCHANGED owed
  /\ mon' = "select"
  /\ UNCHANGED <<mainVars, socket, closed, echoes, writable, stolen>>

\* recv or send on a connection that was reset: the exception ends the thread.
MonFails ==
  /\ closed /\ ((mon = "recv" /\ socket = <<>>) \/ mon = "send")
  /\ mon' = "ended"
  /\ UNCHANGED <<mainVars, socket, replyVars, writable, queue, stolen>>

(* --- the server ---------------------------------------------------------------------- *)

ServerSends ==
  /\ ~closed /\ owed # <<>>
  /\ socket' = Append(socket, Head(owed))
  /\ owed' = Tail(owed)
  /\ UNCHANGED <<mainVars, closed, echoes, monVars>>

\* Between two replies or before one, never inside one.
ServerEchoes ==
  /\ ~closed /\ echoes < MaxEchoes
  /\ owed # <<>> => Head(owed).kind # "rest"
  /\ socket' = Append(socket, Echo)
  /\ echoes' = echoes + 1
  /\ UNCHANGED <<mainVars, owed, closed, monVars>>

ServerCloses ==
  /\ ~closed
  /\ closed' = TRUE /\ owed' = <<>>
  /\ UNCHANGED <<mainVars, socket, echoes, monVars>>

\* The threads of a Python program end with its main thread.
Monitor == main # "ended" /\ (MonSelect \/ MonRecv \/ MonSend)
OvsdbNext ==
  \/ Request \/ Gather \/ GatherFails \/ Exit \/ StartMonitor
  \/ Monitor \/ (main # "ended" /\ MonFails)
  \/ ServerSends \/ ServerEchoes \/ ServerCloses

OvsdbSpec == OvsdbInit /\ [][OvsdbNext]_ovsdbVars

\* Both threads run, and the server answers unless it closes.
OvsdbFairSpec ==
  /\ OvsdbSpec
  /\ WF_ovsdbVars(Gather) /\ WF_ovsdbVars(Monitor) /\ WF_ovsdbVars(ServerSends)

(* --- properties ------------------------------------------------------------------------ *)

\* Every variable has its type; the queue of the monitor thread never holds more
\* than what one turn of its loop adds to what the turn before left.
OvsdbTypeOK ==
  /\ main \in {"prompt", "gather", "ended"} /\ req \in 0..MaxReqs
  /\ answer \in 0..MaxReqs /\ echoes \in 0..MaxEchoes /\ closed \in BOOLEAN
  /\ mon \in {"no", "select", "recv", "send", "ended"} /\ writable \in BOOLEAN
  /\ queue \in Seq(Nat) /\ Len(queue) <= 2 /\ stolen \in BOOLEAN /\ misled \in Nat
  /\ result \in Seq(Segments) /\ socket \in Seq(Segments) /\ owed \in Seq(Segments)

\* The requests all carry the id 0, and gather_reply looks at no id.  The monitor
\* thread sends the server's echo requests back, and main may take the answer to
\* one for its own.  From then on it may get each reply a request late, and for
\* each such answer it falls back by one more, but by no more: what it returns is
\* the reply to the last request or to one of the misled requests before it,
\* whatever the monitor thread took of the replies.  A main that was never misled
\* gets the reply to its request or none.
RepliesInStep ==
  main = "prompt" =>
    /\ answer <= req
    /\ req <= answer + misled \/ (answer = 0 /\ misled > 0)

\* Main comes back from gather_reply, with a reply or an exception, unless the
\* monitor thread took a part of a reply or the server is gone.
MainReturns == main = "gather" ~> (main # "gather" \/ stolen \/ closed)
=============================================================================
