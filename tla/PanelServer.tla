---------------------------- MODULE PanelServer ----------------------------
(***************************************************************************)
(* The threads of the legacy patch panel server (patch_panel/main.c) on    *)
(* one entry of thread_data_array: the prompt of main, the thread that     *)
(* accepts connections, and a client_handler per connection of the client. *)
(* The fields action and command are shared; only command is used under    *)
(* mutex_cmd.                                                              *)
(*                                                                         *)
(* Commands are numbers in the order in which they are typed, 0 the empty  *)
(* string.  The client (client.c) answers a command, or goes away and      *)
(* connects again with the same id.  The sockets are external.  With at    *)
(* most two connections a descriptor number that was closed is not handed  *)
(* out again while it is in use.  thread_count is only printed.            *)
(*                                                                         *)
(* The mutex is external, and is used against its rules: unlock by another *)
(* thread, init and destroy while it is held or waited for.  What that     *)
(* does is what glibc's default mutex does.  It is a word that is 0 when   *)
(* the mutex is free, 1 when it is held, 2 when a thread may sleep on it.  *)
(* Unlock stores 0 and wakes one thread if the word was 2; init stores 0   *)
(* and wakes nobody; destroy marks the mutex so that lock and unlock       *)
(* return an error, which nobody looks at; a thread that was asleep goes   *)
(* on with the word alone.                                                 *)
(***************************************************************************)
EXTENDS Naturals, Sequences

CONSTANTS MaxConns,   \* bound: connections of the client
          MaxCmds     \* bound: commands typed

ASSUME PanelAssumption == MaxConns \in 1..2 /\ MaxCmds \in Nat \ {0}

Conns == 1..MaxConns

VARIABLES
  action,    \* "off" (0 or -1), "ready" (1000), "queued" (2000)
  command,   \* the command in the entry
  futex,     \* mutex_cmd: 0 free, 1 held, 2 held and a thread may sleep on it
  gone,      \* mutex_cmd: is it destroyed?
  waits,     \* waits[t]: is thread t "asleep" on the mutex, or "woken" from it?
  socket,    \* the connection that the entry's socket points to, 0: freed
  cli,       \* main at the prompt: "prompt", "set", "lock", "copy"
  typed,     \* commands typed
  accept,    \* connection_handler: "accept", "socket", "action", "clear", "init"
  conns,     \* connections made
  peer,      \* peer[k]: is the client's end of connection k there?
  fd,        \* fd[k]: is the server's end open?
  asked,     \* asked[k]: commands that the client has to answer
  answered,  \* answered[k]: answers that nobody has received
  hpc,       \* hpc[k]: step of the handler of connection k
  hsock,     \* hsock[k]: the connection that handler k uses, 0: no open socket
  accepted,  \* history: commands the prompt accepted
  sent,      \* history: what was sent to the client
  early      \* history: was a line typed before the last handler had started?

Threads == {"cli", "h1", "h2"}
Holder == [k \in Conns |-> <<"h1", "h2">>[k]]

mutex == <<futex, gone, waits>>
net == <<conns, peer, fd, asked, answered>>
handler == <<hpc, hsock>>
hist == <<accepted, sent, early>>
vars == <<action, command, futex, gone, waits, socket, cli, typed, accept, conns,
          peer, fd, asked, answered, hpc, hsock, accepted, sent, early>>

Init ==
  /\ action = "off" /\ command = 0 /\ socket = 0
  /\ futex = 0 /\ gone = FALSE /\ waits = [t \in Threads |-> "no"]
  /\ cli = "prompt" /\ typed = 0
  /\ accept = "accept" /\ conns = 0
  /\ peer = [k \in Conns |-> FALSE] /\ fd = peer
  /\ asked = [k \in Conns |-> 0] /\ answered = asked
  /\ hpc = [k \in Conns |-> "no"] /\ hsock = [k \in Conns |-> 0]
  /\ accepted = <<>> /\ sent = <<>> /\ early = FALSE

(* --- mutex_cmd (glibc) ------------------------------------------------------ *)

\* pthread_mutex_lock of thread t returns.  A thread that was woken cannot know
\* whether others sleep, so it leaves the word at 2.
Lock(t) ==
  /\ \/ waits[t] = "no" /\ gone /\ UNCHANGED <<futex, waits>>
     \/ waits[t] = "no" /\ ~gone /\ futex = 0 /\ futex' = 1 /\ UNCHANGED waits
     \/ /\ waits[t] = "woken" /\ futex = 0
        /\ futex' = 2 /\ waits' = [waits EXCEPT ![t] = "no"]
  /\ UNCHANGED gone

\* The mutex is held, and thread t goes to sleep, for the first time or again.
Sleep(t) ==
  /\ futex # 0
  /\ (waits[t] = "no" /\ ~gone) \/ waits[t] = "woken"
  /\ futex' = 2 /\ waits' = [waits EXCEPT ![t] = "asleep"]
  /\ UNCHANGED gone

Wake ==
  \/ futex = 2 /\ \E t \in Threads : /\ waits[t] = "asleep"
                                    /\ waits' = [waits EXCEPT ![t] = "woken"]
  \/ (futex # 2 \/ \A t \in Threads : waits[t] # "asleep") /\ UNCHANGED waits

\* By whoever calls it: the holder or not.
Unlock ==
  /\ \/ gone /\ UNCHANGED <<futex, waits>>
     \/ ~gone /\ futex' = 0 /\ Wake
  /\ UNCHANGED gone

\* A mutex that looks as if it were in use is not destroyed.  Unlocks without a
\* lock spoil its count of users, so it may look so or not.
Destroy == gone' \in {gone, TRUE} /\ UNCHANGED <<futex, waits>>

(* --- connection_handler ------------------------------------------------------ *)

\* accept(), the greeting, and the id that the client sends.
Accept ==
  /\ accept = "accept" /\ conns < MaxConns
  /\ conns > 0 => ~peer[conns]
  /\ conns' = conns + 1
  /\ peer' = [peer EXCEPT ![conns + 1] = TRUE]
  /\ fd' = [fd EXCEPT ![conns + 1] = TRUE]
  /\ accept' = "socket"
  /\ UNCHANGED <<action, command, mutex, socket, cli, typed, asked, answered, handler, hist>>

SetSocket ==
  /\ accept = "socket"
  /\ socket' = conns
  /\ accept' = "action"
  /\ UNCHANGED <<action, command, mutex, cli, typed, net, handler, hist>>

SetAction ==
  /\ accept = "action"
  /\ action' = "ready"
  /\ accept' = "clear"
  /\ UNCHANGED <<command, mutex, socket, cli, typed, net, handler, hist>>

ClearCommand ==
  /\ accept = "clear"
  /\ command' = 0
  /\ accept' = "init"
  /\ UNCHANGED <<action, mutex, socket, cli, typed, net, handler, hist>>

\* pthread_mutex_init, whoever holds it or sleeps on it, and pthread_create.
InitMutex ==
  /\ accept = "init"
  /\ futex' = 0 /\ gone' = FALSE
  /\ hpc' = [hpc EXCEPT ![conns] = "start"]
  /\ accept' = "accept"
  /\ UNCHANGED <<action, command, waits, socket, cli, typed, net, hsock, hist>>

(* --- main -------------------------------------------------------------------- *)

Started == conns > 0 /\ hpc[conns] # "no"

\* The line is read, and the entry must be ready.
Type ==
  /\ cli = "prompt" /\ typed < MaxCmds
  /\ typed' = typed + 1
  /\ cli' = IF action = "ready" THEN "set" ELSE "prompt"
  /\ accepted' = IF action = "ready" THEN Append(accepted, typed') ELSE accepted
  /\ early' = (early \/ ~Started)
  /\ UNCHANGED <<action, command, mutex, socket, accept, net, handler, sent>>

SetQueued ==
  /\ cli = "set"
  /\ action' = "queued"
  /\ cli' = "lock"
  /\ UNCHANGED <<command, mutex, socket, typed, accept, net, handler, hist>>

CliLock ==
  /\ cli = "lock"
  /\ \/ Lock("cli") /\ cli' = "copy"
     \/ Sleep("cli") /\ cli' = cli
  /\ UNCHANGED <<action, command, socket, typed, accept, net, handler, hist>>

\* Variant with a bug: the line that is copied is the one being typed next.
CopyCommandNext ==
  /\ cli = "copy"
  /\ command' = typed + 1
  /\ Unlock
  /\ cli' = "prompt"
  /\ UNCHANGED <<action, socket, typed, accept, net, handler, hist>>

\* strcpy into the entry and unlock.
CopyCommand ==
  /\ cli = "copy"
  /\ command' = typed
  /\ Unlock
  /\ cli' = "prompt"
  /\ UNCHANGED <<action, socket, typed, accept, net, handler, hist>>

(* --- client_handler of connection k ------------------------------------------ *)

\* The thread reads the entry's socket, whichever connection it is by now.  Of a
\* socket that was freed glibc has overwritten the number: no open socket.
Start(k) ==
  /\ hpc[k] = "start"
  /\ hsock' = [hsock EXCEPT ![k] = socket]
  /\ hpc' = [hpc EXCEPT ![k] = "poll"]
  /\ UNCHANGED <<action, command, mutex, socket, cli, typed, accept, net, hist>>

\* The test of action, before the lock.
Poll(k) ==
  /\ hpc[k] = "poll" /\ action = "queued"
  /\ hpc' = [hpc EXCEPT ![k] = "lock"]
  /\ UNCHANGED <<action, command, mutex, socket, cli, typed, accept, net, hsock, hist>>

HandlerSleeps(k) ==
  /\ hpc[k] = "lock"
  /\ Sleep(Holder[k])
  /\ UNCHANGED <<action, command, socket, cli, typed, accept, net, handler, hist>>

\* Variant with a bug: the command stays queued.
TakeStaysQueued(k) ==
  /\ hpc[k] = "lock"
  /\ Lock(Holder[k])
  /\ hpc' = [hpc EXCEPT ![k] = "send"]
  /\ UNCHANGED <<action, command, socket, cli, typed, accept, net, hsock, hist>>

\* Lock, and mark the command as done.
Take(k) ==
  /\ hpc[k] = "lock"
  /\ Lock(Holder[k])
  /\ action' = "ready"
  /\ hpc' = [hpc EXCEPT ![k] = "send"]
  /\ UNCHANGED <<command, socket, cli, typed, accept, net, hsock, hist>>

\* The server's end of the handler's connection is open.
Open(k) == \E c \in Conns : c = hsock[k] /\ fd[c]

\* Copy the command and send it.  A failure leaves the loop with the mutex.
SendOk(k) ==
  /\ hpc[k] = "send" /\ Open(k) /\ peer[hsock[k]]
  /\ sent' = Append(sent, command)
  /\ asked' = [asked EXCEPT ![hsock[k]] = @ + 1]
  /\ Unlock
  /\ hpc' = [hpc EXCEPT ![k] = "recv"]
  /\ UNCHANGED <<action, command, socket, cli, typed, accept, conns, peer, fd,
                 answered, hsock, accepted, early>>

SendFails(k) ==
  /\ hpc[k] = "send" /\ ~(Open(k) /\ peer[hsock[k]])
  /\ hpc' = [hpc EXCEPT ![k] = "close"]
  /\ UNCHANGED <<action, command, mutex, socket, cli, typed, accept, net, hsock, hist>>

\* The call of recv: EBADF when the other handler has closed the descriptor.
RecvCall(k) ==
  /\ hpc[k] = "recv"
  /\ hpc' = [hpc EXCEPT ![k] = IF Open(k) THEN "wait" ELSE "close"]
  /\ UNCHANGED <<action, command, mutex, socket, cli, typed, accept, net, hsock, hist>>

\* It returns with an answer or at the end of the connection; a close() by the
\* other handler does not wake it.  Only a connection can have answers.
Recv(k) ==
  /\ hpc[k] = "wait" /\ hsock[k] \in Conns
  /\ \/ /\ answered[hsock[k]] > 0
        /\ answered' = [answered EXCEPT ![hsock[k]] = @ - 1]
        /\ hpc' = [hpc EXCEPT ![k] = "poll"]
     \/ /\ answered[hsock[k]] = 0 /\ ~peer[hsock[k]]
        /\ hpc' = [hpc EXCEPT ![k] = "close"]
        /\ UNCHANGED answered
  /\ UNCHANGED <<action, command, mutex, socket, cli, typed, accept, conns, peer, fd,
                 asked, hsock, hist>>

\* close() of the entry's socket, whichever connection it is now.  If the other
\* handler has freed it, what is read there is no open socket.
Close(k) ==
  /\ hpc[k] = "close"
  /\ fd' = [j \in Conns |-> fd[j] /\ j # socket]
  /\ hpc' = [hpc EXCEPT ![k] = "free"]
  /\ UNCHANGED <<action, command, mutex, socket, cli, typed, accept, conns, peer,
                 asked, answered, hsock, hist>>

\* free(), after which the entry still points there.
Free(k) ==
  /\ hpc[k] = "free" /\ socket # 0
  /\ socket' = 0
  /\ hpc' = [hpc EXCEPT ![k] = "unlock"]
  /\ UNCHANGED <<action, command, mutex, cli, typed, accept, net, hsock, hist>>

\* The second free goes by unseen or aborts the program.
FreeTwice(k) ==
  /\ hpc[k] = "free" /\ socket = 0
  /\ \E s \in {"unlock", "abort"} : hpc' = [hpc EXCEPT ![k] = s]
  /\ UNCHANGED <<action, command, mutex, socket, cli, typed, accept, net, hsock, hist>>

\* Variant with a bug: the mutex is not given back.
ExitUnlockNot(k) ==
  /\ hpc[k] = "unlock"
  /\ hpc' = [hpc EXCEPT ![k] = "reset"]
  /\ UNCHANGED <<action, command, mutex, socket, cli, typed, accept, net, hsock, hist>>

\* Unlock, whether or not this thread holds it.
ExitUnlock(k) ==
  /\ hpc[k] = "unlock"
  /\ Unlock
  /\ hpc' = [hpc EXCEPT ![k] = "reset"]
  /\ UNCHANGED <<action, command, socket, cli, typed, accept, net, hsock, hist>>

\* Reset the values of the entry.
ExitReset(k) ==
  /\ hpc[k] = "reset"
  /\ action' = "off"
  /\ hpc' = [hpc EXCEPT ![k] = "destroy"]
  /\ UNCHANGED <<command, mutex, socket, cli, typed, accept, net, hsock, hist>>

ExitDestroy(k) ==
  /\ hpc[k] = "destroy"
  /\ Destroy
  /\ hpc' = [hpc EXCEPT ![k] = "gone"]
  /\ UNCHANGED <<action, command, socket, cli, typed, accept, net, hsock, hist>>

(* --- the client ---------------------------------------------------------------- *)

ClientReplies(k) ==
  /\ peer[k] /\ asked[k] > 0
  /\ asked' = [asked EXCEPT ![k] = @ - 1]
  /\ answered' = [answered EXCEPT ![k] = @ + 1]
  /\ UNCHANGED <<action, command, mutex, socket, cli, typed, accept, conns, peer, fd,
                 handler, hist>>

ClientGone(k) ==
  /\ peer[k]
  /\ peer' = [peer EXCEPT ![k] = FALSE]
  /\ UNCHANGED <<action, command, mutex, socket, cli, typed, accept, conns, fd, asked,
                 answered, handler, hist>>

AcceptThread == Accept \/ SetSocket \/ SetAction \/ ClearCommand \/ InitMutex
CliStep == SetQueued \/ CliLock \/ CopyCommand
Handler(k) ==
  \/ Start(k) \/ Poll(k) \/ HandlerSleeps(k) \/ Take(k)
  \/ SendOk(k) \/ SendFails(k) \/ RecvCall(k) \/ Recv(k)
  \/ Close(k) \/ Free(k) \/ FreeTwice(k)
  \/ ExitUnlock(k) \/ ExitReset(k) \/ ExitDestroy(k)

Aborted == \E k \in Conns : hpc[k] = "abort"

Next ==
  /\ ~Aborted
  /\ \/ AcceptThread \/ Type \/ CliStep
     \/ \E k \in Conns : Handler(k) \/ ClientReplies(k) \/ ClientGone(k)

Spec == Init /\ [][Next]_vars

\* Every thread that can run does; nobody has to type or to connect.
FairSpec ==
  /\ Spec
  /\ WF_vars(~Aborted /\ CliStep)
  /\ \A k \in Conns : WF_vars(~Aborted /\ Handler(k))

(* --- properties ------------------------------------------------------------------ *)

\* Every variable has its type.
TypeOK ==
  /\ action \in {"off", "ready", "queued"} /\ command \in 0..MaxCmds
  /\ futex \in {0, 1, 2} /\ gone \in BOOLEAN
  /\ waits \in [Threads -> {"no", "asleep", "woken"}] /\ socket \in 0..MaxConns
  /\ cli \in {"prompt", "set", "lock", "copy"} /\ typed \in 0..MaxCmds
  /\ accept \in {"accept", "socket", "action", "clear", "init"}
  /\ conns \in 0..MaxConns
  /\ peer \in [Conns -> BOOLEAN] /\ fd \in [Conns -> BOOLEAN]
  /\ asked \in [Conns -> Nat] /\ answered \in [Conns -> Nat]
  /\ hpc \in [Conns -> {"no", "start", "poll", "lock", "send", "recv", "wait", "close",
                        "free", "unlock", "reset", "destroy", "gone", "abort"}]
  /\ hsock \in [Conns -> 0..MaxConns]
  /\ early \in BOOLEAN

\* The client has connected once, and the operator typed nothing before its
\* handler had started: nobody resets the entry under the others.
Undisturbed == conns <= 1 /\ ~early

\* A command that was accepted and not sent.
UnderWay ==
  \/ cli = "set" \/ action = "queued"
  \/ \E k \in Conns : hpc[k] \in {"lock", "send"}

\* On an undisturbed entry the client gets one message for each command
\* accepted, whichever command it is: never two for one, and one is missing only
\* while the command is under way or when the connection has come to its end.
OneMessageEach ==
  Undisturbed =>
    /\ Len(sent) <= Len(accepted)
    /\ (\E k \in Conns : peer[k] /\ hpc[k] \in {"poll", "recv", "wait"}) /\ ~UnderWay
         => Len(sent) = Len(accepted)

\* The prompt sets action before it copies the command, so a handler may send
\* what the entry held before; but no message is older than that: it is the
\* command accepted in its place or the one accepted just before it.
AtMostOneLate ==
  Undisturbed =>
    \A i \in 1..Len(sent) :
      sent[i] \in {accepted[i], IF i = 1 THEN 0 ELSE accepted[i - 1]}

\* The client connected again, and the mutex was initialised or destroyed while
\* the prompt slept on it: nobody is left to wake it.
Stranded ==
  /\ conns > 1 /\ waits["cli"] = "asleep"
  /\ gone \/ (futex # 2 /\ \A t \in Threads : waits[t] # "woken")

\* The prompt comes back: a handler that ends with a failed send, holding the
\* mutex, gives it back before it is gone and wakes the prompt.  With one
\* connection nothing else happens; when the client has connected again the
\* prompt may be stranded, or a second free may abort the program.
PromptReturns == cli # "prompt" ~> (cli = "prompt" \/ Stranded \/ Aborted)
=============================================================================
