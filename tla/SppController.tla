--------------------------- MODULE SppController ---------------------------
(***************************************************************************)
(* The management program spp.py: the interactive shell, the thread that   *)
(* serves the primary, the thread that accepts secondaries, one thread per *)
(* connected secondary, and the queues between them; and, as the other end *)
(* of each TCP connection, the agent loop that every DPDK process of the   *)
(* patch panel runs in main() (recv a command, handle it, send one reply;  *)
(* "exit" closes without a reply).                                         *)
(*                                                                         *)
(* The shell puts a command in a queue and blocks on the answer queue of   *)
(* the same link; a thread forwards the command and puts what comes back.  *)
(* Messages are one TCP segment each (MSG_SIZE is 100 bytes): a message    *)
(* arrives whole or not at all.                                            *)
(***************************************************************************)
EXTENDS Naturals, Sequences, FiniteSets

CONSTANTS MaxConn,    \* bound: secondaries that connect in one run
          MaxCmds,    \* bound: commands the operator types
          MaxPri      \* bound: times a primary connects

ASSUME SppAssumption == MaxConn \in Nat /\ MaxCmds \in Nat /\ MaxPri \in Nat

Pri   == MaxConn                 \* the link of the primary
Ids   == 0..(MaxConn - 1)        \* secondary_count values: the secondaries' ids
Links == 0..MaxConn

VARIABLES
  shell, target, kind,   \* the shell: step, link it talks to, command it sends
  n,                     \* commands typed so far; the number of the current one
  m2s, s2m,              \* main2sec / sec2main, main2primary / primary2main
  primary,               \* the global flag "primary"
  listed,                \* secondary_list
  count,                 \* secondary_count
  apc,                   \* acceptthread's next step for id count
  tpc,                   \* primarythread and the connection threads
  link,                  \* each connection as the controller's kernel sees it
  c2a, a2c,              \* bytes under way to and from the agent
  npri                   \* primaries accepted so far

vars == <<shell, target, kind, n, m2s, s2m, primary, listed, count, apc,
          tpc, link, c2a, a2c, npri>>
shellVars == <<shell, target, kind, n>>
acceptVars == <<count, apc>>
netVars == <<link, c2a, a2c>>

Init ==
  /\ shell = "prompt" /\ target = Pri /\ kind = "other" /\ n = 0
  /\ m2s = [l \in Links |-> <<>>] /\ s2m = [l \in Links |-> <<>>]
  /\ primary = FALSE
  /\ listed = {}
  /\ count = 0 /\ apc = "accept"
  /\ tpc = [l \in Links |-> IF l = Pri THEN "accept" ELSE "unborn"]
  /\ link = [l \in Links |-> "none"]
  /\ c2a = [l \in Links |-> <<>>] /\ a2c = [l \in Links |-> <<>>]
  /\ npri = 0

\* The program ends with its main thread: the other threads do not outlive it.
Alive == shell \notin {"crashed", "bye"}

-----------------------------------------------------------------------------
(* The shell: do_pri, do_sec, command_primary, command_secondary.          *)

\* do_pri of a listed command: without a primary it only says so.
DoPri(k) ==
  /\ shell = "prompt" /\ n < MaxCmds
  /\ primary
  /\ shell' = "put" /\ target' = Pri /\ kind' = k /\ n' = n + 1
  /\ UNCHANGED <<m2s, s2m, primary, listed, acceptVars, tpc, netVars, npri>>

\* do_sec: an id that is not in secondary_list takes the else branch, whose
\* format string wants two values and gets one: the TypeError ends cmdloop.
DoSec(id, k) ==
  /\ shell = "prompt" /\ n < MaxCmds
  /\ shell' = IF id \in listed THEN "put" ELSE "crashed"
  /\ target' = id /\ kind' = k /\ n' = n + 1
  /\ UNCHANGED <<m2s, s2m, primary, listed, acceptVars, tpc, netVars, npri>>

\* An id is listed before its queues exist.
HasMain2Sec(l) == l = Pri \/ l < count \/ (l = count /\ apc \in {"s2m", "spawn"})
HasSec2Main(l) == l = Pri \/ l < count \/ (l = count /\ apc = "spawn")

\* The put; main2sec[sec_id] may be an IndexError, which nothing catches.
ShellPut ==
  /\ shell = "put"
  /\ IF HasMain2Sec(target)
       THEN /\ shell' = "get"
            /\ m2s' = [m2s EXCEPT ![target] = Append(@, [cmd |-> kind, no |-> n])]
       ELSE /\ shell' = "crashed"
            /\ UNCHANGED m2s
  /\ UNCHANGED <<target, kind, n, s2m, primary, listed, acceptVars, tpc, netVars, npri>>

\* The blocking get on the answer queue; the answer is printed.  The lookup
\* sec2main[sec_id] may be the same IndexError.
ShellGet ==
  /\ shell = "get"
  /\ IF HasSec2Main(target)
       THEN /\ s2m[target] # <<>>
            /\ s2m' = [s2m EXCEPT ![target] = Tail(@)]
            /\ shell' = "prompt"
       ELSE /\ shell' = "crashed"
            /\ UNCHANGED s2m
  /\ UNCHANGED <<target, kind, n, m2s, primary, listed, acceptVars, tpc, netVars, npri>>

\* do_bye ends cmdloop.
DoBye ==
  /\ shell = "prompt"
  /\ shell' = "bye"
  /\ UNCHANGED <<target, kind, n, m2s, s2m, primary, listed, acceptVars, tpc, netVars, npri>>

Shell == ShellPut \/ ShellGet

-----------------------------------------------------------------------------
(* acceptthread.                                                           *)

\* Variant with a bug: the count goes up before the id is listed.
AcceptListsNext ==
  /\ Alive /\ apc = "accept" /\ count < MaxConn
  /\ link' = [link EXCEPT ![count] = "open"]
  /\ listed' = listed \cup {count + 1}
  /\ apc' = "m2s"
  /\ UNCHANGED <<shellVars, m2s, s2m, primary, count, tpc, c2a, a2c, npri>>

AcceptSecondary ==
  /\ Alive /\ apc = "accept" /\ count < MaxConn
  /\ link' = [link EXCEPT ![count] = "open"]
  /\ listed' = listed \cup {count}
  /\ apc' = "m2s"
  /\ UNCHANGED <<shellVars, m2s, s2m, primary, count, tpc, c2a, a2c, npri>>

MakeQueue ==
  /\ Alive
  /\ \/ apc = "m2s" /\ apc' = "s2m"
     \/ apc = "s2m" /\ apc' = "spawn"
  /\ UNCHANGED <<shellVars, m2s, s2m, primary, listed, count, tpc, netVars, npri>>

SpawnThread ==
  /\ Alive /\ apc = "spawn"
  /\ tpc' = [tpc EXCEPT ![count] = "get"]
  /\ count' = count + 1
  /\ apc' = "accept"
  /\ UNCHANGED <<shellVars, m2s, s2m, primary, listed, netVars, npri>>

AcceptThread == AcceptSecondary \/ MakeQueue \/ SpawnThread

-----------------------------------------------------------------------------
(* primarythread accepts one primary at a time; the queues outlive it.     *)

PrimaryAccept ==
  /\ Alive /\ tpc[Pri] = "accept" /\ npri < MaxPri
  /\ npri' = npri + 1
  /\ primary' = TRUE
  /\ tpc' = [tpc EXCEPT ![Pri] = "get"]
  /\ link' = [link EXCEPT ![Pri] = "open"]
  /\ c2a' = [c2a EXCEPT ![Pri] = <<>>] /\ a2c' = [a2c EXCEPT ![Pri] = <<>>]
  /\ UNCHANGED <<shellVars, m2s, s2m, listed, acceptVars>>

\* The inner loop is left: back at the top, the flag goes down.
PrimaryLost ==
  /\ Alive /\ tpc[Pri] = "ending"
  /\ primary' = FALSE
  /\ link' = [link EXCEPT ![Pri] = "none"]
  /\ tpc' = [tpc EXCEPT ![Pri] = "accept"]
  /\ UNCHANGED <<shellVars, m2s, s2m, listed, acceptVars, c2a, a2c, npri>>

\* connectionthread after its loop: the id leaves the list, the socket closes.
Unlist(id) ==
  /\ Alive /\ tpc[id] = "ending"
  /\ listed' = listed \ {id}
  /\ link' = [link EXCEPT ![id] = "none"]
  /\ tpc' = [tpc EXCEPT ![id] = "ended"]
  /\ UNCHANGED <<shellVars, m2s, s2m, primary, acceptVars, c2a, a2c, npri>>

-----------------------------------------------------------------------------
(* The loop both kinds of thread share: get a command, send it, receive.   *)

\* get + send.  On a reset connection send raises and the loop is left with
\* the command gone and no answer put.  On one the agent has closed the bytes
\* go nowhere, and the agent's kernel may answer with a reset.
ThreadSend(l) ==
  /\ Alive /\ tpc[l] = "get" /\ m2s[l] # <<>>
  /\ m2s' = [m2s EXCEPT ![l] = Tail(@)]
  /\ CASE link[l] = "open" ->
            /\ c2a' = [c2a EXCEPT ![l] = Append(@, Head(m2s[l]))]
            /\ tpc' = [tpc EXCEPT ![l] = "recv"]
            /\ UNCHANGED link
       [] link[l] = "fin" ->
            /\ \E s \in {"fin", "rst"} : link' = [link EXCEPT ![l] = s]
            /\ tpc' = [tpc EXCEPT ![l] = "recv"]
            /\ UNCHANGED c2a
       [] OTHER ->
            /\ tpc' = [tpc EXCEPT ![l] = "ending"]
            /\ UNCHANGED <<link, c2a>>
  /\ UNCHANGED <<shellVars, s2m, primary, listed, acceptVars, a2c, npri>>

\* Variant with a bug: the thread keeps receiving after it has passed a reply on.
ThreadReplyNoGet(l) ==
  /\ Alive /\ tpc[l] = "recv" /\ a2c[l] # <<>>
  /\ s2m' = [s2m EXCEPT ![l] = Append(@, Head(a2c[l]))]
  /\ a2c' = [a2c EXCEPT ![l] = Tail(@)]
  /\ UNCHANGED <<shellVars, m2s, primary, listed, acceptVars, tpc, link, c2a, npri>>

\* A reply is received and passed on.
ThreadReply(l) ==
  /\ Alive /\ tpc[l] = "recv" /\ a2c[l] # <<>>
  /\ s2m' = [s2m EXCEPT ![l] = Append(@, Head(a2c[l]))]
  /\ a2c' = [a2c EXCEPT ![l] = Tail(@)]
  /\ tpc' = [tpc EXCEPT ![l] = "get"]
  /\ UNCHANGED <<shellVars, m2s, primary, listed, acceptVars, link, c2a, npri>>

\* Variant with a bug: end of file is treated like an error.
ThreadClosingSilent(l) ==
  /\ Alive /\ tpc[l] = "recv" /\ a2c[l] = <<>> /\ link[l] = "fin"
  /\ tpc' = [tpc EXCEPT ![l] = "ending"]
  /\ UNCHANGED <<shellVars, m2s, s2m, primary, listed, acceptVars, netVars, npri>>

\* End of file: "closing" is put, then the loop is left.
ThreadClosing(l) ==
  /\ Alive /\ tpc[l] = "recv" /\ a2c[l] = <<>> /\ link[l] = "fin"
  /\ s2m' = [s2m EXCEPT ![l] = Append(@, [cmd |-> "closing", no |-> n])]
  /\ tpc' = [tpc EXCEPT ![l] = "ending"]
  /\ UNCHANGED <<shellVars, m2s, primary, listed, acceptVars, netVars, npri>>

\* recv raises: the loop is left and nothing is put.
ThreadError(l) ==
  /\ Alive /\ tpc[l] = "recv" /\ a2c[l] = <<>> /\ link[l] = "rst"
  /\ tpc' = [tpc EXCEPT ![l] = "ending"]
  /\ UNCHANGED <<shellVars, m2s, s2m, primary, listed, acceptVars, netVars, npri>>

Ending(l) == IF l = Pri THEN PrimaryLost ELSE Unlist(l)

Thread(l) == \/ ThreadSend(l) \/ ThreadReply(l) \/ ThreadClosing(l)
             \/ ThreadError(l) \/ Ending(l)

-----------------------------------------------------------------------------
(* The agent at the other end, and its failures.                           *)

\* One round of the agent's loop: every command but exit is answered.
AgentReply(l) ==
  /\ Alive /\ link[l] = "open" /\ c2a[l] # <<>>
  /\ c2a' = [c2a EXCEPT ![l] = Tail(@)]
  /\ IF Head(c2a[l]).cmd = "exit"
       THEN link' = [link EXCEPT ![l] = "fin"] /\ UNCHANGED a2c
       ELSE a2c' = [a2c EXCEPT ![l] = Append(@, Head(c2a[l]))] /\ UNCHANGED link
  /\ UNCHANGED <<shellVars, m2s, s2m, primary, listed, acceptVars, tpc, npri>>

\* The agent's process or host dies: its connection ends or is reset.
AgentDies(l) ==
  /\ Alive /\ link[l] = "open"
  /\ \E s \in {"fin", "rst"} : link' = [link EXCEPT ![l] = s]
  /\ c2a' = [c2a EXCEPT ![l] = <<>>]
  /\ UNCHANGED <<shellVars, m2s, s2m, primary, listed, acceptVars, tpc, a2c, npri>>

Operator == \E k \in {"exit", "other"} : DoPri(k) \/ \E id \in Ids : DoSec(id, k)

Next == \/ Operator \/ DoBye \/ Shell \/ AcceptThread \/ PrimaryAccept
        \/ \E l \in Links : Thread(l) \/ AgentReply(l) \/ AgentDies(l)

Spec == Init /\ [][Next]_vars

\* Threads and live agents are scheduled; nobody has to type, connect or die.
Fairness == /\ WF_vars(Shell)
            /\ WF_vars(MakeQueue \/ SpawnThread)
            /\ \A l \in Links : WF_vars(Thread(l)) /\ WF_vars(AgentReply(l))

FairSpec == Spec /\ Fairness

-----------------------------------------------------------------------------
Msgs == [cmd : {"exit", "other", "closing"}, no : 0..MaxCmds]

\* The shape of the program's state.
TypeOK ==
  /\ shell \in {"prompt", "put", "get", "crashed", "bye"} /\ target \in Links
  /\ kind \in {"exit", "other"} /\ n \in 0..MaxCmds
  /\ \A q \in {m2s, s2m, c2a, a2c} : q \in [Links -> Seq(Msgs)]
  /\ primary \in BOOLEAN
  /\ listed \subseteq Ids /\ count \in 0..MaxConn
  /\ apc \in {"accept", "m2s", "s2m", "spawn"}
  /\ tpc \in [Links -> {"unborn", "accept", "get", "recv", "ending", "ended"}]
  /\ link \in [Links -> {"none", "open", "fin", "rst"}]
  /\ npri \in 0..MaxPri

\* Where the current command, or its answer, is on link l.
Tokens(l) == Len(m2s[l]) + Len(s2m[l]) + (IF tpc[l] = "recv" THEN 1 ELSE 0)

\* No answer is ever taken for another's: nothing is under way on any link but
\* the one the shell is waiting on, there is at most one thing under way there,
\* and it belongs to the command last typed - although primary2main outlives
\* the connections and commands are queued on links that are closing.
AnswersMatch == \A l \in Links :
  /\ Tokens(l) <= 1
  /\ Tokens(l) = 1 => shell \in {"get", "crashed"} /\ target = l
  /\ \A q \in {m2s, s2m} : \A i \in DOMAIN q[l] : q[l][i].no = n
  /\ link[l] # "none" =>
       \A q \in {c2a, a2c} : \A i \in DOMAIN q[l] : q[l][i].no = n

\* A command put in the queue of a thread that has ended (the id was checked
\* before the thread unlisted it), or of a primary that is not there any more.
Stranded == m2s[target] # <<>> /\ tpc[target] \in {"ended", "accept"}

\* Once a command is accepted the shell gets its prompt back, whatever the
\* agent does (an exit, or a death that closes the connection, included), with
\* two exceptions: the connection is reset, or the command is stranded.
ShellReturns == (shell = "put") ~>
  (shell \in {"prompt", "crashed", "bye"} \/ link[target] = "rst" \/ Stranded)
=============================================================================
