------------------------- MODULE PanelServerProofs -------------------------
(* Proofs about PanelServer, for any number of commands: its type invariant, *)
(* and what the client is sent on an undisturbed entry.                      *)
EXTENDS PanelServer, SequenceTheorems, TLAPS

\* The histories are sequences of commands.
HistoryOK == accepted \in Seq(Nat) /\ sent \in Seq(Nat)

\* The j-th command accepted; before the first one the entry is empty.
Held(j) == IF j = 0 THEN 0 ELSE accepted[j]

\* Handlers start in the order of the connections, each when connection_handler
\* is done with its entry.
InOrder == /\ \A k \in Conns : k > conns => hpc[k] = "no"
           /\ accept = "accept" /\ conns > 0 => hpc[conns] # "no"
           /\ accept # "accept" => conns > 0 /\ hpc[conns] = "no"

\* Before the first handler starts nothing has happened to the entry.
BeforeStart ==
  /\ cli = "prompt" /\ accepted = <<>> /\ sent = <<>>
  /\ command = 0 /\ futex = 0 /\ ~gone /\ action # "queued"

\* While the handler runs: a command accepted and not sent is at the prompt, in
\* the entry, or with the handler; the mutex is held just while the handler sends
\* or the prompt copies, by one of them.
Counted ==
  Len(accepted) = Len(sent) + (IF cli = "set" \/ action = "queued" THEN 1 ELSE 0)
                            + (IF hpc[1] = "send" THEN 1 ELSE 0)
Locked ==
  /\ ~gone /\ (futex # 0 <=> hpc[1] = "send" \/ cli = "copy")
  /\ ~(hpc[1] = "send" /\ cli = "copy")
InStep ==
  /\ cli = "set" => action # "queued"
  /\ hpc[1] = "lock" => action = "queued"
  /\ hpc[1] = "send" /\ action = "queued" => cli = "lock"

\* The entry holds the command accepted last, or while the prompt is about to
\* copy that one, the one before.
Copied ==
  /\ cli = "prompt" => command = Held(Len(accepted))
  /\ cli # "prompt" => /\ Len(accepted) > 0 /\ accepted[Len(accepted)] = typed
                       /\ command = Held(Len(accepted) - 1)

\* What was sent is at most one late.
Late == \A i \in 1..Len(sent) : sent[i] \in {accepted[i], Held(i - 1)}

\* The handler has not left its loop.
Running == {"start", "poll", "lock", "send", "recv", "wait"}

\* The inductive invariant.
EntryInv ==
  Undisturbed =>
    /\ hpc[1] = "no" => BeforeStart
    /\ hpc[1] # "no" => conns = 1 /\ Len(sent) <= Len(accepted) /\ Late
    /\ hpc[1] \in Running => Counted /\ Locked /\ InStep /\ Copied
PanelInv == TypeOK /\ HistoryOK /\ InOrder /\ EntryInv

LEMMA ConnsFacts ==
  /\ MaxConns \in Nat /\ 1 \in Conns /\ Conns \subseteq {1, 2} /\ Conns \subseteq Nat
  /\ MaxCmds \in Nat
  /\ \A k \in Conns : Holder[k] \in Threads
BY PanelAssumption DEF Conns, Holder, Threads

Steps == {"no", "start", "poll", "lock", "send", "recv", "wait", "close", "free",
          "unlock", "reset", "destroy", "gone", "abort"}

LEMMA ConnsTyped ==
  ASSUME TypeOK
  PROVE  conns \in 0..MaxConns /\ conns \in Nat /\ hpc \in [Conns -> Steps]
BY ConnsFacts DEF TypeOK, Steps

(* --- the type invariant ------------------------------------------------------ *)

\* The mutex keeps to its values, whatever is done to it.
MutexOK == /\ futex \in {0, 1, 2} /\ gone \in BOOLEAN
           /\ waits \in [Threads -> {"no", "asleep", "woken"}]

LEMMA MutexTyped ==
  ASSUME TypeOK, NEW t \in Threads, Lock(t) \/ Sleep(t) \/ Unlock \/ Destroy
  PROVE  MutexOK'
<1>1. MutexOK
  BY DEF TypeOK, MutexOK
<1>2. gone' \in BOOLEAN
  <2>1. CASE Destroy
    BY <1>1, <2>1, Zenon DEF Destroy, MutexOK
  <2>2. CASE gone' = gone
    BY <1>1, <2>2, Zenon DEF MutexOK
  <2> QED BY <2>1, <2>2 DEF Lock, Sleep, Unlock
<1>3. futex' \in {0, 1, 2}
  BY <1>1 DEF MutexOK, Lock, Sleep, Unlock, Destroy
<1>4. waits' \in [Threads -> {"no", "asleep", "woken"}]
  BY <1>1 DEF MutexOK, Lock, Sleep, Unlock, Destroy, Wake
<1> QED BY <1>2, <1>3, <1>4 DEF MutexOK

LEMMA PanelTypeStep == TypeOK /\ HistoryOK /\ [Next]_vars => TypeOK' /\ HistoryOK'
<1> SUFFICES ASSUME TypeOK, HistoryOK, [Next]_vars
             PROVE  TypeOK' /\ HistoryOK'
  OBVIOUS
<1> USE ConnsFacts
<1>1. CASE Accept
  <2>1. conns + 1 \in Conns /\ conns + 1 \in 0..MaxConns
    BY <1>1 DEF Accept, TypeOK, Conns
  <2>2. peer' \in [Conns -> BOOLEAN] /\ fd' \in [Conns -> BOOLEAN]
    BY <1>1, <2>1, Zenon DEF Accept, TypeOK
  <2> QED BY <1>1, <2>1, <2>2 DEF Accept, TypeOK, HistoryOK, mutex, handler, hist
<1>2. CASE SetSocket \/ SetAction \/ ClearCommand
  <2>1. CASE SetSocket
    BY <2>1 DEF SetSocket, TypeOK, HistoryOK, mutex, net, handler, hist
  <2>2. CASE SetAction
    BY <2>2 DEF SetAction, TypeOK, HistoryOK, mutex, net, handler, hist
  <2>3. CASE ClearCommand
    BY <2>3 DEF ClearCommand, TypeOK, HistoryOK, mutex, net, handler, hist
  <2> QED BY <1>2, <2>1, <2>2, <2>3
<1>3. CASE InitMutex
  BY <1>3 DEF InitMutex, TypeOK, HistoryOK, net, hist
<1>4. CASE Type
  <2>1. typed' \in 0..MaxCmds /\ typed' \in Nat
    BY <1>4 DEF Type, TypeOK
  <2>2. HistoryOK'
    BY <1>4, <2>1, AppendProperties DEF Type, HistoryOK
  <2>3. early' \in BOOLEAN
    BY <1>4, Zenon DEF Type, TypeOK
  <2> QED BY <1>4, <2>1, <2>2, <2>3 DEF Type, TypeOK, mutex, net, handler
<1>5. CASE SetQueued
  BY <1>5 DEF SetQueued, TypeOK, HistoryOK, mutex, net, handler, hist
<1>6. CASE CliLock \/ CopyCommand
  <2>1. MutexOK'
    <3>1. "cli" \in Threads
      BY DEF Threads
    <3> QED BY <1>6, <3>1, MutexTyped DEF CliLock, CopyCommand
  <2> QED BY <1>6, <2>1 DEF CliLock, CopyCommand, MutexOK, TypeOK, HistoryOK, net,
                            handler, hist
<1>7. ASSUME NEW k \in Conns,
             Start(k) \/ Poll(k) \/ SendFails(k) \/ RecvCall(k)
             \/ Free(k) \/ FreeTwice(k) \/ ExitReset(k)
      PROVE  TypeOK' /\ HistoryOK'
  <2>1. CASE Start(k)
    BY <2>1 DEF Start, TypeOK, HistoryOK, mutex, net, hist
  <2>2. CASE Poll(k)
    BY <2>2 DEF Poll, TypeOK, HistoryOK, mutex, net, hist
  <2>7. CASE SendFails(k)
    BY <2>7 DEF SendFails, TypeOK, HistoryOK, mutex, net, hist
  <2>3. CASE RecvCall(k)
    BY <2>3 DEF RecvCall, TypeOK, HistoryOK, mutex, net, hist
  <2>4. CASE Free(k)
    BY <2>4 DEF Free, TypeOK, HistoryOK, mutex, net, hist
  <2>6. CASE FreeTwice(k)
    <3>1. hpc' \in [Conns -> Steps]
      BY <2>6, ConnsTyped DEF FreeTwice, Steps
    <3> QED BY <2>6, <3>1 DEF FreeTwice, TypeOK, HistoryOK, mutex, net, hist, Steps
  <2>5. CASE ExitReset(k)
    BY <2>5 DEF ExitReset, TypeOK, HistoryOK, mutex, net, hist
  <2> QED BY <1>7, <2>1, <2>2, <2>3, <2>4, <2>5, <2>6, <2>7
<1>8. ASSUME NEW k \in Conns,
             HandlerSleeps(k) \/ Take(k) \/ ExitUnlock(k) \/ ExitDestroy(k)
      PROVE  TypeOK' /\ HistoryOK'
  <2>1. MutexOK'
    BY <1>8, MutexTyped DEF HandlerSleeps, Take, ExitUnlock, ExitDestroy
  <2>2. CASE Take(k)
    BY <2>1, <2>2 DEF Take, MutexOK, TypeOK, HistoryOK, net, hist
  <2>3. CASE ExitUnlock(k)
    BY <2>1, <2>3 DEF ExitUnlock, MutexOK, TypeOK, HistoryOK, net, hist
  <2>4. CASE ExitDestroy(k)
    BY <2>1, <2>4 DEF ExitDestroy, MutexOK, TypeOK, HistoryOK, net, hist
  <2>5. CASE HandlerSleeps(k)
    BY <2>1, <2>5 DEF HandlerSleeps, MutexOK, TypeOK, HistoryOK, net, handler, hist
  <2> QED BY <1>8, <2>2, <2>3, <2>4, <2>5
<1>9. ASSUME NEW k \in Conns, SendOk(k)
      PROVE  TypeOK' /\ HistoryOK'
  <2>1. MutexOK'
    BY <1>9, MutexTyped DEF SendOk
  <2>2. HistoryOK'
    <3>1. command \in Nat
      BY DEF TypeOK
    <3> QED BY <1>9, <3>1, AppendProperties DEF SendOk, HistoryOK
  <2>3. asked' \in [Conns -> Nat]
    <3>1. hsock[k] \in Conns
      BY <1>9 DEF SendOk, Open
    <3> QED BY <1>9, <3>1 DEF SendOk, TypeOK
  <2> QED BY <1>9, <2>1, <2>2, <2>3 DEF SendOk, MutexOK, TypeOK
<1>10. ASSUME NEW k \in Conns, Recv(k)
       PROVE  TypeOK' /\ HistoryOK'
  <2>1. answered' \in [Conns -> Nat]
    BY <1>10 DEF Recv, TypeOK
  <2>2. hpc' \in [Conns -> Steps]
    BY <1>10, ConnsTyped DEF Recv, Steps
  <2> QED BY <1>10, <2>1, <2>2 DEF Recv, TypeOK, HistoryOK, mutex, hist, Steps
<1>11. ASSUME NEW k \in Conns, Close(k)
       PROVE  TypeOK' /\ HistoryOK'
  <2>1. fd' \in [Conns -> BOOLEAN]
    BY <1>11, Zenon DEF Close, TypeOK
  <2> QED BY <1>11, <2>1 DEF Close, TypeOK, HistoryOK, mutex, hist
<1>12. ASSUME NEW k \in Conns, ClientReplies(k)
       PROVE  TypeOK' /\ HistoryOK'
  <2>1. asked' \in [Conns -> Nat] /\ answered' \in [Conns -> Nat]
    BY <1>12 DEF ClientReplies, TypeOK
  <2> QED BY <1>12, <2>1 DEF ClientReplies, TypeOK, HistoryOK, mutex, handler, hist
<1>13. ASSUME NEW k \in Conns, ClientGone(k)
       PROVE  TypeOK' /\ HistoryOK'
  <2>1. peer' \in [Conns -> BOOLEAN]
    BY <1>13, Zenon DEF ClientGone, TypeOK
  <2> QED BY <1>13, <2>1 DEF ClientGone, TypeOK, HistoryOK, mutex, handler, hist
<1>14. CASE UNCHANGED vars
  BY <1>14 DEF vars, TypeOK, HistoryOK
<1> QED
  BY <1>1, <1>2, <1>3, <1>4, <1>5, <1>6, <1>7, <1>8, <1>9, <1>10, <1>11, <1>12, <1>13,
     <1>14 DEF Next, AcceptThread, CliStep, Handler

LEMMA PanelTypeInit == Init => TypeOK /\ HistoryOK
<1> SUFFICES ASSUME Init PROVE TypeOK /\ HistoryOK
  OBVIOUS
<1>1. HistoryOK
  BY EmptySeq DEF Init, HistoryOK
<1>2. /\ peer \in [Conns -> BOOLEAN] /\ fd \in [Conns -> BOOLEAN]
      /\ early \in BOOLEAN /\ gone \in BOOLEAN
  BY DEF Init
<1> QED BY <1>1, <1>2, ConnsFacts DEF Init, TypeOK

\* The patch panel server's state keeps its shape in every run, for any number
\* of commands.
THEOREM PanelTypeCorrect == Spec => []TypeOK
BY PanelTypeInit, PanelTypeStep, PTL DEF Spec

(* --- the order of connections and handlers ------------------------------------ *)

LEMMA InOrderStep == TypeOK /\ InOrder /\ [Next]_vars => InOrder'
<1> SUFFICES ASSUME TypeOK, InOrder, [Next]_vars
             PROVE  InOrder'
  OBVIOUS
<1>0. conns \in 0..MaxConns /\ conns \in Nat /\ hpc \in [Conns -> Steps]
  BY ConnsTyped
<1> USE ConnsFacts
<1>1. CASE Accept
  <2>1. conns + 1 \in Conns
    BY <1>0, <1>1 DEF Accept, Conns
  <2> QED BY <1>0, <1>1, <2>1 DEF Accept, InOrder, handler
<1>2. CASE InitMutex
  <2>1. conns \in Conns
    BY <1>0, <1>2 DEF InitMutex, InOrder, Conns
  <2> QED BY <1>0, <1>2, <2>1 DEF InitMutex, InOrder, net
<1>3. CASE SetSocket \/ SetAction \/ ClearCommand
  BY <1>3 DEF SetSocket, SetAction, ClearCommand, InOrder, net, handler
<1>4. CASE Type \/ CliStep
  BY <1>4 DEF Type, CliStep, SetQueued, CliLock, CopyCommand, InOrder, net, handler
<1>5. ASSUME NEW k \in Conns, Handler(k)
      PROVE  InOrder'
  <2>1. hpc[k] # "no" /\ hpc'[k] # "no" /\ \A j \in Conns \ {k} : hpc'[j] = hpc[j]
    <3>1. CASE RecvCall(k) \/ Recv(k) \/ FreeTwice(k)
      BY <1>0, <3>1 DEF RecvCall, Recv, FreeTwice
    <3>2. CASE Start(k) \/ Poll(k) \/ HandlerSleeps(k) \/ Take(k)
      BY <1>0, <3>2 DEF Start, Poll, HandlerSleeps, handler, Take
    <3>3. CASE SendOk(k) \/ SendFails(k) \/ Close(k) \/ Free(k)
      BY <1>0, <3>3 DEF SendOk, SendFails, Close, Free
    <3>4. CASE ExitUnlock(k) \/ ExitReset(k) \/ ExitDestroy(k)
      BY <1>0, <3>4 DEF ExitUnlock, ExitReset, ExitDestroy
    <3> QED BY <1>5, <3>1, <3>2, <3>3, <3>4 DEF Handler
  <2>2. UNCHANGED <<accept, conns>>
    BY <1>5 DEF Handler, Start, Poll, HandlerSleeps, Take, SendOk, SendFails, RecvCall, Recv, Close, Free,
                FreeTwice, ExitUnlock, ExitReset, ExitDestroy, net
  <2>3. conns > 0 => conns \in Conns
    BY <1>0 DEF Conns
  <2> QED BY <1>0, <2>1, <2>2, <2>3 DEF InOrder
<1>6. ASSUME NEW k \in Conns, ClientReplies(k) \/ ClientGone(k)
      PROVE  InOrder'
  BY <1>6 DEF ClientReplies, ClientGone, InOrder, handler
<1>7. CASE UNCHANGED vars
  BY <1>7 DEF vars, InOrder
<1> QED BY <1>1, <1>2, <1>3, <1>4, <1>5, <1>6, <1>7 DEF Next, AcceptThread

\* An entry that is undisturbed was so before, and nobody but its handler is at it.
LEMMA WasUndisturbed ==
  ASSUME TypeOK, InOrder, [Next]_vars, Undisturbed'
  PROVE  /\ Undisturbed
         /\ \A k \in Conns : hpc[k] # "no" => k = 1 /\ conns = 1
<1>0. conns \in 0..MaxConns /\ conns \in Nat
  BY ConnsTyped
<1>4. Undisturbed
  <2>1. CASE Accept
    BY <1>0, <2>1 DEF Accept, Undisturbed, hist
  <2>2. CASE Type
    BY <1>0, <2>2 DEF Type, Undisturbed, net
  <2>3. CASE ~Accept /\ ~Type
    <3>1. conns' = conns /\ early' = early
      BY <2>3 DEF Next, AcceptThread, SetSocket, SetAction, ClearCommand, InitMutex,
         CliStep, SetQueued, CliLock, CopyCommand, Handler, Start, Poll, HandlerSleeps,
         Take, SendOk, SendFails, RecvCall, Recv, Close, Free, FreeTwice, ExitUnlock,
         ExitReset, ExitDestroy, ClientReplies, ClientGone, vars, net, hist
    <3> QED BY <3>1 DEF Undisturbed
  <2> QED BY <2>1, <2>2, <2>3
<1>5. ASSUME NEW k \in Conns, hpc[k] # "no"
      PROVE  k = 1 /\ conns = 1
  <2>1. ~(k > conns) /\ conns <= 1 /\ k \in {1, 2}
    BY <1>4, <1>5, ConnsFacts DEF InOrder, Undisturbed
  <2> QED BY <1>0, <2>1
<1> QED BY <1>4, <1>5

(* --- the entry ------------------------------------------------------------------ *)

\* connection_handler works on the entry before its handler starts.
LEMMA AcceptStep ==
  ASSUME PanelInv, AcceptThread, Undisturbed', Undisturbed, [Next]_vars
  PROVE  EntryInv'
<1>0. /\ conns \in 0..MaxConns /\ conns \in Nat /\ hpc \in [Conns -> Steps]
      /\ 1 \in Conns /\ UNCHANGED <<cli, accepted, sent>>
  <2>1. UNCHANGED <<cli, accepted, sent>>
    BY DEF AcceptThread, Accept, SetSocket, SetAction, ClearCommand, InitMutex, hist
  <2> QED BY <2>1, ConnsTyped, ConnsFacts DEF PanelInv
<1>1. hpc[1] = "no"
  <2>1. CASE Accept
    <3>1. conns = 0
      BY <1>0, <2>1 DEF Accept, Undisturbed
    <3> QED BY <1>0, <3>1 DEF PanelInv, InOrder
  <2>2. CASE ~Accept
    <3>1. accept # "accept"
      BY <2>2 DEF AcceptThread, SetSocket, SetAction, ClearCommand, InitMutex
    <3>2. conns = 1 /\ hpc[conns] = "no"
      BY <1>0, <3>1 DEF PanelInv, InOrder, Undisturbed
    <3> QED BY <3>2
  <2> QED BY <2>1, <2>2
<1>2. BeforeStart
  BY <1>1 DEF PanelInv, EntryInv
<1>3. CASE InitMutex
  <2>1. conns = 1
    BY <1>0, <1>3 DEF InitMutex, PanelInv, InOrder, Undisturbed
  <2>2. /\ hpc'[1] = "start" /\ futex' = 0 /\ ~gone' /\ conns' = 1
        /\ UNCHANGED <<action, command>>
    BY <1>0, <1>3, <2>1 DEF InitMutex, net
  <2>3. Len(accepted') = 0 /\ Len(sent') = 0
    BY <1>0, <1>2, EmptySeq, LenProperties DEF BeforeStart
  <2>4. Counted' /\ Late'
    BY <1>0, <1>2, <2>2, <2>3 DEF BeforeStart, Counted, Late
  <2>5. Locked' /\ InStep' /\ Copied'
    BY <1>0, <1>2, <2>2, <2>3 DEF BeforeStart, Locked, InStep, Copied, Held
  <2> QED BY <2>2, <2>3, <2>4, <2>5 DEF EntryInv, Running
<1>4. CASE ~InitMutex
  <2>1. hpc' = hpc /\ UNCHANGED <<futex, gone>>
    BY <1>4 DEF AcceptThread, Accept, SetSocket, SetAction, ClearCommand, mutex, handler
  <2>2. command' = 0 /\ action' # "queued"
    BY <1>2, <1>4 DEF BeforeStart, AcceptThread, Accept, SetSocket, SetAction,
                      ClearCommand
  <2>3. BeforeStart' /\ hpc'[1] = "no"
    BY <1>0, <1>1, <1>2, <2>1, <2>2 DEF BeforeStart
  <2> QED BY <2>3 DEF EntryInv, Running
<1> QED BY <1>3, <1>4

\* A line is typed: it is accepted after those before it.
LEMMA TypeStep ==
  ASSUME PanelInv, Type, Undisturbed', Undisturbed
  PROVE  EntryInv'
<1>0. /\ UNCHANGED <<action, command, futex, gone, hpc, sent, conns>>
      /\ cli = "prompt" /\ typed \in Nat
  BY DEF Type, mutex, net, handler, PanelInv, TypeOK
<1>1. hpc[1] # "no" /\ conns = 1
  <2>1. Started
    BY DEF Type, Undisturbed
  <2>2. conns = 1
    BY <2>1 DEF Started, Undisturbed, PanelInv, TypeOK
  <2> QED BY <2>1, <2>2 DEF Started
<1>2. /\ accepted \in Seq(Nat) /\ sent \in Seq(Nat) /\ Len(sent) <= Len(accepted) /\ Late
      /\ Len(accepted) \in Nat /\ Len(sent) \in Nat
  BY <1>1, LenProperties DEF PanelInv, HistoryOK, EntryInv
<1>3. CASE action # "ready"
  <2>1. cli' = cli /\ accepted' = accepted
    BY <1>0, <1>3 DEF Type
  <2> QED BY <1>0, <1>1, <1>2, <2>1
          DEF PanelInv, EntryInv, Late, Held, Counted, Locked, InStep, Copied
<1>4. CASE action = "ready"
  <2>1. cli' = "set" /\ accepted' = Append(accepted, typed') /\ typed' \in Nat
    BY <1>0, <1>4 DEF Type
  <2>2. /\ Len(accepted') = Len(accepted) + 1
        /\ \A i \in 1..Len(accepted) : accepted'[i] = accepted[i]
        /\ accepted'[Len(accepted) + 1] = typed'
    BY <1>2, <2>1, AppendProperties
  <2>3. Late'
    <3> SUFFICES ASSUME NEW i \in 1..Len(sent)
                 PROVE  sent[i] \in {accepted'[i], Held(i - 1)'}
      BY <1>0 DEF Late
    <3>1. i \in 1..Len(accepted) /\ (i - 1 = 0 \/ i - 1 \in 1..Len(accepted))
      BY <1>2
    <3>2. accepted'[i] = accepted[i] /\ Held(i - 1)' = Held(i - 1)
      BY <2>2, <3>1 DEF Held
    <3> QED BY <1>2, <3>2 DEF Late
  <2>4. ASSUME hpc[1] \in Running
        PROVE  Counted' /\ Locked' /\ InStep' /\ Copied'
    <3>1. Counted /\ Locked /\ InStep /\ Copied
      BY <2>4 DEF PanelInv, EntryInv
    <3>2. Counted'
      BY <1>0, <1>2, <1>4, <2>1, <2>2, <3>1 DEF Counted
    <3>3. Locked' /\ InStep'
      BY <1>0, <1>4, <2>1, <3>1 DEF Locked, InStep
    <3>4. Copied'
      BY <1>0, <1>2, <2>1, <2>2, <3>1 DEF Copied, Held
    <3> QED BY <3>2, <3>3, <3>4
  <2> QED BY <1>0, <1>1, <1>2, <2>2, <2>3, <2>4 DEF EntryInv
<1> QED BY <1>3, <1>4

\* The prompt sets action, locks, copies and unlocks.
LEMMA PromptStep ==
  ASSUME PanelInv, CliStep, Undisturbed', Undisturbed
  PROVE  EntryInv'
<1>0. UNCHANGED <<hpc, accepted, sent, conns, typed>> /\ cli # "prompt"
  BY DEF CliStep, SetQueued, CliLock, CopyCommand, net, handler, hist
<1>1. /\ hpc[1] # "no" /\ conns = 1 /\ Len(sent) <= Len(accepted) /\ Late
  BY <1>0 DEF PanelInv, EntryInv, BeforeStart
<1>2. Late'
  BY <1>0, <1>1 DEF Late, Held
<1>3. ASSUME hpc[1] \in Running
      PROVE  Counted' /\ Locked' /\ InStep' /\ Copied'
  <2>1. Counted /\ Locked /\ InStep /\ Copied
    BY <1>3 DEF PanelInv, EntryInv
  <2>2. CASE SetQueued
    <3>1. /\ cli = "set" /\ cli' = "lock" /\ action' = "queued"
          /\ UNCHANGED <<command, futex, gone>>
      BY <2>2 DEF SetQueued, mutex
    <3>2. Counted'
      BY <1>0, <2>1, <3>1 DEF Counted
    <3> QED BY <1>0, <2>1, <3>1, <3>2 DEF Locked, InStep, Copied, Held
  <2>3. CASE CliLock /\ Lock("cli")
    <3>1. /\ cli = "lock" /\ futex = 0 /\ futex' # 0 /\ gone' = gone
          /\ UNCHANGED <<action, command>>
      BY <2>1, <2>3 DEF CliLock, Lock, Locked
    <3>2. cli' = "copy"
      BY <2>3, <3>1 DEF CliLock, Sleep
    <3>3. Counted'
      BY <1>0, <2>1, <3>1, <3>2 DEF Counted
    <3> QED BY <1>0, <2>1, <3>1, <3>2, <3>3 DEF Locked, InStep, Copied, Held
  <2>5. CASE CliLock /\ Sleep("cli")
    <3>1. /\ cli = "lock" /\ futex # 0 /\ futex' # 0 /\ gone' = gone
          /\ UNCHANGED <<action, command>>
      BY <2>5 DEF CliLock, Sleep
    <3>2. cli' = cli
      <4>1. ~Lock("cli")
        BY <2>1, <3>1 DEF Lock, Locked
      <4> QED BY <2>5, <4>1 DEF CliLock
    <3>3. Counted'
      BY <1>0, <2>1, <3>1, <3>2 DEF Counted
    <3> QED BY <1>0, <2>1, <3>1, <3>2, <3>3 DEF Locked, InStep, Copied, Held
  <2>4. CASE CopyCommand
    <3>1. /\ cli = "copy" /\ cli' = "prompt" /\ futex' = 0 /\ gone' = gone
          /\ command' = typed /\ action' = action
      BY <2>1, <2>4 DEF CopyCommand, Unlock, Locked
    <3>2. Counted'
      BY <1>0, <2>1, <3>1 DEF Counted
    <3>3. Copied'
      BY <1>0, <2>1, <3>1 DEF Copied, Held
    <3> QED BY <1>0, <2>1, <3>1, <3>2, <3>3 DEF Locked, InStep
  <2> QED BY <2>2, <2>3, <2>4, <2>5 DEF CliStep, CliLock
<1> QED BY <1>0, <1>1, <1>2, <1>3 DEF EntryInv

\* The handler of the only connection: it takes the command under the mutex and
\* sends what the entry holds.
LEMMA HandlerStep ==
  ASSUME PanelInv, Handler(1), Undisturbed', Undisturbed, conns = 1
  PROVE  EntryInv'
<1>0. /\ hpc \in [Conns -> Steps] /\ 1 \in Conns /\ hpc[1] # "no"
      /\ UNCHANGED <<cli, typed, accepted, conns>>
  <2>1. hpc[1] # "no"
    BY DEF Handler, Start, Poll, HandlerSleeps, Take, SendOk, SendFails, RecvCall, Recv, Close, Free,
           FreeTwice, ExitUnlock, ExitReset, ExitDestroy
  <2>2. UNCHANGED <<cli, typed, accepted, conns>>
    BY DEF Handler, Start, Poll, HandlerSleeps, Take, SendOk, SendFails, RecvCall, Recv, Close, Free,
           FreeTwice, ExitUnlock, ExitReset, ExitDestroy, net, hist
  <2> QED BY <2>1, <2>2, ConnsTyped, ConnsFacts DEF PanelInv
<1>1. /\ accepted \in Seq(Nat) /\ sent \in Seq(Nat) /\ Len(sent) <= Len(accepted) /\ Late
      /\ Len(accepted) \in Nat /\ Len(sent) \in Nat
  BY <1>0, LenProperties DEF PanelInv, HistoryOK, EntryInv
<1>2. hpc[1] \in Running => Counted /\ Locked /\ InStep /\ Copied
  BY DEF PanelInv, EntryInv
<1>3. sent' = sent => Late' /\ Len(sent') <= Len(accepted')
  BY <1>0, <1>1 DEF Late, Held
<1>4. CASE Start(1) \/ Poll(1) \/ HandlerSleeps(1)
  <2>1. /\ hpc[1] \in {"start", "poll", "lock"} /\ hpc'[1] \in {"poll", "lock"}
        /\ hpc'[1] = "lock" => action = "queued"
        /\ UNCHANGED <<action, command, gone, sent>>
        /\ futex' # 0 <=> futex # 0
    <3>1. CASE Start(1) \/ Poll(1)
      BY <1>0, <3>1 DEF Start, Poll, mutex, hist
    <3>2. CASE HandlerSleeps(1)
      BY <1>0, <1>2, <3>2 DEF HandlerSleeps, Sleep, handler, hist, InStep, Running
    <3> QED BY <1>4, <3>1, <3>2
  <2>2. Counted /\ Locked /\ InStep /\ Copied
    BY <1>2, <2>1 DEF Running
  <2>3. Counted' /\ Locked'
    BY <1>0, <2>1, <2>2 DEF Counted, Locked
  <2>4. InStep' /\ Copied'
    BY <1>0, <2>1, <2>2 DEF InStep, Copied, Held
  <2> QED BY <1>0, <1>3, <2>1, <2>3, <2>4 DEF EntryInv
<1>5. CASE Take(1)
  <2>1. /\ hpc[1] = "lock" /\ hpc'[1] = "send" /\ action = "queued" /\ action' = "ready"
        /\ futex = 0 /\ futex' # 0 /\ ~gone' /\ cli \notin {"set", "copy"}
        /\ UNCHANGED <<command, sent>>
    BY <1>0, <1>2, <1>5 DEF Take, Lock, hist, Locked, InStep, Running
  <2>2. Counted'
    BY <1>0, <1>1, <1>2, <2>1 DEF Counted, Running
  <2>3. Locked' /\ InStep'
    BY <1>0, <2>1 DEF Locked, InStep
  <2>4. Copied'
    BY <1>0, <1>2, <2>1 DEF Copied, Held, Running
  <2> QED BY <1>0, <1>3, <2>1, <2>2, <2>3, <2>4 DEF EntryInv
<1>6. CASE SendOk(1)
  <2>1. /\ hpc[1] = "send" /\ hpc'[1] = "recv" /\ sent' = Append(sent, command)
        /\ futex' = 0 /\ ~gone' /\ UNCHANGED <<action, command>>
        /\ cli \in {"prompt", "set", "lock"}
    BY <1>0, <1>2, <1>6 DEF SendOk, Unlock, Locked, PanelInv, TypeOK, Running
  <2>2. Counted /\ InStep /\ Copied /\ command \in Nat
    BY <1>2, <2>1 DEF PanelInv, TypeOK, Running
  <2>3. /\ Len(sent') = Len(sent) + 1
        /\ \A i \in 1..Len(sent) : sent'[i] = sent[i]
        /\ sent'[Len(sent) + 1] = command
    BY <1>1, <2>1, <2>2, AppendProperties
  <2>4. Len(accepted) >= Len(sent) + 1
    BY <1>1, <2>1, <2>2 DEF Counted
  <2>5. command \in {accepted[Len(sent) + 1], Held(Len(sent))}
    <3>1. CASE cli = "prompt"
      BY <1>1, <2>1, <2>2, <3>1 DEF Counted, InStep, Copied, Held
    <3>2. CASE cli = "set"
      BY <1>1, <2>1, <2>2, <3>2 DEF Counted, InStep, Copied, Held
    <3>3. CASE cli = "lock"
      BY <1>1, <2>1, <2>2, <3>3 DEF Counted, InStep, Copied, Held
    <3> QED BY <2>1, <3>1, <3>2, <3>3
  <2>6. Late'
    <3> SUFFICES ASSUME NEW i \in 1..Len(sent')
                 PROVE  sent'[i] \in {accepted[i], Held(i - 1)}
      BY <1>0 DEF Late, Held
    <3>1. CASE i = Len(sent) + 1
      <4>1. i - 1 = Len(sent)
        BY <1>1, <3>1
      <4> QED BY <2>3, <2>5, <3>1, <4>1
    <3>2. CASE i # Len(sent) + 1
      <4>1. i \in 1..Len(sent)
        BY <1>1, <2>3, <3>2
      <4> QED BY <1>1, <2>3, <4>1 DEF Late
    <3> QED BY <3>1, <3>2
  <2>7. Counted'
    BY <1>0, <1>1, <2>1, <2>2, <2>3 DEF Counted
  <2>8. Locked' /\ InStep'
    BY <1>0, <2>1, <2>2 DEF Locked, InStep
  <2>9. Copied'
    BY <1>0, <2>1, <2>2 DEF Copied, Held
  <2> QED BY <1>0, <1>1, <2>1, <2>3, <2>4, <2>6, <2>7, <2>8, <2>9 DEF EntryInv
<1>7. CASE RecvCall(1) \/ Recv(1)
  <2>1. /\ hpc[1] \in {"recv", "wait"} /\ hpc'[1] \in {"wait", "poll", "close"}
        /\ UNCHANGED <<action, command, futex, gone, sent>>
    BY <1>0, <1>7 DEF RecvCall, Recv, mutex, hist
  <2>2. Counted /\ Locked /\ InStep /\ Copied
    BY <1>2, <2>1 DEF Running
  <2>3. Counted' /\ Locked'
    BY <1>0, <2>1, <2>2 DEF Counted, Locked
  <2>4. InStep' /\ Copied'
    BY <1>0, <2>1, <2>2 DEF InStep, Copied, Held
  <2> QED BY <1>0, <1>3, <2>1, <2>3, <2>4 DEF EntryInv
<1>8. CASE SendFails(1) \/ Close(1) \/ Free(1) \/ FreeTwice(1)
  <2>1. hpc'[1] \in {"close", "free", "unlock", "abort"} /\ sent' = sent
    BY <1>0, <1>8 DEF SendFails, Close, Free, FreeTwice, hist
  <2> QED BY <1>0, <1>3, <2>1 DEF EntryInv, Running
<1>9. CASE ExitUnlock(1) \/ ExitReset(1) \/ ExitDestroy(1)
  <2>1. hpc'[1] \in {"reset", "destroy", "gone"} /\ sent' = sent
    BY <1>0, <1>9 DEF ExitUnlock, ExitReset, ExitDestroy, hist
  <2> QED BY <1>0, <1>3, <2>1 DEF EntryInv, Running
<1> QED BY <1>4, <1>5, <1>6, <1>7, <1>8, <1>9 DEF Handler

\* A step that leaves the entry, the prompt, the handlers and the histories alone.
LEMMA ElsewhereStep ==
  ASSUME PanelInv, UNCHANGED <<action, command, futex, gone, cli, typed, conns, hpc, hist>>
  PROVE  EntryInv'
<1>1. UNCHANGED <<accepted, sent, early>>
  BY DEF hist
<1>2. (Undisturbed' <=> Undisturbed) /\ (BeforeStart' <=> BeforeStart) /\ (Late' <=> Late)
  BY <1>1 DEF Undisturbed, BeforeStart, Late, Held
<1>3. (Counted' <=> Counted) /\ (Locked' <=> Locked) /\ (InStep' <=> InStep)
  BY <1>1 DEF Counted, Locked, InStep
<1>4. Copied' <=> Copied
  BY <1>1 DEF Copied, Held
<1> QED BY <1>1, <1>2, <1>3, <1>4 DEF PanelInv, EntryInv

LEMMA PanelStep == PanelInv /\ [Next]_vars => PanelInv'
<1> SUFFICES ASSUME PanelInv, [Next]_vars
             PROVE  EntryInv'
  BY PanelTypeStep, InOrderStep DEF PanelInv
<1> SUFFICES ASSUME Undisturbed'
             PROVE  EntryInv'
  BY DEF EntryInv
<1>1. Undisturbed /\ \A k \in Conns : hpc[k] # "no" => k = 1 /\ conns = 1
  BY WasUndisturbed DEF PanelInv
<1>2. CASE AcceptThread
  BY <1>1, <1>2, AcceptStep
<1>3. CASE Type
  BY <1>1, <1>3, TypeStep
<1>4. CASE CliStep
  BY <1>1, <1>4, PromptStep
<1>5. ASSUME NEW k \in Conns, Handler(k)
      PROVE  EntryInv'
  <2>1. hpc[k] # "no"
    BY <1>5 DEF Handler, Start, Poll, HandlerSleeps, Take, SendOk, SendFails, RecvCall, Recv, Close, Free,
                FreeTwice, ExitUnlock, ExitReset, ExitDestroy
  <2>2. Handler(1) /\ conns = 1
    BY <1>1, <1>5, <2>1
  <2> QED BY <1>1, <2>2, HandlerStep
<1>6. ASSUME NEW k \in Conns, ClientReplies(k) \/ ClientGone(k)
      PROVE  EntryInv'
  <2>1. UNCHANGED <<action, command, futex, gone, cli, typed, conns, hpc, hist>>
    BY <1>6 DEF ClientReplies, ClientGone, mutex, handler
  <2> QED BY <2>1, ElsewhereStep
<1>7. CASE UNCHANGED vars
  <2>1. UNCHANGED <<action, command, futex, gone, cli, typed, conns, hpc, hist>>
    BY <1>7 DEF vars, hist
  <2> QED BY <2>1, ElsewhereStep
<1> QED BY <1>2, <1>3, <1>4, <1>5, <1>6, <1>7 DEF Next

LEMMA PanelInit == Init => PanelInv
<1> SUFFICES ASSUME Init PROVE PanelInv
  OBVIOUS
<1>1. TypeOK /\ HistoryOK
  BY PanelTypeInit
<1>2. InOrder
  BY ConnsFacts DEF Init, InOrder
<1>3. EntryInv
  BY ConnsFacts DEF Init, EntryInv, BeforeStart, Running
<1> QED BY <1>1, <1>2, <1>3 DEF PanelInv

\* The invariant says what the client was sent.
LEMMA PanelInvMeans == PanelInv => OneMessageEach /\ AtMostOneLate
<1> SUFFICES ASSUME PanelInv, Undisturbed
             PROVE  /\ Len(sent) <= Len(accepted)
                    /\ (\E k \in Conns : peer[k] /\ hpc[k] \in {"poll", "recv", "wait"}) /\ ~UnderWay
                         => Len(sent) = Len(accepted)
                    /\ Late
  BY DEF OneMessageEach, AtMostOneLate, Late, Held
<1>1. /\ conns \in Nat /\ conns <= 1 /\ Conns \subseteq {1, 2} /\ 1 \in Conns
      /\ Len(sent) \in Nat /\ Len(accepted) \in Nat
  BY ConnsTyped, ConnsFacts, LenProperties DEF PanelInv, HistoryOK, Undisturbed
<1>2. Len(sent) <= Len(accepted) /\ Late
  <2>1. CASE hpc[1] = "no"
    <3>1. Len(sent) = 0
      BY <2>1, EmptySeq, LenProperties DEF PanelInv, EntryInv, BeforeStart
    <3> QED BY <1>1, <3>1 DEF Late
  <2>2. CASE hpc[1] # "no"
    BY <2>2 DEF PanelInv, EntryInv
  <2> QED BY <2>1, <2>2
<1>3. ASSUME NEW k \in Conns, hpc[k] \in {"poll", "recv", "wait"}, ~UnderWay
      PROVE  Len(sent) = Len(accepted)
  <2>1. k = 1
    BY <1>1, <1>3 DEF PanelInv, InOrder
  <2>2. Counted
    BY <1>3, <2>1 DEF PanelInv, EntryInv, Running
  <2>3. cli # "set" /\ action # "queued" /\ hpc[1] # "send"
    BY <1>1, <1>3 DEF UnderWay
  <2> QED BY <1>1, <2>2, <2>3 DEF Counted
<1> QED BY <1>2, <1>3

\* On an entry whose client connected once, and at which nothing was typed before
\* its handler had started, the client gets one message per accepted command:
\* the unlocked test and store of action neither double nor lose one.
THEOREM PanelOneMessageEach == Spec => []OneMessageEach
BY PanelInit, PanelStep, PanelInvMeans, PTL DEF Spec

\* On such an entry each message is the command accepted in its place or the one
\* accepted just before it, although action is set before command is copied.
THEOREM PanelAtMostOneLate == Spec => []AtMostOneLate
BY PanelInit, PanelStep, PanelInvMeans, PTL DEF Spec
=============================================================================
