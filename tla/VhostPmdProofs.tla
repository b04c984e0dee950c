--------------------------- MODULE VhostPmdProofs ---------------------------
(* Proofs about VhostPmd, for any number of queues and any set of guests:     *)
(* its type invariant and PublishedIsBound for every store buffer depth, and, *)
(* when stores are visible at once, that destroy_device never gives a device  *)
(* back while a burst still uses it.                                          *)
EXTENDS VhostPmd, SequenceTheorems, TLAPS

\* The three kinds of store are well formed.
LEMMA WritesTyped ==
  /\ \A q \in Queues, v \in {0, 1} : Flag(q, v) \in Writes
  /\ \A v \in {0, 1} : Xfer(v) \in Writes
  /\ \A q \in Queues, d \in Devs \cup {NULL} : Device(q, d) \in Writes
BY DEF Writes, Flag, Xfer, Device

\* The state that Store and Drain change.
MemOK == /\ xfer \in {0, 1}
         /\ executing \in [Queues -> {0, 1}]
         /\ device \in [Queues -> Devs \cup {NULL}]
         /\ sb \in [Threads -> Seq(Writes)]

\* A well-formed store that reaches memory keeps memory well formed.
LEMMA CommitTyped ==
  ASSUME MemOK, NEW w \in Writes, Commit(w)
  PROVE  /\ xfer' \in {0, 1}
         /\ executing' \in [Queues -> {0, 1}]
         /\ device' \in [Queues -> Devs \cup {NULL}]
<1>1. CASE w.loc = "executing"
  BY <1>1 DEF MemOK, Commit, Writes
<1>2. CASE w.loc = "xfer"
  BY <1>2 DEF MemOK, Commit, Writes
<1>3. CASE w.loc = "device"
  BY <1>3 DEF MemOK, Commit, Writes
<1> QED BY <1>1, <1>2, <1>3 DEF Writes

\* Executing a store keeps memory and buffers well formed, buffered or not.
LEMMA StoreTyped ==
  ASSUME MemOK, NEW t \in Threads, NEW w \in Writes, Store(t, w)
  PROVE  MemOK'
<1>1. CASE Commit(w) /\ UNCHANGED sb
  BY <1>1, CommitTyped DEF MemOK
<1>2. CASE sb' = [sb EXCEPT ![t] = Append(@, w)] /\ UNCHANGED memVars
  <2>1. sb[t] \in Seq(Writes)
    BY DEF MemOK
  <2>2. Append(sb[t], w) \in Seq(Writes)
    BY <2>1, AppendProperties
  <2> QED BY <1>2, <2>2 DEF MemOK, memVars
<1> QED BY <1>1, <1>2 DEF Store

\* So does a buffered store that drains.
LEMMA DrainTyped ==
  ASSUME MemOK, NEW t \in Threads, Drain(t)
  PROVE  MemOK'
<1>1. sb[t] \in Seq(Writes) /\ sb[t] # <<>>
  BY DEF MemOK, Drain
<1>2. Head(sb[t]) \in Writes /\ Tail(sb[t]) \in Seq(Writes)
  BY <1>1, HeadTailProperties
<1>3. sb' \in [Threads -> Seq(Writes)]
  BY <1>2 DEF MemOK, Drain
<1>4. Commit(Head(sb[t]))
  BY DEF Drain
<1> QED BY <1>2, <1>3, <1>4, CommitTyped DEF MemOK

\* The rest of the state.
CtlOK == /\ internal \in [Queues -> BOOLEAN]
         /\ link \in {0, 1}
         /\ running \subseteq Devs
         /\ mapped \subseteq Devs
         /\ pc \in [Queues -> LcorePc]
         /\ hold \in [Queues -> Devs \cup {NULL}]
         /\ spc \in {"idle", "bind", "wait", "unbind"}
         /\ sdev \in Devs \cup {NULL}
         /\ spc # "idle" => sdev \in Devs
         /\ si \in 1..(N + 1)
         /\ depth \in Depths

LEMMA NNat == N \in Nat /\ Queues \subseteq Threads /\ 0 \in Threads
BY VhostAssumption DEF N, Queues, Threads

\* Every step of the driver keeps the state's shape.
LEMMA TypeStep == TypeOK /\ [Next]_vars => TypeOK'
<1> SUFFICES ASSUME TypeOK, [Next]_vars
             PROVE  TypeOK'
  OBVIOUS
<1>0. MemOK /\ CtlOK
  BY DEF TypeOK, MemOK, CtlOK
<1>q. SUFFICES MemOK' /\ CtlOK'
  BY DEF TypeOK, MemOK, CtlOK
<1>1. ASSUME NEW q \in Queues, Enter(q) \/ Recheck(q) \/ Load(q) \/ Burst(q)
      PROVE  MemOK' /\ CtlOK'
  BY <1>0, <1>1 DEF MemOK, CtlOK, memVars, Enter, Recheck, Load, Burst, LcorePc
<1>2. ASSUME NEW q \in Queues, Mark(q) \/ Clear(q)
      PROVE  MemOK' /\ CtlOK'
  <2>1. MemOK'
    BY <1>0, <1>2, StoreTyped, WritesTyped, NNat DEF Mark, Clear
  <2>2. CtlOK'
    BY <1>0, <1>2 DEF CtlOK, Mark, Clear, LcorePc
  <2> QED BY <2>1, <2>2
<1>3. ASSUME NEW d \in Devs, NewDevice(d)
      PROVE  MemOK' /\ CtlOK'
  BY <1>0, <1>3, NNat DEF MemOK, CtlOK, memVars, lcoreVars, NewDevice
<1>4. ASSUME NEW d \in Devs, DestroyDevice(d)
      PROVE  MemOK' /\ CtlOK'
  <2>1. MemOK'
    BY <1>0, <1>4, StoreTyped, WritesTyped, NNat DEF DestroyDevice
  <2>2. CtlOK'
    BY <1>0, <1>4, NNat DEF CtlOK, lcoreVars, DestroyDevice
  <2> QED BY <2>1, <2>2
<1>5. CASE BindQueue \/ UnbindQueue \/ Publish
  <2>1. MemOK'
    BY <1>0, <1>5, StoreTyped, WritesTyped, NNat
       DEF CtlOK, BindQueue, UnbindQueue, Publish
  <2>2. CASE BindQueue
    <3>1. si' \in 1..(N + 1)
      BY <1>0, <2>2, NNat DEF CtlOK, BindQueue, Queues
    <3>2. internal' \in [Queues -> BOOLEAN]
      BY <1>0, <2>2, Zenon DEF CtlOK, BindQueue
    <3> QED BY <1>0, <2>1, <2>2, <3>1, <3>2 DEF CtlOK, lcoreVars, BindQueue
  <2>3. CASE UnbindQueue
    <3>1. si' \in 1..(N + 1)
      BY <1>0, <2>3, NNat DEF CtlOK, UnbindQueue, Queues
    <3> QED BY <1>0, <2>1, <2>3, <3>1 DEF CtlOK, lcoreVars, UnbindQueue
  <2>4. CASE Publish
    BY <1>0, <2>1, <2>4, NNat DEF CtlOK, lcoreVars, Publish
  <2> QED BY <1>5, <2>2, <2>3, <2>4
<1>6. CASE WaitQueue \/ Detach \/ Unmap
  <2>1. MemOK'
    BY <1>0, <1>6 DEF MemOK, memVars, WaitQueue, Detach, Unmap
  <2>2. si' \in 1..(N + 1)
    BY <1>0, <1>6, NNat DEF CtlOK, WaitQueue, Detach, Unmap, Queues
  <2>3. CtlOK'
    BY <1>0, <1>6, <2>2 DEF CtlOK, lcoreVars, WaitQueue, Detach, Unmap
  <2> QED BY <2>1, <2>3
<1>7. ASSUME NEW t \in Threads, Drain(t)
      PROVE  MemOK' /\ CtlOK'
  BY <1>0, <1>7, DrainTyped DEF CtlOK, Drain
<1>8. CASE UNCHANGED vars
  BY <1>0, <1>8 DEF MemOK, CtlOK, vars
<1> QED
  BY <1>1, <1>2, <1>3, <1>4, <1>5, <1>6, <1>7, <1>8
     DEF Next, Lcore, Session, SessionStep

\* The driver's state keeps its shape in every run, for every number of
\* queues, set of guests and store buffer depth.
THEOREM VhostTypeCorrect == Spec => []TypeOK
<1>1. Init => TypeOK
  <2> SUFFICES ASSUME Init PROVE TypeOK
    OBVIOUS
  <2>1. <<>> \in Seq(Writes)
    BY EmptySeq
  <2> QED BY <2>1, NNat DEF Init, TypeOK, LcorePc
<1> QED BY <1>1, TypeStep, PTL DEF Spec

-----------------------------------------------------------------------------
(* Stores visible at once.                                                 *)

\* Without store buffers a store reaches memory in the step that executes it.
LEMMA DirectStore ==
  ASSUME depth = 0, TypeOK, NEW t \in Threads, NEW w, Store(t, w)
  PROVE  Commit(w)
<1>1. sb[t] \in Seq(Writes)
  BY DEF TypeOK
<1>2. ~(Len(sb[t]) < depth)
  BY <1>1, LenProperties
<1> QED BY <1>2 DEF Store

LEMMA DirectFlag ==
  ASSUME depth = 0, TypeOK, NEW t \in Threads, NEW q, NEW v, Store(t, Flag(q, v))
  PROVE  /\ executing' = [executing EXCEPT ![q] = v]
         /\ xfer' = xfer /\ device' = device
<1>1. Commit(Flag(q, v))
  BY DirectStore
<1> QED BY <1>1 DEF Commit, Flag

LEMMA DirectXfer ==
  ASSUME depth = 0, TypeOK, NEW t \in Threads, NEW v, Store(t, Xfer(v))
  PROVE  /\ xfer' = v
         /\ executing' = executing /\ device' = device
<1>1. Commit(Xfer(v))
  BY DirectStore
<1> QED BY <1>1 DEF Commit, Xfer

LEMMA DirectDevice ==
  ASSUME depth = 0, TypeOK, NEW t \in Threads, NEW q, NEW d, Store(t, Device(q, d))
  PROVE  /\ device' = [device EXCEPT ![q] = d]
         /\ xfer' = xfer /\ executing' = executing
<1>1. Commit(Device(q, d))
  BY DirectStore
<1> QED BY <1>1 DEF Commit, Device

\* The inductive invariant: the handshake, and nothing is ever buffered.
Unbuffered == \A t \in Threads : sb[t] = <<>>
SafeInv == TypeOK /\ Unbuffered /\ Handshake

\* With depth = 0 no store is ever buffered.
LEMMA UnbufferedStep ==
  ASSUME depth = 0, TypeOK, Unbuffered, [Next]_vars
  PROVE  Unbuffered'
<1>1. ASSUME NEW t \in Threads, NEW w, Store(t, w)
      PROVE  sb' = sb
  <2>1. ~(Len(sb[t]) < depth)
    BY LenProperties DEF TypeOK
  <2> QED BY <1>1, <2>1 DEF Store
<1>2. sb' = sb
  <2>1. ASSUME NEW q \in Queues, Lcore(q)
        PROVE  sb' = sb
    BY <1>1, <2>1, NNat DEF Lcore, Enter, Mark, Recheck, Load, Burst, Clear
  <2>2. CASE SessionStep
    BY <1>1, <2>2, NNat
       DEF SessionStep, BindQueue, Publish, WaitQueue, Detach, UnbindQueue, Unmap
  <2>3. ASSUME NEW d \in Devs, NewDevice(d) \/ DestroyDevice(d)
        PROVE  sb' = sb
    BY <1>1, <2>3, NNat DEF NewDevice, DestroyDevice
  <2>4. ASSUME NEW t \in Threads, Drain(t)
        PROVE  sb' = sb
    BY <2>4 DEF Drain, Unbuffered
  <2>5. CASE UNCHANGED vars
    BY <2>5 DEF vars
  <2> QED BY <2>1, <2>2, <2>3, <2>4, <2>5 DEF Next, Session
<1> QED BY <1>2 DEF Unbuffered

\* A step of an lcore keeps the handshake.
LEMMA LcoreHandshake ==
  ASSUME depth = 0, SafeInv, NEW q \in Queues, Lcore(q)
  PROVE  Handshake'
<1> USE NNat DEF SafeInv, Handshake, Marked, Gated, Loadable, Binding, Teardown,
               Attending, Kept, PublishedIsBound, NoUseAfterUnmap
<1>0. /\ pc \in [Queues -> LcorePc]
      /\ hold \in [Queues -> Devs \cup {NULL}]
      /\ executing \in [Queues -> {0, 1}]
      /\ xfer \in {0, 1}
  BY DEF TypeOK
<1>1. CASE Enter(q)
  BY <1>0, <1>1 DEF Enter, memVars
<1>2. CASE Mark(q)
  <2>1. executing' = [executing EXCEPT ![q] = 1] /\ xfer' = xfer /\ device' = device
    BY <1>2, DirectFlag DEF Mark
  <2> QED BY <1>0, <1>2, <2>1 DEF Mark
<1>3. CASE Recheck(q)
  BY <1>0, <1>3 DEF Recheck, memVars
<1>4. CASE Load(q)
  BY <1>0, <1>4 DEF Load, memVars
<1>5. CASE Burst(q)
  BY <1>0, <1>5 DEF Burst, memVars
<1>6. CASE Clear(q)
  <2>1. executing' = [executing EXCEPT ![q] = 0] /\ xfer' = xfer /\ device' = device
    BY <1>6, DirectFlag DEF Clear
  <2> QED BY <1>0, <1>6, <2>1 DEF Clear
<1> QED BY <1>1, <1>2, <1>3, <1>4, <1>5, <1>6 DEF Lcore

\* A step of the session thread keeps the handshake.
LEMMA SessionHandshake ==
  ASSUME depth = 0, SafeInv, Session
  PROVE  Handshake'
<1> USE NNat DEF SafeInv, Handshake, Marked, Gated, Loadable, Binding, Teardown,
               Attending, Kept, PublishedIsBound, NoUseAfterUnmap, lcoreVars
<1>0. /\ si \in 1..(N + 1)
      /\ executing \in [Queues -> {0, 1}]
      /\ device \in [Queues -> Devs \cup {NULL}]
      /\ xfer \in {0, 1}
      /\ Queues = 1..N
  BY DEF TypeOK, Queues
<1>1. ASSUME NEW d \in Devs, NewDevice(d)
      PROVE  Handshake'
  BY <1>0, <1>1 DEF NewDevice, memVars
<1>2. ASSUME NEW d \in Devs, DestroyDevice(d)
      PROVE  Handshake'
  <2>1. xfer' = 0 /\ executing' = executing /\ device' = device
    BY <1>2, DirectXfer DEF DestroyDevice
  <2>2. d \in mapped
    BY <1>2 DEF DestroyDevice
  <2> QED BY <1>0, <1>2, <2>1, <2>2 DEF DestroyDevice
<1>3. CASE BindQueue
  <2>1. device' = [device EXCEPT ![si] = sdev] /\ xfer' = xfer /\ executing' = executing
    BY <1>3, DirectDevice DEF BindQueue
  <2> QED BY <1>0, <1>3, <2>1 DEF BindQueue
<1>4. CASE Publish
  <2>1. xfer' = 1 /\ executing' = executing /\ device' = device
    BY <1>4, DirectXfer DEF Publish
  <2> QED BY <1>0, <1>4, <2>1 DEF Publish
<1>5. CASE WaitQueue
  BY <1>0, <1>5 DEF WaitQueue, memVars
<1>6. CASE Detach
  BY <1>0, <1>6 DEF Detach, memVars
<1>7. CASE UnbindQueue
  <2>1. device' = [device EXCEPT ![si] = NULL] /\ xfer' = xfer /\ executing' = executing
    BY <1>7, DirectDevice DEF UnbindQueue
  <2> QED BY <1>0, <1>7, <2>1 DEF UnbindQueue
<1>8. CASE Unmap
  BY <1>0, <1>8 DEF Unmap, memVars
<1> QED BY <1>1, <1>2, <1>3, <1>4, <1>5, <1>6, <1>7, <1>8 DEF Session, SessionStep

\* The capacity of the store buffers never changes.
LEMMA DepthFixed == [Next]_vars => depth' = depth
BY DEF Next, Lcore, Session, SessionStep, Enter, Mark, Recheck, Load, Burst, Clear,
       BindQueue, Publish, WaitQueue, Detach, UnbindQueue, Unmap, NewDevice,
       DestroyDevice, Drain, vars

\* rte_eth_vhost.c:392: on a machine whose stores are visible at once the
\* handshake between bursts and callbacks holds in every run, for any number of
\* queues and guests.
THEOREM VhostHandshake == Spec => []DirectHandshake
<1> DEFINE Inv == depth = 0 => Unbuffered /\ Handshake
<1>1. Init => Inv
  BY DEF Init, Unbuffered, Handshake, Marked, Gated, Loadable,
         Binding, Teardown, Attending, Kept, PublishedIsBound, NoUseAfterUnmap
<1>2. TypeOK /\ Inv /\ [Next]_vars => Inv'
  <2> SUFFICES ASSUME TypeOK, Inv, [Next]_vars, depth' = 0
               PROVE  Unbuffered' /\ Handshake'
    OBVIOUS
  <2>0. depth = 0 /\ SafeInv
    BY DepthFixed DEF SafeInv
  <2>1. Unbuffered'
    BY <2>0, UnbufferedStep DEF SafeInv
  <2>2. Handshake'
    <3>1. ASSUME NEW t \in Threads, Drain(t)
          PROVE  Handshake'
      BY <2>0, <3>1 DEF Drain, SafeInv, Unbuffered
    <3>2. CASE UNCHANGED vars
      BY <2>0, <3>2 DEF vars, SafeInv, Handshake, Marked, Gated, Loadable, Binding,
                  Teardown, Attending, Kept, PublishedIsBound, NoUseAfterUnmap
    <3> QED BY <2>0, <3>1, <3>2, LcoreHandshake, SessionHandshake DEF Next
  <2> QED BY <2>1, <2>2
<1>3. Inv => DirectHandshake
  BY DEF DirectHandshake
<1> QED BY <1>1, <1>2, <1>3, VhostTypeCorrect, PTL DEF Spec

\* So a burst never runs on a device that destroy_device has given back.
THEOREM VhostNoUseAfterUnmap == Spec => []DirectNoUseAfterUnmap
<1>1. DirectHandshake => DirectNoUseAfterUnmap
  BY DEF DirectHandshake, DirectNoUseAfterUnmap, Handshake
<1> QED BY <1>1, VhostHandshake, PTL
-----------------------------------------------------------------------------
(* Store buffers of any depth.                                             *)

\* A buffered store leaves its queue bound to a mapped device.
Safe(w) == w.loc = "device" => w.dev \in mapped
IsXfer(w, v) == w.loc = "xfer" /\ w.val = v

\* Of the session thread's buffer: past entry i xfer is lowered again, and
\* everything up to there is safe.
Lowered(i) == \E m \in 1..Len(sb[0]) :
                 /\ i < m /\ IsXfer(sb[0][m], 0)
                 /\ \A j \in 1..m : Safe(sb[0][j])

\* Queue q is bound to a mapped device once the first i entries are drained.
BoundAt(i, q) == \/ device[q] \in mapped
                 \/ \E m \in 1..Len(sb[0]) :
                      /\ m <= i /\ sb[0][m].loc = "device" /\ sb[0][m].at = q
                      /\ sb[0][m].dev \in mapped

\* The inductive invariant for any depth.  The lcores buffer only flags; the
\* session thread unbinds only in the last loop of destroy_device, behind a
\* store that lowers xfer; and every store that raises xfer is behind the
\* stores that bind the queues.
FlagsOnly == \A q \in Queues : \A i \in 1..Len(sb[q]) : sb[q][i].loc = "executing"
SafeUntil == spc # "unbind" => \A i \in 1..Len(sb[0]) : Safe(sb[0][i])
Lowering  == spc \in {"wait", "unbind"} =>
               /\ xfer = 1 => Lowered(0)
               /\ \A i \in 1..Len(sb[0]) : IsXfer(sb[0][i], 1) => Lowered(i)
RaisedLast == \A i \in 1..Len(sb[0]) :
                IsXfer(sb[0][i], 1) => \A q \in Queues : BoundAt(i, q)
BoundSoFar == spc = "bind" => \A q \in Queues : q < si => BoundAt(Len(sb[0]), q)
BufferInv == /\ FlagsOnly /\ SafeUntil /\ Lowering /\ RaisedLast /\ BoundSoFar
             /\ PublishedIsBound /\ Attending /\ Kept
             /\ depth = 0 => sb[0] = <<>>

LEMMA ThreadsApart == 0 \notin Queues
BY NNat DEF Queues

\* What a store of the session thread does: with no buffer it reaches memory,
\* otherwise it is the buffer's last entry.
LEMMA SessionStore ==
  ASSUME TypeOK, BufferInv, NEW w \in Writes, Store(0, w)
  PROVE  \/ /\ sb[0] = <<>> /\ Len(sb[0]) = 0
            /\ sb' = sb
            /\ Commit(w)
         \/ /\ UNCHANGED memVars
            /\ Len(sb[0]) \in Nat
            /\ Len(sb'[0]) = Len(sb[0]) + 1
            /\ \A i \in 1..Len(sb[0]) : sb'[0][i] = sb[0][i]
            /\ sb'[0][Len(sb[0]) + 1] = w
            /\ \A q \in Queues : sb'[q] = sb[q]
            /\ depth # 0
<1>1. CASE depth = 0 /\ Commit(w) /\ UNCHANGED sb
  BY <1>1, LenProperties, EmptySeq DEF BufferInv
<1>2. CASE Len(sb[0]) < depth /\ sb' = [sb EXCEPT ![0] = Append(@, w)] /\ UNCHANGED memVars
  <2>1. sb[0] \in Seq(Writes) /\ sb \in [Threads -> Seq(Writes)]
    BY NNat DEF TypeOK
  <2>2. sb'[0] = Append(sb[0], w) /\ \A q \in Queues : sb'[q] = sb[q]
    BY <1>2, <2>1, NNat, ThreadsApart
  <2>3. Len(sb[0]) \in Nat
    BY <2>1, LenProperties
  <2>4. /\ Len(Append(sb[0], w)) = Len(sb[0]) + 1
        /\ \A i \in 1..Len(sb[0]) : Append(sb[0], w)[i] = sb[0][i]
        /\ Append(sb[0], w)[Len(sb[0]) + 1] = w
    BY <2>1, AppendProperties
  <2>5. depth # 0
    BY <1>2, <2>3 DEF TypeOK
  <2> QED BY <1>2, <2>2, <2>3, <2>4, <2>5
<1> QED BY <1>1, <1>2 DEF Store

\* What draining the session thread's buffer does.
LEMMA SessionDrain ==
  ASSUME TypeOK, Drain(0)
  PROVE  /\ Len(sb[0]) \in Nat /\ 1 <= Len(sb[0])
         /\ Len(sb'[0]) = Len(sb[0]) - 1
         /\ \A i \in 1..(Len(sb[0]) - 1) : sb'[0][i] = sb[0][i + 1]
         /\ sb[0][1] \in Writes
         /\ Commit(sb[0][1])
         /\ \A q \in Queues : sb'[q] = sb[q]
<1>1. sb[0] \in Seq(Writes) /\ sb[0] # <<>> /\ sb \in [Threads -> Seq(Writes)]
  BY NNat DEF TypeOK, Drain
<1>2. sb'[0] = Tail(sb[0]) /\ \A q \in Queues : sb'[q] = sb[q]
  BY <1>1, NNat, ThreadsApart DEF Drain
<1>3. Head(sb[0]) = sb[0][1] /\ Head(sb[0]) \in Writes
  BY <1>1, HeadTailProperties
<1>4. /\ Len(sb[0]) \in Nat /\ 1 <= Len(sb[0])
      /\ Len(Tail(sb[0])) = Len(sb[0]) - 1
      /\ \A i \in 1..(Len(sb[0]) - 1) : Tail(sb[0])[i] = sb[0][i + 1]
  BY <1>1
<1> QED BY <1>2, <1>3, <1>4 DEF Drain

\* The buffers of the lcores hold flags: filling and draining them moves
\* neither xfer nor a device pointer.
LEMMA LcoreStore ==
  ASSUME TypeOK, BufferInv, NEW q \in Queues, NEW v \in {0, 1}, Store(q, Flag(q, v))
  PROVE  xfer' = xfer /\ device' = device /\ sb'[0] = sb[0] /\ FlagsOnly'
<1>0. sb \in [Threads -> Seq(Writes)] /\ q \in Threads /\ 0 \in Threads /\ q # 0
  BY NNat, ThreadsApart DEF TypeOK
<1>1. CASE Commit(Flag(q, v)) /\ UNCHANGED sb
  BY <1>1 DEF Commit, Flag, BufferInv, FlagsOnly
<1>2. CASE sb' = [sb EXCEPT ![q] = Append(@, Flag(q, v))] /\ UNCHANGED memVars
  <2>1. sb'[0] = sb[0] /\ sb'[q] = Append(sb[q], Flag(q, v))
        /\ \A p \in Queues : p # q => sb'[p] = sb[p]
    BY <1>0, <1>2, NNat
  <2>2. Flag(q, v) \in Writes
    BY WritesTyped
  <2>3. /\ Len(sb[q]) \in Nat
        /\ Len(Append(sb[q], Flag(q, v))) = Len(sb[q]) + 1
        /\ \A i \in 1..Len(sb[q]) : Append(sb[q], Flag(q, v))[i] = sb[q][i]
        /\ Append(sb[q], Flag(q, v))[Len(sb[q]) + 1] = Flag(q, v)
    BY <1>0, <2>2, AppendProperties, LenProperties
  <2>4. Flag(q, v).loc = "executing"
    BY DEF Flag
  <2>5. \A i \in 1..(Len(sb[q]) + 1) : sb'[q][i].loc = "executing"
    BY <2>1, <2>3, <2>4 DEF BufferInv, FlagsOnly
  <2> QED BY <1>2, <2>1, <2>3, <2>5 DEF BufferInv, FlagsOnly, memVars
<1> QED BY <1>1, <1>2 DEF Store

LEMMA LcoreDrain ==
  ASSUME TypeOK, BufferInv, NEW q \in Queues, Drain(q)
  PROVE  xfer' = xfer /\ device' = device /\ sb'[0] = sb[0] /\ FlagsOnly'
<1>0. sb \in [Threads -> Seq(Writes)] /\ q \in Threads /\ 0 \in Threads /\ q # 0
  BY NNat, ThreadsApart DEF TypeOK
<1>1. sb[q] \in Seq(Writes) /\ sb[q] # <<>>
  BY <1>0 DEF Drain
<1>2. sb'[0] = sb[0] /\ sb'[q] = Tail(sb[q])
      /\ \A p \in Queues : p # q => sb'[p] = sb[p]
  BY <1>0, NNat DEF Drain
<1>3. Head(sb[q]) = sb[q][1]
  BY <1>1, HeadTailProperties
<1>4. /\ Len(sb[q]) \in Nat /\ 1 <= Len(sb[q])
      /\ Len(Tail(sb[q])) = Len(sb[q]) - 1
      /\ \A i \in 1..(Len(sb[q]) - 1) : Tail(sb[q])[i] = sb[q][i + 1]
  BY <1>1
<1>5. sb[q][1].loc = "executing"
  BY <1>4 DEF BufferInv, FlagsOnly
<1>6. xfer' = xfer /\ device' = device
  BY <1>3, <1>5 DEF Drain, Commit
<1>7. \A i \in 1..(Len(sb[q]) - 1) : sb'[q][i].loc = "executing"
  BY <1>2, <1>4 DEF BufferInv, FlagsOnly
<1> QED BY <1>2, <1>4, <1>6, <1>7 DEF BufferInv, FlagsOnly

\* A step that leaves the session thread, its buffer, xfer, the device pointers
\* and the guests alone keeps the invariant.
LEMMA BufferElsewhere ==
  ASSUME BufferInv, FlagsOnly', sb'[0] = sb[0],
         UNCHANGED <<xfer, device, mapped, running, spc, sdev, si, depth>>
  PROVE  BufferInv'
BY DEF BufferInv, SafeUntil, Lowering, Lowered, Safe, IsXfer, RaisedLast, BoundSoFar,
       BoundAt, PublishedIsBound, Attending, Kept

\* A store appended to the session thread's buffer takes nothing away: what was
\* lowered or bound in the buffer stays so.
LEMMA AppendKeeps ==
  ASSUME NEW n \in Nat, n = Len(sb[0]), Len(sb'[0]) = n + 1,
         \A i \in 1..n : sb'[0][i] = sb[0][i],
         UNCHANGED <<device, mapped>>
  PROVE  /\ \A i \in 0..n : Lowered(i) => Lowered(i)'
         /\ \A i \in 0..(n + 1), k \in 0..(n + 1), q \in Queues :
              i <= k /\ BoundAt(i, q) => BoundAt(k, q)'
<1>1. ASSUME NEW i \in 0..n, Lowered(i)
      PROVE  Lowered(i)'
  <2>1. PICK m \in 1..n : /\ i < m /\ IsXfer(sb[0][m], 0)
                          /\ \A j \in 1..m : Safe(sb[0][j])
    BY <1>1 DEF Lowered
  <2>2. IsXfer(sb[0][m], 0)' /\ \A j \in 1..m : Safe(sb[0][j])'
    BY <2>1 DEF IsXfer, Safe
  <2> QED BY <2>1, <2>2 DEF Lowered
<1>2. ASSUME NEW i \in 0..(n + 1), NEW k \in 0..(n + 1), NEW q \in Queues,
             i <= k, BoundAt(i, q)
      PROVE  BoundAt(k, q)'
  <2>1. CASE device[q] \in mapped
    BY <2>1 DEF BoundAt
  <2>2. CASE \E m \in 1..n : /\ m <= i /\ sb[0][m].loc = "device" /\ sb[0][m].at = q
                             /\ sb[0][m].dev \in mapped
    <3>1. PICK m \in 1..n : /\ m <= i /\ sb[0][m].loc = "device" /\ sb[0][m].at = q
                            /\ sb[0][m].dev \in mapped
      BY <2>2
    <3>2. /\ m \in 1..(n + 1) /\ m <= k
          /\ sb'[0][m].loc = "device" /\ sb'[0][m].at = q
          /\ sb'[0][m].dev \in mapped'
      BY <3>1, <1>2
    <3> QED BY <3>2 DEF BoundAt
  <2> QED BY <1>2, <2>1, <2>2 DEF BoundAt
<1> QED BY <1>1, <1>2

\* new_device starts: nothing is bound or published by it yet.
LEMMA NewDeviceBuffer ==
  ASSUME TypeOK, BufferInv, NEW d \in Devs, NewDevice(d)
  PROVE  BufferInv'
<1>1. /\ UNCHANGED <<xfer, device, running, sb, depth>>
      /\ mapped' = mapped \cup {d} /\ spc = "idle" /\ spc' = "bind"
      /\ sdev' = d /\ si' = 1
  BY DEF NewDevice, memVars
<1>2. FlagsOnly' /\ PublishedIsBound' /\ Attending' /\ Kept'
  BY <1>1 DEF BufferInv, FlagsOnly, PublishedIsBound, Attending, Kept
<1>3. SafeUntil' /\ Lowering'
  BY <1>1 DEF BufferInv, SafeUntil, Safe, Lowering
<1>4. RaisedLast'
  BY <1>1 DEF BufferInv, RaisedLast, IsXfer, BoundAt
<1>5. BoundSoFar'
  BY <1>1 DEF BoundSoFar, Queues
<1> QED BY <1>1, <1>2, <1>3, <1>4, <1>5 DEF BufferInv

\* new_device binds one more queue.
LEMMA BindBuffer ==
  ASSUME TypeOK, BufferInv, BindQueue
  PROVE  BufferInv'
<1> DEFINE n == Len(sb[0])
           w == Device(si, sdev)
<1>0. /\ UNCHANGED <<running, mapped, spc, sdev, depth>>
      /\ spc = "bind" /\ si \in Queues /\ si' = si + 1
      /\ Store(0, w)
  BY DEF BindQueue
<1>1. sdev \in mapped /\ sdev \in Devs /\ w \in Writes /\ Queues \subseteq Int
  BY <1>0, WritesTyped, NNat DEF BufferInv, Attending, TypeOK, Queues
<1>2. w.loc = "device" /\ w.at = si /\ w.dev = sdev
  BY DEF Device
<1> HIDE DEF w
<1>3. Attending' /\ Kept' /\ Lowering'
  BY <1>0 DEF BufferInv, Attending, Kept, Lowering
<1>4. CASE sb[0] = <<>> /\ n = 0 /\ sb' = sb /\ Commit(w)
  <2>1. xfer' = xfer /\ device' = [device EXCEPT ![si] = sdev]
    BY <1>2, <1>4 DEF Commit
  <2>2. FlagsOnly' /\ SafeUntil' /\ RaisedLast'
    BY <1>4 DEF BufferInv, FlagsOnly, SafeUntil, RaisedLast
  <2>3. PublishedIsBound'
    BY <1>0, <1>1, <2>1 DEF BufferInv, PublishedIsBound, TypeOK
  <2>4. BoundSoFar'
    BY <1>0, <1>1, <1>4, <2>1 DEF BufferInv, BoundSoFar, BoundAt, TypeOK
  <2> QED BY <1>0, <1>3, <1>4, <2>2, <2>3, <2>4 DEF BufferInv
<1>5. CASE /\ UNCHANGED memVars /\ n \in Nat /\ Len(sb'[0]) = n + 1
           /\ \A i \in 1..n : sb'[0][i] = sb[0][i]
           /\ sb'[0][n + 1] = w
           /\ \A q \in Queues : sb'[q] = sb[q]
           /\ depth # 0
  <2>0. UNCHANGED <<xfer, device>>
    BY <1>5 DEF memVars
  <2>1. FlagsOnly' /\ PublishedIsBound'
    BY <1>0, <1>5, <2>0 DEF BufferInv, FlagsOnly, PublishedIsBound
  <2>2. SafeUntil'
    BY <1>0, <1>1, <1>2, <1>5 DEF BufferInv, SafeUntil, Safe
  <2> HIDE DEF n
  <2>3. \A i \in 0..(n + 1), k \in 0..(n + 1), q \in Queues :
              i <= k /\ BoundAt(i, q) => BoundAt(k, q)'
    BY <1>0, <1>5, <2>0, AppendKeeps DEF n
  <2>4. RaisedLast'
    <3> SUFFICES ASSUME NEW i \in 1..(n + 1), IsXfer(sb'[0][i], 1), NEW q \in Queues
                 PROVE  BoundAt(i, q)'
      BY <1>5 DEF RaisedLast, IsXfer
    <3>1. i \in 1..n /\ IsXfer(sb[0][i], 1)
      BY <1>2, <1>5 DEF IsXfer
    <3> QED BY <1>5, <2>3, <3>1 DEF BufferInv, RaisedLast, n
  <2>5. BoundSoFar'
    <3>0. PICK k \in Nat : k = n + 1
      BY <1>5
    <3> SUFFICES ASSUME NEW q \in Queues, q < si + 1
                 PROVE  BoundAt(k, q)'
      BY <1>0, <1>5, <3>0 DEF BoundSoFar, BoundAt
    <3>1. CASE q = si
      BY <1>0, <1>1, <1>2, <1>5, <3>0, <3>1 DEF BoundAt
    <3>2. CASE q < si
      <4>1. BoundAt(n, q)
        BY <1>0, <3>2 DEF BufferInv, BoundSoFar, n
      <4> QED BY <1>5, <2>3, <3>0, <4>1
    <3> QED BY <1>0, <1>1, <3>1, <3>2
  <2> QED BY <1>0, <1>3, <1>5, <2>1, <2>2, <2>4, <2>5 DEF BufferInv
<1> QED BY <1>0, <1>1, <1>4, <1>5, SessionStore

\* new_device raises xfer, after every queue.
LEMMA PublishBuffer ==
  ASSUME TypeOK, BufferInv, Publish
  PROVE  BufferInv'
<1> DEFINE n == Len(sb[0])
           w == Xfer(1)
<1>0. /\ UNCHANGED <<mapped, depth>>
      /\ spc = "bind" /\ spc' = "idle" /\ si > N /\ running' = running \cup {sdev}
      /\ Store(0, w)
  BY DEF Publish
<1>1. w \in Writes /\ sdev \in mapped
  BY <1>0, WritesTyped DEF BufferInv, Attending
<1>2. w.loc = "xfer" /\ w.val = 1
  BY DEF Xfer
<1> HIDE DEF w
<1>3. Attending' /\ Kept' /\ Lowering' /\ BoundSoFar'
  BY <1>0, <1>1 DEF BufferInv, Attending, Kept, Lowering, BoundSoFar
<1>b. \A q \in Queues : BoundAt(n, q)
  BY <1>0, NNat DEF BufferInv, BoundSoFar, Queues, TypeOK
<1>4. CASE sb[0] = <<>> /\ n = 0 /\ sb' = sb /\ Commit(w)
  <2>1. xfer' = 1 /\ device' = device
    BY <1>2, <1>4 DEF Commit
  <2>2. FlagsOnly' /\ SafeUntil' /\ RaisedLast'
    BY <1>4 DEF BufferInv, FlagsOnly, SafeUntil, RaisedLast
  <2>3. PublishedIsBound'
    BY <1>0, <1>b, <1>4, <2>1 DEF PublishedIsBound, BoundAt
  <2> QED BY <1>0, <1>3, <1>4, <2>2, <2>3 DEF BufferInv
<1>5. CASE /\ UNCHANGED memVars /\ n \in Nat /\ Len(sb'[0]) = n + 1
           /\ \A i \in 1..n : sb'[0][i] = sb[0][i]
           /\ sb'[0][n + 1] = w
           /\ \A q \in Queues : sb'[q] = sb[q]
           /\ depth # 0
  <2>0. UNCHANGED <<xfer, device>>
    BY <1>5 DEF memVars
  <2>1. FlagsOnly' /\ PublishedIsBound'
    BY <1>0, <1>5, <2>0 DEF BufferInv, FlagsOnly, PublishedIsBound
  <2>2. SafeUntil'
    BY <1>0, <1>2, <1>5 DEF BufferInv, SafeUntil, Safe
  <2> HIDE DEF n
  <2>3. \A i \in 0..(n + 1), k \in 0..(n + 1), q \in Queues :
              i <= k /\ BoundAt(i, q) => BoundAt(k, q)'
    BY <1>0, <1>5, <2>0, AppendKeeps DEF n
  <2>4. RaisedLast'
    <3> SUFFICES ASSUME NEW i \in 1..(n + 1), IsXfer(sb'[0][i], 1), NEW q \in Queues
                 PROVE  BoundAt(i, q)'
      BY <1>5 DEF RaisedLast, IsXfer
    <3>1. CASE i \in 1..n
      <4>1. BoundAt(i, q)
        BY <1>5, <3>1 DEF BufferInv, RaisedLast, IsXfer, n
      <4> QED BY <1>5, <2>3, <3>1, <4>1
    <3>2. CASE i = n + 1
      BY <1>5, <1>b, <2>3, <3>2
    <3> QED BY <1>5, <3>1, <3>2
  <2> QED BY <1>0, <1>3, <1>5, <2>1, <2>2, <2>4 DEF BufferInv
<1> QED BY <1>0, <1>1, <1>4, <1>5, SessionStore

\* destroy_device lowers xfer; whatever is buffered before is safe.
LEMMA DestroyBuffer ==
  ASSUME TypeOK, BufferInv, NEW d \in Devs, DestroyDevice(d)
  PROVE  BufferInv'
<1> DEFINE n == Len(sb[0])
           w == Xfer(0)
<1>0. /\ UNCHANGED <<mapped, running, depth>>
      /\ spc = "idle" /\ spc' = "wait" /\ sdev' = d /\ d \in running
      /\ Store(0, w)
  BY DEF DestroyDevice
<1>1. w \in Writes
  BY WritesTyped
<1>2. w.loc = "xfer" /\ w.val = 0
  BY DEF Xfer
<1> HIDE DEF w
<1>3. Attending' /\ Kept' /\ BoundSoFar'
  BY <1>0 DEF BufferInv, Attending, Kept, BoundSoFar
<1>4. CASE sb[0] = <<>> /\ n = 0 /\ sb' = sb /\ Commit(w)
  <2>1. xfer' = 0 /\ device' = device
    BY <1>2, <1>4 DEF Commit
  <2>2. FlagsOnly' /\ SafeUntil' /\ RaisedLast' /\ PublishedIsBound' /\ Lowering'
    BY <1>4, <2>1 DEF BufferInv, FlagsOnly, SafeUntil, RaisedLast, PublishedIsBound,
                      Lowering
  <2> QED BY <1>0, <1>3, <1>4, <2>2 DEF BufferInv
<1>5. CASE /\ UNCHANGED memVars /\ n \in Nat /\ Len(sb'[0]) = n + 1
           /\ \A i \in 1..n : sb'[0][i] = sb[0][i]
           /\ sb'[0][n + 1] = w
           /\ \A q \in Queues : sb'[q] = sb[q]
           /\ depth # 0
  <2>0. UNCHANGED <<xfer, device>>
    BY <1>5 DEF memVars
  <2>1. FlagsOnly' /\ PublishedIsBound'
    BY <1>0, <1>5, <2>0 DEF BufferInv, FlagsOnly, PublishedIsBound
  <2>2. \A i \in 1..(n + 1) : Safe(sb[0][i])'
    BY <1>0, <1>2, <1>5 DEF BufferInv, SafeUntil, Safe
  <2>3. SafeUntil'
    BY <1>5, <2>2 DEF SafeUntil
  <2> HIDE DEF n
  <2>4. \A i \in 0..(n + 1), k \in 0..(n + 1), q \in Queues :
              i <= k /\ BoundAt(i, q) => BoundAt(k, q)'
    BY <1>0, <1>5, <2>0, AppendKeeps DEF n
  <2>5. RaisedLast'
    <3> SUFFICES ASSUME NEW i \in 1..(n + 1), IsXfer(sb'[0][i], 1), NEW q \in Queues
                 PROVE  BoundAt(i, q)'
      BY <1>5 DEF RaisedLast, IsXfer
    <3>1. i \in 1..n /\ IsXfer(sb[0][i], 1)
      BY <1>2, <1>5 DEF IsXfer
    <3> QED BY <1>5, <2>4, <3>1 DEF BufferInv, RaisedLast, n
  <2>6. IsXfer(sb'[0][n + 1], 0)
    BY <1>2, <1>5 DEF IsXfer
  <2>7. \A i \in 0..n : Lowered(i)'
    <3> TAKE i \in 0..n
    <3>1. n + 1 \in 1..(n + 1) /\ i < n + 1
      BY <1>5
    <3> QED BY <1>5, <2>2, <2>6, <3>1 DEF Lowered, IsXfer
  <2>8. Lowering'
    <3>1. Lowered(0)'
      BY <1>5, <2>7
    <3>2. ASSUME NEW i \in 1..(n + 1), IsXfer(sb'[0][i], 1)
          PROVE  Lowered(i)'
      <4>1. i \in 0..n
        BY <1>2, <1>5, <3>2 DEF IsXfer
      <4> QED BY <2>7, <4>1
    <3> QED BY <1>5, <3>1, <3>2 DEF Lowering, IsXfer
  <2> QED BY <1>0, <1>3, <1>5, <2>1, <2>3, <2>5, <2>8 DEF BufferInv
<1> QED BY <1>0, <1>1, <1>4, <1>5, SessionStore

\* Waiting for a flag and leaving the spin do not touch memory.
LEMMA WaitBuffer ==
  ASSUME TypeOK, BufferInv, WaitQueue \/ Detach
  PROVE  BufferInv'
<1>1. UNCHANGED <<xfer, device, sb, mapped, sdev, depth>>
  BY DEF WaitQueue, Detach, memVars
<1>2. /\ spc = "wait" /\ spc' \in {"wait", "unbind"}
      /\ \/ spc' = "wait" /\ running' = running
         \/ running' = running \ {sdev}
  BY DEF WaitQueue, Detach
<1>3. FlagsOnly' /\ RaisedLast' /\ PublishedIsBound' /\ SafeUntil'
  BY <1>1, <1>2 DEF BufferInv, FlagsOnly, RaisedLast, IsXfer, BoundAt, PublishedIsBound,
                    SafeUntil, Safe
<1>4. Lowering'
  BY <1>1, <1>2 DEF BufferInv, Lowering, Lowered, IsXfer, Safe
<1>5. BoundSoFar' /\ Attending' /\ Kept'
  BY <1>1, <1>2 DEF BufferInv, BoundSoFar, Attending, Kept
<1> QED BY <1>1, <1>3, <1>4, <1>5 DEF BufferInv

\* destroy_device unbinds a queue, behind the store that lowers xfer.
LEMMA UnbindBuffer ==
  ASSUME TypeOK, BufferInv, UnbindQueue
  PROVE  BufferInv'
<1> DEFINE n == Len(sb[0])
           w == Device(si, NULL)
<1>0. /\ UNCHANGED <<mapped, running, spc, sdev, depth>>
      /\ spc = "unbind" /\ si \in Queues
      /\ Store(0, w)
  BY DEF UnbindQueue
<1>1. w \in Writes
  BY <1>0, WritesTyped
<1>2. w.loc = "device"
  BY DEF Device
<1> HIDE DEF w
<1>3. Attending' /\ Kept' /\ BoundSoFar' /\ SafeUntil'
  BY <1>0 DEF BufferInv, Attending, Kept, BoundSoFar, SafeUntil
<1>4. CASE sb[0] = <<>> /\ n = 0 /\ sb' = sb /\ Commit(w)
  <2>1. xfer' = xfer
    BY <1>2, <1>4 DEF Commit
  <2>2. xfer # 1
    BY <1>0, <1>4 DEF BufferInv, Lowering, Lowered
  <2>3. FlagsOnly' /\ RaisedLast' /\ PublishedIsBound' /\ Lowering'
    BY <1>4, <2>1, <2>2 DEF BufferInv, FlagsOnly, RaisedLast, PublishedIsBound,
                            Lowering
  <2> QED BY <1>0, <1>3, <1>4, <2>3 DEF BufferInv
<1>5. CASE /\ UNCHANGED memVars /\ n \in Nat /\ Len(sb'[0]) = n + 1
           /\ \A i \in 1..n : sb'[0][i] = sb[0][i]
           /\ sb'[0][n + 1] = w
           /\ \A q \in Queues : sb'[q] = sb[q]
           /\ depth # 0
  <2>0. UNCHANGED <<xfer, device>>
    BY <1>5 DEF memVars
  <2>1. FlagsOnly' /\ PublishedIsBound'
    BY <1>0, <1>5, <2>0 DEF BufferInv, FlagsOnly, PublishedIsBound
  <2> HIDE DEF n
  <2>2. /\ \A i \in 0..n : Lowered(i) => Lowered(i)'
        /\ \A i \in 0..(n + 1), k \in 0..(n + 1), q \in Queues :
              i <= k /\ BoundAt(i, q) => BoundAt(k, q)'
    BY <1>0, <1>5, <2>0, AppendKeeps DEF n
  <2>3. ASSUME NEW i \in 1..(n + 1), IsXfer(sb'[0][i], 1)
        PROVE  i \in 1..n /\ IsXfer(sb[0][i], 1)
    BY <1>2, <1>5, <2>3 DEF IsXfer
  <2>4. RaisedLast'
    <3> SUFFICES ASSUME NEW i \in 1..(n + 1), IsXfer(sb'[0][i], 1), NEW q \in Queues
                 PROVE  BoundAt(i, q)'
      BY <1>5 DEF RaisedLast, IsXfer
    <3> QED BY <1>5, <2>2, <2>3 DEF BufferInv, RaisedLast, n
  <2>5. Lowering'
    <3>1. ASSUME xfer' = 1
          PROVE  Lowered(0)'
      BY <1>0, <1>5, <2>0, <2>2, <3>1 DEF BufferInv, Lowering
    <3>2. ASSUME NEW i \in 1..(n + 1), IsXfer(sb'[0][i], 1)
          PROVE  Lowered(i)'
      <4>1. i \in 1..n /\ IsXfer(sb[0][i], 1)
        BY <2>3, <3>2
      <4>2. Lowered(i)
        BY <1>0, <4>1 DEF BufferInv, Lowering, n
      <4> QED BY <1>5, <2>2, <4>1, <4>2
    <3> QED BY <1>5, <3>1, <3>2 DEF Lowering, IsXfer
  <2> QED BY <1>0, <1>3, <1>5, <2>1, <2>4, <2>5 DEF BufferInv
<1> QED BY <1>0, <1>1, <1>4, <1>5, SessionStore

\* The guest's memory goes with the buffer empty, when xfer is down.
LEMMA UnmapBuffer ==
  ASSUME TypeOK, BufferInv, Unmap
  PROVE  BufferInv'
<1>0. /\ UNCHANGED <<xfer, device, running, sb, depth>>
      /\ spc = "unbind" /\ spc' = "idle" /\ mapped' = mapped \ {sdev}
      /\ sb[0] = <<>> /\ Len(sb[0]) = 0
  BY LenProperties, EmptySeq DEF Unmap, memVars
<1>1. xfer # 1
  BY <1>0 DEF BufferInv, Lowering, Lowered
<1>2. FlagsOnly' /\ SafeUntil' /\ RaisedLast' /\ PublishedIsBound' /\ Lowering'
  BY <1>0, <1>1 DEF BufferInv, FlagsOnly, SafeUntil, RaisedLast, PublishedIsBound,
                    Lowering
<1>3. Attending' /\ Kept' /\ BoundSoFar'
  BY <1>0 DEF BufferInv, Attending, Kept, BoundSoFar
<1> QED BY <1>0, <1>2, <1>3 DEF BufferInv

\* The oldest store of the session thread reaches memory.  If it unbinds a
\* queue, xfer is down and no store that raises it is left.
LEMMA DrainBuffer ==
  ASSUME TypeOK, BufferInv, Drain(0)
  PROVE  BufferInv'
<1> DEFINE n == Len(sb[0])
           w == sb[0][1]
<1>0. /\ n \in Nat /\ 1 <= n /\ Len(sb'[0]) = n - 1
      /\ \A i \in 1..(n - 1) : sb'[0][i] = sb[0][i + 1]
      /\ w \in Writes /\ Commit(w)
      /\ \A q \in Queues : sb'[q] = sb[q]
  BY SessionDrain
<1>1. UNCHANGED <<mapped, running, spc, sdev, si, depth>>
  BY DEF Drain
<1>2. depth # 0 /\ depth' # 0
  BY <1>1 DEF Drain, BufferInv
<1>3. FlagsOnly' /\ Attending' /\ Kept'
  BY <1>0, <1>1 DEF BufferInv, FlagsOnly, Attending, Kept
<1>4. SafeUntil'
  BY <1>0, <1>1 DEF BufferInv, SafeUntil, Safe
<1>5. CASE Safe(w)
  <2>0. \A q \in Queues : device'[q] = device[q] \/ device'[q] \in mapped
    BY <1>0, <1>5 DEF Commit, Safe, Writes, TypeOK
  <2>1. ASSUME NEW i \in 1..n, NEW k \in 0..(n - 1), k = i - 1, NEW q \in Queues, BoundAt(i, q)
        PROVE  BoundAt(k, q)'
    <3>1. CASE device[q] \in mapped
      BY <1>1, <2>0, <3>1 DEF BoundAt
    <3>2. CASE \E m \in 1..n : /\ m <= i /\ sb[0][m].loc = "device" /\ sb[0][m].at = q
                               /\ sb[0][m].dev \in mapped
      <4>1. PICK m \in 1..n : /\ m <= i /\ sb[0][m].loc = "device" /\ sb[0][m].at = q
                              /\ sb[0][m].dev \in mapped
        BY <3>2
      <4>2. CASE m = 1
        <5>1. device' = [device EXCEPT ![q] = w.dev]
          BY <1>0, <4>1, <4>2 DEF Commit
        <5>2. device'[q] \in mapped'
          BY <1>1, <4>1, <4>2, <5>1 DEF TypeOK
        <5> QED BY <5>2 DEF BoundAt
      <4>3. CASE m # 1
        <5>1. PICK j \in 1..(n - 1) : j = m - 1
          BY <1>0, <4>3
        <5>2. j <= k /\ sb'[0][j] = sb[0][m]
          BY <1>0, <2>1, <4>1, <5>1
        <5> QED BY <1>0, <1>1, <4>1, <5>1, <5>2 DEF BoundAt
      <4> QED BY <4>2, <4>3
    <3> QED BY <2>1, <3>1, <3>2 DEF BoundAt
  <2>2. ASSUME NEW i \in 0..n, NEW k \in 0..(n - 1), k = (IF i = 0 THEN 0 ELSE i - 1),
               Lowered(i), i = 0 => ~IsXfer(w, 0)
        PROVE  Lowered(k)'
    <3>1. PICK m \in 1..n : /\ i < m /\ IsXfer(sb[0][m], 0)
                            /\ \A j \in 1..m : Safe(sb[0][j])
      BY <2>2 DEF Lowered
    <3>2. PICK l \in 1..(n - 1) : l = m - 1
      BY <1>0, <2>2, <3>1
    <3>3. k < l /\ sb'[0][l] = sb[0][m] /\ IsXfer(sb'[0][l], 0)
      BY <1>0, <2>2, <3>1, <3>2
    <3>4. ASSUME NEW j \in 1..l
          PROVE  Safe(sb[0][j])'
      <4>1. PICK h \in 1..m : h = j + 1
        BY <1>0, <3>1, <3>2
      <4>2. sb'[0][j] = sb[0][h] /\ Safe(sb[0][h])
        BY <1>0, <3>1, <3>2, <4>1
      <4> QED BY <1>1, <4>2 DEF Safe
    <3> QED BY <1>0, <3>2, <3>3, <3>4 DEF Lowered, IsXfer
  <2>3. PublishedIsBound'
    <3>1. CASE IsXfer(w, 1)
      <4>1. \A q \in Queues : BoundAt(1, q)
        BY <1>0, <3>1 DEF BufferInv, RaisedLast
      <4>2. device' = device
        BY <1>0, <3>1 DEF Commit, IsXfer
      <4>3. \A q \in Queues : device[q] \in mapped
        BY <1>0, <3>1, <4>1 DEF BoundAt, IsXfer
      <4> QED BY <1>1, <4>2, <4>3 DEF PublishedIsBound
    <3>2. CASE ~IsXfer(w, 1)
      <4>1. xfer' = 1 => xfer = 1
        BY <1>0, <3>2 DEF Commit, IsXfer
      <4> QED BY <1>1, <2>0, <4>1 DEF BufferInv, PublishedIsBound
    <3> QED BY <3>1, <3>2
  <2>4. RaisedLast'
    <3> SUFFICES ASSUME NEW k \in 1..(n - 1), IsXfer(sb'[0][k], 1), NEW q \in Queues
                 PROVE  BoundAt(k, q)'
      BY <1>0 DEF RaisedLast, IsXfer
    <3>1. PICK i \in 1..n : i = k + 1
      BY <1>0
    <3>2. IsXfer(sb[0][i], 1)
      BY <1>0, <3>1 DEF IsXfer
    <3>3. BoundAt(i, q)
      BY <3>2 DEF BufferInv, RaisedLast
    <3> QED BY <1>0, <2>1, <3>1, <3>3
  <2>5. BoundSoFar'
    <3>1. PICK k \in 0..(n - 1) : k = n - 1
      BY <1>0
    <3> SUFFICES ASSUME spc = "bind", NEW q \in Queues, q < si
                 PROVE  BoundAt(k, q)'
      BY <1>0, <1>1, <3>1 DEF BoundSoFar, BoundAt
    <3>2. BoundAt(n, q)
      BY DEF BufferInv, BoundSoFar
    <3> QED BY <1>0, <2>1, <3>1, <3>2
  <2>6. Lowering'
    <3> SUFFICES ASSUME spc \in {"wait", "unbind"}
                 PROVE  /\ xfer' = 1 => Lowered(0)'
                        /\ \A k \in 1..(n - 1) : IsXfer(sb'[0][k], 1) => Lowered(k)'
      BY <1>0, <1>1 DEF Lowering, IsXfer
    <3>1. ASSUME xfer' = 1
          PROVE  Lowered(0)'
      <4>1. CASE IsXfer(w, 1)
        <5>1. Lowered(1)
          BY <1>0, <4>1 DEF BufferInv, Lowering
        <5> QED BY <1>0, <2>2, <5>1
      <4>2. CASE ~IsXfer(w, 1)
        <5>1. xfer = 1 /\ ~IsXfer(w, 0)
          BY <1>0, <3>1, <4>2 DEF Commit, IsXfer
        <5>2. Lowered(0)
          BY <5>1 DEF BufferInv, Lowering
        <5> QED BY <1>0, <2>2, <5>1, <5>2
      <4> QED BY <4>1, <4>2
    <3>2. ASSUME NEW k \in 1..(n - 1), IsXfer(sb'[0][k], 1)
          PROVE  Lowered(k)'
      <4>1. PICK i \in 1..n : i = k + 1
        BY <1>0
      <4>2. IsXfer(sb[0][i], 1)
        BY <1>0, <3>2, <4>1 DEF IsXfer
      <4>3. Lowered(i)
        BY <4>2 DEF BufferInv, Lowering
      <4> QED BY <1>0, <2>2, <4>1, <4>3
    <3> QED BY <3>1, <3>2
  <2> QED BY <1>2, <1>3, <1>4, <2>3, <2>4, <2>5, <2>6 DEF BufferInv
<1>6. CASE ~Safe(w)
  <2>1. spc = "unbind" /\ w.loc = "device" /\ xfer' = xfer
    BY <1>0, <1>6 DEF BufferInv, SafeUntil, Safe, Commit
  <2>2. \A i \in 0..n : ~Lowered(i)
    BY <1>0, <1>6 DEF Lowered
  <2>3. xfer # 1 /\ \A i \in 1..n : ~IsXfer(sb[0][i], 1)
    BY <1>0, <2>1, <2>2 DEF BufferInv, Lowering
  <2>4. ASSUME NEW k \in 1..(n - 1)
        PROVE  ~IsXfer(sb'[0][k], 1)
    <3>1. PICK i \in 1..n : i = k + 1
      BY <1>0
    <3>2. sb'[0][k] = sb[0][i]
      BY <1>0, <3>1
    <3> QED BY <2>3, <3>2
  <2>5. RaisedLast' /\ Lowering' /\ PublishedIsBound' /\ BoundSoFar'
    BY <1>0, <1>1, <2>1, <2>3, <2>4
       DEF RaisedLast, Lowering, PublishedIsBound, BoundSoFar, IsXfer
  <2> QED BY <1>2, <1>3, <1>4, <2>5 DEF BufferInv
<1> QED BY <1>5, <1>6

\* Every step keeps the invariant.
LEMMA BufferStep == TypeOK /\ BufferInv /\ [Next]_vars => BufferInv'
<1> SUFFICES ASSUME TypeOK, BufferInv, [Next]_vars
             PROVE  BufferInv'
  OBVIOUS
<1>1. ASSUME NEW q \in Queues, Enter(q) \/ Recheck(q) \/ Load(q) \/ Burst(q)
      PROVE  BufferInv'
  <2>1. UNCHANGED <<xfer, device, mapped, running, spc, sdev, si, depth, sb>>
    BY <1>1 DEF Enter, Recheck, Load, Burst, memVars
  <2> QED BY <2>1, BufferElsewhere DEF BufferInv, FlagsOnly
<1>2. ASSUME NEW q \in Queues, Mark(q) \/ Clear(q)
      PROVE  BufferInv'
  <2>1. \E v \in {0, 1} : Store(q, Flag(q, v))
    BY <1>2 DEF Mark, Clear
  <2>2. UNCHANGED <<mapped, running, spc, sdev, si, depth>>
    BY <1>2 DEF Mark, Clear
  <2> QED BY <2>1, <2>2, LcoreStore, BufferElsewhere
<1>3. ASSUME NEW q \in Queues, Drain(q)
      PROVE  BufferInv'
  <2>1. UNCHANGED <<mapped, running, spc, sdev, si, depth>>
    BY <1>3 DEF Drain
  <2> QED BY <1>3, <2>1, LcoreDrain, BufferElsewhere
<1>4. \A t \in Threads : t = 0 \/ t \in Queues
  BY NNat DEF Threads, Queues
<1>5. CASE Session
  BY <1>5, NewDeviceBuffer, DestroyBuffer, BindBuffer, PublishBuffer, WaitBuffer,
     UnbindBuffer, UnmapBuffer DEF Session, SessionStep
<1>6. CASE UNCHANGED vars
  <2>1. UNCHANGED <<xfer, device, mapped, running, spc, sdev, si, depth, sb>>
    BY <1>6 DEF vars
  <2> QED BY <2>1, BufferElsewhere DEF BufferInv, FlagsOnly
<1> QED BY <1>1, <1>2, <1>3, <1>4, <1>5, <1>6, DrainBuffer DEF Next, Lcore

\* rte_eth_vhost.c: for every depth of the store buffers, whenever an lcore can
\* read xfer = 1 every queue is bound to a device whose memory is mapped.
THEOREM VhostPublishedIsBound == Spec => []PublishedIsBound
<1>1. Init => BufferInv
  <2> SUFFICES ASSUME Init PROVE BufferInv
    OBVIOUS
  <2>1. /\ \A t \in Threads : sb[t] = <<>>
        /\ xfer = 0 /\ spc = "idle" /\ running = {}
    BY DEF Init
  <2>2. Len(sb[0]) = 0 /\ sb[0] = <<>> /\ \A q \in Queues : Len(sb[q]) = 0
    BY <2>1, NNat, LenProperties, EmptySeq
  <2> QED BY <2>1, <2>2 DEF BufferInv, FlagsOnly, SafeUntil, Lowering, RaisedLast,
                            BoundSoFar, PublishedIsBound, Attending, Kept
<1>2. BufferInv => PublishedIsBound
  BY DEF BufferInv
<1> QED BY <1>1, <1>2, BufferStep, VhostTypeCorrect, PTL DEF Spec
=============================================================================
