------------------------------ MODULE VhostPmd ------------------------------
(***************************************************************************)
(* The handshake of the vhost poll mode driver (rte_eth_vhost.c) between   *)
(* the lcores that call eth_vhost_rx / eth_vhost_tx and the vhost session  *)
(* thread that runs the callbacks new_device and destroy_device.           *)
(*                                                                         *)
(* A burst may touch the guest device only between its second look at      *)
(* internal->xfer and the moment it clears its queue's executing flag;     *)
(* destroy_device clears xfer, waits for the flag of every queue, and only *)
(* then returns to librte_vhost, which unmaps the guest's memory.          *)
(*                                                                         *)
(* rte_atomic16_set is a plain store: on x86 it goes through the store     *)
(* buffer of its core.  depth, chosen at the start, is the capacity of     *)
(* that buffer; 0 is a machine whose stores are visible at once (a fence   *)
(* after each).                                                            *)
(*                                                                         *)
(* Each queue is driven by one lcore, the rule of rte_ethdev.h:54-60; the  *)
(* lcore is named by its queue.                                            *)
(***************************************************************************)
EXTENDS Naturals, Sequences

CONSTANTS NRx,      \* internal->nb_rx_queues
          NTx,      \* internal->nb_tx_queues
          Devs,     \* the virtio_net devices whose ifname is this port's
          NULL,     \* the null device pointer
          Depths    \* capacities of a core's store buffer to look at

ASSUME VhostAssumption == /\ NRx \in Nat
                          /\ NTx \in Nat
                          /\ NULL \notin Devs
                          /\ Depths \subseteq Nat

N == NRx + NTx
\* rx queues are 1..NRx, tx queues NRx+1..N: the order in which
\* destroy_device and new_device visit them
Queues == 1..N

VARIABLES
  xfer,        \* internal->xfer
  executing,   \* rx_executing / tx_executing of each queue
  device,      \* vq->device of each queue
  internal,    \* vq->internal # NULL
  link,        \* eth_dev->data->dev_link.link_status
  running,     \* the devices with VIRTIO_DEV_RUNNING set and dev->priv bound
  mapped,      \* the devices whose guest memory librte_vhost keeps mapped
  pc,          \* what the lcore of each queue is doing
  hold,        \* the device pointer it passed to the burst function
  spc, sdev, si,  \* the session thread: callback step, its device, loop index
  sb,          \* the store buffers; sb[0] is the session thread's
  depth        \* their capacity

vars == <<xfer, executing, device, internal, link, running, mapped,
          pc, hold, spc, sdev, si, sb, depth>>
lcoreVars == <<pc, hold>>
memVars == <<xfer, executing, device>>

Threads == 0..N
Flag(q, v) == [loc |-> "executing", at |-> q, val |-> v]
Xfer(v)    == [loc |-> "xfer", at |-> 0, val |-> v]
Device(q, d) == [loc |-> "device", at |-> q, dev |-> d]

\* A store reaches memory.
Commit(w) ==
  /\ xfer' = IF w.loc = "xfer" THEN w.val ELSE xfer
  /\ executing' = IF w.loc = "executing"
                    THEN [executing EXCEPT ![w.at] = w.val] ELSE executing
  /\ device' = IF w.loc = "device"
                 THEN [device EXCEPT ![w.at] = w.dev] ELSE device

\* Thread t executes a store.
Store(t, w) ==
  \/ /\ depth = 0
     /\ Commit(w)
     /\ UNCHANGED sb
  \/ /\ Len(sb[t]) < depth
     /\ sb' = [sb EXCEPT ![t] = Append(@, w)]
     /\ UNCHANGED memVars

\* The oldest buffered store of thread t reaches memory.
Drain(t) ==
  /\ sb[t] # <<>>
  /\ Commit(Head(sb[t]))
  /\ sb' = [sb EXCEPT ![t] = Tail(@)]
  /\ UNCHANGED <<depth, internal, link, running, mapped, pc, hold, spc, sdev, si>>

Init ==
  /\ xfer = 0
  /\ executing = [q \in Queues |-> 0]
  /\ device = [q \in Queues |-> NULL]
  /\ internal = [q \in Queues |-> FALSE]
  /\ link = 0
  /\ running = {}
  /\ mapped = {}
  /\ pc = [q \in Queues |-> "idle"]
  /\ hold = [q \in Queues |-> NULL]
  /\ spc = "idle" /\ sdev = NULL /\ si = 1
  /\ sb = [t \in Threads |-> <<>>] /\ depth \in Depths

-----------------------------------------------------------------------------
(* One rx or tx burst of the lcore that drives queue q.                    *)

\* Variant with a bug: the first look at xfer is left out.
EnterUnchecked(q) ==
  /\ pc[q] = "idle"
  /\ internal[q]
  /\ pc' = [pc EXCEPT ![q] = "mark"]
  /\ UNCHANGED <<depth, memVars, internal, link, running, mapped, hold,
                 spc, sdev, si, sb>>

\* The burst starts: the queue is bound and xfer is seen set (otherwise it
\* returns 0 at once, a step that changes nothing).  internal is never
\* unbound, so reading it together with xfer loses no behaviour.
Enter(q) ==
  /\ pc[q] = "idle"
  /\ internal[q]
  /\ xfer = 1
  /\ pc' = [pc EXCEPT ![q] = "mark"]
  /\ UNCHANGED <<depth, memVars, internal, link, running, mapped, hold,
                 spc, sdev, si, sb>>

Mark(q) ==
  /\ pc[q] = "mark"
  /\ Store(q, Flag(q, 1))
  /\ pc' = [pc EXCEPT ![q] = "recheck"]
  /\ UNCHANGED <<depth, internal, link, running, mapped, hold, spc, sdev, si>>

\* Variant with a bug: the second look at xfer is left out.
RecheckSkipped(q) ==
  /\ pc[q] = "recheck"
  /\ pc' = [pc EXCEPT ![q] = "load"]
  /\ UNCHANGED <<depth, memVars, internal, link, running, mapped, hold,
                 spc, sdev, si, sb>>

\* The second look at xfer.
Recheck(q) ==
  /\ pc[q] = "recheck"
  /\ pc' = [pc EXCEPT ![q] = IF xfer = 0 THEN "clear" ELSE "load"]
  /\ UNCHANGED <<depth, memVars, internal, link, running, mapped, hold,
                 spc, sdev, si, sb>>

Load(q) ==
  /\ pc[q] = "load"
  /\ hold' = [hold EXCEPT ![q] = device[q]]
  /\ pc' = [pc EXCEPT ![q] = "use"]
  /\ UNCHANGED <<depth, memVars, internal, link, running, mapped,
                 spc, sdev, si, sb>>

\* rte_vhost_dequeue_burst / rte_vhost_enqueue_burst return; the counter
\* update that follows is a locked instruction and empties the store buffer.
Burst(q) ==
  /\ pc[q] = "use"
  /\ sb[q] = <<>>
  /\ hold' = [hold EXCEPT ![q] = NULL]
  /\ pc' = [pc EXCEPT ![q] = "clear"]
  /\ UNCHANGED <<depth, memVars, internal, link, running, mapped,
                 spc, sdev, si, sb>>

Clear(q) ==
  /\ pc[q] = "clear"
  /\ Store(q, Flag(q, 0))
  /\ pc' = [pc EXCEPT ![q] = "idle"]
  /\ UNCHANGED <<depth, internal, link, running, mapped, hold, spc, sdev, si>>

Lcore(q) == Enter(q) \/ Mark(q) \/ Recheck(q) \/ Load(q) \/ Burst(q) \/ Clear(q)

-----------------------------------------------------------------------------
(* The session thread.                                                     *)

\* Variant with a bug: the first queue is left out of the loops.
NewDeviceSkipsQueue(d) ==
  /\ spc = "idle"
  /\ d \notin running
  /\ mapped' = mapped \cup {d}
  /\ spc' = "bind" /\ sdev' = d /\ si' = 2
  /\ UNCHANGED <<depth, memVars, internal, link, running, lcoreVars, sb>>

\* A guest's rings become ready: librte_vhost, which calls new_device only
\* for a device that is not running, has the guest's memory mapped.  (A call
\* for another port's device is refused and changes nothing.)
NewDevice(d) ==
  /\ spc = "idle"
  /\ d \notin running
  /\ mapped' = mapped \cup {d}
  /\ spc' = "bind" /\ sdev' = d /\ si' = 1
  /\ UNCHANGED <<depth, memVars, internal, link, running, lcoreVars, sb>>

\* One round of the two loops that fill in the queues.
BindQueue ==
  /\ spc = "bind" /\ si \in Queues
  /\ Store(0, Device(si, sdev))
  /\ internal' = [internal EXCEPT ![si] = TRUE]
  /\ si' = si + 1
  /\ UNCHANGED <<depth, link, running, mapped, lcoreVars, spc, sdev>>

Publish ==
  /\ spc = "bind" /\ si > N
  /\ running' = running \cup {sdev}
  /\ link' = 1
  /\ Store(0, Xfer(1))
  /\ spc' = "idle" /\ sdev' = NULL /\ si' = 1
  /\ UNCHANGED <<depth, internal, mapped, lcoreVars>>

\* The guest stops, resets its rings or disconnects: librte_vhost calls
\* destroy_device for a running device, which first withdraws xfer.
DestroyDevice(d) ==
  /\ spc = "idle"
  /\ d \in running
  /\ Store(0, Xfer(0))
  /\ spc' = "wait" /\ sdev' = d /\ si' = 1
  /\ UNCHANGED <<depth, internal, link, running, mapped, lcoreVars>>

\* Variant with a bug: the loop runs to <= instead of <.
UnbindOneMore ==
  /\ spc = "unbind" /\ si <= N + 1
  /\ Store(0, Device(si, NULL))
  /\ si' = si + 1
  /\ UNCHANGED <<depth, internal, link, running, mapped, lcoreVars, spc, sdev>>

\* The spin on one queue's flag ends when the flag is read as 0.
WaitQueue ==
  /\ spc = "wait" /\ si \in Queues
  /\ executing[si] = 0
  /\ si' = si + 1
  /\ UNCHANGED <<depth, memVars, internal, link, running, mapped, lcoreVars,
                 spc, sdev, sb>>

Detach ==
  /\ spc = "wait" /\ si > N
  /\ link' = 0
  /\ running' = running \ {sdev}
  /\ spc' = "unbind" /\ si' = 1
  /\ UNCHANGED <<depth, memVars, internal, mapped, lcoreVars, sdev, sb>>

UnbindQueue ==
  /\ spc = "unbind" /\ si \in Queues
  /\ Store(0, Device(si, NULL))
  /\ si' = si + 1
  /\ UNCHANGED <<depth, internal, link, running, mapped, lcoreVars, spc, sdev>>

\* destroy_device returns and librte_vhost unmaps the guest's memory; the
\* system call empties the store buffer.
Unmap ==
  /\ spc = "unbind" /\ si > N
  /\ sb[0] = <<>>
  /\ mapped' = mapped \ {sdev}
  /\ spc' = "idle" /\ sdev' = NULL /\ si' = 1
  /\ UNCHANGED <<depth, memVars, internal, link, running, lcoreVars, sb>>

SessionStep == BindQueue \/ Publish \/ WaitQueue \/ Detach \/ UnbindQueue \/ Unmap

Session == SessionStep \/ \E d \in Devs : NewDevice(d) \/ DestroyDevice(d)

Next == \/ \E q \in Queues : Lcore(q)
        \/ Session
        \/ \E t \in Threads : Drain(t)

Spec == Init /\ [][Next]_vars

\* An lcore polls for ever and the session thread, once in a callback, is
\* scheduled until it returns; stores do not stay buffered for ever.  Guests
\* are free to come and go or not.
Fairness == /\ \A q \in Queues : WF_vars(Lcore(q))
            /\ WF_vars(SessionStep)
            /\ \A t \in Threads : WF_vars(Drain(t))

FairSpec == Spec /\ Fairness

-----------------------------------------------------------------------------
LcorePc == {"idle", "mark", "recheck", "load", "use", "clear"}

Writes == [loc : {"executing"}, at : Queues, val : {0, 1}]
          \cup [loc : {"xfer"}, at : {0}, val : {0, 1}]
          \cup [loc : {"device"}, at : Queues, dev : Devs \cup {NULL}]

\* The shape of the driver's state.
TypeOK ==
  /\ xfer \in {0, 1}
  /\ executing \in [Queues -> {0, 1}]
  /\ device \in [Queues -> Devs \cup {NULL}]
  /\ internal \in [Queues -> BOOLEAN]
  /\ link \in {0, 1}
  /\ running \subseteq Devs
  /\ mapped \subseteq Devs
  /\ pc \in [Queues -> LcorePc]
  /\ hold \in [Queues -> Devs \cup {NULL}]
  /\ spc \in {"idle", "bind", "wait", "unbind"}
  /\ sdev \in Devs \cup {NULL}
  /\ spc # "idle" => sdev \in Devs
  /\ si \in 1..(N + 1)
  /\ sb \in [Threads -> Seq(Writes)] /\ depth \in Depths

\* rte_eth_vhost.c:392 "Wait until rx/tx_pkt_burst stops accesing vhost
\* device": an rx or tx burst never runs on a device that destroy_device has
\* given back to librte_vhost, nor on a null device pointer, however bursts,
\* reconnecting guests and a second guest on the same socket interleave.
NoUseAfterUnmap == \A q \in Queues : pc[q] = "use" => hold[q] \in mapped

\* new_device fills in the queues before it raises xfer, destroy_device empties
\* them after it lowered it: whenever an lcore can read xfer = 1, every queue
\* is bound to a device whose memory is mapped.  Store buffers are first in
\* first out, so this holds on x86 whatever their depth.
PublishedIsBound ==
  xfer = 1 => \A q \in Queues : device[q] \in mapped

\* Why NoUseAfterUnmap holds when stores are visible at once.  A burst past its
\* second look at xfer has its flag up, and either xfer is still up or
\* destroy_device has not yet passed its queue; the device it has loaded or
\* will load is mapped; while xfer is up no callback is tearing down.
Marked    == \A q \in Queues :
                pc[q] \in {"recheck", "load", "use", "clear"} => executing[q] = 1
Gated     == \A q \in Queues : pc[q] \in {"load", "use"} =>
                xfer = 1 \/ (spc = "wait" /\ si <= q)
Loadable  == \A q \in Queues : pc[q] = "load" => device[q] \in mapped
Binding   == spc = "bind" => \A q \in Queues : q < si => device[q] \in mapped
Teardown  == spc \in {"wait", "unbind"} => xfer = 0
Attending == spc # "idle" => sdev \in mapped
Kept      == running \subseteq mapped /\ (spc = "unbind" => sdev \notin running)
Handshake == /\ Marked
             /\ Gated
             /\ Loadable
             /\ Binding
             /\ Teardown
             /\ Attending
             /\ Kept
             /\ PublishedIsBound
             /\ NoUseAfterUnmap

\* On a machine whose stores are visible at once the flags, xfer and the device
\* pointers agree at every step of bursts, new_device and destroy_device.
DirectHandshake == depth = 0 => Handshake

\* On such a machine destroy_device (lines 393 to 408) waits long enough: every
\* burst has left the guest before its memory goes.
DirectNoUseAfterUnmap == depth = 0 => NoUseAfterUnmap

\* destroy_device's spin on the executing flags ends: although the lcores
\* never stop polling, xfer = 0 keeps each from raising its flag again.
DestroyReturns == (spc = "wait") ~> (spc = "unbind")
=============================================================================
