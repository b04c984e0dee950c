# Soft Patch Panel: TLA+ specifications and proofs

The repository is a copy of DPDK (2.1 and 2.2.0) and QEMU with a prototype on
top, the Soft Patch Panel: a primary DPDK process that creates packet pools and
rings, secondary processes that forward packets between the ports they are
given, and a management program in Python that tells each of them what to do.
The prototype's own code is in `dpdk-2.2.0/examples/multi_process/patch_panel/`
(below `PP/`), the vhost-user poll mode driver it adds in
`dpdk-2.2.0/drivers/net/vhost/rte_eth_vhost.c`, and a host shared memory library.
This directory models that code; DPDK and QEMU themselves only where it leans on
them (the ring, the pools, port allocation).

## Inventory

| component | state | operations | what is hard | what makes it correct |
|---|---|---|---|---|
| management program `PP/spp.py` (older: `controller.py`) | `secondary_list`, `secondary_count`, the `primary` flag, two queues per link | `pri`, `sec`, `status`, `bye`; accept a primary, accept a secondary, forward a command, pass on a reply, end of a connection | a shell, a primary thread, an accept thread and one thread per secondary share lists and queues without locks; links close or reset between a check and a use; ids are listed before their queues exist | each answer belongs to the command that was typed; the shell gets its prompt back; it survives wrong input |
| secondary `PP/sec_zerocpy` (same loops: `nfv_py`) | `cmd`, `ports_fwd_array`, the attached ethdevs, slot tables | `start` `stop` `forward` `exit` `add ring` `add vhost` `patch` `patch reset` `del` `save` `exec`; on each slave: one pass of `forward()` | the master edits the table the slaves walk, with no lock and no fence; constructors fail; several slaves drive the same queues | no call through a null pointer, no index outside the table, one poller per queue, a stop comes to rest, no port starves |
| secondary `PP/sec_memcpy` | as above and a pool per port | copies each mbuf into the out port's pool | pools that run out, mbufs of mixed pools in a burst | every mbuf is freed once, into the pool it came from |
| legacy client `PP/nfv`, `PP/client` | `cmd`, `loop_pos`, `save_pos`, rx/tx slots | `start` `stop` `add` `del` `save` `loop` | the slot switch against a slave that still uses the old slot | the slot being edited is not the one in use |
| legacy server `PP/patch_panel` | thread table with a mutex per entry | accept a client, queue a command, deliver it, end | check before lock, mutex held on an error path, reused entries | a queued command is delivered or its loss is seen |
| primaries `PP/pri_lvl1`, `pri_lvl2`, `pri_lvl3`, `main_py`, `ivshmem_py`, `vm_py` | pools, rings, ports | initialise; the agent loop (`status` `start` `stop` `add ring` `del` `exit`) | what secondaries look up must exist; bounded link polling | every ring is created before it is announced |
| vhost driver `rte_eth_vhost.c` | `xfer`, an executing flag and a device pointer per queue, link status | rx and tx bursts; `new_device`, `destroy_device`; create, register | bursts race the callbacks with a hand-made handshake of plain stores | no burst on a guest that was given back; `destroy_device` returns |
| ring driver and `rte_ring` | head and tail indexes modulo 2^32 | enqueue and dequeue bursts | indexes wrap; head moves before the data, tail after | a bounded FIFO |
| `PP/ovsdb.py` | message queues | OVSDB transactions, a monitor thread | two readers on one socket | each reply reaches its request |
| host shared memory library | mappings, configuration file | create, map | one process, file and mmap calls | not modelled |
| `PP/l2fwd` | the stock example | | | not modelled |

Interaction: every DPDK process connects to the management program and runs the
same agent loop (receive a command, do it, send one reply; `exit` closes without
one). Processes of one host share pools and rings through hugepages, found by
name. A ring or a vhost-user socket becomes an ethdev port; a patch joins two
ports of one secondary; guests come and go behind vhost ports.

The hazards found in this code, each at its line, are in `PROJECT.json`.

## Modules

| module | models | composed of |
|---|---|---|
| `VhostPmd`, `MCVhostPmd` | the vhost driver's handshake | |
| `VhostPmdProofs` | its theorems | extends `VhostPmd` |
| `SecForward`, `MCSecForward` | a secondary: master, slaves, forwarding table | |
| `SecForwardProofs` | its theorems | extends `SecForward` |
| `SppController`, `MCSppController` | the management program and the agents' ends of its connections | |
| `SppControllerProofs` | its theorems | extends `SppController` |
| `Fifo` | what a ring promises: a bounded FIFO of bursts | |
| `RteRing`, `MCRteRing` | the lock-free ring between two lcores | instantiates `Fifo` |
| `RteRingProofs` | its theorems, the refinement among them | extends `RteRing` |
| `NfvSlots`, `MCNfvSlots` | the legacy client's slot tables and slaves | |
| `NfvSlotsProofs` | its theorems | extends `NfvSlots` |
| `AgentLink`, `MCAgentLink` | an agent's connection loop with the management program's connection thread and TCP between them | |
| `PanelServer`, `MCPanelServer` | the legacy server's threads at one entry of its table, with a client that goes away and comes back | |
| `PanelServerProofs` | its theorems | extends `PanelServer` |
| `MbufPath`, `MCMbufPath` | the packet buffers in pools, rings and bursts of several forwarding processes | |
| `MbufPathProofs` | its theorems | extends `MbufPath` |
| `OvsdbClient`, `MCOvsdbClient` | the two readers of the OVSDB socket, with the server | |
| `ConnectionProofs` | the theorems of the two specifications of a TCP connection's client | extends `AgentLink` and `OvsdbClient` |

Operators whose comment begins "Variant with a bug" are not part of the
specifications: each is a changed form of the definition that follows it, kept
to see that a property notices the change.

### VhostPmd

One action per step of a burst (`Enter`, `Mark`, `Recheck`, `Load`, `Burst`,
`Clear`; rx and tx have the same handshake, so queues 1..NRx are rx and the rest
tx) and of the two callbacks, loops included (`NewDevice`, `BindQueue`,
`Publish`; `DestroyDevice`, `WaitQueue`, `Detach`, `UnbindQueue`). `Unmap` is
what librte_vhost does once the callback has returned
(`vhost_user/virtio-net-user.c:342`). `rte_atomic16_set` is a plain store,
so `xfer`, `executing` and `device` are written through a first-in first-out
store buffer of `depth` entries per thread, and `Drain` lets an entry reach
memory; nobody reads a location that is in his own buffer, so loads come from
memory. `depth` is fixed at the start, one of `Depths`; 0 is the machine with a
fence after every store, and the properties named `Direct...` are about it. The
counter update after a burst is a locked instruction and the unmap a system
call: both wait for an empty buffer. Guests may share a socket and reconnect at
any time.

### SecForward

The master handles one command at a time. `start`, `stop`, `forward`, `del` are
one store to `cmd` (`SetCmd`); `add ring` and `add vhost` allocate a port and
enter it (`AddRing`, `AddVhost`, `Attach`, `EnterPort`); `add rx ring` and `add
tx ring` allocate a port and enter none (`AddSlotRing`); an unknown ring, and for
`add vhost` a pool that is not there, ends the process;
`patch` is seven stores in program order (`Patch`, `PatchStore`, `PatchReply`),
which is also the order of the stores to each entry in the object file kept in
the repository, and `patch reset` a walk over the table (`ResetPort`). A slave
goes through `BeginPass`, `ScanPort`, `CallRx`, `RxReturn`, `CallTx`,
`TxReturn`, `EndPass`. Two outcomes end the model where C leaves the behaviour
undefined: `proc = "null call"` and `proc = "bad index"`. The operator patches
ports that are attached, before or while the slaves forward; the code takes any
number (lines 730 to 740). The slot tables that `add rx`, `add tx`, `save` and
`exec` write are left out: only `rxtx()` reads them, and no command starts it.
`status` changes nothing. A slave's two readings of `out_port_id` (lines 244 and
247) are one load: the field is not volatile, and the object file kept in the
repository loads it once. Names are numbers with their template; they have room
for three digits, which `RingName` never exceeds and `VhostIds` is assumed not to.

### SppController

Secondaries are numbered by `secondary_count`, the primary's link is one more.
`DoPri`/`DoSec` are the checks, `ShellPut` and `ShellGet` the two queue
operations after them; `AcceptSecondary`, `MakeQueue` (twice), `SpawnThread` the
accept thread; `PrimaryAccept`, `PrimaryLost` the primary thread's outer loop;
`ThreadSend`, `ThreadReply`, `ThreadClosing`, `ThreadError`, `Unlist` the loop
that both kinds of thread run. `AgentReply` is one round of an agent's loop and
`AgentDies` its end: the connection is closed or reset, before or after a reply
under way. A send on a closed connection succeeds and may provoke a reset; on a
reset one it raises, as does a receive. A message is one segment (`AgentLink`
has the replies in pieces). When the shell ends, by `bye` or an exception
nothing catches, the program and all its threads end.

### Fifo and RteRing

The primary creates its rings for one producer and one consumer
(`pri_lvl1/init.c:222`), so the model has one of each, on
`__rte_ring_sp_do_enqueue` and `__rte_ring_sc_do_dequeue`: load the own head and
the other's tail and compute the count (`EnqLoad`, `DeqLoad`; a call that can
move nothing returns here), store the head (`EnqHead`, `DeqHead`), copy slot by
slot (`EnqCopy`, `DeqCopy`), store the tail (`EnqTail`, `DeqTail`). Indexes wrap
at `M`, any multiple of the ring's size (2^32 in the code), and every sum and
difference is taken modulo `M`. `Fixed` chooses between the bulk calls of the
legacy programs and the burst calls of the ring ports. Memory is sequentially
consistent here: on x86 stores are seen in order and the code's compiler barriers
keep the order of the source, and a side that reads an old tail only moves less.
The watermark is never reached and the statistics are counters; both are left
out. `Fifo` is the abstract specification: a queue of at most `Cap` objects, the
calls on it in one step, and the last call's outcome as the observable part. The
refinement maps the queue to the slots from `cons_tail` to `prod_tail`.

### NfvSlots

`nfv.c` keeps rx and tx ports and functions in slots; slaves forward with slot
`loop_pos`, the operator edits slot `save_pos`. Stores and loads are steps of
their own: `add` is port then function (`AddPort`/`AddRing`, `AddFunc`), `del`
is `STOP`, port, function (`Del`, `DelStorePort`, `DelStoreFunc`); a slave reads
`cmd` (`Poll`), `loop_pos` (`ReadLoopPos`), then port and function for each half
(`LoadRxPort`, `CallRx`, `LoadTxPort`, `CallTx`). A call through null or to a
port that does not exist ends the model. The code trusts its operator with the
slots; whether he deserves it is the variable `careful`, fixed at the start: a
careful one sends slaves only to complete slots and edits no slot they were sent
to. A careless one may also name a slot outside the tables, which `save` and
`loop` do not refuse (`nfv.c:495`, `520`); the first use of it is undefined, and
the model stops at the command (`OutOfTable`). The port of `add rx` and `add tx`
is a PCI port's; the code takes any number there (lines 428 and 448), and one
that is no ethdev does what the -1 of a ring that could not be added does.

### AgentLink

The loop on the master lcore of `sec_zerocpy.c` (`TryConnect`, `Recv`,
`RecvFails`, `Send`; the primaries' is the same) against `connectionthread` of
`spp.py` (`SendCommand`, `RecvReply`, `ThreadEnds`), with management programs
that end, are killed or lose their host and are started again. A `socket()` that
fails ends the agent. A reply comes in
1 to `MaxPieces` segments and `recv` takes any number of those that have arrived.
TCP is external: an end with unread data resets the connection, one without
sends a FIN, a host without power sends nothing; writing after a FIN succeeds
once, and then raises SIGPIPE, which the agent does not handle; a socket that
was connected once cannot be connected again. `whole` remembers whether every
reply so far came in one segment and no host lost power.

### PanelServer

`patch_panel/main.c`: the prompt (`Type`, `SetQueued`, `CliLock`,
`CopyCommand`), the accept thread, which resets the client's entry field by
field (`Accept`, `SetSocket`, `SetAction`, `ClearCommand`, `InitMutex`), and one
handler per connection (`Start`, `Poll`, `HandlerSleeps`, `Take`, `SendOk`,
`SendFails`, `RecvCall`, `Recv`, and the way out `Close`, `Free`, `FreeTwice`,
`ExitUnlock`, `ExitReset`, `ExitDestroy`), at one entry. A handler finds its
connection through the entry when it starts, so after a second connection the
first handler may use the second's socket or one that was freed; a `recv` on a
descriptor that the other handler has closed fails, and one that is already
waiting goes on waiting. `thread_count` is only printed, and `pthread_create`
does not fail.

The mutex is glibc's default one, as a word (`futex`): 0 free, 1 held, 2 held and
some thread may sleep on it. `Lock` takes a free one; `Sleep` stores 2 and waits
in the kernel; `Unlock`, by whichever thread, stores 0 and wakes one sleeper only
if the word was 2; `pthread_mutex_init` stores 0 and wakes nobody; after
`pthread_mutex_destroy` lock and unlock return at once with an error nobody looks
at. A thread that sleeps while the word is set to 0 under it is woken by a later
unlock only if another thread has found the mutex held in between. The
second free of one socket goes unseen or aborts the program. At most two
connections of one client are modelled, so that no descriptor number is reused.

### MbufPath

Every buffer of every pool, and where it is: in a pool, in a ring, in the burst
a route has received or is about to send. A route is an in port and an out port
joined by one process. `RxAlloc` (a NIC or vhost port takes buffers from its
pool and sets their count to 1), `RxRing`; `Copy` and `CopyFails` are
`copy_mbufs` of `sec_memcpy`, which puts the originals into the pool of the
first and takes copies from the out port's pool with the count they have;
`TxFree` (a NIC or vhost port frees what it has sent with `rte_pktmbuf_free`,
`forward` puts the rest), `TxRing`. The 16-bit reference count wraps. Which
routes copy is `copying`, one of `CopyModes`, fixed at the start.

Two restrictions. Packets have one segment. A guest's packet that is larger than a
buffer becomes a chain (`vhost_rxtx.c:702`, `736`), and `rte_mempool_put` of an
unsent one (`sec_zerocpy.c:267`) gives back its head only, as does `copy_mbufs`
with an original (`sec_memcpy.c:275`): with chains `LostOnlyAsCopy` would fail on
routes that copy nothing, and `PoolRefills` with it. And `tx_pools` is a parameter
with a pool for every port: in `sec_memcpy.c` the entries are null until `add tx
pool` (lines 126 and 783), and a packet to such a port crashes at line 237.

### OvsdbClient

The main thread sends a request and gathers the reply (`Request`, `Gather`,
`GatherFails`, until `Exit`); the monitor thread selects, receives and sends back
what it received (`MonSelect`, `MonRecv`, `MonSend`, `MonFails`), on the same
socket. The server is external: replies in one or two segments, echo requests
between replies, a close at any time. An echo request that the monitor thread
sends back is a request to the server, which answers it (RFC 7047, 4.1.11) with a
text that holds all three names `gather_reply` waits for (`Pong`); a text of
several messages is answered in part or in full. `misled` counts how often main
returned such an answer as the reply to its own request. The
names this module would share with `AgentLink` carry the prefix `Ovsdb`, so that
one module can extend both.

## Runs

| run | bounds | shows |
|---|---|---|
| `vhost` | 1 rx, 1 tx queue, 2 guests, store buffers of 0 or 2 entries | without buffers no burst on an unmapped guest (`DirectNoUseAfterUnmap`), with its inductive invariant (`DirectHandshake`); with both, `xfer = 1` is never visible before the queues are bound (`PublishedIsBound`), and `DestroyReturns` |
| `vhost_race` | same, 1 entry | violation: without a fence the handshake does not exclude a burst on an unmapped guest |
| `sec` | 2 table entries, 1 slave, rings that exist, do not, and one named by 300, a vhost port | `TableInv`, and from it `ResetClears` and `NullCallOnlyMidPatch`; `StopQuiesces`, `EveryPatchPolled` |
| `sec_hot_null` | same | violation: null transmit function between lines 735 and 740 |
| `spp` | 2 secondaries, 2 primaries, 3 commands | `AnswersMatch`, `ShellReturns` |
| `ring_burst` | 4 slots, indexes wrap at 8, bursts of 1 or 2, 2 objects | `CountsInRange`, `ClaimsDisjoint`, `ImplementsFifo`, `Drains` |
| `nfv` | 2 slots, 2 ethdevs, 1 slave, 1 ring that exists and 1 that does not, both kinds of operator | `NoBadCall`, `PairUnmixed`, `StopQuiesces`, `LoopTakesEffect` |
| `agent` | replies of 1 to 3 segments, 4 ends or power losses of the management program | `OneCommand`, `NeverStuck`, `Reconnects` |
| `panel` | a client that connects twice, 2 commands | `OneMessageEach`, `AtMostOneLate`, `PromptReturns` |
| `mbuf` | pools of 2 and of 3 buffers, a NIC and a vhost port into one ring, the ring to a vhost port, bursts of 2, a ring of 3; no route copies, the NIC's does, both into the ring do, only the one out of the ring does, all do | `NeverTwice`, `LostOnlyAsCopy`, `InOwnPool`, `PoolRefills` |
| `mbuf_copy_leak` | same, the NIC's route copies | violation: a copy that was sent does not come back |
| `ovsdb` | 5 requests, 2 before the monitor thread, 3 echo requests | `RepliesInStep`, `MainReturns` |

Why the bounds are enough. Two queues and two guests let each queue be at a
different step and one guest replace another. Two table entries hold a physical
port and a ring, patched to each other or to themselves, and a failure to add one
more. Two secondaries, two primaries and three commands let a connection be
replaced while a command is under way and another one follow. Four slots and
twice as many indexes let a burst cross the end of the ring with and without the
indexes wrapping; a fixed `M` of twice the size is the hardest case, a larger
multiple only takes longer to come round. Two slots let the slave be in one while
the operator edits the other and switches. Four ends of the management program
reach every step of a second connection, and three segments leave two stale ones.
Two commands let the second overtake the first and let one be typed on each of
two connections. Three requests beside the monitor thread and three echo requests
let main be misled twice and still get an older reply. Bursts that are
most of a pool and of the ring make both run out. Where a theorem covers the
property (below) the bounds do not matter.

Deadlock checking is off where the system may stop: a secondary or legacy client
that exited, a management program that ended or whose shell waits on a dead
link, a server nobody connects to. The vhost, ring and mbuf runs check it.

Fairness, all of it weak. `VhostPmd`: lcores poll for ever on cores of their
own, a callback that has begun is scheduled until it returns, stores drain;
guests need not do anything. `SecForward`: slaves spin on their cores, the master
finishes the command it began; no command has to come, and bursts may be empty
for ever. `SppController`: the interpreter schedules every thread that can run,
an agent whose connection is open answers; nobody has to type, connect or die.
`RteRing`: the consumer polls for ever and a call that has begun returns; nobody
has to enqueue. `NfvSlots`: slaves spin; no command has to come. `AgentLink`: the
master lcore runs its loop; the management program need not do anything.
`PanelServer`: threads that can run do; nobody has to type or connect.
`MbufPath`: an lcore goes on receiving from rings and sending; no packet has to
arrive. `OvsdbClient`: both threads run, and the server sends what it owes until
it closes.

### What the runs do not promise

Some properties name the exceptions the code has. They are the places to look at
first when this code is changed.

* `ShellReturns`: a reset connection makes `send` or `recv` raise, and the thread
  leaves its loop without putting an answer (`spp.py:51-53`, `64-66`, `152-154`,
  `166-168`); and a command put after its thread has ended stays in the queue.
  In both the shell waits for ever.
* An id that is not listed ends the shell (`spp.py:116` formats two numbers from
  one), and so does one that is listed before its queues exist.
* `add ring` of a ring that is attached already, or one port too many, stores at
  the constructor's -1 (`proc = "bad index"`, `sec_zerocpy.c:671`). `start` is
  answered like a command that forwards, and `nfv_loop` does nothing on it.
  Several slave lcores all poll queue 0 of every port.
* `NoBadCall` and `PairUnmixed` need a careful operator; an edit of a slot in
  use, or `loop` to an empty slot, ends the process.
* `Reconnects`: after a reply in segments or a power loss an agent may end up
  with a socket it can neither use nor connect (`sec_zerocpy.c:807`), or wait
  for ever on a connection without a peer.
* `AtMostOneLate`: the prompt stores `action` before the command
  (`patch_panel/main.c:605`), so the message may be the command before, and the
  new one then is never sent. On a second connection the old handler, which
  notices the end of its own only at the next command, closes the new one's
  socket and takes its entry out of service (lines 419 to 424); `Undisturbed`
  leaves that out of the two invariants, and only `PromptReturns` covers it.
* `PromptReturns`: the accept thread initialises the mutex of an entry that is in
  use (`patch_panel/main.c:494`). A prompt that sleeps on it at line 606 is not
  woken by that, nor by the unlock of the handler it waited for, which finds 0
  (line 421): it sleeps for ever (`Stranded`). A mutex destroyed under the sleeper
  (line 426) does the same. Both need a second connection, as does the second
  free that may abort the program.
* `InOwnPool` is about the choices of copying routes in `OnePoolModes`, those in
  which each route that copies receives buffers of one pool only: `copy_mbufs`
  gives a whole burst to the pool of its first buffer (`sec_memcpy.c:275`). When
  only the route out of the ring copies, the ring carries buffers of both pools,
  and a buffer does end up in the other one.
* `RepliesInStep`: an answer to an echo request that came back (`ovsdb.py:55`) is
  returned as the reply to a request, and the reply stays in the socket for the
  next one. Nothing brings main back into step. Where main returns such an answer
  itself (`answer = 0` with `misled > 0`) the property says nothing.
* `MainReturns`: `gather_reply` stops at the names of the fields, so a reply in
  two segments, or behind an echo request, can raise in `json.loads`
  (`ovsdb.py:19-27`); when the monitor thread takes a reply, main waits for ever.

## Proofs

For every value of the constants, from `VhostAssumption`, `SecAssumption`,
`RingAssumption`, `NfvAssumption`, `LinkAssumption`, `SppAssumption`,
`PanelAssumption`, `MbufAssumption` and `OvsdbAssumption`, which stand in the modules that declare
the constants and are evaluated by the runs.

`VhostPmdProofs`, for any number of queues and guests:

* `VhostTypeCorrect`: `Spec => []TypeOK`, for every depth of the store buffers.
* `VhostHandshake`, `VhostNoUseAfterUnmap`: `Spec => []DirectHandshake`,
  `Spec => []DirectNoUseAfterUnmap`. The latter alone is not inductive:
  `Handshake` adds that a burst past its mark has its flag up (`Marked`); past
  its second look at `xfer`, either `xfer` is still up or `destroy_device` has
  not passed its queue (`Gated`); what it will load is mapped (`Loadable`); and
  what the callbacks have done at each step (`Binding`, `Teardown`, `Attending`,
  `Kept`, `PublishedIsBound`).
* `VhostPublishedIsBound`: `Spec => []PublishedIsBound`, for every depth. The
  invariant, `BufferInv`, is about the order of the session thread's buffered
  stores: one that raises `xfer` is behind the stores that bind the queues
  (`RaisedLast`, `BoundSoFar`); one that unbinds a queue is behind one that lowers
  `xfer` (`Lowering`) and comes from the last loop only (`SafeUntil`); lcores
  buffer nothing but their flags (`FlagsOnly`).

`SecForwardProofs`, for any table size, slaves, rings and vhost ports, with
patches at any time:

* `SecTypeCorrect`: `Spec => []TypeOK`.
* `SecTableInv`, and from it `SecResetClears`: a visible patch has its in port active with both functions
  and its out port's transmit function unless the master is still storing it
  (`PatchedReady`); the master's stores go in order (`MasterInOrder`); what a
  slave holds was ready when it loaded it, and no store takes a function away
  (`SlaveSawReady`).
* `SecNullCallOnlyMidPatch`: the one null call there is happens through the
  transmit function in the middle of the patch command that names the port.

`RteRingProofs`, for every size, every multiple of it as wrap-around, every
burst, for burst and bulk calls:

* `RingTypeCorrect`; `RingCountsInRange`; `RingClaimsDisjoint`. The invariant is
  `RingInv`: the indexes are never a whole ring apart, each side's locals agree
  with the shared indexes at each of its steps, what a side has counted is still
  there or still free although the other has moved on, and the slots it has
  copied are what they should be.
* `RingImplementsFifo`: `Spec => ImplementsFifo`. A step that stores a tail, or
  a load that finds nothing to do, is a step of the FIFO; every other step leaves
  the mapped queue alone. The lemma that carries it is `LowBits`: since `M` is a
  multiple of `Size`, wrapping an index does not change the slot it selects.

`NfvSlotsProofs`, for any number of slots, ports, rings and slaves:

* `NfvTypeCorrect`, for any operator.
* `NfvNoBadCall`, `NfvPairUnmixed`, from `CarefulInv`: slots in use are complete
  and not being edited (`InUse`), and what a slave holds comes from one of them
  (`SlaveInUse`).

`ConnectionProofs`, about `AgentLink`, for any number of segments and of restarts:

* `LinkTypeCorrect`; `LinkOneCommand`, `LinkNeverStuck`. The invariant says, while
  replies arrive whole, that at most one command is under way wherever it is, and
  that the connection thread knows of it while the connection stands
  (`OneUnderWay`); and what a connection that is gone leaves behind (`GoneInv`):
  one was reset only because it held an answer, so the agent has none to send.

`ConnectionProofs`, about `OvsdbClient`, for any number of requests and echo
requests:

* `OvsdbTypeCorrect`: with `MonQueue`, which says how long the monitor thread's
  queue is at each of its steps, since it sends only when select found something
  to send.
* `OvsdbRepliesInStep`. Nothing in a reply names its request, so the invariant,
  `StreamInv`, is about all segments there are: what main has gathered, what has
  arrived and what the server owes are, in this order, replies in the order of the
  requests, between them echo requests and answers to echo requests; the oldest
  reply among them (`Oldest`) is to the last request or as many requests before it
  as main was misled. Taking segments away, as the monitor thread does, keeps
  that, and so does putting answers to echo requests anywhere.

`SppControllerProofs`, for any number of secondaries, primaries and commands:

* `SppTypeCorrect`: `Spec => []TypeOK`.
* `SppAnswersMatch`: `Spec => []AnswersMatch`. An answer carries nothing that
  names its command and the queues outlive their connections, so the property
  rests on how much is ever under way. `SppInv` says that a link carries at most
  one command or answer over its two queues, its thread and its two directions,
  and that it is the current one (`OneOnLink`); that there is one in a queue or
  with the thread only while the shell waits for that very link (`AwaitedOn`);
  and that an id the accept thread has not come to has no thread (`Unborn`,
  `Room`).

`PanelServerProofs`, for any number of commands and one or two connections:

* `PanelTypeCorrect`: `Spec => []TypeOK`.
* `PanelOneMessageEach`, `PanelAtMostOneLate`. Action and command are tested and
  stored without the mutex at one end and with it at the other, so the invariant
  counts. `EntryInv`, on an undisturbed entry: nothing is accepted before the
  handler starts (`BeforeStart`); while it runs, each command accepted and not
  sent is at the prompt, in the entry or with the handler (`Counted`), whoever
  copies or sends holds the mutex (`Locked`), and the entry holds the command
  accepted last, or the one before while the prompt has not copied (`Copied`,
  `InStep`).

`MbufPathProofs`, for any pools, ports, routes, copying routes, bursts and ring
sizes:

* `MbufTypeCorrect`: `Spec => []TypeOK`.
* `MbufNeverTwice`, `MbufLostOnlyAsCopy`. Where a freed buffer goes depends on its
  count, and what the count is on where the buffer came from, so both follow from
  one invariant, `BufInv`: a buffer has at most one holder (`OneHolder`) and is in
  it once (`Once`); what waits to be copied was received by a copying route that
  has nothing to send (`CopiedFirst`); a buffer that is somewhere has a count of 0
  or 1, and 1 while it is in use and nothing is copied, and one that is nowhere
  has wrapped below 0 (`Counts`).
* `MbufInOwnPool`. The invariant, `OriginInv`, quantifies over every assignment
  `P` of pools to ports that is closed under the routes (`Feeds`): the buffers in
  rings and bursts come from the pools of their port. A copying route whose in
  port has one pool then puts its burst where it belongs.

Only model-checked. Liveness under fairness, which is out of the prover's reach:
`DestroyReturns`, `StopQuiesces`, `EveryPatchPolled`, `ShellReturns`, `Drains`,
`LoopTakesEffect`, `Reconnects`, `PromptReturns`, `PoolRefills`, `MainReturns`.
Every invariant that a run checks is also proved.

## Plan

Left to do, in this order:

1. `AgentLink` composed with `SppController`: replies in pieces seen by the shell.
2. The multi-producer and multi-consumer functions of `rte_ring`, which the
   pools use.
3. `PrimaryInit`: pools and rings exist before a secondary looks them up.

## Not modelled

DPDK and QEMU, other than the ring, the pools, port allocation, the vhost
callbacks' order and x86 store order: third-party code, and nearly all of the
repository's lines. The host shared memory library (file and mmap calls of one
process); `l2fwd` (the stock example); `controller.py` (an older `spp.py` with
the same threads); the primaries' creation of pools and rings (once, in one
thread, before the command loop); the ivshmem and guest variants of the
primary; the vhost driver's device operations and set-up; formatting of
replies, logging, command line parsing; recording and playback of commands.
