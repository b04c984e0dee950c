------------------------------ MODULE NfvSlots ------------------------------
(***************************************************************************)
(* The legacy client nfv.c.  Its slave lcores forward from the rx port to  *)
(* the tx port of one slot of a table, slot loop_pos; the master edits     *)
(* another slot, save_pos, and "loop" switches the slaves over, all of it  *)
(* without a lock.  Each slave reads loop_pos once a round into curr.      *)
(*                                                                         *)
(* Stores and loads are steps of their own, in the order of the source; a  *)
(* slave loads a port before it calls through the function pointer, as the *)
(* binary kept beside the source does.  What a burst carries is left out;  *)
(* locals go back to their first value when they are dead.                 *)
(***************************************************************************)
EXTENDS Integers, FiniteSets

CONSTANTS NSlots,     \* RTE_MAX_ETHPORTS, the size of the slot tables
          MaxPorts,   \* RTE_MAX_ETHPORTS, the size of rte_eth_devices
          NPhy,       \* ethdevs at start
          Slaves,     \* the slave lcores
          HostRings,  \* rings the primary has created
          RingIds     \* rings the operator names

ASSUME NfvAssumption ==
  /\ NSlots \in Nat \ {0}
  /\ MaxPorts \in Nat \ {0}
  /\ NPhy \in 1..MaxPorts

SlotSet == 0..(NSlots - 1)
BadPort == -1                 \* rte_eth_from_ring failed
DelPort == MaxPorts + 1       \* what "del" stores
PortVals == {BadPort, DelPort} \cup 0..(MaxPorts - 1)
Sides == {"rx", "tx"}

VARIABLES
  proc,                \* "up", "exited", or how the process died
  cmd, loop_pos, save_pos,
  ports, funcs,        \* rx_ports, tx_ports, rx_funcs, tx_funcs by side and slot
  eth,                 \* number of ethdevs
  rings,               \* rings that are ethdevs already
  mpc, side,           \* the master: step, which table add and del edit
  spc, curr, port,     \* each slave: step, its slot, the port it loaded
  rxport,              \* each slave: the port its burst came from
  used,                \* history: slots that slaves have been sent to since the start
  careful              \* does the operator leave slots in use alone?

slaveVars == <<spc, curr, port, rxport>>
masterVars == <<mpc, side>>
vars == <<proc, cmd, loop_pos, save_pos, ports, funcs, eth, rings, mpc, side,
          spc, curr, port, rxport, used, careful>>

\* The tables are static: ports 0, null function pointers.
Init ==
  /\ proc = "up" /\ cmd = "STOP" /\ loop_pos = 0 /\ save_pos = 0
  /\ ports = [d \in Sides |-> [i \in SlotSet |-> 0]]
  /\ funcs = [d \in Sides |-> [i \in SlotSet |-> FALSE]]
  /\ eth = NPhy /\ rings = {}
  /\ mpc = "recv" /\ side = "rx"
  /\ spc = [s \in Slaves |-> "poll"] /\ curr = [s \in Slaves |-> 0]
  /\ port = [s \in Slaves |-> 0] /\ rxport = [s \in Slaves |-> 0]
  /\ used = {} /\ careful \in BOOLEAN

Up == proc = "up"
AtRecv == Up /\ mpc = "recv"

Complete(i) ==
  \A d \in Sides : funcs[d][i] /\ ports[d][i] \in 0..(eth - 1)

PairOf(i) == <<ports["rx"][i], ports["tx"][i]>>

\* What a careful operator does: he sends the slaves to a slot only when it is
\* complete, and does not touch a slot they were sent to.
MaySelect(i) == careful => Complete(i)
MayEdit(i) == careful => i \notin used
\* Only a careful operator keeps account of them.
Sent(i) == used' = IF careful THEN used \cup {i} ELSE used

(* --- the master ----------------------------------------------------------- *)

Start ==
  /\ AtRecv /\ MaySelect(loop_pos)
  /\ cmd' = "START"
  /\ Sent(loop_pos)
  /\ UNCHANGED <<careful, proc, loop_pos, save_pos, ports, funcs, eth, rings,
                 masterVars, slaveVars>>

Stop ==
  /\ AtRecv
  /\ cmd' = "STOP"
  /\ UNCHANGED <<careful, proc, loop_pos, save_pos, ports, funcs, eth, rings,
                 masterVars, slaveVars, used>>

\* "add rx <port>", "add tx <port>": the number is a PCI port's.
AddPort(d, p) ==
  /\ AtRecv /\ MayEdit(save_pos)
  /\ ports' = [ports EXCEPT ![d][save_pos] = p]
  /\ side' = d /\ mpc' = "add func"
  /\ UNCHANGED <<careful, proc, cmd, loop_pos, save_pos, funcs, eth, rings,
                 slaveVars, used>>

\* Variant with a bug: an ethdev is counted although its constructor failed.
AddRingCountsFailed(d, r) ==
  /\ AtRecv /\ MayEdit(save_pos)
  /\ IF r \notin HostRings
     THEN /\ proc' = "exited"
          /\ UNCHANGED <<ports, eth, rings, masterVars>>
     ELSE LET ok == r \notin rings /\ eth < MaxPorts
              p == IF ok THEN eth ELSE BadPort
          IN  /\ ports' = [ports EXCEPT ![d][save_pos] = p]
              /\ eth' = eth + 1
              /\ rings' = IF ok THEN rings \cup {r} ELSE rings
              /\ side' = d /\ mpc' = "add func"
              /\ UNCHANGED proc
  /\ UNCHANGED <<careful, cmd, loop_pos, save_pos, funcs, slaveVars, used>>

\* "add rx ring <id>", "add tx ring <id>": an unknown ring ends the process; a
\* ring that is an ethdev already, or no room for one more, gives -1.
AddRing(d, r) ==
  /\ AtRecv /\ MayEdit(save_pos)
  /\ IF r \notin HostRings
     THEN /\ proc' = "exited"
          /\ UNCHANGED <<ports, eth, rings, masterVars>>
     ELSE LET ok == r \notin rings /\ eth < MaxPorts
              p == IF ok THEN eth ELSE BadPort
          IN  /\ ports' = [ports EXCEPT ![d][save_pos] = p]
              /\ eth' = IF ok THEN eth + 1 ELSE eth
              /\ rings' = IF ok THEN rings \cup {r} ELSE rings
              /\ side' = d /\ mpc' = "add func"
              /\ UNCHANGED proc
  /\ UNCHANGED <<careful, cmd, loop_pos, save_pos, funcs, slaveVars, used>>

AddFunc ==
  /\ Up /\ mpc = "add func"
  /\ funcs' = [funcs EXCEPT ![side][save_pos] = TRUE]
  /\ mpc' = "recv" /\ side' = "rx"
  /\ UNCHANGED <<careful, proc, cmd, loop_pos, save_pos, ports, eth, rings,
                 slaveVars, used>>

Del(d) ==
  /\ AtRecv /\ MayEdit(save_pos)
  /\ cmd' = "STOP"
  /\ side' = d /\ mpc' = "del port"
  /\ UNCHANGED <<careful, proc, loop_pos, save_pos, ports, funcs, eth, rings,
                 slaveVars, used>>

DelStorePort ==
  /\ Up /\ mpc = "del port"
  /\ ports' = [ports EXCEPT ![side][save_pos] = DelPort]
  /\ mpc' = "del func"
  /\ UNCHANGED <<careful, proc, cmd, loop_pos, save_pos, funcs, eth, rings, side,
                 slaveVars, used>>

DelStoreFunc ==
  /\ Up /\ mpc = "del func"
  /\ funcs' = [funcs EXCEPT ![side][save_pos] = FALSE]
  /\ mpc' = "recv" /\ side' = "rx"
  /\ UNCHANGED <<careful, proc, cmd, loop_pos, save_pos, ports, eth, rings,
                 slaveVars, used>>

\* "save <i>": refused for the slot of the loop.
Save(i) ==
  /\ AtRecv
  /\ save_pos' = IF i = loop_pos THEN save_pos ELSE i
  /\ UNCHANGED <<careful, proc, cmd, loop_pos, ports, funcs, eth, rings,
                 masterVars, slaveVars, used>>

\* "loop <i>".
Loop(i) ==
  /\ AtRecv /\ MaySelect(i)
  /\ loop_pos' = i
  /\ IF used = {} THEN UNCHANGED used ELSE Sent(i)
  /\ UNCHANGED <<careful, proc, cmd, save_pos, ports, funcs, eth, rings,
                 masterVars, slaveVars>>

\* "save <i>" or "loop <i>" with an index outside the tables, which nothing
\* refuses: the first use of it is undefined, and the model stops here.
OutOfTable ==
  /\ AtRecv /\ ~careful
  /\ proc' = "bad slot"
  /\ UNCHANGED <<careful, cmd, loop_pos, save_pos, ports, funcs, eth, rings,
                 masterVars, slaveVars, used>>

(* --- a slave: nfv_loop ----------------------------------------------------- *)

\* Variant with a bug: the test of cmd is lost.
PollUnchecked(s) ==
  /\ Up /\ spc[s] = "poll"
  /\ spc' = [spc EXCEPT ![s] = "curr"]
  /\ UNCHANGED <<careful, proc, cmd, loop_pos, save_pos, ports, funcs, eth, rings,
                 masterVars, curr, port, rxport, used>>

\* Reads cmd; if it is not START the slave sleeps a second and looks again.
Poll(s) ==
  /\ Up /\ spc[s] = "poll" /\ cmd = "START"
  /\ spc' = [spc EXCEPT ![s] = "curr"]
  /\ UNCHANGED <<careful, proc, cmd, loop_pos, save_pos, ports, funcs, eth, rings,
                 masterVars, curr, port, rxport, used>>

\* Variant with a bug: the slot is chosen once, before the loop.
ReadLoopPosOnce(s) ==
  /\ Up /\ spc[s] = "curr"
  /\ spc' = [spc EXCEPT ![s] = "rx port"]
  /\ UNCHANGED <<careful, proc, cmd, loop_pos, save_pos, ports, funcs, eth, rings,
                 masterVars, curr, port, rxport, used>>

ReadLoopPos(s) ==
  /\ Up /\ spc[s] = "curr"
  /\ curr' = [curr EXCEPT ![s] = loop_pos]
  /\ spc' = [spc EXCEPT ![s] = "rx port"]
  /\ UNCHANGED <<careful, proc, cmd, loop_pos, save_pos, ports, funcs, eth, rings,
                 masterVars, port, rxport, used>>

LoadRxPort(s) ==
  /\ Up /\ spc[s] = "rx port"
  /\ port' = [port EXCEPT ![s] = ports["rx"][curr[s]]]
  /\ spc' = [spc EXCEPT ![s] = "rx call"]
  /\ UNCHANGED <<careful, proc, cmd, loop_pos, save_pos, ports, funcs, eth, rings,
                 masterVars, curr, rxport, used>>

\* rx_funcs[curr](port, ...): a null pointer, or a port that is no ethdev, is
\* undefined behaviour, modelled as the end of the process.
CallRx(s) ==
  /\ Up /\ spc[s] = "rx call"
  /\ \/ /\ ~funcs["rx"][curr[s]]
        /\ proc' = "null call"
        /\ UNCHANGED slaveVars
     \/ /\ funcs["rx"][curr[s]] /\ port[s] \notin 0..(eth - 1)
        /\ proc' = "bad port"
        /\ UNCHANGED slaveVars
     \/ /\ funcs["rx"][curr[s]] /\ port[s] \in 0..(eth - 1)
        /\ \/ /\ spc' = [spc EXCEPT ![s] = "poll"]  \* nb_rx == 0
              /\ curr' = [curr EXCEPT ![s] = 0]
              /\ UNCHANGED rxport
           \/ /\ spc' = [spc EXCEPT ![s] = "tx port"]
              /\ rxport' = [rxport EXCEPT ![s] = port[s]]
              /\ UNCHANGED curr
        /\ port' = [port EXCEPT ![s] = 0]
        /\ UNCHANGED proc
  /\ UNCHANGED <<careful, cmd, loop_pos, save_pos, ports, funcs, eth, rings,
                 masterVars, used>>

\* Variant with a bug: loop_pos is read again for the transmit half.
LoadTxPortAgain(s) ==
  /\ Up /\ spc[s] = "tx port"
  /\ port' = [port EXCEPT ![s] = ports["tx"][loop_pos]]
  /\ spc' = [spc EXCEPT ![s] = "tx call"]
  /\ UNCHANGED <<careful, proc, cmd, loop_pos, save_pos, ports, funcs, eth, rings,
                 masterVars, curr, rxport, used>>

LoadTxPort(s) ==
  /\ Up /\ spc[s] = "tx port"
  /\ port' = [port EXCEPT ![s] = ports["tx"][curr[s]]]
  /\ spc' = [spc EXCEPT ![s] = "tx call"]
  /\ UNCHANGED <<careful, proc, cmd, loop_pos, save_pos, ports, funcs, eth, rings,
                 masterVars, curr, rxport, used>>

\* tx_funcs[curr](port, ...), then the unsent packets are freed.
CallTx(s) ==
  /\ Up /\ spc[s] = "tx call"
  /\ \/ /\ ~funcs["tx"][curr[s]]
        /\ proc' = "null call"
        /\ UNCHANGED slaveVars
     \/ /\ funcs["tx"][curr[s]] /\ port[s] \notin 0..(eth - 1)
        /\ proc' = "bad port"
        /\ UNCHANGED slaveVars
     \/ /\ funcs["tx"][curr[s]] /\ port[s] \in 0..(eth - 1)
        /\ spc' = [spc EXCEPT ![s] = "poll"] /\ curr' = [curr EXCEPT ![s] = 0]
        /\ port' = [port EXCEPT ![s] = 0] /\ rxport' = [rxport EXCEPT ![s] = 0]
        /\ UNCHANGED proc
  /\ UNCHANGED <<careful, cmd, loop_pos, save_pos, ports, funcs, eth, rings,
                 masterVars, used>>

Master ==
  \/ Start \/ Stop \/ AddFunc \/ DelStorePort \/ DelStoreFunc \/ OutOfTable
  \/ \E d \in Sides : \/ \E p \in 0..(NPhy - 1) : AddPort(d, p)
                      \/ \E r \in RingIds : AddRing(d, r)
                      \/ Del(d)
  \/ \E i \in SlotSet : Save(i) \/ Loop(i)

Slave(s) ==
  \/ Poll(s) \/ ReadLoopPos(s) \/ LoadRxPort(s) \/ CallRx(s)
  \/ LoadTxPort(s) \/ CallTx(s)

Next == Master \/ \E s \in Slaves : Slave(s)

Spec == Init /\ [][Next]_vars

\* A slave spins on a core of its own; no command has to come.
FairSpec == Spec /\ \A s \in Slaves : WF_vars(Slave(s))

(* --- properties ------------------------------------------------------------- *)

\* Every variable has its type.
TypeOK ==
  /\ proc \in {"up", "exited", "null call", "bad port", "bad slot"}
  /\ cmd \in {"START", "STOP"} /\ loop_pos \in SlotSet /\ save_pos \in SlotSet
  /\ ports \in [Sides -> [SlotSet -> PortVals]]
  /\ funcs \in [Sides -> [SlotSet -> BOOLEAN]]
  /\ eth \in NPhy..MaxPorts /\ rings \subseteq RingIds
  /\ mpc \in {"recv", "add func", "del port", "del func"}
  /\ side \in Sides
  /\ spc \in [Slaves -> {"poll", "curr", "rx port", "rx call", "tx port", "tx call"}]
  /\ curr \in [Slaves -> SlotSet]
  /\ port \in [Slaves -> PortVals] /\ rxport \in [Slaves -> PortVals]
  /\ used \subseteq SlotSet /\ careful \in BOOLEAN

\* What a careful operator's care comes to: the slots in use are complete and
\* not being edited, and whatever a slave holds comes from one of them.
InUse ==
  /\ \A i \in used : Complete(i)
  /\ used # {} => loop_pos \in used
  /\ cmd = "START" => used # {}
  /\ mpc # "recv" => save_pos \notin used
  /\ proc \in {"up", "exited"}
SlaveInUse(s) ==
  /\ spc[s] # "poll" => used # {}
  /\ spc[s] \notin {"poll", "curr"} => curr[s] \in used
  /\ spc[s] = "rx call" => port[s] = ports["rx"][curr[s]]
  /\ spc[s] \in {"tx port", "tx call"} => rxport[s] = ports["rx"][curr[s]]
  /\ spc[s] = "tx call" => port[s] = ports["tx"][curr[s]]
CarefulInv == InUse /\ \A s \in Slaves : SlaveInUse(s)

\* With a careful operator no slave ever calls a null function or drives a port
\* that does not exist, however his switching of slots interleaves with it.
NoBadCall == careful => proc \in {"up", "exited"}

\* With a careful operator "loop" switches a slave as a whole: packets received
\* on one slot's rx port never leave through another slot's tx port.
PairUnmixed ==
  careful => \A s \in Slaves :
    spc[s] = "tx call" => <<rxport[s], port[s]>> = PairOf(curr[s])

\* The slaves come to rest after "stop" or "del": unless START is stored again
\* every slave gets back to its idle look at cmd and stays there.
StopQuiesces ==
  \A s \in Slaves : <>[](Up /\ cmd = "STOP") => <>[](spc[s] = "poll")

\* "loop i" takes effect: while the slaves run and the operator leaves loop_pos
\* alone, each of them gets to slot i.
LoopTakesEffect ==
  \A s \in Slaves, i \in SlotSet :
    Up /\ cmd = "START" /\ loop_pos = i
      ~> \/ proc # "up" \/ cmd # "START" \/ loop_pos # i
         \/ spc[s] = "rx port" /\ curr[s] = i
=============================================================================
