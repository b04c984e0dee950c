----------------------------- MODULE SecForward -----------------------------
(***************************************************************************)
(* A secondary process of the patch panel (sec_zerocpy.c; nfv_py.c has the *)
(* same loops).  The master lcore handles the controller's commands one at *)
(* a time and edits ports_fwd_array; every slave lcore runs nfv_loop and,  *)
(* while cmd is FORWARD, walks that same array with no lock.               *)
(*                                                                         *)
(* The stores of a patch command are separate steps, in program order (the *)
(* order of the stores to one entry in the object file built from this     *)
(* source is the same).  The slave loads out_port_id once, as that object  *)
(* file does.  What a burst carries is left out: a receive burst is empty  *)
(* or not.                                                                 *)
(***************************************************************************)
EXTENDS Integers, Sequences, FiniteSets

CONSTANTS MaxPorts,    \* RTE_MAX_ETHPORTS
          NPhy,        \* PCI ports found at start
          Slaves,      \* the slave lcores of the coremask
          RingIds,     \* ring ids the operator names in "add ring"
          HostRings,   \* the rings the primary created, by name
          VhostIds     \* indexes the operator names in "add vhost"

ASSUME SecAssumption == /\ MaxPorts \in Nat \ {0}
                        /\ NPhy \in 0..MaxPorts
                        /\ RingIds \subseteq Nat
                        \* the names have room for three digits, the rest is cut
                        /\ VhostIds \subseteq 0..999

Ports == 0..(MaxPorts - 1)
None == -99            \* the "unset" value of status and out_port_id
BadIndex == -1         \* what the ethdev constructors return on failure

\* The name under which "add ring <id>" looks its ring up; ring_id is a
\* uint16_t.
RingName(id) ==
  LET ring_id == id % 65536
  IN  IF ring_id >= 255 THEN <<"HSM_Ring", ring_id \div 256>>
                        ELSE <<"MProc_Ring", ring_id>>

\* The name that "add rx ring <id>" and "add tx ring <id>" look up.
QueueName(id) == <<"MProc_Ring", id>>

VhostName(id) == <<"eth_vhost", id>>

EthNames == {"phy", "MProc_Ring", "HSM_Ring", "eth_vhost"} \X Nat

VARIABLES
  proc,        \* "up", "exited", or why the process died
  cmd,         \* the volatile command word the slaves poll
  fwd,         \* ports_fwd_array
  eth,         \* names of the attached ethdevs, port 0 first
  mpc,         \* the master's next step
  in_port, out_port,  \* operands of the patch command it handles
  ri,          \* loop index of forward_array_reset
  spc, si, sout   \* each slave: step, port index, out_port of this port

vars == <<proc, cmd, fwd, eth, mpc, in_port, out_port, ri, spc, si, sout>>
slaveVars == <<spc, si, sout>>
masterVars == <<mpc, in_port, out_port, ri>>

Attached == 0..(Len(eth) - 1)

\* An entry as forward_array_init leaves it; the array is static, so its
\* function pointers are null.
UnpatchedEntry(status) == [status |-> status, rx_func |-> FALSE,
                           tx_func |-> FALSE, out_port_id |-> None]

\* forward_array_init, then the PCI ports are entered.
Init ==
  /\ proc = "up"
  /\ cmd = "STOP"
  /\ fwd = [p \in Ports |->
              UnpatchedEntry(IF p < NPhy THEN p ELSE None)]
  /\ eth = [i \in 1..NPhy |-> <<"phy", i - 1>>]
  /\ mpc = "recv" /\ in_port = None /\ out_port = None /\ ri = 0
  /\ spc = [s \in Slaves |-> "loop"]
  /\ si = [s \in Slaves |-> 0]
  /\ sout = [s \in Slaves |-> None]

-----------------------------------------------------------------------------
(* The master lcore: one command is received, handled and answered before  *)
(* the next.                                                               *)

Receiving == proc = "up" /\ mpc = "recv"

\* "start", "stop", "forward", and "del" (which also stops): one store to cmd.
SetCmd(c) ==
  /\ Receiving
  /\ cmd' = c
  /\ UNCHANGED <<proc, fwd, eth, masterVars, slaveVars>>

\* "exit": main stops the slaves' command word and returns.
Exit ==
  /\ Receiving
  /\ cmd' = "STOP"
  /\ proc' = "exited"
  /\ UNCHANGED <<fwd, eth, masterVars, slaveVars>>

\* Variant with a bug: the table is thought to have one entry more.
AllocatedPortOneMore(name) ==
  IF Len(eth) > MaxPorts \/ \E i \in DOMAIN eth : eth[i] = name
    THEN BadIndex ELSE Len(eth)

\* rte_eth_dev_allocate: the lowest free port number, or failure when the
\* table is full or the name is taken.
AllocatedPort(name) ==
  IF Len(eth) >= MaxPorts \/ \E i \in DOMAIN eth : eth[i] = name
    THEN BadIndex ELSE Len(eth)

Attach(name) ==
  eth' = IF AllocatedPort(name) = BadIndex THEN eth ELSE Append(eth, name)

\* ports_fwd_array[port].status = port: outside the array this is undefined,
\* and the model stops there.
EnterPort(port) ==
  IF port \in Ports
    THEN /\ fwd' = [fwd EXCEPT ![port].status = port]
         /\ UNCHANGED proc
    ELSE /\ proc' = "bad index"
         /\ UNCHANGED fwd

\* "add ring <id>": an unknown ring ends the process (rte_exit).
AddRing(id) ==
  /\ Receiving
  /\ IF RingName(id) \in HostRings
       THEN Attach(RingName(id)) /\ EnterPort(AllocatedPort(RingName(id)))
       ELSE proc' = "exited" /\ UNCHANGED <<eth, fwd>>
  /\ UNCHANGED <<cmd, masterVars, slaveVars>>

\* "add rx ring <id>", "add tx ring <id>": the port, or -1, goes to a slot table
\* that no command makes the slaves read; the ethdev is there to be patched.
AddSlotRing(id) ==
  /\ Receiving
  /\ IF QueueName(id) \in HostRings
       THEN Attach(QueueName(id)) /\ UNCHANGED proc
       ELSE proc' = "exited" /\ UNCHANGED eth
  /\ UNCHANGED <<cmd, fwd, masterVars, slaveVars>>

\* "add vhost <id>": without the primary's buffer pool the process ends.  The
\* ethdev is created first and stays when registering its socket fails.
AddVhost(id) ==
  /\ Receiving
  /\ \/ proc' = "exited" /\ UNCHANGED <<eth, fwd>>
     \/ /\ Attach(VhostName(id))
        /\ \E port \in {AllocatedPort(VhostName(id)), BadIndex} : EnterPort(port)
  /\ UNCHANGED <<cmd, masterVars, slaveVars>>

\* "patch <in> <out>": the operator names attached ports.
Patch(i, o) ==
  /\ Receiving
  /\ mpc' = "in.status" /\ in_port' = i /\ out_port' = o
  /\ UNCHANGED <<proc, cmd, fwd, eth, ri, slaveVars>>

\* Its seven stores, each visible to the slaves on its own.
Then(at, next) ==
  /\ proc = "up" /\ mpc = at
  /\ mpc' = next
  /\ UNCHANGED <<proc, cmd, eth, in_port, out_port, ri, slaveVars>>

\* Variant with a bug: out_port_id is published before the receive function.
PatchStorePublishFirst ==
  \/ /\ Then("in.status", "in.rx_func")
     /\ fwd' = [fwd EXCEPT ![in_port].status = in_port,
                           ![in_port].out_port_id = out_port]
  \/ /\ Then("in.rx_func", "out.status")
     /\ fwd' = [fwd EXCEPT ![in_port].rx_func = TRUE, ![in_port].tx_func = TRUE]
  \/ /\ Then("out.status", "patched")
     /\ fwd' = [fwd EXCEPT ![out_port] = [@ EXCEPT !.status = out_port,
                             !.rx_func = TRUE, !.tx_func = TRUE]]

\* Variant with a bug: the out port's functions are left out.
PatchStoreNoOutFuncs ==
  \/ /\ Then("in.status", "in.out_port_id")
     /\ fwd' = [fwd EXCEPT ![in_port] = [@ EXCEPT !.status = in_port,
                             !.rx_func = TRUE, !.tx_func = TRUE]]
  \/ /\ Then("in.out_port_id", "out.status")
     /\ fwd' = [fwd EXCEPT ![in_port].out_port_id = out_port]
  \/ /\ Then("out.status", "patched")
     /\ fwd' = [fwd EXCEPT ![out_port].status = out_port]

PatchStore ==
  \/ /\ Then("in.status", "in.rx_func")
     /\ fwd' = [fwd EXCEPT ![in_port].status = in_port]
  \/ /\ Then("in.rx_func", "in.tx_func")
     /\ fwd' = [fwd EXCEPT ![in_port].rx_func = TRUE]
  \/ /\ Then("in.tx_func", "in.out_port_id")
     /\ fwd' = [fwd EXCEPT ![in_port].tx_func = TRUE]
  \/ /\ Then("in.out_port_id", "out.status")
     /\ fwd' = [fwd EXCEPT ![in_port].out_port_id = out_port]
  \/ /\ Then("out.status", "out.rx_func")
     /\ fwd' = [fwd EXCEPT ![out_port].status = out_port]
  \/ /\ Then("out.rx_func", "out.tx_func")
     /\ fwd' = [fwd EXCEPT ![out_port].rx_func = TRUE]
  \/ /\ Then("out.tx_func", "patched")
     /\ fwd' = [fwd EXCEPT ![out_port].tx_func = TRUE]

\* The reply goes out and the master waits for the next command.
PatchReply ==
  /\ proc = "up" /\ mpc = "patched"
  /\ mpc' = "recv" /\ in_port' = None /\ out_port' = None
  /\ UNCHANGED <<proc, cmd, fwd, eth, ri, slaveVars>>

\* "patch reset": forward_array_reset walks the array port by port.
PatchReset ==
  /\ Receiving
  /\ mpc' = "reset" /\ ri' = 0
  /\ UNCHANGED <<proc, cmd, fwd, eth, in_port, out_port, slaveVars>>

\* Variant with a bug: port 0 is taken for an unset one.
ResetPortSkipsZero ==
  /\ proc = "up" /\ mpc = "reset" /\ ri \in Ports
  /\ fwd' = IF fwd[ri].status > 0
              THEN [fwd EXCEPT ![ri].out_port_id = None] ELSE fwd
  /\ ri' = ri + 1
  /\ UNCHANGED <<proc, cmd, eth, mpc, in_port, out_port, slaveVars>>

ResetPort ==
  /\ proc = "up" /\ mpc = "reset" /\ ri \in Ports
  /\ fwd' = IF fwd[ri].status > -1
              THEN [fwd EXCEPT ![ri].out_port_id = None] ELSE fwd
  /\ ri' = ri + 1
  /\ UNCHANGED <<proc, cmd, eth, mpc, in_port, out_port, slaveVars>>

ResetReply ==
  /\ proc = "up" /\ mpc = "reset" /\ ri = MaxPorts
  /\ mpc' = "recv" /\ ri' = 0
  /\ UNCHANGED <<proc, cmd, fwd, eth, in_port, out_port, slaveVars>>

MasterStep == PatchStore \/ PatchReply \/ ResetPort \/ ResetReply

Operator ==
  \/ \E c \in {"START", "STOP", "FORWARD"} : SetCmd(c)
  \/ Exit
  \/ \E id \in RingIds : AddRing(id)
  \* a longer id is cut to three digits and names what a shorter one names
  \/ \E id \in RingIds \cap 0..999 : AddSlotRing(id)
  \/ \E id \in VhostIds : AddVhost(id)
  \/ \E i, o \in Attached : Patch(i, o)
  \/ PatchReset

-----------------------------------------------------------------------------
(* A slave lcore: nfv_loop and forward().                                  *)

At(s, step) == proc = "up" /\ spc[s] = step

\* nfv_loop sees FORWARD and starts a pass over the ports.  (With STOP it
\* sleeps, with START it goes round without doing anything.)
BeginPass(s) ==
  /\ At(s, "loop")
  /\ cmd = "FORWARD"
  /\ spc' = [spc EXCEPT ![s] = "scan"]
  /\ si' = [si EXCEPT ![s] = 0]
  /\ UNCHANGED <<proc, cmd, fwd, eth, masterVars, sout>>

\* The next port of the pass: skipped unless it is active and patched.
\* status never becomes negative again, so it may be read with out_port_id.
ScanPort(s) ==
  /\ At(s, "scan") /\ si[s] \in Ports
  /\ LET e == fwd[si[s]]
     IN  IF e.status >= 0 /\ e.out_port_id >= 0
           THEN /\ spc' = [spc EXCEPT ![s] = "rx"]
                /\ sout' = [sout EXCEPT ![s] = e.out_port_id]
                /\ UNCHANGED si
           ELSE /\ si' = [si EXCEPT ![s] = @ + 1]
                /\ UNCHANGED <<spc, sout>>
  /\ UNCHANGED <<proc, cmd, fwd, eth, masterVars>>

\* The call through rx_func.
CallRx(s) ==
  /\ At(s, "rx")
  /\ IF fwd[si[s]].rx_func
       THEN spc' = [spc EXCEPT ![s] = "receiving"] /\ UNCHANGED proc
       ELSE proc' = "null call" /\ UNCHANGED spc
  /\ UNCHANGED <<cmd, fwd, eth, masterVars, si, sout>>

\* Variant with a bug: an empty burst ends the pass.
RxReturnEndsPass(s) ==
  /\ At(s, "receiving")
  /\ \/ /\ spc' = [spc EXCEPT ![s] = "loop"]
        /\ si' = [si EXCEPT ![s] = 0]
        /\ sout' = [sout EXCEPT ![s] = None]
     \/ /\ spc' = [spc EXCEPT ![s] = "tx"]
        /\ UNCHANGED <<si, sout>>
  /\ UNCHANGED <<proc, cmd, fwd, eth, masterVars>>

\* It returns; an empty burst goes on to the next port.
RxReturn(s) ==
  /\ At(s, "receiving")
  /\ \/ /\ spc' = [spc EXCEPT ![s] = "scan"]
        /\ si' = [si EXCEPT ![s] = @ + 1]
        /\ sout' = [sout EXCEPT ![s] = None]
     \/ /\ spc' = [spc EXCEPT ![s] = "tx"]
        /\ UNCHANGED <<si, sout>>
  /\ UNCHANGED <<proc, cmd, fwd, eth, masterVars>>

\* The call through the out port's tx_func.
CallTx(s) ==
  /\ At(s, "tx")
  /\ IF fwd[sout[s]].tx_func
       THEN spc' = [spc EXCEPT ![s] = "sending"] /\ UNCHANGED proc
       ELSE proc' = "null call" /\ UNCHANGED spc
  /\ UNCHANGED <<cmd, fwd, eth, masterVars, si, sout>>

\* It returns, what was not sent is freed, and the pass goes on.
TxReturn(s) ==
  /\ At(s, "sending")
  /\ spc' = [spc EXCEPT ![s] = "scan"]
  /\ si' = [si EXCEPT ![s] = @ + 1]
  /\ sout' = [sout EXCEPT ![s] = None]
  /\ UNCHANGED <<proc, cmd, fwd, eth, masterVars>>

\* Variant with a bug: the command word is not read again after a pass.
EndPassNoReread(s) ==
  /\ At(s, "scan") /\ si[s] = MaxPorts
  /\ si' = [si EXCEPT ![s] = 0]
  /\ UNCHANGED <<proc, cmd, fwd, eth, masterVars, spc, sout>>

EndPass(s) ==
  /\ At(s, "scan") /\ si[s] = MaxPorts
  /\ spc' = [spc EXCEPT ![s] = "loop"]
  /\ si' = [si EXCEPT ![s] = 0]
  /\ UNCHANGED <<proc, cmd, fwd, eth, masterVars, sout>>

Slave(s) == \/ BeginPass(s) \/ ScanPort(s) \/ CallRx(s) \/ RxReturn(s)
            \/ CallTx(s) \/ TxReturn(s) \/ EndPass(s)

Next == Operator \/ MasterStep \/ \E s \in Slaves : Slave(s)

Spec == Init /\ [][Next]_vars

\* The slaves spin on their own cores; the master finishes the command it has
\* begun.  Nothing makes the operator send a command.
Fairness == WF_vars(MasterStep) /\ \A s \in Slaves : WF_vars(Slave(s))

FairSpec == Spec /\ Fairness

-----------------------------------------------------------------------------
PatchPcs == {"in.status", "in.rx_func", "in.tx_func", "in.out_port_id",
             "out.status", "out.rx_func", "out.tx_func"}

\* The shape of the process's state.
TypeOK ==
  /\ proc \in {"up", "exited", "bad index", "null call"}
  /\ cmd \in {"START", "STOP", "FORWARD"}
  /\ fwd \in [Ports -> [status : Ports \cup {None}, rx_func : BOOLEAN,
                        tx_func : BOOLEAN, out_port_id : Ports \cup {None}]]
  /\ eth \in Seq(EthNames) /\ Len(eth) <= MaxPorts
  /\ mpc \in PatchPcs \cup {"recv", "patched", "reset"}
  /\ in_port \in Ports \cup {None} /\ out_port \in Ports \cup {None}
  /\ mpc \in PatchPcs => in_port \in Ports /\ out_port \in Ports
  /\ ri \in 0..MaxPorts
  /\ spc \in [Slaves -> {"loop", "scan", "rx", "receiving", "tx", "sending"}]
  /\ si \in [Slaves -> 0..MaxPorts]
  /\ sout \in [Slaves -> Ports \cup {None}]
  /\ \A s \in Slaves : spc[s] \in {"rx", "receiving", "tx", "sending"} =>
       si[s] \in Ports /\ sout[s] \in Ports

\* The master is in the middle of a patch whose out port is p and has not yet
\* stored p's tx_func.
Patching(p) == mpc \in {"out.status", "out.rx_func", "out.tx_func"} /\ out_port = p

\* forward_array_reset looks only at active ports; still, when it is done no
\* port is patched, because a patched port is always active.
ResetClears == mpc = "reset" =>
  \A p \in Ports : p < ri => fwd[p].out_port_id = None

\* A visible patch is complete up to its out port's functions, the master's own
\* stores (lines 731 to 740) go in order, and what a slave has loaded was visible
\* when it loaded it; no store takes a function away again.  So the receive
\* function a slave is about to call is never null, and the transmit function
\* only while the master is on its way to line 740 for that very port.
PatchedReady == \A p \in Ports : fwd[p].out_port_id # None =>
  /\ fwd[p].status = p
  /\ fwd[p].rx_func
  /\ fwd[fwd[p].out_port_id].tx_func \/ Patching(fwd[p].out_port_id)
MasterInOrder ==
  /\ mpc \in PatchPcs \ {"in.status"} => fwd[in_port].status = in_port
  /\ mpc \in PatchPcs \ {"in.status", "in.rx_func"} => fwd[in_port].rx_func
SlaveSawReady == \A s \in Slaves :
  spc[s] \in {"rx", "receiving", "tx"} =>
    /\ fwd[si[s]].rx_func
    /\ fwd[sout[s]].tx_func \/ Patching(sout[s])
\* What the patch command and forward() rely on, at every step of both.
TableInv == PatchedReady /\ MasterInOrder /\ SlaveSawReady /\ ResetClears

\* What is left of the race: a slave calls through a null pointer only through
\* tx_func, and only while the master is in the middle of the patch command
\* that names that out port.  Ports patched before "forward" are safe, with any
\* number of slaves.
NullCallOnlyMidPatch == proc = "null call" =>
  \E s \in Slaves : spc[s] = "tx" /\ Patching(sout[s])

\* README.md:7 "assign resources dynamically to these applications": whatever
\* the operator patches and whenever, no slave calls through a null pointer.
NoNullCall == proc # "null call"

\* A stopped secondary comes to rest: once cmd is STOP every slave leaves
\* forward(), or the operator has sent another command, or the process is gone.
StopQuiesces == \A s \in Slaves :
  (cmd = "STOP") ~> (spc[s] = "loop" \/ cmd # "STOP" \/ proc # "up")

\* No patched port starves: while forwarding goes on and a port stays patched,
\* each slave polls it again and again, whether its neighbours are idle or busy.
EveryPatchPolled == \A s \in Slaves, p \in Ports :
  <>[](proc = "up" /\ cmd = "FORWARD" /\ fwd[p].out_port_id # None)
     => []<>(spc[s] = "receiving" /\ si[s] = p)
=============================================================================
