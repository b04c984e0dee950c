-------------------------- MODULE SecForwardProofs --------------------------
(* Proofs about SecForward, for every number of ports and slave lcores, any  *)
(* rings and any moment of patching: the type invariant, and that the null   *)
(* function pointers of ports_fwd_array can be met only inside a patch.      *)
EXTENDS SecForward, SequenceTheorems, TLAPS

\* The unset value is no port number.
LEMMA PortFacts == /\ None \notin Ports
                   /\ BadIndex \notin Ports
                   /\ 0 \in Ports
                   /\ Ports \subseteq Int
                   /\ MaxPorts \in Nat
BY SecAssumption DEF None, BadIndex, Ports

\* An attached device's port number indexes the forwarding table.
LEMMA AttachedIsPort == TypeOK => Attached \subseteq Ports
<1> SUFFICES ASSUME TypeOK PROVE Attached \subseteq Ports
  OBVIOUS
<1>1. Len(eth) \in Nat /\ Len(eth) <= MaxPorts
  BY LenProperties DEF TypeOK
<1> QED BY <1>1, PortFacts DEF Attached, Ports

Entry == [status : Ports \cup {None}, rx_func : BOOLEAN,
          tx_func : BOOLEAN, out_port_id : Ports \cup {None}]

\* A device joins the ethdev list only while there is room.
LEMMA AttachListTyped ==
  ASSUME TypeOK, NEW name \in EthNames,
         eth' = eth \/ (AllocatedPort(name) # BadIndex /\ eth' = Append(eth, name))
  PROVE  eth' \in Seq(EthNames) /\ Len(eth') <= MaxPorts
<1>1. eth \in Seq(EthNames) /\ Len(eth) \in Nat /\ Len(eth) <= MaxPorts
  BY LenProperties DEF TypeOK
<1>2. CASE eth' = eth
  BY <1>1, <1>2
<1>3. CASE AllocatedPort(name) # BadIndex /\ eth' = Append(eth, name)
  <2>1. Len(eth) < MaxPorts
    BY <1>1, <1>3, PortFacts DEF AllocatedPort
  <2> QED BY <1>1, <1>3, <2>1, AppendProperties, PortFacts
<1> QED BY <1>2, <1>3

\* A command that attaches a device, or fails to, keeps table and ethdev list
\* well formed.
LEMMA AttachTyped ==
  ASSUME TypeOK, NEW name \in EthNames, NEW port \in Ports \cup {BadIndex},
         eth' = eth \/ (AllocatedPort(name) # BadIndex /\ eth' = Append(eth, name)),
         EnterPort(port)
  PROVE  /\ eth' \in Seq(EthNames) /\ Len(eth') <= MaxPorts
         /\ fwd' \in [Ports -> Entry]
         /\ proc' \in {"up", "exited", "bad index", "null call"}
<1>2. eth' \in Seq(EthNames) /\ Len(eth') <= MaxPorts
  BY AttachListTyped
<1>3. fwd \in [Ports -> Entry] /\ proc \in {"up", "exited", "bad index", "null call"}
  BY DEF TypeOK, Entry
<1>4. fwd' \in [Ports -> Entry]
  BY <1>3 DEF EnterPort, Entry
<1>5. proc' \in {"up", "exited", "bad index", "null call"}
  BY <1>3 DEF EnterPort
<1> QED BY <1>2, <1>4, <1>5

LEMMA NamesTyped ==
  /\ \A id \in RingIds : RingName(id) \in EthNames
  /\ \A id \in RingIds : QueueName(id) \in EthNames
  /\ \A id \in VhostIds : VhostName(id) \in EthNames
<1>1. ASSUME NEW id \in RingIds PROVE RingName(id) \in EthNames
  <2> DEFINE r == id % 65536
  <2>1. r \in Nat /\ r \div 256 \in Nat
    BY SecAssumption
  <2>2. <<"HSM_Ring", r \div 256>> \in EthNames /\ <<"MProc_Ring", r>> \in EthNames
    BY <2>1 DEF EthNames
  <2> HIDE DEF r
  <2>3. RingName(id) = <<"HSM_Ring", r \div 256>> \/ RingName(id) = <<"MProc_Ring", r>>
    BY DEF RingName, r
  <2> QED BY <2>2, <2>3
<1>2. ASSUME NEW id \in VhostIds PROVE VhostName(id) \in EthNames
  BY SecAssumption DEF VhostName, EthNames
<1>3. ASSUME NEW id \in RingIds PROVE QueueName(id) \in EthNames
  BY SecAssumption DEF QueueName, EthNames
<1> QED BY <1>1, <1>2, <1>3

\* A store to one field of one entry keeps the table well formed.
LEMMA StoreTyped ==
  ASSUME NEW f \in [Ports -> Entry], NEW p \in Ports, NEW v \in Ports \cup {None}
  PROVE  /\ [f EXCEPT ![p].status = v] \in [Ports -> Entry]
         /\ [f EXCEPT ![p].out_port_id = v] \in [Ports -> Entry]
         /\ [f EXCEPT ![p].rx_func = TRUE] \in [Ports -> Entry]
         /\ [f EXCEPT ![p].tx_func = TRUE] \in [Ports -> Entry]
<1>1. [f EXCEPT ![p].status = v] \in [Ports -> Entry]
  BY DEF Entry
<1>2. [f EXCEPT ![p].out_port_id = v] \in [Ports -> Entry]
  BY DEF Entry
<1>3. [f EXCEPT ![p].rx_func = TRUE] \in [Ports -> Entry]
  BY DEF Entry
<1>4. [f EXCEPT ![p].tx_func = TRUE] \in [Ports -> Entry]
  BY DEF Entry
<1> QED BY <1>1, <1>2, <1>3, <1>4

\* An allocated port number is the next free index of the table.
LEMMA AllocatedIsPort ==
  ASSUME TypeOK, NEW name
  PROVE  AllocatedPort(name) \in Ports \cup {BadIndex}
<1>1. Len(eth) \in Nat
  BY LenProperties DEF TypeOK
<1> QED BY <1>1, PortFacts DEF AllocatedPort, Ports

\* Every step keeps the state's shape.
LEMMA TypeStep == TypeOK /\ [Next]_vars => TypeOK'
<1> SUFFICES ASSUME TypeOK, [Next]_vars
             PROVE  TypeOK'
  OBVIOUS
<1> USE PortFacts
<1>0. /\ fwd \in [Ports -> Entry]
      /\ eth \in Seq(EthNames) /\ Len(eth) <= MaxPorts
  BY DEF TypeOK, Entry
<1>z. 0 \in 0..MaxPorts
  OBVIOUS
<1>1. ASSUME NEW c \in {"START", "STOP", "FORWARD"}, SetCmd(c)
      PROVE  TypeOK'
  BY <1>1 DEF TypeOK, SetCmd, masterVars, slaveVars
<1>2. CASE Exit
  BY <1>2 DEF TypeOK, Exit, masterVars, slaveVars
<1>3. ASSUME NEW id \in RingIds, AddRing(id)
      PROVE  TypeOK'
  <2>1. CASE RingName(id) \in HostRings
    <3>1. /\ EnterPort(AllocatedPort(RingName(id)))
          /\ eth' = eth \/ (AllocatedPort(RingName(id)) # BadIndex
                             /\ eth' = Append(eth, RingName(id)))
      BY <1>3, <2>1 DEF AddRing, Attach
    <3>2. /\ eth' \in Seq(EthNames) /\ Len(eth') <= MaxPorts
          /\ fwd' \in [Ports -> Entry]
          /\ proc' \in {"up", "exited", "bad index", "null call"}
      BY <3>1, AttachTyped, AllocatedIsPort, NamesTyped
    <3> QED BY <1>3, <3>2 DEF TypeOK, AddRing, masterVars, slaveVars, Entry
  <2>2. CASE RingName(id) \notin HostRings
    BY <1>3, <2>2 DEF TypeOK, AddRing, masterVars, slaveVars
  <2> QED BY <2>1, <2>2
<1>4. ASSUME NEW id \in VhostIds, AddVhost(id)
      PROVE  TypeOK'
  <2>1. CASE proc' = "exited" /\ UNCHANGED <<eth, fwd>>
    BY <1>4, <2>1 DEF TypeOK, AddVhost, masterVars, slaveVars
  <2>2. CASE /\ Attach(VhostName(id))
             /\ \E port \in {AllocatedPort(VhostName(id)), BadIndex} : EnterPort(port)
    <3>1. PICK port \in Ports \cup {BadIndex} : EnterPort(port)
      BY <2>2, AllocatedIsPort
    <3>2. eth' = eth \/ (AllocatedPort(VhostName(id)) # BadIndex
                         /\ eth' = Append(eth, VhostName(id)))
      BY <2>2 DEF Attach
    <3>3. /\ eth' \in Seq(EthNames) /\ Len(eth') <= MaxPorts
          /\ fwd' \in [Ports -> Entry]
          /\ proc' \in {"up", "exited", "bad index", "null call"}
      BY <3>1, <3>2, AttachTyped, NamesTyped
    <3> QED BY <1>4, <3>3 DEF TypeOK, AddVhost, masterVars, slaveVars, Entry
  <2> QED BY <1>4, <2>1, <2>2 DEF AddVhost
<1>a. ASSUME NEW id \in RingIds, AddSlotRing(id)
      PROVE  TypeOK'
  <2>1. CASE QueueName(id) \in HostRings
    <3>1. eth' = eth \/ (AllocatedPort(QueueName(id)) # BadIndex
                         /\ eth' = Append(eth, QueueName(id)))
      BY <1>a, <2>1 DEF AddSlotRing, Attach
    <3>2. eth' \in Seq(EthNames) /\ Len(eth') <= MaxPorts
      BY <3>1, AttachListTyped, NamesTyped
    <3> QED BY <1>a, <2>1, <3>2 DEF TypeOK, AddSlotRing, masterVars, slaveVars
  <2>2. CASE QueueName(id) \notin HostRings
    BY <1>a, <2>2 DEF TypeOK, AddSlotRing, masterVars, slaveVars
  <2> QED BY <2>1, <2>2
<1>5. ASSUME NEW i \in Attached, NEW o \in Attached, Patch(i, o)
      PROVE  TypeOK'
  BY <1>5, AttachedIsPort DEF TypeOK, Patch, PatchPcs, slaveVars
<1>6. CASE PatchStore
  <2>0. in_port \in Ports /\ out_port \in Ports
    BY <1>6 DEF TypeOK, PatchStore, Then, PatchPcs
  <2>1. fwd' \in [Ports -> Entry]
    <3>1. /\ [fwd EXCEPT ![in_port].status = in_port] \in [Ports -> Entry]
          /\ [fwd EXCEPT ![in_port].rx_func = TRUE] \in [Ports -> Entry]
          /\ [fwd EXCEPT ![in_port].tx_func = TRUE] \in [Ports -> Entry]
          /\ [fwd EXCEPT ![in_port].out_port_id = out_port] \in [Ports -> Entry]
          /\ [fwd EXCEPT ![out_port].status = out_port] \in [Ports -> Entry]
          /\ [fwd EXCEPT ![out_port].rx_func = TRUE] \in [Ports -> Entry]
          /\ [fwd EXCEPT ![out_port].tx_func = TRUE] \in [Ports -> Entry]
      BY <1>0, <2>0, StoreTyped
    <3> QED BY <1>6, <3>1, Zenon DEF PatchStore
  <2>2. mpc' \in PatchPcs \cup {"patched"}
    BY <1>6 DEF PatchStore, Then, PatchPcs
  <2>3. UNCHANGED <<proc, cmd, eth, in_port, out_port, ri, slaveVars>>
    BY <1>6 DEF PatchStore, Then
  <2> QED BY <2>0, <2>1, <2>2, <2>3 DEF TypeOK, Entry, slaveVars
<1>7. CASE PatchReply \/ PatchReset \/ ResetReply
  <2>1. /\ mpc' \in {"recv", "reset"}
        /\ in_port' \in Ports \cup {None} /\ out_port' \in Ports \cup {None}
        /\ ri' \in 0..MaxPorts
    BY <1>z, <1>7 DEF TypeOK, PatchReply, PatchReset, ResetReply
  <2>2. UNCHANGED <<proc, cmd, fwd, eth, slaveVars>>
    BY <1>7 DEF PatchReply, PatchReset, ResetReply
  <2> QED BY <2>1, <2>2 DEF TypeOK, PatchPcs, slaveVars
<1>8. CASE ResetPort
  <2>1. fwd' \in [Ports -> Entry]
    BY <1>0, <1>8, StoreTyped DEF ResetPort
  <2>2. ri' \in 0..MaxPorts
    BY <1>8 DEF ResetPort, Ports
  <2> QED BY <1>8, <2>1, <2>2 DEF TypeOK, Entry, ResetPort, slaveVars
<1>9. ASSUME NEW s \in Slaves, Slave(s)
      PROVE  TypeOK'
  <2>1. /\ spc' \in [Slaves -> {"loop", "scan", "rx", "receiving", "tx", "sending"}]
        /\ si' \in [Slaves -> 0..MaxPorts]
        /\ sout' \in [Slaves -> Ports \cup {None}]
        /\ proc' \in {"up", "exited", "bad index", "null call"}
        /\ \A t \in Slaves : spc'[t] \in {"rx", "receiving", "tx", "sending"} =>
             si'[t] \in Ports /\ sout'[t] \in Ports
    <3>0. /\ spc \in [Slaves -> {"loop", "scan", "rx", "receiving", "tx", "sending"}]
          /\ si \in [Slaves -> 0..MaxPorts]
          /\ sout \in [Slaves -> Ports \cup {None}]
          /\ proc \in {"up", "exited", "bad index", "null call"}
          /\ \A t \in Slaves : spc[t] \in {"rx", "receiving", "tx", "sending"} =>
               si[t] \in Ports /\ sout[t] \in Ports
      BY DEF TypeOK
    <3>a. \A p \in Ports : p + 1 \in 0..MaxPorts
      BY DEF Ports
    <3>1. CASE BeginPass(s)
      BY <1>z, <3>0, <3>1 DEF BeginPass
    <3>2. CASE ScanPort(s)
      <4>1. si[s] \in Ports
        BY <3>2 DEF ScanPort
      <4> DEFINE o == fwd[si[s]].out_port_id
      <4>2. o \in Ports \cup {None}
        BY <1>0, <4>1 DEF Entry
      <4>3. o >= 0 => o \in Ports
        BY <4>2 DEF None
      <4> HIDE DEF o
      <4>4. CASE /\ spc' = [spc EXCEPT ![s] = "rx"]
                 /\ sout' = [sout EXCEPT ![s] = o]
                 /\ si' = si /\ proc' = proc /\ o >= 0
        BY <3>0, <4>1, <4>3, <4>4
      <4>5. CASE si' = [si EXCEPT ![s] = @ + 1] /\ UNCHANGED <<spc, sout, proc>> /\ spc[s] = "scan"
        BY <3>0, <3>a, <4>1, <4>5
      <4> QED BY <3>2, <4>4, <4>5 DEF ScanPort, At, o
    <3>3. CASE CallRx(s)
      BY <3>0, <3>3 DEF CallRx, At
    <3>4. CASE RxReturn(s)
      <4>1. si[s] \in Ports /\ sout[s] \in Ports
        BY <3>0, <3>4 DEF RxReturn, At
      <4> QED BY <3>0, <3>a, <3>4, <4>1 DEF RxReturn
    <3>5. CASE CallTx(s)
      BY <3>0, <3>5 DEF CallTx, At
    <3>6. CASE TxReturn(s)
      <4>1. si[s] \in Ports
        BY <3>0, <3>6 DEF TxReturn, At
      <4> QED BY <3>0, <3>a, <3>6, <4>1 DEF TxReturn
    <3>7. CASE EndPass(s)
      BY <1>z, <3>0, <3>7 DEF EndPass
    <3> QED BY <1>9, <3>1, <3>2, <3>3, <3>4, <3>5, <3>6, <3>7 DEF Slave
  <2>2. UNCHANGED <<cmd, fwd, eth, masterVars>>
    BY <1>9 DEF Slave, BeginPass, ScanPort, CallRx, RxReturn, CallTx, TxReturn, EndPass
  <2> QED BY <2>1, <2>2 DEF TypeOK, masterVars
<1>10. CASE UNCHANGED vars
  BY <1>10 DEF TypeOK, vars
<1> QED
  BY <1>1, <1>2, <1>3, <1>4, <1>a, <1>5, <1>6, <1>7, <1>8, <1>9, <1>10
     DEF Next, Operator, MasterStep

\* The process's state keeps its shape in every run.
THEOREM SecTypeCorrect == Spec => []TypeOK
<1>1. Init => TypeOK
  <2> SUFFICES ASSUME Init PROVE TypeOK
    OBVIOUS
  <2> USE PortFacts
  <2>1. fwd \in [Ports -> Entry]
    BY DEF Init, UnpatchedEntry, Entry, Ports
  <2>2. eth \in Seq(EthNames) /\ Len(eth) = NPhy
    <3>1. \A i \in 1..NPhy : <<"phy", i - 1>> \in EthNames
      BY SecAssumption DEF EthNames
    <3>2. NPhy \in Nat
      BY SecAssumption
    <3>3. eth \in [1..NPhy -> EthNames]
      BY <3>1 DEF Init, UnpatchedEntry
    <3> QED BY <3>2, <3>3
  <2>3. NPhy <= MaxPorts /\ 0 \in 0..MaxPorts
    BY SecAssumption
  <2> QED BY <2>1, <2>2, <2>3 DEF Init, UnpatchedEntry, TypeOK, Entry, PatchPcs
<1> QED BY <1>1, TypeStep, PTL DEF Spec

-----------------------------------------------------------------------------
(* The forwarding table under concurrent patching.                         *)

\* A step that only gives entries their status, or nothing, and leaves the
\* master's and the slaves' places alone.
LEMMA StatusOnly ==
  ASSUME TypeOK, TableInv,
         UNCHANGED <<mpc, in_port, out_port, ri, spc, si, sout>>,
         fwd' = fwd \/ \E p \in Ports : fwd' = [fwd EXCEPT ![p].status = p]
  PROVE  TableInv'
<1>1. fwd \in [Ports -> Entry]
  BY DEF TypeOK, Entry
<1>2. /\ DOMAIN fwd' = Ports
      /\ \A p \in Ports : /\ fwd'[p].status = fwd[p].status \/ fwd'[p].status = p
                          /\ fwd'[p].rx_func = fwd[p].rx_func
                          /\ fwd'[p].tx_func = fwd[p].tx_func
                          /\ fwd'[p].out_port_id = fwd[p].out_port_id
  BY <1>1 DEF Entry
<1>3. PatchedReady'
  <2>1. \A p \in Ports : fwd[p].out_port_id \in Ports \cup {None}
    BY <1>1 DEF Entry
  <2> QED BY <1>2, <2>1 DEF TableInv, PatchedReady, Patching
<1>4. MasterInOrder'
  BY <1>2 DEF TableInv, MasterInOrder, TypeOK
<1>5. SlaveSawReady'
  BY <1>2 DEF TableInv, SlaveSawReady, Patching, TypeOK
<1>6. ResetClears'
  BY <1>2 DEF TableInv, ResetClears
<1> QED BY <1>3, <1>4, <1>5, <1>6 DEF TableInv

\* A command that attaches a device touches nothing but a status.
LEMMA EnterPortStatus ==
  ASSUME NEW port, EnterPort(port)
  PROVE  fwd' = fwd \/ \E p \in Ports : fwd' = [fwd EXCEPT ![p].status = p]
BY DEF EnterPort

\* The seven stores of a patch.
LEMMA PatchStoreTable ==
  ASSUME TypeOK, TableInv, PatchStore
  PROVE  TableInv'
<1> USE PortFacts
<1>0. /\ fwd \in [Ports -> Entry]
      /\ in_port \in Ports /\ out_port \in Ports
      /\ UNCHANGED <<in_port, out_port, ri, spc, si, sout>>
      /\ mpc \in PatchPcs /\ mpc # "reset" /\ mpc' # "reset"
  BY DEF TypeOK, Entry, PatchStore, Then, PatchPcs, slaveVars
<1>1. /\ \A p \in Ports : fwd[p].out_port_id \in Ports \cup {None}
      /\ \A s \in Slaves : spc[s] \in {"rx", "receiving", "tx"} =>
            si[s] \in Ports /\ sout[s] \in Ports
  BY <1>0 DEF TypeOK, Entry
<1>2. CASE mpc = "in.status"
  <2>1. fwd' = [fwd EXCEPT ![in_port].status = in_port] /\ mpc' = "in.rx_func"
    BY <1>2 DEF PatchStore, Then
  <2>2. \A p \in Ports : /\ fwd'[p].status = IF p = in_port THEN p ELSE fwd[p].status
                         /\ fwd'[p].rx_func = fwd[p].rx_func
                         /\ fwd'[p].tx_func = fwd[p].tx_func
                         /\ fwd'[p].out_port_id = fwd[p].out_port_id
    BY <1>0, <2>1 DEF Entry
  <2> QED BY <1>0, <1>1, <1>2, <2>1, <2>2
       DEF TableInv, PatchedReady, MasterInOrder, SlaveSawReady, ResetClears,
           Patching, PatchPcs
<1>3. CASE mpc = "in.rx_func"
  <2>1. fwd' = [fwd EXCEPT ![in_port].rx_func = TRUE] /\ mpc' = "in.tx_func"
    BY <1>3 DEF PatchStore, Then
  <2>2. \A p \in Ports : /\ fwd'[p].status = fwd[p].status
                         /\ fwd'[p].rx_func = IF p = in_port THEN TRUE ELSE fwd[p].rx_func
                         /\ fwd'[p].tx_func = fwd[p].tx_func
                         /\ fwd'[p].out_port_id = fwd[p].out_port_id
    BY <1>0, <2>1 DEF Entry
  <2> QED BY <1>0, <1>1, <1>3, <2>1, <2>2
       DEF TableInv, PatchedReady, MasterInOrder, SlaveSawReady, ResetClears,
           Patching, PatchPcs
<1>4. CASE mpc = "in.tx_func"
  <2>1. fwd' = [fwd EXCEPT ![in_port].tx_func = TRUE] /\ mpc' = "in.out_port_id"
    BY <1>4 DEF PatchStore, Then
  <2>2. \A p \in Ports : /\ fwd'[p].status = fwd[p].status
                         /\ fwd'[p].rx_func = fwd[p].rx_func
                         /\ fwd'[p].tx_func = IF p = in_port THEN TRUE ELSE fwd[p].tx_func
                         /\ fwd'[p].out_port_id = fwd[p].out_port_id
    BY <1>0, <2>1 DEF Entry
  <2> QED BY <1>0, <1>1, <1>4, <2>1, <2>2
       DEF TableInv, PatchedReady, MasterInOrder, SlaveSawReady, ResetClears,
           Patching, PatchPcs
<1>5. CASE mpc = "in.out_port_id"
  <2>1. fwd' = [fwd EXCEPT ![in_port].out_port_id = out_port] /\ mpc' = "out.status"
    BY <1>5 DEF PatchStore, Then
  <2>2. \A p \in Ports : /\ fwd'[p].status = fwd[p].status
                         /\ fwd'[p].rx_func = fwd[p].rx_func
                         /\ fwd'[p].tx_func = fwd[p].tx_func
                         /\ fwd'[p].out_port_id =
                              IF p = in_port THEN out_port ELSE fwd[p].out_port_id
    BY <1>0, <2>1 DEF Entry
  <2> QED BY <1>0, <1>1, <1>5, <2>1, <2>2
       DEF TableInv, PatchedReady, MasterInOrder, SlaveSawReady, ResetClears,
           Patching, PatchPcs
<1>6. CASE mpc = "out.status"
  <2>1. fwd' = [fwd EXCEPT ![out_port].status = out_port] /\ mpc' = "out.rx_func"
    BY <1>6 DEF PatchStore, Then
  <2>2. \A p \in Ports : /\ fwd'[p].status = IF p = out_port THEN p ELSE fwd[p].status
                         /\ fwd'[p].rx_func = fwd[p].rx_func
                         /\ fwd'[p].tx_func = fwd[p].tx_func
                         /\ fwd'[p].out_port_id = fwd[p].out_port_id
    BY <1>0, <2>1 DEF Entry
  <2> QED BY <1>0, <1>1, <1>6, <2>1, <2>2
       DEF TableInv, PatchedReady, MasterInOrder, SlaveSawReady, ResetClears,
           Patching, PatchPcs
<1>7. CASE mpc = "out.rx_func"
  <2>1. fwd' = [fwd EXCEPT ![out_port].rx_func = TRUE] /\ mpc' = "out.tx_func"
    BY <1>7 DEF PatchStore, Then
  <2>2. \A p \in Ports : /\ fwd'[p].status = fwd[p].status
                         /\ fwd'[p].rx_func = IF p = out_port THEN TRUE ELSE fwd[p].rx_func
                         /\ fwd'[p].tx_func = fwd[p].tx_func
                         /\ fwd'[p].out_port_id = fwd[p].out_port_id
    BY <1>0, <2>1 DEF Entry
  <2> QED BY <1>0, <1>1, <1>7, <2>1, <2>2
       DEF TableInv, PatchedReady, MasterInOrder, SlaveSawReady, ResetClears,
           Patching, PatchPcs
<1>8. CASE mpc = "out.tx_func"
  <2>1. fwd' = [fwd EXCEPT ![out_port].tx_func = TRUE] /\ mpc' = "patched"
    BY <1>8 DEF PatchStore, Then
  <2>2. \A p \in Ports : /\ fwd'[p].status = fwd[p].status
                         /\ fwd'[p].rx_func = fwd[p].rx_func
                         /\ fwd'[p].tx_func = IF p = out_port THEN TRUE ELSE fwd[p].tx_func
                         /\ fwd'[p].out_port_id = fwd[p].out_port_id
    BY <1>0, <2>1 DEF Entry
  <2> QED BY <1>0, <1>1, <1>8, <2>1, <2>2
       DEF TableInv, PatchedReady, MasterInOrder, SlaveSawReady, ResetClears,
           Patching, PatchPcs
<1> QED BY <1>0, <1>2, <1>3, <1>4, <1>5, <1>6, <1>7, <1>8 DEF PatchPcs

\* The other steps of the master.
LEMMA MasterTable ==
  ASSUME TypeOK, TableInv,
         PatchReply \/ PatchReset \/ ResetPort \/ ResetReply
           \/ \E i, o \in Attached : Patch(i, o)
  PROVE  TableInv'
<1> USE PortFacts
<1>0. /\ fwd \in [Ports -> Entry]
      /\ \A p \in Ports : fwd[p].out_port_id \in Ports \cup {None}
      /\ UNCHANGED <<spc, si, sout>>
  BY DEF TypeOK, Entry, PatchReply, PatchReset, ResetPort, ResetReply, Patch, slaveVars
<1>1. CASE PatchReply \/ PatchReset \/ ResetReply \/ \E i, o \in Attached : Patch(i, o)
  BY <1>0, <1>1 DEF PatchReply, PatchReset, ResetReply, Patch, Receiving, TableInv,
       PatchedReady, MasterInOrder, SlaveSawReady, ResetClears, Patching, PatchPcs, Ports
<1>2. CASE ResetPort
  <2>1. \A p \in Ports : /\ fwd'[p].status = fwd[p].status
                         /\ fwd'[p].rx_func = fwd[p].rx_func
                         /\ fwd'[p].tx_func = fwd[p].tx_func
                         /\ fwd'[p].out_port_id =
                              IF p = ri /\ fwd[p].status > -1 THEN None
                                ELSE fwd[p].out_port_id
    BY <1>0, <1>2 DEF ResetPort, Entry
  <2>2. fwd'[ri].out_port_id = None
    BY <1>2, <2>1 DEF ResetPort, TableInv, PatchedReady, Ports
  <2>3. /\ mpc = "reset" /\ mpc' = "reset" /\ ri \in Ports /\ ri' = ri + 1
        /\ UNCHANGED <<in_port, out_port>>
    BY <1>2 DEF ResetPort
  <2>4. ResetClears'
    <3> SUFFICES ASSUME NEW p \in Ports, p < ri'
                 PROVE  fwd'[p].out_port_id = None
      BY DEF ResetClears
    <3>1. p < ri \/ p = ri
      BY <2>3 DEF Ports
    <3>2. CASE p < ri
      BY <2>1, <2>3, <3>2 DEF TableInv, ResetClears
    <3> QED BY <2>2, <3>1, <3>2
  <2>5. PatchedReady'
    <3> SUFFICES ASSUME NEW p \in Ports, fwd'[p].out_port_id # None
                 PROVE  /\ fwd'[p].status = p
                        /\ fwd'[p].rx_func
                        /\ fwd'[fwd'[p].out_port_id].tx_func
      BY DEF PatchedReady
    <3>1. fwd'[p].out_port_id = fwd[p].out_port_id
      BY <2>1
    <3>2. fwd[p].out_port_id \in Ports
      BY <1>0, <3>1
    <3> QED BY <2>1, <2>3, <3>1, <3>2 DEF TableInv, PatchedReady, Patching
  <2>6. SlaveSawReady'
    <3> SUFFICES ASSUME NEW s \in Slaves, spc[s] \in {"rx", "receiving", "tx"}
                 PROVE  fwd'[si[s]].rx_func /\ fwd'[sout[s]].tx_func
      BY <1>0 DEF SlaveSawReady
    <3>1. si[s] \in Ports /\ sout[s] \in Ports
      BY DEF TypeOK
    <3> QED BY <2>1, <2>3, <3>1 DEF TableInv, SlaveSawReady, Patching
  <2> QED BY <2>3, <2>4, <2>5, <2>6 DEF TableInv, MasterInOrder, PatchPcs
<1> QED BY <1>1, <1>2

\* The steps of a slave.
LEMMA SlaveTable ==
  ASSUME TypeOK, TableInv, NEW s \in Slaves, Slave(s)
  PROVE  TableInv'
<1> USE PortFacts
<1>0. UNCHANGED <<fwd, mpc, in_port, out_port, ri>>
  BY DEF Slave, BeginPass, ScanPort, CallRx, RxReturn, CallTx, TxReturn, EndPass, masterVars
<1>1. PatchedReady' /\ MasterInOrder' /\ ResetClears'
  BY <1>0 DEF TableInv, PatchedReady, MasterInOrder, ResetClears, Patching
<1>2. /\ spc \in [Slaves -> {"loop", "scan", "rx", "receiving", "tx", "sending"}]
      /\ si \in [Slaves -> 0..MaxPorts]
      /\ sout \in [Slaves -> Ports \cup {None}]
  BY DEF TypeOK
<1>3. CASE ScanPort(s)
  <2>1. si[s] \in Ports
    BY <1>3 DEF ScanPort
  <2>2. CASE fwd[si[s]].status >= 0 /\ fwd[si[s]].out_port_id >= 0
    <3>1. fwd[si[s]].out_port_id # None
      BY <2>2 DEF None
    <3>2. /\ fwd[si[s]].rx_func
          /\ fwd[fwd[si[s]].out_port_id].tx_func \/ Patching(fwd[si[s]].out_port_id)
      BY <2>1, <3>1 DEF TableInv, PatchedReady
    <3>3. /\ spc' = [spc EXCEPT ![s] = "rx"]
          /\ sout' = [sout EXCEPT ![s] = fwd[si[s]].out_port_id]
          /\ si' = si
      BY <1>3, <2>2 DEF ScanPort
    <3>4. SlaveSawReady'
      BY <1>0, <1>2, <3>2, <3>3 DEF TableInv, SlaveSawReady, Patching
    <3> QED BY <1>1, <3>4 DEF TableInv
  <2>3. CASE ~(fwd[si[s]].status >= 0 /\ fwd[si[s]].out_port_id >= 0)
    <3>1. spc[s] = "scan" /\ si' = [si EXCEPT ![s] = @ + 1] /\ UNCHANGED <<spc, sout>>
      BY <1>3, <2>3 DEF ScanPort, At
    <3>2. SlaveSawReady'
      BY <1>0, <1>2, <3>1 DEF TableInv, SlaveSawReady, Patching
    <3> QED BY <1>1, <3>2 DEF TableInv
  <2> QED BY <2>2, <2>3
<1>4. CASE BeginPass(s) \/ CallRx(s) \/ RxReturn(s) \/ CallTx(s) \/ TxReturn(s) \/ EndPass(s)
  <2>1. SlaveSawReady'
    BY <1>0, <1>2, <1>4 DEF TableInv, SlaveSawReady, Patching, At,
       BeginPass, CallRx, RxReturn, CallTx, TxReturn, EndPass
  <2> QED BY <1>1, <2>1 DEF TableInv
<1> QED BY <1>3, <1>4 DEF Slave

\* The table invariant is inductive.
LEMMA TableStep == TypeOK /\ TableInv /\ [Next]_vars => TableInv'
<1> SUFFICES ASSUME TypeOK, TableInv, [Next]_vars
             PROVE  TableInv'
  OBVIOUS
<1>1. ASSUME NEW c \in {"START", "STOP", "FORWARD"}, SetCmd(c)
      PROVE  TableInv'
  BY <1>1, StatusOnly DEF SetCmd, masterVars, slaveVars
<1>2. CASE Exit
  BY <1>2, StatusOnly DEF Exit, masterVars, slaveVars
<1>3. ASSUME NEW id \in RingIds, AddRing(id)
      PROVE  TableInv'
  <2>1. fwd' = fwd \/ \E p \in Ports : fwd' = [fwd EXCEPT ![p].status = p]
    BY <1>3, EnterPortStatus DEF AddRing
  <2> QED BY <1>3, <2>1, StatusOnly DEF AddRing, masterVars, slaveVars
<1>4. ASSUME NEW id \in VhostIds, AddVhost(id)
      PROVE  TableInv'
  <2>1. fwd' = fwd \/ \E p \in Ports : fwd' = [fwd EXCEPT ![p].status = p]
    BY <1>4, EnterPortStatus DEF AddVhost
  <2> QED BY <1>4, <2>1, StatusOnly DEF AddVhost, masterVars, slaveVars
<1>a. ASSUME NEW id \in RingIds, AddSlotRing(id)
      PROVE  TableInv'
  BY <1>a, StatusOnly DEF AddSlotRing, masterVars, slaveVars
<1>5. CASE UNCHANGED vars
  BY <1>5, StatusOnly DEF vars
<1> QED
  BY <1>1, <1>2, <1>3, <1>4, <1>a, <1>5, PatchStoreTable, MasterTable, SlaveTable
     DEF Next, Operator, MasterStep

LEMMA InitTable == Init => TableInv
BY PortFacts DEF Init, UnpatchedEntry, TableInv, PatchedReady, MasterInOrder, SlaveSawReady,
     ResetClears, Patching, PatchPcs

\* The table invariant of forward() and the patch command holds in every run:
\* no visible patch lacks its in port's functions, the master's stores go in
\* order, and what a slave holds was ready when it loaded it.
THEOREM SecTableInv == Spec => []TableInv
<1> QED BY InitTable, SecTypeCorrect, TableStep, PTL DEF Spec

\* forward_array_reset leaves no port patched behind its index.
THEOREM SecResetClears == Spec => []ResetClears
<1>1. TableInv => ResetClears
  BY DEF TableInv
<1> QED BY <1>1, SecTableInv, PTL

\* A slave of forward() calls a null function only in the middle of a patch
\* command, for any table size, any number of slaves and any commands.
THEOREM SecNullCallOnlyMidPatch == Spec => []NullCallOnlyMidPatch
<1>1. Init => NullCallOnlyMidPatch
  BY DEF Init, NullCallOnlyMidPatch
<1>2. TableInv /\ NullCallOnlyMidPatch /\ [Next]_vars => NullCallOnlyMidPatch'
  <2> SUFFICES ASSUME TableInv, NullCallOnlyMidPatch, [Next]_vars,
                      proc' = "null call"
               PROVE  \E s \in Slaves : spc'[s] = "tx" /\ Patching(sout[s])'
    BY DEF NullCallOnlyMidPatch
  <2>1. CASE UNCHANGED vars
    BY <2>1 DEF vars, NullCallOnlyMidPatch, Patching
  <2>2. CASE Operator \/ MasterStep
    <3>1. proc' # "null call"
      BY <2>2 DEF Operator, MasterStep, SetCmd, Exit, AddRing, AddSlotRing, AddVhost, EnterPort,
           Patch, PatchReset, PatchStore, Then, PatchReply, ResetPort, ResetReply,
           Receiving
    <3> QED BY <3>1
  <2>3. ASSUME NEW s \in Slaves, Slave(s)
        PROVE  \E t \in Slaves : spc'[t] = "tx" /\ Patching(sout[t])'
    <3>1. CallRx(s) => fwd[si[s]].rx_func
      BY DEF CallRx, At, TableInv, SlaveSawReady
    <3>2. CallTx(s) /\ spc[s] = "tx" /\ ~fwd[sout[s]].tx_func /\ UNCHANGED spc
      BY <2>3, <3>1 DEF Slave, BeginPass, ScanPort, CallRx, RxReturn, CallTx,
           TxReturn, EndPass, At
    <3>3. Patching(sout[s])
      BY <3>2 DEF TableInv, SlaveSawReady
    <3>4. spc'[s] = "tx" /\ Patching(sout[s])'
      BY <3>2, <3>3 DEF CallTx, Patching, masterVars
    <3> QED BY <3>4
  <2> QED BY <2>1, <2>2, <2>3 DEF Next
<1> QED BY <1>1, <1>2, SecTableInv, PTL DEF Spec
=============================================================================
