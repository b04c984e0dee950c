--------------------------- MODULE NfvSlotsProofs ---------------------------
(***************************************************************************)
(* For any number of slots, ports, rings and slave lcores: the types, and, *)
(* when the operator is careful, that switching slots is safe.             *)
(***************************************************************************)
EXTENDS NfvSlots, TLAPS

USE DEF Sides

LEMMA PortFacts ==
  /\ NSlots \in Nat \ {0} /\ MaxPorts \in Nat \ {0} /\ NPhy \in 1..MaxPorts
  /\ 0 \in SlotSet /\ 0 \in PortVals /\ BadPort \in PortVals /\ DelPort \in PortVals
  /\ \A p \in 0..(MaxPorts - 1) : p \in PortVals
BY NfvAssumption DEF SlotSet, PortVals

LEMMA Bounds == NPhy \in Nat /\ MaxPorts \in Nat
BY NfvAssumption

\* An ethdev's number is a port.
LEMMA EthPort ==
  /\ \A p \in 0..(NPhy - 1) : p \in PortVals
  /\ \A e \in NPhy..MaxPorts : e < MaxPorts => e \in PortVals
<1>1. \A p \in 0..(NPhy - 1) : p \in 0..(MaxPorts - 1)
  BY PortFacts
<1>2. \A e \in NPhy..MaxPorts : e < MaxPorts => e \in 0..(MaxPorts - 1)
  BY PortFacts
<1> QED BY <1>1, <1>2, PortFacts

LEMMA TypeStep == TypeOK /\ [Next]_vars => TypeOK'
<1> SUFFICES ASSUME TypeOK, [Next]_vars PROVE TypeOK'
  OBVIOUS
<1> USE DEF TypeOK, masterVars, slaveVars
<1>1. CASE Start
  BY <1>1 DEF Start, Sent
<1>2. CASE Stop
  BY <1>2 DEF Stop
<1>3. ASSUME NEW d \in Sides, NEW p \in 0..(NPhy - 1), AddPort(d, p) PROVE TypeOK'
  <2>1. p \in PortVals
    BY EthPort
  <2> QED BY <1>3, <2>1 DEF AddPort
<1>4. ASSUME NEW d \in Sides, NEW r \in RingIds, AddRing(d, r) PROVE TypeOK'
  <2>1. CASE r \notin HostRings
    BY <1>4, <2>1 DEF AddRing
  <2>2. CASE r \in HostRings
    <3> DEFINE ok == r \notin rings /\ eth < MaxPorts
               p == IF ok THEN eth ELSE BadPort
    <3>1. p \in PortVals
      <4>1. eth \in NPhy..MaxPorts
        OBVIOUS
      <4> QED BY <4>1, EthPort, PortFacts
    <3>2. /\ ports' = [ports EXCEPT ![d][save_pos] = p]
          /\ eth' = (IF ok THEN eth + 1 ELSE eth)
          /\ rings' = (IF ok THEN rings \cup {r} ELSE rings)
          /\ side' = d /\ mpc' = "add func"
          /\ UNCHANGED <<careful, proc, cmd, loop_pos, save_pos, funcs, slaveVars, used>>
      BY <1>4, <2>2 DEF AddRing
    <3>3. eth' \in NPhy..MaxPorts /\ rings' \subseteq RingIds
      <4>1. eth \in NPhy..MaxPorts /\ rings \subseteq RingIds
        OBVIOUS
      <4>2. rings' \subseteq RingIds
        BY <4>1, <3>2
      <4>3. eth' \in NPhy..MaxPorts
        <5>1. eth' = IF eth < MaxPorts /\ r \notin rings THEN eth + 1 ELSE eth
          BY <3>2
        <5> HIDE DEF TypeOK
        <5> QED BY <4>1, <5>1, Bounds
      <4> QED BY <4>2, <4>3
    <3> HIDE DEF p
    <3>4. ports' \in [Sides -> [SlotSet -> PortVals]]
      BY <3>1, <3>2
    <3> QED BY <3>2, <3>3, <3>4
  <2> QED BY <2>1, <2>2
<1>5. CASE AddFunc
  BY <1>5 DEF AddFunc
<1>6. ASSUME NEW d \in Sides, Del(d) PROVE TypeOK'
  BY <1>6 DEF Del
<1>7. CASE DelStorePort
  BY <1>7, PortFacts DEF DelStorePort
<1>8. CASE DelStoreFunc
  BY <1>8 DEF DelStoreFunc
<1>9. ASSUME NEW i \in SlotSet, Save(i) \/ Loop(i) PROVE TypeOK'
  BY <1>9 DEF Save, Loop, Sent
<1>o. CASE OutOfTable
  BY <1>o DEF OutOfTable
<1>10. ASSUME NEW s \in Slaves, Slave(s) PROVE TypeOK'
  <2>1. CASE Poll(s)
    BY <2>1 DEF Poll
  <2>2. CASE ReadLoopPos(s)
    BY <2>2 DEF ReadLoopPos
  <2>3. CASE LoadRxPort(s)
    BY <2>3 DEF LoadRxPort
  <2>4. CASE CallRx(s)
    <3>1. port' \in [Slaves -> PortVals]
      BY <2>4, PortFacts DEF CallRx
    <3>2. rxport' \in [Slaves -> PortVals]
      BY <2>4 DEF CallRx
    <3>3. spc' \in [Slaves -> {"poll", "curr", "rx port", "rx call", "tx port", "tx call"}]
      BY <2>4 DEF CallRx
    <3>4. curr' \in [Slaves -> SlotSet]
      BY <2>4, PortFacts DEF CallRx
    <3>5. proc' \in {"up", "exited", "null call", "bad port", "bad slot"}
      BY <2>4 DEF CallRx
    <3> QED BY <2>4, <3>1, <3>2, <3>3, <3>4, <3>5 DEF CallRx
  <2>5. CASE LoadTxPort(s)
    BY <2>5 DEF LoadTxPort
  <2>6. CASE CallTx(s)
    <3>1. port' \in [Slaves -> PortVals]
      BY <2>6, PortFacts DEF CallTx
    <3>5. rxport' \in [Slaves -> PortVals]
      BY <2>6, PortFacts DEF CallTx
    <3>2. curr' \in [Slaves -> SlotSet]
      BY <2>6, PortFacts DEF CallTx
    <3>3. spc' \in [Slaves -> {"poll", "curr", "rx port", "rx call", "tx port", "tx call"}]
      BY <2>6 DEF CallTx
    <3>4. proc' \in {"up", "exited", "null call", "bad port", "bad slot"}
      BY <2>6 DEF CallTx
    <3> QED BY <2>6, <3>1, <3>2, <3>3, <3>4, <3>5 DEF CallTx
  <2> QED BY <1>10, <2>1, <2>2, <2>3, <2>4, <2>5, <2>6 DEF Slave
<1>11. CASE UNCHANGED vars
  BY <1>11 DEF vars
<1> QED BY <1>1, <1>2, <1>3, <1>4, <1>5, <1>6, <1>7, <1>8, <1>9, <1>o,
           <1>10, <1>11 DEF Next, Master

LEMMA InitType == Init => TypeOK
BY PortFacts DEF Init, TypeOK

\* Every variable of the legacy client has its type, for every operator.
THEOREM NfvTypeCorrect == Spec => []TypeOK
<1> QED BY InitType, TypeStep, PTL DEF Spec

(* --- a careful operator ------------------------------------------------------ *)

LEMMA InitCareful == Init => CarefulInv
BY DEF Init, CarefulInv, InUse, SlaveInUse

LEMMA Widen ==
  ASSUME NEW a \in Nat, NEW b \in Nat, a <= b
  PROVE  \A p \in 0..(a - 1) : p \in 0..(b - 1)
OBVIOUS

\* Editing a slot that nobody uses, and adding ethdevs, disturbs nothing.
LEMMA EditUnused ==
  ASSUME TypeOK, TypeOK', CarefulInv, save_pos \notin used,
         UNCHANGED <<slaveVars, loop_pos, save_pos, used>>,
         proc' \in {"up", "exited"}, cmd' \in {cmd, "STOP"}, eth <= eth',
         \A e \in Sides, i \in used :
           ports'[e][i] = ports[e][i] /\ funcs'[e][i] = funcs[e][i]
  PROVE  CarefulInv'
<1>1. eth \in Nat /\ eth' \in Nat
  <2>1. eth \in NPhy..MaxPorts /\ eth' \in NPhy..MaxPorts
    BY DEF TypeOK
  <2> QED BY <2>1, Bounds
<1>2. \A p \in 0..(eth - 1) : p \in 0..(eth' - 1)
  BY <1>1, Widen
<1>3. \A i \in used' : Complete(i)'
  BY <1>2 DEF Complete, CarefulInv, InUse
<1>4. InUse'
  BY <1>3 DEF CarefulInv, InUse
<1>5. ASSUME NEW s \in Slaves PROVE SlaveInUse(s)'
  BY DEF CarefulInv, SlaveInUse, slaveVars
<1> QED BY <1>4, <1>5 DEF CarefulInv

\* The master's steps: stores go to slots nobody uses, and ethdevs only come.
LEMMA MasterCareful ==
  ASSUME careful, TypeOK, TypeOK', CarefulInv, Master
  PROVE  CarefulInv'
<1>0. eth \in Nat /\ eth <= eth /\ used \subseteq SlotSet /\ proc \in {"up", "exited"}
  <2>1. eth \in NPhy..MaxPorts /\ used \subseteq SlotSet /\ proc \in {"up", "exited"}
    BY DEF TypeOK, CarefulInv, InUse
  <2> QED BY <2>1, Bounds
<1>1. CASE Start
  BY <1>1 DEF Start, Sent, MaySelect, CarefulInv, InUse, SlaveInUse, Complete, AtRecv,
              masterVars, slaveVars
<1>2. CASE Stop
  BY <1>2 DEF Stop, CarefulInv, InUse, SlaveInUse, Complete, masterVars, slaveVars
<1>3. ASSUME NEW d \in Sides, NEW p \in 0..(NPhy - 1), AddPort(d, p) PROVE CarefulInv'
  <2>1. \A e \in Sides, i \in used : ports'[e][i] = ports[e][i] /\ save_pos \notin used
    BY <1>0, <1>3 DEF AddPort, MayEdit, TypeOK
  <2>2. save_pos \notin used /\ funcs' = funcs /\ eth' = eth
    BY <1>3 DEF AddPort, MayEdit
  <2> QED BY <1>0, <1>3, <2>1, <2>2, EditUnused DEF AddPort
<1>4. ASSUME NEW d \in Sides, NEW r \in RingIds, AddRing(d, r) PROVE CarefulInv'
  <2>1. CASE r \notin HostRings
    BY <1>0, <1>4, <2>1, EditUnused DEF AddRing, MayEdit
  <2>2. CASE r \in HostRings
    <3> DEFINE ok == r \notin rings /\ eth < MaxPorts
               p == IF ok THEN eth ELSE BadPort
    <3>1. /\ ports' = [ports EXCEPT ![d][save_pos] = p]
          /\ eth' = (IF ok THEN eth + 1 ELSE eth)
          /\ save_pos \notin used
          /\ UNCHANGED <<proc, cmd, loop_pos, save_pos, funcs, slaveVars, used>>
      BY <1>4, <2>2 DEF AddRing, MayEdit
    <3> HIDE DEF p
    <3>2. \A e \in Sides, i \in used : ports'[e][i] = ports[e][i]
      BY <1>0, <3>1 DEF TypeOK
    <3>3. eth <= eth'
      BY <1>0, <3>1
    <3> QED BY <1>0, <3>1, <3>2, <3>3, EditUnused
  <2> QED BY <2>1, <2>2
<1>5. CASE AddFunc
  <2>1. save_pos \notin used
    BY <1>5 DEF AddFunc, CarefulInv, InUse
  <2>2. \A e \in Sides, i \in used : funcs'[e][i] = funcs[e][i]
    BY <1>0, <1>5, <2>1 DEF AddFunc, TypeOK
  <2> QED BY <1>0, <1>5, <2>1, <2>2, EditUnused DEF AddFunc
<1>6. ASSUME NEW d \in Sides, Del(d) PROVE CarefulInv'
  BY <1>0, <1>6, EditUnused DEF Del, MayEdit
<1>7. CASE DelStorePort
  <2>1. save_pos \notin used
    BY <1>7 DEF DelStorePort, CarefulInv, InUse
  <2>2. \A e \in Sides, i \in used : ports'[e][i] = ports[e][i]
    BY <1>0, <1>7, <2>1 DEF DelStorePort, TypeOK
  <2> QED BY <1>0, <1>7, <2>1, <2>2, EditUnused DEF DelStorePort
<1>8. CASE DelStoreFunc
  <2>1. save_pos \notin used
    BY <1>8 DEF DelStoreFunc, CarefulInv, InUse
  <2>2. \A e \in Sides, i \in used : funcs'[e][i] = funcs[e][i]
    BY <1>0, <1>8, <2>1 DEF DelStoreFunc, TypeOK
  <2> QED BY <1>0, <1>8, <2>1, <2>2, EditUnused DEF DelStoreFunc
<1>9. ASSUME NEW i \in SlotSet, Save(i) PROVE CarefulInv'
  BY <1>9 DEF Save, CarefulInv, InUse, SlaveInUse, Complete, AtRecv, masterVars, slaveVars
<1>10. ASSUME NEW i \in SlotSet, Loop(i) PROVE CarefulInv'
  BY <1>10 DEF Loop, Sent, MaySelect, CarefulInv, InUse, SlaveInUse, Complete, AtRecv,
               masterVars, slaveVars
<1>11. ~OutOfTable
  BY DEF OutOfTable
<1> QED BY <1>1, <1>2, <1>3, <1>4, <1>5, <1>6, <1>7, <1>8, <1>9, <1>10, <1>11 DEF Master

\* A slave's steps: curr is a slot in use, so both calls find what they need.
LEMMA SlaveCareful ==
  ASSUME TypeOK, CarefulInv, NEW s \in Slaves, Slave(s)
  PROVE  CarefulInv'
<1> USE DEF CarefulInv, SlaveInUse
<1>0. /\ spc \in [Slaves -> {"poll", "curr", "rx port", "rx call", "tx port", "tx call"}]
      /\ DOMAIN curr = Slaves /\ DOMAIN port = Slaves /\ DOMAIN rxport = Slaves
  BY DEF TypeOK
<1>1. CASE Poll(s)
  BY <1>0, <1>1 DEF Poll, InUse, Complete, masterVars
<1>2. CASE ReadLoopPos(s)
  BY <1>0, <1>2 DEF ReadLoopPos, InUse, Complete, masterVars, TypeOK
<1>3. CASE LoadRxPort(s)
  BY <1>0, <1>3 DEF LoadRxPort, InUse, Complete, masterVars, TypeOK
<1>4. CASE CallRx(s)
  <2>1. curr[s] \in used /\ funcs["rx"][curr[s]] /\ port[s] = ports["rx"][curr[s]]
        /\ port[s] \in 0..(eth - 1)
    BY <1>4 DEF CallRx, InUse, Complete
  <2>2. /\ UNCHANGED <<proc, cmd, loop_pos, save_pos, ports, funcs, eth, used, mpc>>
        /\ \/ /\ spc' = [spc EXCEPT ![s] = "poll"] /\ UNCHANGED rxport
              /\ curr' = [curr EXCEPT ![s] = 0]
           \/ /\ spc' = [spc EXCEPT ![s] = "tx port"] /\ UNCHANGED curr
              /\ rxport' = [rxport EXCEPT ![s] = port[s]]
        /\ port' = [port EXCEPT ![s] = 0]
    BY <1>4, <2>1 DEF CallRx, masterVars
  <2>3. InUse'
    BY <2>2 DEF InUse, Complete
  <2>4. ASSUME NEW t \in Slaves PROVE SlaveInUse(t)'
    BY <1>0, <1>4, <2>1, <2>2 DEF CallRx
  <2> QED BY <2>3, <2>4
<1>5. CASE LoadTxPort(s)
  BY <1>0, <1>5 DEF LoadTxPort, InUse, Complete, masterVars, TypeOK
<1>6. CASE CallTx(s)
  <2>1. curr[s] \in used /\ funcs["tx"][curr[s]] /\ port[s] = ports["tx"][curr[s]]
        /\ port[s] \in 0..(eth - 1)
    BY <1>6 DEF CallTx, InUse, Complete
  <2>2. /\ UNCHANGED <<proc, cmd, loop_pos, save_pos, ports, funcs, eth, used, mpc>>
        /\ spc' = [spc EXCEPT ![s] = "poll"] /\ curr' = [curr EXCEPT ![s] = 0]
        /\ port' = [port EXCEPT ![s] = 0] /\ rxport' = [rxport EXCEPT ![s] = 0]
    BY <1>6, <2>1 DEF CallTx, masterVars
  <2>3. InUse'
    BY <2>2 DEF InUse, Complete
  <2>4. ASSUME NEW t \in Slaves PROVE SlaveInUse(t)'
    BY <1>0, <1>6, <2>1, <2>2 DEF CallTx
  <2> QED BY <2>3, <2>4
<1> QED BY <1>1, <1>2, <1>3, <1>4, <1>5, <1>6 DEF Slave

\* An operator stays what he is.
LEMMA CareFixed == [Next]_vars => careful' = careful
BY DEF Next, Master, Slave, Start, Stop, AddPort, AddRing, AddFunc, Del, DelStorePort,
       DelStoreFunc, Save, Loop, OutOfTable, Poll, ReadLoopPos, LoadRxPort, CallRx, LoadTxPort,
       CallTx, vars

LEMMA CarefulInvariance == Spec => [](careful => CarefulInv)
<1>1. TypeOK /\ TypeOK' /\ (careful => CarefulInv) /\ [Next]_vars
        => (careful => CarefulInv)'
  <2> SUFFICES ASSUME TypeOK, TypeOK', careful => CarefulInv, [Next]_vars, careful'
               PROVE  CarefulInv'
    OBVIOUS
  <2>1. careful
    BY CareFixed
  <2>2. CASE UNCHANGED vars
    BY <2>1, <2>2 DEF vars, CarefulInv, InUse, SlaveInUse, Complete
  <2> QED BY <2>1, <2>2, MasterCareful, SlaveCareful DEF Next
<1> QED BY <1>1, InitCareful, NfvTypeCorrect, PTL DEF Spec

\* With a careful operator no slave calls a null function or a port that does
\* not exist (nfv_loop's two calls), whatever the interleaving.
THEOREM NfvNoBadCall == Spec => []NoBadCall
<1>1. (careful => CarefulInv) => NoBadCall
  BY DEF CarefulInv, InUse, NoBadCall
<1> QED BY <1>1, CarefulInvariance, PTL

\* With a careful operator "loop" never makes a slave send what it received for
\* one slot out of another slot's port: curr is read once a round.
THEOREM NfvPairUnmixed == Spec => []PairUnmixed
<1>1. (careful => CarefulInv) => PairUnmixed
  BY DEF CarefulInv, SlaveInUse, PairUnmixed, PairOf
<1> QED BY <1>1, CarefulInvariance, PTL
=============================================================================
