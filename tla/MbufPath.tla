------------------------------ MODULE MbufPath ------------------------------
(***************************************************************************)
(* Where the packet buffers (mbufs) of the pools are while the forwarding  *)
(* processes pass them on: forward() of sec_zerocpy, which sends on the    *)
(* buffers it received, and forward() with copy_mbufs() of sec_memcpy,     *)
(* which sends copies from the pool of the out port and gives the          *)
(* originals back.                                                         *)
(*                                                                         *)
(* A route is one in port patched to one out port by one process; every    *)
(* route goes on by itself (the routes of one process take turns, which is *)
(* among the orders allowed here).  Ports are NICs, vhost ports and rings. *)
(* A NIC or vhost port takes a buffer for a packet from its own pool, and  *)
(* frees with rte_pktmbuf_free what it has sent; a ring passes the buffer  *)
(* itself on.  NIC drivers are external.  Packets have one segment, no     *)
(* buffer is attached to another.                                          *)
(***************************************************************************)
EXTENDS Naturals, Sequences, FiniteSets, FiniteSetsExt, SequencesExt

CONSTANTS Bufs, Pools,
          Home,       \* Home[b]: mbuf->pool
          Ports,
          Kind,       \* Kind[p]: "nic", "vhost" or "ring"
          RxPool,     \* RxPool[p]: the pool that NIC or vhost port p receives into
          TxPools,    \* tx_pools[p], as the operator set it ("add tx pool")
          Routes,     \* pairs of an in port and an out port
          CopyModes,  \* sets of routes that sec_memcpy processes may serve
          MaxBurst,   \* MAX_PKT_BURST
          Capacity    \* of a ring

RefMod == 65536   \* 2^16: the count is a uint16_t

ASSUME MbufAssumption ==
  /\ IsFiniteSet(Bufs) /\ Home \in [Bufs -> Pools]
  /\ Kind \in [Ports -> {"nic", "vhost", "ring"}]
  /\ RxPool \in [Ports -> Pools] /\ TxPools \in [Ports -> Pools]
  /\ Routes \subseteq Ports \X Ports /\ CopyModes \subseteq SUBSET Routes
  /\ MaxBurst \in Nat \ {0} /\ Capacity \in Nat \ {0}

VARIABLES
  pool,    \* pool[p][b]: how often buffer b is in the mempool p
  refcnt,  \* the reference count in the buffer
  ring,    \* ring[p]: the buffers in the ring of port p
  rx,      \* rx[r]: bufs[], received and not yet copied
  tx,      \* tx[r]: what is to be sent: bufs[], or the copies m[]
  copying  \* the routes that sec_memcpy processes serve

vars == <<pool, refcnt, ring, rx, tx, copying>>

\* rte_pktmbuf_init leaves the count at 0.
Init ==
  /\ pool = [p \in Pools |-> [b \in Bufs |-> IF Home[b] = p THEN 1 ELSE 0]]
  /\ refcnt = [b \in Bufs |-> 0]
  /\ ring = [p \in Ports |-> <<>>]
  /\ rx = [r \in Routes |-> <<>>] /\ tx = rx
  /\ copying \in CopyModes

Idle(r) == rx[r] = <<>> /\ tx[r] = <<>>
In(r) == r[1]
Out(r) == r[2]

(* --- the pool and the buffers -------------------------------------------------- *)

Free(p) == {b \in Bufs : pool[p][b] > 0}

\* The pools with the buffers of S taken from p and those of P[q] put into q.
Moved(p, S, P) ==
  [q \in Pools |-> [b \in Bufs |->
     pool[q][b] - (IF q = p /\ b \in S THEN 1 ELSE 0)
                + (IF b \in P[q] THEN 1 ELSE 0)]]

\* Variant with a bug: copy_mbufs' way of giving back, for unsent buffers.
OwnOfOne(S) ==
  [q \in Pools |-> IF S # {} /\ q = Home[CHOOSE b \in S : TRUE] THEN S ELSE {}]
\* rte_mempool_put of every buffer into its own pool.
Own(S) == [q \in Pools |-> {b \in S : Home[b] = q}]
\* rte_mempool_put_bulk of all the buffers of s into the pool of the first.
OfFirst(s) == [q \in Pools |-> IF q = Home[s[1]] THEN ToSet(s) ELSE {}]
NoPut == [q \in Pools |-> {}]

\* Variant with a bug: the count is signed.
CountDownSigned(c) == c - 1
\* rte_mbuf_refcnt_update(m, -1).
CountDown(c) == (c + RefMod - 1) % RefMod

(* --- receive ---------------------------------------------------------------------- *)

\* The burst goes to copy_mbufs, or as it is to tx_func.
Received(r, s) ==
  IF r \in copying THEN rx' = [rx EXCEPT ![r] = s] /\ UNCHANGED tx
                   ELSE tx' = [tx EXCEPT ![r] = s] /\ UNCHANGED rx

\* A NIC or vhost port: rte_pktmbuf_alloc sets the count.
RxAlloc(r) ==
  /\ Idle(r) /\ Kind[In(r)] # "ring"
  /\ \E S \in SUBSET Free(RxPool[In(r)]) \ {{}} :
       /\ Cardinality(S) <= MaxBurst
       /\ pool' = Moved(RxPool[In(r)], S, NoPut)
       /\ refcnt' = [b \in Bufs |-> IF b \in S THEN 1 ELSE refcnt[b]]
       /\ Received(r, SetToSeq(S))
  /\ UNCHANGED <<ring, copying>>

\* eth_ring_rx.
RxRing(r) ==
  LET n == Min({MaxBurst, Len(ring[In(r)])})
  IN /\ Idle(r) /\ Kind[In(r)] = "ring" /\ n > 0
     /\ ring' = [ring EXCEPT ![In(r)] = SubSeq(@, n + 1, Len(@))]
     /\ Received(r, SubSeq(ring[In(r)], 1, n))
     /\ UNCHANGED <<pool, refcnt, copying>>

(* --- copy_mbufs ------------------------------------------------------------------- *)

\* As many buffers from the out port's pool, as they are; the originals are put
\* into the pool of the first.
Copy(r) ==
  /\ rx[r] # <<>>
  /\ \E S \in SUBSET Free(TxPools[Out(r)]) :
       /\ Cardinality(S) = Len(rx[r])
       /\ pool' = Moved(TxPools[Out(r)], S, OfFirst(rx[r]))
       /\ tx' = [tx EXCEPT ![r] = SetToSeq(S)]
  /\ rx' = [rx EXCEPT ![r] = <<>>]
  /\ UNCHANGED <<refcnt, ring, copying>>

\* rte_mempool_get_bulk fails: too few, or in the caches of other lcores.
CopyFails(r) ==
  /\ rx[r] # <<>>
  /\ pool' = Moved(TxPools[Out(r)], {}, OfFirst(rx[r]))
  /\ rx' = [rx EXCEPT ![r] = <<>>]
  /\ UNCHANGED <<refcnt, ring, tx, copying>>

(* --- send -------------------------------------------------------------------------- *)

Sent(r, n) == ToSet(SubSeq(tx[r], 1, n))

\* Variant with a bug: the last buffer that was sent is put too.
UnsentOneMore(r, n) == ToSet(SubSeq(tx[r], Max({1, n}), Len(tx[r])))

Unsent(r, n) == ToSet(SubSeq(tx[r], n + 1, Len(tx[r])))

\* A NIC or vhost port sends n of the burst and frees them with
\* rte_pktmbuf_free; forward puts the others.
TxFree(r) ==
  /\ tx[r] # <<>> /\ Kind[Out(r)] # "ring"
  /\ \E n \in 0..Len(tx[r]) :
       LET back == {b \in Sent(r, n) : CountDown(refcnt[b]) = 0}
       IN /\ pool' = Moved(Home[tx[r][1]], {}, Own(back \cup Unsent(r, n)))
          /\ refcnt' = [b \in Bufs |->
               IF b \in Sent(r, n) THEN CountDown(refcnt[b]) ELSE refcnt[b]]
  /\ tx' = [tx EXCEPT ![r] = <<>>]
  /\ UNCHANGED <<ring, rx, copying>>

\* Variant with a bug: what did not fit into the ring is not given back.
TxRingDrops(r) ==
  LET n == Min({Len(tx[r]), Capacity - Len(ring[Out(r)])})
  IN /\ tx[r] # <<>> /\ Kind[Out(r)] = "ring"
     /\ ring' = [ring EXCEPT ![Out(r)] = @ \o SubSeq(tx[r], 1, n)]
     /\ tx' = [tx EXCEPT ![r] = <<>>]
     /\ UNCHANGED <<pool, refcnt, rx, copying>>

\* eth_ring_tx takes what fits; forward puts the others.
TxRing(r) ==
  LET n == Min({Len(tx[r]), Capacity - Len(ring[Out(r)])})
  IN /\ tx[r] # <<>> /\ Kind[Out(r)] = "ring"
     /\ ring' = [ring EXCEPT ![Out(r)] = @ \o SubSeq(tx[r], 1, n)]
     /\ pool' = Moved(Home[tx[r][1]], {}, Own(Unsent(r, n)))
     /\ tx' = [tx EXCEPT ![r] = <<>>]
     /\ UNCHANGED <<refcnt, rx, copying>>

Tx(r) == TxFree(r) \/ TxRing(r)
Forward(r) == RxAlloc(r) \/ RxRing(r) \/ Copy(r) \/ CopyFails(r) \/ Tx(r)
Next == \E r \in Routes : Forward(r)

Spec == Init /\ [][Next]_vars

\* An lcore that forwards goes round for ever; no packet has to arrive.
FairSpec ==
  /\ Spec
  /\ \A r \in Routes : WF_vars(RxRing(r)) /\ WF_vars(Tx(r))

(* --- properties --------------------------------------------------------------------- *)

\* Every variable has its type; the count keeps to the buffer's 16 bits and a
\* ring to its size.
TypeOK ==
  /\ pool \in [Pools -> [Bufs -> Nat]]
  /\ refcnt \in [Bufs -> 0..RefMod - 1]
  /\ ring \in [Ports -> Seq(Bufs)] /\ \A p \in Ports : Len(ring[p]) <= Capacity
  /\ rx \in [Routes -> Seq(Bufs)] /\ tx \in [Routes -> Seq(Bufs)]
  /\ copying \in CopyModes

At(b, s) == {i \in DOMAIN s : s[i] = b}

\* The places where buffer b can be reached, over the pools, rings and bursts.
Places(b) == UNION
  (   {{"pool"} \X {p} \X (1..pool[p][b]) : p \in Pools}
 \cup {{"ring"} \X {p} \X At(b, ring[p]) : p \in Ports}
 \cup {{"rx"} \X {r} \X At(b, rx[r]) : r \in Routes}
 \cup {{"tx"} \X {r} \X At(b, tx[r]) : r \in Routes})

\* No buffer is given back or passed on twice, so no two packets share one.
NeverTwice == \A b \in Bufs : \A x, y \in Places(b) : x = y

\* Where buffers are only sent on (sec_zerocpy) none is lost, whichever part of
\* a burst a port takes and however full the rings are.  Where they are copied
\* one is lost only as a copy that a NIC or vhost port has sent: its count was
\* never set, so that freeing it makes it wrap and nothing comes back.
LostOnlyAsCopy ==
  \A b \in Bufs : Places(b) = {} => copying # {} /\ refcnt[b] = RefMod - 1

\* A buffer that nobody uses is back in a pool ("Each segment is added back
\* into its original mempool", rte_pktmbuf_free in rte_mbuf.h): none is lost.
NoneLost == \A b \in Bufs : Places(b) # {}

\* P[p] are pools whose buffers come in at port p, when the routes of C are
\* served by sec_memcpy: what is copied comes from the pool of the out port.
Feeds(P, C) ==
  /\ \A p \in Ports : Kind[p] # "ring" => RxPool[p] \in P[p]
  /\ \A r \in Routes : Kind[Out(r)] = "ring" =>
       (IF r \in C THEN {TxPools[Out(r)]} ELSE P[In(r)]) \subseteq P[Out(r)]

\* The ways to set up the copies in which each burst to be copied is of one pool.
OnePoolModes ==
  {C \in CopyModes : \E P \in [Ports -> SUBSET Pools] :
     Feeds(P, C) /\ \A r \in C : \A q, u \in P[In(r)] : q = u}

\* Buffers are put "back in the mempool" (rte_mempool_put_bulk in
\* rte_mempool.h): the one they were taken from.  copy_mbufs, which puts a burst
\* into the pool of its first buffer, does so where bursts are of one pool.
InOwnPool ==
  copying \in OnePoolModes =>
    \A p \in Pools, b \in Bufs : pool[p][b] > 0 => Home[b] = p

\* However small the pools and slow the rings, a pool that runs dry fills again
\* where buffers are only sent on.
PoolRefills ==
  \A p \in Pools : (copying = {} /\ Free(p) = {}) ~> (Free(p) # {})
=============================================================================
