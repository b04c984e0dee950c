------------------------------ MODULE RteRing ------------------------------
(***************************************************************************)
(* rte_ring as the patch panel uses it: created with RING_F_SP_ENQ and     *)
(* RING_F_SC_DEQ (pri_lvl1/init.c:222), one lcore transmits on the ring    *)
(* port and one lcore, often of another process, receives from it, with no *)
(* lock.  The indexes are unsigned integers that wrap at M (2^32 in the    *)
(* code), and only their low bits select a slot.                           *)
(*                                                                         *)
(* Each load of the other side's index, each store of an index and each    *)
(* copy of a slot is a step of its own.  The watermark is the ring's size  *)
(* (rte_ring_init), which no call can exceed, so the quota flag is left    *)
(* out; so are the statistics.                                             *)
(***************************************************************************)
EXTENDS Integers, Sequences

CONSTANTS Size,     \* slots of the ring, a power of two
          M,        \* where the indexes wrap
          Burst,    \* the longest burst a port asks for
          Objs,     \* what the ring carries
          Fixed     \* bulk calls, or else burst calls

ASSUME RingAssumption ==
  /\ Size \in Nat \ {0}
  /\ M \in Nat /\ \E k \in 2..M : M = k * Size
  /\ Burst \in Nat \ {0}
  /\ Fixed \in BOOLEAN

Index == 0..(M - 1)
Slots == 0..(Size - 1)
mask == Size - 1
BurstTables == UNION {[1..k -> Objs] : k \in 1..Burst}

VARIABLES
  prod_head, prod_tail, cons_head, cons_tail,  \* the shared indexes
  ring,                        \* the slots
  ppc, p_head, p_n, p_i, p_tab,  \* the producer: step, local prod_head, n, i, obj_table
  cpc, c_head, c_n, c_i, c_tab,  \* the consumer
  p_asked, c_asked,            \* what each call asked for
  last                         \* the last call that returned (see Fifo)

indexVars == <<prod_head, prod_tail, cons_head, cons_tail>>
prodVars == <<ppc, p_head, p_n, p_i, p_tab, p_asked>>
consVars == <<cpc, c_head, c_n, c_i, c_tab, c_asked>>
vars == <<prod_head, prod_tail, cons_head, cons_tail, ring,
          ppc, p_head, p_n, p_i, p_tab, cpc, c_head, c_n, c_i, c_tab,
          p_asked, c_asked, last>>

Call(op, asked, objs) == [op |-> op, asked |-> asked, objs |-> objs]

\* rte_ring_init does not touch the slots: they hold anything.
Init ==
  /\ prod_head = 0 /\ prod_tail = 0 /\ cons_head = 0 /\ cons_tail = 0
  /\ ring \in [Slots -> Objs]
  /\ ppc = "idle" /\ p_head = 0 /\ p_n = 0 /\ p_i = 0 /\ p_tab = <<>>
  /\ cpc = "idle" /\ c_head = 0 /\ c_n = 0 /\ c_i = 0 /\ c_tab = <<>>
  /\ p_asked = 0 /\ c_asked = 0
  /\ last = Call("none", 0, <<>>)

\* The slot of the i-th object of a burst that starts at index head: the low
\* bits of head, and from slot 0 on again past the end.
SlotOf(head, i) ==
  LET idx == head % Size
  IN  IF idx + i < Size THEN idx + i ELSE idx + i - Size

FreeEntries(head, tail) == (mask + tail - head) % M

\* Variant with a bug: the difference of two wrapped indexes, not wrapped.
EntriesNoWrap(head, tail) == IF tail < head THEN 0 ELSE tail - head

Entries(head, tail) == (tail - head) % M

(* --- __rte_ring_sp_do_enqueue, called by eth_ring_tx --------------------- *)

\* Variant with a bug: what the consumer has claimed is taken for free.
EnqLoadConsHead(tab) ==
  LET free == FreeEntries(prod_head, cons_head)
      n == Len(tab)
  IN  /\ ppc = "idle"
      /\ IF n > free /\ (Fixed \/ free = 0)
         THEN /\ last' = Call("enqueue", n, <<>>)
              /\ UNCHANGED prodVars
         ELSE /\ p_n' = IF n > free THEN free ELSE n
              /\ p_head' = prod_head
              /\ p_tab' = tab
              /\ p_asked' = n
              /\ ppc' = "head"
              /\ UNCHANGED <<p_i, last>>
      /\ UNCHANGED <<indexVars, ring, consVars>>

EnqLoad(tab) ==
  LET free == FreeEntries(prod_head, cons_tail)
      n == Len(tab)
  IN  /\ ppc = "idle"
      /\ IF n > free /\ (Fixed \/ free = 0)
         THEN /\ last' = Call("enqueue", n, <<>>)
              /\ UNCHANGED prodVars
         ELSE /\ p_n' = IF n > free THEN free ELSE n
              /\ p_head' = prod_head
              /\ p_tab' = tab
              /\ p_asked' = n
              /\ ppc' = "head"
              /\ UNCHANGED <<p_i, last>>
      /\ UNCHANGED <<indexVars, ring, consVars>>

\* Variant with a bug: the index does not wrap.
EnqHeadNoWrap ==
  /\ ppc = "head"
  /\ prod_head' = p_head + p_n
  /\ p_i' = 0
  /\ ppc' = "copy"
  /\ UNCHANGED <<prod_tail, cons_head, cons_tail, ring, p_head, p_n, p_tab,
                 p_asked, consVars, last>>

EnqHead ==
  /\ ppc = "head"
  /\ prod_head' = (p_head + p_n) % M
  /\ p_i' = 0
  /\ ppc' = "copy"
  /\ UNCHANGED <<prod_tail, cons_head, cons_tail, ring, p_head, p_n, p_tab,
                 p_asked, consVars, last>>

\* ENQUEUE_PTRS, one pointer.
EnqCopy ==
  /\ ppc = "copy" /\ p_i < p_n
  /\ ring' = [ring EXCEPT ![SlotOf(p_head, p_i)] = p_tab[p_i + 1]]
  /\ p_i' = p_i + 1
  /\ UNCHANGED <<indexVars, ppc, p_head, p_n, p_tab, p_asked, consVars, last>>

\* Variant with a bug: the tail is published before the last pointer is
\* stored, as without the write barrier.
EnqTailEarly ==
  /\ ppc = "copy" /\ p_i >= p_n - 1
  /\ prod_tail' = (p_head + p_n) % M
  /\ last' = Call("enqueue", p_asked, SubSeq(p_tab, 1, p_n))
  /\ ppc' = "idle"
  /\ UNCHANGED <<prod_head, cons_head, cons_tail, ring, p_head, p_n, p_i,
                 p_tab, p_asked, consVars>>

EnqTail ==
  /\ ppc = "copy" /\ p_i = p_n
  /\ prod_tail' = (p_head + p_n) % M
  /\ last' = Call("enqueue", p_asked, SubSeq(p_tab, 1, p_n))
  /\ ppc' = "idle"
  /\ p_head' = 0 /\ p_n' = 0 /\ p_i' = 0 /\ p_tab' = <<>> /\ p_asked' = 0
  /\ UNCHANGED <<prod_head, cons_head, cons_tail, ring, consVars>>

(* --- __rte_ring_sc_do_dequeue, called by eth_ring_rx --------------------- *)

DeqLoad(n) ==
  LET entries == Entries(cons_head, prod_tail)
  IN  /\ cpc = "idle"
      /\ IF n > entries /\ (Fixed \/ entries = 0)
         THEN /\ last' = Call("dequeue", n, <<>>)
              /\ UNCHANGED consVars
         ELSE /\ c_n' = IF n > entries THEN entries ELSE n
              /\ c_head' = cons_head
              /\ c_asked' = n
              /\ cpc' = "head"
              /\ UNCHANGED <<c_i, c_tab, last>>
      /\ UNCHANGED <<indexVars, ring, prodVars>>

DeqHead ==
  /\ cpc = "head"
  /\ cons_head' = (c_head + c_n) % M
  /\ c_i' = 0 /\ c_tab' = <<>>
  /\ cpc' = "copy"
  /\ UNCHANGED <<prod_head, prod_tail, cons_tail, ring, c_head, c_n, c_asked,
                 prodVars, last>>

\* DEQUEUE_PTRS, one pointer.
DeqCopy ==
  /\ cpc = "copy" /\ c_i < c_n
  /\ c_tab' = Append(c_tab, ring[SlotOf(c_head, c_i)])
  /\ c_i' = c_i + 1
  /\ UNCHANGED <<indexVars, ring, cpc, c_head, c_n, c_asked, prodVars, last>>

DeqTail ==
  /\ cpc = "copy" /\ c_i = c_n
  /\ cons_tail' = (c_head + c_n) % M
  /\ last' = Call("dequeue", c_asked, c_tab)
  /\ cpc' = "idle"
  /\ c_head' = 0 /\ c_n' = 0 /\ c_i' = 0 /\ c_tab' = <<>> /\ c_asked' = 0
  /\ UNCHANGED <<prod_head, prod_tail, cons_head, ring, prodVars>>

Producer == (\E tab \in BurstTables : EnqLoad(tab)) \/ EnqHead \/ EnqCopy \/ EnqTail
Consumer == (\E n \in 1..Burst : DeqLoad(n)) \/ DeqHead \/ DeqCopy \/ DeqTail

Next == Producer \/ Consumer

Spec == Init /\ [][Next]_vars

\* The receiving lcore polls its port for ever, and a call that has begun
\* returns; nobody has to transmit.
FairSpec == Spec /\ WF_vars(Consumer) /\ WF_vars(EnqHead \/ EnqCopy \/ EnqTail)

(* --- properties ----------------------------------------------------------- *)

Tables == BurstTables \cup {<<>>}

\* Every variable has its type: indexes are below M, burst counts and copy
\* positions within a burst.
TypeOK ==
  /\ {prod_head, prod_tail, cons_head, cons_tail, p_head, c_head} \subseteq Index
  /\ ring \in [Slots -> Objs]
  /\ ppc \in {"idle", "head", "copy"} /\ cpc \in {"idle", "head", "copy"}
  /\ p_n \in 0..Burst /\ p_i \in 0..p_n /\ p_tab \in Tables
  /\ c_n \in 0..Burst /\ c_i \in 0..c_n /\ c_tab \in Tables
  /\ p_asked \in 0..Burst /\ c_asked \in 0..Burst
  /\ last \in [op : {"none", "enqueue", "dequeue"}, asked : 0..Burst, objs : Tables]

\* How many objects the ring holds.
Used == Entries(cons_tail, prod_tail)

\* The producer's locals agree with the shared indexes at each of its steps: it
\* has claimed no more than is free, and the slots it has copied hold its table.
ProducerInv ==
  /\ ppc = "idle" => prod_head = prod_tail /\ p_i = 0
  /\ ppc # "idle" => /\ p_head = prod_tail
                     /\ p_n \in 1..p_asked /\ p_n + Used <= mask
                     /\ Len(p_tab) = p_asked
                     /\ Fixed => p_n = p_asked
  /\ ppc = "head" => prod_head = prod_tail
  /\ ppc = "copy" =>
       /\ prod_head = (p_head + p_n) % M
       /\ \A j \in 0..(p_i - 1) : ring[SlotOf(p_head, j)] = p_tab[j + 1]

\* The consumer's likewise: what it has copied is still in the ring.
ConsumerInv ==
  /\ cpc = "idle" => cons_head = cons_tail /\ c_i = 0
  /\ cpc # "idle" => /\ c_head = cons_tail
                     /\ c_n \in 1..c_asked /\ c_n <= Used
                     /\ Fixed => c_n = c_asked
  /\ cpc = "head" => cons_head = cons_tail
  /\ cpc = "copy" =>
       /\ cons_head = (c_head + c_n) % M
       /\ Len(c_tab) = c_i
       /\ \A j \in 1..c_i : c_tab[j] = ring[SlotOf(c_head, j - 1)]

\* The invariant behind the refinement: the indexes never drift apart by a whole
\* ring, and no store of one side reaches what the other relies on.
RingInv == Used <= mask /\ ProducerInv /\ ConsumerInv

\* The comments in both functions: although the indexes wrap, free_entries and
\* entries are always between 0 and size(ring)-1.
CountsInRange ==
  /\ FreeEntries(prod_head, cons_tail) \in 0..mask
  /\ Entries(cons_head, prod_tail) \in 0..mask

\* The consumer never copies a slot that the producer is writing: what one side
\* has claimed and not released is out of the other's reach, whatever the order
\* of their steps.
ClaimsDisjoint ==
  ppc = "copy" /\ cpc = "copy" =>
    \A i \in p_i..(p_n - 1), j \in 0..(c_n - 1) : SlotOf(p_head, i) # SlotOf(c_head, j)

\* The queue that the ring holds: from the consumer's tail to the producer's.
SlotSeq(slots, from, n) == [i \in 1..n |-> slots[SlotOf(from, i - 1)]]
queue == SlotSeq(ring, cons_tail, Used)

F == INSTANCE Fifo WITH Cap <- mask

\* The ring is a bounded first-in first-out queue: each burst becomes visible
\* as a whole, in order, nothing is lost, repeated or overwritten, and a call
\* moves less than it was asked for only as its behaviour allows.
ImplementsFifo == F!FifoSpec

\* An object in the ring leaves it, as long as the other side polls: entries is
\* never mistaken for zero when the indexes wrap.
Drains ==
  \A t \in Index :
    cons_tail = t /\ prod_tail # t ~> cons_tail # t
=============================================================================
