-------------------------------- MODULE Fifo --------------------------------
(***************************************************************************)
(* What rte_ring promises its users (the comments of rte_ring.h): a first- *)
(* in first-out queue that holds at most Cap objects, to which a burst is  *)
(* added, or from which one is taken, in one step.  A fixed-size call moves *)
(* all it was asked for or nothing; a variable one moves what it can, and  *)
(* nothing only if the queue is full (empty).                              *)
(***************************************************************************)
EXTENDS Naturals, Sequences

CONSTANTS Objs,     \* the objects (pointers) a ring carries
          Cap,      \* how many it holds
          Burst,    \* the longest burst
          Fixed     \* RTE_RING_QUEUE_FIXED, or else RTE_RING_QUEUE_VARIABLE

VARIABLES queue,    \* the objects in the queue, oldest first
          last      \* the last call: what it was, what it asked, what it moved

fifoVars == <<queue, last>>

Call(op, asked, objs) == [op |-> op, asked |-> asked, objs |-> objs]

FifoInit ==
  /\ queue = <<>>
  /\ last = Call("none", 0, <<>>)

Enqueue(asked, objs) ==
  /\ Len(queue) + Len(objs) <= Cap
  /\ IF Fixed THEN Len(objs) = asked ELSE Len(objs) <= asked
  /\ queue' = queue \o objs
  /\ last' = Call("enqueue", asked, objs)

EnqueueNothing(asked) ==
  /\ IF Fixed THEN Len(queue) + asked > Cap ELSE Len(queue) = Cap
  /\ last' = Call("enqueue", asked, <<>>)
  /\ UNCHANGED queue

Dequeue(asked, k) ==
  /\ k <= Len(queue)
  /\ IF Fixed THEN k = asked ELSE k <= asked
  /\ queue' = SubSeq(queue, k + 1, Len(queue))
  /\ last' = Call("dequeue", asked, SubSeq(queue, 1, k))

DequeueNothing(asked) ==
  /\ IF Fixed THEN Len(queue) < asked ELSE queue = <<>>
  /\ last' = Call("dequeue", asked, <<>>)
  /\ UNCHANGED queue

FifoNext ==
  \E asked \in 1..Burst :
    \/ \E k \in 1..asked : \E objs \in [1..k -> Objs] : Enqueue(asked, objs)
    \/ EnqueueNothing(asked)
    \/ \E k \in 1..asked : Dequeue(asked, k)
    \/ DequeueNothing(asked)

FifoSpec == FifoInit /\ [][FifoNext]_fifoVars
=============================================================================
