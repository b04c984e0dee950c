----------------------------- MODULE MCVhostPmd -----------------------------
(* Instances of VhostPmd for TLC: one rx and one tx queue, two guests that  *)
(* may use the same socket, with and without store buffers.                 *)
EXTENDS VhostPmd, TLC

CONSTANTS d1, d2
TwoGuests == {d1, d2}
GuestSymmetry == Permutations(TwoGuests)
=============================================================================
