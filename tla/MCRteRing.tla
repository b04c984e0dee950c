------------------------------ MODULE MCRteRing ------------------------------
(* An instance of RteRing for TLC: a ring of four slots whose indexes wrap   *)
(* at eight, so that bursts cross both the end of the ring and the end of    *)
(* the index range; burst calls, as the ring ports make them.                *)
EXTENDS RteRing
=============================================================================
