----------------------------- MODULE MCNfvSlots -----------------------------
(* Instances of NfvSlots for TLC: two slots, so that a slave can be switched *)
(* to the other one and back while a burst is under way; a ring that exists  *)
(* and one that does not.                                                    *)
EXTENDS NfvSlots
=============================================================================
