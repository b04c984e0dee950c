-------------------------- MODULE MCSppController --------------------------
(* Instances of SppController for TLC; the bounds are in the cfg files.     *)
EXTENDS SppController
=============================================================================
