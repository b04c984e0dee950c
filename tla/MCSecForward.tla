---------------------------- MODULE MCSecForward ----------------------------
(* Instances of SecForward for TLC: the slaves only read the shared state,  *)
(* so one of them meets every interleaving with the master.                 *)
EXTENDS SecForward

CONSTANT s1
OneSlave == {s1}

\* The rings test_case_001.txt uses: one of the host's and the first of the
\* shared-memory ones.
TestRings == {<<"MProc_Ring", 0>>, <<"HSM_Ring", 0>>}
=============================================================================
