--------------------------- MODULE MCOvsdbClient ---------------------------
(* Instances of OvsdbClient for TLC: the two requests before the monitor    *)
(* thread starts and two after it.                                          *)
EXTENDS OvsdbClient
=============================================================================
