--------------------------- MODULE MCPanelServer ---------------------------
(* An instance of PanelServer for TLC: a client that connects twice, each   *)
(* connection of which may end at every step of a command.                  *)
EXTENDS PanelServer
=============================================================================
