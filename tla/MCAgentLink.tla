---------------------------- MODULE MCAgentLink ----------------------------
(* An instance of AgentLink for TLC: replies in one or two segments, hosts  *)
(* that lose power, and enough ends of the management program that it can   *)
(* go away at any step of a second connection.                              *)
EXTENDS AgentLink
=============================================================================
