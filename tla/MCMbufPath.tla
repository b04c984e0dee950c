----------------------------- MODULE MCMbufPath -----------------------------
(* Instances of MbufPath for TLC: a NIC with buffers of pool A and a vhost  *)
(* port with buffers of pool B are patched to one ring, and the ring to a   *)
(* second vhost port; a burst can be most of a pool, and the ring can be    *)
(* full.  sec_memcpy serves none of the routes or some of them.             *)
EXTENDS MbufPath

MCBufs == 1..5
MCPools == {"A", "B"}
MCHome == <<"A", "A", "B", "B", "B">>
MCPorts == {"nic", "vhost", "ring", "out"}
MCKind == [p \in MCPorts |-> IF p \in {"nic", "ring"} THEN p ELSE "vhost"]
MCRxPool == [p \in MCPorts |-> IF p = "nic" THEN "A" ELSE "B"]
MCTxPools == [p \in MCPorts |-> "B"]
MCRoutes == {<<"nic", "ring">>, <<"vhost", "ring">>, <<"ring", "out">>}
\* No copies; copies on the way into the ring, from the NIC or from both; copies
\* out of the ring, which then holds buffers of both pools; all.
Modes == {{}, {<<"nic", "ring">>}, {<<"nic", "ring">>, <<"vhost", "ring">>},
          {<<"ring", "out">>}, MCRoutes}
NicCopied == {{<<"nic", "ring">>}}
=============================================================================
