----------------------------- MODULE MCBackends ------------------------------
(* Two processes, each of which starts a capture twice, and the game's ports. *)
EXTENDS Backends

MCPorts == {22101, 22102}
=============================================================================
