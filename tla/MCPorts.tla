------------------------------- MODULE MCPorts -------------------------------
(* Instances of Ports: a few bits of each port.                            *)
EXTENDS Ports

FewBits == [B |-> {4}, C |-> {3}, D |-> {INT0_PIN, INT1_PIN}]
=============================================================================
