--------------------------- MODULE MCAgentSockets ---------------------------
(* Small instances of AgentSockets for TLC. *)
EXTENDS AgentSockets, TLC

CONSTANTS c1, c2, c3, i1, i2

Spread == [s \in Conn |-> IF s = c1 THEN i1 ELSE i2]
=============================================================================
