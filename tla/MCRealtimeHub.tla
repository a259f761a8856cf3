--------------------------- MODULE MCRealtimeHub ----------------------------
(* Small instances of RealtimeHub for TLC. *)
EXTENDS RealtimeHub

CONSTANTS p1, c1, c2

OfOne == [s \in Conn |-> p1]
=============================================================================
