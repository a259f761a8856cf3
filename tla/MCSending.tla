----------------------------- MODULE MCSending ------------------------------
(* Sending on small instances. *)
EXTENDS Sending

CONSTANTS k1, k2, c1, c2
=============================================================================
