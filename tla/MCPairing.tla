------------------------------ MODULE MCPairing ------------------------------
(* Pairing on small instances. *)
EXTENDS Pairing, TLC

CONSTANTS o, p, q, a1, a2, t1, r1, r2
RequestsAlike == Permutations(Requests)
MCOwner == [x \in Agents |-> o]
=============================================================================
