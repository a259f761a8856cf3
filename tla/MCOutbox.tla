------------------------------ MODULE MCOutbox ------------------------------
(* Small instances of Outbox for TLC. *)
EXTENDS Outbox, TLC

CONSTANT a1

OneAgent == [e \in Event |-> a1]
Delays == <<1, 2>>
OneDelay == <<1>>

Symmetry == Permutations(Worker) \cup Permutations(Conn)
=============================================================================
