------------------------------ MODULE MCNotices ------------------------------
(* SignIn and Notices together on a small instance. *)
EXTENDS Notices

CONSTANTS e1, e2, k1, r1, r2, c1, c2
MCProcess == [c \in Sockets |-> IF c = c1 THEN 1 ELSE 2]
=============================================================================
