------------------------------ MODULE MCHistory ------------------------------
(* Storage and History on small instances. *)
EXTENDS History
CONSTANTS r1, r2, s1, w1
MCWorlds == {{"upload", "send", "crash"}, {"upload", "send", "face"}, {"reply", "stream", "finish", "tap"},
             {"send", "clear", "hide", "walk"}, {"send", "reply", "read", "clear"}}
MCCalls == [w \in Worlds |-> IF "face" \in w \/ "walk" \in w THEN 4 ELSE 5]
MCSize == [f \in Media |-> f]
=============================================================================
