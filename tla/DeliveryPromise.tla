-------------------------- MODULE DeliveryPromise --------------------------
(***************************************************************************)
(* What the outbox promises about each event, without workers, sockets,    *)
(* leases or clocks: once written, an event is pending until it is         *)
(* delivered, which takes a backend that knows it, or failed; either is    *)
(* final; and the tick the sender is shown is an outcome the event really  *)
(* had.  Many events may move in one step.                                 *)
(***************************************************************************)
CONSTANT Event

VARIABLES
  outcome,   \* "none" until the event is written, then pending, delivered or failed
  known,     \* whether some backend knows the event
  told       \* the tick the sender was last shown

vars == <<outcome, known, told>>

Init ==
  /\ outcome = [e \in Event |-> "none"]
  /\ known = [e \in Event |-> FALSE]
  /\ told = [e \in Event |-> "none"]

Write(e) ==
  /\ outcome[e] = "none" /\ outcome'[e] \in {"pending", "failed"}
  /\ told'[e] = outcome'[e] /\ known'[e] = known[e]

Learn(e) ==
  /\ outcome[e] # "none" /\ known'[e] = TRUE
  /\ outcome'[e] = outcome[e] /\ told'[e] = told[e]

Settle(e) ==
  /\ outcome[e] = "pending"
  /\ \/ outcome'[e] = "delivered" /\ known[e] = TRUE
     \/ outcome'[e] = "failed"
  /\ known'[e] = known[e] /\ told'[e] \in {told[e], outcome'[e]}

Tell(e) ==
  /\ told'[e] \in {told[e], outcome[e]}
  /\ outcome'[e] = outcome[e] /\ known'[e] = known[e]

Next == \A e \in Event : Write(e) \/ Learn(e) \/ Settle(e) \/ Tell(e)

Spec == Init /\ [][Next]_vars
=============================================================================
