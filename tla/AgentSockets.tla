---------------------------- MODULE AgentSockets ----------------------------
(***************************************************************************)
(* The sockets of one agent, over several server processes: how a new one  *)
(* takes over from an older one, and how the binding's status follows.     *)
(* An announcement is published on the bus, which every process receives   *)
(* in the same order and dispatches to the sockets subscribed by then.     *)
(* A socket that was replaced does not come back: the SDKs stop on 4001.   *)
(***************************************************************************)
EXTENDS Integers, FiniteSets, Sequences

CONSTANTS
  Conn,        \* the sockets opened for the agent, each used once
  Instance,    \* the server processes
  InstanceOf,  \* the process that holds a socket
  Breaks       \* TRUE: connections may break and announcements fail

ASSUME SocketsAssumption ==
  InstanceOf \in [Conn -> Instance] /\ Breaks \in BOOLEAN /\ IsFiniteSet(Conn)

VARIABLES
  stage,   \* where each socket's handler is
  chan,    \* the announcements in each subscription's channel
  bus,     \* the announcements published so far
  seen,    \* per process, how many of them it has dispatched
  why,     \* why a socket ended
  status   \* the status of the agent's binding

vars == <<stage, chan, bus, seen, why, status>>

Subscribed(s) == stage[s] \in {"subscribed", "announced", "open", "leaving"}
EnterStage(s, g) == stage' = [stage EXCEPT ![s] = g]

-----------------------------------------------------------------------------
\* The handler has found a socket binding and upgraded the connection; it
\* subscribes before it announces itself.
Subscribe(s) ==
  /\ stage[s] = "none"
  /\ EnterStage(s, "subscribed")
  /\ UNCHANGED <<chan, bus, seen, why, status>>

Announce(s) ==
  /\ stage[s] = "subscribed"
  /\ bus' = Append(bus, s)
  /\ EnterStage(s, "announced")
  /\ UNCHANGED <<chan, seen, why, status>>

\* Nobody heard of this socket, and it ends without a word about the binding.
AnnounceFails(s) ==
  /\ Breaks /\ stage[s] = "subscribed"
  /\ EnterStage(s, "closed") /\ why' = [why EXCEPT ![s] = "lost"]
  /\ UNCHANGED <<chan, bus, seen, status>>

SocketConnected(s) ==
  /\ stage[s] = "announced"
  /\ status' = "connected"
  /\ EnterStage(s, "open")
  /\ UNCHANGED <<chan, bus, seen, why>>

\* A process dispatches the next announcement to the sockets it holds now.
Dispatch(i) ==
  /\ seen[i] < Len(bus)
  /\ seen' = [seen EXCEPT ![i] = @ + 1]
  /\ chan' = [s \in Conn |-> IF InstanceOf[s] = i /\ Subscribed(s)
                             THEN Append(chan[s], bus[seen[i] + 1]) ELSE chan[s]]
  /\ UNCHANGED <<stage, bus, why, status>>

\* Mutant: only a socket of the same process is told apart from oneself.
ReplacesHere(s, t) == t # s /\ InstanceOf[t] = InstanceOf[s]
\* Whether an announcement of t makes s leave: any but its own.
Replaces(s, t) == t # s

\* The loop takes the next announcement: its own it ignores, any other ends it.
Hears(s) ==
  /\ stage[s] = "open" /\ chan[s] # <<>>
  /\ chan' = [chan EXCEPT ![s] = Tail(@)]
  /\ IF Replaces(s, Head(chan[s]))
     THEN EnterStage(s, "closed") /\ why' = [why EXCEPT ![s] = "replaced"]
     ELSE UNCHANGED <<stage, why>>
  /\ UNCHANGED <<bus, seen, status>>

\* Mutant: the ping does not refresh the binding.
HeartbeatPingOnly(s) ==
  /\ stage[s] = "open"
  /\ UNCHANGED vars
\* The heartbeat says connected again.
Heartbeat(s) ==
  /\ stage[s] = "open"
  /\ status' = "connected"
  /\ UNCHANGED <<stage, chan, bus, seen, why>>

Lost(s) ==
  /\ Breaks /\ stage[s] = "open"
  /\ EnterStage(s, "leaving") /\ why' = [why EXCEPT ![s] = "lost"]
  /\ UNCHANGED <<chan, bus, seen, status>>

\* On its way out a socket that was not replaced marks the binding idle.
SocketClosed(s) ==
  /\ stage[s] = "leaving"
  /\ status' = "idle"
  /\ EnterStage(s, "closed")
  /\ UNCHANGED <<chan, bus, seen, why>>

-----------------------------------------------------------------------------
Init ==
  /\ stage = [s \in Conn |-> "none"]
  /\ chan = [s \in Conn |-> <<>>]
  /\ bus = <<>>
  /\ seen = [i \in Instance |-> 0]
  /\ why = [s \in Conn |-> "none"]
  /\ status = "idle"

HandlerStep(s) == Announce(s) \/ SocketConnected(s) \/ SocketClosed(s)

Next ==
  \/ \E s \in Conn : Subscribe(s) \/ AnnounceFails(s) \/ HandlerStep(s) \/ Hears(s)
                     \/ Heartbeat(s) \/ Lost(s)
  \/ \E i \in Instance : Dispatch(i)

Spec == Init /\ [][Next]_vars

\* Handlers go on, tickers tick, the bus delivers.  The loop's select picks a
\* ready channel at random, so neither announcements nor pings wait for ever.
Fairness ==
  /\ \A s \in Conn : WF_vars(HandlerStep(s)) /\ WF_vars(Hears(s)) /\ WF_vars(Heartbeat(s))
  /\ \A i \in Instance : WF_vars(Dispatch(i))
FairSpec == Spec /\ Fairness

-----------------------------------------------------------------------------
(* Properties *)

\* The variables keep the types of the values they stand for, and a socket has
\* a reason to end exactly when its loop has ended.
TypeOK ==
  /\ stage \in [Conn -> {"none", "subscribed", "announced", "open", "leaving", "closed"}]
  /\ chan \in [Conn -> Seq(Conn)] /\ bus \in Seq(Conn) /\ seen \in [Instance -> Nat]
  /\ why \in [Conn -> {"none", "replaced", "lost"}] /\ status \in {"idle", "connected"}
  /\ \A s \in Conn : why[s] # "none" <=> stage[s] \in {"leaving", "closed"}

\* "Every older socket for the same agent, on any instance, closes": in the
\* end the agent has at most one socket.
AtMostOneStays == <>[](Cardinality({s \in Conn : stage[s] = "open"}) <= 1)

\* An old socket that closes late may mark the binding idle under a new one;
\* while a socket stays, the binding does not stay idle.
StatusFollows ==
  \A s \in Conn : []<>(stage[s] = "open" => status = "connected")
=============================================================================
