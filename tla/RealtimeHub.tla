---------------------------- MODULE RealtimeHub -----------------------------
(***************************************************************************)
(* The hub of one server process: subscriptions of socket connections, the *)
(* dispatch of events to them, and shutdown.  A connection accepts, sub-   *)
(* scribes, reads its channel until it ends, does its bookkeeping on the   *)
(* way out and closes its subscription.  One goroutine dispatches.         *)
(*                                                                         *)
(* The events of a principal are numbered in the order they are dispatched *)
(* to it, so a channel holds numbers.  Each connection has one             *)
(* subscription in its life and carries its name.                          *)
(***************************************************************************)
EXTENDS Integers, FiniteSets, Sequences

CONSTANTS
  Principal,     \* people and agents
  Conn,          \* connections
  PrincipalOf,   \* whose connection it is
  MaxEvent,      \* bound on the events dispatched to a principal
  Buffer         \* the capacity of a subscription's channel

ASSUME HubAssumption ==
  /\ PrincipalOf \in [Conn -> Principal] /\ MaxEvent \in Nat /\ Buffer \in Nat \ {0}
  /\ IsFiniteSet(Conn)

VARIABLES
  subs,      \* the subscriptions registered with the hub
  chan,      \* the events in each subscription's channel
  ended,     \* the channels that are closed
  stage,     \* where each connection is
  read,      \* the last event each connection read
  sent,      \* per principal, how many events were dispatched to it
  slow,      \* subscriptions the dispatcher has yet to drop
  closed,    \* Hub.closed
  telling,   \* subscriptions Hub.Close has yet to signal
  waited     \* how Hub.Wait stands

conns == <<stage, read>>
vars == <<subs, chan, ended, conns, sent, slow, closed, telling, waited>>

-----------------------------------------------------------------------------
(* A connection: api/client/socket.go, api/agentapi/socket.go.             *)

EnterStage(s, g) == stage' = [stage EXCEPT ![s] = g]

\* The upgrade: from here on the HTTP server does not wait for the handler.
Accept(s) ==
  /\ stage[s] = "none" /\ waited = "no"
  /\ ~closed
  /\ EnterStage(s, "accepted")
  /\ UNCHANGED <<subs, chan, ended, read, sent, slow, closed, telling, waited>>

\* Subscribe does not look whether the hub is closed.
Subscribe(s) ==
  /\ stage[s] = "accepted"
  /\ subs' = subs \cup {s}
  /\ read' = [read EXCEPT ![s] = sent[PrincipalOf[s]]]
  /\ EnterStage(s, "open")
  /\ UNCHANGED <<chan, ended, sent, slow, closed, telling, waited>>

\* The upgraded connection breaks before it subscribes.
GivesUp(s) ==
  /\ stage[s] = "accepted"
  /\ EnterStage(s, "done")
  /\ UNCHANGED <<subs, chan, ended, read, sent, slow, closed, telling, waited>>

Read(s) ==
  /\ stage[s] = "open" /\ chan[s] # <<>>
  /\ read' = [read EXCEPT ![s] = Head(chan[s])]
  /\ chan' = [chan EXCEPT ![s] = Tail(@)]
  /\ UNCHANGED <<subs, ended, stage, sent, slow, closed, telling, waited>>

\* A closed channel is read to its end first.
ReadEnd(s) ==
  /\ stage[s] = "open" /\ chan[s] = <<>> /\ s \in ended
  /\ EnterStage(s, "leaving")
  /\ UNCHANGED <<subs, chan, ended, read, sent, slow, closed, telling, waited>>

Lost(s) ==
  /\ stage[s] = "open"
  /\ EnterStage(s, "leaving")
  /\ UNCHANGED <<subs, chan, ended, read, sent, slow, closed, telling, waited>>

\* The deferred bookkeeping: the binding is marked idle, presence is cleared.
Bookkeeping(s) ==
  /\ stage[s] = "leaving"
  /\ EnterStage(s, "closing")
  /\ UNCHANGED <<subs, chan, ended, read, sent, slow, closed, telling, waited>>

\* Subscription.Close, its first half: detach.
Detach(s) == subs' = subs \ {s}
\* Its second half, signal, and what Hub.Close does: C ends.
Signal(s) == ended' = ended \cup {s}

\* Mutant: the channel is closed before the subscription is out of dispatch.
CloseSignalsFirst(s) ==
  /\ stage[s] = "closing"
  /\ Signal(s) /\ EnterStage(s, "detached")
  /\ UNCHANGED <<subs, chan, read, sent, slow, closed, telling, waited>>

CloseDetaches(s) ==
  /\ stage[s] = "closing"
  /\ Detach(s) /\ EnterStage(s, "detached")
  /\ UNCHANGED <<chan, ended, read, sent, slow, closed, telling, waited>>
CloseSignals(s) ==
  /\ stage[s] = "detached"
  /\ Signal(s) /\ EnterStage(s, "done")
  /\ UNCHANGED <<subs, chan, read, sent, slow, closed, telling, waited>>

-----------------------------------------------------------------------------
(* The dispatcher: Dispatch, one event at a time.                          *)

Addressed(R) == {s \in subs : PrincipalOf[s] \in R}
Full(s) == Len(chan[s]) = Buffer

\* Mutant: a slow connection just misses the event.
DispatchSkips(R) ==
  /\ ~closed /\ slow = {}
  /\ \A p \in R : sent[p] < MaxEvent
  /\ sent' = [p \in Principal |-> IF p \in R THEN sent[p] + 1 ELSE sent[p]]
  /\ chan' = [s \in Conn |-> IF s \in Addressed(R) /\ ~Full(s)
                             THEN Append(chan[s], sent[PrincipalOf[s]] + 1) ELSE chan[s]]
  /\ UNCHANGED <<subs, ended, conns, slow, closed, telling, waited>>

\* Under the lock: whoever has room gets the event, the others are slow.
Dispatch(R) ==
  /\ ~closed /\ slow = {}
  /\ \A p \in R : sent[p] < MaxEvent
  /\ sent' = [p \in Principal |-> IF p \in R THEN sent[p] + 1 ELSE sent[p]]
  /\ chan' = [s \in Conn |-> IF s \in Addressed(R) /\ ~Full(s)
                             THEN Append(chan[s], sent[PrincipalOf[s]] + 1) ELSE chan[s]]
  /\ slow' = {s \in Addressed(R) : Full(s)}
  /\ UNCHANGED <<subs, ended, conns, closed, telling, waited>>

\* After it: each slow one is closed, detached first and then signalled.
DropDetaches(s) ==
  /\ s \in slow /\ s \in subs
  /\ Detach(s)
  /\ UNCHANGED <<chan, ended, conns, sent, slow, closed, telling, waited>>

DropSignals(s) ==
  /\ s \in slow /\ s \notin subs
  /\ Signal(s) /\ slow' = slow \ {s}
  /\ UNCHANGED <<subs, chan, conns, sent, closed, telling, waited>>

-----------------------------------------------------------------------------
(* Shutdown: Hub.Close, then Hub.Wait.                                     *)

HubClose ==
  /\ ~closed /\ closed' = TRUE
  /\ telling' = subs
  /\ UNCHANGED <<subs, chan, ended, conns, sent, slow, waited>>

\* Mutant: a connection is passed over.
TellNot(s) ==
  /\ s \in telling /\ telling' = telling \ {s}
  /\ UNCHANGED <<subs, chan, ended, conns, sent, slow, closed, waited>>

Tell(s) ==
  /\ s \in telling
  /\ Signal(s) /\ telling' = telling \ {s}
  /\ UNCHANGED <<subs, chan, conns, sent, slow, closed, waited>>

\* Wait returns when nothing is registered any more, or in time.
WaitReturns ==
  /\ closed /\ telling = {} /\ waited = "no" /\ subs = {}
  /\ waited' = "all"
  /\ UNCHANGED <<subs, chan, ended, conns, sent, slow, closed, telling>>
WaitTimesOut ==
  /\ closed /\ telling = {} /\ waited = "no" /\ subs # {}
  /\ waited' = "timeout"
  /\ UNCHANGED <<subs, chan, ended, conns, sent, slow, closed, telling>>

-----------------------------------------------------------------------------
Init ==
  /\ subs = {}
  /\ chan = [s \in Conn |-> <<>>]
  /\ ended = {}
  /\ stage = [s \in Conn |-> "none"]
  /\ read = [s \in Conn |-> 0]
  /\ sent = [p \in Principal |-> 0]
  /\ slow = {}
  /\ closed = FALSE
  /\ telling = {}
  /\ waited = "no"

ConnStep(s) ==
  \/ Subscribe(s) \/ Read(s) \/ ReadEnd(s) \/ Bookkeeping(s)
  \/ CloseDetaches(s) \/ CloseSignals(s)
DropStep(s) == DropDetaches(s) \/ DropSignals(s)

Next ==
  \/ \E s \in Conn : Accept(s) \/ GivesUp(s) \/ ConnStep(s) \/ Lost(s) \/ DropStep(s) \/ Tell(s)
  \/ \E R \in SUBSET Principal : R # {} /\ Dispatch(R)
  \/ HubClose \/ WaitReturns \/ WaitTimesOut

Spec == Init /\ [][Next]_vars

\* Handlers, the dispatcher and the shutdown go on with what they have begun.
Fairness ==
  /\ \A s \in Conn : WF_vars(ConnStep(s)) /\ WF_vars(DropStep(s)) /\ WF_vars(Tell(s))
  /\ WF_vars(WaitReturns)
FairSpec == Spec /\ Fairness

-----------------------------------------------------------------------------
(* Properties *)

\* The variables keep the types of the fields they stand for.
TypeOK ==
  /\ subs \subseteq Conn /\ ended \subseteq Conn /\ slow \subseteq Conn /\ telling \subseteq Conn
  /\ chan \in [Conn -> Seq(1..MaxEvent)] /\ \A s \in Conn : Len(chan[s]) <= Buffer
  /\ stage \in [Conn -> {"none", "accepted", "open", "leaving", "closing", "detached", "done"}]
  /\ read \in [Conn -> 0..MaxEvent]
  /\ sent \in [Principal -> 0..MaxEvent]
  /\ closed \in BOOLEAN /\ waited \in {"no", "all", "timeout"}

\* Dispatch never sends on a closed channel, which would end the process:
\* whatever closes a channel has taken it out of dispatch before.
NoSendOnClosed == ~closed => subs \cap ended = {}

\* A registered connection that is not being dropped misses nothing and gets
\* everything in order: what it read, then what waits, up to the last event.
NoGap ==
  \A s \in subs \ slow : stage[s] = "open" =>
    /\ Len(chan[s]) = sent[PrincipalOf[s]] - read[s]
    /\ \A i \in 1..Len(chan[s]) : chan[s][i] = read[s] + i

\* "Close tells every connection to end": each one registered by then does,
\* its bookkeeping and its own Close included.
CloseEndsAll == \A s \in Conn : (s \in telling) ~> stage[s] = "done"
=============================================================================
