------------------------------- MODULE Outbox -------------------------------
(***************************************************************************)
(* The delivery outbox of the hub: the rows of message_deliveries, the     *)
(* binding of each agent, the delivery workers that post due rows to       *)
(* webhook backends, and the agent sockets that push due rows and collect  *)
(* acknowledgements.  One worker per server process.                       *)
(*                                                                         *)
(* A row is identified by its event id; ids grow with creation order.      *)
(* Time is a counter of ticks.  A backend is identified by the binding it  *)
(* was given, so `has` says which backends know an event.                  *)
(***************************************************************************)
EXTENDS Integers, FiniteSets, Sequences

CONSTANTS
  Agent,           \* the agents
  MaxEvent,        \* events are 1..MaxEvent
  AgentOf,         \* the agent each event is for
  Worker,          \* the delivery workers, one per server process
  Conn,            \* agent socket connections
  MaxBinding,      \* bound on the bindings ever created
  MaxTime,         \* bound on the clock
  Lease,           \* how long a claim holds a row
  RetryDelays,     \* the wait after the n-th failed attempt
  RetryFor,        \* how long after its creation an event is attempted
  UnreachableAfter,\* length of a failure streak that makes a binding unreachable
  BatchSize,       \* rows one worker pass claims
  SocketBatch,     \* rows one socket claim takes
  Faults           \* TRUE: passes and claims may fail or crash half way

Event == 1..MaxEvent
Binding == 0..MaxBinding      \* 0: no binding
Time == 0..MaxTime
Modes == {"webhook", "socket"}

ASSUME OutboxAssumption ==
  /\ MaxEvent \in Nat /\ MaxBinding \in Nat /\ MaxTime \in Nat \ {0}
  /\ Agent # {} /\ AgentOf \in [Event -> Agent]
  /\ Lease \in Nat \ {0} /\ RetryFor \in Nat /\ UnreachableAfter \in Nat
  /\ BatchSize \in Nat \ {0} /\ SocketBatch \in Nat \ {0}
  /\ RetryDelays \in Seq(Nat) /\ RetryDelays # <<>>
  /\ Faults \in BOOLEAN

VARIABLES
  now,        \* the clock
  status,     \* message_deliveries.status; "none" before the row exists
  attempts,   \* message_deliveries.attempts
  next,       \* message_deliveries.next_attempt_at
  created,    \* message_deliveries.created_at
  lastError,  \* message_deliveries.last_error, by kind
  told,       \* the tick mark the sender's devices were last told
  binding,    \* per agent, the live binding: id, mode, status, failure streak
  bindings,   \* how many bindings were ever created
  pc,         \* where each worker is in its pass
  attempt,    \* the attempts of each worker's current pass, by event
  conn,       \* the agent socket connections: phase, agent and binding of each
  wire,       \* per connection, what its push has claimed and not yet written
  acks,       \* per connection, acknowledgements read and not yet handled
  nudged,     \* per connection, whether a nudge waits for its loop
  has,        \* history: the backends that know an event
  eligible,   \* history: the bindings live at some time since its creation
  overran     \* history: the events a worker had in hand when their lease ended

rows == <<status, attempts, next, created, lastError, told>>
sockets == <<conn, wire, acks, nudged>>
vars == <<now, rows, binding, bindings, pc, attempt, sockets, has, eligible, overran>>

-----------------------------------------------------------------------------
(* Bindings and their health: agents/bindings.go, agents/endpoint.go.      *)

\* seen is last_seen_at, streak failure_streak_started_at; 0 is NULL in both.
BindingRow(b, m, s, t, u) == [id |-> b, mode |-> m, status |-> s, seen |-> t, streak |-> u]
NoBinding == BindingRow(0, "none", "idle", 0, 0)

\* Mutant: the revoked binding before the live one is read.
ActiveEndpointRevoked(a) ==
  [id |-> IF binding[a].id > 1 THEN binding[a].id - 1 ELSE binding[a].id, mode |-> binding[a].mode]

\* ActiveEndpoint: where the agent's events go, id 0 when nowhere.
ActiveEndpoint(a) == [id |-> binding[a].id, mode |-> binding[a].mode]

\* RecordBindingSuccess: only a live binding is updated.
RecordDeliverySuccess(a, b) ==
  IF binding[a].id = b /\ b # 0
  THEN [binding EXCEPT ![a] = BindingRow(b, @.mode, "connected", now, 0)]
  ELSE binding

\* Mutant: a streak that never began is as old as time.
StreakStartUnset(a) == binding[a].streak

\* RecordBindingFailure: a streak starts or goes on; a long one is unreachable.
StreakStart(a) == IF binding[a].streak = 0 THEN now ELSE binding[a].streak
RecordDeliveryFailure(a, b) ==
  IF binding[a].id = b /\ b # 0
  THEN [binding EXCEPT ![a] = BindingRow(b, @.mode,
          IF StreakStart(a) + UnreachableAfter <= now THEN "unreachable" ELSE @.status,
          @.seen, StreakStart(a))]
  ELSE binding

\* MarkBindingIdle: only a connected live binding.
SocketClosed(a, b) ==
  IF binding[a].id = b /\ b # 0 /\ binding[a].status = "connected"
  THEN [binding EXCEPT ![a] = BindingRow(b, @.mode, "idle", @.seen, @.streak)]
  ELSE binding

SetBinding(a, m) ==
  /\ bindings < MaxBinding
  /\ bindings' = bindings + 1
  /\ binding' = [binding EXCEPT ![a] = BindingRow(bindings + 1, m, "idle", 0, 0)]
  /\ eligible' = [e \in Event |-> IF AgentOf[e] = a /\ status[e] # "none"
                                  THEN eligible[e] \cup {bindings + 1}
                                  ELSE eligible[e]]
  /\ UNCHANGED <<now, rows, pc, attempt, sockets, has, overran>>

\* Mutant: the revoked row stays where the live one is looked up.
RevokeBindingStays(a) ==
  /\ binding[a].id # 0
  /\ binding' = [binding EXCEPT ![a] = BindingRow(@.id, @.mode, "revoked", @.seen, @.streak)]
  /\ UNCHANGED <<now, rows, bindings, pc, attempt, sockets, has, eligible, overran>>

RevokeBinding(a) ==
  /\ binding[a].id # 0
  /\ binding' = [binding EXCEPT ![a] = NoBinding]
  /\ UNCHANGED <<now, rows, bindings, pc, attempt, sockets, has, eligible, overran>>

-----------------------------------------------------------------------------
(* The rows: store/queries/deliveries.sql, delivery/schedule.go.           *)

\* The wait after the n-th failed attempt: the last delay goes on for ever.
RetryDelay(n) ==
  RetryDelays[IF n < 1 THEN 1 ELSE IF n <= Len(RetryDelays) THEN n ELSE Len(RetryDelays)]

\* nextAttempt: when to try again, and whether that is still within the day.
NextAttempt(n) == now + RetryDelay(n)
StillWorthIt(n, e) == NextAttempt(n) <= created[e] + RetryFor

Pending(e) == status[e] = "pending"

DueWebhook == {e \in Event : /\ Pending(e) /\ next[e] <= now
                             /\ binding[AgentOf[e]].mode = "webhook"}

DueSocket(a) == {e \in Event : /\ AgentOf[e] = a /\ Pending(e) /\ next[e] <= now
                               /\ binding[a].mode = "socket"}

\* A batch of at most k rows of S, the ones that come first by the order key.
Batches(S, k, key) ==
  {B \in SUBSET S :
     /\ Cardinality(B) = IF Cardinality(S) <= k THEN Cardinality(S) ELSE k
     /\ \A x \in B, y \in S \ B : key[x] <= key[y]}

\* Mutant: the claim leaves next_attempt_at alone.
LeasedNot(B) ==
  /\ attempts' = [e \in Event |-> IF e \in B THEN attempts[e] + 1 ELSE attempts[e]]
  /\ UNCHANGED <<status, next, created, lastError, told>>

\* Mutant: to push an event is to deliver it.
LeasedDelivered(B) ==
  /\ status' = [e \in Event |-> IF e \in B THEN "delivered" ELSE status[e]]
  /\ UNCHANGED <<attempts, next, created, lastError, told>>

\* The two claims lease the rows they take: one more attempt, and not due
\* again before the lease is over.
Leased(B) ==
  /\ attempts' = [e \in Event |-> IF e \in B THEN attempts[e] + 1 ELSE attempts[e]]
  /\ next' = [e \in Event |-> IF e \in B THEN now + Lease ELSE next[e]]
  /\ UNCHANGED <<status, created, lastError, told>>

\* The sender's devices are told the row's status; the announcement may be lost.
DeliveryChanged(e) ==
  \/ told' = [told EXCEPT ![e] = status'[e]]
  \/ Faults /\ UNCHANGED told

\* MarkDelivered and AckDelivery, then DeliveryChanged announces the tick.
MarkDelivered(e) ==
  /\ status' = [status EXCEPT ![e] = IF @ = "pending" THEN "delivered" ELSE @]
  /\ lastError' = [lastError EXCEPT ![e] = IF Pending(e) THEN "none" ELSE @]
  /\ DeliveryChanged(e)
  /\ UNCHANGED <<attempts, next, created>>

\* Mutant: the statement lost its guard on pending.
MarkFailedAlways(e, reason) ==
  /\ status' = [status EXCEPT ![e] = "failed"]
  /\ lastError' = [lastError EXCEPT ![e] = reason]
  /\ DeliveryChanged(e)
  /\ UNCHANGED <<attempts, next, created>>

\* Mutant: the tick announced is the one meant, not the row's.
MarkFailedTellsMeant(e, reason) ==
  /\ status' = [status EXCEPT ![e] = IF @ = "pending" THEN "failed" ELSE @]
  /\ lastError' = [lastError EXCEPT ![e] = IF Pending(e) THEN reason ELSE @]
  /\ told' = [told EXCEPT ![e] = "failed"]
  /\ UNCHANGED <<attempts, next, created>>

\* markFailed: MarkFailed, then DeliveryChanged announces the tick.
MarkFailed(e, reason) ==
  /\ status' = [status EXCEPT ![e] = IF @ = "pending" THEN "failed" ELSE @]
  /\ lastError' = [lastError EXCEPT ![e] = IF Pending(e) THEN reason ELSE @]
  /\ DeliveryChanged(e)
  /\ UNCHANGED <<attempts, next, created>>

ScheduleRetry(e, t) ==
  /\ next' = [next EXCEPT ![e] = IF Pending(e) THEN t ELSE @]
  /\ lastError' = [lastError EXCEPT ![e] = IF Pending(e) THEN "attempt_failed" ELSE @]
  /\ UNCHANGED <<status, attempts, created, told>>

\* FailExpiredDeliveries and FailUnboundDeliveries: one statement over many
\* rows, and no announcement.
FailAll(S, reason) ==
  /\ status' = [e \in Event |-> IF e \in S THEN "failed" ELSE status[e]]
  /\ lastError' = [e \in Event |-> IF e \in S THEN reason ELSE lastError[e]]
  /\ UNCHANGED <<attempts, next, created, told>>

Open(c) == conn[c].phase # "closed"

\* fanOut and Enqueue: the row is written with the message.  Without a
\* backend it has already failed.  The agent's sockets are nudged.
Enqueue(e) ==
  LET a == AgentOf[e]
      s == IF binding[a].id = 0 THEN "failed" ELSE "pending"
  IN  /\ status[e] = "none" /\ \A f \in Event : f < e => status[f] # "none"
      /\ now + RetryFor < MaxTime
      /\ status' = [status EXCEPT ![e] = s]
      /\ told' = [told EXCEPT ![e] = s]
      /\ lastError' = [lastError EXCEPT ![e] = IF s = "failed" THEN "no_binding" ELSE "none"]
      /\ created' = [created EXCEPT ![e] = now]
      /\ next' = [next EXCEPT ![e] = now]
      /\ eligible' = [eligible EXCEPT ![e] = {binding[a].id} \ {0}]
      /\ nudged' = [c \in Conn |-> IF conn[c].agent = a /\ s = "pending"
                                   THEN Open(c) ELSE nudged[c]]
      /\ UNCHANGED <<now, attempts, binding, bindings, pc, attempt, conn, wire, acks, has, overran>>

-----------------------------------------------------------------------------
(* One worker pass: delivery/worker.go, RunOnce.                           *)

Attempt(s, n, t, ep, ok) ==
  [stage |-> s, number |-> n, until |-> t, id |-> ep.id, mode |-> ep.mode, ok |-> ok]
NoEndpoint == [id |-> 0, mode |-> "none"]
NoAttempt == Attempt("none", 0, 0, NoEndpoint, FALSE)
InPass(w) == {e \in Event : attempt[w][e].stage # "none"}
InStage(w, s) == {e \in Event : attempt[w][e].stage = s}

ToIdle(w) ==
  /\ pc' = [pc EXCEPT ![w] = "idle"]
  /\ attempt' = [attempt EXCEPT ![w] = [e \in Event |-> NoAttempt]]

\* Mutant: the sweep of expired rows sees webhook rows only.
FailExpiredWebhook(w) ==
  /\ pc[w] = "idle"
  /\ FailAll({e \in Event : /\ Pending(e) /\ created[e] + RetryFor < now
                             /\ binding[AgentOf[e]].mode = "webhook"}, "expired")
  /\ pc' = [pc EXCEPT ![w] = "unbound"]
  /\ UNCHANGED <<now, binding, bindings, attempt, sockets, has, eligible, overran>>

FailExpired(w) ==
  /\ pc[w] = "idle"
  /\ FailAll({e \in Event : Pending(e) /\ created[e] + RetryFor < now}, "expired")
  /\ pc' = [pc EXCEPT ![w] = "unbound"]
  /\ UNCHANGED <<now, binding, bindings, attempt, sockets, has, eligible, overran>>

FailUnbound(w) ==
  /\ pc[w] = "unbound"
  /\ FailAll({e \in Event : Pending(e) /\ binding[AgentOf[e]].id = 0}, "no_binding")
  /\ pc' = [pc EXCEPT ![w] = "claim"]
  /\ UNCHANGED <<now, binding, bindings, attempt, sockets, has, eligible, overran>>

ClaimWebhook(w) ==
  /\ pc[w] = "claim"
  /\ \E B \in Batches(DueWebhook, BatchSize, next) :
       /\ Leased(B)
       /\ pc' = [pc EXCEPT ![w] = IF B = {} THEN "idle" ELSE "resolve"]
       /\ attempt' = [attempt EXCEPT ![w] = [e \in Event |->
            IF e \in B THEN Attempt("claimed", attempts[e] + 1, now + Lease, NoEndpoint, FALSE)
                       ELSE NoAttempt]]
  /\ UNCHANGED <<now, binding, bindings, sockets, has, eligible, overran>>

\* The endpoint of each attempt is read on its own; sending starts after the last.
Resolve(w, e) ==
  /\ pc[w] = "resolve" /\ e \in InStage(w, "claimed")
  /\ attempt' = [attempt EXCEPT ![w][e] =
                   Attempt("resolved", @.number, @.until, ActiveEndpoint(AgentOf[e]), FALSE)]
  /\ pc' = [pc EXCEPT ![w] = IF InStage(w, "claimed") = {e} THEN "send" ELSE @]
  /\ UNCHANGED <<now, rows, binding, bindings, sockets, has, eligible, overran>>

\* Mutant: an answer counts as a success whatever its status.
SendAnyAnswer(w, e) ==
  /\ pc[w] = "send" /\ e \in InStage(w, "resolved") /\ attempt[w][e].mode = "webhook"
  /\ \E ok, arrived \in BOOLEAN :
       /\ attempt' = [attempt EXCEPT ![w][e] = Attempt("sent", @.number, @.until, @, ok)]
       /\ has' = [has EXCEPT ![e] = IF arrived THEN @ \cup {attempt[w][e].id} ELSE @]
  /\ UNCHANGED <<now, rows, binding, bindings, pc, sockets, eligible, overran>>

\* Send: the backend may have taken the event even when its answer is an
\* error or is lost; a 2xx means it has it.
Send(w, e) ==
  /\ pc[w] = "send" /\ e \in InStage(w, "resolved") /\ attempt[w][e].mode = "webhook"
  /\ \E ok, arrived \in BOOLEAN :
       /\ ok => arrived
       /\ attempt' = [attempt EXCEPT ![w][e] = Attempt("sent", @.number, @.until, @, ok)]
       /\ has' = [has EXCEPT ![e] = IF arrived THEN @ \cup {attempt[w][e].id} ELSE @]
  /\ UNCHANGED <<now, rows, binding, bindings, pc, sockets, eligible, overran>>

\* sendAll returns when every webhook attempt has its outcome.
SendDone(w) ==
  /\ pc[w] = "send"
  /\ \A e \in InStage(w, "resolved") : attempt[w][e].mode # "webhook"
  /\ pc' = [pc EXCEPT ![w] = "record"]
  /\ UNCHANGED <<now, rows, binding, bindings, attempt, sockets, has, eligible, overran>>

Recorded(w, e) ==
  /\ attempt' = [attempt EXCEPT ![w][e] = NoAttempt]
  /\ pc' = [pc EXCEPT ![w] = IF InPass(w) = {e} THEN "idle" ELSE @]

Record(w, e) ==
  LET a == AgentOf[e]
      t == attempt[w][e]
  IN  /\ pc[w] = "record" /\ e \in InPass(w)
      /\ \/ /\ t.id = 0
            /\ MarkFailed(e, "no_binding")
            /\ UNCHANGED binding
         \/ /\ t.mode = "socket"
            /\ UNCHANGED <<rows, binding>>
         \/ /\ t.mode = "webhook" /\ t.ok
            /\ MarkDelivered(e)
            /\ binding' = RecordDeliverySuccess(a, t.id)
         \/ /\ t.mode = "webhook" /\ ~t.ok
            /\ binding' = RecordDeliveryFailure(a, t.id)
            /\ IF StillWorthIt(t.number, e)
               THEN ScheduleRetry(e, NextAttempt(t.number))
               ELSE MarkFailed(e, "exhausted")
      /\ Recorded(w, e)
      /\ UNCHANGED <<now, bindings, sockets, has, eligible, overran>>

\* The second of the statements that record an attempt fails, and with it the
\* pass: a success is not noted at the binding, or a failure not at the row.
RecordFails(w, e) ==
  LET t == attempt[w][e]
  IN  /\ Faults /\ pc[w] = "record" /\ e \in InPass(w) /\ t.mode = "webhook"
      /\ \/ t.ok /\ MarkDelivered(e) /\ UNCHANGED binding
         \/ ~t.ok /\ binding' = RecordDeliveryFailure(AgentOf[e], t.id) /\ UNCHANGED rows
      /\ ToIdle(w)
      /\ UNCHANGED <<now, bindings, sockets, has, eligible, overran>>

\* A statement fails, the envelopes cannot be built, the context is cancelled
\* or the process dies: the pass ends and what it claimed is left to the lease.
PassFails(w) ==
  /\ Faults /\ pc[w] # "idle"
  /\ ToIdle(w)
  /\ UNCHANGED <<now, rows, binding, bindings, sockets, has, eligible, overran>>

-----------------------------------------------------------------------------
(* Agent sockets: api/agentapi/socket.go, delivery.go ClaimForSocket, Ack. *)

Connection(p, a, b) == [phase |-> p, agent |-> a, id |-> b]
Closed == Connection("closed", CHOOSE a \in Agent : TRUE, 0)

\* The connection is gone, and what it had in hand with it.
Drop(c) ==
  /\ conn' = [conn EXCEPT ![c] = Closed]
  /\ wire' = [wire EXCEPT ![c] = {}]
  /\ acks' = [acks EXCEPT ![c] = {}]
  /\ nudged' = [nudged EXCEPT ![c] = FALSE]

EnterPhase(c, p) == conn' = [conn EXCEPT ![c] = Connection(p, @.agent, @.id)]

\* The handler finds a socket binding, marks it connected and starts to push.
Connect(c, a) ==
  /\ ~Open(c) /\ ActiveEndpoint(a).mode = "socket"
  /\ conn' = [conn EXCEPT ![c] = Connection("claim", a, binding[a].id)]
  /\ binding' = RecordDeliverySuccess(a, binding[a].id)
  /\ UNCHANGED <<now, rows, bindings, pc, attempt, wire, acks, nudged, has, eligible, overran>>

\* ClaimForSocket, oldest event first; a full batch means another claim after
\* it.  On an error the push gives up, with the rows leased or not.
ClaimForSocket(c) ==
  /\ conn[c].phase = "claim"
  /\ \/ \E B \in Batches(DueSocket(conn[c].agent), SocketBatch, [e \in Event |-> e]) :
          /\ Leased(B)
          /\ wire' = [wire EXCEPT ![c] = B]
          /\ EnterPhase(c, IF Cardinality(B) = SocketBatch THEN "writeFull" ELSE "write")
     \/ /\ Faults
        /\ \E B \in Batches(DueSocket(conn[c].agent), SocketBatch, [e \in Event |-> e]) : Leased(B)
        /\ EnterPhase(c, "loop") /\ UNCHANGED wire
     \/ Faults /\ EnterPhase(c, "loop") /\ UNCHANGED <<rows, wire>>
  /\ UNCHANGED <<now, binding, bindings, pc, attempt, acks, nudged, has, eligible, overran>>

\* One envelope is written, in id order, and the backend reads it.
WriteEnvelope(c, e) ==
  /\ e \in wire[c] /\ \A f \in wire[c] : e <= f
  /\ wire' = [wire EXCEPT ![c] = @ \ {e}]
  /\ has' = [has EXCEPT ![e] = @ \cup {conn[c].id}]
  /\ UNCHANGED <<now, rows, binding, bindings, pc, attempt, conn, acks, nudged, eligible, overran>>

PushDone(c) ==
  /\ conn[c].phase \in {"write", "writeFull"} /\ wire[c] = {}
  /\ EnterPhase(c, IF conn[c].phase = "writeFull" THEN "claim" ELSE "loop")
  /\ UNCHANGED <<now, rows, binding, bindings, pc, attempt, wire, acks, nudged, has, eligible, overran>>

\* The backend acknowledges an event it has; the reader queues the ack.
BackendAcks(c, e) ==
  /\ Open(c) /\ conn[c].id \in has[e]
  /\ acks' = [acks EXCEPT ![c] = @ \cup {e}]
  /\ UNCHANGED <<now, rows, binding, bindings, pc, attempt, conn, wire, nudged, has, eligible, overran>>

\* Ack: scoped to the agent and to a pending row; only then is it a success,
\* which is recorded unless the statement fails.  An ack that fails is dropped.
Ack(c, e) ==
  LET a == conn[c].agent
  IN  /\ conn[c].phase = "loop" /\ e \in acks[c]
      /\ acks' = [acks EXCEPT ![c] = @ \ {e}]
      /\ \/ /\ AgentOf[e] = a /\ Pending(e)
            /\ MarkDelivered(e)
            /\ binding' = RecordDeliverySuccess(a, conn[c].id) \/ (Faults /\ UNCHANGED binding)
         \/ /\ Faults \/ ~(AgentOf[e] = a /\ Pending(e))
            /\ UNCHANGED <<rows, binding>>
      /\ UNCHANGED <<now, bindings, pc, attempt, conn, wire, nudged, has, eligible, overran>>

\* The nudge of a new row reaches the socket's loop.
Nudge(c) ==
  /\ conn[c].phase = "loop" /\ nudged[c]
  /\ EnterPhase(c, "claim")
  /\ nudged' = [nudged EXCEPT ![c] = FALSE]
  /\ UNCHANGED <<now, rows, binding, bindings, pc, attempt, wire, acks, has, eligible, overran>>

\* The heartbeat closes a socket whose binding is gone, and pushes otherwise.
Heartbeat(c) ==
  LET a == conn[c].agent
      gone == binding[a].id # conn[c].id \/ binding[a].mode # "socket"
  IN  /\ conn[c].phase = "loop"
      /\ \/ gone /\ Drop(c) /\ UNCHANGED binding
         \/ /\ ~gone /\ EnterPhase(c, "claim")
            /\ binding' = RecordDeliverySuccess(a, conn[c].id)
            /\ UNCHANGED <<wire, acks, nudged>>
      /\ UNCHANGED <<now, rows, bindings, pc, attempt, has, eligible, overran>>

\* The connection ends: lost, shut down, or replaced by a newer socket, which
\* then owns the binding's status.
Disconnect(c) ==
  /\ Open(c) /\ Drop(c)
  /\ \/ binding' = SocketClosed(conn[c].agent, conn[c].id)
     \/ /\ \E d \in Conn \ {c} : Open(d) /\ conn[d].agent = conn[c].agent
        /\ UNCHANGED binding
  /\ UNCHANGED <<now, rows, bindings, pc, attempt, has, eligible, overran>>

\* ListEvents: a backend reads its agent's history, whatever the rows' state.
ListEvents(a) ==
  /\ binding[a].id # 0
  /\ has' = [e \in Event |-> IF AgentOf[e] = a /\ status[e] # "none"
                             THEN has[e] \cup {binding[a].id} ELSE has[e]]
  /\ UNCHANGED <<now, rows, binding, bindings, pc, attempt, sockets, eligible, overran>>

-----------------------------------------------------------------------------
\* Time passes whatever a worker has in hand, and for however long.
Tick ==
  /\ now < MaxTime /\ now' = now + 1
  /\ overran' = overran \cup {e \in Event : \E w \in Worker : e \in InPass(w) /\ attempt[w][e].until <= now + 1}
  /\ UNCHANGED <<rows, binding, bindings, pc, attempt, sockets, has, eligible>>

Init ==
  /\ now = 1
  /\ status = [e \in Event |-> "none"]
  /\ attempts = [e \in Event |-> 0]
  /\ next = [e \in Event |-> 0]
  /\ created = [e \in Event |-> 0]
  /\ lastError = [e \in Event |-> "none"]
  /\ told = [e \in Event |-> "none"]
  /\ binding = [a \in Agent |-> NoBinding]
  /\ bindings = 0
  /\ pc = [w \in Worker |-> "idle"]
  /\ attempt = [w \in Worker |-> [e \in Event |-> NoAttempt]]
  /\ conn = [c \in Conn |-> Closed]
  /\ wire = [c \in Conn |-> {}]
  /\ acks = [c \in Conn |-> {}]
  /\ nudged = [c \in Conn |-> FALSE]
  /\ has = [e \in Event |-> {}]
  /\ eligible = [e \in Event |-> {}]
  /\ overran = {}

WorkerStep(w) ==
  \/ FailExpired(w) \/ FailUnbound(w) \/ ClaimWebhook(w) \/ SendDone(w)
  \/ \E e \in Event : Resolve(w, e) \/ Send(w, e) \/ Record(w, e)

SocketStep(c) ==
  \/ ClaimForSocket(c) \/ PushDone(c) \/ Nudge(c) \/ Heartbeat(c)
  \/ \E e \in Event : WriteEnvelope(c, e) \/ Ack(c, e)

Next ==
  \/ \E a \in Agent, m \in Modes : SetBinding(a, m)
  \/ \E a \in Agent : RevokeBinding(a) \/ ListEvents(a)
  \/ \E e \in Event : Enqueue(e)
  \/ \E w \in Worker : WorkerStep(w) \/ PassFails(w) \/ \E e \in Event : RecordFails(w, e)
  \/ \E c \in Conn : SocketStep(c) \/ Disconnect(c)
  \/ \E c \in Conn, a \in Agent : Connect(c, a)
  \/ \E c \in Conn, e \in Event : BackendAcks(c, e)
  \/ Tick

Spec == Init /\ [][Next]_vars
\* The hub's processes keep running: workers take their steps, time passes.
\* Backends, owners and connections owe nothing.
Fairness == WF_vars(Tick) /\ \A w \in Worker : WF_vars(WorkerStep(w))
FairSpec == Spec /\ Fairness

-----------------------------------------------------------------------------
(* Properties *)

Statuses == {"none", "pending", "delivered", "failed"}
Errors == {"none", "no_binding", "expired", "exhausted", "attempt_failed"}
Phases == {"closed", "claim", "write", "writeFull", "loop"}
Stages == {"none", "claimed", "resolved", "sent"}

BindingType == [id: Binding, mode: Modes \cup {"none"},
                status: {"idle", "connected", "unreachable"}, seen: Time, streak: Time]
AttemptType == [stage: Stages, number: Nat, until: Nat, id: Binding,
                mode: Modes \cup {"none"}, ok: BOOLEAN]
ConnType == [phase: Phases, agent: Agent, id: Binding]

\* The variables of the outbox keep the types of the columns and Go values
\* they stand for.
TypeOK ==
  /\ now \in Time
  /\ status \in [Event -> Statuses]
  /\ attempts \in [Event -> Nat]
  /\ next \in [Event -> Nat]
  /\ created \in [Event -> Time]
  /\ lastError \in [Event -> Errors]
  /\ told \in [Event -> Statuses]
  /\ binding \in [Agent -> BindingType]
  /\ bindings \in Binding
  /\ pc \in [Worker -> {"idle", "unbound", "claim", "resolve", "send", "record"}]
  /\ attempt \in [Worker -> [Event -> AttemptType]]
  /\ conn \in [Conn -> ConnType]
  /\ wire \in [Conn -> SUBSET Event]
  /\ acks \in [Conn -> SUBSET Event]
  /\ nudged \in [Conn -> BOOLEAN]
  /\ has \in [Event -> SUBSET Binding]
  /\ eligible \in [Event -> SUBSET Binding]
  /\ overran \subseteq Event

Promise == INSTANCE DeliveryPromise WITH outcome <- status,
             known <- [e \in Event |-> has[e] # {}]
\* The outbox implements DeliveryPromise: rows, claims, sweeps and late
\* acknowledgements together do to each event only what the promise allows.
KeepsPromise == Promise!Spec

\* A row says delivered only if some backend of its agent knows the event,
\* whichever worker or socket recorded it and however late.
DeliveredIsKnown == \A e \in Event : status[e] = "delivered" => has[e] # {}

\* The sender is never told an outcome that is not the row's outcome.
TickTruthful == \A e \in Event : told[e] \in {"delivered", "failed"} => told[e] = status[e]

\* An outcome is final: a late worker, a late ack and a sweep of expired or
\* unbound rows leave a delivered or failed row as it is.
OutcomeFinal ==
  [][\A e \in Event : status[e] \in {"delivered", "failed"} => status'[e] = status[e]]_vars

\* Two workers have the same event in hand only if a pass once took longer
\* than the lease of that event: until then the lease alone keeps it from being
\* claimed again, by any worker, whatever failed or died half way (RunOnce,
\* ClaimDueWebhookDeliveries).
LeaseExclusive ==
  \A v, w \in Worker : v # w => InPass(v) \cap InPass(w) \subseteq overran

\* A binding is unreachable only after a whole window of failures with no
\* success in it.
UnreachableMeansSilent ==
  \A a \in Agent : binding[a].status = "unreachable" =>
     /\ binding[a].streak # 0 /\ binding[a].seen <= binding[a].streak
     /\ binding[a].streak + UnreachableAfter <= now

\* An event reaches only backends whose binding was live at some time since
\* the event was created: a replaced backend hears nothing new.
ReachesOnlyEligible == \A e \in Event : has[e] \subseteq eligible[e]

\* Every event is settled: no row stays pending for ever.
Settled == \A e \in Event : Pending(e) ~> ~Pending(e)
=============================================================================
