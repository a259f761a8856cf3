---------------------------- MODULE OutboxProofs ----------------------------
(***************************************************************************)
(* The outbox for every number of agents, events, workers and sockets and  *)
(* every lease, delay and window: types, what a delivered row means, the   *)
(* refinement of DeliveryPromise, truthful ticks, health marks, leases, and*)
(* which backends an event may reach.                                      *)
(***************************************************************************)
EXTENDS Outbox, TLAPS

\* A retry delay is a number, whatever the attempt.
LEMMA RetryDelayType == \A n \in Nat : RetryDelay(n) \in Nat
  BY OutboxAssumption DEF OutboxAssumption, RetryDelay

\* The bindings a health update returns are bindings.
LEMMA HealthType ==
  ASSUME TypeOK, NEW a \in Agent, NEW b \in Binding
  PROVE  /\ RecordDeliverySuccess(a, b) \in [Agent -> BindingType]
         /\ RecordDeliveryFailure(a, b) \in [Agent -> BindingType]
         /\ SocketClosed(a, b) \in [Agent -> BindingType]
<1>1. /\ binding \in [Agent -> BindingType] /\ binding[a] \in BindingType
      /\ now \in Time /\ 0 \in Time
  BY OutboxAssumption DEF OutboxAssumption, TypeOK, Time
<1>2. RecordDeliverySuccess(a, b) \in [Agent -> BindingType]
  BY <1>1 DEF RecordDeliverySuccess, BindingRow, BindingType
<1>3. RecordDeliveryFailure(a, b) \in [Agent -> BindingType]
  <2>1. StreakStart(a) \in Time
    BY <1>1 DEF StreakStart, BindingType
  <2> QED
    BY <1>1, <2>1 DEF RecordDeliveryFailure, BindingRow, BindingType
<1>4. SocketClosed(a, b) \in [Agent -> BindingType]
  BY <1>1 DEF SocketClosed, BindingRow, BindingType
<1> QED
  BY <1>2, <1>3, <1>4
\* The column updates of the row statements keep the columns' types.
RowTypes ==
  /\ status \in [Event -> Statuses] /\ attempts \in [Event -> Nat] /\ next \in [Event -> Nat]
  /\ created \in [Event -> Time] /\ lastError \in [Event -> Errors] /\ told \in [Event -> Statuses]

\* A lease.
LEMMA LeasedType ==
  ASSUME TypeOK, NEW B \in SUBSET Event, Leased(B)
  PROVE  RowTypes'
  BY OutboxAssumption DEF OutboxAssumption, TypeOK, Time, RowTypes, Leased

\* An outcome.
LEMMA MarkType ==
  ASSUME TypeOK, NEW e \in Event, NEW r \in Errors,
         MarkDelivered(e) \/ MarkFailed(e, r)
  PROVE  RowTypes'
<1>1. status' \in [Event -> Statuses]
  BY DEF TypeOK, MarkDelivered, MarkFailed, Statuses
<1>2. told' \in [Event -> Statuses]
  BY <1>1 DEF TypeOK, MarkDelivered, MarkFailed, DeliveryChanged
<1>3. lastError' \in [Event -> Errors]
  BY DEF TypeOK, MarkDelivered, MarkFailed, Errors
<1> QED
  BY <1>1, <1>2, <1>3 DEF TypeOK, RowTypes, MarkDelivered, MarkFailed

\* A retry.
LEMMA RetryType ==
  ASSUME TypeOK, NEW e \in Event, NEW t \in Nat, ScheduleRetry(e, t)
  PROVE  RowTypes'
  BY DEF TypeOK, RowTypes, ScheduleRetry, Statuses, Errors

\* A sweep.
LEMMA FailAllType ==
  ASSUME TypeOK, NEW S \in SUBSET Event, NEW r \in Errors, FailAll(S, r)
  PROVE  RowTypes'
  BY DEF TypeOK, RowTypes, FailAll, Statuses, Errors

\* The endpoint and the batches that a pass works with.
LEMMA EndpointType ==
  ASSUME TypeOK, NEW a \in Agent
  PROVE  ActiveEndpoint(a) \in [id: Binding, mode: Modes \cup {"none"}]
  BY DEF TypeOK, BindingType, ActiveEndpoint

\* An attempt of a worker has its type.
LEMMA AttemptTyped ==
  ASSUME NEW s \in Stages, NEW n \in Nat, NEW t \in Nat, NEW ok \in BOOLEAN,
         NEW ep, ep.id \in Binding, ep.mode \in Modes \cup {"none"}
  PROVE  Attempt(s, n, t, ep, ok) \in AttemptType
  BY DEF Attempt, AttemptType

\* No attempt is one, too.
LEMMA NoAttemptType == NoAttempt \in AttemptType
<1>1. 0 \in Binding /\ 0 \in Nat
  BY OutboxAssumption DEF OutboxAssumption, Binding
<1> QED
  BY <1>1 DEF NoAttempt, Attempt, NoEndpoint, AttemptType, Stages

\* A closed connection is one, too.
LEMMA ClosedType == Closed \in ConnType
  BY OutboxAssumption DEF OutboxAssumption, Closed, Connection, ConnType, Phases, Binding

-----------------------------------------------------------------------------
\* The empty outbox has its types.
LEMMA InitType == Init => TypeOK
  BY OutboxAssumption, NoAttemptType, ClosedType
  DEF OutboxAssumption, Init, TypeOK, Time, Binding, NoBinding, BindingRow, BindingType,
      Statuses, Errors

\* A batch takes rows of what is due.
LEMMA BatchesSubset ==
  ASSUME NEW S, NEW k, NEW key, NEW B \in Batches(S, k, key)
  PROVE  B \subseteq S
  BY DEF Batches

\* What owners and backends do keeps the types.
LEMMA OwnerType ==
  ASSUME TypeOK, NEW a \in Agent, NEW m \in Modes,
         SetBinding(a, m) \/ RevokeBinding(a) \/ ListEvents(a)
  PROVE  TypeOK'
<1>0. 0 \in Time /\ 0 \in Binding
  BY OutboxAssumption DEF OutboxAssumption, Time, Binding
<1>1. CASE SetBinding(a, m)
  <2>1. bindings + 1 \in Binding
    BY <1>1, OutboxAssumption DEF OutboxAssumption, SetBinding, TypeOK, Binding
  <2>2. BindingRow(bindings + 1, m, "idle", 0, 0) \in BindingType
    BY <1>0, <2>1 DEF BindingRow, BindingType
  <2> QED
    BY <1>1, <2>1, <2>2 DEF SetBinding, TypeOK, rows, sockets
<1>2. CASE RevokeBinding(a)
  <2>1. NoBinding \in BindingType
    BY <1>0 DEF NoBinding, BindingRow, BindingType
  <2> QED
    BY <1>2, <2>1 DEF RevokeBinding, TypeOK, rows, sockets
<1>3. CASE ListEvents(a)
  <2>1. binding[a].id \in Binding
    BY DEF TypeOK, BindingType
  <2> QED
    BY <1>3, <2>1 DEF ListEvents, TypeOK, rows, sockets
<1> QED
  BY <1>1, <1>2, <1>3

\* So does a new row.
LEMMA EnqueueType ==
  ASSUME TypeOK, NEW e \in Event, Enqueue(e)
  PROVE  TypeOK'
<1>1. AgentOf[e] \in Agent /\ binding[AgentOf[e]].id \in Binding /\ now \in Time /\ now \in Nat
  BY OutboxAssumption DEF OutboxAssumption, TypeOK, BindingType, Time
<1>2. /\ status' \in [Event -> Statuses] /\ told' \in [Event -> Statuses]
      /\ lastError' \in [Event -> Errors]
  BY DEF Enqueue, TypeOK, Statuses, Errors
<1>3. nudged' \in [Conn -> BOOLEAN]
  BY DEF Enqueue, TypeOK, Open
<1>4. eligible' \in [Event -> SUBSET Binding]
  BY <1>1 DEF Enqueue, TypeOK
<1>5. created' \in [Event -> Time] /\ next' \in [Event -> Nat]
  BY <1>1 DEF Enqueue, TypeOK
<1> QED
  BY <1>2, <1>3, <1>4, <1>5 DEF Enqueue, TypeOK

\* The steps of a worker's pass keep the types.
LEMMA WorkerType ==
  ASSUME TypeOK, NEW w \in Worker, WorkerStep(w) \/ PassFails(w) \/ \E e \in Event : RecordFails(w, e)
  PROVE  TypeOK'
<1> USE DEF TypeOK, rows, sockets
<1>1. CASE FailExpired(w)
  <2>1. RowTypes'
    BY <1>1, FailAllType DEF FailExpired, Errors
  <2> QED
    BY <1>1, <2>1 DEF FailExpired, RowTypes
<1>2. CASE FailUnbound(w)
  <2>1. RowTypes'
    BY <1>2, FailAllType DEF FailUnbound, Errors
  <2> QED
    BY <1>2, <2>1 DEF FailUnbound, RowTypes
<1>3. CASE ClaimWebhook(w)
  <2>1. PICK B \in Batches(DueWebhook, BatchSize, next) :
          /\ Leased(B)
          /\ pc' = [pc EXCEPT ![w] = IF B = {} THEN "idle" ELSE "resolve"]
          /\ attempt' = [attempt EXCEPT ![w] = [e \in Event |->
               IF e \in B THEN Attempt("claimed", attempts[e] + 1, now + Lease, NoEndpoint, FALSE)
                          ELSE NoAttempt]]
    BY <1>3 DEF ClaimWebhook
  <2>2. B \in SUBSET Event
    BY <2>1, BatchesSubset DEF DueWebhook
  <2>3. RowTypes'
    BY <2>1, <2>2, LeasedType
  <2>4. now + Lease \in Nat /\ 0 \in Binding
    BY OutboxAssumption DEF OutboxAssumption, Time, Binding
  <2>5. \A e \in Event :
          Attempt("claimed", attempts[e] + 1, now + Lease, NoEndpoint, FALSE) \in AttemptType
    BY <2>4 DEF Attempt, NoEndpoint, AttemptType, Stages
  <2>6. attempt' \in [Worker -> [Event -> AttemptType]]
    BY <2>1, <2>5, NoAttemptType
  <2> QED
    BY <1>3, <2>1, <2>3, <2>6 DEF ClaimWebhook, RowTypes
<1>4. CASE SendDone(w)
  BY <1>4 DEF SendDone
<1>5. ASSUME NEW e \in Event, Resolve(w, e)
      PROVE  TypeOK'
  <2>1. AgentOf[e] \in Agent
    BY OutboxAssumption DEF OutboxAssumption
  <2>2. ActiveEndpoint(AgentOf[e]) \in [id: Binding, mode: Modes \cup {"none"}]
    BY <2>1, EndpointType
  <2>3. attempt[w][e].number \in Nat /\ attempt[w][e].until \in Nat
    BY DEF AttemptType
  <2>4. Attempt("resolved", attempt[w][e].number, attempt[w][e].until,
                ActiveEndpoint(AgentOf[e]), FALSE) \in AttemptType
    BY <2>2, <2>3 DEF Attempt, AttemptType, Stages
  <2>5. attempt' \in [Worker -> [Event -> AttemptType]]
    BY <1>5, <2>4 DEF Resolve
  <2> QED
    BY <1>5, <2>5 DEF Resolve
<1>6. ASSUME NEW e \in Event, Send(w, e)
      PROVE  TypeOK'
  <2>1. PICK ok \in BOOLEAN, arrived \in BOOLEAN :
          /\ attempt' = [attempt EXCEPT ![w][e] = Attempt("sent", @.number, @.until, @, ok)]
          /\ has' = [has EXCEPT ![e] = IF arrived THEN @ \cup {attempt[w][e].id} ELSE @]
    BY <1>6 DEF Send
  <2>2. attempt[w][e] \in AttemptType
    OBVIOUS
  <2>3. Attempt("sent", attempt[w][e].number, attempt[w][e].until, attempt[w][e], ok) \in AttemptType
    BY <2>2 DEF Attempt, AttemptType, Stages
  <2>4. attempt' \in [Worker -> [Event -> AttemptType]]
    BY <2>1, <2>3
  <2>5. has' \in [Event -> SUBSET Binding]
    BY <2>1, <2>2 DEF AttemptType
  <2> QED
    BY <1>6, <2>4, <2>5 DEF Send
<1>7. ASSUME NEW e \in Event, Record(w, e)
      PROVE  TypeOK'
  <2>1. /\ AgentOf[e] \in Agent /\ attempt[w][e].id \in Binding /\ attempt[w][e].number \in Nat
        /\ now \in Nat
    BY OutboxAssumption DEF OutboxAssumption, AttemptType, Time
  <2>2. NextAttempt(attempt[w][e].number) \in Nat
    BY <2>1, RetryDelayType DEF NextAttempt
  <2>3. binding' \in [Agent -> BindingType]
    BY <1>7, <2>1, HealthType DEF Record
  <2>4. RowTypes'
    <3>1. MarkFailed(e, "no_binding") => RowTypes'
      BY MarkType DEF Errors
    <3>2. MarkFailed(e, "exhausted") => RowTypes'
      BY MarkType DEF Errors
    <3>3. MarkDelivered(e) => RowTypes'
      BY MarkType DEF Errors
    <3>4. ScheduleRetry(e, NextAttempt(attempt[w][e].number)) => RowTypes'
      BY <2>2, RetryType
    <3>5. UNCHANGED rows => RowTypes'
      BY DEF RowTypes
    <3> QED
      BY <1>7, <3>1, <3>2, <3>3, <3>4, <3>5 DEF Record
  <2>5. attempt' \in [Worker -> [Event -> AttemptType]]
    BY <1>7, NoAttemptType DEF Record, Recorded
  <2> QED
    BY <1>7, <2>3, <2>4, <2>5 DEF Record, Recorded, RowTypes
<1>8. CASE PassFails(w)
  BY <1>8, NoAttemptType DEF PassFails, ToIdle
<1>9. ASSUME NEW e \in Event, RecordFails(w, e)
      PROVE  TypeOK'
  <2>1. AgentOf[e] \in Agent /\ attempt[w][e].id \in Binding
    BY OutboxAssumption DEF OutboxAssumption, AttemptType
  <2>2. binding' \in [Agent -> BindingType]
    BY <1>9, <2>1, HealthType DEF RecordFails
  <2>3. RowTypes'
    <3>1. MarkDelivered(e) => RowTypes'
      BY MarkType DEF Errors
    <3>2. UNCHANGED rows => RowTypes'
      BY DEF RowTypes
    <3> QED
      BY <1>9, <3>1, <3>2 DEF RecordFails
  <2>4. attempt' \in [Worker -> [Event -> AttemptType]] /\ pc' = [pc EXCEPT ![w] = "idle"]
    BY <1>9, NoAttemptType DEF RecordFails, ToIdle
  <2> QED
    BY <1>9, <2>2, <2>3, <2>4 DEF RecordFails, RowTypes
<1> QED
  BY <1>1, <1>2, <1>3, <1>4, <1>5, <1>6, <1>7, <1>8, <1>9 DEF WorkerStep

\* A connection that goes on keeps its type.
LEMMA EnterPhaseType ==
  ASSUME TypeOK, NEW c \in Conn, NEW p \in Phases, EnterPhase(c, p)
  PROVE  conn' \in [Conn -> ConnType]
  BY DEF TypeOK, EnterPhase, Connection, ConnType

\* So does one that is gone, with all it had in hand.
LEMMA DropType ==
  ASSUME TypeOK, NEW c \in Conn, Drop(c)
  PROVE  /\ conn' \in [Conn -> ConnType] /\ wire' \in [Conn -> SUBSET Event]
         /\ acks' \in [Conn -> SUBSET Event] /\ nudged' \in [Conn -> BOOLEAN]
  BY ClosedType DEF TypeOK, Drop

\* The steps of a connection keep the types.
LEMMA SocketType ==
  ASSUME TypeOK, NEW c \in Conn,
         \/ SocketStep(c) \/ Disconnect(c)
         \/ \E a \in Agent : Connect(c, a)
         \/ \E e \in Event : BackendAcks(c, e)
  PROVE  TypeOK'
<1> USE DEF TypeOK, rows
<1>0. conn[c].agent \in Agent /\ conn[c].id \in Binding
  BY DEF ConnType
<1>1. CASE ClaimForSocket(c)
  <2> DEFINE Claims == Batches(DueSocket(conn[c].agent), SocketBatch, [e \in Event |-> e])
  <2>1. \A B \in Claims : B \in SUBSET Event
    BY BatchesSubset DEF DueSocket
  <2>2. ASSUME NEW B \in Claims, Leased(B)
        PROVE  RowTypes'
    BY <2>1, <2>2, LeasedType
  <2>3. RowTypes'
    <3>1. CASE \E B \in Claims : Leased(B)
      BY <2>2, <3>1
    <3>2. CASE UNCHANGED rows
      BY <3>2 DEF RowTypes
    <3> QED
      BY <1>1, <3>1, <3>2 DEF ClaimForSocket
  <2>4. wire' \in [Conn -> SUBSET Event]
    <3>1. CASE \E B \in Claims : wire' = [wire EXCEPT ![c] = B]
      <4>1. PICK B \in SUBSET Event : wire' = [wire EXCEPT ![c] = B]
        BY <2>1, <3>1
      <4> QED
        BY <4>1
    <3>2. CASE UNCHANGED wire
      BY <3>2
    <3> QED
      BY <1>1, <3>1, <3>2 DEF ClaimForSocket
  <2>5. conn' \in [Conn -> ConnType]
    <3>1. \A p \in Phases : EnterPhase(c, p) => conn' \in [Conn -> ConnType]
      BY EnterPhaseType
    <3>2. EnterPhase(c, "write") \/ EnterPhase(c, "writeFull") \/ EnterPhase(c, "loop")
      BY <1>1 DEF ClaimForSocket
    <3> QED
      BY <3>1, <3>2 DEF Phases
  <2> QED
    BY <1>1, <2>3, <2>4, <2>5 DEF ClaimForSocket, RowTypes
<1>2. CASE PushDone(c)
  BY <1>2, EnterPhaseType DEF PushDone, Phases
<1>3. CASE Nudge(c)
  BY <1>3, EnterPhaseType DEF Nudge, Phases
<1>4. CASE Heartbeat(c)
  <2>1. CASE Drop(c) /\ UNCHANGED binding
    BY <1>4, <2>1, DropType DEF Heartbeat
  <2>2. CASE EnterPhase(c, "claim") /\ binding' = RecordDeliverySuccess(conn[c].agent, conn[c].id)
             /\ UNCHANGED <<wire, acks, nudged>>
    BY <1>0, <1>4, <2>2, EnterPhaseType, HealthType DEF Heartbeat, Phases
  <2> QED
    BY <1>4, <2>1, <2>2 DEF Heartbeat
<1>5. ASSUME NEW e \in Event, WriteEnvelope(c, e)
      PROVE  TypeOK'
  BY <1>0, <1>5 DEF WriteEnvelope
<1>6. ASSUME NEW e \in Event, Ack(c, e)
      PROVE  TypeOK'
  <2>1. RowTypes'
    <3>1. MarkDelivered(e) => RowTypes'
      BY MarkType DEF Errors
    <3>2. UNCHANGED rows => RowTypes'
      BY DEF RowTypes
    <3> QED
      BY <1>6, <3>1, <3>2 DEF Ack
  <2>2. binding' \in [Agent -> BindingType]
    BY <1>0, <1>6, HealthType DEF Ack
  <2> QED
    BY <1>6, <2>1, <2>2 DEF Ack, RowTypes
<1>7. CASE Disconnect(c)
  BY <1>0, <1>7, DropType, HealthType DEF Disconnect
<1>8. ASSUME NEW a \in Agent, Connect(c, a)
      PROVE  TypeOK'
  <2>1. binding[a].id \in Binding
    BY DEF BindingType
  <2>2. Connection("claim", a, binding[a].id) \in ConnType
    BY <2>1 DEF Connection, ConnType, Phases
  <2> QED
    BY <1>8, <2>1, <2>2, HealthType DEF Connect
<1>9. ASSUME NEW e \in Event, BackendAcks(c, e)
      PROVE  TypeOK'
  BY <1>9 DEF BackendAcks
<1> QED
  BY <1>1, <1>2, <1>3, <1>4, <1>5, <1>6, <1>7, <1>8, <1>9 DEF SocketStep

\* Every step keeps the types.
LEMMA NextType == TypeOK /\ [Next]_vars => TypeOK'
<1> SUFFICES ASSUME TypeOK, [Next]_vars PROVE TypeOK'
  OBVIOUS
<1>1. CASE Tick
  BY <1>1, OutboxAssumption DEF OutboxAssumption, Tick, TypeOK, Time, rows, sockets
<1>2. CASE UNCHANGED vars
  BY <1>2 DEF vars, TypeOK, rows, sockets
<1> QED
  BY <1>1, <1>2, OwnerType, EnqueueType, WorkerType, SocketType DEF Next, Modes

\* Every variable of the outbox keeps its type, for any number of agents,
\* events, workers and connections.
THEOREM TypeCorrect == Spec => []TypeOK
  BY InitType, NextType, PTL DEF Spec

-----------------------------------------------------------------------------
(* Delivered means a backend knows the event.  The invariant has to cover  *)
(* what is still on its way to the row: a worker's 2xx that is not yet     *)
(* recorded, and an acknowledgement that is not yet handled.               *)

Known(e) == has[e] # {}
AnsweredIsKnown == \A w \in Worker, e \in Event : attempt[w][e].ok => Known(e)
AckedIsKnown == \A c \in Conn : \A e \in acks[c] : Known(e)

KnownInv == TypeOK /\ DeliveredIsKnown /\ AnsweredIsKnown /\ AckedIsKnown

\* What a step does to a row's status, whoever takes it.
LEMMA MarkEffect ==
  ASSUME TypeOK, NEW e \in Event, NEW r,
         MarkFailed(e, r) \/ MarkDelivered(e)
  PROVE  \A f \in Event : f # e => status'[f] = status[f]
  BY DEF TypeOK, MarkFailed, MarkDelivered

\* Every step keeps the invariant.
LEMMA KnownStep == KnownInv /\ [Next]_vars => KnownInv'
<1> SUFFICES ASSUME KnownInv, [Next]_vars PROVE KnownInv'
  OBVIOUS
<1>0. TypeOK /\ TypeOK'
  BY NextType DEF KnownInv
<1> USE DEF KnownInv, DeliveredIsKnown, AnsweredIsKnown, AckedIsKnown, Known
<1>1. ASSUME NEW a \in Agent, NEW m \in Modes, SetBinding(a, m) \/ RevokeBinding(a)
      PROVE  KnownInv'
  BY <1>0, <1>1 DEF SetBinding, RevokeBinding, rows, sockets
<1>2. ASSUME NEW a \in Agent, ListEvents(a)
      PROVE  KnownInv'
  <2>1. \A e \in Event : Known(e) => Known(e)'
    BY <1>0, <1>2 DEF ListEvents, TypeOK
  <2> QED
    BY <1>0, <1>2, <2>1 DEF ListEvents, rows, sockets, TypeOK
<1>3. ASSUME NEW e \in Event, Enqueue(e)
      PROVE  KnownInv'
  BY <1>0, <1>3 DEF Enqueue, TypeOK
<1>4. ASSUME NEW w \in Worker, WorkerStep(w) \/ PassFails(w) \/ \E e \in Event : RecordFails(w, e)
      PROVE  KnownInv'
  <2>1. CASE FailExpired(w) \/ FailUnbound(w)
    <3>1. UNCHANGED <<has, attempt, acks>>
      BY <2>1 DEF FailExpired, FailUnbound, sockets
    <3>2. \A e \in Event : status'[e] = "delivered" => status[e] = "delivered"
      BY <1>0, <2>1 DEF FailExpired, FailUnbound, FailAll, TypeOK
    <3> QED
      BY <1>0, <3>1, <3>2
  <2>2. CASE ClaimWebhook(w)
    <3>1. UNCHANGED <<has, status, acks>>
      BY <2>2 DEF ClaimWebhook, Leased, sockets
    <3>2. PICK B : attempt' = [attempt EXCEPT ![w] = [e \in Event |->
            IF e \in B THEN Attempt("claimed", attempts[e] + 1, now + Lease, NoEndpoint, FALSE)
                       ELSE NoAttempt]]
      BY <2>2 DEF ClaimWebhook
    <3>3. AnsweredIsKnown'
      BY <1>0, <3>1, <3>2 DEF Attempt, NoAttempt, TypeOK
    <3> QED
      BY <1>0, <3>1, <3>3
  <2>3. CASE SendDone(w) \/ PassFails(w)
    <3>1. UNCHANGED <<has, status, acks>>
      BY <2>3 DEF SendDone, PassFails, rows, sockets
    <3>2. AnsweredIsKnown'
      BY <1>0, <2>3, <3>1 DEF SendDone, PassFails, ToIdle, Attempt, NoAttempt, TypeOK
    <3> QED
      BY <1>0, <3>1, <3>2
  <2>4. ASSUME NEW e \in Event, Resolve(w, e)
        PROVE  KnownInv'
    BY <1>0, <2>4 DEF Resolve, Attempt, rows, sockets, TypeOK
  <2>5. ASSUME NEW e \in Event, Send(w, e)
        PROVE  KnownInv'
    <3>1. PICK ok \in BOOLEAN, arrived \in BOOLEAN :
            /\ ok => arrived
            /\ attempt' = [attempt EXCEPT ![w][e] = Attempt("sent", @.number, @.until, @, ok)]
            /\ has' = [has EXCEPT ![e] = IF arrived THEN @ \cup {attempt[w][e].id} ELSE @]
      BY <2>5 DEF Send
    <3>2. \A f \in Event : Known(f) => Known(f)'
      BY <1>0, <3>1 DEF TypeOK
    <3>3. ok => Known(e)'
      BY <1>0, <3>1 DEF TypeOK
    <3>4. AnsweredIsKnown'
      BY <1>0, <3>1, <3>2, <3>3 DEF TypeOK, Attempt
    <3> QED
      BY <1>0, <2>5, <3>2, <3>4 DEF Send, rows, sockets, TypeOK
  <2>6. ASSUME NEW e \in Event, Record(w, e)
        PROVE  KnownInv'
    <3>1. UNCHANGED <<has, acks>>
      BY <2>6 DEF Record, sockets
    <3>2. AnsweredIsKnown'
      BY <1>0, <2>6, <3>1 DEF Record, Recorded, NoAttempt, Attempt, TypeOK
    <3>3. status'[e] = "delivered" => Known(e)
      BY <1>0, <2>6 DEF Record, MarkFailed, MarkDelivered, ScheduleRetry, rows, TypeOK
    <3>4. \A f \in Event : f # e => status'[f] = status[f]
      BY <1>0, <2>6, MarkEffect DEF Record, ScheduleRetry, rows, TypeOK
    <3> QED
      BY <1>0, <3>1, <3>2, <3>3, <3>4
  <2>7. ASSUME NEW e \in Event, RecordFails(w, e)
        PROVE  KnownInv'
    <3>1. UNCHANGED <<has, acks>>
      BY <2>7 DEF RecordFails, sockets
    <3>2. AnsweredIsKnown'
      BY <1>0, <2>7, <3>1 DEF RecordFails, ToIdle, NoAttempt, Attempt, TypeOK
    <3>3. status'[e] = "delivered" => Known(e)
      BY <1>0, <2>7 DEF RecordFails, MarkDelivered, rows, TypeOK
    <3>4. \A f \in Event : f # e => status'[f] = status[f]
      BY <1>0, <2>7, MarkEffect DEF RecordFails, rows, TypeOK
    <3> QED
      BY <1>0, <3>1, <3>2, <3>3, <3>4
  <2> QED
    BY <1>4, <2>1, <2>2, <2>3, <2>4, <2>5, <2>6, <2>7 DEF WorkerStep
<1>5. ASSUME NEW c \in Conn, SocketStep(c) \/ Disconnect(c)
      PROVE  KnownInv'
  <2>1. CASE ClaimForSocket(c)
    <3>1. UNCHANGED status
      BY <2>1 DEF ClaimForSocket, Leased, rows
    <3> QED
      BY <1>0, <2>1, <3>1 DEF ClaimForSocket
  <2>2. CASE PushDone(c) \/ Nudge(c)
    BY <1>0, <2>2 DEF PushDone, Nudge, rows
  <2>3. CASE Heartbeat(c) \/ Disconnect(c)
    BY <1>0, <2>3 DEF Heartbeat, Disconnect, Drop, rows, TypeOK
  <2>4. ASSUME NEW e \in Event, WriteEnvelope(c, e)
        PROVE  KnownInv'
    <3>1. \A f \in Event : Known(f) => Known(f)'
      BY <1>0, <2>4 DEF WriteEnvelope, TypeOK
    <3> QED
      BY <1>0, <2>4, <3>1 DEF WriteEnvelope, rows, TypeOK
  <2>5. ASSUME NEW e \in Event, Ack(c, e)
        PROVE  KnownInv'
    <3>1. Known(e) /\ UNCHANGED <<has, attempt>>
      BY <2>5 DEF Ack
    <3>2. \A f \in Event : f # e => status'[f] = status[f]
      BY <1>0, <2>5, MarkEffect DEF Ack, rows
    <3>3. AckedIsKnown'
      BY <1>0, <2>5, <3>1 DEF Ack, TypeOK
    <3> QED
      BY <1>0, <3>1, <3>2, <3>3
  <2> QED
    BY <1>5, <2>1, <2>2, <2>3, <2>4, <2>5 DEF SocketStep
<1>6. ASSUME NEW c \in Conn, NEW a \in Agent, Connect(c, a)
      PROVE  KnownInv'
  BY <1>0, <1>6 DEF Connect, rows
<1>7. ASSUME NEW c \in Conn, NEW e \in Event, BackendAcks(c, e)
      PROVE  KnownInv'
  BY <1>0, <1>7 DEF BackendAcks, rows, TypeOK
<1>8. CASE Tick \/ UNCHANGED vars
  BY <1>0, <1>8 DEF Tick, vars, rows, sockets
<1> QED
  BY <1>1, <1>2, <1>3, <1>4, <1>5, <1>6, <1>7, <1>8 DEF Next, Modes

\* A row that says delivered is an event some backend knows.
THEOREM DeliveredKnown == Spec => []DeliveredIsKnown
<1>1. Init => KnownInv
  BY InitType DEF Init, KnownInv, DeliveredIsKnown, AnsweredIsKnown, AckedIsKnown, Known,
                  NoAttempt, Attempt
<1>2. KnownInv => DeliveredIsKnown
  BY DEF KnownInv
<1> QED
  BY <1>1, <1>2, KnownStep, PTL DEF Spec

-----------------------------------------------------------------------------
(* The outbox implements DeliveryPromise.  Each step does to each event    *)
(* one of four things; that a backend only learns of events that exist     *)
(* takes one more invariant, about what workers and sockets have in hand.  *)

Written(e) == status[e] # "none"
InHandIsWritten ==
  /\ \A w \in Worker, e \in Event : attempt[w][e].stage # "none" => Written(e)
  /\ \A c \in Conn : \A e \in wire[c] : Written(e)

PromiseInv == KnownInv /\ InHandIsWritten

\* The four things, in the outbox's own variables.
WriteRow(e) ==
  /\ status[e] = "none" /\ status'[e] \in {"pending", "failed"}
  /\ told'[e] = status'[e] /\ has'[e] = has[e]
LearnRow(e) ==
  /\ Written(e) /\ has'[e] # {}
  /\ status'[e] = status[e] /\ told'[e] = told[e]
SettleRow(e) ==
  /\ status[e] = "pending"
  /\ (status'[e] = "delivered" /\ Known(e)) \/ status'[e] = "failed"
  /\ has'[e] = has[e] /\ told'[e] \in {told[e], status'[e]}
TellRow(e) ==
  /\ told'[e] \in {told[e], status[e]}
  /\ status'[e] = status[e] /\ has'[e] = has[e]
RowStep(e) == WriteRow(e) \/ LearnRow(e) \/ SettleRow(e) \/ TellRow(e)

\* An outcome recorded by MarkDelivered or MarkFailed settles its row or
\* finds it settled; the other rows are left alone.
LEMMA MarkStep ==
  ASSUME TypeOK, NEW e \in Event, NEW r, has' = has,
         (MarkDelivered(e) /\ Known(e)) \/ MarkFailed(e, r)
  PROVE  \A f \in Event : RowStep(f)
<1>1. \A f \in Event \ {e} : status'[f] = status[f] /\ told'[f] = told[f]
  BY DEF TypeOK, MarkDelivered, MarkFailed, DeliveryChanged
<1>2. told'[e] = told[e] \/ told'[e] = status'[e]
  BY DEF TypeOK, MarkDelivered, MarkFailed, DeliveryChanged
<1>3. \/ status[e] = "pending" /\ ((status'[e] = "delivered" /\ Known(e)) \/ status'[e] = "failed")
      \/ status'[e] = status[e]
  BY DEF TypeOK, MarkDelivered, MarkFailed
<1> QED
  BY <1>1, <1>2, <1>3 DEF RowStep, SettleRow, TellRow

\* Every step does to each row one of the four things.
LEMMA RowsStep ==
  ASSUME PromiseInv, [Next]_vars
  PROVE  \A e \in Event : RowStep(e)
<1>0. TypeOK /\ KnownInv
  BY DEF PromiseInv, KnownInv
<1>q. UNCHANGED <<status, told, has>> => \A e \in Event : RowStep(e)
  BY DEF RowStep, TellRow
<1>1. ASSUME NEW a \in Agent, NEW m \in Modes, SetBinding(a, m) \/ RevokeBinding(a)
      PROVE  \A e \in Event : RowStep(e)
  BY <1>1, <1>q DEF SetBinding, RevokeBinding, rows
<1>2. ASSUME NEW a \in Agent, ListEvents(a)
      PROVE  \A e \in Event : RowStep(e)
  BY <1>0, <1>2 DEF ListEvents, rows, TypeOK, RowStep, LearnRow, TellRow, Written
<1>3. ASSUME NEW e \in Event, Enqueue(e)
      PROVE  \A f \in Event : RowStep(f)
  <2>1. UNCHANGED has /\ status[e] = "none"
    BY <1>3 DEF Enqueue
  <2>2. \A f \in Event \ {e} : status'[f] = status[f] /\ told'[f] = told[f]
    BY <1>0, <1>3 DEF Enqueue, TypeOK
  <2>3. status'[e] \in {"pending", "failed"} /\ told'[e] = status'[e]
    BY <1>0, <1>3 DEF Enqueue, TypeOK
  <2> QED
    BY <2>1, <2>2, <2>3 DEF RowStep, WriteRow, TellRow
<1>4. ASSUME NEW w \in Worker, WorkerStep(w) \/ PassFails(w) \/ \E e \in Event : RecordFails(w, e)
      PROVE  \A e \in Event : RowStep(e)
  <2>1. CASE FailExpired(w) \/ FailUnbound(w)
    <3>1. UNCHANGED <<told, has>>
      BY <2>1 DEF FailExpired, FailUnbound, FailAll
    <3>2. \A e \in Event : status'[e] = status[e] \/ (status[e] = "pending" /\ status'[e] = "failed")
      BY <1>0, <2>1 DEF FailExpired, FailUnbound, FailAll, Pending, TypeOK
    <3> QED
      BY <3>1, <3>2 DEF RowStep, SettleRow, TellRow
  <2>2. CASE ClaimWebhook(w) \/ SendDone(w) \/ PassFails(w)
    BY <2>2, <1>q DEF ClaimWebhook, Leased, SendDone, PassFails, rows
  <2>3. ASSUME NEW e \in Event, Resolve(w, e)
        PROVE  \A f \in Event : RowStep(f)
    BY <2>3, <1>q DEF Resolve, rows
  <2>4. ASSUME NEW e \in Event, Send(w, e)
        PROVE  \A f \in Event : RowStep(f)
    <3>1. UNCHANGED <<status, told>>
      BY <2>4 DEF Send, rows
    <3>2. Written(e)
      BY <2>4 DEF Send, InStage, PromiseInv, InHandIsWritten
    <3>3. \A f \in Event : has'[f] = has[f] \/ (f = e /\ has'[f] # {})
      BY <1>0, <2>4 DEF Send, TypeOK
    <3> QED
      BY <3>1, <3>2, <3>3 DEF RowStep, LearnRow, TellRow
  <2>5. ASSUME NEW e \in Event, Record(w, e)
        PROVE  \A f \in Event : RowStep(f)
    <3>1. has' = has
      BY <2>5 DEF Record
    <3>2. CASE UNCHANGED <<status, told>>
      BY <3>1, <3>2, <1>q
    <3>3. CASE MarkFailed(e, "no_binding") \/ MarkFailed(e, "exhausted")
      BY <1>0, <3>1, <3>3, MarkStep
    <3>4. CASE MarkDelivered(e) /\ attempt[w][e].ok
      <4>1. Known(e)
        BY <1>0, <3>4 DEF KnownInv, AnsweredIsKnown
      <4> QED
        BY <1>0, <3>1, <3>4, <4>1, MarkStep
    <3> QED
      BY <2>5, <3>2, <3>3, <3>4 DEF Record, ScheduleRetry, rows
  <2>6. ASSUME NEW e \in Event, RecordFails(w, e)
        PROVE  \A f \in Event : RowStep(f)
    <3>1. has' = has
      BY <2>6 DEF RecordFails
    <3>2. CASE UNCHANGED rows
      BY <3>1, <3>2, <1>q DEF rows
    <3>3. CASE MarkDelivered(e) /\ attempt[w][e].ok
      <4>1. Known(e)
        BY <1>0, <3>3 DEF KnownInv, AnsweredIsKnown
      <4> QED
        BY <1>0, <3>1, <3>3, <4>1, MarkStep
    <3> QED
      BY <2>6, <3>2, <3>3 DEF RecordFails
  <2> QED
    BY <1>4, <2>1, <2>2, <2>3, <2>4, <2>5, <2>6 DEF WorkerStep
<1>5. ASSUME NEW c \in Conn, SocketStep(c) \/ Disconnect(c)
      PROVE  \A e \in Event : RowStep(e)
  <2>1. CASE ClaimForSocket(c) \/ PushDone(c) \/ Nudge(c) \/ Heartbeat(c) \/ Disconnect(c)
    BY <2>1, <1>q DEF ClaimForSocket, Leased, PushDone, Nudge, Heartbeat, Disconnect, rows
  <2>2. ASSUME NEW e \in Event, WriteEnvelope(c, e)
        PROVE  \A f \in Event : RowStep(f)
    <3>1. UNCHANGED <<status, told>>
      BY <2>2 DEF WriteEnvelope, rows
    <3>2. Written(e)
      BY <2>2 DEF WriteEnvelope, PromiseInv, InHandIsWritten
    <3>3. \A f \in Event : has'[f] = has[f] \/ (f = e /\ has'[f] # {})
      BY <1>0, <2>2 DEF WriteEnvelope, TypeOK
    <3> QED
      BY <3>1, <3>2, <3>3 DEF RowStep, LearnRow, TellRow
  <2>3. ASSUME NEW e \in Event, Ack(c, e)
        PROVE  \A f \in Event : RowStep(f)
    <3>1. has' = has /\ Known(e)
      BY <1>0, <2>3 DEF Ack, KnownInv, AckedIsKnown
    <3>2. CASE UNCHANGED rows
      BY <3>1, <3>2, <1>q DEF rows
    <3>3. CASE MarkDelivered(e)
      BY <1>0, <3>1, <3>3, MarkStep
    <3> QED
      BY <2>3, <3>2, <3>3 DEF Ack
  <2> QED
    BY <1>5, <2>1, <2>2, <2>3 DEF SocketStep
<1>6. ASSUME NEW c \in Conn, NEW a \in Agent, Connect(c, a)
      PROVE  \A e \in Event : RowStep(e)
  BY <1>6, <1>q DEF Connect, rows
<1>7. ASSUME NEW c \in Conn, NEW e \in Event, BackendAcks(c, e)
      PROVE  \A f \in Event : RowStep(f)
  BY <1>7, <1>q DEF BackendAcks, rows
<1>8. CASE Tick \/ UNCHANGED vars
  BY <1>8, <1>q DEF Tick, vars, rows
<1> QED
  BY <1>1, <1>2, <1>3, <1>4, <1>5, <1>6, <1>7, <1>8 DEF Next, Modes

\* A row once written stays written.
LEMMA StaysWritten ==
  ASSUME PromiseInv, [Next]_vars, NEW e \in Event, Written(e)
  PROVE  Written(e)'
  BY RowsStep DEF RowStep, WriteRow, LearnRow, SettleRow, TellRow, Written

\* What is in hand stays written.
LEMMA InHandStep == PromiseInv /\ [Next]_vars => InHandIsWritten'
<1> SUFFICES ASSUME PromiseInv, [Next]_vars PROVE InHandIsWritten'
  OBVIOUS
<1>0. TypeOK /\ TypeOK'
  BY NextType DEF PromiseInv, KnownInv
<1>w. \A e \in Event : Written(e) => Written(e)'
  BY StaysWritten
<1>s. \A w \in Worker, e \in Event : attempt[w][e].stage # "none" => Written(e)
  BY DEF PromiseInv, InHandIsWritten
<1>c. \A c \in Conn : \A e \in wire[c] : Written(e)
  BY DEF PromiseInv, InHandIsWritten
<1>q. ASSUME UNCHANGED <<attempt, wire>> PROVE InHandIsWritten'
  <2>1. \A c \in Conn : wire[c] \subseteq Event
    BY <1>0 DEF TypeOK
  <2> QED
    BY <1>w, <1>s, <1>c, <1>q, <2>1 DEF InHandIsWritten
<1>a. ASSUME UNCHANGED wire,
             \A w \in Worker, e \in Event : attempt'[w][e].stage # "none" => Written(e)
      PROVE  InHandIsWritten'
  <2>1. \A c \in Conn : wire[c] \subseteq Event
    BY <1>0 DEF TypeOK
  <2> QED
    BY <1>w, <1>c, <1>a, <2>1 DEF InHandIsWritten
<1>b. ASSUME UNCHANGED attempt, \A c \in Conn : \A e \in wire'[c] : e \in Event /\ Written(e)
      PROVE  InHandIsWritten'
  BY <1>w, <1>s, <1>b DEF InHandIsWritten
<1>1. ASSUME NEW a \in Agent, NEW m \in Modes, SetBinding(a, m) \/ RevokeBinding(a) \/ ListEvents(a)
      PROVE  InHandIsWritten'
  BY <1>1, <1>q DEF SetBinding, RevokeBinding, ListEvents, sockets
<1>2. ASSUME NEW e \in Event, Enqueue(e)
      PROVE  InHandIsWritten'
  BY <1>2, <1>q DEF Enqueue
<1>3. ASSUME NEW w \in Worker, WorkerStep(w) \/ PassFails(w) \/ \E e \in Event : RecordFails(w, e)
      PROVE  InHandIsWritten'
  <2>0. UNCHANGED wire
    BY <1>3 DEF WorkerStep, PassFails, FailExpired, FailUnbound, ClaimWebhook, Resolve, Send,
               SendDone, Record, RecordFails, sockets
  <2>1. CASE FailExpired(w) \/ FailUnbound(w) \/ SendDone(w)
    BY <2>0, <2>1, <1>q DEF FailExpired, FailUnbound, SendDone
  <2>2. CASE ClaimWebhook(w)
    <3>1. PICK B \in Batches(DueWebhook, BatchSize, next) :
            attempt' = [attempt EXCEPT ![w] = [e \in Event |->
              IF e \in B THEN Attempt("claimed", attempts[e] + 1, now + Lease, NoEndpoint, FALSE)
                         ELSE NoAttempt]]
      BY <2>2 DEF ClaimWebhook
    <3>2. \A e \in B : Written(e)
      BY <3>1, BatchesSubset DEF DueWebhook, Pending, Written
    <3>3. \A v \in Worker, e \in Event : attempt'[v][e].stage # "none" => Written(e)
      BY <1>0, <1>s, <3>1, <3>2 DEF TypeOK, NoAttempt, Attempt
    <3> QED
      BY <2>0, <3>3, <1>a
  <2>3. CASE PassFails(w) \/ \E e \in Event : RecordFails(w, e)
    <3>0. ToIdle(w)
      BY <2>3 DEF PassFails, RecordFails
    <3>1. \A v \in Worker, e \in Event : attempt'[v][e].stage # "none" => Written(e)
      BY <1>0, <1>s, <3>0 DEF ToIdle, TypeOK, NoAttempt, Attempt
    <3> QED
      BY <2>0, <3>1, <1>a
  <2>4. ASSUME NEW e \in Event, Resolve(w, e) \/ Send(w, e) \/ Record(w, e)
        PROVE  InHandIsWritten'
    <3>1. Written(e)
      BY <1>s, <2>4 DEF Resolve, Send, Record, InStage, InPass
    <3>2. \E t : attempt' = [attempt EXCEPT ![w][e] = t]
      BY <2>4 DEF Resolve, Send, Record, Recorded
    <3>3. \A v \in Worker, f \in Event : f # e => attempt'[v][f] = attempt[v][f]
      BY <1>0, <3>2 DEF TypeOK
    <3> QED
      BY <2>0, <3>1, <3>3, <1>s, <1>a
  <2> QED
    BY <1>3, <2>1, <2>2, <2>3, <2>4 DEF WorkerStep
<1>4. ASSUME NEW c \in Conn, SocketStep(c) \/ Disconnect(c)
      PROVE  InHandIsWritten'
  <2>0. UNCHANGED attempt
    BY <1>4 DEF SocketStep, Disconnect, ClaimForSocket, PushDone, Nudge, Heartbeat, WriteEnvelope, Ack
  <2>1. CASE PushDone(c) \/ Nudge(c)
    BY <2>0, <2>1, <1>q DEF PushDone, Nudge
  <2>2. CASE Heartbeat(c) \/ Disconnect(c)
    <3>1. \A d \in Conn : wire'[d] \subseteq wire[d]
      BY <1>0, <2>2 DEF Heartbeat, Disconnect, Drop, TypeOK
    <3> QED
      BY <1>0, <1>c, <2>0, <3>1, <1>b DEF TypeOK
  <2>3. CASE ClaimForSocket(c)
    <3>1. CASE UNCHANGED wire
      BY <2>0, <3>1, <1>q
    <3>2. CASE \E B \in Batches(DueSocket(conn[c].agent), SocketBatch, [e \in Event |-> e]) :
                 wire' = [wire EXCEPT ![c] = B]
      <4>1. PICK B \in Batches(DueSocket(conn[c].agent), SocketBatch, [e \in Event |-> e]) :
              wire' = [wire EXCEPT ![c] = B]
        BY <3>2
      <4>2. \A e \in B : e \in Event /\ Written(e)
        BY <4>1, BatchesSubset DEF DueSocket, Pending, Written
      <4>3. \A d \in Conn : wire'[d] = wire[d] \/ wire'[d] = B
        BY <1>0, <4>1 DEF TypeOK
      <4> QED
        BY <1>0, <1>c, <2>0, <4>2, <4>3, <1>b DEF TypeOK
    <3> QED
      BY <2>3, <3>1, <3>2 DEF ClaimForSocket
  <2>4. ASSUME NEW e \in Event, WriteEnvelope(c, e)
        PROVE  InHandIsWritten'
    <3>1. \A d \in Conn : wire'[d] \subseteq wire[d]
      BY <1>0, <2>4 DEF WriteEnvelope, TypeOK
    <3> QED
      BY <1>0, <1>c, <2>0, <3>1, <1>b DEF TypeOK
  <2>5. ASSUME NEW e \in Event, Ack(c, e)
        PROVE  InHandIsWritten'
    BY <2>5, <1>q DEF Ack
  <2> QED
    BY <1>4, <2>1, <2>2, <2>3, <2>4, <2>5 DEF SocketStep
<1>5. ASSUME NEW c \in Conn, NEW a \in Agent, Connect(c, a)
      PROVE  InHandIsWritten'
  BY <1>5, <1>q DEF Connect
<1>6. ASSUME NEW c \in Conn, NEW e \in Event, BackendAcks(c, e)
      PROVE  InHandIsWritten'
  BY <1>6, <1>q DEF BackendAcks
<1>7. CASE Tick \/ UNCHANGED vars
  BY <1>7, <1>q DEF Tick, vars, sockets
<1> QED
  BY <1>1, <1>2, <1>3, <1>4, <1>5, <1>6, <1>7 DEF Next, Modes

\* Both invariants always hold.
LEMMA PromiseInvariant == Spec => []PromiseInv
<1>1. Init => PromiseInv
  BY InitType DEF Init, PromiseInv, KnownInv, DeliveredIsKnown, AnsweredIsKnown, AckedIsKnown,
                  Known, InHandIsWritten, Written, NoAttempt, Attempt
<1>2. PromiseInv /\ [Next]_vars => PromiseInv'
  BY KnownStep, InHandStep DEF PromiseInv
<1> QED
  BY <1>1, <1>2, PTL DEF Spec

\* A delivered or failed row never changes its outcome again, whichever late
\* worker, acknowledgement or sweep comes to it.
THEOREM OutcomesFinal == Spec => OutcomeFinal
<1>1. PromiseInv /\ [Next]_vars =>
        [\A e \in Event : status[e] \in {"delivered", "failed"} => status'[e] = status[e]]_vars
  BY RowsStep DEF RowStep, WriteRow, LearnRow, SettleRow, TellRow
<1> QED
  BY <1>1, PromiseInvariant, PTL DEF Spec, OutcomeFinal

\* The outbox implements its abstract specification: what the workers, the
\* sockets and the sweeps do together to an event is to write it, to let a
\* backend learn of it, to settle it or to tell its sender.
THEOREM PromiseKept == Spec => KeepsPromise
<1>1. Init => Promise!Init
  BY DEF Init, Promise!Init
<1>2. PromiseInv /\ [Next]_vars => [Promise!Next]_(Promise!vars)
  <2> SUFFICES ASSUME PromiseInv, [Next]_vars, NEW e \in Event
               PROVE  Promise!Write(e) \/ Promise!Learn(e) \/ Promise!Settle(e) \/ Promise!Tell(e)
    BY DEF Promise!Next
  <2>1. RowStep(e)
    BY RowsStep
  <2>2. CASE WriteRow(e)
    BY <2>2 DEF WriteRow, Promise!Write
  <2>3. CASE LearnRow(e)
    BY <2>3 DEF LearnRow, Written, Promise!Learn
  <2>4. CASE SettleRow(e)
    BY <2>4 DEF SettleRow, Known, Promise!Settle
  <2>5. CASE TellRow(e)
    BY <2>5 DEF TellRow, Promise!Tell
  <2> QED
    BY <2>1, <2>2, <2>3, <2>4, <2>5 DEF RowStep
<1> QED
  BY <1>1, <1>2, PromiseInvariant, PTL DEF Spec, KeepsPromise, Promise!Spec

\* The sender is told no outcome but the row's: an announcement says what the
\* row is when it is made, and a row with an outcome keeps it.
THEOREM TicksTruthful == Spec => []TickTruthful
<1>1. Init => TickTruthful
  BY DEF Init, TickTruthful
<1>2. PromiseInv /\ [Next]_vars /\ TickTruthful => TickTruthful'
  BY RowsStep DEF RowStep, WriteRow, LearnRow, SettleRow, TellRow, TickTruthful
<1> QED
  BY <1>1, <1>2, PromiseInvariant, PTL DEF Spec

-----------------------------------------------------------------------------
(* The health of a binding.  Time and the two marks of a binding move      *)
(* together: a streak starts after the last success, and ends with the     *)
(* next one.                                                               *)

Silent(x) ==
  /\ x.seen <= now /\ x.streak <= now
  /\ x.streak # 0 => x.seen <= x.streak
  /\ x.status = "unreachable" => x.streak # 0 /\ x.streak + UnreachableAfter <= now

HealthInv == TypeOK /\ now # 0 /\ \A a \in Agent : Silent(binding[a])

\* A success, a failure and a closed socket keep what the marks say.
LEMMA HealthSilent ==
  ASSUME HealthInv, NEW a \in Agent, NEW b \in Binding
  PROVE  /\ \A x \in Agent : Silent(RecordDeliverySuccess(a, b)[x])
         /\ \A x \in Agent : Silent(RecordDeliveryFailure(a, b)[x])
         /\ \A x \in Agent : Silent(SocketClosed(a, b)[x])
<1>1. /\ binding \in [Agent -> BindingType] /\ binding[a] \in BindingType /\ Silent(binding[a])
      /\ now \in Nat /\ now # 0 /\ binding[a].seen \in Nat /\ binding[a].streak \in Nat
      /\ \A x \in Agent : Silent(binding[x])
  BY DEF HealthInv, TypeOK, BindingType, Time
<1>2. UnreachableAfter \in Nat
  BY OutboxAssumption DEF OutboxAssumption
<1>3. Silent(BindingRow(b, binding[a].mode, "connected", now, 0))
  BY <1>1 DEF Silent, BindingRow
<1>4. Silent(BindingRow(b, binding[a].mode,
             IF StreakStart(a) + UnreachableAfter <= now THEN "unreachable" ELSE binding[a].status,
             binding[a].seen, StreakStart(a)))
  BY <1>1, <1>2 DEF Silent, BindingRow, StreakStart
<1>5. Silent(BindingRow(b, binding[a].mode, "idle", binding[a].seen, binding[a].streak))
  BY <1>1 DEF Silent, BindingRow
<1>6. ASSUME NEW x, NEW y \in Agent, Silent(x)
      PROVE  Silent([binding EXCEPT ![a] = x][y])
  BY <1>1, <1>6, Zenon
<1> QED
  BY <1>1, <1>3, <1>4, <1>5, <1>6 DEF RecordDeliverySuccess, RecordDeliveryFailure, SocketClosed

\* Every step keeps them.
LEMMA HealthStep == HealthInv /\ [Next]_vars => HealthInv'
<1> SUFFICES ASSUME HealthInv, [Next]_vars PROVE HealthInv'
  OBVIOUS
<1>0. TypeOK /\ TypeOK' /\ now \in Nat /\ now # 0 /\ UnreachableAfter \in Nat
  BY NextType, OutboxAssumption DEF HealthInv, TypeOK, Time, OutboxAssumption
<1>s. \A a \in Agent : Silent(binding[a])
  BY DEF HealthInv
<1>q. ASSUME UNCHANGED <<now, binding>> PROVE HealthInv'
  BY <1>0, <1>s, <1>q DEF HealthInv, Silent
<1>u. ASSUME UNCHANGED now, \A x \in Agent : Silent(binding'[x]) PROVE HealthInv'
  BY <1>0, <1>u DEF HealthInv, Silent
<1>h. ASSUME UNCHANGED now, NEW a \in Agent, NEW b \in Binding,
             binding' = RecordDeliverySuccess(a, b) \/ binding' = RecordDeliveryFailure(a, b)
             \/ binding' = SocketClosed(a, b) \/ binding' = binding
      PROVE  HealthInv'
  BY <1>h, <1>u, <1>s, HealthSilent
<1>1. ASSUME NEW a \in Agent, NEW m \in Modes, SetBinding(a, m) \/ RevokeBinding(a)
      PROVE  HealthInv'
  <2>1. UNCHANGED now
    BY <1>1 DEF SetBinding, RevokeBinding
  <2>2. PICK b, k : binding' = [binding EXCEPT ![a] = BindingRow(b, k, "idle", 0, 0)]
    BY <1>1, Zenon DEF SetBinding, RevokeBinding, NoBinding
  <2>3. Silent(BindingRow(b, k, "idle", 0, 0))
    BY <1>0 DEF Silent, BindingRow
  <2>4. binding \in [Agent -> BindingType]
    BY <1>0 DEF TypeOK
  <2>5. \A y \in Agent : Silent(binding'[y])
    BY <1>s, <2>2, <2>3, <2>4, Zenon
  <2> QED
    BY <2>1, <2>5, <1>u
<1>2. ASSUME NEW a \in Agent, ListEvents(a)
      PROVE  HealthInv'
  BY <1>2, <1>q DEF ListEvents
<1>3. ASSUME NEW e \in Event, Enqueue(e)
      PROVE  HealthInv'
  BY <1>3, <1>q DEF Enqueue
<1>4. ASSUME NEW w \in Worker, WorkerStep(w) \/ PassFails(w) \/ \E e \in Event : RecordFails(w, e)
      PROVE  HealthInv'
  <2>1. CASE FailExpired(w) \/ FailUnbound(w) \/ ClaimWebhook(w) \/ SendDone(w) \/ PassFails(w)
    BY <2>1, <1>q DEF FailExpired, FailUnbound, ClaimWebhook, SendDone, PassFails
  <2>2. ASSUME NEW e \in Event, Resolve(w, e) \/ Send(w, e)
        PROVE  HealthInv'
    BY <2>2, <1>q DEF Resolve, Send
  <2>3. ASSUME NEW e \in Event, Record(w, e)
        PROVE  HealthInv'
    <3>1. AgentOf[e] \in Agent /\ attempt[w][e].id \in Binding
      BY <1>0, OutboxAssumption DEF OutboxAssumption, TypeOK, AttemptType
    <3>2. /\ UNCHANGED now
          /\ \/ binding' = RecordDeliverySuccess(AgentOf[e], attempt[w][e].id)
             \/ binding' = RecordDeliveryFailure(AgentOf[e], attempt[w][e].id)
             \/ binding' = binding
      BY <2>3 DEF Record
    <3> QED
      BY <3>1, <3>2, <1>h
  <2>4. ASSUME NEW e \in Event, RecordFails(w, e)
        PROVE  HealthInv'
    <3>1. AgentOf[e] \in Agent /\ attempt[w][e].id \in Binding
      BY <1>0, OutboxAssumption DEF OutboxAssumption, TypeOK, AttemptType
    <3>2. /\ UNCHANGED now
          /\ binding' = RecordDeliveryFailure(AgentOf[e], attempt[w][e].id) \/ binding' = binding
      BY <2>4 DEF RecordFails
    <3> QED
      BY <3>1, <3>2, <1>h
  <2> QED
    BY <1>4, <2>1, <2>2, <2>3, <2>4 DEF WorkerStep
<1>5. ASSUME NEW c \in Conn, SocketStep(c) \/ Disconnect(c)
      PROVE  HealthInv'
  <2>0. conn[c].agent \in Agent /\ conn[c].id \in Binding
    BY <1>0 DEF TypeOK, ConnType
  <2>1. CASE ClaimForSocket(c) \/ PushDone(c) \/ Nudge(c)
    BY <2>1, <1>q DEF ClaimForSocket, PushDone, Nudge
  <2>2. CASE Heartbeat(c)
    BY <2>0, <2>2, <1>h DEF Heartbeat
  <2>3. CASE Disconnect(c)
    BY <2>0, <2>3, <1>h DEF Disconnect
  <2>4. ASSUME NEW e \in Event, WriteEnvelope(c, e)
        PROVE  HealthInv'
    BY <2>4, <1>q DEF WriteEnvelope
  <2>5. ASSUME NEW e \in Event, Ack(c, e)
        PROVE  HealthInv'
    BY <2>0, <2>5, <1>h DEF Ack
  <2> QED
    BY <1>5, <2>1, <2>2, <2>3, <2>4, <2>5 DEF SocketStep
<1>6. ASSUME NEW c \in Conn, NEW a \in Agent, Connect(c, a)
      PROVE  HealthInv'
  <2>1. binding[a].id \in Binding
    BY <1>0 DEF TypeOK, BindingType
  <2> QED
    BY <2>1, <1>6, <1>h DEF Connect
<1>7. ASSUME NEW c \in Conn, NEW e \in Event, BackendAcks(c, e)
      PROVE  HealthInv'
  BY <1>7, <1>q DEF BackendAcks
<1>8. CASE UNCHANGED vars
  BY <1>8, <1>q DEF vars
<1>9. CASE Tick
  <2>1. now' = now + 1 /\ binding' = binding
    BY <1>9 DEF Tick
  <2>2. \A a \in Agent : binding[a].seen \in Nat /\ binding[a].streak \in Nat
    BY <1>0 DEF TypeOK, BindingType, Time
  <2> QED
    BY <1>0, <1>s, <2>1, <2>2 DEF HealthInv, Silent
<1> QED
  BY <1>1, <1>2, <1>3, <1>4, <1>5, <1>6, <1>7, <1>8, <1>9 DEF Next, Modes

\* A binding is unreachable only after a whole window of failures with no
\* success in it, for any number of workers and sockets recording at once.
THEOREM UnreachableSilent == Spec => []UnreachableMeansSilent
<1>1. Init => HealthInv
  BY InitType, OutboxAssumption DEF OutboxAssumption, Init, HealthInv, Silent, NoBinding, BindingRow
<1>2. HealthInv => UnreachableMeansSilent
  BY DEF HealthInv, Silent, UnreachableMeansSilent
<1> QED
  BY <1>1, <1>2, HealthStep, PTL DEF Spec

-----------------------------------------------------------------------------
(* Leases.  As long as no pass has outlasted the lease of a row, the row is *)
(* not due while it is in a pass: not to another worker, not to a socket.  *)

InHand(w, e) == attempt[w][e].stage # "none" /\ e \notin overran
Leases ==
  \A w \in Worker, e \in Event : InHand(w, e) =>
     now < attempt[w][e].until /\ (Pending(e) => attempt[w][e].until <= next[e])
Apart == \A v, w \in Worker, e \in Event : InHand(v, e) /\ InHand(w, e) => v = w

LeaseInv == PromiseInv /\ Leases /\ Apart

\* A step that leaves the attempts and the clock alone and makes no pending
\* row that is in a pass due earlier.
LEMMA LeaseKept ==
  ASSUME LeaseInv, UNCHANGED <<now, attempt, overran>>,
         \A w \in Worker, e \in Event : InHand(w, e) /\ Pending(e)' => Pending(e) /\ next'[e] = next[e]
  PROVE  Leases' /\ Apart'
BY DEF LeaseInv, Leases, Apart, InHand

\* A claim leases only rows that are in no pass.
LEMMA ClaimApart ==
  ASSUME LeaseInv, NEW e \in Event, Pending(e), next[e] <= now, NEW w \in Worker
  PROVE  ~InHand(w, e)
<1>1. now \in Nat /\ next[e] \in Nat /\ attempt[w][e].until \in Nat
  BY DEF LeaseInv, PromiseInv, KnownInv, TypeOK, Time, AttemptType
<1> QED BY <1>1 DEF LeaseInv, Leases

\* What a claim does to a pending row: nothing, or it was due.
LEMMA LeasedRows ==
  ASSUME TypeOK, NEW B \in SUBSET Event, Leased(B)
  PROVE  status' = status /\ \A e \in Event \ B : next'[e] = next[e]
BY DEF TypeOK, Leased

\* Every step keeps the leases; the clock drops the rows it ends them for.
LEMMA LeaseStep ==
  ASSUME LeaseInv, [Next]_vars
  PROVE  Leases' /\ Apart'
<1>0. /\ PromiseInv /\ TypeOK /\ now \in Nat /\ Lease \in Nat \ {0}
      /\ attempt \in [Worker -> [Event -> AttemptType]] /\ next \in [Event -> Nat]
  BY OutboxAssumption DEF LeaseInv, PromiseInv, KnownInv, TypeOK, Time, OutboxAssumption
<1>q. UNCHANGED <<now, attempt, overran, status, next>> => Leases' /\ Apart'
  BY LeaseKept DEF Pending
<1>w. \A w \in Worker, e \in Event : InHand(w, e) => status[e] # "none"
  BY <1>0 DEF InHand, PromiseInv, InHandIsWritten, Written
<1>m. ASSUME UNCHANGED <<now, attempt, overran>>, NEW e \in Event, NEW r, MarkDelivered(e) \/ MarkFailed(e, r)
      PROVE  Leases' /\ Apart'
  <2>1. next' = next /\ \A f \in Event : Pending(f)' => Pending(f)
    BY <1>0, <1>m DEF MarkDelivered, MarkFailed, Pending, TypeOK
  <2> QED
    BY <1>m, <2>1, LeaseKept
<1>1. ASSUME NEW a \in Agent, NEW m \in Modes, SetBinding(a, m) \/ RevokeBinding(a) \/ ListEvents(a)
      PROVE  Leases' /\ Apart'
  BY <1>1, <1>q DEF SetBinding, RevokeBinding, ListEvents, rows
<1>2. ASSUME NEW e \in Event, Enqueue(e)
      PROVE  Leases' /\ Apart'
  <2>1. UNCHANGED <<now, attempt, overran>> /\ status[e] = "none"
    BY <1>2 DEF Enqueue
  <2>2. \A f \in Event \ {e} : status'[f] = status[f] /\ next'[f] = next[f]
    BY <1>0, <1>2 DEF Enqueue, TypeOK
  <2>3. \A w \in Worker : ~InHand(w, e)
    BY <1>w, <2>1
  <2> QED
    BY <2>1, <2>2, <2>3, LeaseKept DEF Pending
<1>3. ASSUME NEW w \in Worker, WorkerStep(w) \/ PassFails(w) \/ \E e \in Event : RecordFails(w, e)
      PROVE  Leases' /\ Apart'
  <2>1. CASE FailExpired(w) \/ FailUnbound(w)
    <3>1. UNCHANGED <<now, attempt, overran, next>> /\ \A e \in Event : Pending(e)' => Pending(e)
      BY <1>0, <2>1 DEF FailExpired, FailUnbound, FailAll, Pending, TypeOK
    <3> QED
      BY <3>1, LeaseKept
  <2>2. CASE ClaimWebhook(w)
    <3>1. PICK B \in Batches(DueWebhook, BatchSize, next) :
            /\ Leased(B)
            /\ attempt' = [attempt EXCEPT ![w] = [e \in Event |->
                 IF e \in B THEN Attempt("claimed", attempts[e] + 1, now + Lease, NoEndpoint, FALSE)
                            ELSE NoAttempt]]
      BY <2>2 DEF ClaimWebhook
    <3>2. B \subseteq Event /\ \A e \in B : Pending(e) /\ next[e] <= now
      BY <3>1, BatchesSubset DEF DueWebhook
    <3>3. \A e \in B : \A v \in Worker : ~InHand(v, e)
      BY <3>2, ClaimApart
    <3>4. UNCHANGED <<now, overran, status>> /\ \A e \in Event : next'[e] = IF e \in B THEN now + Lease ELSE next[e]
      BY <1>0, <2>2, <3>1 DEF ClaimWebhook, Leased
    <3>5. \A e \in Event : /\ InHand(w, e)' => e \in B
                           /\ e \in B => attempt'[w][e].until = now + Lease
      BY <1>0, <3>1 DEF InHand, Attempt, NoAttempt
    <3>6. \A v \in Worker \ {w} : attempt'[v] = attempt[v]
      BY <1>0, <3>1
    <3>7. Apart'
      BY <3>3, <3>4, <3>5, <3>6 DEF LeaseInv, Apart, InHand
    <3>8. Leases'
      BY <1>0, <3>2, <3>3, <3>4, <3>5, <3>6 DEF LeaseInv, Leases, InHand, Pending
    <3> QED
      BY <3>7, <3>8
  <2>3. CASE SendDone(w)
    BY <2>3, <1>q DEF SendDone, rows
  <2>4. ASSUME NEW e \in Event, Resolve(w, e) \/ Send(w, e)
        PROVE  Leases' /\ Apart'
    <3>1. UNCHANGED <<now, overran, status, next>> /\ attempt[w][e].stage # "none"
      BY <2>4 DEF Resolve, Send, rows, InStage, InHand
    <3>2. \E s, n, ep, ok : attempt' = [attempt EXCEPT ![w][e] = Attempt(s, n, @.until, ep, ok)]
      <4>1. CASE Resolve(w, e)
        BY <4>1, Zenon DEF Resolve
      <4>2. CASE Send(w, e)
        <5>1. PICK ok \in BOOLEAN :
                attempt' = [attempt EXCEPT ![w][e] = Attempt("sent", @.number, @.until, @, ok)]
          BY <4>2 DEF Send
        <5> QED BY <5>1, Zenon
      <4> QED BY <2>4, <4>1, <4>2
    <3>3. \A v \in Worker, f \in Event :
            /\ attempt'[v][f].until = attempt[v][f].until
            /\ ~(v = w /\ f = e) => attempt'[v][f] = attempt[v][f]
      BY <1>0, <3>2 DEF Attempt
    <3> QED
      BY <3>1, <3>3 DEF LeaseInv, Leases, Apart, InHand, Pending
  <2>5. ASSUME NEW e \in Event, Record(w, e)
        PROVE  Leases' /\ Apart'
    <3>1. /\ UNCHANGED <<now, overran>> /\ attempt' = [attempt EXCEPT ![w][e] = NoAttempt]
          /\ attempt[w][e].stage # "none"
      BY <2>5 DEF Record, Recorded, InPass
    <3>2. \A f \in Event \ {e} : next'[f] = next[f] /\ (Pending(f)' => Pending(f))
      BY <1>0, <2>5 DEF Record, MarkDelivered, MarkFailed, ScheduleRetry, Pending, TypeOK, rows
    <3>3. ~InHand(w, e)'
      BY <1>0, <3>1 DEF InHand, NoAttempt, Attempt
    <3>4. \A v \in Worker, f \in Event : ~(v = w /\ f = e) => attempt'[v][f] = attempt[v][f]
      BY <1>0, <3>1
    <3>5. \A v \in Worker : ~InHand(v, e)'
      BY <3>1, <3>3, <3>4 DEF LeaseInv, Apart, InHand
    <3> QED
      BY <3>1, <3>2, <3>4, <3>5 DEF LeaseInv, Leases, Apart, InHand
  <2>6. CASE PassFails(w)
    <3>1. UNCHANGED <<now, overran, status, next>>
      BY <2>6 DEF PassFails, rows
    <3>2. \A v \in Worker, e \in Event : InHand(v, e)' => attempt'[v][e] = attempt[v][e]
      BY <1>0, <2>6 DEF PassFails, ToIdle, InHand, NoAttempt, Attempt
    <3> QED
      BY <3>1, <3>2 DEF LeaseInv, Leases, Apart, InHand, Pending
  <2>7. ASSUME NEW e \in Event, RecordFails(w, e)
        PROVE  Leases' /\ Apart'
    <3>1. UNCHANGED <<now, overran, next>> /\ \A f \in Event : Pending(f)' => Pending(f)
      BY <1>0, <2>7 DEF RecordFails, MarkDelivered, Pending, TypeOK, rows
    <3>2. \A v \in Worker, f \in Event : InHand(v, f)' => attempt'[v][f] = attempt[v][f]
      BY <1>0, <2>7 DEF RecordFails, ToIdle, InHand, NoAttempt, Attempt
    <3> QED
      BY <3>1, <3>2 DEF LeaseInv, Leases, Apart, InHand
  <2> QED
    BY <1>3, <2>1, <2>2, <2>3, <2>4, <2>5, <2>6, <2>7 DEF WorkerStep
<1>4. ASSUME NEW c \in Conn, SocketStep(c) \/ Disconnect(c)
      PROVE  Leases' /\ Apart'
  <2>1. CASE ClaimForSocket(c)
    <3>1. UNCHANGED <<now, attempt, overran>>
      BY <2>1 DEF ClaimForSocket
    <3>2. ASSUME NEW B \in Batches(DueSocket(conn[c].agent), SocketBatch, [e \in Event |-> e]), Leased(B)
          PROVE  Leases' /\ Apart'
      <4>1. B \subseteq Event /\ \A e \in B : Pending(e) /\ next[e] <= now
        BY BatchesSubset DEF DueSocket
      <4>2. \A e \in B : \A v \in Worker : ~InHand(v, e)
        BY <4>1, ClaimApart
      <4>3. status' = status /\ \A e \in Event \ B : next'[e] = next[e]
        BY <1>0, <3>2, <4>1, LeasedRows
      <4> QED
        BY <3>1, <4>2, <4>3, LeaseKept DEF Pending
    <3>3. CASE UNCHANGED rows
      BY <3>1, <3>3, <1>q DEF rows
    <3> QED
      BY <2>1, <3>2, <3>3 DEF ClaimForSocket
  <2>2. CASE PushDone(c) \/ Nudge(c) \/ Heartbeat(c) \/ Disconnect(c)
    BY <2>2, <1>q DEF PushDone, Nudge, Heartbeat, Disconnect, rows
  <2>3. ASSUME NEW e \in Event, WriteEnvelope(c, e)
        PROVE  Leases' /\ Apart'
    BY <2>3, <1>q DEF WriteEnvelope, rows
  <2>4. ASSUME NEW e \in Event, Ack(c, e)
        PROVE  Leases' /\ Apart'
    <3>1. UNCHANGED <<now, attempt, overran>> /\ (MarkDelivered(e) \/ UNCHANGED rows)
      BY <2>4 DEF Ack
    <3> QED
      BY <3>1, <1>m, <1>q DEF rows
  <2> QED
    BY <1>4, <2>1, <2>2, <2>3, <2>4 DEF SocketStep
<1>5. ASSUME NEW c \in Conn, NEW a \in Agent, Connect(c, a)
      PROVE  Leases' /\ Apart'
  BY <1>5, <1>q DEF Connect, rows
<1>6. ASSUME NEW c \in Conn, NEW e \in Event, BackendAcks(c, e)
      PROVE  Leases' /\ Apart'
  BY <1>6, <1>q DEF BackendAcks, rows
<1>7. CASE UNCHANGED vars
  BY <1>7, <1>q DEF vars, rows
<1>8. CASE Tick
  <2>1. now' = now + 1 /\ UNCHANGED <<attempt, status, next>>
    BY <1>8 DEF Tick, rows
  <2>2. \A w \in Worker, e \in Event : InHand(w, e)' => InHand(w, e) /\ now + 1 < attempt[w][e].until
    <3> SUFFICES ASSUME NEW w \in Worker, NEW e \in Event, InHand(w, e)'
                 PROVE  InHand(w, e) /\ now + 1 < attempt[w][e].until
      OBVIOUS
    <3>1. attempt[w][e].until \in Nat
      BY <1>0 DEF AttemptType
    <3> QED
      BY <1>0, <1>8, <2>1, <3>1 DEF Tick, InPass, InHand
  <2> QED
    BY <2>1, <2>2 DEF LeaseInv, Leases, Apart, InHand, Pending
<1> QED
  BY <1>1, <1>2, <1>3, <1>4, <1>5, <1>6, <1>7, <1>8 DEF Next, Modes

\* Two workers have the same event in hand only after a pass outlasted the
\* event's lease: for any number of workers and every lease, with sockets that
\* claim beside them, and with passes that fail and crash half way.
THEOREM LeasesExclusive == Spec => []LeaseExclusive
<1>1. Init => Leases /\ Apart
  BY DEF Init, Leases, Apart, InHand, NoAttempt, Attempt
<1>2. PromiseInv /\ Leases /\ Apart /\ [Next]_vars => Leases' /\ Apart'
  BY LeaseStep DEF LeaseInv
<1>3. Leases /\ Apart => LeaseExclusive
  BY DEF Apart, LeaseExclusive, InPass, InHand
<1> QED
  BY <1>1, <1>2, <1>3, PromiseInvariant, PTL DEF Spec

-----------------------------------------------------------------------------
(* Which backends an event reaches, where agents have webhooks only: what  *)
(* a worker read of the binding stays eligible however late it sends.      *)

LiveEligible ==
  \A e \in Event : Written(e) /\ binding[AgentOf[e]].id # 0 => binding[AgentOf[e]].id \in eligible[e]
ReadEligible ==
  \A w \in Worker, e \in Event : attempt[w][e].id # 0 => attempt[w][e].id \in eligible[e]
ModeHasId ==
  /\ \A a \in Agent : binding[a].mode = "webhook" => binding[a].id # 0
  /\ \A w \in Worker, e \in Event : attempt[w][e].mode = "webhook" => attempt[w][e].id # 0
UnwrittenUnknown == \A e \in Event : ~Written(e) => has[e] = {} /\ \A w \in Worker : attempt[w][e].id = 0

EligibleInv ==
  PromiseInv /\ LiveEligible /\ ReadEligible /\ ModeHasId /\ UnwrittenUnknown /\ ReachesOnlyEligible

\* The updates of a binding's health keep its id and its mode.
LEMMA HealthSameEndpoint ==
  ASSUME TypeOK, NEW a \in Agent, NEW b
  PROVE  \A x \in Agent :
           /\ RecordDeliverySuccess(a, b)[x].id = binding[x].id /\ RecordDeliverySuccess(a, b)[x].mode = binding[x].mode
           /\ RecordDeliveryFailure(a, b)[x].id = binding[x].id /\ RecordDeliveryFailure(a, b)[x].mode = binding[x].mode
BY DEF TypeOK, RecordDeliverySuccess, RecordDeliveryFailure, BindingRow

\* A step that writes no row, changes no binding and lets no backend learn.
LEMMA EligibleKept ==
  ASSUME EligibleInv, UNCHANGED <<has, eligible>>, \A e \in Event : Written(e)' <=> Written(e),
         \A a \in Agent : binding'[a].id = binding[a].id /\ binding'[a].mode = binding[a].mode,
         \A w \in Worker, e \in Event :
            \/ attempt'[w][e].id = attempt[w][e].id /\ attempt'[w][e].mode = attempt[w][e].mode
            \/ attempt'[w][e].id = 0 /\ attempt'[w][e].mode = "none"
  PROVE  LiveEligible' /\ ReadEligible' /\ ModeHasId' /\ UnwrittenUnknown' /\ ReachesOnlyEligible'
<1>1. AgentOf \in [Event -> Agent]
  BY OutboxAssumption DEF OutboxAssumption
<1>2. LiveEligible'
  BY <1>1 DEF EligibleInv, LiveEligible
<1>3. ReadEligible'
  BY DEF EligibleInv, ReadEligible
<1>4. ModeHasId'
  BY DEF EligibleInv, ModeHasId
<1>5. UnwrittenUnknown'
  BY DEF EligibleInv, UnwrittenUnknown
<1>6. ReachesOnlyEligible'
  BY DEF EligibleInv, ReachesOnlyEligible
<1> QED BY <1>2, <1>3, <1>4, <1>5, <1>6

\* Every step keeps it, with no sockets.
LEMMA EligibleStep ==
  ASSUME Conn = {}, EligibleInv, [Next]_vars
  PROVE  LiveEligible' /\ ReadEligible' /\ ModeHasId' /\ UnwrittenUnknown' /\ ReachesOnlyEligible'
<1> DEFINE Goal == LiveEligible' /\ ReadEligible' /\ ModeHasId' /\ UnwrittenUnknown' /\ ReachesOnlyEligible'
<1>0. /\ PromiseInv /\ TypeOK /\ AgentOf \in [Event -> Agent]
      /\ attempt \in [Worker -> [Event -> AttemptType]] /\ binding \in [Agent -> BindingType]
      /\ has \in [Event -> SUBSET Binding] /\ eligible \in [Event -> SUBSET Binding]
  BY OutboxAssumption DEF EligibleInv, PromiseInv, KnownInv, TypeOK, OutboxAssumption
<1>w. \A w \in Worker, e \in Event : attempt[w][e].stage # "none" => Written(e)
  BY <1>0 DEF PromiseInv, InHandIsWritten
<1>n. NoAttempt.id = 0 /\ NoAttempt.mode = "none"
  BY DEF NoAttempt, Attempt, NoEndpoint
<1>1. ASSUME NEW a \in Agent, NEW m \in Modes, SetBinding(a, m)
      PROVE  Goal
  <2>1. UNCHANGED <<status, attempt, has>> /\ bindings \in Nat
    BY <1>0, <1>1, OutboxAssumption DEF SetBinding, rows, TypeOK, Binding, OutboxAssumption
  <2>2. binding'[a].id = bindings + 1 /\ \A x \in Agent \ {a} : binding'[x] = binding[x]
    BY <1>0, <1>1 DEF SetBinding, BindingRow
  <2>3. \A e \in Event : eligible'[e] = IF AgentOf[e] = a /\ Written(e) THEN eligible[e] \cup {bindings + 1}
                                        ELSE eligible[e]
    BY <1>1 DEF SetBinding, Written
  <2>4. LiveEligible'
    BY <1>0, <2>1, <2>2, <2>3 DEF EligibleInv, LiveEligible, Written
  <2>5. ReadEligible'
    BY <2>1, <2>3 DEF EligibleInv, ReadEligible
  <2>6. ModeHasId'
    BY <2>1, <2>2 DEF EligibleInv, ModeHasId
  <2>7. UnwrittenUnknown'
    BY <2>1 DEF EligibleInv, UnwrittenUnknown, Written
  <2>8. ReachesOnlyEligible'
    BY <2>1, <2>3 DEF EligibleInv, ReachesOnlyEligible
  <2> QED BY <2>4, <2>5, <2>6, <2>7, <2>8
<1>2. ASSUME NEW a \in Agent, RevokeBinding(a)
      PROVE  Goal
  <2>1. UNCHANGED <<status, attempt, has, eligible>>
    BY <1>2 DEF RevokeBinding, rows
  <2>2. binding'[a].id = 0 /\ binding'[a].mode = "none" /\ \A x \in Agent \ {a} : binding'[x] = binding[x]
    BY <1>0, <1>2 DEF RevokeBinding, NoBinding, BindingRow
  <2>4. LiveEligible'
    BY <1>0, <2>1, <2>2 DEF EligibleInv, LiveEligible, Written
  <2>6. ModeHasId'
    BY <2>1, <2>2 DEF EligibleInv, ModeHasId
  <2> QED BY <2>1, <2>4, <2>6 DEF EligibleInv, ReadEligible, UnwrittenUnknown, Written, ReachesOnlyEligible
<1>3. ASSUME NEW a \in Agent, ListEvents(a)
      PROVE  Goal
  <2>1. UNCHANGED <<status, attempt, eligible, binding>> /\ binding[a].id # 0
    BY <1>3 DEF ListEvents, rows
  <2>2. \A e \in Event : has'[e] = IF AgentOf[e] = a /\ Written(e) THEN has[e] \cup {binding[a].id} ELSE has[e]
    BY <1>3 DEF ListEvents, Written
  <2>7. UnwrittenUnknown'
    BY <2>1, <2>2 DEF EligibleInv, UnwrittenUnknown, Written
  <2>8. ReachesOnlyEligible'
    BY <2>1, <2>2 DEF EligibleInv, ReachesOnlyEligible, LiveEligible
  <2> QED BY <2>1, <2>7, <2>8 DEF EligibleInv, LiveEligible, Written, ReadEligible, ModeHasId
<1>4. ASSUME NEW e \in Event, Enqueue(e)
      PROVE  Goal
  <2>1. UNCHANGED <<attempt, has, binding>> /\ ~Written(e)
    BY <1>4 DEF Enqueue, Written
  <2>2. /\ eligible'[e] = {binding[AgentOf[e]].id} \ {0}
        /\ \A f \in Event \ {e} : eligible'[f] = eligible[f] /\ status'[f] = status[f]
    BY <1>0, <1>4 DEF Enqueue, TypeOK
  <2>3. status'[e] # "none"
    BY <1>0, <1>4 DEF Enqueue, TypeOK
  <2>4. LiveEligible'
    BY <1>0, <2>1, <2>2 DEF EligibleInv, LiveEligible, Written
  <2>5. ReadEligible'
    BY <2>1, <2>2 DEF EligibleInv, ReadEligible, UnwrittenUnknown
  <2>7. UnwrittenUnknown'
    BY <2>1, <2>2, <2>3 DEF EligibleInv, UnwrittenUnknown, Written
  <2>8. ReachesOnlyEligible'
    BY <2>1, <2>2 DEF EligibleInv, ReachesOnlyEligible, UnwrittenUnknown
  <2> QED BY <2>1, <2>4, <2>5, <2>7, <2>8 DEF EligibleInv, ModeHasId
<1>5. ASSUME NEW w \in Worker, NEW e \in Event, Resolve(w, e)
      PROVE  Goal
  <2>1. UNCHANGED <<status, has, eligible, binding>> /\ Written(e)
    BY <1>5, <1>w DEF Resolve, rows, InStage
  <2>2. /\ attempt'[w][e].id = binding[AgentOf[e]].id /\ attempt'[w][e].mode = binding[AgentOf[e]].mode
        /\ \A v \in Worker, f \in Event : ~(v = w /\ f = e) => attempt'[v][f] = attempt[v][f]
    BY <1>0, <1>5 DEF Resolve, Attempt, ActiveEndpoint
  <2>5. ReadEligible'
    BY <2>1, <2>2 DEF EligibleInv, ReadEligible, LiveEligible
  <2>6. ModeHasId'
    BY <1>0, <2>1, <2>2 DEF EligibleInv, ModeHasId
  <2>7. UnwrittenUnknown'
    BY <2>1, <2>2 DEF EligibleInv, UnwrittenUnknown, Written
  <2> QED BY <2>1, <2>5, <2>6, <2>7 DEF EligibleInv, LiveEligible, Written, ReachesOnlyEligible
<1>6. ASSUME NEW w \in Worker, NEW e \in Event, Send(w, e)
      PROVE  Goal
  <2>1. UNCHANGED <<status, eligible, binding>> /\ Written(e) /\ attempt[w][e].id \in eligible[e]
    BY <1>6, <1>w DEF Send, rows, InStage, EligibleInv, ModeHasId, ReadEligible
  <2>2. PICK ok \in BOOLEAN : attempt' = [attempt EXCEPT ![w][e] = Attempt("sent", @.number, @.until, @, ok)]
    BY <1>6 DEF Send
  <2>3. \A v \in Worker, f \in Event :
          attempt'[v][f].id = attempt[v][f].id /\ attempt'[v][f].mode = attempt[v][f].mode
    BY <1>0, <2>2 DEF Attempt
  <2>4. \A f \in Event : has'[f] = has[f] \/ (f = e /\ has'[f] = has[f] \cup {attempt[w][e].id})
    BY <1>0, <1>6 DEF Send
  <2>5. ReadEligible'
    BY <2>1, <2>3 DEF EligibleInv, ReadEligible
  <2>6. ModeHasId'
    BY <2>1, <2>3 DEF EligibleInv, ModeHasId
  <2>7. UnwrittenUnknown'
    BY <2>1, <2>3, <2>4 DEF EligibleInv, UnwrittenUnknown, Written
  <2>8. ReachesOnlyEligible'
    BY <2>1, <2>4 DEF EligibleInv, ReachesOnlyEligible
  <2> QED BY <2>1, <2>5, <2>6, <2>7, <2>8 DEF EligibleInv, LiveEligible, Written
<1>7. ASSUME NEW w \in Worker, FailExpired(w) \/ FailUnbound(w) \/ ClaimWebhook(w) \/ SendDone(w) \/ PassFails(w)
      PROVE  Goal
  <2>1. UNCHANGED <<has, eligible, binding>>
    BY <1>7 DEF FailExpired, FailUnbound, ClaimWebhook, SendDone, PassFails
  <2>2. \A e \in Event : Written(e)' <=> Written(e)
    <3>1. CASE FailExpired(w) \/ FailUnbound(w)
      BY <1>0, <3>1 DEF FailExpired, FailUnbound, FailAll, Pending, TypeOK, Written
    <3>2. CASE ClaimWebhook(w) \/ SendDone(w) \/ PassFails(w)
      BY <3>2 DEF ClaimWebhook, Leased, SendDone, PassFails, rows, Written
    <3> QED BY <1>7, <3>1, <3>2
  <2>3. \A v \in Worker, e \in Event :
          attempt'[v][e] = attempt[v][e] \/ (attempt'[v][e].id = 0 /\ attempt'[v][e].mode = "none")
    <3>1. CASE FailExpired(w) \/ FailUnbound(w) \/ SendDone(w)
      BY <3>1 DEF FailExpired, FailUnbound, SendDone
    <3>2. CASE ClaimWebhook(w)
      BY <1>0, <1>n, <3>2 DEF ClaimWebhook, Attempt, NoEndpoint
    <3>3. CASE PassFails(w)
      BY <1>0, <1>n, <3>3 DEF PassFails, ToIdle
    <3> QED BY <1>7, <3>1, <3>2, <3>3
  <2> QED BY <2>1, <2>2, <2>3, EligibleKept
<1>8. ASSUME NEW w \in Worker, NEW e \in Event, Record(w, e)
      PROVE  Goal
  <2>1. UNCHANGED <<has, eligible>>
    BY <1>8 DEF Record
  <2>2. \A f \in Event : Written(f)' <=> Written(f)
    BY <1>0, <1>8 DEF Record, MarkDelivered, MarkFailed, ScheduleRetry, Pending, TypeOK, Written, rows
  <2>3. \A v \in Worker, f \in Event :
          attempt'[v][f] = attempt[v][f] \/ (attempt'[v][f].id = 0 /\ attempt'[v][f].mode = "none")
    BY <1>0, <1>n, <1>8 DEF Record, Recorded
  <2>4. \A a \in Agent : binding'[a].id = binding[a].id /\ binding'[a].mode = binding[a].mode
    BY <1>0, <1>8, HealthSameEndpoint DEF Record
  <2> QED BY <2>1, <2>2, <2>3, <2>4, EligibleKept
<1>9. ASSUME NEW w \in Worker, NEW e \in Event, RecordFails(w, e)
      PROVE  Goal
  <2>1. UNCHANGED <<has, eligible>>
    BY <1>9 DEF RecordFails
  <2>2. \A f \in Event : Written(f)' <=> Written(f)
    BY <1>0, <1>9 DEF RecordFails, MarkDelivered, TypeOK, Written, rows
  <2>3. \A v \in Worker, f \in Event :
          attempt'[v][f] = attempt[v][f] \/ (attempt'[v][f].id = 0 /\ attempt'[v][f].mode = "none")
    BY <1>0, <1>n, <1>9 DEF RecordFails, ToIdle
  <2>4. \A a \in Agent : binding'[a].id = binding[a].id /\ binding'[a].mode = binding[a].mode
    BY <1>0, <1>9, HealthSameEndpoint DEF RecordFails
  <2> QED BY <2>1, <2>2, <2>3, <2>4, EligibleKept
<1>10. CASE Tick \/ UNCHANGED vars
  BY <1>10, EligibleKept DEF Tick, vars, rows, Written
<1> QED
  BY <1>1, <1>2, <1>3, <1>4, <1>5, <1>6, <1>7, <1>8, <1>9, <1>10 DEF Next, WorkerStep, Modes

\* Where agents have webhooks, an event reaches only backends whose binding
\* was live at some time since its creation, however long a worker sits on
\* what it read.  (A socket claims for its agent until its heartbeat finds the
\* binding replaced, so this is about the workers alone.)
THEOREM ReachesEligible == Conn = {} => (Spec => []ReachesOnlyEligible)
<1> SUFFICES ASSUME Conn = {} PROVE Spec => []ReachesOnlyEligible
  OBVIOUS
<1> DEFINE I == LiveEligible /\ ReadEligible /\ ModeHasId /\ UnwrittenUnknown /\ ReachesOnlyEligible
<1>1. Init => I
  BY DEF Init, LiveEligible, ReadEligible, ModeHasId, UnwrittenUnknown, ReachesOnlyEligible, Written,
         NoBinding, BindingRow, NoAttempt, Attempt, NoEndpoint
<1>2. PromiseInv /\ I /\ [Next]_vars => I'
  BY EligibleStep DEF EligibleInv
<1>3. I => ReachesOnlyEligible
  OBVIOUS
<1> HIDE DEF I
<1> QED
  BY <1>1, <1>2, <1>3, PromiseInvariant, PTL DEF Spec
=============================================================================
