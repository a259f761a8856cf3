--------------------------- MODULE StreamsProofs ----------------------------
(***************************************************************************)
(* Streams for any number of messages, deltas, calls, sweepers and page   *)
(* requests, any limits and any number of failures: the types, that the    *)
(* agents are told of a whole message once, that a finished one is final,  *)
(* that no answered word is lost silently, and that what the device has    *)
(* learnt is complete stays shown as it is stored.                         *)
(***************************************************************************)
EXTENDS Streams, SequenceTheorems, TLAPS

-----------------------------------------------------------------------------
(* Rows, calls and types.                                                  *)

\* A finishing call has a message in hand where it needs one, and what it
\* counts as ended is finished.
Sound(x) ==
  /\ x.stage \in {"read", "committed", "removed", "forget"} => x.msg \in Message
  /\ x.stage \in {"committed", "removed"} => Complete(x.msg)
  /\ \A m \in x.ended : Complete(m)

\* A buffer never has more than was accepted; only a finished message is
\* marked stopped.
Plain(m) ==
  /\ text[m] <= accepted[m]
  /\ row[m].stopped = TRUE => Complete(m)

Inv ==
  /\ TypeOK /\ ToldOnce
  /\ \A c \in Caller : Sound(call[c])
  /\ \A m \in Message : Plain(m)

\* A finished message stays as it is.
Final == \A m \in Message : Complete(m) => row'[m] = row[m]

\* Whole messages are numbered, and times are numbers.
LEMMA Numbers ==
  /\ MaxMessage \in Nat /\ MaxDelta \in Nat /\ TextMax \in Nat /\ MaxTime \in Nat \ {0}
  /\ Message \subseteq Nat /\ Message \subseteq 0..MaxMessage /\ 0 \notin Message
  /\ Time \subseteq Nat /\ Text \subseteq Nat /\ 0 \in Time /\ 0 \in Text
BY StreamsAssumption DEF StreamsAssumption, Message, Time, Text

\* A row made by MessageRow, field by field.
LEMMA RowFields ==
  ASSUME NEW s \in {"none", "streaming", "complete"}, NEW n \in 0..TextMax, NEW tr \in BOOLEAN,
         NEW st \in BOOLEAN, NEW t \in Time
  PROVE  /\ MessageRow(s, n, tr, st, t) \in RowType
         /\ MessageRow(s, n, tr, st, t).status = s /\ MessageRow(s, n, tr, st, t).body = n
         /\ MessageRow(s, n, tr, st, t).truncated = tr /\ MessageRow(s, n, tr, st, t).stopped = st
BY DEF MessageRow, RowType

\* The state of a call made by Call, field by field.
LEMMA CallFields ==
  ASSUME NEW s \in Stages, NEW ow \in SUBSET Text, NEW td \in SUBSET Message,
         NEW en \in SUBSET Message, NEW m \in 0..MaxMessage, NEW n \in Text
  PROVE  /\ Call(s, ow, td, en, m, n) \in CallType
         /\ Call(s, ow, td, en, m, n).stage = s /\ Call(s, ow, td, en, m, n).owed = ow
         /\ Call(s, ow, td, en, m, n).todo = td /\ Call(s, ow, td, en, m, n).ended = en
         /\ Call(s, ow, td, en, m, n).msg = m /\ Call(s, ow, td, en, m, n).text = n
BY DEF Call, CallType

\* What is on its way to the device.
FrameType == [msg: Message, state: {"streaming", "delta", "complete"}, words: Seq(Nat)]
FetchType == [stage: {"idle", "asked", "read"}, after: 0..MaxMessage, page: [Message -> ViewType]]

\* The message as a device shows it, field by field.
LEMMA ShownFields ==
  ASSUME NEW s \in {"none", "streaming", "complete"}, NEW w \in Seq(Nat)
  PROVE  Shown(s, w) \in ViewType /\ Shown(s, w).state = s /\ Shown(s, w).words = w
BY DEF Shown, ViewType

\* The words of a text are numbers in a row.
LEMMA WordsType ==
  ASSUME NEW n \in Nat
  PROVE  Words(n) \in Seq(Nat)
BY DEF Words

-----------------------------------------------------------------------------
(* Which steps touch what.                                                 *)

\* The steps of a start, of a delta and its buffer, of a call, and of the device.
StartSteps(m) == Create(m) \/ OpenStream(m) \/ AnnounceStarted(m) \/ StartFails(m)
DeltaSteps(m) == AppendStream(m) \/ Expire(m) \/ \E k \in unsaid[m] : AnnounceDelta(m, k)
CallSteps(c) ==
  \/ \E m \in Message : AgentFinishes(c, m)
  \/ PersonStops(c) \/ SweepStreams(c) \/ CallStep(c) \/ FinishFails(c) \/ CallDies(c)
DeviceSteps ==
  \/ Take \/ GoesOffline \/ CatchUp \/ CloseChat
  \/ \E g \in Fetch : Load(g) \/ ListMessages(g) \/ PageArrives(g) \/ PageFails(g)

\* Every step is one of these, or time passes, or nothing does.
LEMMA Groups ==
  ASSUME [Next]_vars
  PROVE  \/ \E m \in Message : StartSteps(m) \/ DeltaSteps(m)
         \/ \E c \in Caller : CallSteps(c)
         \/ DeviceSteps
         \/ Tick \/ UNCHANGED vars
BY DEF Next, StartSteps, DeltaSteps, CallSteps, DeviceSteps, StartStep, Caller

\* What a start touches.
LEMMA StartTouches ==
  ASSUME NEW m \in Message, StartSteps(m)
  PROVE  /\ UNCHANGED <<now, fanned, said, unsaid, accepted, lost, view, settled, fetch, reach>> /\ (NoFault \/ Fault)
         /\ Create(m) \/ UNCHANGED row
         /\ OpenStream(m) \/ UNCHANGED <<live, text, active>>
         /\ AnnounceStarted(m) \/ UNCHANGED wire
BY DEF StartSteps, Create, OpenStream, AnnounceStarted, StartFails, Publish, NoFault, buffer, device, screen, history

\* What a delta, or the end of its buffer, touches.
LEMMA DeltaTouches ==
  ASSUME NEW m \in Message, DeltaSteps(m)
  PROVE  /\ UNCHANGED <<now, row, fanned, said, starting, view, settled, fetch, reach>> /\ (NoFault \/ Fault)
         /\ AppendStream(m) \/ Expire(m) \/ UNCHANGED <<live, text, active, accepted, lost>>
         /\ AppendStream(m) \/ (\E k \in unsaid[m] : AnnounceDelta(m, k)) \/ UNCHANGED <<unsaid, accepted>>
         /\ (\E k \in unsaid[m] : AnnounceDelta(m, k)) \/ UNCHANGED wire
BY DEF DeltaSteps, AppendStream, Expire, AnnounceDelta, Gone, Publish, NoFault, buffer, device, screen, history

\* What a finishing call touches.
LEMMA CallTouches ==
  ASSUME NEW c \in Caller, CallSteps(c)
  PROVE  /\ UNCHANGED <<now, starting, unsaid, accepted, fetch, reach>> /\ (NoFault \/ Fault)
         /\ FinishMessage(c) \/ UNCHANGED <<row, fanned, said>>
         /\ RemoveBuffer(c) \/ Forget(c) \/ UNCHANGED <<live, text, active, lost>>
         /\ StopReturns(c) \/ UNCHANGED <<view, settled>>
         /\ AnnounceCompleted(c) \/ UNCHANGED wire
<1> DEFINE Goal == /\ UNCHANGED <<now, starting, unsaid, accepted, fetch, reach>> /\ (NoFault \/ Fault)
                   /\ FinishMessage(c) \/ UNCHANGED <<row, fanned, said>>
                   /\ RemoveBuffer(c) \/ Forget(c) \/ UNCHANGED <<live, text, active, lost>>
                   /\ StopReturns(c) \/ UNCHANGED <<view, settled>>
                   /\ AnnounceCompleted(c) \/ UNCHANGED wire
<1>1. ASSUME (\E m \in Message : AgentFinishes(c, m)) \/ PersonStops(c) \/ SweepStreams(c) PROVE Goal
  BY <1>1 DEF AgentFinishes, PersonStops, SweepStreams, NoFault, buffer, device, screen, history
<1>2. ASSUME FinishFails(c) \/ CallDies(c) \/ AlreadyFinished(c) PROVE Goal
  BY <1>2 DEF FinishFails, CallDies, AlreadyFinished, NoFault, buffer, device, screen, history
<1>3. ASSUME (\E m \in Message : ReadText(c, m)) \/ FinishMessage(c) PROVE Goal
  BY <1>3 DEF ReadText, FinishMessage, NoFault, buffer, device, screen, history
<1>4. ASSUME RemoveBuffer(c) \/ Forget(c) PROVE Goal
  BY <1>4 DEF RemoveBuffer, Forget, Removed, Gone, NoFault, buffer, device, screen, history
<1>5. ASSUME AnnounceCompleted(c) \/ StopReturns(c) PROVE Goal
  BY <1>5 DEF AnnounceCompleted, StopReturns, Publish, NoFault, buffer, screen, history
<1> QED BY <1>1, <1>2, <1>3, <1>4, <1>5 DEF CallSteps, CallStep

\* What a step of the device touches.
LEMMA DeviceTouches ==
  ASSUME DeviceSteps
  PROVE  /\ UNCHANGED <<now, row, fanned, said, starting, live, text, active, accepted, lost, unsaid, faults>>
         /\ Take \/ (\E g \in Fetch : PageArrives(g)) \/ UNCHANGED <<view, settled>>
         /\ Take \/ GoesOffline \/ UNCHANGED wire
         /\ online' \in {online, TRUE, FALSE} /\ open' \in {open, TRUE, FALSE} /\ (opens' = opens \/ Opens)
<1> DEFINE Goal == /\ UNCHANGED <<now, row, fanned, said, starting, live, text, active, accepted, lost, unsaid, faults>>
                   /\ Take \/ (\E g \in Fetch : PageArrives(g)) \/ UNCHANGED <<view, settled>>
                   /\ Take \/ GoesOffline \/ UNCHANGED wire
                   /\ online' \in {online, TRUE, FALSE} /\ open' \in {open, TRUE, FALSE} /\ (opens' = opens \/ Opens)
<1>1. ASSUME Take \/ GoesOffline PROVE Goal
  BY <1>1 DEF Take, GoesOffline, buffer, screen, reach, history
<1>2. ASSUME CatchUp \/ CloseChat PROVE Goal
  BY <1>2 DEF CatchUp, CloseChat, buffer, screen, reach, history
<1>3. ASSUME NEW g \in Fetch, Load(g) \/ ListMessages(g) PROVE Goal
  BY <1>3 DEF Load, ListMessages, buffer, screen, reach, history
<1>4. ASSUME NEW g \in Fetch, PageArrives(g) \/ PageFails(g) PROVE Goal
  BY <1>4 DEF PageArrives, PageFails, buffer, screen, reach, history
<1> QED BY <1>1, <1>2, <1>3, <1>4 DEF DeviceSteps

\* Only Create and FinishMessage write the row; only FinishMessage tells.
LEMMA RowCases ==
  ASSUME [Next]_vars
  PROVE  \/ \E m \in Message : Create(m)
         \/ \E c \in Caller : FinishMessage(c)
         \/ UNCHANGED <<row, fanned, said>>
BY Groups, StartTouches, DeltaTouches, CallTouches, DeviceTouches DEF Tick, vars, history

\* Creating a message, and the rest of StartStream, write how far it has come.
LEMMA StartingCases ==
  ASSUME [Next]_vars
  PROVE  \/ \E m \in Message : Create(m) \/ OpenStream(m) \/ AnnounceStarted(m) \/ StartFails(m)
         \/ UNCHANGED starting
BY Groups, StartTouches, DeltaTouches, CallTouches, DeviceTouches DEF StartSteps, Tick, vars

\* The buffer is opened, added to, or gone.
LEMMA BufferCases ==
  ASSUME [Next]_vars
  PROVE  \/ \E m \in Message : OpenStream(m) \/ AppendStream(m) \/ Expire(m)
         \/ \E c \in Caller : RemoveBuffer(c) \/ Forget(c)
         \/ UNCHANGED <<live, text, active, accepted, lost>>
BY Groups, StartTouches, DeltaTouches, CallTouches, DeviceTouches DEF Tick, vars, buffer, history

\* Deltas wait for their frame.
LEMMA UnsaidCases ==
  ASSUME [Next]_vars
  PROVE  \/ \E m \in Message : AppendStream(m) \/ \E k \in unsaid[m] : AnnounceDelta(m, k)
         \/ UNCHANGED <<unsaid, accepted>>
BY Groups, StartTouches, DeltaTouches, CallTouches, DeviceTouches DEF Tick, vars, history

\* What the finishing calls do.
LEMMA CallCases ==
  ASSUME [Next]_vars
  PROVE  \/ \E c \in AgentCall, m \in Message : AgentFinishes(c, m)
         \/ \E c \in StopCall : PersonStops(c)
         \/ \E c \in Sweeper : SweepStreams(c)
         \/ \E c \in Caller : CallStep(c) \/ FinishFails(c) \/ CallDies(c)
         \/ UNCHANGED call
BY DEF Next, vars, buffer, screen, reach, device, history, Removed, Gone, StartStep, Create, OpenStream,
       AnnounceStarted, StartFails, AppendStream,
       AnnounceDelta, Expire, GoesOffline, CatchUp, CloseChat, Load, ListMessages, PageArrives, PageFails,
       Take, Tick

\* What the device shows, and what it has learnt.
LEMMA ScreenCases ==
  ASSUME [Next]_vars
  PROVE  \/ Take \/ (\E g \in Fetch : PageArrives(g)) \/ (\E c \in Caller : StopReturns(c))
         \/ UNCHANGED <<view, settled>>
BY Groups, StartTouches, DeltaTouches, CallTouches, DeviceTouches DEF Tick, vars, device, screen

\* Frames are published, taken, or lost with the socket.
LEMMA WireCases ==
  ASSUME [Next]_vars
  PROVE  \/ \E m \in Message : AnnounceStarted(m) \/ \E k \in unsaid[m] : AnnounceDelta(m, k)
         \/ \E c \in Caller : AnnounceCompleted(c)
         \/ Take \/ GoesOffline
         \/ UNCHANGED wire
BY Groups, StartTouches, DeltaTouches, CallTouches, DeviceTouches DEF Tick, vars, device

\* Pages are asked for, read and taken, or their answers do not matter.
LEMMA FetchCases ==
  ASSUME [Next]_vars
  PROVE  \/ CatchUp \/ CloseChat
         \/ \E g \in Fetch : Load(g) \/ ListMessages(g) \/ PageArrives(g) \/ PageFails(g)
         \/ UNCHANGED fetch
BY Groups, StartTouches, DeltaTouches, CallTouches, DeviceTouches DEF DeviceSteps, Take, GoesOffline, Tick, vars, device

\* The clock, the socket and the number of failures.
LEMMA SmallStep ==
  ASSUME TypeOK, [Next]_vars
  PROVE  now' \in Time /\ online' \in BOOLEAN /\ open' \in BOOLEAN /\ opens' \in 0..MaxOpens /\ faults' \in 0..MaxFaults
<1>1. now' = now \/ Tick
  BY Groups, StartTouches, DeltaTouches, CallTouches, DeviceTouches DEF vars
<1>2. (online' = online \/ online' \in BOOLEAN) /\ (open' = open \/ open' \in BOOLEAN) /\ (opens' = opens \/ Opens)
  BY Groups, StartTouches, DeltaTouches, CallTouches, DeviceTouches DEF Tick, vars, device, reach
<1>3. NoFault \/ Fault
  BY Groups, StartTouches, DeltaTouches, CallTouches, DeviceTouches DEF Tick, vars, NoFault
<1>4. MaxFaults \in Nat /\ MaxTime \in Nat /\ MaxOpens \in Nat
  BY StreamsAssumption DEF StreamsAssumption
<1>5. now' \in Time
  BY <1>1, <1>4 DEF TypeOK, Tick, Time
<1>6. online' \in BOOLEAN /\ open' \in BOOLEAN /\ opens' \in 0..MaxOpens
  BY <1>2, <1>4 DEF TypeOK, Opens
<1>7. faults' \in 0..MaxFaults
  BY <1>3, <1>4 DEF TypeOK, Fault, NoFault
<1> QED BY <1>5, <1>6, <1>7

-----------------------------------------------------------------------------
(* Rows.                                                                   *)

\* A text that is kept is at most as long as a message may be.
LEMMA ClampedType ==
  ASSUME NEW n \in Text
  PROVE  Clamped(n) \in 0..TextMax /\ (n <= TextMax => Clamped(n) = n)
BY Numbers DEF Clamped

\* A message becomes complete once, is told with that, and is final after.
LEMMA RowStep ==
  ASSUME Inv, [Next]_vars
  PROVE  /\ row' \in [Message -> RowType] /\ fanned' \in [Message -> Nat]
         /\ Final /\ ToldOnce' /\ \A m \in Message : row'[m].stopped = TRUE => row'[m].status = "complete"
<1>0. /\ row \in [Message -> RowType] /\ fanned \in [Message -> Nat] /\ now \in Time /\ call \in [Caller -> CallType]
      /\ \A m \in Message : row[m].stopped = TRUE => row[m].status = "complete"
      /\ \A m \in Message : fanned[m] = IF row[m].status = "complete" THEN 1 ELSE 0
  BY DEF Inv, TypeOK, Plain, ToldOnce, Complete
<1>1. ASSUME NEW m \in Message, Create(m)
      PROVE  /\ row' \in [Message -> RowType] /\ fanned' \in [Message -> Nat]
             /\ Final /\ ToldOnce' /\ \A l \in Message : row'[l].stopped = TRUE => row'[l].status = "complete"
  <2> DEFINE new == MessageRow("streaming", 0, FALSE, FALSE, now)
  <2>0. 0 \in 0..TextMax /\ "streaming" \in {"none", "streaming", "complete"} /\ FALSE \in BOOLEAN
    BY Numbers
  <2>1. new \in RowType /\ new.status = "streaming" /\ new.stopped = FALSE
    BY <1>0, <2>0 DEF MessageRow, RowType
  <2>2. row' = [row EXCEPT ![m] = new] /\ UNCHANGED fanned /\ row[m].status = "none"
    BY <1>1 DEF Create, Exists
  <2> HIDE DEF new
  <2> QED BY <1>0, <2>1, <2>2 DEF Final, ToldOnce, Complete
<1>2. ASSUME NEW c \in Caller, FinishMessage(c)
      PROVE  /\ row' \in [Message -> RowType] /\ fanned' \in [Message -> Nat]
             /\ Final /\ ToldOnce' /\ \A l \in Message : row'[l].stopped = TRUE => row'[l].status = "complete"
  <2> DEFINE m == call[c].msg
             n == call[c].text
             tr == Truncated(c, n)
             st == c \in StopCall
             new == MessageRow("complete", Clamped(n), tr, st, row[m].at)
  <2>1. m \in Message /\ n \in Text
    BY <1>0, <1>2 DEF Inv, Sound, FinishMessage, CallType
  <2>2. Clamped(n) \in 0..TextMax
    BY <2>1, ClampedType
  <2>3. tr \in BOOLEAN /\ st \in BOOLEAN
    BY DEF Truncated
  <2>4. row[m].at \in Time
    BY <1>0, <2>1 DEF RowType
  <2>5. /\ row' = [row EXCEPT ![m] = new] /\ fanned' = [fanned EXCEPT ![m] = fanned[m] + 1]
        /\ row[m].status = "streaming"
    BY <1>2 DEF FinishMessage, Streaming
  <2>6. new \in RowType /\ new.status = "complete"
    <3> HIDE DEF tr, st, n, m
    <3> QED BY <2>2, <2>3, <2>4, RowFields
  <2> HIDE DEF new, m, n
  <2> QED BY <1>0, <2>1, <2>5, <2>6 DEF Final, ToldOnce, Complete
<1>3. CASE UNCHANGED <<row, fanned, said>>
  BY <1>0, <1>3 DEF Final, ToldOnce, Complete, Inv
<1> QED BY <1>1, <1>2, <1>3, RowCases

-----------------------------------------------------------------------------
(* Calls.                                                                  *)

\* Finished messages stay finished.
LEMMA StaysComplete ==
  ASSUME Final, NEW m \in Message, Complete(m)
  PROVE  Complete(m)'
BY DEF Final, Complete

\* Sound, of the next state.
SoundThen(x) ==
  /\ x.stage \in {"read", "committed", "removed", "forget"} => x.msg \in Message
  /\ x.stage \in {"committed", "removed"} => row'[x.msg].status = "complete"
  /\ \A m \in x.ended : row'[m].status = "complete"

\* What a call relies on is not taken from it.
LEMMA SoundStays ==
  ASSUME Final, NEW x \in CallType, Sound(x)
  PROVE  SoundThen(x)
BY DEF Final, Sound, SoundThen, Complete, CallType

\* One call goes on.
LEMMA OneCall ==
  ASSUME Inv, Final, NEW c \in Caller, NEW y \in CallType, SoundThen(y), call' = [call EXCEPT ![c] = y]
  PROVE  call' \in [Caller -> CallType] /\ \A d \in Caller : Sound(call[d])'
<1>1. call \in [Caller -> CallType] /\ \A d \in Caller : Sound(call[d])
  BY DEF Inv, TypeOK
<1>2. ASSUME NEW d \in Caller
      PROVE  SoundThen(call'[d])
  <2>1. CASE d = c
    BY <1>1, <2>1
  <2>2. CASE d # c
    <3>1. call'[d] = call[d] /\ call[d] \in CallType /\ Sound(call[d])
      BY <1>1, <2>2
    <3> QED BY <3>1, SoundStays
  <2> QED BY <2>1, <2>2
<1>3. \A d \in Caller : Sound(call[d])'
  BY <1>2 DEF Sound, SoundThen, Complete
<1> QED BY <1>1, <1>3

\* The call that has nothing to do.
LEMMA NoCallType ==
  /\ NoCall \in CallType /\ NoCall.stage = "idle" /\ NoCall.ended = {} /\ NoCall.todo = {} /\ NoCall.owed = {}
<1>1. "idle" \in Stages /\ 0 \in 0..MaxMessage /\ 0 \in Text /\ {} \in SUBSET Message
  BY Numbers DEF Stages
<1> QED BY <1>1 DEF NoCall, Call, CallType

\* Where Resume leads.
After(x, c, en) ==
  IF x.todo # {} THEN Call("next", x.owed, x.todo, en, 0, 0)
  ELSE IF c \in StopCall THEN Call("return", x.owed, {}, en, 0, 0)
  ELSE NoCall

\* A call that is done with a message goes on to the next, answers or ends.
LEMMA AfterType ==
  ASSUME NEW x \in CallType, NEW c, NEW en \in SUBSET Message
  PROVE  /\ After(x, c, en) \in CallType /\ After(x, c, en).stage \in {"next", "return", "idle"}
         /\ After(x, c, en).ended \subseteq en /\ After(x, c, en).todo \subseteq x.todo
         /\ After(x, c, en).owed \subseteq x.owed
<1>1. {"next", "return"} \subseteq Stages /\ 0 \in 0..MaxMessage /\ 0 \in Text /\ {} \in SUBSET Message
  BY Numbers DEF Stages
<1>2. x.owed \in SUBSET Text /\ x.todo \in SUBSET Message
  BY DEF CallType
<1>3. CASE x.todo # {}
  <2> DEFINE y == Call("next", x.owed, x.todo, en, 0, 0)
  <2>1. y \in CallType /\ y.stage = "next" /\ y.ended = en /\ y.todo = x.todo /\ y.owed = x.owed
    BY <1>1, <1>2, CallFields
  <2>2. After(x, c, en) = y
    BY <1>3 DEF After
  <2> HIDE DEF y
  <2> QED BY <2>1, <2>2
<1>4. CASE x.todo = {} /\ c \in StopCall
  <2> DEFINE y == Call("return", x.owed, {}, en, 0, 0)
  <2>1. y \in CallType /\ y.stage = "return" /\ y.ended = en /\ y.todo = {} /\ y.owed = x.owed
    BY <1>1, <1>2, CallFields
  <2>2. After(x, c, en) = y
    BY <1>4 DEF After
  <2> HIDE DEF y
  <2> QED BY <1>4, <2>1, <2>2
<1>5. CASE x.todo = {} /\ c \notin StopCall
  BY <1>5, NoCallType DEF After
<1> QED BY <1>3, <1>4, <1>5

\* A call that Resume moves on.
LEMMA Resumes ==
  ASSUME Inv, Final, NEW c \in Caller, NEW en \in SUBSET Message, \A m \in en : row'[m].status = "complete",
         Resume(c, en)
  PROVE  call' \in [Caller -> CallType] /\ \A d \in Caller : Sound(call[d])'
<1> DEFINE y == After(call[c], c, en)
<1>1. call[c] \in CallType
  BY DEF Inv, TypeOK
<1>2. /\ y \in CallType /\ y.stage \in {"next", "return", "idle"} /\ y.ended \subseteq en
  BY <1>1, AfterType
<1>3. call' = [call EXCEPT ![c] = y]
  BY DEF Resume, After
<1> HIDE DEF y
<1>4. SoundThen(y)
  BY <1>2 DEF SoundThen
<1> QED BY <1>2, <1>3, <1>4, OneCall

\* Every listing names messages.
LEMMA Listed ==
  /\ {m \in Message : Streaming(m)} \in SUBSET Message
  /\ \A A \in Oldest(Idle, SweepLimit, active) : A \in SUBSET Message
  /\ \A B \in Oldest(Stale, SweepLimit, [m \in Message |-> row[m].at]) : B \in SUBSET Message
BY DEF Oldest, Idle, Stale

\* What the backend has been answered is its start or deltas it sent.
LEMMA AnsweredType ==
  ASSUME TypeOK, NEW m \in Message
  PROVE  /\ Answered(m) \in SUBSET Text /\ Answered(m) \cap unsaid[m] = {}
         /\ \A k \in Answered(m) : k <= accepted[m]
         /\ 0 \in Answered(m) => starting[m] = "done"
<1>1. accepted[m] \in 0..MaxDelta /\ MaxDelta \in Nat /\ unsaid[m] \subseteq 1..MaxDelta
  BY Numbers DEF TypeOK, Text
<1> QED BY <1>1 DEF Answered, Text

\* A call begins.
LEMMA Begins ==
  ASSUME Inv, Final, NEW c \in Caller, NEW S \in SUBSET Message, NEW ow \in SUBSET Text, Begin(c, S, ow)
  PROVE  call' \in [Caller -> CallType] /\ \A d \in Caller : Sound(call[d])'
<1> DEFINE y == Call("next", ow, S, {}, 0, 0)
<1>1. "next" \in Stages /\ 0 \in 0..MaxMessage /\ 0 \in Text /\ {} \in SUBSET Message
  BY Numbers DEF Stages
<1>2. y \in CallType /\ y.stage = "next" /\ y.ended = {}
  BY <1>1, CallFields
<1>3. call' = [call EXCEPT ![c] = y]
  BY DEF Begin
<1> HIDE DEF y
<1>4. SoundThen(y)
  BY <1>2 DEF SoundThen
<1> QED BY <1>2, <1>3, <1>4, OneCall

\* A call goes to its next stage with a message in hand.
LEMMA Goes ==
  ASSUME Inv, Final, NEW c \in Caller, NEW s \in {"read", "committed", "removed", "forget"}, NEW td \in SUBSET Message,
         NEW m \in Message, NEW n \in Text, s \in {"committed", "removed"} => row'[m].status = "complete",
         call' = [call EXCEPT ![c] = Call(s, call[c].owed, td, call[c].ended, m, n)]
  PROVE  call' \in [Caller -> CallType] /\ \A d \in Caller : Sound(call[d])'
<1> DEFINE y == Call(s, call[c].owed, td, call[c].ended, m, n)
<1>1. /\ s \in Stages /\ m \in 0..MaxMessage /\ call[c].owed \in SUBSET Text /\ call[c].ended \in SUBSET Message
      /\ \A l \in call[c].ended : Complete(l)
  BY Numbers DEF Stages, Inv, TypeOK, CallType, Sound
<1>2. y \in CallType /\ y.stage = s /\ y.ended = call[c].ended /\ y.msg = m
  BY <1>1 DEF Call, CallType
<1>3. call' = [call EXCEPT ![c] = y]
  OBVIOUS
<1> HIDE DEF y
<1>4. SoundThen(y)
  BY <1>1, <1>2 DEF SoundThen, Final, Complete
<1> QED BY <1>2, <1>3, <1>4, OneCall

\* Every step leaves every call sound.
LEMMA CallsStep ==
  ASSUME Inv, [Next]_vars
  PROVE  call' \in [Caller -> CallType] /\ \A d \in Caller : Sound(call[d])'
<1> DEFINE Goal == call' \in [Caller -> CallType] /\ \A d \in Caller : Sound(call[d])'
<1>0. Final
  BY RowStep
<1>1. ASSUME NEW c \in AgentCall, NEW m \in Message, AgentFinishes(c, m)
      PROVE  Goal
  <2>1. c \in Caller /\ {m} \in SUBSET Message /\ Begin(c, {m}, Answered(m))
    BY <1>1 DEF AgentFinishes, Caller
  <2>2. Answered(m) \in SUBSET Text
    BY AnsweredType DEF Inv
  <2> QED BY <1>0, <2>1, <2>2, Begins
<1>2. ASSUME NEW c \in StopCall, PersonStops(c)
      PROVE  Goal
  <2>1. c \in Caller /\ Begin(c, {m \in Message : Streaming(m)}, {})
    BY <1>2 DEF PersonStops, Caller
  <2> QED BY <1>0, <2>1, Begins, Listed
<1>3. ASSUME NEW c \in Sweeper, SweepStreams(c)
      PROVE  Goal
  <2>1. PICK A \in Oldest(Idle, SweepLimit, active), B \in Oldest(Stale, SweepLimit, [m \in Message |-> row[m].at]) :
           Begin(c, A \cup B, {})
    BY <1>3 DEF SweepStreams
  <2>2. A \cup B \in SUBSET Message
    BY <2>1, Listed
  <2>3. c \in Caller
    BY DEF Caller
  <2> QED BY <1>0, <2>1, <2>2, <2>3, Begins
<1>4. ASSUME NEW c \in Caller, CallStep(c) \/ FinishFails(c) \/ CallDies(c)
      PROVE  Goal
  <2>0. call[c] \in CallType /\ Sound(call[c])
    BY DEF Inv, TypeOK
  <2>9. call[c].todo \in SUBSET Message /\ call[c].ended \in SUBSET Message /\ call[c].text \in Text
    BY <2>0 DEF CallType
  <2>1. ASSUME NEW m \in Message, ReadText(c, m)
        PROVE  Goal
    <3> DEFINE n == IF live[m] THEN text[m] ELSE 0
               td == call[c].todo \ {m}
    <3>1. n \in Text /\ td \in SUBSET Message
      BY <2>9, Numbers DEF Inv, TypeOK
    <3>2. call' = [call EXCEPT ![c] = Call("read", call[c].owed, td, call[c].ended, m, n)]
      BY <2>1 DEF ReadText
    <3> HIDE DEF n, td
    <3> QED BY <1>0, <3>1, <3>2, Goes
  <2>2. CASE FinishMessage(c)
    <3> DEFINE m == call[c].msg
               n == call[c].text
               td == call[c].todo
    <3>1. m \in Message
      BY <2>0, <2>2 DEF FinishMessage, Sound
    <3>2. row'[m].status = "complete"
      BY <2>2, <3>1 DEF FinishMessage, MessageRow, Inv, TypeOK
    <3>3. call' = [call EXCEPT ![c] = Call("committed", call[c].owed, td, call[c].ended, m, n)]
      BY <2>2 DEF FinishMessage
    <3>4. n \in Text /\ td \in SUBSET Message
      BY <2>9
    <3> HIDE DEF m, n, td
    <3> QED BY <1>0, <3>1, <3>2, <3>3, <3>4, Goes
  <2>3. CASE AlreadyFinished(c)
    <3> DEFINE m == call[c].msg
               en == IF row[m].stopped THEN call[c].ended \cup {m} ELSE call[c].ended
    <3>1. m \in Message /\ Resume(c, en) /\ UNCHANGED row
      BY <2>0, <2>3 DEF AlreadyFinished, Sound
    <3>2. en \in SUBSET Message /\ \A l \in en : row'[l].status = "complete"
      BY <2>0, <2>9, <3>1 DEF Inv, Plain, Sound, Complete
    <3> HIDE DEF en
    <3> QED BY <1>0, <3>1, <3>2, Resumes
  <2>4. CASE RemoveBuffer(c)
    <3>1. call[c].msg \in Message /\ Complete(call[c].msg) /\ UNCHANGED row
      BY <2>0, <2>4 DEF RemoveBuffer, Sound
    <3>2. call' = [call EXCEPT ![c] = Call("removed", call[c].owed, call[c].todo, call[c].ended, call[c].msg, call[c].text)]
      BY <2>4 DEF RemoveBuffer
    <3> QED BY <1>0, <2>9, <3>1, <3>2, Goes DEF Complete
  <2>5. CASE Forget(c)
    <3>1. Resume(c, call[c].ended) /\ UNCHANGED row
      BY <2>5 DEF Forget
    <3> QED BY <1>0, <2>0, <2>9, <3>1, Resumes DEF Sound, Complete
  <2>6. CASE AnnounceCompleted(c)
    <3> DEFINE en == call[c].ended \cup {call[c].msg}
    <3>1. Resume(c, en) /\ UNCHANGED row
      BY <2>6 DEF AnnounceCompleted
    <3>2. en \in SUBSET Message /\ \A l \in en : row'[l].status = "complete"
      BY <2>0, <2>6, <2>9, <3>1 DEF AnnounceCompleted, Sound, Complete
    <3> HIDE DEF en
    <3> QED BY <1>0, <3>1, <3>2, Resumes
  <2>7. CASE call' = [call EXCEPT ![c] = NoCall]
    BY <1>0, <2>7, NoCallType, OneCall DEF SoundThen
  <2>8. CASE FinishFails(c) /\ call' # [call EXCEPT ![c] = NoCall]
    <3>1. call' = [call EXCEPT ![c] = Call("forget", call[c].owed, call[c].todo, call[c].ended, call[c].msg, 0)]
      BY <2>8 DEF FinishFails
    <3>2. call[c].msg \in Message /\ 0 \in Text
      BY <2>0, <2>8, Numbers DEF FinishFails, Sound
    <3> QED BY <1>0, <2>9, <3>1, <3>2, Goes
  <2> QED BY <1>4, <2>1, <2>2, <2>3, <2>4, <2>5, <2>6, <2>7, <2>8 DEF CallStep, StopReturns, CallDies
<1>5. CASE UNCHANGED call
  <2>1. call \in [Caller -> CallType] /\ \A d \in Caller : Sound(call[d])
    BY DEF Inv, TypeOK
  <2>2. \A d \in Caller : SoundThen(call[d])
    BY <1>0, <2>1, SoundStays
  <2> QED BY <1>5, <2>1, <2>2 DEF SoundThen, Sound, Complete
<1> QED BY <1>1, <1>2, <1>3, <1>4, <1>5, CallCases

-----------------------------------------------------------------------------
(* The start, the buffer, the frames and the device.                       *)

\* StartStream keeps to its stages.
LEMMA StartingStep ==
  ASSUME TypeOK, [Next]_vars
  PROVE  starting' \in [Message -> {"no", "created", "opened", "done"}]
<1>1. starting \in [Message -> {"no", "created", "opened", "done"}]
  BY DEF TypeOK
<1> QED BY <1>1, StartingCases DEF Create, OpenStream, AnnounceStarted, StartFails

\* The buffer and what it took.
LEMMA BufferStep ==
  ASSUME Inv, [Next]_vars
  PROVE  /\ live' \in [Message -> BOOLEAN] /\ text' \in [Message -> Text] /\ active' \in [Message -> Time]
         /\ accepted' \in [Message -> Text] /\ lost' \in SUBSET Message
         /\ \A m \in Message : text'[m] <= accepted'[m]
<1> DEFINE Goal == /\ live' \in [Message -> BOOLEAN] /\ text' \in [Message -> Text] /\ active' \in [Message -> Time]
                   /\ accepted' \in [Message -> Text] /\ lost' \in SUBSET Message
                   /\ \A m \in Message : text'[m] <= accepted'[m]
<1>0. /\ live \in [Message -> BOOLEAN] /\ text \in [Message -> Text] /\ active \in [Message -> Time]
      /\ accepted \in [Message -> Text] /\ lost \in SUBSET Message /\ \A m \in Message : text[m] <= accepted[m]
      /\ now \in Time /\ 0 \in Time /\ MaxDelta \in Nat
      /\ \A n \in Text : 0 \in Text /\ 0 <= n /\ n \in Nat /\ n <= MaxDelta /\ (n < MaxDelta => n + 1 \in Text)
  BY Numbers DEF Inv, TypeOK, Plain, Text
<1>1. ASSUME NEW m \in Message, OpenStream(m)
      PROVE  Goal
  BY <1>0, <1>1 DEF OpenStream, history
<1>2. ASSUME NEW m \in Message, AppendStream(m)
      PROVE  Goal
  <2>1. accepted[m] \in Text /\ text[m] \in Text /\ text[m] <= accepted[m] /\ accepted[m] < MaxDelta
    BY <1>0, <1>2 DEF AppendStream
  <2>2. text[m] \in Nat /\ accepted[m] \in Nat
    BY <1>0, <2>1
  <2>3. text[m] + 1 \in Text /\ accepted[m] + 1 \in Text /\ text[m] + 1 <= accepted[m] + 1
    BY <1>0, <2>1, <2>2
  <2>4. /\ text' = [text EXCEPT ![m] = text[m] + 1] /\ accepted' = [accepted EXCEPT ![m] = accepted[m] + 1]
        /\ active' = [active EXCEPT ![m] = now] /\ live' = live /\ lost' = lost
    BY <1>2 DEF AppendStream
  <2>5. \A l \in Message : text'[l] <= accepted'[l]
    BY <1>0, <2>3, <2>4
  <2> QED BY <1>0, <2>3, <2>4, <2>5
<1>3. ASSUME NEW m \in Message, Gone(m), active' = active \/ active' = [active EXCEPT ![m] = 0]
      PROVE  Goal
  <2>1. \A l \in Message : text'[l] <= accepted'[l]
    BY <1>0, <1>3 DEF Gone
  <2> QED BY <1>0, <1>3, <2>1 DEF Gone
<1>4. ASSUME NEW m \in Message, Expire(m)
      PROVE  Goal
  BY <1>3, <1>4 DEF Expire
<1>5. CASE UNCHANGED <<live, text, active, accepted, lost>>
  BY <1>0, <1>5
<1>6. ASSUME NEW c \in Caller, RemoveBuffer(c) \/ Forget(c)
      PROVE  Goal
  <2>1. call[c].msg \in Message
    BY <1>6 DEF RemoveBuffer, Forget, Inv, Sound
  <2>2. Removed(call[c].msg) => Gone(call[c].msg) /\ active' = [active EXCEPT ![call[c].msg] = 0]
    BY DEF Removed
  <2>3. Removed(call[c].msg) \/ UNCHANGED <<live, text, active, accepted, lost>>
    BY <1>6 DEF RemoveBuffer, Forget, buffer, history
  <2> QED BY <1>3, <1>5, <2>1, <2>2, <2>3
<1> QED BY <1>1, <1>2, <1>4, <1>5, <1>6, BufferCases

\* The deltas that wait for their frame were accepted.
LEMMA UnsaidStep ==
  ASSUME TypeOK, [Next]_vars
  PROVE  unsaid' \in [Message -> SUBSET (1..MaxDelta)]
<1>0. unsaid \in [Message -> SUBSET (1..MaxDelta)] /\ accepted \in [Message -> Text]
  BY DEF TypeOK
<1>1. ASSUME NEW m \in Message, AppendStream(m)
      PROVE  accepted[m] + 1 \in 1..MaxDelta
  BY <1>0, <1>1, Numbers DEF AppendStream, Text
<1>2. ASSUME NEW m \in Message, AppendStream(m)
      PROVE  unsaid' \in [Message -> SUBSET (1..MaxDelta)]
  BY <1>0, <1>1, <1>2 DEF AppendStream
<1>3. ASSUME NEW m \in Message, NEW k \in unsaid[m], AnnounceDelta(m, k)
      PROVE  unsaid' \in [Message -> SUBSET (1..MaxDelta)]
  BY <1>0, <1>3 DEF AnnounceDelta
<1> QED BY <1>0, <1>2, <1>3, UnsaidCases

\* The words of a message are a number of words, and so are a buffer's.
LEMMA BodyType ==
  ASSUME TypeOK, NEW m \in Message
  PROVE  row[m].body \in 0..TextMax /\ row[m].body \in Nat /\ text[m] \in Nat /\ accepted[m] \in Nat
<1>1. row[m] \in RowType /\ text[m] \in Text /\ accepted[m] \in Text
  BY DEF TypeOK
<1>2. row[m].body \in 0..TextMax
  BY <1>1 DEF RowType
<1>3. TextMax \in Nat /\ Text \subseteq Nat
  BY Numbers
<1>4. row[m].body \in Nat
  BY <1>2, <1>3
<1> QED BY <1>1, <1>2, <1>3, <1>4

\* What the hub gives of a message has a state and words.
LEMMA FromHubType ==
  ASSUME TypeOK, NEW m \in Message
  PROVE  /\ FromHub(m) \in ViewType
         /\ FromHub(m).state = "complete" => Complete(m)
         /\ Complete(m) => FromHub(m) = Shown("complete", Words(row[m].body))
<1>1. row[m].body \in Nat /\ text[m] \in Nat
  BY BodyType DEF TypeOK
<1>2. CASE Complete(m)
  BY <1>1, <1>2, WordsType DEF FromHub, Shown, ViewType
<1>3. CASE ~Complete(m)
  <2> DEFINE n == IF live[m] THEN text[m] ELSE 0
  <2>1. n \in Nat
    BY <1>1
  <2>2. FromHub(m) = Shown("streaming", Words(n))
    BY <1>3 DEF FromHub
  <2> HIDE DEF n
  <2>3. Words(n) \in Seq(Nat)
    BY <2>1, WordsType
  <2> QED BY <1>3, <2>2, <2>3 DEF Shown, ViewType
<1> QED BY <1>2, <1>3

\* A message nobody has seen, and a request nobody has made.
LEMMA NoRequestType ==
  /\ Unseen \in ViewType /\ NoPage \in [Message -> ViewType]
  /\ NoRequest \in FetchType /\ NoRequest.stage = "idle"
<1>1. Unseen \in ViewType
  BY DEF Unseen, Shown, ViewType
<1>2. NoPage \in [Message -> ViewType]
  BY <1>1 DEF NoPage
<1> QED BY <1>1, <1>2, Numbers DEF NoRequest, Request, FetchType

\* What was said of a message is set once, when it is finished.
LEMMA SaidStep ==
  ASSUME Inv, [Next]_vars
  PROVE  /\ said' \in [Message -> SUBSET Text]
         /\ \A m \in Message : Complete(m) => said'[m] = said[m]
         /\ \A m \in Message : ~Complete(m) /\ row'[m].status = "complete" => said'[m] = Answered(m)
<1>0. TypeOK /\ said \in [Message -> SUBSET Text] /\ row \in [Message -> RowType]
  BY DEF Inv, TypeOK
<1>1. ASSUME NEW l \in Message, Create(l)
      PROVE  said' = said /\ \A m \in Message : ~Complete(m) => row'[m].status # "complete"
  BY <1>0, <1>1 DEF Create, history, MessageRow, Complete
<1>2. ASSUME NEW c \in Caller, FinishMessage(c)
      PROVE  /\ call[c].msg \in Message /\ ~Complete(call[c].msg)
             /\ said' = [said EXCEPT ![call[c].msg] = Answered(call[c].msg)]
             /\ \A m \in Message : m # call[c].msg => row'[m] = row[m]
  BY <1>0, <1>2 DEF FinishMessage, Inv, Sound, Complete, Streaming
<1>3. ASSUME NEW c \in Caller, FinishMessage(c)
      PROVE  Answered(call[c].msg) \in SUBSET Text
  BY <1>0, <1>2, <1>3, AnsweredType
<1>4. ASSUME NEW c \in Caller, FinishMessage(c)
      PROVE  /\ said' \in [Message -> SUBSET Text]
             /\ \A m \in Message : Complete(m) => said'[m] = said[m]
             /\ \A m \in Message : ~Complete(m) /\ row'[m].status = "complete" => said'[m] = Answered(m)
  BY <1>0, <1>2, <1>3, <1>4 DEF Complete
<1>5. CASE UNCHANGED <<row, fanned, said>>
  BY <1>0, <1>5 DEF Complete
<1> QED BY <1>0, <1>1, <1>4, <1>5, RowCases

\* A published frame is put behind the others, or does not set out.
LEMMA Published ==
  ASSUME NEW f, Publish(f)
  PROVE  wire' = Append(wire, f) \/ wire' = wire
BY DEF Publish

\* The frames that are published.
LEMMA Frames ==
  ASSUME Inv
  PROVE  /\ \A m \in Message : Frame(m, "streaming", <<>>) \in FrameType
         /\ \A m \in Message, k \in Nat : Frame(m, "delta", <<k>>) \in FrameType
         /\ \A m \in Message : Frame(m, "complete", Words(row[m].body)) \in FrameType
         /\ \A m \in Message : \A k \in unsaid[m] : k \in Nat
<1>0. TypeOK
  BY DEF Inv
<1>1. \A m \in Message : row[m].body \in Nat
  BY <1>0, BodyType
<1>2. \A m \in Message : Words(row[m].body) \in Seq(Nat)
  BY <1>1, WordsType
<1>3. \A m \in Message : \A k \in unsaid[m] : k \in Nat
  BY <1>0, Numbers DEF TypeOK
<1>4. <<>> \in Seq(Nat) /\ \A k \in Nat : <<k>> \in Seq(Nat)
  OBVIOUS
<1> QED BY <1>2, <1>3, <1>4 DEF Frame, FrameType

\* Frames on their way stay frames.
LEMMA WireStep ==
  ASSUME Inv, [Next]_vars
  PROVE  wire' \in Seq(FrameType)
<1>0. wire \in Seq(FrameType)
  BY DEF Inv, TypeOK, FrameType
<1>1. ASSUME NEW f \in FrameType, Publish(f)
      PROVE  wire' \in Seq(FrameType)
  BY <1>0, <1>1, Published, AppendProperties
<1>2. ASSUME NEW m \in Message, AnnounceStarted(m)
      PROVE  wire' \in Seq(FrameType)
  BY <1>1, <1>2, Frames DEF AnnounceStarted
<1>3. ASSUME NEW m \in Message, NEW k \in unsaid[m], AnnounceDelta(m, k)
      PROVE  wire' \in Seq(FrameType)
  BY <1>1, <1>3, Frames DEF AnnounceDelta
<1>4. ASSUME NEW c \in Caller, AnnounceCompleted(c)
      PROVE  wire' \in Seq(FrameType)
  <2>1. call[c].msg \in Message
    BY <1>4 DEF AnnounceCompleted, Inv, Sound
  <2> QED BY <1>1, <1>4, <2>1, Frames DEF AnnounceCompleted
<1>5. CASE Take
  BY <1>0, <1>5, HeadTailProperties DEF Take
<1>6. CASE GoesOffline
  BY <1>6 DEF GoesOffline
<1> QED BY <1>0, <1>2, <1>3, <1>4, <1>5, <1>6, WireCases

\* One request goes on.
LEMMA OneFetch ==
  ASSUME TypeOK, NEW g \in Fetch, NEW q \in FetchType, fetch' = [fetch EXCEPT ![g] = q]
  PROVE  fetch' \in [Fetch -> FetchType]
BY DEF TypeOK, FetchType

\* The page the hub reads.
PageOf(a) == [m \in Message |-> IF Exists(m) /\ a < m THEN FromHub(m) ELSE Unseen]
LEMMA PageType ==
  ASSUME TypeOK, NEW a
  PROVE  PageOf(a) \in [Message -> ViewType]
BY FromHubType, NoRequestType DEF PageOf

\* What a request is by its fields.
LEMMA RequestFields ==
  ASSUME NEW s \in {"idle", "asked", "read"}, NEW a \in 0..MaxMessage, NEW p \in [Message -> ViewType]
  PROVE  /\ Request(s, a, p) \in FetchType /\ Request(s, a, p).stage = s
         /\ Request(s, a, p).after = a /\ Request(s, a, p).page = p
BY DEF Request, FetchType

\* What each step does to a request, one by one.
LEMMA FetchMoves ==
  ASSUME TypeOK, [Next]_vars
  PROVE  /\ fetch' \in [Fetch -> FetchType]
         /\ \A g \in Fetch :
              \/ fetch'[g] = fetch[g]
              \/ fetch'[g].stage # "read"
              \/ fetch'[g] = Request("read", fetch[g].after, PageOf(fetch[g].after))
<1> DEFINE Goal == /\ fetch' \in [Fetch -> FetchType]
                   /\ \A g \in Fetch :
                        \/ fetch'[g] = fetch[g]
                        \/ fetch'[g].stage # "read"
                        \/ fetch'[g] = Request("read", fetch[g].after, PageOf(fetch[g].after))
<1>0. fetch \in [Fetch -> FetchType]
  BY DEF TypeOK, FetchType
<1>1. ASSUME NEW g \in Fetch, NEW a \in 0..MaxMessage, Asks(g, a)
      PROVE  Goal
  <2>1. Request("asked", a, NoPage) \in FetchType /\ Request("asked", a, NoPage).stage = "asked"
    BY NoRequestType, RequestFields
  <2>2. fetch' = [fetch EXCEPT ![g] = Request("asked", a, NoPage)]
    BY <1>1 DEF Asks
  <2> QED BY <1>0, <2>1, <2>2
<1>2. ASSUME NEW g \in Fetch, ListMessages(g)
      PROVE  Goal
  <2>0. fetch[g].after \in 0..MaxMessage
    BY <1>0 DEF FetchType
  <2>1. Request("read", fetch[g].after, PageOf(fetch[g].after)) \in FetchType
    BY <2>0, PageType, RequestFields
  <2>2. fetch' = [fetch EXCEPT ![g] = Request("read", fetch[g].after, PageOf(fetch[g].after))]
    BY <1>2 DEF ListMessages, PageOf
  <2> QED BY <1>0, <2>1, <2>2
<1>3. ASSUME NEW g \in Fetch, fetch' = [fetch EXCEPT ![g] = NoRequest]
      PROVE  Goal
  BY <1>0, <1>3, NoRequestType
<1>4. CASE CloseChat
  BY <1>4, NoRequestType DEF CloseChat
<1>5. CASE CatchUp
  BY <1>0, <1>1, <1>5 DEF CatchUp
<1>6. CASE UNCHANGED fetch
  BY <1>0, <1>6
<1>7. ASSUME NEW g \in Fetch, Load(g)
      PROVE  Goal
  BY <1>1, <1>7, Numbers DEF Load
<1> QED BY <1>2, <1>3, <1>4, <1>5, <1>6, <1>7, FetchCases DEF PageArrives, PageFails

\* A delta is added to what is shown.
LEMMA Added ==
  ASSUME NEW v \in ViewType, NEW f \in FrameType
  PROVE  Shown(v.state, v.words \o f.words) \in ViewType
<1>1. v.words \in Seq(Nat) /\ f.words \in Seq(Nat) /\ v.state \in {"none", "streaming", "complete"}
  BY DEF ViewType, FrameType
<1>2. v.words \o f.words \in Seq(Nat)
  BY <1>1, ConcatProperties
<1> QED BY <1>1, <1>2, ShownFields

\* How a frame changes what is shown.
Applied(v, f) ==
  IF f.state # "delta" THEN Shown(f.state, f.words)
  ELSE IF v.state # "none" THEN Shown(v.state, v.words \o f.words)
  ELSE v
LEMMA AppliedType ==
  ASSUME NEW v \in ViewType, NEW f \in FrameType
  PROVE  Applied(v, f) \in ViewType
<1>1. f.state # "delta" => Shown(f.state, f.words) \in ViewType
  BY ShownFields DEF FrameType
<1> QED BY <1>1, Added DEF Applied

\* The first frame, and that the others stay in order.
LEMMA Taken ==
  ASSUME Inv, Take
  PROVE  /\ wire[1] \in FrameType /\ Len(wire) \in Nat \ {0} /\ Len(wire') = Len(wire) - 1
         /\ \A i \in 1..Len(wire') : wire'[i] = wire[i + 1] /\ i + 1 \in 1..Len(wire)
         /\ view' = IF ~open THEN view ELSE [view EXCEPT ![wire[1].msg] = Applied(view[wire[1].msg], wire[1])]
         /\ settled' = IF open /\ wire[1].state = "complete" /\ \A g \in Fetch : ~Behind(g, wire[1].msg)
                       THEN settled \cup {wire[1].msg} ELSE settled
<1>0. wire \in Seq(FrameType) /\ wire # <<>> /\ wire' = Tail(wire)
  BY DEF Inv, TypeOK, FrameType, Take
<1>1. Head(wire) = wire[1] /\ Len(wire) \in Nat \ {0} /\ Len(Tail(wire)) = Len(wire) - 1
  BY <1>0
<1>2. \A i \in 1..Len(wire') : wire'[i] = wire[i + 1] /\ i + 1 \in 1..Len(wire)
  BY <1>0, <1>1
<1>3. wire[1] \in FrameType
  BY <1>0, <1>1
<1>4. /\ view' = IF ~open THEN view ELSE [view EXCEPT ![wire[1].msg] = Applied(view[wire[1].msg], wire[1])]
      /\ settled' = IF open /\ wire[1].state = "complete" /\ \A g \in Fetch : ~Behind(g, wire[1].msg)
                    THEN settled \cup {wire[1].msg} ELSE settled
  BY <1>1 DEF Take, Applied
<1> QED BY <1>0, <1>1, <1>2, <1>3, <1>4

\* The screen shows messages, and what it has learnt is about messages.
LEMMA ScreenStep ==
  ASSUME Inv, [Next]_vars
  PROVE  view' \in [Message -> ViewType] /\ settled' \in SUBSET Message
<1>0. /\ view \in [Message -> ViewType] /\ settled \in SUBSET Message /\ fetch \in [Fetch -> FetchType] /\ TypeOK
  BY DEF Inv, TypeOK, FetchType
<1>1. CASE Take
  <2>1. wire[1].msg \in Message
    BY <1>1, Taken DEF FrameType
  <2>2. Applied(view[wire[1].msg], wire[1]) \in ViewType
    BY <1>0, <1>1, <2>1, Taken, AppliedType
  <2> QED BY <1>0, <1>1, <2>1, <2>2, Taken
<1>2. ASSUME NEW g \in Fetch, PageArrives(g)
      PROVE  view' \in [Message -> ViewType] /\ settled' \in SUBSET Message
  <2>1. \A m \in Message : fetch[g].page[m] \in ViewType
    BY <1>0 DEF FetchType
  <2> QED BY <1>0, <1>2, <2>1 DEF PageArrives
<1>3. ASSUME NEW c \in Caller, StopReturns(c)
      PROVE  view' \in [Message -> ViewType] /\ settled' \in SUBSET Message
  <2>1. \A m \in Message : row[m].body \in Nat
    BY <1>0, BodyType
  <2>2. \A m \in Message : Shown("complete", Words(row[m].body)) \in ViewType
    BY <2>1, WordsType, ShownFields
  <2>3. call[c].ended \subseteq Message
    BY <1>0 DEF TypeOK, CallType
  <2> QED BY <1>0, <1>3, <2>2, <2>3 DEF StopReturns, screen
<1> QED BY <1>0, <1>1, <1>2, <1>3, ScreenCases

-----------------------------------------------------------------------------
(* The first theorems.                                                     *)

\* At the start there is no message and no call.
LEMMA InitInv ==
  ASSUME Init
  PROVE  Inv
<1>1. TypeOK
  <2>1. /\ row \in [Message -> RowType] /\ call \in [Caller -> CallType] /\ now \in Time
        /\ view \in [Message -> ViewType] /\ faults \in 0..MaxFaults /\ opens \in 0..MaxOpens
    BY Numbers, NoCallType, StreamsAssumption
       DEF Init, NoRow, MessageRow, RowType, Unseen, Shown, ViewType, StreamsAssumption, Time
  <2>2. fetch \in [Fetch -> FetchType] /\ wire \in Seq(FrameType)
    BY NoRequestType DEF Init
  <2> QED BY <2>1, <2>2, Numbers DEF TypeOK, Init, FetchType, FrameType
<1>2. ToldOnce /\ \A m \in Message : Plain(m)
  BY DEF Init, ToldOnce, Plain, Complete, NoRow, MessageRow, Unseen, Shown
<1>3. \A c \in Caller : Sound(call[c])
  BY NoCallType DEF Init, Sound
<1> QED BY <1>1, <1>2, <1>3 DEF Inv

\* Every step preserves the invariant.
LEMMA InvStep ==
  ASSUME Inv, [Next]_vars
  PROVE  Inv'
<1>1. TypeOK'
  BY RowStep, CallsStep, StartingStep, BufferStep, UnsaidStep, SaidStep, ScreenStep, WireStep, FetchMoves,
     SmallStep DEF Inv, TypeOK, FrameType, FetchType
<1> QED BY <1>1, RowStep, CallsStep, BufferStep DEF Inv, Plain, Complete

\* The inductive invariant of every run always holds.
THEOREM AlwaysInv == Spec => []Inv
<1>1. Init => Inv
  BY InitInv
<1>2. Inv /\ [Next]_vars => Inv'
  BY InvStep
<1> QED BY <1>1, <1>2, PTL DEF Spec

\* Every variable keeps its type, whatever fails.
THEOREM TypeCorrect == Spec => []TypeOK
<1>1. Inv => TypeOK
  BY DEF Inv
<1> QED BY <1>1, AlwaysInv, PTL

\* However many finishes, stops and sweeps race for a message and whatever
\* fails, the other agents are told of the whole of it exactly once.
THEOREM TellsOnce == Spec => []ToldOnce
<1>1. Inv => ToldOnce
  BY DEF Inv
<1> QED BY <1>1, AlwaysInv, PTL

\* No late finish, stop or sweep changes a finished message.
THEOREM FinishesFinal == Spec => FinishedFinal
<1>1. Inv /\ [Next]_vars => [\A m \in Message : Complete(m) => row'[m] = row[m]]_vars
  BY RowStep DEF Final
<1> QED BY <1>1, AlwaysInv, PTL DEF Spec, FinishedFinal

-----------------------------------------------------------------------------
(* No answered word is lost silently.                                      *)

\* The buffer of a message in progress has every word accepted for it, from the
\* time it is opened until it is lost.
Buffered(m) ==
  /\ starting[m] = "no" <=> row[m].status = "none"
  /\ starting[m] \in {"no", "created"} => accepted[m] = 0 /\ live[m] = FALSE
  /\ live[m] = TRUE => text[m] = accepted[m]
  /\ row[m].status = "streaming" /\ m \notin lost /\ accepted[m] # 0 => live[m] = TRUE

\* A finish reads every word that was answered before it was called.
Owing(x) ==
  /\ \A m \in x.todo : row[m].status # "none" /\ \A k \in x.owed : k <= accepted[m]
  /\ x.stage = "read" =>
       /\ row[x.msg].status # "none"
       /\ row[x.msg].status = "streaming" /\ x.msg \notin lost => \A k \in x.owed : k <= x.text

WordsInv ==
  /\ Inv
  /\ \A m \in Message : Buffered(m)
  /\ \A c \in AgentCall : Owing(call[c])

\* A buffer goes.
LEMMA BufferGone ==
  ASSUME WordsInv, NEW l \in Message, Gone(l), UNCHANGED <<row, starting>>, NEW m \in Message
  PROVE  Buffered(m)'
<1>1. /\ live \in [Message -> BOOLEAN] /\ text \in [Message -> Text] /\ Buffered(m)
  BY DEF WordsInv, Inv, TypeOK
<1>2. /\ live' = [live EXCEPT ![l] = FALSE] /\ text' = [text EXCEPT ![l] = 0] /\ accepted' = accepted
      /\ lost' = IF row[l].status = "streaming" THEN lost \cup {l} ELSE lost
  BY DEF Gone, Streaming
<1>3. CASE l = m
  BY <1>1, <1>2, <1>3 DEF Buffered
<1>4. CASE l # m
  BY <1>1, <1>2, <1>4 DEF Buffered
<1> QED BY <1>3, <1>4

\* What FinishMessage makes of the rows.
LEMMA Finished ==
  ASSUME Inv, NEW c \in Caller, FinishMessage(c)
  PROVE  /\ call[c].msg \in Message /\ row[call[c].msg].status = "streaming" /\ call[c].text \in Text
         /\ row'[call[c].msg].status = "complete"
         /\ row'[call[c].msg].body = Clamped(call[c].text)
         /\ row'[call[c].msg].truncated = Truncated(c, call[c].text)
         /\ \A m \in Message : m # call[c].msg => row'[m] = row[m]
<1> DEFINE m == call[c].msg
           n == call[c].text
           new == MessageRow("complete", Clamped(n), Truncated(c, n), c \in StopCall, row[m].at)
<1>1. m \in Message /\ row[m].status = "streaming" /\ n \in Text /\ row \in [Message -> RowType]
  BY DEF FinishMessage, Inv, TypeOK, Sound, CallType, Streaming
<1>2. row' = [row EXCEPT ![m] = new]
  BY DEF FinishMessage
<1>3. new.status = "complete" /\ new.body = Clamped(n)
  BY DEF MessageRow
<1>4. new.truncated = Truncated(c, n)
  BY DEF MessageRow
<1> HIDE DEF m, n, new
<1>5. row'[m] = new /\ \A l \in Message : l # m => row'[l] = row[l]
  BY <1>1, <1>2
<1> QED BY <1>1, <1>3, <1>4, <1>5 DEF m, n

\* Steps that leave the row, the start, the buffer and the words alone.
StillBuffered == UNCHANGED <<row, starting, live, text, accepted, lost>>

\* The buffer holds what was accepted after every step.
LEMMA BufferedStep ==
  ASSUME WordsInv, [Next]_vars
  PROVE  \A m \in Message : Buffered(m)'
<1> SUFFICES ASSUME NEW m \in Message PROVE Buffered(m)'
  OBVIOUS
<1>0. /\ row \in [Message -> RowType] /\ starting \in [Message -> {"no", "created", "opened", "done"}]
      /\ live \in [Message -> BOOLEAN] /\ text \in [Message -> Text] /\ accepted \in [Message -> Text]
      /\ Buffered(m) /\ Inv
  BY DEF WordsInv, Inv, TypeOK
<1>1. ASSUME NEW l \in Message, Create(l)
      PROVE  Buffered(m)'
  <2>1. CASE l = m
    <3>1. /\ row'[m].status = "streaming" /\ starting'[m] = "created" /\ row[m].status = "none"
          /\ accepted' = accepted /\ live' = live /\ text' = text
      BY <1>0, <1>1, <2>1 DEF Create, MessageRow, Exists, buffer, history
    <3> QED BY <1>0, <3>1 DEF Buffered
  <2>2. CASE l # m
    BY <1>0, <1>1, <2>2 DEF Create, Buffered, buffer, history
  <2> QED BY <2>1, <2>2
<1>2. ASSUME NEW l \in Message, OpenStream(l)
      PROVE  Buffered(m)'
  BY <1>0, <1>2 DEF OpenStream, Buffered, history
<1>3. ASSUME NEW l \in Message, AnnounceStarted(l) \/ StartFails(l)
      PROVE  Buffered(m)'
  BY <1>0, <1>3 DEF AnnounceStarted, StartFails, Buffered, buffer, history
<1>4. ASSUME NEW l \in Message, AppendStream(l)
      PROVE  Buffered(m)'
  <2>1. CASE l = m
    <3>1. /\ live[m] = TRUE /\ text'[m] = text[m] + 1 /\ accepted'[m] = accepted[m] + 1
          /\ live' = live /\ starting' = starting /\ row' = row
      BY <1>0, <1>4, <2>1 DEF AppendStream
    <3> QED BY <1>0, <3>1 DEF Buffered
  <2>2. CASE l # m
    BY <1>0, <1>4, <2>2 DEF AppendStream, Buffered
  <2> QED BY <2>1, <2>2
<1>5. ASSUME NEW l \in Message, Expire(l)
      PROVE  Buffered(m)'
  BY <1>5, BufferGone DEF Expire
<1>6. ASSUME NEW c \in Caller, FinishMessage(c)
      PROVE  Buffered(m)'
  <2>1. row'[m] = row[m] \/ (row'[m].status = "complete" /\ row[m].status = "streaming")
    BY <1>0, <1>6, Finished
  <2> QED BY <1>0, <1>6, <2>1 DEF FinishMessage, Buffered, buffer
<1>7. ASSUME NEW c \in Caller, RemoveBuffer(c) \/ Forget(c)
      PROVE  Buffered(m)'
  <2>1. call[c].msg \in Message /\ UNCHANGED <<row, starting>>
    BY <1>0, <1>7 DEF RemoveBuffer, Forget, Inv, Sound
  <2>2. Gone(call[c].msg) \/ StillBuffered
    BY <1>7 DEF RemoveBuffer, Forget, Removed, StillBuffered, buffer, history
  <2>3. CASE StillBuffered
    BY <1>0, <2>3 DEF StillBuffered, Buffered
  <2> QED BY <2>1, <2>2, <2>3, BufferGone
<1>8. CASE StillBuffered
  BY <1>0, <1>8 DEF StillBuffered, Buffered
<1>9. \/ StillBuffered
      \/ \E l \in Message : Create(l) \/ OpenStream(l) \/ AnnounceStarted(l) \/ StartFails(l) \/ AppendStream(l) \/ Expire(l)
      \/ \E c \in Caller : FinishMessage(c) \/ RemoveBuffer(c) \/ Forget(c)
  BY RowCases, StartingCases, BufferCases DEF StillBuffered
<1> QED BY <1>1, <1>2, <1>3, <1>4, <1>5, <1>6, <1>7, <1>8, <1>9

\* How a finishing call moves without reading a text.
MovesOn(d) ==
  call'[d].stage # "read" /\ call'[d].todo \subseteq call[d].todo /\ call'[d].owed \subseteq call[d].owed

\* Every step leaves a call of the backend alone, begins it, has it read a text
\* or moves it on.
LEMMA CallMoves ==
  ASSUME Inv, [Next]_vars, NEW d \in AgentCall
  PROVE  \/ call'[d] = call[d]
         \/ \E m \in Message : AgentFinishes(d, m)
         \/ \E m \in Message : ReadText(d, m)
         \/ MovesOn(d)
<1> DEFINE Goal == \/ call'[d] = call[d]
                   \/ \E m \in Message : AgentFinishes(d, m)
                   \/ \E m \in Message : ReadText(d, m)
                   \/ MovesOn(d)
<1>0. call \in [Caller -> CallType] /\ d \in Caller /\ call[d] \in CallType /\ d \notin StopCall /\ d \notin Sweeper
  BY StreamsAssumption DEF Inv, TypeOK, Caller, StreamsAssumption
<1>1. ASSUME NEW c \in Caller, NEW y, call' = [call EXCEPT ![c] = y], c # d
      PROVE  Goal
  BY <1>0, <1>1
<1>2. ASSUME NEW c \in AgentCall, NEW m \in Message, AgentFinishes(c, m)
      PROVE  Goal
  <2>1. c \in Caller /\ \E y : call' = [call EXCEPT ![c] = y]
    BY <1>2 DEF AgentFinishes, Begin, Caller
  <2> QED BY <1>1, <1>2, <2>1
<1>3. ASSUME NEW c \in StopCall \cup Sweeper, NEW S, Begin(c, S, {})
      PROVE  Goal
  <2>1. c \in Caller /\ c # d
    BY <1>0 DEF Caller
  <2>2. \E y : call' = [call EXCEPT ![c] = y]
    BY <1>3 DEF Begin
  <2> QED BY <1>1, <2>1, <2>2
<1>4. ASSUME NEW c \in Caller, CallStep(c) \/ FinishFails(c) \/ CallDies(c)
      PROVE  Goal
  <2>1. \E y : call' = [call EXCEPT ![c] = y]
    BY <1>4 DEF CallStep, ReadText, FinishMessage, AlreadyFinished, RemoveBuffer, Forget, AnnounceCompleted,
                StopReturns, Resume, FinishFails, CallDies
  <2>2. CASE c = d
    <3>1. CASE \E m \in Message : ReadText(d, m)
      BY <3>1
    <3>2. CASE FinishMessage(d)
      BY <1>0, <3>2 DEF FinishMessage, MovesOn, Call
    <3>3. CASE RemoveBuffer(d)
      BY <1>0, <3>3 DEF RemoveBuffer, MovesOn, Call
    <3>4. CASE call' = [call EXCEPT ![d] = NoCall]
      BY <1>0, <3>4, NoCallType DEF MovesOn
    <3>5. ASSUME NEW en \in SUBSET Message, Resume(d, en)
          PROVE  Goal
      <4>1. call'[d] = After(call[d], d, en)
        BY <1>0, <3>5 DEF Resume, After
      <4> QED BY <1>0, <4>1, AfterType DEF MovesOn
    <3>6. call[d].ended \in SUBSET Message
      BY <1>0 DEF CallType
    <3>7. CASE AlreadyFinished(d)
      <4>1. call[d].msg \in Message
        BY <1>0, <3>7 DEF AlreadyFinished, Inv, Sound
      <4> DEFINE en == IF row[call[d].msg].stopped THEN call[d].ended \cup {call[d].msg} ELSE call[d].ended
      <4>2. en \in SUBSET Message /\ Resume(d, en)
        BY <3>6, <3>7, <4>1 DEF AlreadyFinished
      <4> HIDE DEF en
      <4> QED BY <3>5, <4>2
    <3>8. CASE AnnounceCompleted(d)
      <4>1. call[d].msg \in Message /\ Resume(d, call[d].ended \cup {call[d].msg})
        BY <1>0, <3>8 DEF AnnounceCompleted, Inv, Sound
      <4> QED BY <3>5, <3>6, <4>1
    <3>9. CASE Forget(d)
      BY <3>5, <3>6, <3>9 DEF Forget
    <3> QED BY <1>0, <1>4, <2>2, <3>1, <3>2, <3>3, <3>4, <3>7, <3>8, <3>9 DEF CallStep, StopReturns, FinishFails, CallDies
  <2> QED BY <1>1, <2>1, <2>2
<1>5. ASSUME NEW c \in StopCall, PersonStops(c)
      PROVE  Goal
  BY <1>3, <1>5 DEF PersonStops
<1>6. ASSUME NEW c \in Sweeper, SweepStreams(c)
      PROVE  Goal
  BY <1>3, <1>6 DEF SweepStreams
<1> QED BY <1>2, <1>4, <1>5, <1>6, CallCases

\* A message that is there stays, words are only added, and what is lost is lost.
LEMMA Onward ==
  ASSUME Inv, [Next]_vars, NEW m \in Message
  PROVE  /\ row[m].status # "none" => row'[m].status # "none"
         /\ row[m].status # "none" /\ row'[m].status = "streaming" => row[m].status = "streaming"
         /\ accepted[m] \in Nat /\ accepted'[m] \in Nat /\ accepted[m] <= accepted'[m]
         /\ m \in lost => m \in lost'
<1>0. row \in [Message -> RowType] /\ accepted \in [Message -> Text] /\ accepted' \in [Message -> Text]
  BY BufferStep DEF Inv, TypeOK
<1>1. ASSUME NEW l \in Message, Create(l), row[m].status # "none"
      PROVE  row'[m] = row[m]
  BY <1>0, <1>1 DEF Create, Exists
<1>2. ASSUME NEW d \in Caller, FinishMessage(d)
      PROVE  row'[m] = row[m] \/ row'[m].status = "complete"
  BY <1>2, Finished
<1>3. row[m].status # "none" => row'[m] = row[m] \/ row'[m].status = "complete"
  BY <1>1, <1>2, RowCases
<1>4. accepted[m] \in Nat /\ accepted'[m] \in Nat
  BY <1>0, Numbers
<1>5. accepted'[m] = accepted[m] \/ accepted'[m] = accepted[m] + 1
  <2>1. ASSUME NEW l \in Message, AppendStream(l)
        PROVE  accepted'[m] = accepted[m] \/ accepted'[m] = accepted[m] + 1
    BY <1>0, <2>1 DEF AppendStream
  <2>2. ASSUME NEW l \in Message, NEW k \in unsaid[l], AnnounceDelta(l, k)
        PROVE  accepted'[m] = accepted[m]
    BY <2>2 DEF AnnounceDelta, history
  <2> QED BY <2>1, <2>2, UnsaidCases
<1>6. accepted[m] <= accepted'[m]
  BY <1>4, <1>5
<1>7. m \in lost => m \in lost'
  <2>1. \A l : Gone(l) => lost \subseteq lost'
    BY DEF Gone
  <2> QED BY <2>1, BufferCases DEF OpenStream, AppendStream, Expire, RemoveBuffer, Forget, Removed, history
<1> QED BY <1>3, <1>4, <1>6, <1>7

\* What a finish owes, it has when it has read the text.
LEMMA OwingStep ==
  ASSUME WordsInv, [Next]_vars, NEW c \in AgentCall
  PROVE  Owing(call[c])'
<1>0. /\ c \in Caller /\ call \in [Caller -> CallType] /\ call[c] \in CallType /\ Inv /\ TypeOK /\ Owing(call[c])
      /\ call[c].todo \subseteq Message /\ call[c].owed \subseteq Nat /\ call[c].text \in Nat
  BY Numbers DEF WordsInv, Inv, TypeOK, Caller, CallType
<1>1. ASSUME call'[c].todo \subseteq call[c].todo, call'[c].owed \subseteq call[c].owed
      PROVE  \A m \in call'[c].todo : row'[m].status # "none" /\ \A k \in call'[c].owed : k <= accepted'[m]
  <2> SUFFICES ASSUME NEW m \in call'[c].todo
               PROVE  row'[m].status # "none" /\ \A k \in call'[c].owed : k <= accepted'[m]
    OBVIOUS
  <2>1. m \in Message /\ row[m].status # "none" /\ \A k \in call[c].owed : k <= accepted[m] /\ k \in Nat
    BY <1>0, <1>1 DEF Owing
  <2>2. row'[m].status # "none" /\ accepted[m] \in Nat /\ accepted'[m] \in Nat /\ accepted[m] <= accepted'[m]
    BY <1>0, <2>1, Onward
  <2>3. \A k \in call'[c].owed : k \in Nat /\ k <= accepted[m]
    BY <1>1, <2>1
  <2> QED BY <2>2, <2>3
<1>2. CASE call'[c] = call[c]
  <2>1. ASSUME call[c].stage = "read"
        PROVE  /\ row'[call[c].msg].status # "none"
               /\ row'[call[c].msg].status = "streaming" /\ call[c].msg \notin lost' =>
                    \A k \in call[c].owed : k <= call[c].text
    <3>1. call[c].msg \in Message
      BY <1>0, <2>1 DEF Inv, Sound
    <3> QED BY <1>0, <2>1, <3>1, Onward DEF Owing
  <2> QED BY <1>1, <1>2, <2>1 DEF Owing
<1>3. CASE MovesOn(c)
  BY <1>1, <1>3 DEF MovesOn, Owing
<1>4. ASSUME NEW m \in Message, AgentFinishes(c, m)
      PROVE  Owing(call[c])'
  <2>1. call'[c] = Call("next", Answered(m), {m}, {}, 0, 0) /\ row[m].status # "none" /\ row' = row /\ accepted' = accepted
    BY <1>0, <1>4 DEF AgentFinishes, Begin, Exists, history
  <2>2. call'[c].stage = "next" /\ call'[c].owed = Answered(m) /\ call'[c].todo = {m}
    BY <2>1 DEF Call
  <2>3. \A k \in Answered(m) : k <= accepted[m]
    BY <1>0, AnsweredType
  <2> QED BY <2>1, <2>2, <2>3 DEF Owing
<1>5. ASSUME NEW m \in Message, ReadText(c, m)
      PROVE  Owing(call[c])'
  <2> DEFINE n == IF live[m] THEN text[m] ELSE 0
  <2>1. /\ m \in call[c].todo /\ UNCHANGED <<row, accepted, lost>>
        /\ call'[c] = Call("read", call[c].owed, call[c].todo \ {m}, call[c].ended, m, n)
    BY <1>0, <1>5 DEF ReadText, history
  <2>2. call'[c].todo = call[c].todo \ {m} /\ call'[c].msg = m /\ call'[c].text = n /\ call'[c].owed = call[c].owed
    BY <2>1 DEF Call
  <2>3. row[m].status # "none" /\ \A k \in call[c].owed : k <= accepted[m]
    BY <1>0, <2>1 DEF Owing
  <2>4. row[m].status = "streaming" /\ m \notin lost => n = accepted[m]
    <3>1. Buffered(m) /\ live[m] \in BOOLEAN
      BY DEF WordsInv, Inv, TypeOK
    <3> QED BY <3>1 DEF Buffered
  <2> HIDE DEF n
  <2>5. \A l \in call'[c].todo : row'[l].status # "none" /\ \A k \in call'[c].owed : k <= accepted'[l]
    BY <1>1, <2>2
  <2> QED BY <2>1, <2>2, <2>3, <2>4, <2>5 DEF Owing
<1> QED BY <1>0, <1>2, <1>3, <1>4, <1>5, CallMoves

\* The invariant behind whole words always holds.
THEOREM AlwaysWords == Spec => []WordsInv
<1>1. Init => WordsInv
  <2> SUFFICES ASSUME Init PROVE WordsInv
    OBVIOUS
  <2>1. Inv
    BY InitInv
  <2>2. \A m \in Message : Buffered(m)
    BY DEF Init, Buffered, NoRow, MessageRow
  <2>3. \A c \in AgentCall : c \in Caller
    BY DEF Caller
  <2>4. \A c \in AgentCall : Owing(call[c])
    BY <2>3, NoCallType DEF Init, Owing
  <2> QED BY <2>1, <2>2, <2>4 DEF WordsInv
<1>2. WordsInv /\ [Next]_vars => WordsInv'
  <2> SUFFICES ASSUME WordsInv, [Next]_vars PROVE WordsInv'
    OBVIOUS
  <2>1. Inv'
    BY InvStep DEF WordsInv
  <2> QED BY <2>1, BufferedStep, OwingStep DEF WordsInv
<1> QED BY <1>1, <1>2, PTL DEF Spec

\* No word is lost silently, however impatient the backend and whatever fails:
\* a message finished and not marked truncated has every word that was answered
\* before the finish, unless the hub lost its buffer while it was streaming.
THEOREM WordsWhole == Spec => WholeUnlessTruncated
<1>1. ASSUME WordsInv, [Next]_vars, NEW m \in Message, Streaming(m), row'[m].status = "complete", ~row'[m].truncated,
             m \notin lost
      PROVE  \E c \in AgentCall : /\ call[c].msg = m /\ call[c] # call'[c]
                                  /\ \A k \in call[c].owed : k <= row'[m].body
  <2>0. Inv /\ row \in [Message -> RowType] /\ call \in [Caller -> CallType] /\ row[m].status = "streaming"
    BY <1>1 DEF WordsInv, Inv, TypeOK, Streaming
  <2>1. ASSUME NEW l \in Message, Create(l)
        PROVE  row'[m].status = "streaming"
    BY <2>0, <2>1 DEF Create, MessageRow
  <2>2. PICK c \in Caller : FinishMessage(c)
    BY <1>1, <2>0, <2>1, RowCases
  <2>3. m = call[c].msg /\ call[c].text \in Text
    BY <1>1, <2>0, <2>2, Finished
  <2>4. ~Truncated(c, call[c].text)
    BY <1>1, <2>0, <2>2, <2>3, Finished
  <2>5. c \in AgentCall /\ ~(call[c].text > TextMax)
    BY <2>4, Zenon DEF Truncated
  <2>6. call[c].text <= TextMax
    <3>1. call[c].text \in Nat /\ TextMax \in Nat
      BY <2>3, Numbers
    <3> QED BY <2>5, <3>1
  <2>7. row'[m].body = call[c].text
    BY <2>0, <2>2, <2>3, <2>6, ClampedType, Finished
  <2>8. call[c].stage = "read" /\ call'[c].stage = "committed"
    BY <2>0, <2>2 DEF FinishMessage, Call
  <2>9. \A k \in call[c].owed : k <= call[c].text
    BY <1>1, <2>0, <2>3, <2>5, <2>8 DEF WordsInv, Owing
  <2> QED BY <2>3, <2>5, <2>7, <2>8, <2>9
<1>2. WordsInv /\ [Next]_vars =>
        [\A m \in Message : (Streaming(m) /\ row'[m].status = "complete" /\ ~row'[m].truncated) =>
           \/ m \in lost
           \/ \E c \in AgentCall : /\ call[c].msg = m /\ call[c] # call'[c]
                                   /\ \A k \in call[c].owed : k <= row'[m].body]_vars
  BY <1>1
<1> QED BY <1>2, AlwaysWords, PTL DEF Spec, WholeUnlessTruncated


-----------------------------------------------------------------------------
(* What the device shows of a finished message.                            *)

\* A frame that may come after a message was learnt complete: the message as it
\* is stored, or a word the backend had not been answered.
LateFor(b, S, f) ==
  \/ f.state = "complete" /\ f.words = Words(b)
  \/ f.state = "delta" /\ \E k \in Nat : k \notin S /\ f.words = <<k>>

\* The message is shown as it is stored, late words behind it.
WholeFor(b, S, v) ==
  /\ v.state = "complete" /\ b <= Len(v.words)
  /\ \A i \in 1..Len(v.words) : IF i <= b THEN v.words[i] = i ELSE v.words[i] \notin S

\* What was said of a finished message stays said.
SaidOK(m) ==
  Complete(m) => /\ said[m] \cap unsaid[m] = {}
                 /\ \A k \in said[m] : k <= accepted[m]
                 /\ 0 \in said[m] => starting[m] = "done"

\* A frame that is about to set out.
NewFrame(f) ==
  /\ f.state = "complete" => Complete(f.msg) /\ f.words = Words(row[f.msg].body)
  /\ Complete(f.msg) /\ 0 \in said[f.msg] => LateFor(row[f.msg].body, said[f.msg], f)

\* Behind a completed frame only late frames of its message travel.
WireOK ==
  \A i \in 1..Len(wire) : wire[i].state = "complete" =>
    /\ Complete(wire[i].msg) /\ wire[i].words = Words(row[wire[i].msg].body)
    /\ 0 \in said[wire[i].msg] =>
         \A j \in i..Len(wire) : wire[j].msg = wire[i].msg =>
           LateFor(row[wire[i].msg].body, said[wire[i].msg], wire[j])

\* What a page says is complete, it has as it is stored.
PagesOK ==
  \A g \in Fetch, m \in Message : fetch[g].stage = "read" /\ fetch[g].page[m].state = "complete" =>
    Complete(m) /\ fetch[g].page[m] = Shown("complete", Words(row[m].body))

\* What the device learnt of a message is not undone by what is on its way.
Rests(m) ==
  /\ Complete(m)
  /\ 0 \in said[m] =>
       /\ \A i \in 1..Len(wire) : wire[i].msg = m => LateFor(row[m].body, said[m], wire[i])
       /\ \A g \in Fetch : ~Behind(g, m)
       /\ WholeFor(row[m].body, said[m], view[m])

ShownInv ==
  /\ Inv
  /\ \A m \in Message : SaidOK(m)
  /\ WireOK /\ PagesOK
  /\ \A m \in settled : Rests(m)

\* The message as it is stored is whole.
LEMMA StoredWhole ==
  ASSUME NEW b \in Nat, NEW S
  PROVE  WholeFor(b, S, Shown("complete", Words(b)))
<1>1. Words(b) \in Seq(Nat) /\ Len(Words(b)) = b /\ \A i \in 1..b : Words(b)[i] = i
  BY DEF Words
<1>2. Shown("complete", Words(b)).state = "complete" /\ Shown("complete", Words(b)).words = Words(b)
  BY DEF Shown
<1> QED BY <1>1, <1>2 DEF WholeFor

\* A late frame leaves a whole message whole.
LEMMA LateKeeps ==
  ASSUME NEW b \in Nat, NEW S, NEW v \in ViewType, NEW f \in FrameType, WholeFor(b, S, v), LateFor(b, S, f)
  PROVE  WholeFor(b, S, Applied(v, f))
<1>1. CASE f.state = "complete" /\ f.words = Words(b)
  <2>1. Applied(v, f) = Shown("complete", Words(b))
    BY <1>1 DEF Applied
  <2> QED BY <2>1, StoredWhole
<1>2. ASSUME f.state = "delta", NEW k \in Nat, k \notin S, f.words = <<k>>
      PROVE  WholeFor(b, S, Applied(v, f))
  <2> DEFINE w == v.words \o <<k>>
  <2>0. v.words \in Seq(Nat) /\ v.state = "complete" /\ Len(v.words) \in Nat
    BY DEF ViewType, WholeFor
  <2>1. /\ w \in Seq(Nat) /\ Len(w) = Len(v.words) + 1 /\ w[Len(v.words) + 1] = k
        /\ \A i \in 1..Len(v.words) : w[i] = v.words[i]
    BY <2>0
  <2>2. Applied(v, f).state = "complete" /\ Applied(v, f).words = w
    BY <1>2, <2>0 DEF Applied, Shown
  <2> HIDE DEF w
  <2>3. b <= Len(v.words) /\ \A i \in 1..Len(v.words) : IF i <= b THEN v.words[i] = i ELSE v.words[i] \notin S
    BY DEF WholeFor
  <2>4. ASSUME NEW i \in 1..Len(w)
        PROVE  IF i <= b THEN w[i] = i ELSE w[i] \notin S
    <3>1. CASE i \in 1..Len(v.words)
      BY <2>1, <2>3, <3>1
    <3>2. CASE i = Len(v.words) + 1
      BY <1>2, <2>0, <2>1, <2>3, <3>2
    <3> QED BY <2>0, <2>1, <3>1, <3>2
  <2>5. b <= Len(w)
    BY <2>0, <2>1, <2>3
  <2> QED BY <2>2, <2>4, <2>5 DEF WholeFor
<1> QED BY <1>1, <1>2 DEF LateFor

\* A finished message, and what was said of it, stay.
LEMMA Fixed ==
  ASSUME Inv, [Next]_vars, NEW m \in Message, Complete(m)
  PROVE  row'[m] = row[m] /\ said'[m] = said[m] /\ Complete(m)'
BY RowStep, SaidStep DEF Final, Complete

\* What was said stays said: later words are new, and a start does not go back.
LEMMA SaidKeeps ==
  ASSUME ShownInv, [Next]_vars, NEW m \in Message
  PROVE  SaidOK(m)'
<1>0. /\ Inv /\ TypeOK /\ SaidOK(m) /\ accepted \in [Message -> Text] /\ unsaid \in [Message -> SUBSET (1..MaxDelta)]
      /\ starting \in [Message -> {"no", "created", "opened", "done"}] /\ accepted[m] \in Nat
      /\ said \in [Message -> SUBSET Text]
  BY Numbers DEF ShownInv, Inv, TypeOK
<1>1. ASSUME Complete(m) PROVE SaidOK(m)'
  <2>0. said'[m] = said[m] /\ \A k \in said[m] : k \in Nat
    BY <1>0, <1>1, Fixed, Numbers
  <2>1. starting'[m] = starting[m] \/ starting[m] # "done"
    BY <1>0, <1>1, StartingCases DEF Create, OpenStream, AnnounceStarted, StartFails, Exists, Complete
  <2>2. \/ accepted'[m] = accepted[m] /\ unsaid'[m] \subseteq unsaid[m]
        \/ accepted'[m] = accepted[m] + 1 /\ unsaid'[m] = unsaid[m] \cup {accepted[m] + 1}
    <3>1. ASSUME NEW l \in Message, AppendStream(l)
          PROVE  \/ accepted'[m] = accepted[m] /\ unsaid'[m] \subseteq unsaid[m]
                 \/ accepted'[m] = accepted[m] + 1 /\ unsaid'[m] = unsaid[m] \cup {accepted[m] + 1}
      BY <1>0, <3>1 DEF AppendStream
    <3>2. ASSUME \A l \in Message : ~AppendStream(l)
          PROVE  accepted'[m] = accepted[m] /\ unsaid'[m] \subseteq unsaid[m]
      <4>1. accepted'[m] = accepted[m]
        BY <3>2, BufferCases DEF OpenStream, Expire, RemoveBuffer, Forget, Removed, Gone, history
      <4>2. unsaid'[m] \subseteq unsaid[m]
        BY <1>0, <3>2, UnsaidCases DEF AnnounceDelta
      <4> QED BY <4>1, <4>2
    <3> QED BY <3>1, <3>2
  <2>3. accepted[m] + 1 \notin said[m]
    BY <1>0, <1>1, <2>0 DEF SaidOK
  <2> QED BY <1>0, <1>1, <2>0, <2>1, <2>2, <2>3 DEF SaidOK
<1>2. ASSUME ~Complete(m), row'[m].status = "complete" PROVE SaidOK(m)'
  <2>1. said'[m] = Answered(m)
    BY <1>0, <1>2, SaidStep
  <2>2. UNCHANGED <<starting, unsaid, accepted>>
    <3>1. ASSUME NEW l \in Message, Create(l)
          PROVE  row'[m].status # "complete"
      BY <1>0, <1>2, <3>1 DEF Create, MessageRow, Complete, TypeOK
    <3>2. PICK c \in Caller : FinishMessage(c)
      BY <1>2, <3>1, RowCases DEF Complete
    <3> QED BY <3>2 DEF FinishMessage
  <2>3. Answered(m) \cap unsaid[m] = {} /\ (\A k \in Answered(m) : k <= accepted[m])
        /\ (0 \in Answered(m) => starting[m] = "done")
    BY <1>0 DEF Answered
  <2> QED BY <2>1, <2>2, <2>3 DEF SaidOK
<1> QED BY <1>1, <1>2 DEF SaidOK, Complete

\* Only frames that may set out do.
LEMMA SetsOut ==
  ASSUME ShownInv, [Next]_vars
  PROVE  \/ \E f \in FrameType : NewFrame(f) /\ Publish(f)
         \/ Take \/ GoesOffline \/ UNCHANGED wire
<1>0. Inv /\ \A m \in Message : SaidOK(m)
  BY DEF ShownInv
<1>1. ASSUME NEW m \in Message, AnnounceStarted(m)
      PROVE  \E f \in FrameType : NewFrame(f) /\ Publish(f)
  <2> DEFINE f == Frame(m, "streaming", <<>>)
  <2>1. f \in FrameType /\ f.msg = m /\ f.state = "streaming"
    BY <1>0, Frames DEF Frame
  <2>2. starting[m] = "opened" /\ Publish(f)
    BY <1>1 DEF AnnounceStarted
  <2>3. ~(Complete(m) /\ 0 \in said[m])
    BY <1>0, <2>2 DEF SaidOK
  <2> HIDE DEF f
  <2>4. NewFrame(f)
    BY <2>1, <2>3 DEF NewFrame
  <2> QED BY <2>1, <2>2, <2>4
<1>2. ASSUME NEW m \in Message, NEW k \in unsaid[m], AnnounceDelta(m, k)
      PROVE  \E f \in FrameType : NewFrame(f) /\ Publish(f)
  <2> DEFINE f == Frame(m, "delta", <<k>>)
  <2>1. k \in Nat /\ f \in FrameType /\ f.msg = m /\ f.state = "delta" /\ f.words = <<k>>
    BY <1>0, Frames DEF Frame
  <2>2. Publish(f)
    BY <1>2 DEF AnnounceDelta
  <2>3. Complete(m) => k \notin said[m]
    BY <1>0 DEF SaidOK
  <2> HIDE DEF f
  <2>4. NewFrame(f)
    BY <2>1, <2>3 DEF NewFrame, LateFor
  <2> QED BY <2>1, <2>2, <2>4
<1>3. ASSUME NEW c \in Caller, AnnounceCompleted(c)
      PROVE  \E f \in FrameType : NewFrame(f) /\ Publish(f)
  <2> DEFINE m == call[c].msg
             f == Frame(m, "complete", Words(row[m].body))
  <2>1. m \in Message /\ Complete(m)
    BY <1>0, <1>3 DEF AnnounceCompleted, Inv, Sound
  <2>2. f \in FrameType /\ f.msg = m /\ f.state = "complete" /\ f.words = Words(row[m].body)
    BY <1>0, <2>1, Frames DEF Frame
  <2>3. Publish(f)
    BY <1>3 DEF AnnounceCompleted
  <2> HIDE DEF f, m
  <2>4. NewFrame(f)
    BY <2>1, <2>2 DEF NewFrame, LateFor
  <2> QED BY <2>2, <2>3, <2>4
<1> QED BY <1>1, <1>2, <1>3, WireCases

\* Every frame on its way was on its way before, in the same order, or is new
\* and the last.
LEMMA Travels ==
  ASSUME ShownInv, [Next]_vars
  PROVE  /\ wire \in Seq(FrameType) /\ wire' \in Seq(FrameType)
         /\ \E d \in {0, 1} : \A i \in 1..Len(wire') :
              \/ i + d \in 1..Len(wire) /\ wire'[i] = wire[i + d]
              \/ i = Len(wire') /\ NewFrame(wire'[i])
<1> DEFINE Goal == \E d \in {0, 1} : \A i \in 1..Len(wire') :
              \/ i + d \in 1..Len(wire) /\ wire'[i] = wire[i + d]
              \/ i = Len(wire') /\ NewFrame(wire'[i])
<1>0. Inv /\ wire \in Seq(FrameType) /\ wire' \in Seq(FrameType) /\ Len(wire) \in Nat /\ Len(wire') \in Nat
  BY WireStep DEF ShownInv, Inv, TypeOK, FrameType
<1>1. ASSUME wire' = wire PROVE Goal
  BY <1>0, <1>1
<1>2. ASSUME NEW f \in FrameType, NewFrame(f), Publish(f) PROVE Goal
  <2>1. ASSUME wire' = Append(wire, f) PROVE Goal
    <3>1. Len(wire') = Len(wire) + 1 /\ wire'[Len(wire) + 1] = f /\ \A i \in 1..Len(wire) : wire'[i] = wire[i]
      BY <1>0, <2>1
    <3>2. \A i \in 1..Len(wire') : \/ i + 0 \in 1..Len(wire) /\ wire'[i] = wire[i + 0]
                                   \/ i = Len(wire') /\ NewFrame(wire'[i])
      BY <1>0, <1>2, <3>1
    <3> QED BY <3>2
  <2> QED BY <1>1, <1>2, <2>1, Published
<1>3. CASE Take
  <2>1. \A i \in 1..Len(wire') : wire'[i] = wire[i + 1] /\ i + 1 \in 1..Len(wire)
    BY <1>0, <1>3, Taken
  <2> QED BY <1>0, <2>1
<1>4. CASE GoesOffline
  <2>1. wire' = <<>> /\ Len(wire') = 0
    BY <1>4 DEF GoesOffline
  <2> QED BY <1>0, <2>1
<1> QED BY <1>0, <1>1, <1>2, <1>3, <1>4, SetsOut

\* Behind a completed frame only late frames travel, whatever sets out.
LEMMA WireKeeps ==
  ASSUME ShownInv, [Next]_vars
  PROVE  WireOK'
<1>0. Inv /\ WireOK
  BY DEF ShownInv
<1>1. PICK d \in {0, 1} : \A i \in 1..Len(wire') :
              \/ i + d \in 1..Len(wire) /\ wire'[i] = wire[i + d]
              \/ i = Len(wire') /\ NewFrame(wire'[i])
  BY Travels
<1>2. \A i \in 1..Len(wire') : wire'[i].msg \in Message
  <2>1. \A i \in 1..Len(wire') : wire'[i] \in FrameType
    BY Travels, ElementOfSeq
  <2> QED BY <2>1 DEF FrameType
<1>3. ASSUME NEW i \in 1..Len(wire'), wire'[i].state = "complete"
      PROVE  /\ Complete(wire'[i].msg) /\ wire'[i].words = Words(row[wire'[i].msg].body)
             /\ 0 \in said[wire'[i].msg] =>
                  \A j \in i..Len(wire') : wire'[j].msg = wire'[i].msg =>
                    LateFor(row[wire'[i].msg].body, said[wire'[i].msg], wire'[j])
  <2> DEFINE m == wire'[i].msg
  <2>1. Complete(m) /\ wire'[i].words = Words(row[m].body)
    BY <1>0, <1>1, <1>3 DEF WireOK, NewFrame
  <2>2. ASSUME 0 \in said[m], NEW j \in i..Len(wire'), wire'[j].msg = m
        PROVE  LateFor(row[m].body, said[m], wire'[j])
    <3>0. j \in 1..Len(wire') /\ i \in Nat /\ j \in Nat /\ d \in Nat /\ i <= j /\ j <= Len(wire')
          /\ Len(wire') \in Nat /\ Len(wire) \in Nat
      BY Travels
    <3>1. CASE j = Len(wire') /\ NewFrame(wire'[j])
      BY <2>1, <2>2, <3>1 DEF NewFrame
    <3>2. CASE j + d \in 1..Len(wire) /\ wire'[j] = wire[j + d]
      <4>1. CASE i + d \in 1..Len(wire) /\ wire'[i] = wire[i + d]
        <5>1. j + d \in (i + d)..Len(wire)
          BY <3>0, <3>2
        <5> QED BY <1>0, <1>3, <2>2, <3>2, <4>1, <5>1 DEF WireOK
      <4>2. CASE i = Len(wire') /\ NewFrame(wire'[i])
        <5>1. j = i
          BY <3>0, <4>2
        <5> QED BY <2>1, <2>2, <4>2, <5>1 DEF NewFrame
      <4> QED BY <1>1, <4>1, <4>2
    <3> QED BY <1>1, <3>0, <3>1, <3>2
  <2> QED BY <2>1, <2>2
<1>4. \A m \in Message : Complete(m) => row'[m] = row[m] /\ said'[m] = said[m] /\ row'[m].status = "complete"
  BY <1>0, Fixed DEF Complete
<1>5. ASSUME NEW i \in 1..Len(wire'), wire'[i].state = "complete"
      PROVE  /\ row'[wire'[i].msg].status = "complete" /\ wire'[i].words = Words(row'[wire'[i].msg].body)
             /\ 0 \in said'[wire'[i].msg] =>
                  \A j \in i..Len(wire') : wire'[j].msg = wire'[i].msg =>
                    LateFor(row'[wire'[i].msg].body, said'[wire'[i].msg], wire'[j])
  BY <1>2, <1>3, <1>4, <1>5
<1>6. \A i \in 1..Len(wire') : wire'[i].state = "complete" =>
             /\ row'[wire'[i].msg].status = "complete" /\ wire'[i].words = Words(row'[wire'[i].msg].body)
             /\ 0 \in said'[wire'[i].msg] =>
                  \A j \in i..Len(wire') : wire'[j].msg = wire'[i].msg =>
                    LateFor(row'[wire'[i].msg].body, said'[wire'[i].msg], wire'[j])
  BY <1>5
<1> QED BY <1>6 DEF WireOK, Complete, LateFor, Words

\* The page the hub reads has a finished message as it is stored.
LEMMA PageHas ==
  ASSUME TypeOK, NEW a \in 0..MaxMessage, NEW m \in Message
  PROVE  /\ PageOf(a)[m].state = "complete" => Complete(m) /\ PageOf(a)[m] = Shown("complete", Words(row[m].body))
         /\ Complete(m) => PageOf(a)[m].state = IF a < m THEN "complete" ELSE "none"
<1>1. Unseen.state = "none"
  BY DEF Unseen, Shown
<1>2. PageOf(a)[m] = IF Exists(m) /\ a < m THEN FromHub(m) ELSE Unseen
  BY DEF PageOf
<1>3. Complete(m) => Exists(m) /\ FromHub(m).state = "complete"
  BY FromHubType DEF Complete, Exists, Shown
<1> QED BY <1>1, <1>2, <1>3, FromHubType

\* Pages go on having what they have.
LEMMA PagesKeep ==
  ASSUME ShownInv, [Next]_vars
  PROVE  PagesOK'
<1>0. Inv /\ TypeOK /\ PagesOK /\ fetch \in [Fetch -> FetchType]
  BY DEF ShownInv, Inv, TypeOK, FetchType
<1>1. ASSUME NEW g \in Fetch, NEW m \in Message, fetch'[g].stage = "read", fetch'[g].page[m].state = "complete"
      PROVE  Complete(m) /\ fetch'[g].page[m] = Shown("complete", Words(row[m].body))
  <2>1. CASE fetch'[g] = fetch[g]
    BY <1>0, <1>1, <2>1 DEF PagesOK
  <2>2. CASE fetch'[g] = Request("read", fetch[g].after, PageOf(fetch[g].after))
    <3>1. fetch[g].after \in 0..MaxMessage
      BY <1>0 DEF FetchType
    <3>2. fetch'[g].page = PageOf(fetch[g].after)
      BY <2>2 DEF Request
    <3> QED BY <1>0, <1>1, <3>1, <3>2, PageHas
  <2> QED BY <1>0, <1>1, <2>1, <2>2, FetchMoves
<1>2. \A m \in Message : Complete(m) => row'[m] = row[m] /\ row'[m].status = "complete"
  BY <1>0, Fixed DEF Complete
<1> QED BY <1>1, <1>2 DEF PagesOK, Complete, Shown, Words

\* No page read from now on is behind a finished message.
LEMMA NotBehind ==
  ASSUME TypeOK, [Next]_vars, NEW m \in Message, Complete(m), NEW g \in Fetch,
         ~Behind(g, m) \/ fetch'[g].stage # "read"
  PROVE  ~Behind(g, m)'
<1>0. fetch \in [Fetch -> FetchType]
  BY DEF TypeOK, FetchType
<1>1. CASE fetch'[g] = fetch[g]
  BY <1>1 DEF Behind
<1>2. CASE fetch'[g].stage # "read"
  BY <1>2 DEF Behind
<1>3. CASE fetch'[g] = Request("read", fetch[g].after, PageOf(fetch[g].after))
  <2> DEFINE a == fetch[g].after
  <2>1. a \in 0..MaxMessage
    BY <1>0 DEF FetchType
  <2>2. fetch'[g].page = PageOf(a) /\ fetch'[g].after = a
    BY <1>3 DEF Request
  <2>3. fetch'[g].page[m].state = IF a < m THEN "complete" ELSE "none"
    BY <2>1, <2>2, PageHas
  <2>4. a = 0 => a < m
    BY Numbers
  <2> HIDE DEF a
  <2> QED BY <2>2, <2>3, <2>4 DEF Behind
<1> QED BY <1>1, <1>2, <1>3, FetchMoves

\* Frames, pages and answers leave what the device learnt as it is.
LEMMA RestsKeep ==
  ASSUME ShownInv, [Next]_vars
  PROVE  \A m \in settled' : Rests(m)'
<1>0. /\ Inv /\ TypeOK /\ WireOK /\ PagesOK /\ settled \subseteq Message /\ view \in [Message -> ViewType]
      /\ (\A m \in settled : Rests(m)) /\ fetch \in [Fetch -> FetchType]
      /\ (\A m \in Message : row[m].body \in Nat) /\ settled' \subseteq Message
  BY BodyType, ScreenStep DEF ShownInv, Inv, TypeOK, FetchType
<1> DEFINE LateWire(m) == \A i \in 1..Len(wire) : wire[i].msg = m => LateFor(row[m].body, said[m], wire[i])
           LateNext(m) == \A i \in 1..Len(wire') : wire'[i].msg = m => LateFor(row[m].body, said[m], wire'[i])
           Ahead(m) == \A g \in Fetch : ~Behind(g, m)
           Stored(m) == Shown("complete", Words(row[m].body))
\* What has to be shown of a message, the stored row and what was said being fixed.
<1>1. ASSUME NEW m \in Message, Complete(m),
             0 \in said[m] => LateNext(m) /\ (\A g \in Fetch : ~Behind(g, m)')
                              /\ WholeFor(row[m].body, said[m], view'[m])
      PROVE  Rests(m)'
  <2>1. row'[m] = row[m] /\ said'[m] = said[m] /\ Complete(m)'
    BY <1>0, <1>1, Fixed
  <2>2. 0 \in said'[m] => /\ \A i \in 1..Len(wire') : wire'[i].msg = m => LateFor(row'[m].body, said'[m], wire'[i])
                          /\ \A g \in Fetch : ~Behind(g, m)'
                          /\ WholeFor(row'[m].body, said'[m], view'[m])
    BY <1>1, <2>1
  <2> QED BY <2>1, <2>2 DEF Rests, LateFor, WholeFor, Words
<1>2. ASSUME NEW m \in Message, Complete(m), 0 \in said[m], LateWire(m)
      PROVE  LateNext(m)
  <2>1. PICK d \in {0, 1} : \A i \in 1..Len(wire') :
              \/ i + d \in 1..Len(wire) /\ wire'[i] = wire[i + d]
              \/ i = Len(wire') /\ NewFrame(wire'[i])
    BY Travels
  <2> QED BY <1>2, <2>1 DEF NewFrame
<1>3. ASSUME NEW m \in Message, Complete(m), Ahead(m)
      PROVE  \A g \in Fetch : ~Behind(g, m)'
  BY <1>0, <1>3, NotBehind
<1>4. \A m \in settled : m \in Message /\ Complete(m) /\
        (0 \in said[m] => LateWire(m) /\ Ahead(m) /\ WholeFor(row[m].body, said[m], view[m]))
  BY <1>0 DEF Rests
<1>5. \A m \in Message : WholeFor(row[m].body, said[m], Stored(m))
  BY <1>0, StoredWhole
<1>6. ASSUME NEW m \in Message, Quiet(m)
      PROVE  LateWire(m)
  BY <1>6 DEF Quiet
<1> HIDE DEF LateWire, LateNext, Ahead
<1>7. ASSUME UNCHANGED <<view, settled>>, NEW m \in settled'
      PROVE  Rests(m)'
  BY <1>1, <1>2, <1>3, <1>4, <1>7
<1>8. ASSUME Take, NEW m \in settled'
      PROVE  Rests(m)'
  <2> DEFINE f == wire[1]
             l == f.msg
  <2>0. /\ f \in FrameType /\ l \in Message /\ 1 \in 1..Len(wire) /\ Len(wire) \in Nat /\ Len(wire') = Len(wire) - 1
        /\ view' = IF ~open THEN view ELSE [view EXCEPT ![l] = Applied(view[l], f)]
        /\ settled' = IF open /\ f.state = "complete" /\ (\A g \in Fetch : ~Behind(g, l))
                      THEN settled \cup {l} ELSE settled
    BY <1>0, <1>8, Taken DEF FrameType
  <2>1. CASE m \in settled
    <3>0. m \in Message /\ Complete(m)
      BY <1>4, <2>1
    <3>1. ASSUME 0 \in said[m]
          PROVE  WholeFor(row[m].body, said[m], view'[m])
      <4>1. WholeFor(row[m].body, said[m], view[m]) /\ LateWire(m)
        BY <1>4, <2>1, <3>1
      <4>2. l = m => LateFor(row[m].body, said[m], f)
        BY <2>0, <4>1 DEF LateWire
      <4>3. l = m => WholeFor(row[m].body, said[m], Applied(view[m], f))
        BY <1>0, <2>0, <3>0, <4>1, <4>2, LateKeeps
      <4>4. view'[m] = view[m] \/ (l = m /\ view'[m] = Applied(view[m], f))
        BY <1>0, <2>0, <3>0
      <4> QED BY <4>1, <4>3, <4>4
    <3> QED BY <1>1, <1>2, <1>3, <1>4, <2>1, <3>0, <3>1
  <2>2. CASE m \notin settled
    <3>0. m = l /\ open /\ f.state = "complete" /\ Ahead(m)
      BY <1>8, <2>0, <2>2 DEF Ahead
    <3>1. /\ m \in Message /\ Complete(m) /\ f.words = Words(row[m].body)
          /\ 0 \in said[m] => \A j \in 1..Len(wire) : wire[j].msg = m => LateFor(row[m].body, said[m], wire[j])
      BY <1>0, <2>0, <3>0 DEF WireOK
    <3>2. 0 \in said[m] => LateWire(m)
      BY <3>1 DEF LateWire
    <3>3. view'[m] = Stored(m)
      BY <1>0, <2>0, <3>0, <3>1 DEF Applied
    <3> QED BY <1>1, <1>2, <1>3, <1>5, <3>0, <3>1, <3>2, <3>3
  <2> QED BY <2>1, <2>2
<1>9. ASSUME NEW g \in Fetch, PageArrives(g), NEW m \in settled'
      PROVE  Rests(m)'
  <2> DEFINE p == fetch[g].page[m]
  <2>0. /\ fetch[g].stage = "read" /\ m \in Message
        /\ view'[m] = IF fetch[g].after = 0 \/ p.state # "none" THEN p ELSE view[m]
        /\ fetch' = [fetch EXCEPT ![g] = NoRequest]
        /\ m \notin settled => p.state = "complete" /\ Quiet(m) /\ \A h \in Fetch \ {g} : ~Behind(h, m)
    BY <1>0, <1>9 DEF PageArrives, Covers
  <2>1. p.state = "complete" => Complete(m) /\ p = Stored(m)
    BY <1>0, <2>0 DEF PagesOK
  <2>2. p.state \in {"none", "streaming", "complete"}
    BY <1>0, <2>0 DEF FetchType, ViewType
  <2>3. CASE m \in settled
    <3>1. ASSUME 0 \in said[m]
          PROVE  WholeFor(row[m].body, said[m], view'[m])
      <4>1. ~Behind(g, m) /\ WholeFor(row[m].body, said[m], view[m])
        BY <1>4, <2>3, <3>1 DEF Ahead
      <4>2. p.state = "complete" \/ (fetch[g].after # 0 /\ p.state = "none")
        BY <2>0, <2>2, <4>1 DEF Behind
      <4> QED BY <1>5, <2>0, <2>1, <4>1, <4>2
    <3> QED BY <1>1, <1>2, <1>3, <1>4, <2>3, <3>1
  <2>4. CASE m \notin settled
    <3>1. Complete(m) /\ view'[m] = Stored(m)
      BY <2>0, <2>1, <2>4
    <3>2. fetch'[g].stage # "read"
      BY <1>0, <2>0, NoRequestType
    <3>3. \A h \in Fetch : ~Behind(h, m)'
      BY <1>0, <2>0, <2>4, <3>1, <3>2, NotBehind
    <3> QED BY <1>1, <1>2, <1>5, <1>6, <2>0, <2>4, <3>1, <3>3
  <2> QED BY <2>3, <2>4
<1>10. ASSUME NEW c \in Caller, StopReturns(c), NEW m \in settled'
       PROVE  Rests(m)'
  <2>0. call[c].ended \subseteq Message /\ \A l \in call[c].ended : Complete(l)
    BY <1>0 DEF Inv, TypeOK, CallType, Sound
  <2>1. CASE UNCHANGED <<view, settled>>
    BY <1>7, <2>1
  <2>2. CASE /\ view' = [l \in Message |-> IF l \in call[c].ended THEN Stored(l) ELSE view[l]]
             /\ settled' = settled \cup {l \in call[c].ended : Quiet(l) /\ \A g \in Fetch : ~Behind(g, l)}
    <3>1. m \in Message /\ view'[m] = IF m \in call[c].ended THEN Stored(m) ELSE view[m]
      BY <1>0, <2>2
    <3>2. m \in settled \/ (m \in call[c].ended /\ Quiet(m) /\ Ahead(m))
      BY <1>10, <2>2 DEF Ahead
    <3>3. CASE m \in settled
      BY <1>1, <1>2, <1>3, <1>4, <1>5, <3>1, <3>3
    <3>4. CASE m \in call[c].ended /\ Quiet(m) /\ Ahead(m)
      BY <1>1, <1>2, <1>3, <1>5, <1>6, <2>0, <3>1, <3>4
    <3> QED BY <3>2, <3>3, <3>4
  <2> QED BY <1>10, <2>1, <2>2 DEF StopReturns, screen
<1> QED BY <1>7, <1>8, <1>9, <1>10, ScreenCases

\* The invariant behind what the device shows always holds.
THEOREM AlwaysShown == Spec => []ShownInv
<1>1. Init => ShownInv
  <2> SUFFICES ASSUME Init PROVE ShownInv
    OBVIOUS
  <2>1. Inv
    BY InitInv
  <2>2. \A m \in Message : ~Complete(m)
    BY DEF Init, Complete, NoRow, MessageRow
  <2>3. WireOK /\ settled = {}
    BY DEF Init, WireOK
  <2>4. PagesOK
    BY NoRequestType DEF Init, PagesOK
  <2> QED BY <2>1, <2>2, <2>3, <2>4 DEF ShownInv, SaidOK
<1>2. ShownInv /\ [Next]_vars => ShownInv'
  <2> SUFFICES ASSUME ShownInv, [Next]_vars PROVE ShownInv'
    OBVIOUS
  <2>1. Inv'
    BY InvStep DEF ShownInv
  <2> QED BY <2>1, SaidKeeps, WireKeeps, PagesKeep, RestsKeep DEF ShownInv
<1> QED BY <1>1, <1>2, PTL DEF Spec

\* What the device has learnt is complete, with nothing older of it on its way,
\* it shows as it is stored for good, whichever frames, pages and answers come
\* after; behind the message stand at most words the backend was not answered
\* before it was finished.
THEOREM ShowsWhole == Spec => []ShownWhole
<1>1. ShownInv => ShownWhole
  BY DEF ShownInv, Rests, WholeFor, ShownWhole
<1> QED BY <1>1, AlwaysShown, PTL
=============================================================================
