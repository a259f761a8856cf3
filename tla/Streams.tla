------------------------------ MODULE Streams -------------------------------
(***************************************************************************)
(* Replies written word by word.  A streaming message is a row, a buffer   *)
(* in Redis and an entry in a sorted set of live streams.  The agent's     *)
(* backend starts it, appends deltas and finishes it; a person's stop and  *)
(* the hub's sweeper may finish it too; a device follows it by frames.     *)
(*                                                                         *)
(* The deltas of a message are numbered in the order the buffer took them, *)
(* so a text the hub holds is a number: the words 1..n.  The backend may   *)
(* call as soon as the row is committed: it knows the message id from the  *)
(* answer to its start, or to a retry of it under the same key.  It need   *)
(* not await one call before it makes the next.  Frames travel in order    *)
(* over bus, channel and socket; pages and the answer to a stop travel     *)
(* beside them and overtake.                                               *)
(***************************************************************************)
EXTENDS Integers, FiniteSets, Sequences

CONSTANTS
  MaxMessage,   \* messages are 1..MaxMessage, in the order they are created
  MaxDelta,     \* bound on the deltas of one message
  TextMax,      \* the longest text a message keeps
  BufferMax,    \* the longest text a buffer takes
  AgentCall,    \* concurrent FinishStream requests of the backend
  StopCall,     \* concurrent Stop requests of the person
  Sweeper,      \* the stream sweepers, one per server process
  Fetch,        \* page requests the device may have under way at once
  MaxTime,      \* bound on the clock
  IdleFor,      \* how long a live stream may be quiet
  StuckFor,     \* how long after its creation a row may be streaming
  TTL,          \* how long an untouched buffer survives
  SweepLimit,   \* entries one listing returns
  MaxFaults,    \* bound on failures, crashes and lost frames
  MaxOpens      \* bound on how often the device connects or opens the chat

Message == 1..MaxMessage
Time == 0..MaxTime
Caller == AgentCall \cup StopCall \cup Sweeper
Text == 0..MaxDelta

ASSUME StreamsAssumption ==
  /\ MaxMessage \in Nat /\ MaxDelta \in Nat /\ TextMax \in Nat /\ BufferMax \in Nat
  /\ MaxTime \in Nat \ {0} /\ IdleFor \in Nat /\ StuckFor \in Nat /\ TTL \in Nat
  /\ SweepLimit \in Nat \ {0} /\ MaxFaults \in Nat /\ MaxOpens \in Nat
  /\ AgentCall \cap StopCall = {} /\ AgentCall \cap Sweeper = {} /\ StopCall \cap Sweeper = {}

VARIABLES
  now,       \* the clock
  row,       \* messages: status, body, truncated, stopped, created_at
  starting,  \* how far StartStream has come
  live,      \* whether the buffer exists
  text,      \* the buffer's text
  active,    \* the stream's score in the sorted set; 0 when it is no member
  unsaid,    \* deltas in the buffer whose frame is not yet published
  call,      \* the finishing calls under way
  fanned,    \* how often the whole message was fanned out to the other agents
  view,      \* what the device shows: the state of the message and its words
  wire,      \* frames on their way: bus, hub channel and socket, in order
  fetch,     \* the device's page requests
  open,      \* whether the chat is on screen
  online,    \* whether the device's socket is open
  opens,     \* how often the device connected or opened the chat
  faults,    \* failures so far
  accepted,  \* history: how many deltas were accepted
  said,      \* history: what it had been answered when the message was finished
  lost,      \* history: messages whose buffer was lost while they were streaming
  settled    \* history: messages the device learnt were complete, with no older
             \* page or frame of theirs to come

buffer == <<live, text, active>>
screen == <<view, settled>>
reach == <<open, online, opens>>
device == <<screen, wire, fetch, reach>>
history == <<accepted, said, lost>>
vars == <<now, row, starting, buffer, unsaid, call, fanned, device, faults, history>>

-----------------------------------------------------------------------------
MessageRow(s, n, tr, st, t) ==
  [status |-> s, body |-> n, truncated |-> tr, stopped |-> st, at |-> t]
NoRow == MessageRow("none", 0, FALSE, FALSE, 0)

Exists(m) == row[m].status # "none"
Streaming(m) == row[m].status = "streaming"
Complete(m) == row[m].status = "complete"

Words(n) == [i \in 1..n |-> i]
Shown(s, w) == [state |-> s, words |-> w]
Unseen == Shown("none", <<>>)

\* Something goes wrong here, within the bound on failures.
Fault == faults < MaxFaults /\ faults' = faults + 1
NoFault == UNCHANGED faults

\* What a frame says of a message; a delta is one word.
Frame(m, s, w) == [msg |-> m, state |-> s, words |-> w]

\* A frame is published: it is on its way to a device whose socket is open; a
\* failure loses it.
Publish(f) ==
  \/ wire' = (IF online THEN Append(wire, f) ELSE wire) /\ NoFault
  \/ Fault /\ UNCHANGED wire

-----------------------------------------------------------------------------
(* Starting: messages.go create with streaming set, streaming.go.          *)

\* The row is committed.  Its words come later.
Create(m) ==
  /\ ~Exists(m) /\ \A l \in Message : l < m => Exists(l)
  /\ now + StuckFor < MaxTime
  /\ row' = [row EXCEPT ![m] = MessageRow("streaming", 0, FALSE, FALSE, now)]
  /\ starting' = [starting EXCEPT ![m] = "created"]
  /\ UNCHANGED <<now, buffer, unsaid, call, fanned, device, faults, history>>

\* openStream, after the commit and without looking at the row again.
OpenStream(m) ==
  /\ starting[m] = "created"
  /\ live' = [live EXCEPT ![m] = TRUE]
  /\ text' = [text EXCEPT ![m] = 0]
  /\ active' = [active EXCEPT ![m] = now]
  /\ starting' = [starting EXCEPT ![m] = "opened"]
  /\ UNCHANGED <<now, row, unsaid, call, fanned, device, faults, history>>

\* message.started carries the message as it was created.
AnnounceStarted(m) ==
  /\ starting[m] = "opened"
  /\ Publish(Frame(m, "streaming", <<>>))
  /\ starting' = [starting EXCEPT ![m] = "done"]
  /\ UNCHANGED <<now, row, buffer, unsaid, call, fanned, screen, fetch, reach, history>>

\* The request fails, or its process dies, between its steps.
StartFails(m) ==
  /\ starting[m] \in {"created", "opened"} /\ Fault
  /\ starting' = [starting EXCEPT ![m] = "done"]
  /\ UNCHANGED <<now, row, buffer, unsaid, call, fanned, device, history>>

-----------------------------------------------------------------------------
(* Deltas: AppendStream, streams.go append.                                *)

\* appendScript takes a delta if the buffer exists and has room.  Nothing
\* else is asked: not the row, not the database.
AppendStream(m) ==
  /\ live[m]
  /\ accepted[m] < MaxDelta /\ text[m] + 1 <= BufferMax
  /\ text' = [text EXCEPT ![m] = @ + 1]
  /\ active' = [active EXCEPT ![m] = now]
  /\ accepted' = [accepted EXCEPT ![m] = @ + 1]
  /\ unsaid' = [unsaid EXCEPT ![m] = @ \cup {accepted[m] + 1}]
  /\ UNCHANGED <<now, row, starting, live, call, fanned, device, faults, said, lost>>

\* The delta's frame is published, and its call answered.
AnnounceDelta(m, k) ==
  /\ k \in unsaid[m]
  /\ unsaid' = [unsaid EXCEPT ![m] = @ \ {k}]
  /\ Publish(Frame(m, "delta", <<k>>))
  /\ UNCHANGED <<now, row, starting, buffer, call, fanned, screen, fetch, reach, history>>

\* The buffer of a message goes; a message in progress loses its words.
Gone(m) ==
  /\ live' = [live EXCEPT ![m] = FALSE]
  /\ text' = [text EXCEPT ![m] = 0]
  /\ lost' = IF Streaming(m) THEN lost \cup {m} ELSE lost
  /\ UNCHANGED <<accepted, said>>

\* The buffer reached its TTL; its entry in the sorted set stays.
Expire(m) ==
  /\ live[m] /\ active[m] + TTL <= now
  /\ Gone(m)
  /\ UNCHANGED <<now, row, starting, active, unsaid, call, fanned, device, faults>>

-----------------------------------------------------------------------------
(* Finishing: FinishStream, Stop and SweepStreams all run finishStream.    *)

\* todo is what of the listing is left, ended what the call ended; msg and text
\* belong to the finish it is in.  owed is history: what the backend had been
\* answered when it made the call.
Call(s, ow, td, en, m, n) ==
  [stage |-> s, owed |-> ow, todo |-> td, ended |-> en, msg |-> m, text |-> n]
NoCall == Call("idle", {}, {}, {}, 0, 0)

Begin(c, S, ow) ==
  /\ call[c].stage = "idle" /\ S # {}
  /\ call' = [call EXCEPT ![c] = Call("next", ow, S, {}, 0, 0)]

\* What the backend has been answered about a message: its start, which counts
\* as 0, and its deltas.
Answered(m) ==
  (IF starting[m] = "done" THEN {0} ELSE {}) \cup (1..accepted[m] \ unsaid[m])

AgentFinishes(c, m) ==
  /\ Exists(m)
  /\ Begin(c, {m}, Answered(m))
  /\ UNCHANGED <<now, row, starting, buffer, unsaid, fanned, device, faults, history>>

\* Stop lists what is streaming.  That it also tells the agent is an event of
\* the outbox's.
PersonStops(c) ==
  /\ Begin(c, {m \in Message : Streaming(m)}, {})
  /\ UNCHANGED <<now, row, starting, buffer, unsaid, fanned, device, faults, history>>

\* The first k of S by the order key.
Oldest(S, k, key) ==
  {B \in SUBSET S : /\ Cardinality(B) = IF Cardinality(S) <= k THEN Cardinality(S) ELSE k
                    /\ \A x \in B, y \in S \ B : key[x] <= key[y]}

\* streams.idle: what the sorted set says is quiet.
Idle == {m \in Message : active[m] # 0 /\ active[m] + IdleFor <= now}
\* ListStaleStreamingMessages: what the rows say is stuck.
Stale == {m \in Message : Streaming(m) /\ row[m].at + StuckFor < now}

\* Mutant: the sweep trusts the sorted set alone.
SweepIdleOnly(c) ==
  /\ \E A \in Oldest(Idle, SweepLimit, active) : Begin(c, A, {})
  /\ UNCHANGED <<now, row, starting, buffer, unsaid, fanned, device, faults, history>>

SweepStreams(c) ==
  /\ \E A \in Oldest(Idle, SweepLimit, active),
        B \in Oldest(Stale, SweepLimit, [m \in Message |-> row[m].at]) : Begin(c, A \cup B, {})
  /\ UNCHANGED <<now, row, starting, buffer, unsaid, fanned, device, faults, history>>

\* finishStream reads the text first; a buffer that is gone reads as empty.
ReadText(c, m) ==
  /\ call[c].stage = "next" /\ m \in call[c].todo
  /\ call' = [call EXCEPT ![c] =
       Call("read", @.owed, @.todo \ {m}, @.ended, m, IF live[m] THEN text[m] ELSE 0)]
  /\ UNCHANGED <<now, row, starting, buffer, unsaid, fanned, device, faults, history>>

\* Where a call goes on when it is done with a message.
Resume(c, en) ==
  call' = [call EXCEPT ![c] =
    IF @.todo # {} THEN Call("next", @.owed, @.todo, en, 0, 0)
    ELSE IF c \in StopCall THEN Call("return", @.owed, {}, en, 0, 0)
    ELSE NoCall]

\* clampText, and who ended it.
Clamped(n) == IF n <= TextMax THEN n ELSE TextMax
\* Mutant: text lost to the limit goes unmarked.
TruncatedByEnder(c, n) == c \notin AgentCall
Truncated(c, n) == c \notin AgentCall \/ n > TextMax

\* The transaction: FinishMessage touches a streaming row only, and fanOut
\* tells the other agents with it.
FinishMessage(c) ==
  LET m == call[c].msg
      n == call[c].text
  IN  /\ call[c].stage = "read" /\ Streaming(m)
      /\ row' = [row EXCEPT ![m] =
           MessageRow("complete", Clamped(n), Truncated(c, n), c \in StopCall, @.at)]
      /\ fanned' = [fanned EXCEPT ![m] = @ + 1]
      /\ call' = [call EXCEPT ![c] = Call("committed", @.owed, @.todo, @.ended, m, n)]
      /\ said' = [said EXCEPT ![m] = Answered(m)]
      /\ UNCHANGED <<now, starting, buffer, unsaid, device, faults, accepted, lost>>

\* Mutants of what happens to a message another call finished: it is told to
\* the agents again; it is marked stopped after the fact.
AlreadyFinishedTells(c) ==
  LET m == call[c].msg
  IN  /\ call[c].stage = "read" /\ ~Streaming(m)
      /\ Resume(c, call[c].ended)
      /\ fanned' = [fanned EXCEPT ![m] = @ + 1]
      /\ UNCHANGED <<now, row, starting, buffer, unsaid, device, faults, history>>
AlreadyFinishedMarks(c) ==
  LET m == call[c].msg
  IN  /\ call[c].stage = "read" /\ ~Streaming(m)
      /\ row' = [row EXCEPT ![m].stopped = c \in StopCall]
      /\ Resume(c, call[c].ended)
      /\ UNCHANGED <<now, starting, buffer, unsaid, fanned, device, faults, history>>

\* errAlreadyFinished: ownFinishedMessage hands back the complete message.
AlreadyFinished(c) ==
  LET m == call[c].msg
  IN  /\ call[c].stage = "read" /\ ~Streaming(m)
      /\ Resume(c, IF row[m].stopped THEN call[c].ended \cup {m} ELSE call[c].ended)
      /\ UNCHANGED <<now, row, starting, buffer, unsaid, fanned, device, faults, history>>

\* The read or the transaction fails.  The sweeper forgets the stream and goes
\* on; the other two report the error to whoever called.
FinishFails(c) ==
  /\ call[c].stage = "read" /\ Fault
  /\ call' = [call EXCEPT ![c] = IF c \in Sweeper
       THEN Call("forget", @.owed, @.todo, @.ended, @.msg, 0) ELSE NoCall]
  /\ UNCHANGED <<now, row, starting, buffer, unsaid, fanned, device, history>>

Removed(m) == Gone(m) /\ active' = [active EXCEPT ![m] = 0]

\* The finished stream's buffer is removed; a failure is only logged.
RemoveBuffer(c) ==
  /\ call[c].stage = "committed"
  /\ \/ Removed(call[c].msg) /\ NoFault
     \/ Fault /\ UNCHANGED <<buffer, history>>
  /\ call' = [call EXCEPT ![c] = Call("removed", @.owed, @.todo, @.ended, @.msg, @.text)]
  /\ UNCHANGED <<now, row, starting, unsaid, fanned, device>>

Forget(c) ==
  /\ call[c].stage = "forget"
  /\ Removed(call[c].msg)
  /\ Resume(c, call[c].ended)
  /\ UNCHANGED <<now, row, starting, unsaid, fanned, device, faults>>

\* message.completed carries the whole message.
AnnounceCompleted(c) ==
  LET m == call[c].msg
  IN  /\ call[c].stage = "removed"
      /\ Publish(Frame(m, "complete", Words(row[m].body)))
      /\ Resume(c, call[c].ended \cup {m})
      /\ UNCHANGED <<now, row, starting, buffer, unsaid, fanned, screen, fetch, reach, history>>

\* The process running the call dies.
CallDies(c) ==
  /\ call[c].stage # "idle" /\ Fault
  /\ call' = [call EXCEPT ![c] = NoCall]
  /\ UNCHANGED <<now, row, starting, buffer, unsaid, fanned, device, history>>

-----------------------------------------------------------------------------
(* The device: apps/mobile, chat/controller.ts and chat/store.ts.          *)

\* A page request; after is the message it asks for the messages after, 0 when
\* it asks for the newest page.  The page gives Unseen for what is not on it.
Request(s, a, p) == [stage |-> s, after |-> a, page |-> p]
NoPage == [m \in Message |-> Unseen]
NoRequest == Request("idle", 0, NoPage)

\* A page that was read before the message was complete, or before it was
\* there, is on its way and will be put over it.
Behind(g, m) ==
  /\ fetch[g].stage = "read"
  /\ fetch[g].page[m].state \in IF fetch[g].after = 0 THEN {"none", "streaming"} ELSE {"streaming"}

\* No frame of the message is on its way.
Quiet(m) == \A i \in 1..Len(wire) : wire[i].msg # m

\* The next frame: upsert takes a message as the frame has it, appendDelta adds
\* the word to the message, if there is one and whatever its state.
Take ==
  LET f == Head(wire)
      v == view[f.msg]
  IN  /\ wire # <<>>
      /\ wire' = Tail(wire)
      /\ view' = IF ~open THEN view
                 ELSE [view EXCEPT ![f.msg] =
                        IF f.state # "delta" THEN Shown(f.state, f.words)
                        ELSE IF v.state # "none" THEN Shown(v.state, v.words \o f.words)
                        ELSE v]
      /\ settled' = IF open /\ f.state = "complete" /\ \A g \in Fetch : ~Behind(g, f.msg)
                    THEN settled \cup {f.msg} ELSE settled
      /\ UNCHANGED <<now, row, starting, buffer, unsaid, call, fanned, fetch, reach, faults, history>>

Opens == opens < MaxOpens /\ opens' = opens + 1

GoesOffline ==
  /\ online /\ online' = FALSE
  /\ wire' = <<>>
  /\ UNCHANGED <<now, row, starting, buffer, unsaid, call, fanned, screen, fetch, open, opens, faults, history>>

\* newestServerId: a is the newest message the device knows, 0 if it knows none.
Known == {m \in Message : view[m].state # "none"}
Newest(a) == IF Known = {} THEN a = 0 ELSE a \in Known /\ \A k \in Known : k <= a

Asks(g, a) ==
  /\ fetch[g].stage = "idle"
  /\ fetch' = [fetch EXCEPT ![g] = Request("asked", a, NoPage)]

\* The socket is open again; an open chat asks for everything after the newest
\* message it knows, or for the newest page if it knows none.
CatchUp ==
  /\ ~online /\ online' = TRUE /\ Opens
  /\ IF open THEN \E g \in Fetch, a \in 0..MaxMessage : Newest(a) /\ Asks(g, a) ELSE UNCHANGED fetch
  /\ UNCHANGED <<now, row, starting, buffer, unsaid, call, fanned, screen, wire, open, faults, history>>

\* The chat is left: what it shows is remembered, no answer it awaits matters.
CloseChat ==
  /\ open /\ open' = FALSE
  /\ fetch' = [g \in Fetch |-> NoRequest]
  /\ UNCHANGED <<now, row, starting, buffer, unsaid, call, fanned, screen, wire, online, opens, faults, history>>

\* start: what was remembered is recalled and the newest page asked for.
Load(g) ==
  /\ ~open /\ open' = TRUE /\ Opens
  /\ Asks(g, 0)
  /\ UNCHANGED <<now, row, starting, buffer, unsaid, call, fanned, screen, wire, online, faults, history>>

\* Mutant: the buffered text is attached to every message.
FromHubBuffer(m) ==
  Shown(IF Complete(m) THEN "complete" ELSE "streaming", Words(IF live[m] THEN text[m] ELSE 0))

\* The message as the hub's history gives it, text so far included.
FromHub(m) ==
  IF Complete(m) THEN Shown("complete", Words(row[m].body))
  ELSE Shown("streaming", Words(IF live[m] THEN text[m] ELSE 0))

\* The hub reads the page a request asked for.
ListMessages(g) ==
  /\ fetch[g].stage = "asked"
  /\ fetch' = [fetch EXCEPT ![g] = Request("read", @.after,
       [m \in Message |-> IF Exists(m) /\ @.after < m THEN FromHub(m) ELSE Unseen])]
  /\ UNCHANGED <<now, row, starting, buffer, unsaid, call, fanned, screen, wire, reach, faults, history>>

\* The newest page replaces all; of a later one the messages on it are taken.
Covers(g, m) == fetch[g].after = 0 \/ fetch[g].page[m].state # "none"
PageArrives(g) ==
  /\ fetch[g].stage = "read"
  /\ view' = [m \in Message |-> IF Covers(g, m) THEN fetch[g].page[m] ELSE view[m]]
  /\ settled' = settled \cup {m \in Message :
       /\ fetch[g].page[m].state = "complete" /\ Quiet(m)
       /\ \A h \in Fetch \ {g} : ~Behind(h, m)}
  /\ fetch' = [fetch EXCEPT ![g] = NoRequest]
  /\ UNCHANGED <<now, row, starting, buffer, unsaid, call, fanned, wire, reach, faults, history>>

\* The request, or its answer, is lost: the error is shown and nothing else.
PageFails(g) ==
  /\ fetch[g].stage # "idle"
  /\ fetch' = [fetch EXCEPT ![g] = NoRequest]
  /\ UNCHANGED <<now, row, starting, buffer, unsaid, call, fanned, screen, wire, reach, faults, history>>

\* Stop answers with the replies it ended as they now stand.  The device takes
\* them, unless the chat was left meanwhile or the answer is lost.
StopReturns(c) ==
  /\ call[c].stage = "return"
  /\ \/ /\ open
        /\ view' = [m \in Message |-> IF m \in call[c].ended
                                      THEN Shown("complete", Words(row[m].body)) ELSE view[m]]
        /\ settled' = settled \cup {m \in call[c].ended : Quiet(m) /\ \A g \in Fetch : ~Behind(g, m)}
     \/ UNCHANGED screen
  /\ call' = [call EXCEPT ![c] = NoCall]
  /\ UNCHANGED <<now, row, starting, buffer, unsaid, fanned, wire, fetch, reach, faults, history>>

-----------------------------------------------------------------------------
Tick ==
  /\ now < MaxTime /\ now' = now + 1
  /\ UNCHANGED <<row, starting, buffer, unsaid, call, fanned, device, faults, history>>

Init ==
  /\ now = 1
  /\ row = [m \in Message |-> NoRow]
  /\ starting = [m \in Message |-> "no"]
  /\ live = [m \in Message |-> FALSE]
  /\ text = [m \in Message |-> 0]
  /\ active = [m \in Message |-> 0]
  /\ unsaid = [m \in Message |-> {}]
  /\ call = [c \in Caller |-> NoCall]
  /\ fanned = [m \in Message |-> 0]
  /\ view = [m \in Message |-> Unseen]
  /\ wire = <<>>
  /\ fetch = [g \in Fetch |-> NoRequest]
  /\ open = FALSE
  /\ online = FALSE
  /\ opens = 0
  /\ faults = 0
  /\ accepted = [m \in Message |-> 0]
  /\ said = [m \in Message |-> {}]
  /\ lost = {}
  /\ settled = {}

StartStep(m) == OpenStream(m) \/ AnnounceStarted(m)
CallStep(c) ==
  \/ \E m \in Message : ReadText(c, m)
  \/ FinishMessage(c) \/ AlreadyFinished(c) \/ RemoveBuffer(c) \/ Forget(c)
  \/ AnnounceCompleted(c) \/ StopReturns(c)

Next ==
  \/ \E m \in Message :
       \/ Create(m) \/ StartStep(m) \/ StartFails(m) \/ AppendStream(m) \/ Expire(m)
       \/ \E k \in unsaid[m] : AnnounceDelta(m, k)
       \/ \E c \in AgentCall : AgentFinishes(c, m)
  \/ \E c \in StopCall : PersonStops(c)
  \/ \E c \in Sweeper : SweepStreams(c)
  \/ \E c \in Caller : CallStep(c) \/ FinishFails(c) \/ CallDies(c)
  \/ Take \/ GoesOffline \/ CatchUp \/ CloseChat
  \/ \E g \in Fetch : Load(g) \/ ListMessages(g) \/ PageArrives(g) \/ PageFails(g)
  \/ Tick

Spec == Init /\ [][Next]_vars

\* The sweepers run on a ticker and go on with what they have begun.  Starts,
\* appends, finishes and stops may break off anywhere; the backend, the person
\* and the device owe nothing.
Fairness ==
  /\ WF_vars(Tick)
  /\ \A c \in Sweeper : WF_vars(SweepStreams(c)) /\ WF_vars(CallStep(c))
FairSpec == Spec /\ Fairness

-----------------------------------------------------------------------------
(* Properties *)

Stages == {"idle", "next", "read", "committed", "forget", "removed", "return"}
RowType == [status: {"none", "streaming", "complete"}, body: 0..TextMax, truncated: BOOLEAN,
            stopped: BOOLEAN, at: Time]
CallType == [stage: Stages, owed: SUBSET Text, todo: SUBSET Message,
             ended: SUBSET Message, msg: 0..MaxMessage, text: Text]
ViewType == [state: {"none", "streaming", "complete"}, words: Seq(Nat)]

\* The variables keep the types of the columns, keys and Go values they stand for.
TypeOK ==
  /\ now \in Time
  /\ row \in [Message -> RowType]
  /\ starting \in [Message -> {"no", "created", "opened", "done"}]
  /\ live \in [Message -> BOOLEAN]
  /\ text \in [Message -> Text]
  /\ active \in [Message -> Time]
  /\ unsaid \in [Message -> SUBSET (1..MaxDelta)]
  /\ call \in [Caller -> CallType]
  /\ fanned \in [Message -> Nat]
  /\ view \in [Message -> ViewType]
  /\ wire \in Seq([msg: Message, state: {"streaming", "delta", "complete"}, words: Seq(Nat)])
  /\ fetch \in [Fetch -> [stage: {"idle", "asked", "read"}, after: 0..MaxMessage,
                          page: [Message -> ViewType]]]
  /\ open \in BOOLEAN
  /\ online \in BOOLEAN
  /\ opens \in 0..MaxOpens
  /\ faults \in 0..MaxFaults
  /\ accepted \in [Message -> Text]
  /\ said \in [Message -> SUBSET Text]
  /\ lost \in SUBSET Message
  /\ settled \in SUBSET Message

\* However many calls race to finish a message, the other agents are told of
\* the whole message exactly once.
ToldOnce == \A m \in Message : fanned[m] = IF Complete(m) THEN 1 ELSE 0

\* A finished message never changes again: a late finish, stop or sweep leaves
\* its words and its marks as they are.
FinishedFinal == [][\A m \in Message : Complete(m) => row'[m] = row[m]]_vars

\* No word is lost silently: a message finished and not marked truncated has
\* every word whose append was answered before the backend called the finish
\* that ended it, unless the hub lost its buffer while it was streaming.
WholeUnlessTruncated ==
  [][\A m \in Message : (Streaming(m) /\ row'[m].status = "complete" /\ ~row'[m].truncated) =>
       \/ m \in lost
       \/ \E c \in AgentCall : /\ call[c].msg = m /\ call[c] # call'[c]
                               /\ \A k \in call[c].owed : k <= row'[m].body]_vars

\* Once the device has learnt that a message is complete, with nothing older of
\* it on its way, it shows the message for good, whichever frames, pages and
\* answers come after.  Behind the message there may be words whose append was
\* under way when it was finished, never words the backend was answered before.
ShownWhole ==
  \A m \in settled : 0 \in said[m] =>
    /\ view[m].state = "complete" /\ row[m].body <= Len(view[m].words)
    /\ \A i \in 1..Len(view[m].words) :
         IF i <= row[m].body THEN view[m].words[i] = i ELSE view[m].words[i] \notin said[m]

\* A reply never stays unfinished, whatever the backend does and wherever its
\* start broke off: the sorted set or, later, the rows lead a sweep to it.
StreamsEnd == \A m \in Message : Streaming(m) ~> Complete(m)
=============================================================================
