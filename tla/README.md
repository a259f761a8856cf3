# Cuckoo in TLA+

Cuckoo is a chat hub for AI agents: people talk to agents from a phone, agents
are backends somewhere else, and the hub in the middle keeps the messages and
carries them both ways. This directory models the parts of it where processes,
connections and devices interleave, checks them with TLC on small instances and
proves all but one of their safety properties with TLAPS.

Source paths below are relative to the repository; `internal/` is
`server/internal/`.

## 1. The system

| part | state it keeps | operations | what makes it correct |
|---|---|---|---|
| **delivery outbox** (`internal/delivery`, `store/queries/deliveries.sql`) | one row per event and agent: status, attempts, next attempt, last error | written with the message; claimed under a lease by a worker (webhook) or a socket; recorded, retried, swept; listed | an outcome is final and true; nothing stays pending; nobody who should not hears an event |
| **agent bindings** (`internal/agents`) | one live binding per agent: transport, health | connect again, revoke, record success and failure | unreachable means a window of nothing but failures |
| **agent sockets** (`internal/api/agentapi/socket.go`) | a connection, its phase, what it has pushed | push, acknowledge, nudge, heartbeat, take over | at most one stays per agent, and the binding's status follows it |
| **sending** (`internal/conversations/messages.go`, `attachments.go`) | messages, their keys, the files they claim | create, look up by key | a send is stored once, with its file |
| **mobile outbox** (`apps/mobile/src/outbox`) | a queue in memory and on disk | enqueue, drain, retry, die, open | nothing written down is lost, order is kept, no clock for ever |
| **streamed replies** (`streaming.go`, `streams.go`, `stop.go`) | a row, a buffer in Redis, a sorted set of live streams | start, append, finish, stop, sweep | no word lost silently; told once; finished in the end |
| **realtime hub** (`internal/realtime/hub.go`) | subscriptions and their channels | subscribe, dispatch, drop, close, wait | no send on a closed channel; no gaps; shutdown ends all |
| **realtime bus** (`realtime.go`) | none | publish, receive | every process hears the same order |
| **client socket** (`internal/api/client/socket.go`) | a connection, its presence | frames out, presence | ends when told |
| **mobile chat store** (`apps/mobile/src/chat`) | messages on screen | frames, pages, catch-up, local sends | shows what the hub holds |
| **schedules** (`schedules.go`, `schedules_agent.go`, `cadence.go`) | rows a person and an agent both write: cadence, status, last run | request, offer, change, confirm, drop, delete, run, move to another zone | the agent hears the person's last word; the times shown are the cadence's |
| **pairing and contacts** (`internal/pairing`, `internal/agents`) | agents, codes, contacts and their settings, chats, reports | create, list, delete; mint, withdraw, accept; catalogue, welcome; block, remove, set, report; close the account | a join is whole or not at all; a closed code brings nobody; the agent is told of every block |
| **signing in** (`internal/signin`, `internal/auth`, `internal/ratelimit`) | codes and their attempts, accounts, identities, sessions, a bucket per address | start, verify, touch, sign out, close, register a phone | guesses and devices are bounded; an address has one account |
| **presence and push** (`presence.go`, `internal/push`) | a key per person with a time to live, push tokens | arrive, beat, leave; find devices, notify | presence follows who is looking; an ended session is not buzzed, and no phone for another person |
| **retention and media** (`internal/retention`, `internal/media`) | rows and bytes of files, the window, a budget per person | upload, claim, set a picture, sweep | a row has its bytes; what expired goes, and nothing else |
| **history** (`history.go`, `read.go`, `hiding.go`) | read mark, clear mark, hidden messages | page, mark, clear, hide | a reader misses nothing untold; what was seen or hidden stays so |
| **agent runtime** (`runtime/src`) | jobs, routines, memory | claim, complete, fail, recover, schedule, answer | each job answered once |
| **SDKs** (`sdk/`) | a socket, events seen | reconnect, acknowledge, deduplicate | every event handled |

How they interact. A send commits a message and its delivery rows in one
transaction, then tells the person's devices over the bus and nudges the
agent's sockets. Workers and sockets take due rows by claiming them with a
lease; an outcome goes back to the devices as a tick. An agent's reply may be
streamed: a row in the database, a growing buffer in Redis, frames over the
bus. Bus events reach the connections of each process through its hub. The
server runs as several processes, which share only the database and Redis.

What is hard here: claims that outlive their lease; three parties finishing one
stream; failures between two steps that are not one transaction; answers lost
after the work was done, and the retries that follow; sockets replacing each
other across processes; a dispatcher and a connection closing the same channel;
requests that look at a row and write it a transaction later; rows and bytes
that no transaction holds together.
`PROJECT.json` lists these under `hazards`, each at its line and with the
properties that cover it.

## 2. The modules

### Outbox (with DeliveryPromise, OutboxProofs, MCOutbox)

Rows of `message_deliveries` (`status`, `attempts`, `next`, `created`,
`lastError`), the tick the sender's devices were last told (`told`), the live
binding of each agent, the passes of the workers (`pc`, `attempt`) and the agent
sockets (`conn`, `wire`, `acks`, `nudged`). One action per step that another
process can come between: a worker's pass is FailExpired, FailUnbound,
ClaimWebhook, Resolve, Send, SendDone and Record, and may break off anywhere
(PassFails) or between the two statements of a record (RecordFails); a socket is
Connect, ClaimForSocket, WriteEnvelope, PushDone, then a loop of Nudge,
BackendAcks, Ack and Heartbeat until Disconnect. Statements of SQL are atomic.
`has` records which backends know an event, `eligible` which bindings were live
since it was written, `overran` which events a pass held past their lease; all
three are history.

**DeliveryPromise** is what the outbox promises about an event without any of
that: written once, pending until a backend that knows it makes it delivered or
it fails, final then, and a tick that is an outcome it really had.

### Streams (StreamsProofs, MCStreams)

One or more streamed replies: the row, the buffer with its expiry, the sorted
set (`active`), the calls that finish a stream (the agent's finish, a person's
stop, a sweeper) each as a small program of its own, and one device. Words are
numbered in the order the buffer took them, so a text is a number. A finishing
call reads the text, commits the row if it is still streaming, removes the
buffer and announces; others come in between. The backend calls when it likes,
without awaiting its last call.

What reaches the device travels. Frames are queued in order (`wire`, standing for
the bus, the hub's channel and the socket) and lost with the socket; pages
(`fetch`: asked for, read by the hub, taken or lost) and the answer to a stop go
beside them, so each overtakes the other. `Take` is applyFrame, which adds a delta
to a bubble whatever its state; `PageArrives` replaces the chat by the newest page
or upserts a later one; the chat is left and opened, the socket drops and comes
back. Four variables are history: `accepted` and `said` count and name the deltas
the hub took and had answered when the message was finished, `lost` the messages
whose buffer went while they were streaming, `settled` what the device has
learnt is complete with no older page or frame of it on its way.

### RealtimeHub (RealtimeHubProofs, MCRealtimeHub)

The hub of one process: connections from upgrade to end, their bounded
channels, the dispatcher with its two-step drop of slow connections, and
Close and Wait at shutdown. Events of a principal are numbered by dispatch.

### AgentSockets (MCAgentSockets)

The sockets of one agent over several processes: subscribe, announce on the
bus, leave at anybody else's announcement, mark the binding connected and idle.

### Sending (SendingProofs, MCSending)

The device's outbox and the hub's create, end to end. On the device: the queue
in memory, the document on disk, the writes under way, and `at`, where drain
and send are. On the hub: several calls at once, each checking (block, file),
looking its key up, storing in one transaction and answering. Outside events
(the app dies, an answer is lost, the database fails, the limiter refuses, the
person blocks or retries, a sweep removes an unclaimed upload) happen when the
network or the world says, up to a bound.

### Pairing (PairingProofs, MCPairing)

Accounts, agents, codes, contacts, the count of chats a person and an agent
share (`dms`), the membership events in the agent's outbox (`told`) and the
reports of the last day. A request (`req`) is a person or an owner in the
middle of a handler; the statements of a transaction are one step from the
first that locks a row, a check made before the transaction is a step of its
own. Doors: Accept, AddFromCatalogue, Welcome, then GetContact and JoinKnown or
JoinNew. Decisions: Block, Unblock, UpdateContact field by field, Remove,
Report. Registry: create, update and delete an agent, and closing an account
agent by agent (RetireNext, CloseAccount). An update that matched no row locks
nothing, so the event written after it is a step of its own (Tell).

### SignIn and Notices (NoticesProofs, MCNotices)

SignIn: the bucket of an address, its codes, accounts, identities, sessions and
the order they were last used in. Verify counts the attempt in one statement
and signs in with a transaction of three steps (what it reads and inserts, the
devices past the cap, the commit). What a transaction has not committed is "new"
and no other sees it. Notices EXTENDS SignIn with the sockets of several
processes, the presence key they share, and the notifier: a message lands, the
notifier looks for devices, and sends; dead tokens are forgotten. The person may
mute, block or remove the agent and undo it at any time (Quieten).

### Cadence and Schedules (SchedulesProofs, MCSchedules)

Cadence is a pure module: `Next` and `Previous` search eight days around, as the
code does, over a calendar of `SlotsPerDay` slots; `NextIsFirst` and
`PreviousIsLast` say what they mean by `RunsAt`. Schedules has the rows of one
chat, the last event about each in the agent's outbox, and the handlers of both
sides: each looks at the row, and writes it in a later step.

### Storage and History (HistoryProofs, MCHistory)

Storage: messages with ids given before they commit, files as a row (`media`)
and bytes (`bytes`), the picture of a profile, and the sweep of retention in its
own steps (unclaimed uploads, expired messages in batches, owners over budget),
which may die at any of them. History EXTENDS it with the person's read mark,
clear mark and hidden messages, and readers that walk through pages while all
this goes on. `may` chooses which operations of the world are called together in
one behaviour.

## 3. Runs

| run | shows |
|---|---|
| `outbox_mixed` | One event, one worker whose passes may fail or outlive the lease, one socket, two bindings of either transport. A delivered event is known (`DeliveredIsKnown`), an outcome is final (`OutcomeFinal`), the tick is the row's (`TickTruthful`), unreachable means a window of failures (`UnreachableMeansSilent`), and the outbox refines DeliveryPromise (`KeepsPromise`). |
| `outbox_workers` | Two workers whose passes may fail or outlive the lease: an event is in two hands only if a pass outlived its lease (`LeaseExclusive`), a replaced webhook hears nothing new (`ReachesOnlyEligible`), every event is settled (`Settled`). |
| `streams_finish` | A finish, a stop and a sweeper on a reply longer than a message may be, an impatient backend, a buffer that may expire and one failure anywhere: told once (`ToldOnce`), final (`FinishedFinal`), finished in the end (`StreamsEnd`), and no word answered before the finish was called is lost without the mark, unless the buffer was lost (`WholeUnlessTruncated`). |
| `streams_shown` | A device that drops its socket, leaves and opens the chat while frames, a page and the answer to a stop overtake each other: once it has learnt that a reply is complete, with nothing older on its way, it shows the reply as stored (`ShownWhole`). |
| `hub_dispatch` | Two connections with one-slot channels, three events, losses and shutdown: no send on a closed channel (`NoSendOnClosed`), no gap (`NoGap`), Close ends all it found (`CloseEndsAll`). |
| `sockets_takeover` | Three sockets on two processes with losses: at most one stays (`AtMostOneStays`), and the status follows (`StatusFollows`). |
| `sending_once` | Two sends, one with a file, two concurrent calls, any four outside events: stored once, in order, with the file, nothing lost, no clock for ever (`ExactlyOnce`, `InOrder`, `FileKept`, `NothingLost`, `Settles`). |
| `pairing_doors` | Two requests at a time through every door and every decision: uses, contacts and chats agree (`JoinedWhole`), a withdrawn or expired code brings nobody (`ClosedCodeBringsNobody`), a block and its event are one (`BlockTold`). |
| `signin_devices` | Codes asked for and entered together, phones, sockets in two processes, messages landing: `GuessesBounded`, `OneAccountPerAddress`, `DevicesHeld`, an ended session is not buzzed and a token is one phone's (`BuzzesItsOwn`), and in the end presence is who is connected (`PresenceFollows`). |
| `schedules_words` | Person and agent on the same schedules from every slot of a week: the times shown are the cadence's (`TimesRight`), and unless the agent wrote since, the last event it has is the row (`LastWordTold`). |
| `history_pages` | Uploads, sends, taps, streams, marks and walks while a sweep runs and dies: a row has its bytes (`RowHasBytes`), a tap keeps the words (`WordsKept`), a sent file goes only past the line (`OnlyPastTheLine`), what expired goes (`ExpiredGoes`), a walk misses only what is out of sight or past the window, and a person is told of the latter (`WholeOrTrimmed`), nothing seen or hidden comes back (`NothingComesBack`). |

One run looks at a sentence of the repository that the code does not keep:
`history_face` checks `SweepFinishes`, after "a step that stops early is
finished by the next sweep" (`retention.go:10-12`). A file may be sent after it
became the profile's picture (only the reverse is refused); when its message
expires, the foreign key of the picture refuses the deletion of the file, the
sweep ends there, and every later sweep ends at the same batch. `ExpiredGoes`
of `history_pages` is stated for behaviours in which nobody sends such a file.

Each module has a `TypeOK` that gives the types of its variables; only the
outbox's is on a run's list. The others were checked on the same instances, and
the proof modules prove them (`TypeCorrect`) where their invariants need them.

Every property of a passing run has a mutant in `PROJECT.json`: a plausible bug
in one definition, under which TLC finds the property violated.

### Bounds, and why they are enough

- *Outbox*: one event, because rows do not read each other and batches only
  group them; two bindings, so that one can replace another mid-send; a clock of
  five ticks, which holds a lease, two retries and the end of the window, and is
  longer than any lease, so that a pass may outlive its own.
- *Streams*: one message, since messages share nothing but a listing; two words
  against a limit of one, so that clamping happens; one finishing call of each
  kind, and one failure; the clock runs past the idle time, the stuck time and
  the buffer's life. `streams_shown` leaves the sweeper and failures out (a lost
  frame is there as a dropped socket), and connects or opens the chat three times,
  enough for a page that is read, overtaken and replaced.
- *RealtimeHub*: three events through one slot, so that channels fill while a
  connection reads; two connections, so that one is dropped while another goes on.
- *AgentSockets*: three sockets on two processes: two on one, one on the other.
- *Sending*: two sends, so that order means something, one with a file; two
  calls, so that a late one races its retry; four outside events in all, which
  includes lost-die-retry-sweep and every other four.

- *Pairing*: three people (an owner, a member, one still to sign up), two agents
  of which one is made during the run, one code of one use, two requests at
  once, five calls: enough for two scans of the last use with a withdrawal, or a
  block racing a return. The requests are alike, hence the symmetry.
- *SignIn and Notices*: two addresses, two attempts instead of five, one device
  instead of ten, two requests, two sockets on two processes, seven calls: a
  code, two guesses at once, a phone, a socket and its process's death fit in.
- *Schedules*: two slots a day, two zones a slot apart (so that a local day is
  another day elsewhere), one cadence of each kind, every slot of a week as the
  start, a cap of one, two requests and three calls.
- *Storage and History*: three messages, two files of different size against a
  budget of one, a window of one tick, batches and pages of one, so that every
  loop goes round; one sweeper; four or five calls of the operations `may` holds
  together. Operations that never meet in a property are not called together.

Where a run says `CHECK_DEADLOCK FALSE` the clock or another bound is used up, or
everything has been sent: the system may stop there.

### Fairness

Only the program is fair. Outbox: workers go on and time passes (`Run` loops on
a ticker); owners, backends and sockets owe nothing. Streams: time passes and
the sweepers keep sweeping and go on with what they began (`SweepStreams` runs
on a ticker); starts, finishes and stops may break off anywhere, the backend,
the person and the device owe nothing. RealtimeHub: handlers, the dispatcher's
drop loop and shutdown go on. AgentSockets: handlers, tickers and the bus go on;
the loop's `select` chooses among ready channels at random, so neither
announcements nor pings starve. Sending: the app is opened again, its promises
and its timer run, and the hub finishes calls that reached it; the network may
lose only as often as the bound says, without which no outbox settles. Notices:
the ticker of an open socket beats, the goroutine of a closed one clears the
key, and a key that nobody refreshes runs out. History: a sweep that has begun
goes on and another begins when it ends or dies (`Run` loops on a ticker); how
often a process may die is bounded by the calls. Failures are never fair.

## 4. Proofs

Every invariant and action property that a run checks is also proved, but one
(OnlyPastTheLine, below): for every value of the constants, from the named
assumptions of the modules. The assumptions say that bounds are naturals, that
the sets of handlers are finite where they are counted, that an absent value is
no value, and that leases, batches and days are not empty; TLC evaluates them in
every run. Each theorem rests on an inductive invariant, since what the property
speaks of seldom carries its own reason. TLC checked these invariants on the
instances of the runs before they were proved.

| module | theorem | property |
|---|---|---|
| OutboxProofs | TypeCorrect | TypeOK |
| | DeliveredKnown | DeliveredIsKnown |
| | OutcomesFinal | OutcomeFinal |
| | PromiseKept | KeepsPromise (refinement of DeliveryPromise) |
| | TicksTruthful | TickTruthful |
| | UnreachableSilent | UnreachableMeansSilent |
| | LeasesExclusive | LeaseExclusive |
| | ReachesEligible | ReachesOnlyEligible, with `Conn = {}` |
| StreamsProofs | TellsOnce, FinishesFinal | ToldOnce, FinishedFinal |
| | WordsWhole, ShowsWhole | WholeUnlessTruncated, ShownWhole |
| RealtimeHubProofs | NeverSendsOnClosed, NeverAGap | NoSendOnClosed, NoGap |
| SendingProofs | StoredOnce, NoneIsLost | ExactlyOnce, NothingLost |
| | FilesKept, StoredInOrder | FileKept, InOrder |
| PairingProofs | JoinsAreWhole, ClosedCodes, BlocksAreTold | JoinedWhole, ClosedCodeBringsNobody, BlockTold |
| NoticesProofs | GuessesAreBounded, OneAccountEach | GuessesBounded, OneAccountPerAddress |
| | DevicesAreHeld, BuzzesOwners | DevicesHeld, BuzzesItsOwn |
| SchedulesProofs | LastWordsTold, TimesAreRight | LastWordTold, TimesRight |
| HistoryProofs | FilesOpen, WordsAreKept | RowHasBytes, WordsKept |
| | NeverBack, WalksWhole | NothingComesBack, WholeOrTrimmed |

Each of the modules also proves its types (TypeCorrect).

**Outbox.** *KnownInv*: a row does not say why it is delivered, so the invariant
adds what is on its way to it: a 2xx a worker has not yet recorded and an
acknowledgement a socket has not yet handled are of events a backend knows.
*PromiseInv* adds that events in hand exist; `RowsStep` shows that a step does
one of four things to an event (write, learn, settle, tell), from which come the
refinement, final outcomes and truthful ticks. *HealthInv*: a binding's last
success is not after the start of its streak of failures, and neither is in the
future; UnreachableAfter then follows from the clock. *LeaseInv*: what a worker
has in hand has a lease that ends no later than the row comes due, and no two
have one row, unless a pass outlived its lease. *EligibleInv*: the live binding
of a written event is eligible, and so is what a worker read, however long ago.

**Streams.** *Inv* follows each finishing call by its stage: what it counts as
ended is finished, and one call at most tells. *WordsInv* adds that the buffer
of a message that is streaming and was not lost has every accepted word, and
that a backend's finish which has read its text read at least what it was owed.
*ShownInv* is about what is on its way to the device: behind a completed frame
only late frames of its message travel (the message again, or a word not
answered before the finish), a page that says complete has the message as
stored, and of a settled message no page is older and no frame but late ones is
queued. Each of the four is needed: the words on the screen say nothing about
what will be put over them.

**RealtimeHub.** *ClosedInv*: a connection that has not subscribed is nowhere in
the hub, one that has detached itself is not registered, and nobody is told to
end by Close before Close. *GapInv* adds that a channel is empty until then, so
that it begins with the first event after it.

**Sending.** The device's queue is taken as a row of documents: what is saved,
then the writes under way, the last of them the queue in memory. `Wrote` and
`Landed` say how persist and a write that lands move them. *Flow* ties the writes
to where drain is: at most one write is awaited, and only by drain. *LostInv*: a
send of one document is in every later one or on the hub; a death goes back to
the first document, which is why the later ones alone would not do. *FileInv*:
what may have been posted is uploaded in every document the app can come back
with (`PostedUp`), which needs to know of each document that is behind that drain
waits for it to be written (`UpByPost`); so no second upload takes the place of
a claimed file. *OrderInv*: when drain takes a send up, everything typed before
it is stored, was refused, or died unwritten (`Cleared`), which needs all of
LostInv and that documents are in the order of typing. A late call of an earlier
send then finds its message stored, whatever it was delayed by.

**Pairing.** Steps are classified by who comes to have an agent: nobody, one
person, or a code is made. *Inv* counts the people a code brought against its
uses, with the handlers that stand between a look and a write (`Pending`,
`Fresh`).

**SignIn and Notices.** A code's attempts are bounded by *Guarded*, a fact of
each row. *Owned* has every open account its address through any number of
uncommitted sign-ins. *Devices* is the count of sessions for any subset of the
transactions under way, as if exactly those committed: without the subsets the
limit is not inductive. BuzzesItsOwn rests on tokens being one session's at every
step of a registration, and on sessions never coming back once they ended.

**Schedules and Cadence.** LastWordTold is inductive with the types. TimesRight
is arithmetic: a repeating cadence runs within a week of any time, so the eight
days that `Next` and `Previous` search hold a run if there is one, in the zones
the assumption allows. The least and the last of a set of times come from
well-founded induction, used with a relation given by a lemma since the provers
cannot instantiate an operator.

**Storage and History.** *BytesInv*: an upload being recorded has its bytes, no
two handlers record one file, and what a sweep is about to unlink has no row.
*MsgInv*: an id that is given and not stored is one handler's. *SweepInv*: what a
sweep holds was past the window when it looked, and the window only moves on.
NothingComesBack follows as an action property; *WalkInv* says that what a
reader has not seen and may see is beyond the page it stands at.

Hypotheses that are not assumptions of a module are in the statement, and are the
constants of the run that checks the property. There is one, `Conn = {}`: a socket
claims for its agent until its heartbeat finds the binding replaced, so a
replaced backend may hear new events over a socket that is open.

Only model-checked, and why. Liveness (Settled, StreamsEnd, CloseEndsAll,
AtMostOneStays, StatusFollows, Settles, PresenceFollows, ExpiredGoes) is out of
the prover's reach. OnlyPastTheLine compares sums over sets of files; that a
smaller set has no larger sum is an induction over the set.

For the proofs some definitions of the models are written with named updates
(one operator per row that is written), types are complete in every TypeOK, and
the queue without a send (`Without` in Sending) removes it by its place.

## 5. Not modelled, and known gaps

Not modelled: secrets, signatures, address checks, text validation, wording and
layout; activity frames; blobs, the database and HTTP layers; API keys; the
deletion of old delivery rows and the dry run of retention; the hour a clock
skips or repeats; the agent runtime, the SDKs and the mobile screens.
`PROJECT.json` gives the reason for each under `components`.

What reading the code and checking it showed, beyond what the properties say.
Each is in the models unless it says otherwise.

Delivery and sockets

- *Outcomes of the sweeps.* The sweeps of expired and unbound rows mark them
  failed and tell nobody (`worker.go:99`), although "the user should see "not
  delivered" now" (`deliveries.sql:101-102`): the tick stays until the chat is
  loaded again.
- *Two sockets at once.* Sockets that subscribe before either is announced close
  each other (`socket.go:166`); "only one socket wins" (`protocol.md:67`) holds
  after a reconnect.
- *Rotation of an open socket.* Connecting again replaces the binding, and a
  webhook worker never posts a later event to the old backend; an open socket
  claims for its agent until its next heartbeat finds the binding gone
  (`socket.go:253`), so for up to thirty seconds the old backend is pushed new
  events. `ReachesOnlyEligible` is checked without sockets for that reason.
- *Passes longer than the lease.* Twenty rows, eight at a time, ten seconds each
  already make the thirty seconds of the lease (`worker.go:17`); a slower pass
  shares rows with the next claim, and the backend hears an event twice.
  `LeaseExclusive` says that nothing else makes two workers share one.
- *Two statements of a record.* An attempt is recorded at the row and at the
  binding in two statements; in Outbox they are one step, or the second fails.
  No other process is put between them.
- *One binding in AgentSockets.* Its heartbeat does not look whether the binding
  is still live (`socket.go:284-292`), as it never changes there; in Outbox it
  does.
- *Replay within the lease.* What was pushed to the previous connection and not
  acknowledged comes when its lease of thirty seconds is over.
- *Subscription after Close.* A connection upgraded before and subscribed after
  `Hub.Close` is not told to end; it holds `Wait` until its timeout.
- *Wait after a drop.* A dropped connection is taken out of the hub before its
  own bookkeeping is done, so `Wait` may return while it is under way, although
  `hub.go:38-40` says a connection stays registered until it calls Close itself.

Streams

- *A sweep that fails.* The sweeper removes the buffer whatever its finish said
  (`streaming.go:245`); if the database failed, the agent's own finish then
  stores nothing and does not say truncated. The same goes for a buffer that
  expired. `WholeUnlessTruncated` makes an exception of these (`lost`).
- *Words under way at the finish.* The text is read before the transaction
  (`streaming.go:134`): a delta whose call overlaps the finish may be accepted,
  announced and not stored, with no mark. A backend that awaits its appends
  before it finishes loses none.
- *A stop before the buffer.* A stop between the commit of the row and the
  opening of its buffer is followed by appends that are accepted
  (`streaming.go:45`; `protocol.md:190-193` says they are refused).
- *Entries of finished streams.* Finishing what is already finished is no error,
  so the sweep does not take it off the sorted set, contrary to the comment at
  `streaming.go:242`; a listing holds a hundred.
- *Bubble after a missed completion.* Catching up asks for newer messages than
  the newest known, so a device that missed the completion of a reply it
  already shows keeps the open bubble until the chat is loaded again.
- *Late words.* A delta accepted just before a stop may be published after the
  completion; the device appends it to the finished bubble until the next load.
- *Doubled words.* A page or the answer to a stop has words whose deltas are
  still queued; appendDelta (`store.ts:116-124`) adds them again, to a complete
  bubble too. The completed frame behind them puts that right; if the socket
  drops before it, the bubble stays doubled until the chat is loaded again.
  `ShownWhole` begins when nothing of the message is queued, or with that frame.
- *An older page.* A page read before a reply was finished, or before it was
  there, may arrive after the completed frame: the bubble is open again or
  gone until the next load (`controller.ts:210-219`).
- *A start after the end.* When a stop or a sweep overtakes the start of a
  stream, `message.started` follows `message.completed` and empties the bubble;
  `ShownWhole` speaks of messages whose start was answered.
- *Device, not modelled.* The death of the app, which recalls an older cache,
  the first connection of a session (it asks for nothing), catching up by more
  than one page, and a page whose rows and buffered texts are read with a finish
  between them: the page then says streaming, as one read before the finish
  does.
- *stop.requested.* The event by which a stop tells the agent (`stop.go:79-98`)
  is one of Outbox's events and not in Streams.

Sending and history

- *A retry with a file* is refused: its file is taken, by the message being
  retried, and that is checked before the key is looked up (`messages.go:69`,
  `attachments.go:89`; `api/client/messages.go:185-186` promises the message
  already created).
- *Written before anything else.* A drain that is already running picks a new
  send up before it is on disk. If the app dies then, the send may reach the
  hub without the device knowing; `InOrder` speaks of sends that were written.
- *A write that fails.* The app's cache swallows it (`cache.ts:65-82`); in Sending
  every write lands or is lost with the app.
- *Retry* in the outbox asks nothing of the send (`outbox.ts:136-144`); in Sending
  it is tapped on failed sends, the only bubbles that offer it (`Bubble.tsx:43`).
- *An agent's page never says trimmed.* A person's does; when older messages
  expire while an agent pages, it is told nothing (`history.go:95-121`,
  `api/agentapi/messages.go:19-25`). `WholeOrTrimmed` asks it for people only.
- *Ids before commits.* A message that commits late with a smaller id is below a
  mark, a clear or a cursor that has passed it.
- *Two sweepers.* Two processes that read the same excess each delete their
  worth of files; `OnlyPastTheLine` is checked with one.
- *Bytes without a row* are looked for by nobody after a crash between the two.

Pairing and signing in

- A spent code shows no card, so scanning it again does not bring back an agent
  that was removed.
- Remove answers without removing when its update matched no row.
- Two blocks at once tell the agent twice; an event written after an update that
  matched nothing may come after a later one.
- The cap of pins and the one report a day are counted before they are used and
  may be passed by requests that run together; so may the cap of devices
  (`DevicesHeld` says by how much) and that of schedules.
- An agent made while its owner's account is being closed outlives it.
- One code entered twice at once signs in twice: marking it used does not ask
  whether it is.
- A phone that changes hands, a session that ends or a chat that is muted between
  the notifier's look and its send still gets that one notice.
- The provider's word that a token is dead clears it from whichever session has it
  by then, one that has just registered it included.
- The time of a sign-in is taken before it waits for its code's lock
  (`signin/service.go:139-140`); in SignIn after. No property compares them.

Schedules

- An agent's late confirmation undoes a pause (`schedules_agent.go:137`), and
  pausing and resuming makes a schedule active that no agent confirmed.
- MissedAt in the code allows a run a minute (`schedules.go:87`), which is less
  than a slot of the model's calendar.
- After a change, MissedAt reports times the schedule was not set to then.
- The move to another zone ends at the first schedule deleted meanwhile.

## 6. Plan

Done: Outbox with its promise, Streams, RealtimeHub, AgentSockets, Sending,
Pairing, SignIn with Notices, Schedules with Cadence, Storage with History, and
the proofs of all their safety properties but OnlyPastTheLine. Next, in order of
importance:

1. **Abstract specifications** for the other components, as DeliveryPromise is
   for the outbox: a mailbox that takes each send once and in order, which
   Sending implements; a reply that is open and then final, which Streams
   implements. The invariants proved here are what their refinements need.
2. **Safety of AgentSockets**: a socket that was announced before another on
   the bus, and is subscribed, has that announcement waiting or is leaving.
3. **Jobs** (runtime): claim, heartbeat, failure, recovery of abandoned jobs,
   and the scheduler's runs; against a queue that hands each job to one worker
   at a time.
4. **ChatStore**: local sends, frames, pages on their way, against the promise
   that the screen shows each message once; composed with Sending.
5. **SDK agent**: reconnection, the `since` cursor against ids that commit out
   of order, duplicate suppression.
