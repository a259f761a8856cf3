------------------------------ MODULE Sending -------------------------------
(***************************************************************************)
(* How a person's message gets from a device to the hub once: the outbox   *)
(* of the app (apps/mobile/src/outbox) and the hub's create                *)
(* (conversations/messages.go), over a network that loses answers.         *)
(*                                                                         *)
(* A send is named by its idempotency key.  The device keeps its queue in  *)
(* memory and writes it down whole after each change; what is written is   *)
(* what the app finds when it is opened again.  The storage writes in the  *)
(* order it is asked to.  The hub handles calls concurrently, each in      *)
(* steps that read or write the database once.  A send carries at most one *)
(* file, uploaded before the message that names it.                        *)
(***************************************************************************)
EXTENDS Integers, FiniteSets, Sequences, SequencesExt

CONSTANTS
  Send,       \* the idempotency keys, one per message typed
  HasFile,    \* the sends that carry a file
  Call,       \* the calls the hub may have in hand at a time
  None,       \* no send, no call
  May,        \* which things outside the program happen
  MaxEvents   \* bound on how many of them do, in all

Event == {"death", "lost", "error", "limit", "block", "sweep", "retry"}

ASSUME SendingAssumption ==
  /\ HasFile \subseteq Send /\ None \notin Send \cup Call
  /\ May \subseteq Event /\ MaxEvents \in Nat

VARIABLES
  items,     \* Outbox.items, oldest first
  saved,     \* the outbox document in the device's cache
  writes,    \* the writes of it under way, and what waits for each
  at,        \* where drain and send are
  sending,   \* the send drain is busy with
  call,      \* the call it awaits
  timer,     \* a retry is scheduled
  up,        \* the app is running
  calls,     \* the calls in the hub's hands
  rows,      \* the messages stored, by key, in the order of their commits
  media,     \* per send, the file uploaded for it as its media row stands
  open,      \* the person has not blocked the agent
  typed,     \* history: the sends in the order they were typed
  kept,      \* history: the sends that were written down
  refused,   \* history: the sends the device was told had failed
  left       \* how many outside events may still happen

device == <<items, writes, at, sending, call, timer>>
hub == <<calls, rows, media, open>>
history == <<typed, kept, refused>>
vars == <<device, saved, up, hub, history, left>>

Happens(e) == e \in May /\ left > 0 /\ left' = left - 1

-----------------------------------------------------------------------------
(* The outbox of the device.                                               *)

Item(k, state, uploaded) == [key |-> k, state |-> state, uploaded |-> uploaded]
Queued(doc) == {i \in DOMAIN doc : doc[i].state = "queued"}
WithState(k, state) ==
  [i \in DOMAIN items |-> IF items[i].key = k THEN Item(k, state, items[i].uploaded) ELSE items[i]]
WithUpload(k) ==
  [i \in DOMAIN items |-> IF items[i].key = k THEN Item(k, items[i].state, TRUE) ELSE items[i]]
\* A key is in the queue once, so the filter takes out one.
Without(k) == RemoveAt(items, CHOOSE i \in DOMAIN items : items[i].key = k)

\* persist: the whole queue, then what awaits it goes on.
Persist(doc, next) ==
  /\ items' = doc
  /\ writes' = Append(writes, [doc |-> doc, next |-> next])

\* drain: one at a time.
Drain == IF at = "idle" THEN at' = "loop" /\ timer' = FALSE ELSE UNCHANGED <<at, timer>>

Enqueue(k) ==
  /\ up /\ k \notin Range(typed)
  /\ Persist(Append(items, Item(k, "queued", FALSE)), "drain")
  /\ typed' = Append(typed, k)
  /\ UNCHANGED <<at, sending, call, timer, saved, up, hub, kept, refused, left>>

\* A person taps retry on a send that failed.
Retry(k) ==
  /\ up /\ Happens("retry")
  /\ \E i \in DOMAIN items : items[i].key = k /\ items[i].state = "failed"
  /\ Persist(WithState(k, "queued"), "drain")
  /\ UNCHANGED <<at, sending, call, timer, saved, up, hub, history>>

\* A write lands, and enqueue, retry or send goes on.
Written ==
  /\ up /\ writes # <<>>
  /\ saved' = Head(writes).doc
  /\ writes' = Tail(writes)
  /\ kept' = kept \cup {i.key : i \in Range(saved')}
  /\ IF Head(writes).next = "drain" THEN Drain
     ELSE at' = Head(writes).next /\ UNCHANGED timer
  /\ UNCHANGED <<items, sending, call, up, hub, typed, refused, left>>

\* The socket opens or the platform says the network is back.
Reconnect ==
  /\ up /\ at = "idle" /\ items # <<>>
  /\ Drain
  /\ UNCHANGED <<items, writes, sending, call, saved, up, hub, history, left>>

RetryTimer ==
  /\ up /\ timer
  /\ timer' = FALSE
  /\ at' = IF at = "idle" THEN "loop" ELSE at
  /\ UNCHANGED <<items, writes, sending, call, saved, up, hub, history, left>>

\* Mutant: the newest first.
NextItemNewest(i) == i \in Queued(items) /\ \A j \in Queued(items) : j <= i
\* The oldest queued item.
NextItem(i) == i \in Queued(items) /\ \A j \in Queued(items) : i <= j

DrainNext ==
  /\ up /\ at = "loop"
  /\ \E i \in DOMAIN items :
       /\ NextItem(i)
       /\ sending' = items[i].key
       /\ at' = IF items[i].key \in HasFile /\ ~items[i].uploaded THEN "upload" ELSE "post"
  /\ UNCHANGED <<items, writes, call, timer, saved, up, hub, history, left>>

DrainEnds ==
  /\ up /\ at = "loop" /\ Queued(items) = {}
  /\ at' = "idle"
  /\ UNCHANGED <<items, writes, sending, call, timer, saved, up, hub, history, left>>

\* Mutant: nothing is scheduled.
UnreachableQuiet == at' = "idle" /\ sending' = None /\ call' = None /\ UNCHANGED timer
\* A NetworkError: scheduleRetry, and drain returns.
Unreachable == at' = "idle" /\ sending' = None /\ call' = None /\ timer' = TRUE

\* The hub said no: the send waits for a person.
Fails(k) ==
  /\ Persist(WithState(k, "failed"), "loop")
  /\ at' = "writing" /\ sending' = None /\ call' = None
  /\ refused' = refused \cup {k}

UploadDone ==
  /\ up /\ at = "upload"
  /\ media' = [media EXCEPT ![sending] = "free"]
  /\ Persist(WithUpload(sending), "post") /\ at' = "writing"
  /\ UNCHANGED <<sending, call, timer, saved, up, calls, rows, open, history, left>>

\* The file may have reached the hub all the same; nothing will name it.
UploadLost ==
  /\ up /\ at = "upload" /\ Happens("lost")
  /\ Unreachable
  /\ UNCHANGED <<items, writes, saved, up, hub, history>>

UploadFails ==
  /\ up /\ at = "upload" /\ Happens("error")
  /\ Fails(sending)
  /\ UNCHANGED <<timer, saved, up, hub, typed, kept>>

Stage(c, k, stage) == calls' = [calls EXCEPT ![c] = [key |-> k, at |-> stage]]
At(c, stages) == calls[c] # None /\ calls[c].at \in stages
Free(c) == calls' = [calls EXCEPT ![c] = None]

Post ==
  /\ up /\ at = "post"
  /\ \E c \in Call : calls[c] = None /\ Stage(c, sending, "sent") /\ call' = c
  /\ at' = "waiting"
  /\ UNCHANGED <<items, writes, sending, timer, saved, up, rows, media, open, history, left>>

\* Mutant: a refusal is taken for an answer.
AnsweredAnyhow ==
  /\ up /\ at = "waiting" /\ At(call, {"answered", "refused"})
  /\ Persist(Without(sending), "loop")
  /\ at' = "writing" /\ sending' = None /\ call' = None
  /\ Free(call)
  /\ UNCHANGED <<timer, saved, up, rows, media, open, history, left>>

Answered ==
  /\ up /\ at = "waiting" /\ At(call, {"answered"})
  /\ Persist(Without(sending), "loop")
  /\ at' = "writing" /\ sending' = None /\ call' = None
  /\ Free(call)
  /\ UNCHANGED <<timer, saved, up, rows, media, open, history, left>>

Refused ==
  /\ up /\ at = "waiting" /\ At(call, {"refused"})
  /\ Fails(sending)
  /\ Free(call)
  /\ UNCHANGED <<timer, saved, up, rows, media, open, typed, kept, left>>

\* The request or its answer is lost; a call that reached the hub goes on.
PostLost ==
  /\ up /\ at = "waiting" /\ Happens("lost")
  /\ Unreachable
  /\ \/ UNCHANGED calls
     \/ At(call, {"sent"}) /\ Free(call)
  /\ UNCHANGED <<items, writes, saved, up, rows, media, open, history>>

\* The app dies or is closed: only what was written down is left.
Die ==
  /\ up /\ up' = FALSE /\ Happens("death")
  /\ items' = <<>> /\ writes' = <<>> /\ at' = "idle" /\ timer' = FALSE
  /\ sending' = None /\ call' = None
  /\ UNCHANGED <<saved, hub, history>>

\* The constructor loads what was saved, start drains it.
Open ==
  /\ ~up /\ up' = TRUE
  /\ items' = saved /\ at' = "loop"
  /\ UNCHANGED <<writes, sending, call, timer, saved, hub, history, left>>

-----------------------------------------------------------------------------
(* The hub: SendAsUser and create, one call.                               *)

Stored(k) == k \in Range(rows)
\* composeBody, resolveAttachments: the file is there and nobody carries it.
Sendable(k) == k \in HasFile => media[k] = "free"

\* ensureOpen and composeBody, before anything is looked up by key.
CallChecks(c) ==
  /\ At(c, {"sent"})
  /\ Stage(c, calls[c].key, IF open /\ Sendable(calls[c].key) THEN "checked" ELSE "refused")
  /\ UNCHANGED <<device, saved, up, rows, media, open, history, left>>

\* findByKey: a retry gets the message it already made.
CallFinds(c) ==
  /\ At(c, {"checked"})
  /\ Stage(c, calls[c].key, IF Stored(calls[c].key) THEN "answered" ELSE "looked")
  /\ UNCHANGED <<device, saved, up, rows, media, open, history, left>>

CallLimited(c) ==
  /\ At(c, {"looked"}) /\ Happens("limit")
  /\ Stage(c, calls[c].key, "refused")
  /\ UNCHANGED <<device, saved, up, rows, media, open, history>>

\* Mutant: no unique index on the sender and the key.
CallStoresTwice(c) ==
  LET k == calls[c].key IN
  /\ At(c, {"looked"})
  /\ IF k \in HasFile /\ media[k] # "free"
     THEN Stage(c, k, "refused") /\ UNCHANGED <<rows, media>>
     ELSE /\ rows' = Append(rows, k)
          /\ media' = IF k \in HasFile THEN [media EXCEPT ![k] = "sent"] ELSE media
          /\ Stage(c, k, "stored")
  /\ UNCHANGED <<device, saved, up, open, history, left>>

\* Mutant: the claim's row count is not looked at.
CallStoresUnclaimed(c) ==
  LET k == calls[c].key IN
  /\ At(c, {"looked"})
  /\ IF Stored(k) THEN Stage(c, k, "answered") /\ UNCHANGED <<rows, media>>
     ELSE /\ rows' = Append(rows, k)
          /\ media' = IF k \in HasFile /\ media[k] = "free" THEN [media EXCEPT ![k] = "sent"] ELSE media
          /\ Stage(c, k, "stored")
  /\ UNCHANGED <<device, saved, up, open, history, left>>

\* The transaction: the row, its claim on the file and its deliveries.  The
\* unique index turns a race of two retries into an answer; a file that is
\* gone by now rolls the message back.
CallStores(c) ==
  LET k == calls[c].key IN
  /\ At(c, {"looked"})
  /\ \/ Stored(k) /\ Stage(c, k, "answered") /\ UNCHANGED <<rows, media>>
     \/ ~Stored(k) /\ ~Sendable(k) /\ Stage(c, k, "refused") /\ UNCHANGED <<rows, media>>
     \/ /\ ~Stored(k) /\ Sendable(k)
        /\ rows' = Append(rows, k)
        /\ media' = IF k \in HasFile THEN [media EXCEPT ![k] = "sent"] ELSE media
        /\ Stage(c, k, "stored")
  /\ UNCHANGED <<device, saved, up, open, history, left>>

\* decorate, notify, nudge.
CallAnswers(c) ==
  /\ At(c, {"stored"})
  /\ Stage(c, calls[c].key, "answered")
  /\ UNCHANGED <<device, saved, up, rows, media, open, history, left>>

\* The database fails this step, after the commit too.
CallErrs(c) ==
  /\ At(c, {"sent", "checked", "looked", "stored"}) /\ Happens("error")
  /\ Stage(c, calls[c].key, "refused")
  /\ UNCHANGED <<device, saved, up, rows, media, open, history>>

\* The answer of a call nobody awaits any more.
Unheard(c) ==
  /\ c # call /\ At(c, {"answered", "refused"})
  /\ Free(c)
  /\ UNCHANGED <<device, saved, up, rows, media, open, history, left>>

\* The person blocks the agent, or takes it back.
Block ==
  /\ Happens("block") /\ open' = ~open
  /\ UNCHANGED <<device, saved, up, calls, rows, media, history>>

\* media.SweepUnclaimed: an upload no message claimed in time.
SweepUnclaimed(k) ==
  /\ media[k] = "free" /\ Happens("sweep")
  /\ media' = [media EXCEPT ![k] = "none"]
  /\ UNCHANGED <<device, saved, up, calls, rows, open, history>>

-----------------------------------------------------------------------------
Init ==
  /\ items = <<>> /\ saved = <<>> /\ writes = <<>>
  /\ at = "idle" /\ sending = None /\ call = None /\ timer = FALSE
  /\ up = TRUE
  /\ calls = [c \in Call |-> None]
  /\ rows = <<>> /\ media = [k \in Send |-> "none"] /\ open = TRUE
  /\ typed = <<>> /\ kept = {} /\ refused = {}
  /\ left = MaxEvents

DeviceStep == Written \/ RetryTimer \/ DrainNext \/ DrainEnds \/ UploadDone \/ Post \/ Answered \/ Refused
HubStep(c) ==
  CallChecks(c) \/ CallFinds(c) \/ CallStores(c) \/ CallAnswers(c) \/ Unheard(c)

Next ==
  \/ DeviceStep \/ Reconnect \/ UploadLost \/ UploadFails \/ PostLost \/ Die \/ Open \/ Block
  \/ \E k \in Send : Enqueue(k) \/ Retry(k) \/ SweepUnclaimed(k)
  \/ \E c \in Call : HubStep(c) \/ CallLimited(c) \/ CallErrs(c)

Spec == Init /\ [][Next]_vars

\* The app is opened again and its promises and its timer run on; the hub
\* finishes the calls that reached it.
Fairness ==
  /\ WF_vars(DeviceStep) /\ WF_vars(Open)
  /\ \A c \in Call : WF_vars(HubStep(c))
FairSpec == Spec /\ Fairness

-----------------------------------------------------------------------------
(* Properties *)

Items == Seq([key : Send, state : {"queued", "failed"}, uploaded : BOOLEAN])

\* The variables keep the types of the fields they stand for, and a call is
\* awaited exactly while drain waits for one.
TypeOK ==
  /\ items \in Items /\ saved \in Items
  /\ writes \in Seq([doc : Items, next : {"drain", "loop", "post"}])
  /\ at \in {"idle", "loop", "upload", "writing", "post", "waiting"}
  /\ sending \in Send \cup {None} /\ timer \in BOOLEAN /\ up \in BOOLEAN /\ open \in BOOLEAN
  /\ call \in Call \cup {None} /\ (at = "waiting" <=> call # None)
  /\ calls \in [Call -> {None} \cup [key : Send,
       at : {"sent", "checked", "looked", "stored", "answered", "refused"}]]
  /\ rows \in Seq(Send) /\ media \in [Send -> {"none", "free", "sent"}]
  /\ typed \in Seq(Send) /\ kept \subseteq Send /\ refused \subseteq Send
  /\ left \in 0..MaxEvents

\* "lands exactly once": however often a send is retried, by the timer, by a
\* person or after the app died, and whichever calls race, it is stored once.
ExactlyOnce == \A i, j \in DOMAIN rows : rows[i] = rows[j] => i = j

\* A stored message that names a file has it: no sweep and no other call came
\* between the check and the claim.
FileKept == \A k \in Range(rows) \cap HasFile : media[k] = "sent"

\* "a send typed with no signal is not lost when the app is closed": what was
\* once written down is still written down, or on the hub.
NothingLost == \A k \in kept : k \in {i.key : i \in Range(saved)} \/ Stored(k)

\* "order matters more than speed": sends that were written down and never
\* refused are stored in the order they were typed, late calls included.
InOrder ==
  \A i, j \in DOMAIN rows : i < j /\ {rows[i], rows[j]} \subseteq kept \ refused =>
    \E m, n \in DOMAIN typed : m < n /\ typed[m] = rows[i] /\ typed[n] = rows[j]

Waits(k) == \E i \in Queued(saved) : saved[i].key = k

\* A send that was written down does not keep its clock: it is stored and
\* taken off the queue, or refused and shown as such.
Settles == \A k \in Send : Waits(k) ~> ~Waits(k)
=============================================================================
