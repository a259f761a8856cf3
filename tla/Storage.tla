------------------------------- MODULE Storage -------------------------------
(***************************************************************************)
(* What the hub keeps of a chat and how it lets go of it: messages, the    *)
(* files they carry, the taps recorded on them, and the sweeps beside the  *)
(* server that remove uploads nobody sent, messages past the window and    *)
(* files past a person's budget.                                           *)
(*                                                                         *)
(* One chat of one person, who owns every file; an agent's messages carry  *)
(* none here.  A message's id is given before the transaction that stores  *)
(* it and orders history; `born' is the row's created_at.  A storage key   *)
(* and its thumbnail are one thing.  A refused request is not a step.      *)
(***************************************************************************)
EXTENDS Integers, FiniteSets, Functions

CONSTANTS
    Msgs,           \* message ids, 1..n
    Media, Size,    \* files and how many bytes they have
    Requests,       \* handlers that may run at the same time
    Sweepers,       \* the processes of the server, each with its sweeps
    Budget, MessageAge, UnclaimedAge, Batch, MaxTime,
    None, Idle,
    Worlds, MaxCalls    \* which operations a behaviour may call together, and how many calls

StorageOp == {"upload", "send", "reply", "stream", "finish", "tap", "face", "crash"}

ASSUME StorageAssumption ==
    /\ Msgs \subseteq Nat \ {0} /\ Media \subseteq Nat /\ Size \in [Media -> Nat \ {0}]
    /\ Budget \in Nat /\ MessageAge \in Nat \ {0} /\ UnclaimedAge \in Nat /\ Batch \in Nat \ {0}
    /\ MaxTime \in Nat /\ MaxCalls \in [Worlds -> Nat] /\ None \notin Nat

VARIABLES
    now,
    given,      \* the newest message id given
    msg,        \* messages
    media,      \* media
    bytes,      \* what the blob store holds
    face,       \* users.avatar_media_id
    req,        \* handlers under way
    sweep,      \* where each process's retention sweep is
    pick,       \* and its sweep of unclaimed uploads
    may, left   \* the operations this behaviour calls, and the calls still to come

store == <<now, given, msg, media, bytes, face, req, sweep, pick, may, left>>

\* `words' says whether the body has its text, `chosen' whether it says a
\* button was taken, `tap' whose button this message takes.
NoMessage == [st |-> "none", from |-> "user", status |-> "complete", words |-> FALSE,
              chosen |-> FALSE, tap |-> 0, file |-> None, born |-> 0]
NoMedium == [st |-> "none", msg |-> 0, born |-> 0]

Stored(m) == msg[m].st = "live"
HasRow(f) == media[f].st = "live"
Unclaimed(f) == HasRow(f) /\ media[f].msg = 0
Claimed(f) == HasRow(f) /\ media[f].msg # 0
SumClaimedMediaByOwner == SumFunctionOnSet(Size, {f \in Media : Claimed(f)})

StorageInit ==
    /\ now = 0 /\ given = 0
    /\ msg = [m \in Msgs |-> NoMessage]
    /\ media = [f \in Media |-> NoMedium]
    /\ bytes = {}
    /\ face = None
    /\ req = [r \in Requests |-> Idle]
    /\ sweep = [s \in Sweepers |-> Idle]
    /\ pick = [s \in Sweepers |-> {}]
    /\ may \in Worlds /\ left = MaxCalls[may]

Calls(op) == op \in may /\ left > 0 /\ left' = left - 1 /\ may' = may
Begins(r, x) == req[r] = Idle /\ req' = [req EXCEPT ![r] = x]
At(r, p) == req[r] # Idle /\ req[r].at = p /\ UNCHANGED <<may, left>>
Done(r) == req' = [req EXCEPT ![r] = Idle]
Keeps(f) == f # None => Unclaimed(f)

-----------------------------------------------------------------------------
(* Uploads and faces.                                                      *)

\* Mutant: the row is written before the bytes are.
UploadRowFirst(r, f) ==
    /\ Calls("upload")
    /\ ~HasRow(f) /\ media[f].st = "none" /\ f \notin bytes
    /\ Begins(r, [at |-> "record", file |-> f])
    /\ media' = [media EXCEPT ![f] = [st |-> "live", msg |-> 0, born |-> now]]
    /\ UNCHANGED <<now, given, msg, bytes, face, sweep, pick>>
\* Upload: the bytes go to storage first.
Upload(r, f) ==
    /\ Calls("upload")
    /\ media[f].st = "none" /\ f \notin bytes
    /\ bytes' = bytes \cup {f}
    /\ Begins(r, [at |-> "record", file |-> f])
    /\ UNCHANGED <<now, given, msg, media, face, sweep, pick>>

\* Then the row; if that fails the bytes are discarded.
CreateMedia(r) ==
    /\ At(r, "record")
    /\ LET f == req[r].file
       IN  \/ media' = [media EXCEPT ![f] = [st |-> "live", msg |-> 0, born |-> now]] /\ UNCHANGED bytes
           \/ bytes' = bytes \ {f} /\ UNCHANGED media
    /\ Done(r)
    /\ UNCHANGED <<now, given, msg, face, sweep, pick>>

\* UpdateProfile looks at the picture (media.Picture) before it writes.
Picture(f) == Unclaimed(f)

SetFace(r, f) ==
    /\ Calls("face")
    /\ Picture(f)
    /\ Begins(r, [at |-> "face", file |-> f])
    /\ UNCHANGED <<now, given, msg, media, bytes, face, sweep, pick>>

\* The foreign key refuses a picture that is gone by then.
UpdateUserProfile(r) ==
    /\ At(r, "face")
    /\ face' = IF HasRow(req[r].file) THEN req[r].file ELSE face
    /\ Done(r)
    /\ UNCHANGED <<now, given, msg, media, bytes, sweep, pick>>

-----------------------------------------------------------------------------
(* Messages.                                                               *)

\* Mutant: a tap on a message still being written is taken.
ResolveTapAny(m) == Stored(m) /\ msg[m].from = "agent"
\* The button a person taps is on a whole message of an agent.
resolveTap(m) == Stored(m) /\ msg[m].from = "agent" /\ msg[m].status = "complete"

\* create up to its transaction: what the body says, from what was read, and
\* the id.
Compose(r, from, status, file, source) ==
    /\ given + 1 \in Msgs
    /\ given' = given + 1
    /\ Begins(r, [at |-> "store", m |-> given + 1, from |-> from, status |-> status, file |-> file,
                  source |-> source, words |-> source # 0 /\ msg[source].words])
    /\ UNCHANGED <<now, msg, media, bytes, face, sweep, pick>>

SendAsUser(r, f) == Calls("send") /\ Keeps(f) /\ Compose(r, "user", "complete", f, 0)
SendAsAgent(r) == Calls("reply") /\ Compose(r, "agent", "complete", None, 0)
StartStream(r) == Calls("stream") /\ Compose(r, "agent", "streaming", None, 0)
Tap(r, m) == Calls("tap") /\ resolveTap(m) /\ Compose(r, "user", "complete", None, m)

\* The claim: fewer rows than files and the message is rolled back.
ClaimMedia(f, m) == media' = IF f = None THEN media ELSE [media EXCEPT ![f].msg = m]

CreateMessage(x) ==
    [st |-> "live", from |-> x.from, status |-> x.status, words |-> x.status = "complete",
     chosen |-> FALSE, tap |-> x.source, file |-> x.file, born |-> now]

\* recordTap: the whole body as it was read, with the choice on it.
Chosen(row, words) == [row EXCEPT !.words = words, !.chosen = TRUE]
recordTap(rows, x) ==
    IF x.source # 0 /\ Stored(x.source)
    THEN [rows EXCEPT ![x.source] = Chosen(@, x.words)] ELSE rows

\* The transaction of create.
StoreMessage(r) ==
    /\ At(r, "store")
    /\ LET x == req[r]
       IN  \/ ~Keeps(x.file) /\ UNCHANGED <<msg, media>>
           \/ /\ Keeps(x.file) /\ ClaimMedia(x.file, x.m)
              /\ msg' = recordTap([msg EXCEPT ![x.m] = CreateMessage(x)], x)
    /\ Done(r)
    /\ UNCHANGED <<now, given, bytes, face, sweep, pick>>

Finished(row) == [row EXCEPT !.status = "complete", !.words = TRUE]
FinishMessage(m) ==
    /\ Calls("finish")
    /\ Stored(m) /\ msg[m].status = "streaming"
    /\ msg' = [msg EXCEPT ![m] = Finished(@)]
    /\ UNCHANGED <<now, given, media, bytes, face, req, sweep, pick>>

-----------------------------------------------------------------------------
(* Uploads nobody sent.                                                    *)

RowsGone(rows) == [f \in Media |-> IF f \in rows THEN [media[f] EXCEPT !.st = "gone"] ELSE media[f]]

DeleteUnclaimedMedia(s) ==
    LET rows == {f \in Media : Unclaimed(f) /\ media[f].born < now - UnclaimedAge /\ f # face} IN
    /\ pick[s] = {} /\ rows # {}
    /\ media' = RowsGone(rows)
    /\ pick' = [pick EXCEPT ![s] = rows]
    /\ UNCHANGED <<now, given, msg, bytes, face, req, sweep, may, left>>

SweepUnclaimed(s) ==
    /\ pick[s] # {}
    /\ bytes' = bytes \ pick[s]
    /\ pick' = [pick EXCEPT ![s] = {}]
    /\ UNCHANGED <<now, given, msg, media, face, req, sweep, may, left>>

-----------------------------------------------------------------------------
(* The window and the budget: one pass of Sweep.                           *)

SweepAt(s, p) == sweep[s] # Idle /\ sweep[s].at = p
SweepTo(s, x) == sweep' = [sweep EXCEPT ![s] = x]
SweepUnchanged == UNCHANGED <<now, given, face, req, pick, may, left>>

Window == now - MessageAge
Past(m, since) == Stored(m) /\ msg[m].status = "complete" /\ msg[m].born < since
Expired(m) == Past(m, Window)
FirstOf(n, S) == {x \in S : Cardinality({y \in S : y < x}) < n}
ListExpiredMessageIDs(since) == FirstOf(Batch, {m \in Msgs : Past(m, since)})

MessagesGone(ids) == [m \in Msgs |-> IF m \in ids THEN [msg[m] EXCEPT !.st = "gone"] ELSE msg[m]]

\* A pass that would find nothing is not a step.  The window is read once.
Sweep(s) ==
    /\ sweep[s] = Idle
    /\ ListExpiredMessageIDs(Window) # {} \/ SumClaimedMediaByOwner > Budget
    /\ SweepTo(s, [at |-> "messages", since |-> Window])
    /\ SweepUnchanged /\ UNCHANGED <<msg, media, bytes>>

sweepMessages(s) ==
    /\ SweepAt(s, "messages")
    /\ LET since == sweep[s].since
           ids == ListExpiredMessageIDs(since)
       IN  SweepTo(s, IF ids = {} THEN [at |-> "owners"]
                      ELSE [at |-> "files", since |-> since, ids |-> ids])
    /\ SweepUnchanged /\ UNCHANGED <<msg, media, bytes>>

\* Mutant: the messages go first, which a file's foreign key refuses.
DeleteRowsFirst(s) ==
    /\ SweepAt(s, "files")
    /\ SweepTo(s, [at |-> "rows", since |-> sweep[s].since, ids |-> sweep[s].ids, keys |-> {}])
    /\ SweepUnchanged /\ UNCHANGED <<msg, media, bytes>>
\* A profile's foreign key holds its picture: the statement fails and the
\* pass ends.
DeleteMediaOfMessages(s) ==
    /\ SweepAt(s, "files")
    /\ LET rows == {f \in Media : HasRow(f) /\ media[f].msg \in sweep[s].ids}
       IN  \/ face \in rows /\ SweepTo(s, Idle) /\ UNCHANGED media
           \/ /\ face \notin rows
              /\ media' = RowsGone(rows)
              /\ SweepTo(s, [at |-> "rows", since |-> sweep[s].since, ids |-> sweep[s].ids, keys |-> rows])
    /\ SweepUnchanged /\ UNCHANGED <<msg, bytes>>

\* A file's foreign key holds its message.
DeleteMessagesByIDs(s) ==
    /\ SweepAt(s, "rows")
    /\ LET ids == sweep[s].ids
           held == \E f \in Media : HasRow(f) /\ media[f].msg \in ids
           then == IF Cardinality(ids) < Batch THEN [at |-> "owners"]
                   ELSE [at |-> "messages", since |-> sweep[s].since]
       IN  /\ msg' = IF held THEN msg ELSE MessagesGone(ids)
           /\ SweepTo(s, IF held THEN Idle ELSE [at |-> "bytes", keys |-> sweep[s].keys, then |-> then])
    /\ SweepUnchanged /\ UNCHANGED <<media, bytes>>

\* removeBytes: a file that will not go is logged and left.
removeBytes(s) ==
    /\ SweepAt(s, "bytes")
    /\ bytes' \in {bytes \ sweep[s].keys, bytes}
    /\ SweepTo(s, sweep[s].then)
    /\ SweepUnchanged /\ UNCHANGED <<msg, media>>

\* How far an owner is over, read once for the whole pass.
ListMediaOwnersOverBudget(s) ==
    /\ SweepAt(s, "owners")
    /\ LET excess == SumClaimedMediaByOwner - Budget
       IN  SweepTo(s, IF excess > 0 THEN [at |-> "oldest", excess |-> excess] ELSE Idle)
    /\ SweepUnchanged /\ UNCHANGED <<msg, media, bytes>>

Older(f, g) == media[f].born < media[g].born \/ (media[f].born = media[g].born /\ f < g)
\* Mutant: a file goes while the owner is not under budget.
DropsAtLimit(before, excess) == before <= excess
\* Whether a file goes, `before' bytes of older ones having gone.
Drops(before, excess) == before < excess

\* The oldest files, until the excess is gone.
ListClaimedMediaOldestFirst(excess) ==
    LET sent == {f \in Media : Claimed(f)} IN
    {f \in sent : Drops(SumFunctionOnSet(Size, {g \in sent : Older(g, f)}), excess)}

sweepBudget(s) ==
    /\ SweepAt(s, "oldest")
    /\ LET x == sweep[s]
           ids == IF x.excess > 0 THEN ListClaimedMediaOldestFirst(x.excess) ELSE {}
       IN  SweepTo(s, IF ids = {} THEN Idle
                      ELSE [at |-> "drop", ids |-> ids,
                            excess |-> x.excess - SumFunctionOnSet(Size, ids)])
    /\ SweepUnchanged /\ UNCHANGED <<msg, media, bytes>>

DeleteMediaByIDs(s) ==
    /\ SweepAt(s, "drop")
    /\ LET rows == {f \in sweep[s].ids : HasRow(f)}
       IN  \/ face \in rows /\ SweepTo(s, Idle) /\ UNCHANGED media
           \/ /\ face \notin rows
              /\ media' = RowsGone(rows)
              /\ SweepTo(s, [at |-> "bytes", keys |-> rows,
                             then |-> [at |-> "oldest", excess |-> sweep[s].excess]])
    /\ SweepUnchanged /\ UNCHANGED <<msg, bytes>>

SweepStep(s) ==
    \/ Sweep(s) \/ sweepMessages(s) \/ DeleteMediaOfMessages(s) \/ DeleteMessagesByIDs(s)
    \/ removeBytes(s) \/ ListMediaOwnersOverBudget(s) \/ sweepBudget(s) \/ DeleteMediaByIDs(s)

-----------------------------------------------------------------------------
(* What happens to them.                                                   *)

\* A sweep ends where it is: its process dies, or the database fails it.  A
\* handler that dies is one that takes no more steps.
SweepDies(s) ==
    /\ Calls("crash")
    /\ sweep[s] # Idle \/ pick[s] # {}
    /\ SweepTo(s, Idle) /\ pick' = [pick EXCEPT ![s] = {}]
    /\ UNCHANGED <<now, given, msg, media, bytes, face, req>>

Tick ==
    /\ now < MaxTime /\ now' = now + 1
    /\ UNCHANGED <<given, msg, media, bytes, face, req, sweep, pick, may, left>>

Handle(r) ==
    \/ \E f \in Media : Upload(r, f) \/ SetFace(r, f)
    \/ \E f \in Media \cup {None} : SendAsUser(r, f)
    \/ \E m \in Msgs : Tap(r, m)
    \/ SendAsAgent(r) \/ StartStream(r)
    \/ CreateMedia(r) \/ UpdateUserProfile(r) \/ StoreMessage(r)

StorageNext ==
    \/ \E r \in Requests : Handle(r)
    \/ \E m \in Msgs : FinishMessage(m)
    \/ \E s \in Sweepers : DeleteUnclaimedMedia(s) \/ SweepUnclaimed(s) \/ SweepStep(s) \/ SweepDies(s)
    \/ Tick

-----------------------------------------------------------------------------
MessageRow == [st : {"none", "live", "gone"}, from : {"user", "agent"}, status : {"streaming", "complete"},
               words : BOOLEAN, chosen : BOOLEAN, tap : Msgs \cup {0}, file : Media \cup {None},
               born : 0..MaxTime]
MediumRow == [st : {"none", "live", "gone"}, msg : Msgs \cup {0}, born : 0..MaxTime]
Request == [at : {"record", "face"}, file : Media]
           \cup [at : {"store"}, m : Msgs, from : {"user", "agent"}, status : {"streaming", "complete"},
                 file : Media \cup {None}, source : Msgs \cup {0}, words : BOOLEAN]

StorageTypeOK ==
    /\ now \in 0..MaxTime /\ given \in Msgs \cup {0}
    /\ msg \in [Msgs -> MessageRow] /\ media \in [Media -> MediumRow]
    /\ bytes \subseteq Media /\ face \in Media \cup {None}
    /\ req \in [Requests -> Request \cup {Idle}]
    /\ DOMAIN sweep = Sweepers /\ pick \in [Sweepers -> SUBSET Media]

\* A file that may be opened opens: while its row is there its bytes are, at
\* whatever point an upload, a sweep or the server ends (Upload, removeBytes).
RowHasBytes == \A f \in Media : HasRow(f) => f \in bytes

\* Once a message is whole its words stay: a tap, which writes the body it
\* read back, changes nothing but the choice (resolveTap, recordTap).
WordsKept ==
    [][\A m \in Msgs : Stored(m) /\ msg[m].status = "complete" /\ Stored(m)' => msg'[m].words = msg[m].words]_store

\* A sent file goes with its message, past the window, or because its owner is
\* over budget without it: the files newer than it leave no room ("every step
\* deletes what is past the line and nothing else", with one process sweeping).
OnlyPastTheLine ==
    [][\A f \in Media : Claimed(f) /\ ~HasRow(f)' =>
          \/ msg[media[f].msg].born < Window
          \/ SumFunctionOnSet(Size, {g \in Media : Claimed(g) /\ ~Older(g, f)}) > Budget]_store

\* No file is both a profile's picture and a message's.
NoFaceSent == face # None => ~Claimed(face)
\* A message past the window goes, whenever a sweep was broken off ("a step
\* that stops early is finished by the next sweep"); as long as nobody sends
\* the picture their profile shows.
ExpiredGoes == []NoFaceSent => \A m \in Msgs : Expired(m) ~> ~Stored(m)

\* "a step that stops early is finished by the next sweep" (retention.go), and
\* "a face is never what gets removed" (retention.sql): past the window a
\* message goes, whatever file it carries.
SweepFinishes == \A m \in Msgs : Expired(m) ~> ~Stored(m)
=============================================================================
