------------------------------ MODULE Schedules ------------------------------
(***************************************************************************)
(* The schedules of one chat: what a person asks its agent to do at a      *)
(* time, kept by the hub for the person to see and run by the agent's      *)
(* backend.  Person and backend change the same rows, each after a look at *)
(* them, and a message the backend sends for one is checked against it.    *)
(*                                                                         *)
(* What to do (title and instruction) changes like when to do it, so both  *)
(* are the cadence here.  A request refused by validation or by the rate   *)
(* limiter changes nothing and is not a step.                              *)
(***************************************************************************)
EXTENDS Cadence, Sequences

CONSTANTS
    Schedules,      \* ids, in the order they are made
    Requests,       \* the handlers that may run at the same time
    Cadences,       \* what may be asked for
    Starts,         \* the times a run of the model starts at
    MaxSchedules,
    Keep, Idle, NoEvent,
    May, MaxCalls   \* the operations this instance calls, and how many of them

Op == {"request", "offer", "change", "delete", "confirm", "drop", "run", "move", "close", "pass"}
Status == {"pending", "active", "paused"}

ASSUME SchedulesAssumption ==
    /\ Schedules \subseteq Nat /\ Starts \subseteq Nat /\ MaxSchedules \in Nat \ {0}
    /\ May \subseteq Op /\ MaxCalls \in Nat /\ Cadences \subseteq CadenceSet(Nat)
    /\ Keep \notin CadenceSet(Nat) \cup Status \cup BOOLEAN

VARIABLES
    now,
    takes,      \* the chat is open and its agent takes schedules
    row,        \* schedules
    told,       \* the last event about each in the agent's outbox
    home,       \* the time zone of the person's profile
    req,        \* the handlers under way
    left        \* calls still to come

vars == <<now, takes, row, told, home, req, left>>

\* `ran' is last_run_at.  `own' is for the properties only: whether the agent
\* has written the row since the person last did.
Row(state, status, c, created) ==
    [state |-> state, status |-> status, c |-> c, created |-> created, ran |-> NoTime,
     own |-> FALSE]

Live(s) == row[s].state = "live"
CountSchedules == Cardinality({s \in Schedules : Live(s)})
ListPersonSchedulesInZone(z) == {s \in Schedules : Live(s) /\ row[s].c.zone = z}

NextRun(s) == IF Live(s) /\ row[s].status # "paused" THEN Next(row[s].c, now) ELSE NoTime

\* missGrace is shorter than a slot and longer than nothing: one slot late.
MissedAt(s) ==
    LET due == Previous(row[s].c, now - 1) IN
    IF /\ Live(s) /\ row[s].status = "active" /\ due # NoTime
       /\ due >= row[s].created
       /\ row[s].ran = NoTime \/ row[s].ran < due
    THEN due ELSE NoTime

Init ==
    /\ now \in Starts
    /\ takes = TRUE
    /\ row = [s \in Schedules |-> Row("none", "pending", Keep, 0)]
    /\ told = [s \in Schedules |-> NoEvent]
    /\ home \in Zones
    /\ req = [r \in Requests |-> Idle]
    /\ left = MaxCalls

Calls(op) == op \in May /\ left > 0 /\ left' = left - 1
Begins(r, x) == req[r] = Idle /\ req' = [req EXCEPT ![r] = x]
At(r, p) == req[r] # Idle /\ req[r].at = p /\ left' = left
Goto(r, p) == req' = [req EXCEPT ![r].at = p]
Done(r) == req' = [req EXCEPT ![r] = Idle]
Event(type, s) == [type |-> type, status |-> row'[s].status, c |-> row'[s].c]

-----------------------------------------------------------------------------
(* Statements.                                                             *)

CreateSchedule(s, by, c) ==
    row' = [row EXCEPT ![s] = [Row("live", IF by = "user" THEN "pending" ELSE "active", c, now)
                               EXCEPT !.own = (by = "agent")]]

\* What a row is after new values for its cadence and status, Keep where there
\* is none.
Written(x, c, status, by) ==
    [x EXCEPT !.c = IF c = Keep THEN @ ELSE c,
              !.status = IF status = Keep THEN @ ELSE status,
              !.own = (by = "agent")]

UpdateSchedule(s, c, status, by) == Live(s) /\ row' = [row EXCEPT ![s] = Written(@, c, status, by)]

Ended(x, by) == [x EXCEPT !.state = "deleted", !.own = (by = "agent")]
DeleteSchedule(s, by) == Live(s) /\ row' = [row EXCEPT ![s] = Ended(@, by)]

-----------------------------------------------------------------------------
(* Making one.                                                             *)

futureCadence(c) == Next(c, now) # NoTime

RequestSchedule(r, c) ==
    /\ Calls("request") /\ takes /\ futureCadence(c)
    /\ Begins(r, [at |-> "count", by |-> "user", c |-> c])
    /\ UNCHANGED <<now, takes, row, told, home>>

CreateScheduleAsAgent(r, c) ==
    /\ Calls("offer") /\ takes /\ futureCadence(c)
    /\ Begins(r, [at |-> "count", by |-> "agent", c |-> c])
    /\ UNCHANGED <<now, takes, row, told, home>>

\* Whether a chat holds all the schedules it may.
Full == CountSchedules >= MaxSchedules

CountFirst(r) ==
    /\ At(r, "count")
    /\ IF Full THEN Done(r) ELSE Goto(r, "insert")
    /\ UNCHANGED <<now, takes, row, told, home>>

\* The row and, when the person made it, the event that asks the agent to hold it.
InsertSchedule(r) ==
    /\ At(r, "insert")
    /\ LET free == {s \in Schedules : row[s].state = "none"}
           s == Least(free)
       IN  /\ free # {}
           /\ CreateSchedule(s, req[r].by, req[r].c)
           /\ told' = IF req[r].by = "user" THEN [told EXCEPT ![s] = Event("requested", s)] ELSE told
    /\ Done(r)
    /\ UNCHANGED <<now, takes, home>>

-----------------------------------------------------------------------------
(* The person's word.                                                      *)

\* The status a person's change leads to, from the one that was read.
StatusAfter(status, c, paused) ==
    LET s == IF c # Keep THEN "pending" ELSE status IN
    IF paused = TRUE THEN "paused" ELSE IF paused = FALSE /\ s = "paused" THEN "active" ELSE s

ChangeSchedule(r, s, c, paused) ==
    /\ Calls("change")
    /\ Live(s) /\ (c # Keep => futureCadence(c))
    /\ LET to == StatusAfter(row[s].status, c, paused)
       IN  /\ c # Keep \/ to # row[s].status
           /\ Begins(r, [at |-> "write", s |-> s, c |-> c, status |-> to])
    /\ UNCHANGED <<now, takes, row, told, home>>

\* Mutant: the agent is told of the schedule as it was before the change.
WriteTellsOld(r) ==
    /\ At(r, "write")
    /\ LET s == req[r].s
       IN  \/ ~Live(s) /\ UNCHANGED <<row, told>>
           \/ /\ UpdateSchedule(s, req[r].c, req[r].status, "user")
              /\ told' = [told EXCEPT ![s] = [type |-> "updated", status |-> row[s].status, c |-> row[s].c]]
    /\ Done(r)
    /\ UNCHANGED <<now, takes, home>>

\* writeSchedule: the change and the event that tells the agent, together; a
\* schedule deleted meanwhile is not found.
WriteSchedule(r) ==
    /\ At(r, "write")
    /\ LET s == req[r].s
       IN  \/ ~Live(s) /\ UNCHANGED <<row, told>>
           \/ /\ UpdateSchedule(s, req[r].c, req[r].status, "user")
              /\ told' = [told EXCEPT ![s] = Event("updated", s)]
    /\ Done(r)
    /\ UNCHANGED <<now, takes, home>>

EndSchedule(r, s) ==
    /\ Calls("delete")
    /\ Live(s)
    /\ Begins(r, [at |-> "end", s |-> s])
    /\ UNCHANGED <<now, takes, row, told, home>>

EndTx(r) ==
    /\ At(r, "end")
    /\ LET s == req[r].s
       IN  \/ ~Live(s) /\ UNCHANGED <<row, told>>
           \/ DeleteSchedule(s, "user") /\ told' = [told EXCEPT ![s] = Event("deleted", s)]
    /\ Done(r)
    /\ UNCHANGED <<now, takes, home>>

\* updateMe saves the zone; MoveSchedules then reads the schedules of the old
\* one, all at once.
ChangeZone(r, z) ==
    /\ Calls("move")
    /\ z # home /\ home' = z
    /\ Begins(r, [at |-> "list", from |-> home, to |-> z])
    /\ UNCHANGED <<now, takes, row, told>>

Moved(s, z) == [s |-> s, c |-> [row[s].c EXCEPT !.zone = z],
                status |-> IF row[s].status = "paused" THEN "paused" ELSE "pending"]

ListForMove(r) ==
    /\ At(r, "list")
    /\ LET todo == {Moved(s, req[r].to) : s \in ListPersonSchedulesInZone(req[r].from)}
       IN  IF todo = {} THEN Done(r) ELSE req' = [req EXCEPT ![r] = [at |-> "move", todo |-> todo]]
    /\ UNCHANGED <<now, takes, row, told, home>>

\* Each is written as it was read; one deleted meanwhile ends the move.
MoveNext(r) ==
    /\ At(r, "move")
    /\ LET x == CHOOSE x \in req[r].todo : \A y \in req[r].todo : x.s <= y.s
       IN  \/ ~Live(x.s) /\ Done(r) /\ UNCHANGED <<row, told>>
           \/ /\ UpdateSchedule(x.s, x.c, x.status, "user")
              /\ told' = [told EXCEPT ![x.s] = Event("updated", x.s)]
              /\ IF req[r].todo = {x} THEN Done(r)
                 ELSE req' = [req EXCEPT ![r].todo = @ \ {x}]
    /\ UNCHANGED <<now, takes, home>>

-----------------------------------------------------------------------------
(* The agent's word.                                                       *)

\* UpdateScheduleAsAgent looks, and will not resume a paused one.
ConfirmSchedule(r, s, c, status) ==
    /\ Calls("confirm")
    /\ Live(s) /\ (c # Keep \/ status # Keep)
    /\ (c # Keep => futureCadence(c)) /\ ~(status = "active" /\ row[s].status = "paused")
    /\ Begins(r, [at |-> "hold", s |-> s, c |-> c, status |-> status])
    /\ UNCHANGED <<now, takes, row, told, home>>

HoldSchedule(r) ==
    /\ At(r, "hold")
    /\ LET s == req[r].s
       IN  \/ ~Live(s) /\ UNCHANGED row
           \/ UpdateSchedule(s, req[r].c, req[r].status, "agent")
    /\ Done(r)
    /\ UNCHANGED <<now, takes, told, home>>

\* DeleteScheduleAsAgent; its own look at the row changes nothing.
DropSchedule(s) ==
    /\ Calls("drop")
    /\ DeleteSchedule(s, "agent")
    /\ UNCHANGED <<now, takes, told, home, req>>

\* A message for a schedule: the check, the message and the mark are steps apart.
Run(r, s) ==
    /\ Calls("run")
    /\ row[s].state # "none"
    /\ Begins(r, [at |-> "check", s |-> s])
    /\ UNCHANGED <<now, takes, row, told, home>>

\* Whether a message may say a schedule sent it.
TagAllowed(s) == Live(s) /\ row[s].status # "paused"

checkScheduleTag(r) ==
    /\ At(r, "check")
    /\ IF TagAllowed(req[r].s) THEN Goto(r, "store") ELSE Done(r)
    /\ UNCHANGED <<now, takes, row, told, home>>

StoreRun(r) ==
    /\ At(r, "store")
    /\ Goto(r, "ran")
    /\ UNCHANGED <<now, takes, row, told, home>>

\* ranSchedule, whose failure nobody is told of.
MarkScheduleRan(r) ==
    /\ At(r, "ran")
    /\ (row' = [row EXCEPT ![req[r].s].ran = now]) \/ UNCHANGED row
    /\ Done(r)
    /\ UNCHANGED <<now, takes, told, home>>

-----------------------------------------------------------------------------
\* The person blocks the agent, or the agent stops taking schedules.
CloseChat ==
    /\ Calls("close")
    /\ takes /\ takes' = FALSE
    /\ UNCHANGED <<now, row, told, home, req>>

Pass ==
    /\ Calls("pass")
    /\ now' = now + 1
    /\ UNCHANGED <<takes, row, told, home, req>>

Step(r) ==
    \/ CountFirst(r) \/ InsertSchedule(r) \/ WriteSchedule(r) \/ EndTx(r) \/ ListForMove(r)
    \/ MoveNext(r) \/ HoldSchedule(r) \/ checkScheduleTag(r) \/ StoreRun(r) \/ MarkScheduleRan(r)

Call(r) ==
    \/ \E c \in Cadences : RequestSchedule(r, c) \/ CreateScheduleAsAgent(r, c)
    \/ \E s \in Schedules :
          \/ EndSchedule(r, s) \/ Run(r, s)
          \/ \E c \in Cadences \cup {Keep} :
                \/ \E paused \in BOOLEAN \cup {Keep} : ChangeSchedule(r, s, c, paused)
                \/ \E status \in {"active", "paused", Keep} : ConfirmSchedule(r, s, c, status)
    \/ \E z \in Zones : ChangeZone(r, z)

SchedulesNext ==
    \/ \E r \in Requests : Step(r) \/ Call(r)
    \/ \E s \in Schedules : DropSchedule(s)
    \/ CloseChat \/ Pass

Spec == Init /\ [][SchedulesNext]_vars

-----------------------------------------------------------------------------
RowSet == [state : {"none", "live", "deleted"}, status : Status, c : CadenceSet(Nat) \cup {Keep},
           created : Nat, ran : Nat \cup {NoTime}, own : BOOLEAN]
EventSet == [type : {"requested", "updated", "deleted"}, status : Status, c : CadenceSet(Nat)]

MakeRequest == [at : {"count", "insert"}, by : {"user", "agent"}, c : Cadences]
ChangeRequest == [at : {"write", "hold"}, s : Schedules, c : Cadences \cup {Keep}, status : Status \cup {Keep}]
RowRequest == [at : {"end", "check", "store", "ran"}, s : Schedules]
ListRequest == [at : {"list"}, from : Zones, to : Zones]
MovedSet == [s : Schedules, c : CadenceSet(Nat), status : Status]
MoveRequest == [at : {"move"}, todo : (SUBSET MovedSet) \ {{}}]
Request == MakeRequest \cup ChangeRequest \cup RowRequest \cup ListRequest \cup MoveRequest

\* The type of every variable; a schedule there is has a cadence.
TypeOK ==
    /\ now \in Nat /\ takes \in BOOLEAN /\ home \in Zones /\ left \in 0..MaxCalls
    /\ row \in [Schedules -> RowSet]
    /\ \A s \in Schedules : row[s].state # "none" => row[s].c # Keep
    /\ told \in [Schedules -> EventSet \cup {NoEvent}]
    /\ req \in [Requests -> Request \cup {Idle}]

\* What the app shows of a schedule's times is what its cadence means, at every
\* hour of the week and in every zone: its next run and the last time it was
\* due, which Cadence.Next and Previous look for only eight days around; and
\* that an active one was missed exactly when one of its times since it was
\* made has gone by and nothing came from it then or later, with a run still
\* to come unless it was for once.
TimesRight ==
    \A s \in Schedules : Live(s) =>
        /\ NextIsFirst(row[s].c, now, 8 * SlotsPerDay)
        /\ PreviousIsLast(row[s].c, now, 8 * SlotsPerDay)
        /\ row[s].status = "active" =>
             (MissedAt(s) # NoTime <=> \E x \in row[s].created..(now - 1) :
                 RunsAt(row[s].c, x) /\ (row[s].ran # NoTime => row[s].ran < x))
        /\ MissedAt(s) # NoTime /\ row[s].c.repeat # "once" => NextRun(s) # NoTime

\* The agent was told what the person last made of a schedule: unless the
\* agent wrote it since, the last event in its outbox is the row as it is now
\* (writeSchedule writes the event of the row it changed, with it).
LastWordTold ==
    \A s \in Schedules :
        row[s].state # "none" /\ ~row[s].own =>
            /\ told[s].c = row[s].c /\ told[s].status = row[s].status
            /\ told[s].type = "deleted" <=> row[s].state = "deleted"
=============================================================================
