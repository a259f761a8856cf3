------------------------------- MODULE History -------------------------------
(***************************************************************************)
(* A chat as the person and the agent in it read it: pages of history      *)
(* while messages arrive, expire and are put out of sight, the read mark   *)
(* of the person's devices, and the badge.                                 *)
(***************************************************************************)
EXTENDS Storage

CONSTANTS
    Walks,          \* readers going through the history page by page
    PageSize,
    JoinedAt        \* participants.joined_at of the agent

HistoryOp == StorageOp \cup {"read", "clear", "hide", "walk"}

ASSUME HistoryAssumption ==
    PageSize \in Nat \ {0} /\ JoinedAt \in Nat /\ Worlds \subseteq SUBSET HistoryOp

VARIABLES
    readUpTo,   \* participants.read_up_to, 0 for null
    cleared,    \* participants.cleared_before, 0 for null
    hides,      \* message_hides
    walk        \* each reader's walk

view == <<readUpTo, cleared, hides, walk>>
vars == <<store, view>>

Visible(m) == Stored(m) /\ m > cleared /\ m \notin hides
Sees(who, m) == IF who = "agent" THEN Stored(m) /\ msg[m].born >= JoinedAt ELSE Visible(m)
CountUnread == {m \in Msgs : Visible(m) /\ msg[m].from # "user" /\ m > readUpTo}

Init ==
    /\ StorageInit
    /\ readUpTo = 0 /\ cleared = 0 /\ hides = {}
    /\ walk = [w \in Walks |-> Idle]

-----------------------------------------------------------------------------
\* Mutant: the mark is where the last device says it is.
MarkReadAny(m) == readUpTo' = m
\* The mark moves forward only.
MovesMark(m) == readUpTo' = IF readUpTo < m THEN m ELSE readUpTo

MarkRead(m) ==
    /\ Calls("read") /\ Stored(m)
    /\ MovesMark(m)
    /\ UNCHANGED <<now, given, msg, media, bytes, face, req, sweep, pick, cleared, hides, walk>>

NewestOf(S) == IF S = {} THEN 0 ELSE CHOOSE m \in S : \A n \in S : n <= m
\* Everything said so far; null when there is nothing.
ClearConversation == cleared' = NewestOf({m \in Msgs : Stored(m)})

Clear ==
    /\ Calls("clear")
    /\ ClearConversation
    /\ UNCHANGED <<now, given, msg, media, bytes, face, req, sweep, pick, readUpTo, hides, walk>>

HideMessage(m) ==
    /\ Calls("hide") /\ Stored(m)
    /\ hides' = hides \cup {m}
    /\ UNCHANGED <<now, given, msg, media, bytes, face, req, sweep, pick, readUpTo, cleared, walk>>

-----------------------------------------------------------------------------
(* Pages.  `start' is for the properties: what the reader could see of what *)
(* the walk covers when it began.                                           *)

Beyond(x, m) == IF x.back THEN x.cursor = 0 \/ m < x.cursor ELSE m > x.cursor
Nearer(x, m, n) == IF x.back THEN m > n ELSE m < n
LastOf(x, S) == IF S = {} THEN 0 ELSE CHOOSE m \in S : \A n \in S : n = m \/ Nearer(x, n, m)
Rows(x, limit) ==
    LET all == {m \in Msgs : Sees(x.who, m) /\ Beyond(x, m)} IN
    {m \in all : Cardinality({n \in all : Nearer(x, n, m)}) < limit}

NewWalk(who, back, cursor) ==
    [who |-> who, back |-> back, cursor |-> cursor, seen |-> {},
     start |-> {m \in Msgs : Sees(who, m) /\ Beyond([back |-> back, cursor |-> cursor], m)},
     trimmed |-> FALSE, done |-> FALSE]

BeginWalk(w, who, back, cursor) ==
    /\ Calls("walk") /\ walk[w] = Idle
    /\ walk' = [walk EXCEPT ![w] = NewWalk(who, back, cursor)]
    /\ UNCHANGED <<now, given, msg, media, bytes, face, req, sweep, pick, readUpTo, cleared, hides>>

\* From the newest back, for either; forward from what a device has.
ListMessages(w) ==
    \/ BeginWalk(w, "user", TRUE, 0)
    \/ \E m \in Msgs : m <= given /\ BeginWalk(w, "user", FALSE, m)
ListMessagesForAgent(w) == BeginWalk(w, "agent", TRUE, 0)

\* Mutant: the cursor is the row that was asked for to see if there are more.
pageOfExtra(x) ==
    LET rows == Rows(x, PageSize + 1)
        page == Rows(x, PageSize)
    IN  [page |-> page, more |-> rows # page,
         last |-> LastOf(x, rows)]
\* A page, whether there are more, and its last message.
pageOf(x) ==
    LET page == Rows(x, PageSize)
    IN  [page |-> page, more |-> Rows(x, PageSize + 1) # page,
         last |-> LastOf(x, page)]

\* The chat began at 0.  An agent's page does not say when it did.
Trimmed(who) == who = "user" /\ 0 < Window

Turned(x, p) ==
    [x EXCEPT !.seen = @ \cup p.page, !.trimmed = Trimmed(x.who), !.done = ~p.more,
              !.cursor = IF p.more THEN p.last ELSE @]

NextPage(w) ==
    /\ walk[w] # Idle /\ ~walk[w].done
    /\ walk' = [walk EXCEPT ![w] = Turned(@, pageOf(@))]
    /\ UNCHANGED <<store, readUpTo, cleared, hides>>

HistoryStep ==
    \/ Clear
    \/ \E m \in Msgs : MarkRead(m) \/ HideMessage(m)
    \/ \E w \in Walks : ListMessages(w) \/ ListMessagesForAgent(w) \/ NextPage(w)

Next ==
    \/ StorageNext /\ UNCHANGED view
    \/ HistoryStep

Fairness == \A s \in Sweepers : WF_vars(SweepStep(s) /\ UNCHANGED view)

Spec == Init /\ [][Next]_vars /\ Fairness

-----------------------------------------------------------------------------
Walk == [who : {"user", "agent"}, back : BOOLEAN, cursor : Msgs \cup {0}, seen : SUBSET Msgs, start : SUBSET Msgs,
         trimmed : BOOLEAN, done : BOOLEAN]

\* The type of every variable.
TypeOK ==
    /\ StorageTypeOK
    /\ readUpTo \in Msgs \cup {0} /\ cleared \in Msgs \cup {0} /\ hides \subseteq Msgs
    /\ walk \in [Walks -> Walk \cup {Idle}]
    /\ may \in Worlds /\ left \in 0..MaxCalls[may]

\* A reader that went through every page saw all there was when it began and
\* is not out of sight now, whatever arrived, expired or was hidden meanwhile.
\* What it missed and the hub no longer has was past the window, and a person
\* was then told that older messages are gone; an agent is never told (pageOf's
\* cursors, the queries around them, Trimmed).
WholeOrTrimmed ==
    [][\A w \in Walks :
          walk[w] # Idle /\ walk'[w].done /\ ~walk[w].done =>
              \A m \in walk[w].start \ walk'[w].seen :
                  /\ ~Sees(walk[w].who, m)
                  /\ Stored(m) \/ /\ msg[m].born < Window
                                   /\ walk[w].who = "user" => walk'[w].trimmed]_vars
\* What a person has seen or put out of sight never comes back, to the badge or
\* to the chat, while the hub has it: not by a device that is behind (MarkRead),
\* not by clearing again after the newest messages are gone (ClearConversation).
NothingComesBack ==
    [][\A m \in Msgs : Stored(m) /\ Stored(m)' => /\ ~Visible(m) => ~Visible(m)'
                                                  /\ m \notin CountUnread => (m \notin CountUnread)']_vars
=============================================================================
