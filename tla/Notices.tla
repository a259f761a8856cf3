------------------------------- MODULE Notices -------------------------------
(***************************************************************************)
(* Telling somebody's phone about a message they are not watching land:    *)
(* the presence of the sockets a person holds, the notifier, and the       *)
(* devices of SignIn that it reaches.                                      *)
(*                                                                         *)
(* Presence is one key per person in Redis with a time to live, shared by  *)
(* every socket of that person and refreshed by each of them.  Messages    *)
(* are those of one agent, which a person may mute, block or remove.       *)
(***************************************************************************)
EXTENDS SignIn

CONSTANTS
    Sockets,    \* connections of the app
    Process     \* the hub process that holds each socket

NoticeOp == {"connect", "close_socket", "kill", "quiet", "land"}

ASSUME NoticesAssumption == May \subseteq SignInOp \cup NoticeOp /\ DOMAIN Process = Sockets

VARIABLES
    holder,     \* whose session each socket was opened with, or NoUser
    leaving,    \* sockets that closed and have still to clear their person's key
    present,    \* the people with a presence key
    quiet       \* the people who have the agent muted, blocked or removed

noticeVars == <<holder, leaving, present, quiet>>
vars == <<signInVars, noticeVars>>

Target == [s : Nat, k : PushTokens]
\* `over' is for the properties: the person's sessions that had ended by the
\* time the message landed.
NoticeRequest ==
    [at : {"look"}, u : Nat, over : SUBSET Nat]
    \cup [at : {"send"}, u : Nat, over : SUBSET Nat, to : SUBSET Target]

\* The type of every variable of the two modules.
TypeOK ==
    /\ bucket \in [Addresses -> 0..Burst]
    /\ codes \in [Addresses -> Seq(CodeRow)]
    /\ accounts \in Seq({"new", "open", "closed"})
    /\ identity \in [Addresses -> (DOMAIN accounts) \cup {NoUser}]
    /\ sessions \in Seq(SessionRow) /\ \A s \in DOMAIN sessions : sessions[s].user \in DOMAIN accounts
    /\ lately \in Seq(DOMAIN sessions) /\ Len(lately) = Len(sessions)
    /\ ToSet(lately) = DOMAIN sessions
    /\ req \in [Requests -> SignInRequest \cup NoticeRequest \cup {Idle}]
    /\ left \in 0..MaxCalls
    /\ holder \in [Sockets -> DOMAIN accounts \cup {NoUser}]
    /\ leaving \in SUBSET Sockets
    /\ present \subseteq DOMAIN accounts /\ quiet \subseteq DOMAIN accounts

Init ==
    /\ SignInInit
    /\ holder = [c \in Sockets |-> NoUser]
    /\ leaving = {}
    /\ present = {}
    /\ quiet = {}

Connected(u) == {c \in Sockets : holder[c] = u /\ c \notin leaving}

-----------------------------------------------------------------------------
(* Presence.                                                               *)

Arrived(u) == present' = present \cup {u}
Left(u) == present' = present \ {u}
Watching(u) == u \in present

\* socket: the first mark may fail, and is made good by the next heartbeat.
Connect(c, s) ==
    /\ Calls("connect")
    /\ holder[c] = NoUser
    /\ AuthenticateSession(s)
    /\ holder' = [holder EXCEPT ![c] = sessions[s].user]
    /\ Arrived(sessions[s].user) \/ UNCHANGED present
    /\ UNCHANGED <<rows, req, leaving, quiet>>

\* Mutant: a connection says it is there once, and never again.
BeatOnce(c) == FALSE /\ UNCHANGED vars
\* The heartbeat of a connection that is up.
Beat(c) ==
    /\ holder[c] # NoUser /\ c \notin leaving /\ ~Watching(holder[c])
    /\ Arrived(holder[c])
    /\ UNCHANGED <<signInVars, holder, leaving, quiet>>

CloseSocket(c) ==
    /\ Calls("close_socket")
    /\ holder[c] # NoUser /\ c \notin leaving
    /\ leaving' = leaving \cup {c}
    /\ UNCHANGED <<rows, req, holder, present, quiet>>

\* The goroutine behind a closed socket clears the key, whoever else holds it;
\* when Redis does not answer it leaves the key to run out.
ClearPresence(c) ==
    /\ c \in leaving
    /\ leaving' = leaving \ {c}
    /\ holder' = [holder EXCEPT ![c] = NoUser]
    /\ Left(holder[c]) \/ UNCHANGED present
    /\ UNCHANGED <<signInVars, quiet>>

\* A process dies with its sockets; nothing clears their keys.
Kill(p) ==
    /\ Calls("kill")
    /\ \E c \in Sockets : holder[c] # NoUser /\ Process[c] = p
    /\ holder' = [c \in Sockets |-> IF Process[c] = p THEN NoUser ELSE holder[c]]
    /\ leaving' = {c \in leaving : Process[c] # p}
    /\ UNCHANGED <<rows, req, present, quiet>>

\* presenceTTL passes without a heartbeat, which a connection makes in time.
PresenceExpires(u) ==
    /\ Watching(u) /\ Connected(u) = {}
    /\ Left(u)
    /\ UNCHANGED <<signInVars, holder, leaving, quiet>>

-----------------------------------------------------------------------------
(* The notifier.                                                           *)

\* The sessions of a person that ended; nothing brings one back.
Ended(s) == \/ sessions[s].state \in {"revoked", "undone"} \/ sessions[s].expired
            \/ accounts[sessions[s].user] = "closed"
EndedSessions(u) == {s \in DOMAIN sessions : sessions[s].user = u /\ Ended(s)}

\* SetMuted, Block and Remove of the agent (module Pairing) and their undoing:
\* unmuted, unblocked, added again, or the mute has run out.
Quieten(u) ==
    /\ Calls("quiet")
    /\ GetUser(u)
    /\ quiet' = IF u \in quiet THEN quiet \ {u} ELSE quiet \cup {u}
    /\ UNCHANGED <<rows, req, holder, leaving, present>>

\* The devices where a person can be told of the agent's message.
PushTargets(u) ==
    {[s |-> s, k |-> sessions[s].push] :
        s \in {x \in ListUserSessions(u) : sessions[x].push # NoToken /\ GetUser(u) /\ u \notin quiet}}

\* MessageLanded: somebody watching is not told; not knowing counts as absent.
MessageLanded(r, u) ==
    /\ Calls("land")
    /\ req[r] = Idle /\ u \in DOMAIN accounts /\ accounts[u] # "new"
    /\ \/ Watching(u) /\ UNCHANGED req
       \/ req' = [req EXCEPT ![r] = [at |-> "look", u |-> u, over |-> EndedSessions(u)]]
    /\ UNCHANGED <<rows, noticeVars>>

FindDevices(r) ==
    /\ At(r, "look")
    /\ LET to == PushTargets(req[r].u)
       IN  IF to = {} THEN Done(r)
           ELSE req' = [req EXCEPT ![r] = [at |-> "send", u |-> req[r].u, over |-> req[r].over, to |-> to]]
    /\ UNCHANGED <<rows, noticeVars>>

\* The push service's answer; a token it says is dead is forgotten, one at a
\* time, whoever has it by now.
Notify(r) ==
    /\ At(r, "send")
    /\ \/ UNCHANGED sessions
       \/ \E p \in req[r].to : sessions' = ClearSessionPush(p.k)
    /\ Done(r)
    /\ UNCHANGED <<bucket, codes, accounts, identity, lately, holder, leaving, present, quiet>>

-----------------------------------------------------------------------------
Next ==
    \/ SignInNext /\ UNCHANGED noticeVars
    \/ \E c \in Sockets :
          \/ Beat(c) \/ CloseSocket(c) \/ ClearPresence(c)
          \/ \E s \in DOMAIN sessions : Connect(c, s)
    \/ \E p \in {Process[c] : c \in Sockets} : Kill(p)
    \/ \E u \in DOMAIN accounts : PresenceExpires(u) \/ Quieten(u)
    \/ \E r \in Requests :
          \/ FindDevices(r) \/ Notify(r)
          \/ \E u \in DOMAIN accounts : MessageLanded(r, u)

\* The ticker of every connection, the goroutine of one that ended and the
\* time to live of a key all run by themselves.
Fairness ==
    /\ \A c \in Sockets : WF_vars(Beat(c)) /\ WF_vars(ClearPresence(c))
    /\ \A u \in 1..MaxCalls : WF_vars(u \in DOMAIN accounts /\ PresenceExpires(u))

Spec == Init /\ [][Next]_vars /\ Fairness

-----------------------------------------------------------------------------
\* "There is no way to end a session but leave it able to buzz" (00020_push):
\* a phone about to be told of a message is one whose session had not ended
\* when the message landed, whatever sign-ins, sign-outs, closings and
\* registrations overlap; and while the phone keeps the token it was found by
\* no other session has that token, so nobody's phone gets another person's
\* notifications (SetSessionPushToken, PushTargets).
BuzzesItsOwn ==
    \A r \in Requests : req[r] # Idle /\ req[r].at = "send" =>
        \A p \in req[r].to :
            /\ p.s \notin req[r].over
            /\ sessions[p.s].push = p.k => \A x \in DOMAIN sessions \ {p.s} : sessions[x].push # p.k

\* However sockets of several processes come, go and die, in the end a person
\* counts as watching exactly while one of their sockets is up, and so misses
\* no notification for good (announcePresence, RedisPresence).
PresenceFollows == <>[](\A u \in DOMAIN accounts : Watching(u) <=> Connected(u) # {})
=============================================================================
