------------------------------- MODULE Pairing -------------------------------
(***************************************************************************)
(* How an agent reaches people: codes (pair tokens), the catalogue, the    *)
(* welcome of a new account, and what a person may then do with the agent  *)
(* in their list (mute, pin, archive, block, remove, report).  The agents  *)
(* registry is here too, because deleting, listing or hiding an agent is   *)
(* what races with somebody adding it.                                     *)
(*                                                                         *)
(* A request is a sequence of database statements.  Statements of one      *)
(* transaction are one step from its first statement that locks a row on,  *)
(* since nobody sees or changes that row before the commit; a statement    *)
(* that matched no row locks nothing, and what follows it is a later step. *)
(***************************************************************************)
EXTENDS Integers, Sequences, FiniteSets

CONSTANTS
    Users, Agents, Tokens,
    Requests,       \* the handlers that may run at the same time
    OwnerOf,        \* who makes each agent
    Founding,       \* the agents that exist at the start
    Members,        \* the people with an account at the start, owners included
    WelcomeAgent,   \* the handle configured for new accounts, or NoAgent
    NoAgent, NoToken, Idle,
    MaxUses,        \* bound on a code's max_uses; 0 stands for no limit
    PinsMax,
    Patches,        \* the sets of settings a request changes at once
    May,            \* the operations this instance calls
    MaxCalls        \* bound on the number of calls

Key == Users \X Agents
Op == {"token", "revoke", "expire", "agent", "delete", "signup", "close", "accept",
       "catalogue", "block", "unblock", "patch", "remove", "report"}
Field == {"mute", "pin", "archive"}
Via == {"none", "owner", "pair_token", "hub", "catalogue"}

ASSUME PairingAssumption ==
    /\ OwnerOf \in [Agents -> Users] /\ Founding \subseteq Agents /\ Members \subseteq Users
    /\ (\A a \in Founding : OwnerOf[a] \in Members) /\ Patches \subseteq SUBSET Field \ {{}}
    /\ WelcomeAgent \in Agents \cup {NoAgent} /\ NoAgent \notin Agents /\ NoToken \notin Tokens
    /\ MaxUses \in Nat /\ PinsMax \in Nat \ {0} /\ May \subseteq Op /\ MaxCalls \in Nat

VARIABLES
    account,    \* users: "none", "open" or "closed"
    agent,      \* agents
    token,      \* pair_tokens
    contact,    \* contacts; via = "none" where there is no row
    dms,        \* how many DM conversations a person and an agent share
    told,       \* the membership events put in the agent's outbox, in order
    recent,     \* reports filed within the last day
    req,        \* the handlers under way
    left        \* calls still to come

rows == <<account, agent, token, contact, dms, told, recent>>
vars == <<account, agent, token, contact, dms, told, recent, req, left>>

-----------------------------------------------------------------------------
(* Rows, and the statements that change them.                              *)

AgentRow == [state : {"none", "live", "deleted"}, private : BOOLEAN, listed : BOOLEAN]
TokenRow == [agent : Agents \cup {NoAgent}, max : 0..MaxUses, uses : Nat,
             state : {"none", "open", "revoked"}, expired : BOOLEAN]
ContactRow == [via : Via, token : Tokens \cup {NoToken}, blocked : BOOLEAN, removed : BOOLEAN,
               pinned : BOOLEAN, archived : BOOLEAN, muted : BOOLEAN]

NewContact(via, t) ==
    [via |-> via, token |-> t, blocked |-> FALSE, removed |-> FALSE,
     pinned |-> FALSE, archived |-> FALSE, muted |-> FALSE]
NoContact == NewContact("none", NoToken)
Exists(c) == c.via # "none"

\* A person's list and the chats it opens.
Listed(u) == {a \in Agents : Exists(contact[u, a]) /\ ~contact[u, a].removed}
CountPinnedContacts(u) == Cardinality({a \in Listed(u) : contact[u, a].pinned})
CountRecentReports(k) == recent[k]

GetAgent(a) == agent[a].state = "live"
ListCatalogue == {a \in Agents : agent[a].listed /\ agent[a].state = "live"}
ListAgentsByOwner(u) == {a \in Agents : OwnerOf[a] = u /\ agent[a].state = "live"}
GetPairTokenByHash(t) == token[t].state # "none"
GetOwned(u, a) == GetAgent(a) /\ OwnerOf[a] = u
CreatedAgent(private, listed) == [state |-> "live", private |-> private, listed |-> listed]
UpdatedAgent(row, private, listed) == [row EXCEPT !.private = private, !.listed = listed]

CreateDM(k) == dms' = [dms EXCEPT ![k] = @ + 1]
FindDM(k) == dms[k] > 0
FindOrCreateDM(k) == IF FindDM(k) THEN UNCHANGED dms ELSE CreateDM(k)

SetContactBlocked(c) == [c EXCEPT !.blocked = TRUE]
ClearContactBlocked(c) == [c EXCEPT !.blocked = FALSE]
RestoreContact(c) == [c EXCEPT !.removed = FALSE]

\* Taking an agent out of the list clears what was decided about it there.
Removed(c) == [NewContact(c.via, c.token) EXCEPT !.blocked = c.blocked, !.removed = TRUE]

\* The statement's own condition on how the agent was added.
Removable(c) == ~c.removed /\ c.via \in {"pair_token", "hub"}
RemoveContact(c) == IF Removable(c) THEN Removed(c) ELSE c
RemoveAllContacts(c) == IF Exists(c) /\ ~c.removed THEN Removed(c) ELSE c

\* The three settings change nothing in a row that has left the list.
SetContactMuted(c, on) == IF c.removed THEN c ELSE [c EXCEPT !.muted = on]
SetContactPinned(c, on) == IF c.removed THEN c ELSE [c EXCEPT !.pinned = on]
SetContactArchived(c, on) == IF c.removed THEN c ELSE [c EXCEPT !.archived = on]

CreatePairToken(a, max) ==
    [agent |-> a, max |-> max, uses |-> 0, state |-> "open", expired |-> FALSE]

Used(row) == [row EXCEPT !.uses = @ + 1]

\* Mutant: whether the code still stands is left to the look-up before.
UseIfNotSpent(t) == token[t].max = 0 \/ token[t].uses < token[t].max

\* Whether UsePairToken finds a use to give, decided in the one statement.
UsePairToken(t) ==
    /\ token[t].state = "open" /\ ~token[t].expired
    /\ token[t].max = 0 \/ token[t].uses < token[t].max

-----------------------------------------------------------------------------
Point == {"mint", "join", "known", "new", "tell", "block", "unblock", "patch", "pin",
          "remove", "report", "retire", "close"}
Flag == {"removed", "blocked", "joined", "left", "on"}
Request == [at : Point, u : Users, a : Agents \cup {NoAgent}, t : Tokens \cup {NoToken},
            x : SUBSET (Flag \cup Field \cup Agents)]

\* The type of every variable; `x' is what a request read or still has to do.
TypeOK ==
    /\ account \in [Users -> {"none", "open", "closed"}]
    /\ agent \in [Agents -> AgentRow]
    /\ token \in [Tokens -> TokenRow]
    /\ contact \in [Key -> ContactRow]
    /\ dms \in [Key -> Nat]
    /\ told \in [Key -> Seq({"joined", "left"})]
    /\ recent \in [Key -> Nat]
    /\ req \in [Requests -> Request \cup {Idle}]
    /\ left \in 0..MaxCalls

Init ==
    /\ account = [u \in Users |-> IF u \in Members THEN "open" ELSE "none"]
    /\ agent = [a \in Agents |-> [state |-> IF a \in Founding THEN "live" ELSE "none",
                                  private |-> FALSE, listed |-> FALSE]]
    /\ token = [t \in Tokens |-> [agent |-> NoAgent, max |-> 0, uses |-> 0,
                                  state |-> "none", expired |-> FALSE]]
    /\ contact = [k \in Key |-> IF k[2] \in Founding /\ OwnerOf[k[2]] = k[1]
                                THEN NewContact("owner", NoToken) ELSE NoContact]
    /\ dms = [k \in Key |-> IF k[2] \in Founding /\ OwnerOf[k[2]] = k[1] THEN 1 ELSE 0]
    /\ told = [k \in Key |-> <<>>]
    /\ recent = [k \in Key |-> 0]
    /\ req = [r \in Requests |-> Idle]
    /\ left = MaxCalls

Calls(op) == op \in May /\ left > 0 /\ left' = left - 1
Begin(r, at, u, a, t, x) ==
    /\ req[r] = Idle
    /\ account[u] = "open"
    /\ req' = [req EXCEPT ![r] = [at |-> at, u |-> u, a |-> a, t |-> t, x |-> x]]
At(r, p) == req[r] # Idle /\ req[r].at = p /\ left' = left
KeyOf(r) == <<req[r].u, req[r].a>>
Going(row, at, x) == [row EXCEPT !.at = at, !.x = x]
Goto(r, at, x) == req' = [req EXCEPT ![r] = Going(@, at, x)]
Done(r) == req' = [req EXCEPT ![r] = Idle]

-----------------------------------------------------------------------------
(* The agents registry.                                                    *)

\* Create: the agent, its owner's chat with it and their contact, together.
CreateAgent(a, private, listed) ==
    /\ Calls("agent")
    /\ agent[a].state = "none" /\ account[OwnerOf[a]] = "open" /\ ~(private /\ listed)
    /\ agent' = [agent EXCEPT ![a] = CreatedAgent(private, listed)]
    /\ contact' = [contact EXCEPT ![<<OwnerOf[a], a>>] = NewContact("owner", NoToken)]
    /\ CreateDM(<<OwnerOf[a], a>>)
    /\ UNCHANGED <<account, token, told, recent, req>>

\* Update: either flag, refused by the table's check when both would hold.
UpdateAgent(a, private, listed) ==
    /\ Calls("agent")
    /\ \E u \in Users : GetOwned(u, a) /\ account[u] = "open"
    /\ ~(private /\ listed)
    /\ agent' = [agent EXCEPT ![a] = UpdatedAgent(@, private, listed)]
    /\ UNCHANGED <<account, token, contact, dms, told, recent, req>>

SoftDeleteAgent(a) == agent' = [agent EXCEPT ![a].state = "deleted"]

\* Delete: the row is kept, and every contact and chat with it.
DeleteAgent(a) ==
    /\ Calls("delete")
    /\ \E u \in Users : GetOwned(u, a) /\ account[u] = "open"
    /\ SoftDeleteAgent(a)
    /\ UNCHANGED <<account, token, contact, dms, told, recent, req>>

-----------------------------------------------------------------------------
(* Codes.                                                                  *)

\* CreateToken reads the agent: the caller owns it and it is not private.
CreateToken(r, a) ==
    /\ Calls("token")
    /\ GetAgent(a) /\ ~agent[a].private
    /\ Begin(r, "mint", OwnerOf[a], a, NoToken, {})
    /\ UNCHANGED rows

MintToken(r, t, max) ==
    /\ At(r, "mint")
    /\ token[t].state = "none"
    /\ token' = [token EXCEPT ![t] = CreatePairToken(req[r].a, max)]
    /\ Done(r)
    /\ UNCHANGED <<account, agent, contact, dms, told, recent>>

RevokePairToken(t) == token' = [token EXCEPT ![t].state = "revoked"]
RevokeToken(t) ==
    /\ Calls("revoke")
    /\ token[t].state = "open"
    /\ \E u \in Users : GetOwned(u, token[t].agent) /\ account[u] = "open"
    /\ RevokePairToken(t)
    /\ UNCHANGED <<account, agent, contact, dms, told, recent, req>>

\* expires_at passes.
TokenExpires(t) ==
    /\ Calls("expire")
    /\ token[t].state # "none" /\ ~token[t].expired
    /\ token' = [token EXCEPT ![t].expired = TRUE]
    /\ UNCHANGED <<account, agent, contact, dms, told, recent, req>>

\* The link is good for someone who already has the agent.
lookup(t) ==
    /\ GetPairTokenByHash(t)
    /\ GetAgent(token[t].agent)
    /\ token[t].state = "open" /\ ~token[t].expired

\* What the card says of the caller's own list.
AlreadyAdded(u, a) == Exists(contact[u, a]) /\ ~contact[u, a].removed

-----------------------------------------------------------------------------
(* Coming to an agent.                                                     *)

Accept(r, u, t) ==
    /\ Calls("accept")
    /\ lookup(t)
    /\ Begin(r, "join", u, token[t].agent, t, {})
    /\ UNCHANGED rows

AddFromCatalogue(r, u, a) ==
    /\ Calls("catalogue")
    /\ a \in ListCatalogue
    /\ Begin(r, "join", u, a, NoToken, {})
    /\ UNCHANGED rows

Enqueue(k, event) == told' = [told EXCEPT ![k] = Append(@, event)]

\* join reads the caller's row: which of the two ways it goes is settled here.
GetContact(r) ==
    /\ At(r, "join")
    /\ LET c == contact[KeyOf(r)]
       IN  IF Exists(c)
           THEN Goto(r, "known", {f \in {"removed", "blocked"} : c[f]})
           ELSE Goto(r, "new", {})
    /\ UNCHANGED rows

\* What the returning person's row becomes: listed again if they had removed
\* the agent, open again if they had blocked it.
Rejoined(c, x) ==
    LET back == IF "removed" \in x THEN RestoreContact(c) ELSE c
    IN  IF "blocked" \in x THEN ClearContactBlocked(back) ELSE back

\* Mutant: the person's own row is reopened, and the agent hears nothing of it.
RejoinQuietly(r) ==
    /\ At(r, "known")
    /\ contact' = [contact EXCEPT ![KeyOf(r)] = Rejoined(@, req[r].x)]
    /\ Done(r)
    /\ UNCHANGED <<account, agent, token, dms, told, recent>>

\* join, for somebody who has had the agent before: costs the code nothing.
JoinKnown(r) ==
    /\ At(r, "known")
    /\ LET c == contact[KeyOf(r)]
           d == Rejoined(c, req[r].x)
       IN  /\ contact' = [contact EXCEPT ![KeyOf(r)] = d]
           /\ \/ "blocked" \notin req[r].x /\ Done(r) /\ UNCHANGED told
              \/ "blocked" \in req[r].x /\ d # c /\ Enqueue(KeyOf(r), "joined") /\ Done(r)
              \/ "blocked" \in req[r].x /\ d = c /\ Goto(r, "tell", {"joined"}) /\ UNCHANGED told
    /\ UNCHANGED <<account, agent, token, dms, recent>>

\* Mutant: the use is counted in a statement of its own, before the transaction.
JoinNewCountedFirst(r) ==
    /\ At(r, "new")
    /\ LET k == KeyOf(r)
           t == req[r].t
           ok == t = NoToken \/ UsePairToken(t)
       IN  /\ token' = IF ok /\ t # NoToken THEN [token EXCEPT ![t].uses = @ + 1] ELSE token
           /\ IF ok /\ ~Exists(contact[k])
              THEN /\ contact' = [contact EXCEPT ![k] =
                                    NewContact(IF t = NoToken THEN "catalogue" ELSE "pair_token", t)]
                   /\ dms' = [dms EXCEPT ![k] = @ + 1] /\ Enqueue(k, "joined")
              ELSE UNCHANGED <<contact, dms, told>>
    /\ Done(r)
    /\ UNCHANGED <<account, agent, recent>>

\* join, for somebody new: a use, the chat, the contact and the event commit
\* together.  No use to give, or a contact made meanwhile by another request
\* (the primary key), undoes all of it and answers with an error.
JoinNew(r) ==
    /\ At(r, "new")
    /\ LET k == KeyOf(r)
           t == req[r].t
       IN  \/ /\ (t # NoToken /\ ~UsePairToken(t)) \/ Exists(contact[k])
              /\ UNCHANGED <<token, contact, dms, told>>
           \/ /\ (t # NoToken => UsePairToken(t)) /\ ~Exists(contact[k])
              /\ token' = IF t = NoToken THEN token ELSE [token EXCEPT ![t] = Used(@)]
              /\ FindOrCreateDM(k)
              /\ contact' = [contact EXCEPT ![k] =
                               NewContact(IF t = NoToken THEN "catalogue" ELSE "pair_token", t)]
              /\ Enqueue(k, "joined")
    /\ Done(r)
    /\ UNCHANGED <<account, agent, recent>>

\* The event of a transaction whose update matched no row.
Tell(r) ==
    /\ At(r, "tell")
    /\ \E event \in req[r].x : Enqueue(KeyOf(r), event)
    /\ Done(r)
    /\ UNCHANGED <<account, agent, token, contact, dms, recent>>

\* Verify opens an account and Welcomer gives it its first contact, in one transaction.
Welcome(u) ==
    /\ Calls("signup")
    /\ account[u] = "none"
    /\ account' = [account EXCEPT ![u] = "open"]
    /\ IF WelcomeAgent \in Agents /\ GetAgent(WelcomeAgent)
       THEN /\ contact' = [contact EXCEPT ![<<u, WelcomeAgent>>] = NewContact("hub", NoToken)]
            /\ FindOrCreateDM(<<u, WelcomeAgent>>)
            /\ Enqueue(<<u, WelcomeAgent>>, "joined")
       ELSE UNCHANGED <<contact, dms, told>>
    /\ UNCHANGED <<agent, token, recent, req>>

-----------------------------------------------------------------------------
(* What a person decides about an agent they have.                         *)

Block(r, u, a) ==
    /\ Calls("block")
    /\ Exists(contact[u, a]) /\ ~contact[u, a].blocked
    /\ Begin(r, "block", u, a, NoToken, {})
    /\ UNCHANGED rows

BlockTx(r) ==
    /\ At(r, "block")
    /\ LET c == contact[KeyOf(r)]
       IN  \/ /\ ~c.blocked
              /\ contact' = [contact EXCEPT ![KeyOf(r)] = SetContactBlocked(c)]
              /\ Enqueue(KeyOf(r), "left") /\ Done(r)
           \/ c.blocked /\ Goto(r, "tell", {"left"}) /\ UNCHANGED <<contact, told>>
    /\ UNCHANGED <<account, agent, token, dms, recent>>

Unblock(r, u, a) ==
    /\ Calls("unblock")
    /\ contact[u, a].blocked
    /\ Begin(r, "unblock", u, a, NoToken, {})
    /\ UNCHANGED rows

UnblockTx(r) ==
    /\ At(r, "unblock")
    /\ LET c == contact[KeyOf(r)]
       IN  \/ /\ c.blocked
              /\ contact' = [contact EXCEPT ![KeyOf(r)] = ClearContactBlocked(c)]
              /\ Enqueue(KeyOf(r), "joined") /\ Done(r)
           \/ ~c.blocked /\ Goto(r, "tell", {"joined"}) /\ UNCHANGED <<contact, told>>
    /\ UNCHANGED <<account, agent, token, dms, recent>>

\* updateContact: the fields the person sent, each set in turn and each
\* after its own look at the row; one that is refused ends the request with
\* the earlier ones applied.
UpdateContact(r, u, a, fields, on) ==
    /\ Calls("patch")
    /\ AlreadyAdded(u, a)
    /\ Begin(r, "patch", u, a, NoToken, fields \cup (IF on THEN {"on"} ELSE {}))
    /\ UNCHANGED rows

NextField(r) ==
    LET todo == req[r].x \cap Field IN
    CHOOSE f \in todo : f = "mute" \/ (f = "pin" /\ "mute" \notin todo) \/ todo = {f}
FieldDone(r, f) == IF req[r].x \cap Field = {f} THEN Done(r) ELSE Goto(r, "patch", req[r].x \ {f})

SetMuted(r) ==
    /\ At(r, "patch") /\ NextField(r) = "mute"
    /\ \/ contact[KeyOf(r)].removed /\ Done(r) /\ UNCHANGED contact
       \/ /\ contact' = [contact EXCEPT ![KeyOf(r)] = SetContactMuted(@, "on" \in req[r].x)]
          /\ FieldDone(r, "mute")
    /\ UNCHANGED <<account, agent, token, dms, told, recent>>

SetArchived(r) ==
    /\ At(r, "patch") /\ NextField(r) = "archive"
    /\ \/ contact[KeyOf(r)].removed /\ Done(r) /\ UNCHANGED contact
       \/ /\ contact' = [contact EXCEPT ![KeyOf(r)] = SetContactArchived(@, "on" \in req[r].x)]
          /\ FieldDone(r, "archive")
    /\ UNCHANGED <<account, agent, token, dms, told, recent>>

\* SetPinned reads the row and, for a new pin, counts: refused past PinsMax.
SetPinned(r) ==
    /\ At(r, "patch") /\ NextField(r) = "pin"
    /\ LET c == contact[KeyOf(r)]
       IN  IF c.removed \/ ("on" \in req[r].x /\ ~c.pinned /\ CountPinnedContacts(req[r].u) >= PinsMax)
           THEN Done(r) ELSE Goto(r, "pin", req[r].x)
    /\ UNCHANGED rows

PinContact(r) ==
    /\ At(r, "pin")
    /\ contact' = [contact EXCEPT ![KeyOf(r)] = SetContactPinned(@, "on" \in req[r].x)]
    /\ FieldDone(r, "pin")
    /\ UNCHANGED <<account, agent, token, dms, told, recent>>

Remove(r, u, a) ==
    /\ Calls("remove")
    /\ AlreadyAdded(u, a) /\ contact[u, a].via # "owner"
    /\ Begin(r, "remove", u, a, NoToken, {})
    /\ UNCHANGED rows

RemoveTx(r) ==
    /\ At(r, "remove")
    /\ contact' = [contact EXCEPT ![KeyOf(r)] = RemoveContact(@)]
    /\ Done(r)
    /\ UNCHANGED <<account, agent, token, dms, told, recent>>

\* Report: once a day per agent, for one in the list or one that was.
Report(r, u, a) ==
    /\ Calls("report")
    /\ Exists(contact[u, a]) /\ CountRecentReports(<<u, a>>) = 0
    /\ Begin(r, "report", u, a, NoToken, {})
    /\ UNCHANGED rows

CreateReport(r) ==
    /\ At(r, "report")
    /\ recent' = [recent EXCEPT ![KeyOf(r)] = @ + 1]
    /\ Done(r)
    /\ UNCHANGED <<account, agent, token, contact, dms, told>>

\* A day after the last report.
ReportsAge(k) ==
    /\ Calls("report")
    /\ recent[k] > 0
    /\ recent' = [recent EXCEPT ![k] = 0]
    /\ UNCHANGED <<account, agent, token, contact, dms, told, req>>

-----------------------------------------------------------------------------
(* Closing an account.                                                     *)

\* DeleteAllOwned lists the person's agents once, and retires each.
DeleteMe(r, u) ==
    /\ Calls("close")
    /\ Begin(r, IF ListAgentsByOwner(u) = {} THEN "close" ELSE "retire", u, NoAgent, NoToken,
             ListAgentsByOwner(u))
    /\ UNCHANGED rows

\* One of them; an agent retired meanwhile is not found, and ends the request.
RetireNext(r) ==
    /\ At(r, "retire")
    /\ \E a \in req[r].x :
         \/ ~GetAgent(a) /\ Done(r) /\ UNCHANGED agent
         \/ /\ GetAgent(a) /\ SoftDeleteAgent(a)
            /\ Goto(r, IF req[r].x = {a} THEN "close" ELSE "retire", req[r].x \ {a})
    /\ UNCHANGED <<account, token, contact, dms, told, recent>>

\* users.Delete: one transaction; a second one finds no open account and undoes itself.
CloseAccount(r) ==
    /\ At(r, "close")
    /\ LET u == req[r].u
       IN  \/ account[u] # "open" /\ UNCHANGED <<account, contact>>
           \/ /\ account[u] = "open"
              /\ account' = [account EXCEPT ![u] = "closed"]
              /\ contact' = [k \in Key |-> IF k[1] = u THEN RemoveAllContacts(contact[k])
                                           ELSE contact[k]]
    /\ Done(r)
    /\ UNCHANGED <<agent, token, dms, told, recent>>

-----------------------------------------------------------------------------
Registry ==
    \/ \E a \in Agents, private, listed \in BOOLEAN :
          CreateAgent(a, private, listed) \/ UpdateAgent(a, private, listed)
    \/ \E a \in Agents : DeleteAgent(a)
    \/ \E r \in Requests, u \in Users : DeleteMe(r, u)
    \/ \E r \in Requests : RetireNext(r) \/ CloseAccount(r)

Codes ==
    \/ \E r \in Requests, a \in Agents : CreateToken(r, a)
    \/ \E r \in Requests, t \in Tokens, max \in 0..MaxUses : MintToken(r, t, max)
    \/ \E t \in Tokens : RevokeToken(t) \/ TokenExpires(t)

Arrivals ==
    \/ \E u \in Users : Welcome(u)
    \/ \E r \in Requests, u \in Users, t \in Tokens : Accept(r, u, t)
    \/ \E r \in Requests, u \in Users, a \in Agents : AddFromCatalogue(r, u, a)
    \/ \E r \in Requests : GetContact(r) \/ JoinKnown(r) \/ JoinNew(r) \/ Tell(r)

Decisions ==
    \/ \E r \in Requests, u \in Users, a \in Agents :
          Block(r, u, a) \/ Unblock(r, u, a) \/ Remove(r, u, a) \/ Report(r, u, a)
    \/ \E r \in Requests, u \in Users, a \in Agents, fields \in Patches, on \in BOOLEAN :
          UpdateContact(r, u, a, fields, on)
    \/ \E r \in Requests :
          \/ BlockTx(r) \/ UnblockTx(r) \/ SetMuted(r) \/ SetArchived(r) \/ SetPinned(r)
          \/ PinContact(r) \/ RemoveTx(r) \/ CreateReport(r)
    \/ \E k \in Key : ReportsAge(k)

Next == Registry \/ Codes \/ Arrivals \/ Decisions

Spec == Init /\ [][Next]_vars

-----------------------------------------------------------------------------

\* A join is whole, whatever scans, double taps, doors and failures race: a
\* code's uses are the people it brought, a use spent on a request that then
\* failed is given back, and a person and an agent share one chat exactly when
\* the person has the agent (join, UsePairToken; FindOrCreateDM has no unique
\* index to lean on).
JoinedWhole ==
    /\ \A t \in Tokens :
          /\ token[t].uses = Cardinality({k \in Key : Exists(contact[k]) /\ contact[k].token = t})
          /\ token[t].max # 0 => token[t].uses <= token[t].max
    /\ \A k \in Key : dms[k] = IF Exists(contact[k]) THEN 1 ELSE 0

\* A code that was withdrawn or has run out brings nobody new, however long
\* before that the person opened its card (UsePairToken looks again).
ClosedCodeBringsNobody ==
    [][\A k \in Key :
          (~Exists(contact[k]) /\ Exists(contact'[k]) /\ contact'[k].via = "pair_token")
          => LET t == contact'[k].token IN token[t].state = "open" /\ ~token[t].expired]_vars

\* Whenever a chat is closed or reopened by a block the agent's outbox gets
\* the event in the same transaction: none is lost between the two.
BlockTold ==
    [][\A k \in Key :
          contact'[k].blocked # contact[k].blocked
          => told'[k] = Append(told[k], IF contact'[k].blocked THEN "left" ELSE "joined")]_vars
=============================================================================
