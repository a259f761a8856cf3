--------------------------- MODULE PairingProofs ----------------------------
(***************************************************************************)
(* Pairing for every number of people, agents, codes and handlers: a join  *)
(* is whole, a closed code brings nobody, and a block is told of.          *)
(*                                                                         *)
(* A step is classified by its effect on who has which agent: nobody comes *)
(* (Quiet), one person comes (Comes) or a code is made (Mints).  The three *)
(* lemmas about these effects carry the counting argument once; each       *)
(* operation is then only shown to have one of them.                       *)
(***************************************************************************)
EXTENDS Pairing, FiniteSetTheorems, TLAPS

-----------------------------------------------------------------------------
(* What the statements do to a row, field by field.                        *)

\* A row that was changed keeps how it came and by which code.
Same(d, c) == d \in ContactRow /\ d.via = c.via /\ d.token = c.token

\* What each statement on a contact leaves of how it came, and of the block.
LEMMA ContactStatements ==
  ASSUME NEW c \in ContactRow, NEW on \in BOOLEAN, NEW x
  PROVE  /\ Same(SetContactBlocked(c), c) /\ SetContactBlocked(c).blocked = TRUE
         /\ Same(ClearContactBlocked(c), c) /\ ClearContactBlocked(c).blocked = FALSE
         /\ Same(RemoveContact(c), c) /\ RemoveContact(c).blocked = c.blocked
         /\ Same(RemoveAllContacts(c), c) /\ RemoveAllContacts(c).blocked = c.blocked
         /\ Same(SetContactMuted(c, on), c) /\ SetContactMuted(c, on).blocked = c.blocked
         /\ Same(SetContactPinned(c, on), c) /\ SetContactPinned(c, on).blocked = c.blocked
         /\ Same(SetContactArchived(c, on), c) /\ SetContactArchived(c, on).blocked = c.blocked
         /\ Same(Rejoined(c, x), c)
         /\ Rejoined(c, x).blocked = IF "blocked" \in x THEN FALSE ELSE c.blocked
<1>1. /\ SetContactBlocked(c) \in ContactRow /\ SetContactBlocked(c).via = c.via /\ SetContactBlocked(c).token = c.token
      /\ SetContactBlocked(c).blocked = TRUE
  BY DEF SetContactBlocked, ContactRow
<1>2. ASSUME NEW d \in ContactRow
      PROVE  /\ ClearContactBlocked(d) \in ContactRow /\ ClearContactBlocked(d).via = d.via
             /\ ClearContactBlocked(d).token = d.token /\ ClearContactBlocked(d).blocked = FALSE
             /\ RestoreContact(d) \in ContactRow /\ RestoreContact(d).via = d.via
             /\ RestoreContact(d).token = d.token /\ RestoreContact(d).blocked = d.blocked
  BY DEF ClearContactBlocked, RestoreContact, ContactRow
<1>3. Removed(c) \in ContactRow /\ Removed(c).via = c.via /\ Removed(c).token = c.token /\ Removed(c).blocked = c.blocked
  <2> DEFINE n == NewContact(c.via, c.token)
  <2>1. n \in ContactRow /\ n.via = c.via /\ n.token = c.token
    BY DEF NewContact, ContactRow
  <2>2. c.blocked \in BOOLEAN
    BY DEF ContactRow
  <2> HIDE DEF n
  <2>3. Removed(c) = [n EXCEPT !.blocked = c.blocked, !.removed = TRUE]
    BY DEF Removed, n
  <2>4. Removed(c) \in ContactRow
    BY <2>1, <2>2, <2>3, Zenon DEF ContactRow
  <2>5. Removed(c).via = n.via
    BY <2>1, <2>3, Zenon DEF ContactRow
  <2>6. Removed(c).token = n.token
    BY <2>1, <2>3, Zenon DEF ContactRow
  <2>7. Removed(c).blocked = c.blocked
    BY <2>1, <2>3, Zenon DEF ContactRow
  <2> QED BY <2>1, <2>4, <2>5, <2>6, <2>7
<1>4. \A d \in {RemoveContact(c), RemoveAllContacts(c)} :
         d \in ContactRow /\ d.via = c.via /\ d.token = c.token /\ d.blocked = c.blocked
  BY <1>3 DEF RemoveContact, RemoveAllContacts
<1>5. \A d \in {SetContactMuted(c, on), SetContactPinned(c, on), SetContactArchived(c, on)} :
         d \in ContactRow /\ d.via = c.via /\ d.token = c.token /\ d.blocked = c.blocked
  BY DEF SetContactMuted, SetContactPinned, SetContactArchived, ContactRow
<1>6. Rejoined(c, x) \in ContactRow /\ Rejoined(c, x).via = c.via /\ Rejoined(c, x).token = c.token
  BY <1>2 DEF Rejoined
<1>7. Rejoined(c, x).blocked = IF "blocked" \in x THEN FALSE ELSE c.blocked
  BY <1>2 DEF Rejoined
<1> QED BY <1>1, <1>2, <1>4, <1>5, <1>6, <1>7 DEF Same

\* A use changes the count of a code and nothing else.
LEMMA UsedFields ==
  ASSUME NEW row \in TokenRow
  PROVE  /\ Used(row) \in TokenRow /\ Used(row).uses = row.uses + 1 /\ Used(row).max = row.max
         /\ Used(row).agent = row.agent /\ Used(row).state = row.state
BY DEF Used, TokenRow

Todo == SUBSET (Flag \cup Field \cup Agents)

\* A request that goes on keeps whose it is and what it is about.
LEMMA GoingFields ==
  ASSUME NEW row \in Request, NEW at \in Point, NEW x \in Todo
  PROVE  /\ Going(row, at, x) \in Request
         /\ Going(row, at, x).u = row.u /\ Going(row, at, x).a = row.a /\ Going(row, at, x).t = row.t
         /\ Going(row, at, x).at = at /\ Going(row, at, x).x = x
<1>1. Going(row, at, x) \in Request
  BY Zenon DEF Going, Request, Todo
<1>2. Going(row, at, x).u = row.u
  BY Zenon DEF Going, Request
<1>3. Going(row, at, x).a = row.a
  BY Zenon DEF Going, Request
<1>4. Going(row, at, x).t = row.t
  BY Zenon DEF Going, Request
<1>5. Going(row, at, x).at = at
  BY Zenon DEF Going, Request
<1>6. Going(row, at, x).x = x
  BY Zenon DEF Going, Request
<1> QED BY <1>1, <1>2, <1>3, <1>4, <1>5, <1>6

-----------------------------------------------------------------------------
(* The inductive invariant.                                                *)

\* The people a code brought.
Brought(t) == {k \in Key : Exists(contact[k]) /\ contact[k].token = t}

\* Nobody has an agent that was never made, or before they have an account;
\* and nobody has blocked what they do not have.
Fresh ==
    \A u \in Users, a \in Agents :
        /\ agent[a].state = "none" \/ account[u] = "none" => ~Exists(contact[<<u, a>>])
        /\ ~Exists(contact[<<u, a>>]) => contact[<<u, a>>].blocked = FALSE

\* What a handler under way relies on.
Sound(x) ==
    /\ account[x.u] # "none"
    /\ x.at \notin {"retire", "close"} => x.a \in Agents /\ agent[x.a].state # "none"
    /\ x.at \in {"known", "block", "unblock"} => Exists(contact[<<x.u, x.a>>])
    /\ x.at = "retire" => x.x \subseteq Agents
    /\ x.at = "tell" => x.x \subseteq {"joined", "left"}
Pending == \A r \in Requests : req[r] # Idle => Sound(req[r])

\* A code belongs to an agent, and one not made yet has brought nobody.
CodesSound ==
    \A t \in Tokens : /\ token[t].state # "none" => token[t].agent \in Agents
                      /\ token[t].state = "none" => token[t].uses = 0

Inv ==
    /\ TypeOK /\ Fresh /\ Pending /\ CodesSound /\ JoinedWhole
    /\ \A t \in Tokens : IsFiniteSet(Brought(t))

-----------------------------------------------------------------------------
(* Types.                                                                  *)

\* A handler under way is for a person and, unless it closes an account, an agent.
LEMMA KeyType ==
  ASSUME TypeOK, Pending, NEW r \in Requests, req[r] # Idle
  PROVE  /\ req[r] \in Request /\ req[r].u \in Users /\ req[r].x \in Todo /\ req[r].t \in Tokens \cup {NoToken}
         /\ req[r].at \notin {"retire", "close"} => req[r].a \in Agents /\ KeyOf(r) \in Key
BY DEF TypeOK, Pending, Sound, Request, KeyOf, Key, Todo

\* Begin fills one free slot.
LEMMA BeginType ==
  ASSUME TypeOK, NEW r \in Requests, NEW at \in Point, NEW u \in Users, NEW a \in Agents \cup {NoAgent},
         NEW t \in Tokens \cup {NoToken}, NEW x \in Todo, Begin(r, at, u, a, t, x)
  PROVE  /\ req' \in [Requests -> Request \cup {Idle}]
         /\ \A q \in Requests : q # r => req'[q] = req[q]
         /\ req'[r] \in Request /\ req'[r].at = at /\ req'[r].u = u /\ req'[r].a = a /\ req'[r].t = t /\ req'[r].x = x
         /\ account[u] = "open" /\ req[r] = Idle
<1> DEFINE y == [at |-> at, u |-> u, a |-> a, t |-> t, x |-> x]
<1>1. y \in Request /\ y.at = at /\ y.u = u /\ y.a = a /\ y.t = t /\ y.x = x
  BY DEF Request, Todo
<1> HIDE DEF y
<1>2. req' = [req EXCEPT ![r] = y] /\ account[u] = "open" /\ req[r] = Idle
  BY DEF Begin, y
<1> QED BY <1>1, <1>2 DEF TypeOK

\* Goto changes the step of one request.
LEMMA GotoType ==
  ASSUME TypeOK, Pending, NEW r \in Requests, req[r] # Idle, NEW at \in Point, NEW x \in Todo, Goto(r, at, x)
  PROVE  /\ req' \in [Requests -> Request \cup {Idle}]
         /\ \A q \in Requests : q # r => req'[q] = req[q]
         /\ req'[r].at = at /\ req'[r].u = req[r].u /\ req'[r].a = req[r].a /\ req'[r].t = req[r].t /\ req'[r].x = x
<1>1. req' = [req EXCEPT ![r] = Going(req[r], at, x)] /\ req[r] \in Request
  BY KeyType DEF Goto
<1> QED BY <1>1, GoingFields DEF TypeOK

\* Done frees one slot.
LEMMA DoneType ==
  ASSUME TypeOK, NEW r \in Requests, Done(r)
  PROVE  /\ req' \in [Requests -> Request \cup {Idle}]
         /\ \A q \in Requests : q # r => req'[q] = req[q]
         /\ req'[r] = Idle
BY DEF TypeOK, Done

\* Calls stay within their bound.
LEMMA CallsType ==
  ASSUME TypeOK, NEW op, Calls(op)
  PROVE  left' \in 0..MaxCalls
BY PairingAssumption DEF TypeOK, Calls, PairingAssumption

\* A row that is made is one of the table.
LEMMA NewRows ==
  /\ \A via \in Via, t \in Tokens \cup {NoToken} :
        /\ NewContact(via, t) \in ContactRow /\ NewContact(via, t).via = via /\ NewContact(via, t).token = t
        /\ NewContact(via, t).blocked = FALSE
  /\ \A private, listed \in BOOLEAN : CreatedAgent(private, listed) \in AgentRow /\ CreatedAgent(private, listed).state = "live"
  /\ \A row \in AgentRow, private, listed \in BOOLEAN :
        UpdatedAgent(row, private, listed) \in AgentRow /\ UpdatedAgent(row, private, listed).state = row.state
  /\ \A a \in Agents, max \in 0..MaxUses : 
        /\ CreatePairToken(a, max) \in TokenRow /\ CreatePairToken(a, max).agent = a /\ CreatePairToken(a, max).max = max
        /\ CreatePairToken(a, max).uses = 0 /\ CreatePairToken(a, max).state = "open"
<1>1. ASSUME NEW via \in Via, NEW t \in Tokens \cup {NoToken}
      PROVE  /\ NewContact(via, t) \in ContactRow /\ NewContact(via, t).via = via /\ NewContact(via, t).token = t
             /\ NewContact(via, t).blocked = FALSE
  BY DEF NewContact, ContactRow
<1>2. ASSUME NEW private \in BOOLEAN, NEW listed \in BOOLEAN
      PROVE  CreatedAgent(private, listed) \in AgentRow /\ CreatedAgent(private, listed).state = "live"
  BY DEF CreatedAgent, AgentRow
<1>3. ASSUME NEW row \in AgentRow, NEW private \in BOOLEAN, NEW listed \in BOOLEAN
      PROVE  UpdatedAgent(row, private, listed) \in AgentRow /\ UpdatedAgent(row, private, listed).state = row.state
  <2>1. UpdatedAgent(row, private, listed) \in AgentRow
    BY Zenon DEF UpdatedAgent, AgentRow
  <2>2. UpdatedAgent(row, private, listed).state = row.state
    BY Zenon DEF UpdatedAgent, AgentRow
  <2> QED BY <2>1, <2>2
<1>4. ASSUME NEW a \in Agents, NEW max \in 0..MaxUses
      PROVE  /\ CreatePairToken(a, max) \in TokenRow /\ CreatePairToken(a, max).agent = a /\ CreatePairToken(a, max).max = max
             /\ CreatePairToken(a, max).uses = 0 /\ CreatePairToken(a, max).state = "open"
  BY DEF CreatePairToken, TokenRow
<1> QED BY <1>1, <1>2, <1>3, <1>4

-----------------------------------------------------------------------------
(* What a step does to the tables.                                         *)

\* Nothing that was made is unmade.
Grown ==
    /\ \A u \in Users : account[u] # "none" => account'[u] # "none"
    /\ \A a \in Agents : agent[a].state # "none" => agent'[a].state # "none"
    /\ \A k \in Key : Exists(contact[k]) => Exists(contact'[k])

\* Nobody comes: lists, codes and chats stay what they are, but for what a
\* person decides about an agent and the codes that close.
Quiet ==
    /\ contact' \in [Key -> ContactRow] /\ \A k \in Key : Same(contact'[k], contact[k])
    /\ \A k \in Key : ~Exists(contact[k]) => contact'[k].blocked = contact[k].blocked
    /\ dms' = dms
    /\ token' \in [Tokens -> TokenRow]
    /\ \A t \in Tokens : /\ token'[t].uses = token[t].uses /\ token'[t].max = token[t].max
                         /\ token'[t].agent = token[t].agent
                         /\ token'[t].state = "none" <=> token[t].state = "none"

\* Somebody comes, by a code or not.
Comes(u, a, via, t) ==
    /\ ~Exists(contact[<<u, a>>]) /\ contact' = [contact EXCEPT ![<<u, a>>] = NewContact(via, t)]
    /\ dms' = [dms EXCEPT ![<<u, a>>] = @ + 1]
    /\ t # NoToken => UsePairToken(t)
    /\ via = "pair_token" => t # NoToken
    /\ token' = IF t = NoToken THEN token ELSE [token EXCEPT ![t] = Used(@)]
    /\ account'[u] # "none" /\ agent'[a].state # "none"

\* A code is made.
Mints(t, a, max) ==
    /\ token[t].state = "none" /\ token' = [token EXCEPT ![t] = CreatePairToken(a, max)]
    /\ UNCHANGED <<contact, dms>>

\* The effect of a step on who has which agent.
Effect ==
    \/ Quiet
    \/ \E u \in Users, a \in Agents, via \in Via \ {"none"}, t \in Tokens \cup {NoToken} : Comes(u, a, via, t)
    \/ \E t \in Tokens, a \in Agents, max \in 0..MaxUses : Mints(t, a, max)

\* Where nobody comes, the uses, the lists and the chats still agree.
LEMMA QuietKeeps ==
  ASSUME Inv, Quiet
  PROVE  JoinedWhole' /\ CodesSound' /\ \A t \in Tokens : IsFiniteSet(Brought(t)')
<1>1. \A k \in Key : Exists(contact'[k]) <=> Exists(contact[k])
  BY DEF Quiet, Same, Exists
<1>2. ASSUME NEW t \in Tokens
      PROVE  Brought(t)' = Brought(t)
  BY <1>1 DEF Quiet, Same, Brought
<1>3. \A k \in Key : dms'[k] = IF Exists(contact'[k]) THEN 1 ELSE 0
  BY <1>1 DEF Quiet, Inv, JoinedWhole
<1>4. \A t \in Tokens : token'[t].uses = Cardinality(Brought(t)') /\ (token'[t].max # 0 => token'[t].uses <= token'[t].max)
  BY <1>2 DEF Quiet, Inv, JoinedWhole, Brought
<1>5. JoinedWhole'
  BY <1>3, <1>4 DEF JoinedWhole, Brought
<1>6. CodesSound'
  BY DEF Quiet, Inv, CodesSound
<1> QED BY <1>2, <1>5, <1>6 DEF Inv

\* A new code has brought nobody.
LEMMA MintsKeeps ==
  ASSUME Inv, NEW t \in Tokens, NEW a \in Agents, NEW max \in 0..MaxUses, Mints(t, a, max)
  PROVE  JoinedWhole' /\ CodesSound' /\ \A s \in Tokens : IsFiniteSet(Brought(s)')
<1>1. \A s \in Tokens : Brought(s)' = Brought(s)
  BY DEF Mints, Brought
<1>2. \A s \in Tokens : token'[s].uses = token[s].uses /\ (token'[s] = token[s] \/ token'[s].uses = 0)
  BY NewRows DEF Mints, Inv, TypeOK, CodesSound
<1>3. \A s \in Tokens : token'[s].uses = Cardinality(Brought(s)')
  BY <1>1, <1>2 DEF Inv, JoinedWhole, Brought
<1>4. \A s \in Tokens : token'[s].max # 0 => token'[s].uses <= token'[s].max
  <2>1. token'[t].uses = 0 /\ token'[t].max = max
    BY NewRows DEF Mints, Inv, TypeOK
  <2>2. \A s \in Tokens : s # t => token'[s] = token[s]
    BY DEF Mints, Inv, TypeOK
  <2>3. max \in Nat
    BY PairingAssumption DEF PairingAssumption
  <2>4. token'[t].uses <= token'[t].max
    BY <2>1, <2>3
  <2> QED BY <2>2, <2>4 DEF Inv, JoinedWhole
<1>5. JoinedWhole'
  BY <1>3, <1>4 DEF JoinedWhole, Brought, Mints, Inv
<1>6. CodesSound'
  BY NewRows DEF Mints, Inv, CodesSound, TypeOK
<1> QED BY <1>1, <1>5, <1>6 DEF Inv

\* Who comes is counted once by the code, the list and the chats.
LEMMA ComesKeeps ==
  ASSUME Inv, NEW u \in Users, NEW a \in Agents, NEW via \in Via \ {"none"}, NEW t \in Tokens \cup {NoToken},
         Comes(u, a, via, t)
  PROVE  JoinedWhole' /\ CodesSound' /\ \A s \in Tokens : IsFiniteSet(Brought(s)')
<1> DEFINE k == <<u, a>>
<1>0. k \in Key /\ NoToken \notin Tokens
  BY PairingAssumption DEF Key, PairingAssumption
<1>1. /\ contact' \in [Key -> ContactRow] /\ Exists(contact'[k]) /\ contact'[k].token = t
      /\ \A j \in Key : j # k => contact'[j] = contact[j]
  <2>1. NewContact(via, t) \in ContactRow /\ NewContact(via, t).token = t /\ NewContact(via, t).via = via
    BY NewRows
  <2> HIDE DEF k
  <2>2. contact' = [contact EXCEPT ![k] = NewContact(via, t)]
    BY DEF Comes, k
  <2> QED BY <1>0, <2>1, <2>2 DEF Inv, TypeOK, Exists
<1>2. ~Exists(contact[k])
  BY DEF Comes
<1> HIDE DEF k
<1>3. \A s \in Tokens : Brought(s)' = IF s = t THEN Brought(s) \cup {k} ELSE Brought(s)
  BY <1>0, <1>1, <1>2 DEF Brought
<1>4. \A s \in Tokens : k \notin Brought(s)
  BY <1>2 DEF Brought
<1>5. ASSUME NEW s \in Tokens
      PROVE  /\ IsFiniteSet(Brought(s)')
             /\ Cardinality(Brought(s)') = IF s = t THEN Cardinality(Brought(s)) + 1 ELSE Cardinality(Brought(s))
  BY <1>3, <1>4, FS_AddElement DEF Inv
<1>6. \A s \in Tokens : /\ token'[s].uses = IF s = t THEN token[s].uses + 1 ELSE token[s].uses
                        /\ token'[s].max = token[s].max /\ token'[s].agent = token[s].agent
                        /\ token'[s].state = token[s].state
  <2>1. \A s \in Tokens : token'[s] = IF s = t THEN Used(token[s]) ELSE token[s]
    BY <1>0 DEF Comes, Inv, TypeOK
  <2>2. \A s \in Tokens : token[s] \in TokenRow
    BY DEF Inv, TypeOK
  <2> QED BY <2>1, <2>2, UsedFields
<1>7. \A s \in Tokens : token'[s].uses = Cardinality(Brought(s)')
  <2>1. \A s \in Tokens : token[s].uses = Cardinality(Brought(s))
    BY DEF Inv, JoinedWhole, Brought
  <2> QED BY <1>5, <1>6, <2>1
<1>8. \A s \in Tokens : token'[s].max # 0 => token'[s].uses <= token'[s].max
  <2>1. \A s \in Tokens : token[s].uses \in Nat /\ token[s].max \in Nat
    BY PairingAssumption DEF Inv, TypeOK, TokenRow, PairingAssumption
  <2>2. t \in Tokens => token[t].max = 0 \/ token[t].uses < token[t].max
    BY <1>0 DEF Comes, UsePairToken
  <2>3. \A s \in Tokens : token[s].max # 0 => token[s].uses <= token[s].max
    BY DEF Inv, JoinedWhole
  <2>4. ASSUME NEW s \in Tokens, token'[s].max # 0
        PROVE  token'[s].uses <= token'[s].max
    <3>1. CASE s = t
      BY <1>6, <2>1, <2>2, <2>4, <3>1
    <3>2. CASE s # t
      BY <1>6, <2>3, <2>4, <3>2
    <3> QED BY <3>1, <3>2
  <2> QED BY <2>4
<1>9. \A j \in Key : dms'[j] = IF Exists(contact'[j]) THEN 1 ELSE 0
  <2>1. dms' = [dms EXCEPT ![k] = @ + 1]
    BY DEF Comes, k
  <2>2. dms[k] = 0
    BY <1>0, <1>2 DEF Inv, JoinedWhole
  <2> QED BY <1>0, <1>1, <2>1, <2>2 DEF Inv, TypeOK, JoinedWhole
<1>10. JoinedWhole'
  BY <1>7, <1>8, <1>9 DEF JoinedWhole, Brought
<1>11. CodesSound'
  <2>1. t \in Tokens => token[t].state = "open"
    BY <1>0 DEF Comes, UsePairToken
  <2> QED BY <1>6, <2>1 DEF Inv, CodesSound
<1> QED BY <1>5, <1>10, <1>11

\* Every effect a step may have keeps the three in agreement.
LEMMA EffectKeeps ==
  ASSUME Inv, Effect
  PROVE  JoinedWhole' /\ CodesSound' /\ \A t \in Tokens : IsFiniteSet(Brought(t)')
BY QuietKeeps, ComesKeeps, MintsKeeps DEF Effect

-----------------------------------------------------------------------------
(* Handlers under way.                                                     *)

\* Sound, after the step.
SoundThen(x) ==
    /\ account'[x.u] # "none"
    /\ x.at \notin {"retire", "close"} => x.a \in Agents /\ agent'[x.a].state # "none"
    /\ x.at \in {"known", "block", "unblock"} => Exists(contact'[<<x.u, x.a>>])
    /\ x.at = "retire" => x.x \subseteq Agents
    /\ x.at = "tell" => x.x \subseteq {"joined", "left"}

\* What a handler relies on is never taken from it by another.
LEMMA SoundGrows ==
  ASSUME NEW x \in Request, Sound(x), Grown
  PROVE  SoundThen(x)
<1>1. x.u \in Users
  BY DEF Request
<1>2. x.a \in Agents => <<x.u, x.a>> \in Key
  BY <1>1 DEF Key
<1> QED BY <1>1, <1>2 DEF Sound, SoundThen, Grown

\* One handler takes a step, the others keep what they rely on.
LEMMA PendingStep ==
  ASSUME Inv, Grown, NEW r \in Requests, \A q \in Requests : q # r => req'[q] = req[q],
         req'[r] # Idle => SoundThen(req'[r])
  PROVE  Pending'
<1>1. ASSUME NEW q \in Requests, req'[q] # Idle
      PROVE  SoundThen(req'[q])
  <2>1. CASE q = r
    BY <1>1, <2>1
  <2>2. CASE q # r
    <3>1. req'[q] = req[q] /\ req[q] \in Request /\ Sound(req[q])
      BY <1>1, <2>2 DEF Inv, TypeOK, Pending
    <3> QED BY <3>1, SoundGrows
  <2> QED BY <2>1, <2>2
<1> QED BY <1>1 DEF Pending, Sound, SoundThen

\* So a step that moves no handler leaves all of them sound.
LEMMA PendingKept ==
  ASSUME Inv, Grown, UNCHANGED req
  PROVE  Pending'
<1>1. ASSUME NEW q \in Requests, req'[q] # Idle
      PROVE  SoundThen(req'[q])
  <2>1. req'[q] = req[q] /\ req[q] \in Request /\ Sound(req[q])
    BY <1>1 DEF Inv, TypeOK, Pending
  <2> QED BY <2>1, SoundGrows
<1> QED BY <1>1 DEF Pending, Sound, SoundThen

\* A chat that closes or opens by a block is told of.
Told ==
    \A k \in Key :
        contact'[k].blocked # contact[k].blocked
        => told'[k] = Append(told[k], IF contact'[k].blocked THEN "left" ELSE "joined")

\* Nobody comes by a code that is closed.
OpenDoors ==
    \A k \in Key :
        (~Exists(contact[k]) /\ Exists(contact'[k]) /\ contact'[k].via = "pair_token")
        => LET t == contact'[k].token IN token[t].state = "open" /\ ~token[t].expired

\* What is shown of every step.
RowsGood ==
    /\ account' \in [Users -> {"none", "open", "closed"}] /\ agent' \in [Agents -> AgentRow]
    /\ told' \in [Key -> Seq({"joined", "left"})] /\ recent' \in [Key -> Nat]
    /\ Grown /\ Effect /\ Told
Good == RowsGood /\ Pending' /\ req' \in [Requests -> Request \cup {Idle}] /\ left' \in 0..MaxCalls

\* A good step keeps the invariant and lets nobody in by a closed code.
LEMMA GoodEnough ==
  ASSUME Inv, Good
  PROVE  Inv' /\ OpenDoors
<1>0. \A k \in Key : contact[k] \in ContactRow
  BY DEF Inv, TypeOK
<1>1. contact' \in [Key -> ContactRow] /\ dms' \in [Key -> Nat] /\ token' \in [Tokens -> TokenRow]
  <2>1. CASE Quiet
    BY <2>1 DEF Quiet, Inv, TypeOK
  <2>2. ASSUME NEW u \in Users, NEW a \in Agents, NEW via \in Via \ {"none"}, NEW t \in Tokens \cup {NoToken},
               Comes(u, a, via, t)
        PROVE  contact' \in [Key -> ContactRow] /\ dms' \in [Key -> Nat] /\ token' \in [Tokens -> TokenRow]
    <3>1. <<u, a>> \in Key /\ NewContact(via, t) \in ContactRow
      BY NewRows DEF Key
    <3>2. \A s \in Tokens : token[s] \in TokenRow /\ Used(token[s]) \in TokenRow
      BY UsedFields DEF Inv, TypeOK
    <3>3. token' \in [Tokens -> TokenRow]
      BY <2>2, <3>2 DEF Comes, Inv, TypeOK
    <3> QED BY <2>2, <3>1, <3>3 DEF Comes, Inv, TypeOK
  <2>3. ASSUME NEW t \in Tokens, NEW a \in Agents, NEW max \in 0..MaxUses, Mints(t, a, max)
        PROVE  contact' \in [Key -> ContactRow] /\ dms' \in [Key -> Nat] /\ token' \in [Tokens -> TokenRow]
    BY <2>3, NewRows DEF Mints, Inv, TypeOK
  <2> QED BY <2>1, <2>2, <2>3 DEF Good, RowsGood, Effect
<1>2. TypeOK'
  BY <1>1 DEF Good, RowsGood, TypeOK
<1>k. \A u \in Users, a \in Agents : <<u, a>> \in Key
  BY DEF Key
<1>3. Fresh' /\ OpenDoors
  <2>1. CASE Quiet
    <3>1. \A k \in Key : Exists(contact'[k]) <=> Exists(contact[k])
      BY <2>1 DEF Quiet, Same, Exists
    <3>2. Fresh'
      BY <1>k, <2>1, <3>1 DEF Quiet, Inv, Fresh, Good, RowsGood, Grown
    <3> QED BY <3>1, <3>2 DEF OpenDoors
  <2>2. ASSUME NEW u \in Users, NEW a \in Agents, NEW via \in Via \ {"none"}, NEW t \in Tokens \cup {NoToken},
               Comes(u, a, via, t)
        PROVE  Fresh' /\ OpenDoors
    <3> DEFINE k == <<u, a>>
    <3>1. /\ k \in Key /\ contact'[k] = NewContact(via, t) /\ account'[u] # "none" /\ agent'[a].state # "none"
          /\ \A j \in Key : j # k => contact'[j] = contact[j]
      BY <2>2 DEF Comes, Key, Inv, TypeOK
    <3>2. contact'[k].via = via /\ contact'[k].token = t /\ Exists(contact'[k])
      BY <3>1, NewRows DEF Exists
    <3>3. \A v \in Users, b \in Agents : <<v, b>> = k => v = u /\ b = a
      OBVIOUS
    <3>4. via = "pair_token" => token[t].state = "open" /\ ~token[t].expired
      BY <2>2 DEF Comes, UsePairToken
    <3> HIDE DEF k
    <3>5. OpenDoors
      BY <3>1, <3>2, <3>4 DEF OpenDoors
    <3>6. ASSUME NEW v \in Users, NEW b \in Agents
          PROVE  /\ agent'[b].state = "none" \/ account'[v] = "none" => ~Exists(contact'[<<v, b>>])
                 /\ ~Exists(contact'[<<v, b>>]) => contact'[<<v, b>>].blocked = FALSE
      <4>1. CASE <<v, b>> = k
        BY <3>1, <3>2, <3>3, <4>1
      <4>2. CASE <<v, b>> # k
        <5>1. contact'[<<v, b>>] = contact[<<v, b>>]
          BY <1>k, <3>1, <4>2
        <5>2. (agent'[b].state = "none" => agent[b].state = "none") /\ (account'[v] = "none" => account[v] = "none")
          BY DEF Good, RowsGood, Grown
        <5> QED BY <5>1, <5>2 DEF Inv, Fresh
      <4> QED BY <4>1, <4>2
    <3> QED BY <3>5, <3>6 DEF Fresh
  <2>3. CASE UNCHANGED contact
    BY <2>3 DEF Inv, Fresh, Good, RowsGood, Grown, OpenDoors
  <2> QED BY <2>1, <2>2, <2>3 DEF Good, RowsGood, Effect, Mints
<1> QED BY <1>2, <1>3, EffectKeeps DEF Good, RowsGood, Inv

-----------------------------------------------------------------------------
(* Steps of a kind.                                                        *)

\* A step that leaves contacts, codes and chats alone is quiet.
LEMMA QuietRows ==
  ASSUME Inv, UNCHANGED <<contact, token, dms>>
  PROVE  Quiet /\ Told
<1>1. contact \in [Key -> ContactRow] /\ token \in [Tokens -> TokenRow]
  BY DEF Inv, TypeOK
<1> QED BY <1>1 DEF Quiet, Told, Same

\* So is one that leaves every table alone.
LEMMA RowsKept ==
  ASSUME Inv, UNCHANGED rows
  PROVE  RowsGood
BY QuietRows DEF rows, RowsGood, Inv, TypeOK, Grown, Effect

\* One row of a list changes, by a statement that keeps where it came from.
LEMMA RowChanged ==
  ASSUME Inv, NEW k \in Key, NEW d, contact' = [contact EXCEPT ![k] = d], Same(d, contact[k]),
         UNCHANGED <<account, agent, token, dms, recent>>,
         \/ d.blocked = contact[k].blocked /\ UNCHANGED told
         \/ /\ Exists(contact[k]) /\ d.blocked \in BOOLEAN
            /\ told' = [told EXCEPT ![k] = Append(@, IF d.blocked THEN "left" ELSE "joined")]
  PROVE  RowsGood
<1>1. /\ contact \in [Key -> ContactRow] /\ token \in [Tokens -> TokenRow]
      /\ told \in [Key -> Seq({"joined", "left"})] /\ account' \in [Users -> {"none", "open", "closed"}]
      /\ agent' \in [Agents -> AgentRow] /\ recent' \in [Key -> Nat]
  BY DEF Inv, TypeOK
<1>2. \A j \in Key : Same(contact'[j], contact[j]) /\ (j # k => contact'[j] = contact[j]) /\ contact'[k] = d
  BY <1>1 DEF Same
<1>3. contact' \in [Key -> ContactRow]
  BY <1>1 DEF Same
<1>4. Quiet
  BY <1>1, <1>2, <1>3 DEF Quiet
<1>5. Told
  BY <1>1, <1>2 DEF Told
<1>6. told' \in [Key -> Seq({"joined", "left"})]
  <2>1. Append(told[k], "left") \in Seq({"joined", "left"}) /\ Append(told[k], "joined") \in Seq({"joined", "left"})
    BY <1>1
  <2>2. told' \in {told, [told EXCEPT ![k] = Append(@, "left")], [told EXCEPT ![k] = Append(@, "joined")]}
    OBVIOUS
  <2> QED BY <1>1, <2>1, <2>2
<1>7. Grown
  BY <1>2 DEF Grown, Same, Exists
<1> QED BY <1>1, <1>4, <1>5, <1>6, <1>7 DEF RowsGood, Effect

\* A handler begins.
LEMMA BeginGood ==
  ASSUME Inv, NEW op, Calls(op), NEW r \in Requests, NEW at \in Point, NEW u \in Users, NEW a \in Agents \cup {NoAgent},
         NEW t \in Tokens \cup {NoToken}, NEW x \in Todo, Begin(r, at, u, a, t, x), UNCHANGED rows,
         at \notin {"retire", "close", "known", "tell"} => a \in Agents /\ agent[a].state # "none",
         at \in {"block", "unblock"} => Exists(contact[<<u, a>>]),
         at = "retire" => x \subseteq Agents,
         at \notin {"known", "tell"}
  PROVE  Good
<1>1. RowsGood /\ left' \in 0..MaxCalls
  BY RowsKept, CallsType DEF Inv
<1>2. /\ req' \in [Requests -> Request \cup {Idle}]
      /\ \A q \in Requests : q # r => req'[q] = req[q]
      /\ req'[r].at = at /\ req'[r].u = u /\ req'[r].a = a /\ req'[r].x = x
      /\ account[u] = "open"
  BY BeginType DEF Inv
<1>3. SoundThen(req'[r])
  BY <1>2 DEF SoundThen, rows
<1> QED BY <1>1, <1>2, <1>3, PendingStep DEF Good, RowsGood

\* A handler goes on.
LEMMA GotoGood ==
  ASSUME Inv, RowsGood, NEW r \in Requests, req[r] # Idle, left' = left, NEW at \in Point, NEW x \in Todo, Goto(r, at, x),
         at \notin {"retire", "close"} => req[r].at \notin {"retire", "close"},
         at \in {"known", "block", "unblock"} => Exists(contact[KeyOf(r)]),
         at = "retire" => x \subseteq Agents,
         at = "tell" => x \subseteq {"joined", "left"}
  PROVE  Good
<1>1. /\ req' \in [Requests -> Request \cup {Idle}]
      /\ \A q \in Requests : q # r => req'[q] = req[q]
      /\ req'[r].at = at /\ req'[r].u = req[r].u /\ req'[r].a = req[r].a /\ req'[r].x = x
  BY GotoType DEF Inv
<1>2. /\ req[r] \in Request /\ req[r].u \in Users /\ Sound(req[r])
      /\ req[r].at \notin {"retire", "close"} => req[r].a \in Agents /\ KeyOf(r) \in Key
  BY KeyType DEF Inv, Pending
<1>3. SoundThen(req[r]) /\ Grown
  BY <1>2, SoundGrows DEF RowsGood
<1>4. at \in {"known", "block", "unblock"} => Exists(contact'[KeyOf(r)])
  BY <1>2, <1>3 DEF Grown
<1>5. SoundThen(req'[r])
  BY <1>1, <1>3, <1>4 DEF SoundThen, KeyOf
<1>6. left' \in 0..MaxCalls
  BY DEF Inv, TypeOK
<1> QED BY <1>1, <1>3, <1>5, <1>6, PendingStep DEF Good

\* A handler ends.
LEMMA DoneGood ==
  ASSUME Inv, RowsGood, NEW r \in Requests, left' = left, Done(r)
  PROVE  Good
<1>1. /\ req' \in [Requests -> Request \cup {Idle}]
      /\ \A q \in Requests : q # r => req'[q] = req[q]
      /\ req'[r] = Idle
  BY DoneType DEF Inv
<1>2. left' \in 0..MaxCalls
  BY DEF Inv, TypeOK
<1> QED BY <1>1, <1>2, PendingStep DEF Good, RowsGood

\* A request that is one statement.
LEMMA CallGood ==
  ASSUME Inv, RowsGood, NEW op, Calls(op), UNCHANGED req
  PROVE  Good
<1>1. left' \in 0..MaxCalls /\ req' \in [Requests -> Request \cup {Idle}]
  BY CallsType DEF Inv, TypeOK
<1> QED BY <1>1, PendingKept DEF Good, RowsGood

-----------------------------------------------------------------------------
(* The operations.                                                         *)

\* Making, changing, deleting and retiring agents, and closing an account.
LEMMA RegistryGood ==
  ASSUME Inv, Registry
  PROVE  Good
<1>0. /\ account \in [Users -> {"none", "open", "closed"}] /\ agent \in [Agents -> AgentRow]
      /\ told \in [Key -> Seq({"joined", "left"})] /\ recent \in [Key -> Nat] /\ contact \in [Key -> ContactRow]
      /\ token \in [Tokens -> TokenRow]
  BY DEF Inv, TypeOK
<1>1. ASSUME NEW a \in Agents, NEW private \in BOOLEAN, NEW listed \in BOOLEAN, CreateAgent(a, private, listed)
      PROVE  Good
  <2> DEFINE u == OwnerOf[a]
             k == <<u, a>>
  <2>1. u \in Users /\ k \in Key /\ NoToken \notin Tokens
    BY PairingAssumption DEF PairingAssumption, Key
  <2>2. ~Exists(contact[k]) /\ contact[k].blocked = FALSE
    BY <1>1, <2>1 DEF CreateAgent, Inv, Fresh
  <2>3. agent' = [agent EXCEPT ![a] = CreatedAgent(private, listed)] /\ CreatedAgent(private, listed) \in AgentRow
        /\ CreatedAgent(private, listed).state = "live"
    BY <1>1, NewRows DEF CreateAgent
  <2>4. Comes(u, a, "owner", NoToken)
    BY <1>0, <1>1, <2>1, <2>2, <2>3 DEF CreateAgent, Comes, CreateDM
  <2>5. Effect
    BY <2>1, <2>4 DEF Effect, Via
  <2>6. /\ Exists(contact'[k]) /\ contact'[k].blocked = FALSE
        /\ \A j \in Key : j # k => contact'[j] = contact[j]
    <3>1. NewContact("owner", NoToken).via = "owner" /\ NewContact("owner", NoToken).blocked = FALSE
      BY NewRows DEF Via
    <3> HIDE DEF k
    <3>2. contact' = [contact EXCEPT ![k] = NewContact("owner", NoToken)]
      BY <2>4 DEF Comes, k
    <3> QED BY <1>0, <2>1, <3>1, <3>2 DEF Exists
  <2> HIDE DEF k
  <2>7. Told
    BY <2>2, <2>6 DEF Told
  <2>8. Grown
    BY <1>0, <1>1, <2>3, <2>6 DEF Grown, CreateAgent
  <2>9. RowsGood
    BY <1>0, <1>1, <2>3, <2>5, <2>7, <2>8 DEF RowsGood, CreateAgent
  <2> QED BY <1>1, <2>9, CallGood DEF CreateAgent
<1>2. ASSUME NEW a \in Agents, UNCHANGED <<account, token, contact, dms, told, recent>>, NEW row \in AgentRow,
             agent' = [agent EXCEPT ![a] = row], row.state # "none"
      PROVE  RowsGood
  BY <1>0, <1>2, QuietRows DEF RowsGood, Grown, Effect
<1>3. ASSUME NEW a \in Agents, NEW private \in BOOLEAN, NEW listed \in BOOLEAN, UpdateAgent(a, private, listed)
      PROVE  Good
  <2>1. /\ UpdatedAgent(agent[a], private, listed) \in AgentRow
        /\ UpdatedAgent(agent[a], private, listed).state = "live"
    BY <1>0, <1>3, NewRows DEF UpdateAgent, GetOwned, GetAgent
  <2>2. RowsGood
    BY <1>2, <1>3, <2>1 DEF UpdateAgent
  <2> QED BY <1>3, <2>2, CallGood DEF UpdateAgent
<1>4. ASSUME NEW a \in Agents, SoftDeleteAgent(a), UNCHANGED <<account, token, contact, dms, told, recent>>
      PROVE  RowsGood
  <2>1. [agent[a] EXCEPT !.state = "deleted"] \in AgentRow /\ [agent[a] EXCEPT !.state = "deleted"].state # "none"
    BY <1>0 DEF AgentRow
  <2>2. agent' = [agent EXCEPT ![a] = [agent[a] EXCEPT !.state = "deleted"]]
    BY <1>4, Zenon DEF SoftDeleteAgent
  <2> QED BY <1>2, <1>4, <2>1, <2>2, Zenon
<1>5. ASSUME NEW a \in Agents, DeleteAgent(a)
      PROVE  Good
  BY <1>4, <1>5, CallGood DEF DeleteAgent
<1>6. ASSUME NEW r \in Requests, NEW u \in Users, DeleteMe(r, u)
      PROVE  Good
  <2>1. ListAgentsByOwner(u) \in Todo /\ ListAgentsByOwner(u) \subseteq Agents
    BY DEF ListAgentsByOwner, Todo
  <2> QED BY <1>6, <2>1, BeginGood DEF DeleteMe, Point
<1>7. ASSUME NEW r \in Requests, RetireNext(r)
      PROVE  Good
  <2>1. req[r].x \subseteq Agents /\ req[r] # Idle /\ left' = left /\ req[r].at = "retire"
    BY <1>7 DEF RetireNext, At, Inv, Pending, Sound
  <2>2. PICK a \in req[r].x :
           \/ ~GetAgent(a) /\ Done(r) /\ UNCHANGED agent
           \/ /\ GetAgent(a) /\ SoftDeleteAgent(a)
              /\ Goto(r, IF req[r].x = {a} THEN "close" ELSE "retire", req[r].x \ {a})
    BY <1>7 DEF RetireNext
  <2>3. UNCHANGED <<account, token, contact, dms, told, recent>> /\ a \in Agents /\ req[r].x \ {a} \in Todo
    BY <1>7, <2>1, <2>2 DEF RetireNext, Todo
  <2>4. CASE Done(r) /\ UNCHANGED agent
    <3>1. RowsGood
      BY <2>3, <2>4, RowsKept DEF rows
    <3> QED BY <2>1, <2>4, <3>1, DoneGood
  <2>5. CASE SoftDeleteAgent(a) /\ Goto(r, IF req[r].x = {a} THEN "close" ELSE "retire", req[r].x \ {a})
    <3>1. RowsGood
      BY <1>4, <2>3, <2>5
    <3> QED BY <2>1, <2>3, <2>5, <3>1, GotoGood DEF Point
  <2> QED BY <2>2, <2>4, <2>5
<1>8. ASSUME NEW r \in Requests, CloseAccount(r)
      PROVE  Good
  <2>1. req[r].u \in Users /\ left' = left
    BY <1>8, KeyType DEF CloseAccount, At, Inv
  <2>2. CASE UNCHANGED <<account, contact>>
    BY <1>8, <2>1, <2>2, RowsKept, DoneGood DEF CloseAccount, rows
  <2>3. CASE /\ account' = [account EXCEPT ![req[r].u] = "closed"]
             /\ contact' = [k \in Key |-> IF k[1] = req[r].u THEN RemoveAllContacts(contact[k]) ELSE contact[k]]
    <3>1. \A k \in Key : Same(contact'[k], contact[k]) /\ contact'[k].blocked = contact[k].blocked
      BY <1>0, <2>3, ContactStatements DEF Same
    <3>2. contact' \in [Key -> ContactRow]
      BY <2>3, <3>1 DEF Same
    <3>3. Quiet
      BY <1>0, <1>8, <3>1, <3>2 DEF Quiet, CloseAccount
    <3>4. Told
      BY <3>1 DEF Told
    <3>5. Grown
      BY <1>0, <1>8, <2>1, <2>3, <3>1 DEF Grown, Same, Exists, CloseAccount
    <3>6. RowsGood
      BY <1>0, <1>8, <2>3, <3>3, <3>4, <3>5 DEF RowsGood, Effect, CloseAccount
    <3> QED BY <1>8, <2>1, <3>6, DoneGood DEF CloseAccount
  <2> QED BY <1>8, <2>2, <2>3 DEF CloseAccount
<1> QED BY <1>1, <1>3, <1>5, <1>6, <1>7, <1>8 DEF Registry

\* Making, revoking and outliving a code.
LEMMA CodesGood ==
  ASSUME Inv, Codes
  PROVE  Good
<1>0. token \in [Tokens -> TokenRow] /\ contact \in [Key -> ContactRow] /\ {} \in Todo
  BY DEF Inv, TypeOK, Todo
<1>1. ASSUME NEW r \in Requests, NEW a \in Agents, CreateToken(r, a)
      PROVE  Good
  <2>1. OwnerOf[a] \in Users /\ agent[a].state # "none"
    BY <1>1, PairingAssumption DEF CreateToken, GetAgent, PairingAssumption
  <2> QED BY <1>0, <1>1, <2>1, BeginGood DEF CreateToken, Point
<1>2. ASSUME NEW r \in Requests, NEW t \in Tokens, NEW max \in 0..MaxUses, MintToken(r, t, max)
      PROVE  Good
  <2>1. req[r].a \in Agents /\ left' = left
    BY <1>2, KeyType DEF MintToken, At, Inv
  <2>2. Mints(t, req[r].a, max)
    BY <1>2 DEF MintToken, Mints
  <2>3. Effect
    BY <2>1, <2>2 DEF Effect
  <2>4. RowsGood
    BY <1>2, <2>3 DEF RowsGood, MintToken, Grown, Told, Inv, TypeOK
  <2> QED BY <1>2, <2>1, <2>4, DoneGood DEF MintToken
<1>3. ASSUME NEW t \in Tokens, NEW row \in TokenRow, token' = [token EXCEPT ![t] = row],
             row.uses = token[t].uses, row.max = token[t].max, row.agent = token[t].agent,
             row.state # "none", token[t].state # "none",
             UNCHANGED <<account, agent, contact, dms, told, recent>>
      PROVE  RowsGood
  <2>1. token' \in [Tokens -> TokenRow]
    BY <1>0, <1>3
  <2>2. Quiet
    BY <1>0, <1>3, <2>1 DEF Quiet, Same
  <2> QED BY <1>3, <2>2 DEF RowsGood, Effect, Grown, Told, Inv, TypeOK
<1>4. ASSUME NEW t \in Tokens, RevokeToken(t)
      PROVE  Good
  <2> DEFINE row == [token[t] EXCEPT !.state = "revoked"]
  <2>1. /\ row \in TokenRow /\ row.uses = token[t].uses /\ row.max = token[t].max
        /\ row.agent = token[t].agent /\ row.state = "revoked"
    BY <1>0 DEF TokenRow
  <2>2. token' = [token EXCEPT ![t] = row]
    BY <1>4, Zenon DEF RevokeToken, RevokePairToken
  <2> HIDE DEF row
  <2>3. RowsGood
    BY <1>3, <1>4, <2>1, <2>2 DEF RevokeToken
  <2> QED BY <1>4, <2>3, CallGood DEF RevokeToken
<1>5. ASSUME NEW t \in Tokens, TokenExpires(t)
      PROVE  Good
  <2> DEFINE row == [token[t] EXCEPT !.expired = TRUE]
  <2>1. /\ row \in TokenRow /\ row.uses = token[t].uses /\ row.max = token[t].max
        /\ row.agent = token[t].agent /\ row.state = token[t].state
    BY <1>0 DEF TokenRow
  <2>2. token' = [token EXCEPT ![t] = row]
    BY <1>5, Zenon DEF TokenExpires
  <2> HIDE DEF row
  <2>3. RowsGood
    BY <1>3, <1>5, <2>1, <2>2 DEF TokenExpires
  <2> QED BY <1>5, <2>3, CallGood DEF TokenExpires
<1> QED BY <1>1, <1>2, <1>4, <1>5 DEF Codes

\* An event joins the ones the agent was sent.
LEMMA EnqueueType ==
  ASSUME TypeOK, NEW k \in Key, NEW event \in {"joined", "left"}, Enqueue(k, event)
  PROVE  told' \in [Key -> Seq({"joined", "left"})]
<1>1. Append(told[k], event) \in Seq({"joined", "left"})
  BY DEF TypeOK
<1> QED BY <1>1 DEF Enqueue, TypeOK

\* Somebody comes and the agent is told.
LEMMA ComesGood ==
  ASSUME Inv, NEW u \in Users, NEW a \in Agents, NEW via \in Via \ {"none"}, NEW t \in Tokens \cup {NoToken},
         Comes(u, a, via, t), Enqueue(<<u, a>>, "joined"), UNCHANGED <<agent, recent>>,
         account' \in [Users -> {"none", "open", "closed"}],
         \A v \in Users : account[v] # "none" => account'[v] # "none"
  PROVE  RowsGood
<1> DEFINE k == <<u, a>>
<1>1. k \in Key
  BY DEF Key
<1>2. contact' = [contact EXCEPT ![k] = NewContact(via, t)] /\ Enqueue(k, "joined") /\ ~Exists(contact[k])
      /\ contact[k].blocked = FALSE
  BY DEF Comes, Inv, Fresh
<1>3. NewContact(via, t).via = via /\ NewContact(via, t).blocked = FALSE
  BY NewRows
<1>4. Effect
  BY DEF Effect
<1> HIDE DEF k
<1>5. /\ Exists(contact'[k]) /\ contact'[k].blocked = FALSE
      /\ \A j \in Key : j # k => contact'[j] = contact[j]
  BY <1>1, <1>2, <1>3 DEF Exists, Inv, TypeOK
<1>6. Told
  BY <1>2, <1>5 DEF Told
<1>7. Grown
  BY <1>5 DEF Grown
<1> QED BY <1>1, <1>2, <1>4, <1>6, <1>7, EnqueueType DEF RowsGood, Inv, TypeOK

\* A person shares no chat with an agent they do not have.
LEMMA FirstChat ==
  ASSUME Inv, NEW k \in Key, ~Exists(contact[k]), FindOrCreateDM(k)
  PROVE  dms' = [dms EXCEPT ![k] = @ + 1]
BY DEF Inv, JoinedWhole, FindOrCreateDM, FindDM, CreateDM

\* The welcome, the catalogue and the codes.
LEMMA ArrivalsGood ==
  ASSUME Inv, Arrivals
  PROVE  Good
<1>0. /\ token \in [Tokens -> TokenRow] /\ contact \in [Key -> ContactRow] /\ {} \in Todo
      /\ account \in [Users -> {"none", "open", "closed"}] /\ NoToken \notin Tokens
  BY PairingAssumption DEF Inv, TypeOK, Todo, PairingAssumption
<1>1. ASSUME NEW u \in Users, Welcome(u)
      PROVE  Good
  <2>1. /\ Calls("signup") /\ account[u] = "none" /\ account' = [account EXCEPT ![u] = "open"]
        /\ UNCHANGED <<agent, token, recent, req>>
    BY <1>1 DEF Welcome
  <2>2. /\ account' \in [Users -> {"none", "open", "closed"}] /\ account'[u] # "none"
        /\ \A v \in Users : account[v] # "none" => account'[v] # "none"
    BY <1>0, <2>1
  <2>3. CASE WelcomeAgent \in Agents /\ GetAgent(WelcomeAgent)
    <3> DEFINE a == WelcomeAgent
    <3>1. /\ contact' = [contact EXCEPT ![<<u, a>>] = NewContact("hub", NoToken)]
          /\ FindOrCreateDM(<<u, a>>) /\ Enqueue(<<u, a>>, "joined")
      BY <1>1, <2>3 DEF Welcome
    <3>2. a \in Agents /\ agent'[a].state # "none" /\ <<u, a>> \in Key /\ ~Exists(contact[<<u, a>>])
      BY <2>1, <2>3 DEF GetAgent, Key, Inv, Fresh
    <3>3. dms' = [dms EXCEPT ![<<u, a>>] = @ + 1]
      BY <3>1, <3>2, FirstChat
    <3>4. Comes(u, a, "hub", NoToken)
      BY <2>1, <2>2, <3>1, <3>2, <3>3 DEF Comes
    <3>5. "hub" \in Via \ {"none"}
      BY DEF Via
    <3>6. RowsGood
      BY <2>1, <2>2, <3>1, <3>2, <3>4, <3>5, ComesGood
    <3> QED BY <2>1, <3>6, CallGood
  <2>4. CASE ~(WelcomeAgent \in Agents /\ GetAgent(WelcomeAgent))
    <3>1. UNCHANGED <<contact, dms, told>>
      BY <1>1, <2>4 DEF Welcome
    <3>2. RowsGood
      BY <2>1, <2>2, <3>1, QuietRows DEF RowsGood, Effect, Grown, Inv, TypeOK
    <3> QED BY <2>1, <3>2, CallGood
  <2> QED BY <2>3, <2>4
<1>2. ASSUME NEW r \in Requests, NEW u \in Users, NEW t \in Tokens, Accept(r, u, t)
      PROVE  Good
  <2>1. token[t].agent \in Agents /\ agent[token[t].agent].state # "none"
    BY <1>2 DEF Accept, lookup, GetPairTokenByHash, GetAgent, Inv, CodesSound
  <2> QED BY <1>0, <1>2, <2>1, BeginGood DEF Accept, Point
<1>3. ASSUME NEW r \in Requests, NEW u \in Users, NEW a \in Agents, AddFromCatalogue(r, u, a)
      PROVE  Good
  <2>1. agent[a].state # "none"
    BY <1>3 DEF AddFromCatalogue, ListCatalogue
  <2> QED BY <1>0, <1>3, <2>1, BeginGood DEF AddFromCatalogue, Point
<1>4. ASSUME NEW r \in Requests, GetContact(r)
      PROVE  Good
  <2>1. req[r] # Idle /\ req[r].at = "join" /\ left' = left /\ RowsGood
    BY <1>4, RowsKept DEF GetContact, At
  <2> DEFINE c == contact[KeyOf(r)]
             seen == {f \in {"removed", "blocked"} : c[f]}
  <2>2. seen \in Todo
    BY DEF Todo, Flag
  <2>3. CASE Exists(c)
    <3>1. Goto(r, "known", seen)
      BY <1>4, <2>3 DEF GetContact
    <3> HIDE DEF seen
    <3> QED BY <2>1, <2>2, <2>3, <3>1, GotoGood DEF Point
  <2>4. CASE ~Exists(c)
    <3>1. Goto(r, "new", {})
      BY <1>4, <2>4 DEF GetContact
    <3> QED BY <1>0, <2>1, <3>1, GotoGood DEF Point
  <2> QED BY <2>3, <2>4
<1>5. ASSUME NEW r \in Requests, JoinKnown(r)
      PROVE  Good
  <2> DEFINE k == KeyOf(r)
             c == contact[k]
             d == Rejoined(c, req[r].x)
  <2>1. /\ req[r] # Idle /\ req[r].at = "known" /\ left' = left /\ contact' = [contact EXCEPT ![k] = d]
        /\ UNCHANGED <<account, agent, token, dms, recent>>
    BY <1>5 DEF JoinKnown, At
  <2>2. k \in Key /\ req[r].x \in Todo /\ Exists(c) /\ c \in ContactRow
    BY <1>0, <2>1, KeyType DEF Inv, Pending, Sound, KeyOf
  <2>3. Same(d, c) /\ d.blocked = IF "blocked" \in req[r].x THEN FALSE ELSE c.blocked
    BY <2>2, ContactStatements
  <2>4. \/ "blocked" \notin req[r].x /\ Done(r) /\ UNCHANGED told
        \/ "blocked" \in req[r].x /\ Enqueue(k, "joined") /\ Done(r)
        \/ "blocked" \in req[r].x /\ d = c /\ Goto(r, "tell", {"joined"}) /\ UNCHANGED told
    BY <1>5 DEF JoinKnown
  <2> HIDE DEF d, k
  <2>5. CASE "blocked" \notin req[r].x /\ Done(r) /\ UNCHANGED told
    <3>1. RowsGood
      BY <2>1, <2>2, <2>3, <2>5, RowChanged
    <3> QED BY <2>1, <2>5, <3>1, DoneGood
  <2>6. CASE "blocked" \in req[r].x /\ Enqueue(k, "joined") /\ Done(r)
    <3>1. told' = [told EXCEPT ![k] = Append(@, IF d.blocked THEN "left" ELSE "joined")] /\ d.blocked \in BOOLEAN
      BY <2>3, <2>6 DEF Enqueue
    <3>2. RowsGood
      BY <2>1, <2>2, <2>3, <3>1, RowChanged
    <3> QED BY <2>1, <2>6, <3>2, DoneGood
  <2>7. CASE d = c /\ Goto(r, "tell", {"joined"}) /\ UNCHANGED told
    <3>1. RowsGood
      BY <2>1, <2>2, <2>3, <2>7, RowChanged
    <3>2. {"joined"} \in Todo
      BY DEF Todo, Flag
    <3> QED BY <2>1, <2>7, <3>1, <3>2, GotoGood DEF Point
  <2> QED BY <2>4, <2>5, <2>6, <2>7
<1>6. ASSUME NEW r \in Requests, JoinNew(r)
      PROVE  Good
  <2> DEFINE u == req[r].u
             a == req[r].a
             t == req[r].t
             via == IF t = NoToken THEN "catalogue" ELSE "pair_token"
  <2>1. req[r] # Idle /\ req[r].at = "new" /\ left' = left /\ Done(r) /\ UNCHANGED <<account, agent, recent>>
    BY <1>6 DEF JoinNew, At
  <2>2. /\ u \in Users /\ a \in Agents /\ t \in Tokens \cup {NoToken} /\ <<u, a>> \in Key
        /\ account[u] # "none" /\ agent[a].state # "none" /\ via \in Via \ {"none"}
    BY <2>1, KeyType DEF Inv, Pending, Sound, KeyOf, Via
  <2>3. CASE UNCHANGED <<token, contact, dms, told>>
    <3>1. RowsGood
      BY <2>1, <2>3, RowsKept DEF rows
    <3> QED BY <2>1, <3>1, DoneGood
  <2>4. CASE ~UNCHANGED <<token, contact, dms, told>>
    <3>1. /\ t # NoToken => UsePairToken(t)
          /\ ~Exists(contact[<<u, a>>])
          /\ token' = IF t = NoToken THEN token ELSE [token EXCEPT ![t] = Used(@)]
          /\ FindOrCreateDM(<<u, a>>)
          /\ contact' = [contact EXCEPT ![<<u, a>>] = NewContact(via, t)]
          /\ Enqueue(<<u, a>>, "joined")
      BY <1>6, <2>4 DEF JoinNew, KeyOf
    <3>2. dms' = [dms EXCEPT ![<<u, a>>] = @ + 1]
      BY <2>2, <3>1, FirstChat
    <3>3. Comes(u, a, via, t)
      BY <2>1, <2>2, <3>1, <3>2 DEF Comes
    <3> HIDE DEF u, a, t, via
    <3>4. RowsGood
      BY <1>0, <2>1, <2>2, <3>1, <3>3, ComesGood
    <3> QED BY <2>1, <3>4, DoneGood
  <2> QED BY <2>3, <2>4
<1>7. ASSUME NEW r \in Requests, Tell(r)
      PROVE  Good
  <2>1. req[r] # Idle /\ req[r].at = "tell" /\ left' = left /\ Done(r) /\ UNCHANGED <<account, agent, token, contact, dms, recent>>
    BY <1>7 DEF Tell, At
  <2>2. KeyOf(r) \in Key /\ req[r].x \subseteq {"joined", "left"}
    BY <2>1, KeyType DEF Inv, Pending, Sound
  <2>3. PICK event \in req[r].x : Enqueue(KeyOf(r), event)
    BY <1>7 DEF Tell
  <2>4. told' \in [Key -> Seq({"joined", "left"})]
    BY <2>2, <2>3, EnqueueType DEF Inv
  <2>5. RowsGood
    BY <2>1, <2>4, QuietRows DEF RowsGood, Effect, Grown, Inv, TypeOK
  <2> QED BY <2>1, <2>5, DoneGood
<1> QED BY <1>1, <1>2, <1>3, <1>4, <1>5, <1>6, <1>7 DEF Arrivals

\* One of several settings is done with.
LEMMA FieldDoneGood ==
  ASSUME Inv, RowsGood, NEW r \in Requests, req[r] # Idle, left' = left, NEW f, FieldDone(r, f),
         req[r].at \in {"patch", "pin"}
  PROVE  Good
<1>1. req[r].x \ {f} \in Todo
  BY KeyType DEF Inv, Todo
<1>2. CASE Done(r)
  BY <1>2, DoneGood
<1>3. CASE Goto(r, "patch", req[r].x \ {f})
  BY <1>1, <1>3, GotoGood DEF Point
<1> QED BY <1>2, <1>3 DEF FieldDone

\* What a person decides about an agent they have.
LEMMA DecisionsGood ==
  ASSUME Inv, Decisions
  PROVE  Good
<1>0. contact \in [Key -> ContactRow] /\ {} \in Todo /\ recent \in [Key -> Nat]
      /\ \A u \in Users, a \in Agents : <<u, a>> \in Key
  BY DEF Inv, TypeOK, Todo, Key
<1>1. ASSUME NEW u \in Users, NEW a \in Agents, Exists(contact[<<u, a>>])
      PROVE  agent[a].state # "none"
  BY <1>1 DEF Inv, Fresh
<1>2. ASSUME NEW r \in Requests, NEW u \in Users, NEW a \in Agents,
             Block(r, u, a) \/ Unblock(r, u, a) \/ Remove(r, u, a) \/ Report(r, u, a)
      PROVE  Good
  <2>1. CASE Block(r, u, a)
    BY <1>0, <1>1, <2>1, BeginGood DEF Block, Point
  <2>2. CASE Unblock(r, u, a)
    <3>1. Exists(contact[<<u, a>>])
      BY <2>2 DEF Unblock, Inv, Fresh
    <3> QED BY <1>0, <1>1, <2>2, <3>1, BeginGood DEF Unblock, Point
  <2>3. CASE Remove(r, u, a)
    BY <1>0, <1>1, <2>3, BeginGood DEF Remove, AlreadyAdded, Point
  <2>4. CASE Report(r, u, a)
    BY <1>0, <1>1, <2>4, BeginGood DEF Report, Point
  <2> QED BY <1>2, <2>1, <2>2, <2>3, <2>4
<1>3. ASSUME NEW r \in Requests, NEW u \in Users, NEW a \in Agents, NEW fields \in Patches, NEW on \in BOOLEAN,
             UpdateContact(r, u, a, fields, on)
      PROVE  Good
  <2> DEFINE x == fields \cup (IF on THEN {"on"} ELSE {})
  <2>1. x \in Todo
    <3>1. fields \subseteq Field
      BY PairingAssumption DEF PairingAssumption
    <3> QED BY <3>1 DEF Todo, Flag
  <2>2. Calls("patch") /\ Exists(contact[<<u, a>>]) /\ Begin(r, "patch", u, a, NoToken, x) /\ UNCHANGED rows
    BY <1>3 DEF UpdateContact, AlreadyAdded
  <2> HIDE DEF x
  <2> QED BY <1>1, <2>1, <2>2, BeginGood DEF Point
<1>4. ASSUME NEW r \in Requests, req[r] # Idle, req[r].at \notin {"retire", "close"}, NEW d,
             contact' = [contact EXCEPT ![KeyOf(r)] = d], Same(d, contact[KeyOf(r)]),
             d.blocked = contact[KeyOf(r)].blocked,
             UNCHANGED <<account, agent, token, dms, told, recent>>
      PROVE  RowsGood
  <2>1. KeyOf(r) \in Key
    BY <1>4, KeyType DEF Inv
  <2> QED BY <1>4, <2>1, RowChanged
<1>5. ASSUME NEW r \in Requests, req[r] # Idle, req[r].at \notin {"retire", "close"}
      PROVE  contact[KeyOf(r)] \in ContactRow /\ KeyOf(r) \in Key
  BY <1>0, <1>5, KeyType DEF Inv
<1>6. ASSUME NEW r \in Requests, BlockTx(r)
      PROVE  Good
  <2> DEFINE c == contact[KeyOf(r)]
  <2>1. /\ req[r] # Idle /\ req[r].at = "block" /\ left' = left
        /\ UNCHANGED <<account, agent, token, dms, recent>>
    BY <1>6 DEF BlockTx, At
  <2>2. Exists(c)
    BY <2>1 DEF Inv, Pending, Sound, KeyOf
  <2>3. CASE /\ contact' = [contact EXCEPT ![KeyOf(r)] = SetContactBlocked(c)]
             /\ Enqueue(KeyOf(r), "left") /\ Done(r)
    <3>1. Same(SetContactBlocked(c), c) /\ SetContactBlocked(c).blocked = TRUE
      BY <1>5, <2>1, ContactStatements
    <3>2. RowsGood
      BY <1>5, <2>1, <2>2, <2>3, <3>1, RowChanged DEF Enqueue
    <3> QED BY <2>1, <2>3, <3>2, DoneGood
  <2>4. CASE Goto(r, "tell", {"left"}) /\ UNCHANGED <<contact, told>>
    <3>1. RowsGood
      BY <2>1, <2>4, RowsKept DEF rows
    <3>2. {"left"} \in Todo
      BY DEF Todo, Flag
    <3> QED BY <2>1, <2>4, <3>1, <3>2, GotoGood DEF Point
  <2> QED BY <1>6, <2>3, <2>4 DEF BlockTx
<1>7. ASSUME NEW r \in Requests, UnblockTx(r)
      PROVE  Good
  <2> DEFINE c == contact[KeyOf(r)]
  <2>1. /\ req[r] # Idle /\ req[r].at = "unblock" /\ left' = left
        /\ UNCHANGED <<account, agent, token, dms, recent>>
    BY <1>7 DEF UnblockTx, At
  <2>2. Exists(c)
    BY <2>1 DEF Inv, Pending, Sound, KeyOf
  <2>3. CASE /\ contact' = [contact EXCEPT ![KeyOf(r)] = ClearContactBlocked(c)]
             /\ Enqueue(KeyOf(r), "joined") /\ Done(r)
    <3>1. Same(ClearContactBlocked(c), c) /\ ClearContactBlocked(c).blocked = FALSE
      BY <1>5, <2>1, ContactStatements
    <3>2. RowsGood
      BY <1>5, <2>1, <2>2, <2>3, <3>1, RowChanged DEF Enqueue
    <3> QED BY <2>1, <2>3, <3>2, DoneGood
  <2>4. CASE Goto(r, "tell", {"joined"}) /\ UNCHANGED <<contact, told>>
    <3>1. RowsGood
      BY <2>1, <2>4, RowsKept DEF rows
    <3>2. {"joined"} \in Todo
      BY DEF Todo, Flag
    <3> QED BY <2>1, <2>4, <3>1, <3>2, GotoGood DEF Point
  <2> QED BY <1>7, <2>3, <2>4 DEF UnblockTx
<1>8. ASSUME NEW r \in Requests, SetMuted(r) \/ SetArchived(r) \/ PinContact(r)
      PROVE  Good
  <2> DEFINE c == contact[KeyOf(r)]
             on == "on" \in req[r].x
  <2>1. /\ req[r] # Idle /\ req[r].at \in {"patch", "pin"} /\ left' = left
        /\ UNCHANGED <<account, agent, token, dms, told, recent>>
    BY <1>8 DEF SetMuted, SetArchived, PinContact, At
  <2>2. \/ Done(r) /\ UNCHANGED contact
        \/ \E f \in Field, d \in {SetContactMuted(c, on), SetContactArchived(c, on), SetContactPinned(c, on)} :
              FieldDone(r, f) /\ contact' = [contact EXCEPT ![KeyOf(r)] = d]
    BY <1>8 DEF SetMuted, SetArchived, PinContact, Field
  <2>3. CASE Done(r) /\ UNCHANGED contact
    <3>1. RowsGood
      BY <2>1, <2>3, RowsKept DEF rows
    <3> QED BY <2>1, <2>3, <3>1, DoneGood
  <2>4. ASSUME NEW f \in Field, NEW d \in {SetContactMuted(c, on), SetContactArchived(c, on), SetContactPinned(c, on)},
               FieldDone(r, f), contact' = [contact EXCEPT ![KeyOf(r)] = d]
        PROVE  Good
    <3>1. on \in BOOLEAN /\ c \in ContactRow
      BY <1>5, <2>1
    <3> HIDE DEF on, c
    <3>s. /\ Same(SetContactMuted(c, on), c) /\ SetContactMuted(c, on).blocked = c.blocked
          /\ Same(SetContactPinned(c, on), c) /\ SetContactPinned(c, on).blocked = c.blocked
          /\ Same(SetContactArchived(c, on), c) /\ SetContactArchived(c, on).blocked = c.blocked
      BY <3>1, ContactStatements
    <3>2. Same(d, c) /\ d.blocked = c.blocked
      BY <3>s
    <3>3. RowsGood
      BY <1>4, <2>1, <2>4, <3>2 DEF c
    <3> QED BY <2>1, <2>4, <3>3, FieldDoneGood
  <2> QED BY <2>2, <2>3, <2>4
<1>9. ASSUME NEW r \in Requests, SetPinned(r)
      PROVE  Good
  <2>1. req[r] # Idle /\ req[r].at = "patch" /\ left' = left /\ RowsGood
    BY <1>9, RowsKept DEF SetPinned, At
  <2>2. req[r].x \in Todo
    BY <2>1, KeyType DEF Inv
  <2>3. Done(r) \/ Goto(r, "pin", req[r].x)
    BY <1>9 DEF SetPinned
  <2> QED BY <2>1, <2>2, <2>3, DoneGood, GotoGood DEF Point
<1>10. ASSUME NEW r \in Requests, RemoveTx(r)
       PROVE  Good
  <2>1. /\ req[r] # Idle /\ req[r].at = "remove" /\ left' = left /\ Done(r)
        /\ contact' = [contact EXCEPT ![KeyOf(r)] = RemoveContact(contact[KeyOf(r)])]
        /\ UNCHANGED <<account, agent, token, dms, told, recent>>
    BY <1>10 DEF RemoveTx, At
  <2>2. /\ Same(RemoveContact(contact[KeyOf(r)]), contact[KeyOf(r)])
        /\ RemoveContact(contact[KeyOf(r)]).blocked = contact[KeyOf(r)].blocked
    BY <1>5, <2>1, ContactStatements
  <2>3. RowsGood
    BY <1>4, <2>1, <2>2
  <2> QED BY <2>1, <2>3, DoneGood
<1>11. ASSUME UNCHANGED <<account, agent, token, contact, dms, told>>, recent' \in [Key -> Nat]
       PROVE  RowsGood
  BY <1>11, QuietRows DEF RowsGood, Grown, Effect, Inv, TypeOK
<1>12. ASSUME NEW r \in Requests, CreateReport(r)
       PROVE  Good
  <2>0. KeyOf(r) \in Key /\ recent' = [recent EXCEPT ![KeyOf(r)] = recent[KeyOf(r)] + 1]
    BY <1>5, <1>12 DEF CreateReport, At
  <2>1. RowsGood
    BY <1>0, <1>11, <1>12, <2>0 DEF CreateReport
  <2> QED BY <1>12, <2>1, DoneGood DEF CreateReport, At
<1>13. ASSUME NEW k \in Key, ReportsAge(k)
       PROVE  Good
  <2>1. RowsGood
    BY <1>0, <1>11, <1>13 DEF ReportsAge
  <2> QED BY <1>13, <2>1, CallGood DEF ReportsAge
<1> QED BY <1>2, <1>3, <1>6, <1>7, <1>8, <1>9, <1>10, <1>12, <1>13 DEF Decisions

-----------------------------------------------------------------------------
(* The invariant holds at the start and after every step.                  *)

\* The invariant holds at the start.
LEMMA InitInv ==
  ASSUME Init
  PROVE  Inv
<1>0. NoToken \notin Tokens /\ NoAgent \notin Agents /\ MaxUses \in Nat /\ MaxCalls \in Nat
      /\ Founding \subseteq Agents /\ \A a \in Founding : OwnerOf[a] \in Members
  BY PairingAssumption DEF PairingAssumption
<1>1. contact \in [Key -> ContactRow]
      /\ \A k \in Key : /\ contact[k].token = NoToken /\ contact[k].blocked = FALSE
                        /\ Exists(contact[k]) <=> k[2] \in Founding /\ OwnerOf[k[2]] = k[1]
  <2>1. /\ NoContact \in ContactRow /\ NoContact.token = NoToken /\ NoContact.blocked = FALSE /\ ~Exists(NoContact)
        /\ NewContact("owner", NoToken) \in ContactRow /\ NewContact("owner", NoToken).token = NoToken
        /\ NewContact("owner", NoToken).blocked = FALSE /\ Exists(NewContact("owner", NoToken))
    BY NewRows DEF NoContact, Exists, Via
  <2> QED BY <2>1 DEF Init
<1>2. TypeOK
  <2>1. \A a \in Agents : agent[a] \in AgentRow
    BY DEF Init, AgentRow
  <2>2. agent \in [Agents -> AgentRow]
    BY <2>1 DEF Init
  <2>3. token \in [Tokens -> TokenRow]
    BY <1>0 DEF Init, TokenRow
  <2>4. left \in 0..MaxCalls
    BY <1>0 DEF Init
  <2>5. /\ account \in [Users -> {"none", "open", "closed"}]
        /\ dms \in [Key -> Nat] /\ recent \in [Key -> Nat] /\ req \in [Requests -> Request \cup {Idle}]
    BY DEF Init
  <2>6. told \in [Key -> Seq({"joined", "left"})]
    <3>1. <<>> \in Seq({"joined", "left"})
      OBVIOUS
    <3> QED BY <3>1 DEF Init
  <2> QED BY <1>1, <2>2, <2>3, <2>4, <2>5, <2>6 DEF TypeOK
<1>3. Fresh
  <2>1. ASSUME NEW u \in Users, NEW a \in Agents
        PROVE  /\ agent[a].state = "none" \/ account[u] = "none" => ~Exists(contact[<<u, a>>])
               /\ ~Exists(contact[<<u, a>>]) => contact[<<u, a>>].blocked = FALSE
    <3>1. /\ <<u, a>> \in Key /\ contact[<<u, a>>].blocked = FALSE
          /\ Exists(contact[<<u, a>>]) <=> a \in Founding /\ OwnerOf[a] = u
      BY <1>1 DEF Key
    <3>2. (a \in Founding => agent[a].state = "live") /\ (u \in Members => account[u] = "open")
      BY DEF Init
    <3> QED BY <1>0, <3>1, <3>2
  <2> QED BY <2>1 DEF Fresh
<1>4. Pending
  BY DEF Init, Pending
<1>5. \A t \in Tokens : Brought(t) = {}
  BY <1>0, <1>1 DEF Brought
<1>6. \A t \in Tokens : token[t].uses = 0 /\ token[t].max = 0 /\ token[t].state = "none"
  BY DEF Init
<1>7. CodesSound
  BY <1>6 DEF CodesSound
<1>8. \A t \in Tokens : IsFiniteSet(Brought(t)) /\ Cardinality(Brought(t)) = 0
  BY <1>5, FS_EmptySet
<1>9. JoinedWhole
  <2>1. \A k \in Key : dms[k] = IF Exists(contact[k]) THEN 1 ELSE 0
    BY <1>1 DEF Init
  <2> QED BY <1>6, <1>8, <2>1 DEF JoinedWhole, Brought
<1> QED BY <1>2, <1>3, <1>4, <1>7, <1>8, <1>9 DEF Inv

\* Every step is good.
LEMMA StepGood ==
  ASSUME Inv, [Next]_vars
  PROVE  Good
<1>1. CASE UNCHANGED vars
  <2>1. RowsGood
    BY <1>1, RowsKept DEF rows, vars
  <2> QED BY <1>1, <2>1, PendingKept DEF vars, Good, RowsGood, Inv, TypeOK
<1> QED BY <1>1, RegistryGood, CodesGood, ArrivalsGood, DecisionsGood DEF Next

\* The inductive invariant holds of every reachable state, for any number of
\* people, agents, codes and handlers under way.
THEOREM AlwaysInv == Spec => []Inv
<1>1. Inv /\ [Next]_vars => Inv'
  BY StepGood, GoodEnough
<1> QED BY <1>1, InitInv, PTL DEF Spec

\* Every table keeps its type (the columns of users, agents, pair_tokens,
\* contacts).
THEOREM TypeCorrect == Spec => []TypeOK
<1>1. Inv => TypeOK
  BY DEF Inv
<1> QED BY <1>1, AlwaysInv, PTL

\* A join is whole (join, UsePairToken, FindOrCreateDM): the uses of a code
\* are exactly the people it brought and never more than it allows, and a
\* person and an agent share one chat exactly when the person has the agent,
\* however many scans, double taps, sign-ups and doors race.
THEOREM JoinsAreWhole == Spec => []JoinedWhole
<1>1. Inv => JoinedWhole
  BY DEF Inv
<1> QED BY <1>1, AlwaysInv, PTL

\* Nobody new comes by a code that was revoked or has expired at that moment,
\* however early the card was opened (UsePairToken decides in one statement).
THEOREM ClosedCodes == Spec => ClosedCodeBringsNobody
<1>1. Inv /\ [Next]_vars =>
        [\A k \in Key :
          (~Exists(contact[k]) /\ Exists(contact'[k]) /\ contact'[k].via = "pair_token")
          => LET t == contact'[k].token IN token[t].state = "open" /\ ~token[t].expired]_vars
  BY StepGood, GoodEnough DEF OpenDoors
<1> QED BY <1>1, AlwaysInv, PTL DEF Spec, ClosedCodeBringsNobody

\* Every change of a block puts its event in the agent's outbox in the same
\* step (Block, Unblock and the return through a code in join).
THEOREM BlocksAreTold == Spec => BlockTold
<1>1. Inv /\ [Next]_vars =>
        [\A k \in Key :
          contact'[k].blocked # contact[k].blocked
          => told'[k] = Append(told[k], IF contact'[k].blocked THEN "left" ELSE "joined")]_vars
  BY StepGood DEF Good, RowsGood, Told
<1> QED BY <1>1, AlwaysInv, PTL DEF Spec, BlockTold
=============================================================================
