------------------------------- MODULE SignIn -------------------------------
(***************************************************************************)
(* Signing in with a mailed code, the accounts that come of it, and the    *)
(* devices a person is then signed in on.                                  *)
(*                                                                         *)
(* Verify is one look-up, one counted attempt and one transaction.  The    *)
(* transaction is three steps: what it reads and inserts first, the query  *)
(* that picks the devices past the limit, and the commit; what one of      *)
(* them has not committed no other sees.  Rows are told apart by the order *)
(* they were made in: codes of an address, accounts and sessions are       *)
(* sequences.  Secrets are left out: a code is known by its position.      *)
(***************************************************************************)
EXTENDS Integers, Sequences, FiniteSets, SequencesExt

CONSTANTS
    Addresses,
    PushTokens,
    Requests,       \* the handlers that may run at the same time
    Idle, NoToken, NoUser,
    CodeAttemptsMax,
    DevicesMax,
    Burst,          \* codes an address may ask for before it has to wait
    May,            \* the operations this instance calls
    MaxCalls        \* bound on the number of calls

SignInOp == {"start", "refill", "verify", "expire", "touch", "out", "others", "logout",
             "close", "register"}

ASSUME SignInAssumption ==
    /\ CodeAttemptsMax \in Nat \ {0} /\ DevicesMax \in Nat \ {0} /\ Burst \in Nat \ {0}
    /\ MaxCalls \in Nat /\ NoToken \notin PushTokens /\ NoUser \notin Nat
    /\ IsFiniteSet(Requests)

VARIABLES
    bucket,     \* the rate limiter's tokens for an address
    codes,      \* sign_in_codes of each address, oldest first
    accounts,   \* users: "open", "closed", or "new" while or because it was not committed
    identity,   \* user_identities: whose the address is
    sessions,   \* sessions, oldest first
    lately,     \* the sessions by COALESCE(last_seen_at, created_at), oldest first
    req,        \* the handlers under way
    left        \* calls still to come

rows == <<bucket, codes, accounts, identity, sessions, lately>>
signInVars == <<bucket, codes, accounts, identity, sessions, lately, req, left>>

CodeRow == [attempts : Nat, used : BOOLEAN, expired : BOOLEAN,
            compared : Nat]         \* how many guesses were looked at
SessionRow == [user : Nat, state : {"new", "live", "revoked", "undone"},
               expired : BOOLEAN, push : PushTokens \cup {NoToken}]

VerifyRequest ==
    [at : {"count", "begin", "hold", "commit"}, e : Addresses, code : Nat, right : BOOLEAN,
     u : Nat, s : Nat, ends : SUBSET Nat]
RegisterRequest == [at : {"register"}, s : Nat, k : PushTokens]
SignInRequest == VerifyRequest \cup RegisterRequest

SignInInit ==
    /\ bucket = [e \in Addresses |-> Burst]
    /\ codes = [e \in Addresses |-> <<>>]
    /\ accounts = <<>>
    /\ identity = [e \in Addresses |-> NoUser]
    /\ sessions = <<>>
    /\ lately = <<>>
    /\ req = [r \in Requests |-> Idle]
    /\ left = MaxCalls

Calls(op) == op \in May /\ left > 0 /\ left' = left - 1
At(r, p) == req[r] # Idle /\ req[r].at = p /\ left' = left
Done(r) == req' = [req EXCEPT ![r] = Idle]

-----------------------------------------------------------------------------
(* Statements.                                                             *)

CreateSignInCode(e) ==
    codes' = [codes EXCEPT ![e] =
        Append(@, [attempts |-> 0, used |-> FALSE, expired |-> FALSE, compared |-> 0])]
GetLatestSignInCode(e) == Len(codes[e])

GetUser(u) == u \in DOMAIN accounts /\ accounts[u] = "open"

CreateSession(u) == [user |-> u, state |-> "new", expired |-> FALSE, push |-> NoToken]

\* A session others can see and that has not ended.
ListUserSessions(u) ==
    {s \in DOMAIN sessions : /\ sessions[s].user = u /\ sessions[s].state = "live"
                             /\ ~sessions[s].expired}
AuthenticateSession(s) ==
    /\ s \in DOMAIN sessions
    /\ sessions[s].state = "live" /\ ~sessions[s].expired /\ GetUser(sessions[s].user)

\* How late a session was last used.
Place(s) == CHOOSE i \in DOMAIN lately : lately[i] = s

\* The person's sessions, the caller's own new one included.
Visible(u, own) == ListUserSessions(u) \cup {own}

\* Mutant: one device more is kept than the limit.
RevokeOldestButOne(u, own) ==
    {s \in Visible(u, own) :
        Cardinality({n \in Visible(u, own) : Place(n) > Place(s)}) > DevicesMax}

\* The ones past the limit: `DevicesMax' or more were used later.
RevokeOldestUserSessions(u, own) ==
    {s \in Visible(u, own) :
        Cardinality({n \in Visible(u, own) : Place(n) > Place(s)}) >= DevicesMax}

Revoked(set) ==
    [s \in DOMAIN sessions |-> IF s \in set /\ sessions[s].state = "live"
                               THEN [sessions[s] EXCEPT !.state = "revoked"] ELSE sessions[s]]

\* Mutant: only the sessions of the same person give the token up.
SetSessionPushTokenOwn(s, k) ==
    [x \in DOMAIN sessions |->
        IF x # s /\ sessions[x].push = k /\ (s = 0 \/ sessions[x].user = sessions[s].user)
        THEN [sessions[x] EXCEPT !.push = NoToken] ELSE sessions[x]]
\* Another session's claim to a push token is dropped, whatever became of it.
SetSessionPushToken(s, k) ==
    [x \in DOMAIN sessions |-> IF x # s /\ sessions[x].push = k
                               THEN [sessions[x] EXCEPT !.push = NoToken] ELSE sessions[x]]
ClearSessionPush(k) == SetSessionPushToken(0, k)

-----------------------------------------------------------------------------
(* Codes.                                                                  *)

\* Allow: a token is spent, or the caller is told how long to wait.
Allow(e) == bucket[e] > 0
\* Time fills the bucket again, to the brim.
Refill(e) ==
    /\ Calls("refill")
    /\ bucket[e] < Burst
    /\ bucket' = [bucket EXCEPT ![e] = @ + 1]
    /\ UNCHANGED <<codes, accounts, identity, sessions, lately, req>>

\* Start stores the code before it mails it: one whose mail failed stands too.
Start(e) ==
    /\ Calls("start")
    /\ Allow(e)
    /\ bucket' = [bucket EXCEPT ![e] = @ - 1]
    /\ CreateSignInCode(e)
    /\ UNCHANGED <<accounts, identity, sessions, lately, req>>

CodeExpires(e) ==
    /\ Calls("expire")
    /\ \E i \in DOMAIN codes[e] :
         /\ ~codes[e][i].expired
         /\ codes' = [codes EXCEPT ![e][i].expired = TRUE]
    /\ UNCHANGED <<bucket, accounts, identity, sessions, lately, req>>

\* Verify looks the newest code up; `guess' is the code the person has, 0 a wrong one.
Verify(r, e, guess) ==
    LET i == GetLatestSignInCode(e) IN
    /\ Calls("verify")
    /\ req[r] = Idle
    /\ i > 0
    /\ ~codes[e][i].used /\ ~codes[e][i].expired
    /\ req' = [req EXCEPT ![r] = [at |-> "count", e |-> e, code |-> i, right |-> guess = i,
                                  u |-> 0, s |-> 0, ends |-> {}]]
    /\ UNCHANGED rows

\* Mutant: the attempts are compared as they were before this one.
CountedBefore(n) == n > CodeAttemptsMax
\* Whether a code whose attempts were n takes no more guesses after one more.
Exhausted(n) == n + 1 > CodeAttemptsMax

\* One more attempt; the guess is looked at only within the limit.
Counted(row) ==
    [row EXCEPT !.attempts = @ + 1,
                !.compared = IF Exhausted(row.attempts) THEN @ ELSE @ + 1]

\* CountSignInAttempt, and what Verify makes of the count it reads back.
CountSignInAttempt(r) ==
    /\ At(r, "count")
    /\ LET e == req[r].e
           i == req[r].code
           out == Exhausted(codes[e][i].attempts)
       IN  /\ codes' = [codes EXCEPT ![e][i] = Counted(@)]
           /\ IF out \/ ~req[r].right THEN Done(r) ELSE req' = [req EXCEPT ![r].at = "begin"]
    /\ UNCHANGED <<bucket, accounts, identity, sessions, lately>>

-----------------------------------------------------------------------------
(* The transaction of a right code.                                        *)

\* MarkSignInCodeUsed locks the code's row: others with the same code wait.
Unlocked(r) ==
    \A o \in Requests \ {r} : ~(/\ req[o] # Idle /\ req[o].at \in {"hold", "commit"}
                                /\ req[o].e = req[r].e /\ req[o].code = req[r].code)

\* The request once its account and session are known, and once the devices
\* past the limit are.
Begun(x, u, s) == [x EXCEPT !.at = "hold", !.u = u, !.s = s]
Held(x, ends) == [x EXCEPT !.at = "commit", !.ends = ends]

\* accountFor finds the account or opens one nobody else sees yet; the session
\* is inserted with the time the transaction began.
BeginSignIn(r) ==
    /\ At(r, "begin")
    /\ Unlocked(r)
    /\ LET e == req[r].e
           new == identity[e] = NoUser
           u == IF new THEN Len(accounts) + 1 ELSE identity[e]
           s == Len(sessions) + 1
       IN  /\ accounts' = IF new THEN Append(accounts, "new") ELSE accounts
           /\ sessions' = Append(sessions, CreateSession(u))
           /\ lately' = Append(lately, s)
           /\ req' = [req EXCEPT ![r] = Begun(@, u, s)]
    /\ UNCHANGED <<bucket, codes, identity>>

\* The limit is applied to what is visible now; an account closed meanwhile is
\* not found by users.Get, and everything is undone.
HoldToDevices(r) ==
    /\ At(r, "hold")
    /\ LET u == req[r].u
       IN  \/ /\ accounts[u] \in {"open", "new"}
              /\ req' = [req EXCEPT ![r] = Held(@, RevokeOldestUserSessions(u, req[r].s))]
              /\ UNCHANGED sessions
           \/ /\ accounts[u] = "closed"
              /\ sessions' = [sessions EXCEPT ![req[r].s].state = "undone"]
              /\ Done(r)
    /\ UNCHANGED <<bucket, codes, accounts, identity, lately>>

\* What the commit makes of the sessions: the new one is there, and the ones
\* picked before have ended, whatever was committed in between.
Kept(own, ends) ==
    [x \in DOMAIN sessions |->
        IF sessions[x].state = "live" \/ (x = own /\ sessions[x].state = "new")
        THEN [sessions[x] EXCEPT !.state = IF x \in ends THEN "revoked" ELSE "live"]
        ELSE sessions[x]]

\* Mutant: a second account for the address is written over the first.
CommitOverwrites(r) ==
    /\ At(r, "commit")
    /\ LET e == req[r].e
           u == req[r].u
           s == req[r].s
       IN  /\ codes' = [codes EXCEPT ![e][req[r].code].used = TRUE]
           /\ accounts' = IF accounts[u] = "new" THEN [accounts EXCEPT ![u] = "open"] ELSE accounts
           /\ identity' = IF accounts[u] = "new" THEN [identity EXCEPT ![e] = u] ELSE identity
           /\ sessions' = Kept(s, req[r].ends)
    /\ Done(r)
    /\ UNCHANGED <<bucket, lately>>

\* The commit.  A new account whose address another request gave an account
\* meanwhile breaks the unique index, and everything is undone.
CommitSignIn(r) ==
    /\ At(r, "commit")
    /\ LET e == req[r].e
           u == req[r].u
           s == req[r].s
       IN  \/ /\ accounts[u] = "new" /\ identity[e] # NoUser
              /\ sessions' = [sessions EXCEPT ![s].state = "undone"]
              /\ UNCHANGED <<codes, accounts, identity>>
           \/ /\ accounts[u] = "new" => identity[e] = NoUser
              /\ codes' = [codes EXCEPT ![e][req[r].code].used = TRUE]
              /\ accounts' = IF accounts[u] = "new" THEN [accounts EXCEPT ![u] = "open"] ELSE accounts
              /\ identity' = IF accounts[u] = "new" THEN [identity EXCEPT ![e] = u] ELSE identity
              /\ sessions' = Kept(s, req[r].ends)
    /\ Done(r)
    /\ UNCHANGED <<bucket, lately>>

-----------------------------------------------------------------------------
(* Devices.                                                                *)

\* ResolveToken on any request; touch may find the time recent enough, or fail.
TouchSession(s) ==
    /\ Calls("touch")
    /\ AuthenticateSession(s)
    /\ lately' = Append(RemoveAt(lately, Place(s)), s)
    /\ UNCHANGED <<bucket, codes, accounts, identity, sessions, req>>

SessionExpires(s) ==
    /\ Calls("expire")
    /\ sessions[s].state = "live" /\ ~sessions[s].expired
    /\ sessions' = [sessions EXCEPT ![s].expired = TRUE]
    /\ UNCHANGED <<bucket, codes, accounts, identity, lately, req>>

\* From one device, another of the same person's is ended.
SignOutDevice(s, other) ==
    /\ Calls("out")
    /\ AuthenticateSession(s)
    /\ sessions[other].user = sessions[s].user /\ sessions[other].state = "live"
    /\ sessions' = Revoked({other})
    /\ UNCHANGED <<bucket, codes, accounts, identity, lately, req>>

SignOutOthers(s) ==
    /\ Calls("others")
    /\ AuthenticateSession(s)
    /\ sessions' = Revoked({x \in DOMAIN sessions : x # s /\ sessions[x].user = sessions[s].user})
    /\ UNCHANGED <<bucket, codes, accounts, identity, lately, req>>

Logout(s) ==
    /\ Calls("logout")
    /\ AuthenticateSession(s)
    /\ sessions' = Revoked({s})
    /\ UNCHANGED <<bucket, codes, accounts, identity, lately, req>>

\* users.Delete: sessions, ways of signing in and the account in one transaction.
CloseAccount(s) ==
    /\ Calls("close")
    /\ AuthenticateSession(s)
    /\ LET u == sessions[s].user
       IN  /\ sessions' = Revoked({x \in DOMAIN sessions : sessions[x].user = u})
           /\ identity' = [e \in Addresses |-> IF identity[e] = u THEN NoUser ELSE identity[e]]
           /\ accounts' = [accounts EXCEPT ![u] = "closed"]
    /\ UNCHANGED <<bucket, codes, lately, req>>

\* registerPush is authenticated, then runs its transaction.
RegisterPush(r, s, k) ==
    /\ Calls("register")
    /\ req[r] = Idle
    /\ AuthenticateSession(s)
    /\ req' = [req EXCEPT ![r] = [at |-> "register", s |-> s, k |-> k]]
    /\ UNCHANGED rows

\* RegisterSessionPush: nothing to register is an error, and undoes the release.
RegisterSessionPush(s, k) ==
    sessions' = IF sessions[s].state = "live"
                THEN [SetSessionPushToken(s, k) EXCEPT ![s].push = k] ELSE sessions

RegisterTx(r) ==
    /\ At(r, "register")
    /\ RegisterSessionPush(req[r].s, req[r].k)
    /\ Done(r)
    /\ UNCHANGED <<bucket, codes, accounts, identity, lately>>

-----------------------------------------------------------------------------
SignInNext ==
    \/ \E e \in Addresses : Start(e) \/ Refill(e) \/ CodeExpires(e)
    \/ \E r \in Requests, e \in Addresses :
          \E guess \in 0..Len(codes[e]) : Verify(r, e, guess)
    \/ \E r \in Requests :
          \/ CountSignInAttempt(r) \/ BeginSignIn(r) \/ HoldToDevices(r) \/ CommitSignIn(r)
          \/ RegisterTx(r)
    \/ \E s \in DOMAIN sessions :
          \/ TouchSession(s) \/ SessionExpires(s) \/ SignOutOthers(s) \/ Logout(s)
          \/ CloseAccount(s)
          \/ \E other \in DOMAIN sessions : SignOutDevice(s, other)
          \/ \E r \in Requests, k \in PushTokens : RegisterPush(r, s, k)

-----------------------------------------------------------------------------
\* However many requests try a code at once, no more than CodeAttemptsMax of
\* them have their guess looked at ("the sixth try is refused whatever it
\* says", Verify): the attempt is counted and read back in one statement.
GuessesBounded ==
    \A e \in Addresses : \A i \in DOMAIN codes[e] : codes[e][i].compared <= CodeAttemptsMax

\* An open account is reached by exactly one address, a closed one by none,
\* and no address leads to an account that was never committed, whatever
\* first sign-ins and closings overlap (accountFor, users.Delete).
OneAccountPerAddress ==
    /\ \A e \in Addresses : identity[e] # NoUser => GetUser(identity[e])
    /\ \A u \in DOMAIN accounts :
          accounts[u] = "open" => \E e \in Addresses : /\ identity[e] = u
                                                       /\ \A f \in Addresses \ {e} : identity[f] # u

\* A person is signed in on at most DevicesMax devices; sign-ins with different
\* codes that run at once do not see each other's, and may pass the limit by
\* as many as there are others (RevokeOldestUserSessions).
DevicesHeld ==
    \A u \in DOMAIN accounts :
        Cardinality(ListUserSessions(u)) <= DevicesMax + Cardinality(Requests) - 1
=============================================================================
