--------------------------- MODULE NoticesProofs ----------------------------
(***************************************************************************)
(* SignIn and Notices for every number of addresses, devices, handlers and *)
(* sockets: guesses at a code are bounded, an open account has exactly one *)
(* address, a person's devices are held near their limit, and a phone that *)
(* is told of a message is one that is still its person's.                 *)
(***************************************************************************)
EXTENDS Notices, FiniteSetTheorems, SequenceTheorems, WellFoundedInduction, TLAPS

-----------------------------------------------------------------------------
\* The order of the numbers is well founded; as a relation that the provers
\* need not look into.
LEMMA NumbersWellFounded ==
  \E R : IsWellFoundedOn(R, Nat) /\ \A x, y \in Nat : <<x, y>> \notin R => y <= x
<1>1. ASSUME NEW x \in Nat, NEW y \in Nat, x < y
      PROVE  <<x, y>> \in OpToRel(<, Nat)
  <2>1. <<x, y>> \in Nat \X Nat /\ <<x, y>>[1] = x /\ <<x, y>>[2] = y
    OBVIOUS
  <2> QED BY <1>1, <2>1, Zenon DEF OpToRel
<1>2. \A x, y \in Nat : ~(x < y) => y <= x
  OBVIOUS
<1> QED BY <1>1, <1>2, NatLessThanWellFounded, Zenon

\* A set of numbers that is not empty has a least element.
LEMMA Least ==
  ASSUME NEW S \in SUBSET Nat, S # {}
  PROVE  \E m \in S : \A k \in S : m <= k
<1>1. PICK R : IsWellFoundedOn(R, Nat) /\ \A x, y \in Nat : <<x, y>> \notin R => y <= x
  BY NumbersWellFounded
<1>2. PICK m \in S : \A k \in S : ~(<<k, m>> \in R)
  BY <1>1, WFMin, Zenon
<1> QED BY <1>1, <1>2, Zenon

\* A sequence with an element replaced, or none where the place is beyond it,
\* is a sequence of the same length.
LEMMA Replaced ==
  ASSUME NEW S, NEW q \in Seq(S), NEW i, NEW v, i \in DOMAIN q => v \in S
  PROVE  [q EXCEPT ![i] = v] \in Seq(S) /\ DOMAIN [q EXCEPT ![i] = v] = DOMAIN q
<1>1. Len(q) \in Nat /\ q \in [1..Len(q) -> S] /\ DOMAIN q = 1..Len(q)
  BY LenProperties
<1>2. [q EXCEPT ![i] = v] \in [1..Len(q) -> S]
  BY <1>1
<1>3. \A n \in Nat : \A f \in [1..n -> S] : f \in Seq(S) /\ DOMAIN f = 1..n
  OBVIOUS
<1> QED BY <1>1, <1>2, <1>3, Zenon

\* One element of a sequence is taken to its end.
LEMMA Moved ==
  ASSUME NEW S, NEW q \in Seq(S), NEW p \in 1..Len(q), NEW v \in S
  PROVE  /\ Append(RemoveAt(q, p), v) \in Seq(S) /\ Len(Append(RemoveAt(q, p), v)) = Len(q)
         /\ Append(RemoveAt(q, p), v)[Len(q)] = v
         /\ \A i \in 1..(p - 1) : Append(RemoveAt(q, p), v)[i] = q[i]
         /\ \A i \in p..(Len(q) - 1) : Append(RemoveAt(q, p), v)[i] = q[i + 1]
<1> DEFINE n == Len(q)
           a == SubSeq(q, 1, p - 1)
           b == SubSeq(q, p + 1, Len(q))
           c == a \o b
<1>1. n \in Nat /\ p \in 1..n /\ n = Len(q) /\ DOMAIN q = 1..n
  BY LenProperties
<1>2. a \in Seq(S) /\ Len(a) = p - 1 /\ \A i \in 1..(p - 1) : a[i] = q[i]
  BY <1>1
<1>3. b \in Seq(S) /\ Len(b) = n - p /\ \A i \in 1..(n - p) : b[i] = q[p + i]
  <2>1. \A i \in (p + 1)..n : q[i] \in S
    BY <1>1
  <2> HIDE DEF n
  <2>2. p + 1 \in Int /\ n \in Int /\ n - (p + 1) + 1 = n - p /\ (~(p + 1 <= n) => n - p = 0)
    BY <1>1
  <2>3. \A i \in 1..(n - p) : (p + 1) + i - 1 = p + i
    BY <1>1
  <2>4. /\ SubSeq(q, p + 1, n) \in Seq(S)
        /\ Len(SubSeq(q, p + 1, n)) = IF p + 1 <= n THEN n - (p + 1) + 1 ELSE 0
        /\ \A i \in 1..(n - (p + 1) + 1) : SubSeq(q, p + 1, n)[i] = q[(p + 1) + i - 1]
    <3> DEFINE m == p + 1
    <3>1. m \in Int /\ n \in Int /\ \A i \in m..n : q[i] \in S
      BY <2>1, <2>2
    <3> HIDE DEF m
    <3>2. /\ SubSeq(q, m, n) \in Seq(S)
          /\ Len(SubSeq(q, m, n)) = IF m <= n THEN n - m + 1 ELSE 0
          /\ \A i \in 1..(n - m + 1) : SubSeq(q, m, n)[i] = q[m + i - 1]
      BY <3>1, SubSeqProperties
    <3> QED BY <3>2, Zenon DEF m
  <2> QED BY <2>2, <2>3, <2>4, Zenon DEF n
<1> HIDE DEF a, b, n
<1>4. c \in Seq(S) /\ Len(c) = Len(a) + Len(b)
      /\ \A i \in 1..(Len(a) + Len(b)) : c[i] = IF i <= Len(a) THEN a[i] ELSE b[i - Len(a)]
  BY <1>2, <1>3, ConcatProperties
<1> HIDE DEF c
<1>5. Len(c) = n - 1
  BY <1>1, <1>2, <1>3, <1>4
<1>6. ASSUME NEW i \in 1..(p - 1)
      PROVE  c[i] = q[i]
  <2>1. i \in 1..((p - 1) + (n - p)) /\ i <= p - 1
    BY <1>1
  <2>2. c[i] = a[i]
    BY <1>2, <1>3, <1>4, <2>1
  <2> QED BY <1>2, <2>2
<1>7. ASSUME NEW i \in p..(n - 1)
      PROVE  c[i] = q[i + 1]
  <2>1. i - (p - 1) \in 1..(n - p) /\ p + (i - (p - 1)) = i + 1 /\ i \in 1..((p - 1) + (n - p)) /\ ~(i <= p - 1)
    BY <1>1
  <2>2. c[i] = b[i - (p - 1)]
    BY <1>2, <1>3, <1>4, <2>1
  <2> QED BY <1>3, <2>1, <2>2
<1>8. Append(c, v) \in Seq(S) /\ Len(Append(c, v)) = n /\ Append(c, v)[n] = v
      /\ \A i \in 1..(n - 1) : Append(c, v)[i] = c[i]
  BY <1>1, <1>4, <1>5
<1>9. Append(RemoveAt(q, p), v) = Append(c, v)
  BY DEF RemoveAt, c, a, b
<1>10. \A i \in 1..(p - 1) : i \in 1..(n - 1)
  BY <1>1
<1>11. \A i \in p..(n - 1) : i \in 1..(n - 1)
  BY <1>1
<1> QED BY <1>1, <1>6, <1>7, <1>8, <1>9, <1>10, <1>11

-----------------------------------------------------------------------------
(* Rows, field by field.                                                   *)

\* A code of which no more guesses were looked at than counted, nor than allowed.
Guarded == {row \in CodeRow : row.compared <= row.attempts /\ row.compared <= CodeAttemptsMax}

\* An attempt keeps a code guarded: the guess is looked at only if the count,
\* this attempt included, is within the limit.
LEMMA CountedGuarded ==
  ASSUME NEW row \in Guarded
  PROVE  Counted(row) \in Guarded
<1>1. row \in CodeRow /\ row.attempts \in Nat /\ row.compared \in Nat /\ CodeAttemptsMax \in Nat
  BY SignInAssumption DEF Guarded, CodeRow, SignInAssumption
<1> DEFINE c == IF Exhausted(row.attempts) THEN row.compared ELSE row.compared + 1
<1>2. c \in Nat /\ c <= row.attempts + 1 /\ c <= CodeAttemptsMax
  BY <1>1 DEF Guarded, Exhausted
<1>3. row.attempts + 1 \in Nat
  BY <1>1
<1>4. Counted(row) = [row EXCEPT !.attempts = row.attempts + 1, !.compared = c]
  BY DEF Counted
<1> HIDE DEF c
<1>5. Counted(row) \in CodeRow
  BY <1>1, <1>2, <1>3, <1>4, Zenon DEF CodeRow
<1>6. Counted(row).attempts = row.attempts + 1
  BY <1>1, <1>4, Zenon DEF CodeRow
<1>7. Counted(row).compared = c
  BY <1>1, <1>4, Zenon DEF CodeRow
<1> QED BY <1>2, <1>5, <1>6, <1>7 DEF Guarded

\* Marking a code as used or expired changes no count.
LEMMA MarkedGuarded ==
  ASSUME NEW row \in Guarded
  PROVE  [row EXCEPT !.used = TRUE] \in Guarded /\ [row EXCEPT !.expired = TRUE] \in Guarded
BY DEF Guarded, CodeRow

\* A code of an address is changed, or one is added.
LEMMA CodesChange ==
  ASSUME codes \in [Addresses -> Seq(Guarded)], NEW e \in Addresses
  PROVE  /\ \A i : \A row : (i \in DOMAIN codes[e] => row \in Guarded) =>
               [codes EXCEPT ![e] = [codes[e] EXCEPT ![i] = row]] \in [Addresses -> Seq(Guarded)]
         /\ \A row \in Guarded : [codes EXCEPT ![e] = Append(codes[e], row)] \in [Addresses -> Seq(Guarded)]
<1>1. ASSUME NEW i, NEW row, i \in DOMAIN codes[e] => row \in Guarded
      PROVE  [codes[e] EXCEPT ![i] = row] \in Seq(Guarded)
  <2>1. codes[e] \in Seq(Guarded)
    OBVIOUS
  <2> QED BY <1>1, <2>1, Replaced
<1>2. ASSUME NEW row \in Guarded
      PROVE  Append(codes[e], row) \in Seq(Guarded)
  OBVIOUS
<1> QED BY <1>1, <1>2

\* The fields of a request that goes on.
LEMMA BegunFields ==
  ASSUME NEW x \in VerifyRequest, NEW u \in Nat, NEW s \in Nat
  PROVE  /\ Begun(x, u, s) \in VerifyRequest /\ Begun(x, u, s).at = "hold"
         /\ Begun(x, u, s).u = u /\ Begun(x, u, s).s = s
<1>1. Begun(x, u, s) \in VerifyRequest
  BY Zenon DEF Begun, VerifyRequest
<1>2. Begun(x, u, s).at = "hold"
  BY Zenon DEF Begun, VerifyRequest
<1>3. Begun(x, u, s).u = u
  BY Zenon DEF Begun, VerifyRequest
<1>4. Begun(x, u, s).s = s
  BY Zenon DEF Begun, VerifyRequest
<1> QED BY <1>1, <1>2, <1>3, <1>4

\* The fields of a sign-in that has picked whom to sign out.
LEMMA HeldFields ==
  ASSUME NEW x \in VerifyRequest, NEW ends \in SUBSET Nat
  PROVE  /\ Held(x, ends) \in VerifyRequest /\ Held(x, ends).at = "commit"
         /\ Held(x, ends).u = x.u /\ Held(x, ends).s = x.s /\ Held(x, ends).ends = ends
<1>1. Held(x, ends) \in VerifyRequest
  BY Zenon DEF Held, VerifyRequest
<1>2. Held(x, ends).at = "commit"
  BY Zenon DEF Held, VerifyRequest
<1>3. Held(x, ends).u = x.u
  BY Zenon DEF Held, VerifyRequest
<1>4. Held(x, ends).s = x.s
  BY Zenon DEF Held, VerifyRequest
<1>5. Held(x, ends).ends = ends
  BY Zenon DEF Held, VerifyRequest
<1> QED BY <1>1, <1>2, <1>3, <1>4, <1>5

-----------------------------------------------------------------------------
(* Sessions.                                                               *)

\* A device somebody is signed in on.
Usable(row) == row.state = "live" /\ ~row.expired

\* A session that is over.
Over(row) == row.state \in {"revoked", "undone"} \/ row.expired

\* The table with some rows changed: each still its person's, and over if it was.
SameOwners(f) ==
    /\ f \in Seq(SessionRow) /\ DOMAIN f = DOMAIN sessions
    /\ \A s \in DOMAIN sessions : f[s].user = sessions[s].user /\ (Over(sessions[s]) => Over(f[s]))

\* No two sessions have the same push token.
Alone(f) == \A s, x \in DOMAIN f : s # x /\ f[s].push \in PushTokens => f[x].push # f[s].push

\* Push tokens are kept or dropped.
Dropping(f) == DOMAIN f = DOMAIN sessions /\ \A s \in DOMAIN sessions : f[s].push \in {sessions[s].push, NoToken}

\* Dropping a token gives it to nobody.
LEMMA DroppingAlone ==
  ASSUME NEW f, Alone(sessions), Dropping(f)
  PROVE  Alone(f)
BY SignInAssumption DEF SignInAssumption, Alone, Dropping

\* And none usable that was not.
Ending(f) == SameOwners(f) /\ \A s \in DOMAIN sessions : Usable(f[s]) => Usable(sessions[s])

\* A table made anew over the same rows is a table.
LEMMA SessionsAgain ==
  ASSUME sessions \in Seq(SessionRow), NEW f, f = [s \in DOMAIN sessions |-> f[s]],
         \A s \in DOMAIN sessions : f[s] \in SessionRow
  PROVE  f \in Seq(SessionRow) /\ DOMAIN f = DOMAIN sessions
<1>1. DOMAIN sessions = 1..Len(sessions) /\ Len(sessions) \in Nat
  OBVIOUS
<1>2. f \in [1..Len(sessions) -> SessionRow]
  BY <1>1
<1> QED BY <1>1, <1>2

\* What the statements on a session leave of it.
Became(row, st) == [row EXCEPT !.state = st]
Pushing(row, k) == [row EXCEPT !.push = k]
Outlived(row) == [row EXCEPT !.expired = TRUE]

\* A session of which only the state changes.
LEMMA StateField ==
  ASSUME NEW row \in SessionRow, NEW st \in {"new", "live", "revoked", "undone"}
  PROVE  /\ Became(row, st) \in SessionRow /\ Became(row, st).user = row.user
         /\ Became(row, st).state = st /\ Became(row, st).expired = row.expired
         /\ Became(row, st).push = row.push
BY DEF SessionRow, Became

\* A session of which only the push token changes.
LEMMA PushField ==
  ASSUME NEW row \in SessionRow, NEW k \in PushTokens \cup {NoToken}
  PROVE  /\ Pushing(row, k) \in SessionRow /\ Pushing(row, k).user = row.user
         /\ Pushing(row, k).state = row.state /\ Pushing(row, k).expired = row.expired
         /\ Pushing(row, k).push = k
BY DEF SessionRow, Pushing

\* A session that runs out.
LEMMA ExpiredField ==
  ASSUME NEW row \in SessionRow
  PROVE  Outlived(row) \in SessionRow /\ Outlived(row).user = row.user /\ Outlived(row).expired = TRUE
         /\ Outlived(row).push = row.push
BY DEF SessionRow, Outlived

\* One row is replaced.
LEMMA OneSession ==
  ASSUME sessions \in Seq(SessionRow), NEW s \in DOMAIN sessions, NEW row \in SessionRow, row.user = sessions[s].user,
         row.push = sessions[s].push, Over(row)
  PROVE  /\ SameOwners([sessions EXCEPT ![s] = row]) /\ Dropping([sessions EXCEPT ![s] = row])
         /\ (Usable(row) => Usable(sessions[s])) => Ending([sessions EXCEPT ![s] = row])
<1> DEFINE f == [sessions EXCEPT ![s] = row]
<1>1. f \in Seq(SessionRow) /\ DOMAIN f = DOMAIN sessions
  BY Replaced
<1>2. \A x \in DOMAIN sessions : f[x] = IF x = s THEN row ELSE sessions[x]
  OBVIOUS
<1> HIDE DEF f
<1>3. SameOwners(f)
  BY <1>1, <1>2 DEF SameOwners
<1>4. (Usable(row) => Usable(sessions[s])) => Ending(f)
  BY <1>2, <1>3 DEF Ending
<1>5. Dropping(f)
  BY <1>1, <1>2 DEF Dropping
<1> QED BY <1>3, <1>4, <1>5 DEF f

\* Ending sessions and releasing a push token makes none usable.
LEMMA SessionsEnd ==
  ASSUME sessions \in Seq(SessionRow)
  PROVE  /\ Ending(sessions)
         /\ \A set : Ending(Revoked(set)) /\ Dropping(Revoked(set))
         /\ \A s, k : Ending(SetSessionPushToken(s, k)) /\ Dropping(SetSessionPushToken(s, k))
<1>1. \A s \in DOMAIN sessions : sessions[s] \in SessionRow
  OBVIOUS
<1>2. ASSUME NEW set
      PROVE  Ending(Revoked(set)) /\ Dropping(Revoked(set))
  <2> DEFINE f == Revoked(set)
  <2>1. f = [s \in DOMAIN sessions |-> f[s]]
    BY DEF Revoked
  <2>2. \A s \in DOMAIN sessions : f[s] = sessions[s] \/ f[s] = Became(sessions[s], "revoked")
    BY DEF Revoked, Became
  <2> HIDE DEF f
  <2>3. \A s \in DOMAIN sessions : f[s] \in SessionRow /\ f[s].user = sessions[s].user
                                   /\ (f[s] = sessions[s] \/ f[s].state = "revoked") /\ f[s].push = sessions[s].push
    BY <1>1, <2>2, StateField
  <2>4. f \in Seq(SessionRow) /\ DOMAIN f = DOMAIN sessions
    BY <2>1, <2>3, SessionsAgain
  <2>5. Ending(f) /\ Dropping(f)
    BY <2>3, <2>4 DEF Ending, SameOwners, Usable, Over, Dropping
  <2> QED BY <2>5 DEF f
<1>3. ASSUME NEW s, NEW k
      PROVE  Ending(SetSessionPushToken(s, k)) /\ Dropping(SetSessionPushToken(s, k))
  <2> DEFINE f == SetSessionPushToken(s, k)
  <2>1. f = [x \in DOMAIN sessions |-> f[x]]
    BY DEF SetSessionPushToken
  <2>2. \A x \in DOMAIN sessions : f[x] = sessions[x] \/ f[x] = Pushing(sessions[x], NoToken)
    BY DEF SetSessionPushToken, Pushing
  <2> HIDE DEF f
  <2>3. \A x \in DOMAIN sessions : f[x] \in SessionRow /\ f[x].user = sessions[x].user
                                   /\ f[x].state = sessions[x].state /\ f[x].expired = sessions[x].expired
                                   /\ f[x].push \in {sessions[x].push, NoToken}
    BY <1>1, <2>2, PushField
  <2>4. f \in Seq(SessionRow) /\ DOMAIN f = DOMAIN sessions
    BY <2>1, <2>3, SessionsAgain
  <2>5. Ending(f) /\ Dropping(f)
    BY <2>3, <2>4 DEF Ending, SameOwners, Usable, Over, Dropping
  <2> QED BY <2>5 DEF f
<1>4. Ending(sessions)
  BY DEF Ending, SameOwners
<1> QED BY <1>2, <1>3, <1>4

\* Registering a push token does not either.
LEMMA RegisterEnds ==
  ASSUME sessions \in Seq(SessionRow), Alone(sessions), NEW s \in DOMAIN sessions, NEW k \in PushTokens,
         RegisterSessionPush(s, k)
  PROVE  Ending(sessions') /\ Alone(sessions')
<1> DEFINE f == SetSessionPushToken(s, k)
           row == Pushing(f[s], k)
<1>1. Ending(f) /\ Dropping(f) /\ Alone(f)
  BY SessionsEnd, DroppingAlone
<1>0. \A x \in DOMAIN sessions : x # s => f[x].push # k
  <2>1. \A x \in DOMAIN sessions : x # s =>
          (f[x] = sessions[x] /\ sessions[x].push # k) \/ f[x] = Pushing(sessions[x], NoToken)
    BY DEF SetSessionPushToken, Pushing
  <2>2. \A x \in DOMAIN sessions : Pushing(sessions[x], NoToken).push # k
    BY PushField, SignInAssumption DEF SignInAssumption
  <2> HIDE DEF f
  <2> QED BY <2>1, <2>2
<1>2. CASE sessions' = sessions
  BY <1>2, SessionsEnd
<1>3. CASE sessions' = [f EXCEPT ![s].push = k]
  <2>1. sessions' = [f EXCEPT ![s] = row]
    BY <1>3, Zenon DEF Pushing
  <2>2. f[s] \in SessionRow
    BY <1>1 DEF Ending, SameOwners
  <2> HIDE DEF f
  <2>3. /\ row \in SessionRow /\ row.user = f[s].user /\ row.state = f[s].state /\ row.expired = f[s].expired
        /\ row.push = k
    BY <2>2, PushField
  <2> HIDE DEF row
  <2>4. sessions' \in Seq(SessionRow) /\ DOMAIN sessions' = DOMAIN f
    BY <1>1, <2>1, <2>3, Replaced DEF Ending, SameOwners
  <2>5. \A x \in DOMAIN f : sessions'[x] = IF x = s THEN row ELSE f[x]
    BY <2>1
  <2>6. Ending(sessions')
    BY <1>1, <2>3, <2>4, <2>5 DEF Ending, SameOwners, Usable, Over
  <2>7. Alone(sessions')
    <3>1. DOMAIN f = DOMAIN sessions
      BY <1>1 DEF Dropping
    <3> QED BY <1>0, <1>1, <2>3, <2>4, <2>5, <3>1 DEF Alone
  <2> QED BY <2>6, <2>7
<1> QED BY <1>2, <1>3 DEF RegisterSessionPush

\* What a commit leaves: who was signed in and not picked, and the new device.
LEMMA KeptSessions ==
  ASSUME sessions \in Seq(SessionRow), NEW own \in DOMAIN sessions, NEW ends
  PROVE  /\ SameOwners(Kept(own, ends)) /\ Dropping(Kept(own, ends))
         /\ \A s \in DOMAIN sessions : Usable(Kept(own, ends)[s]) => s \notin ends /\ (s = own \/ Usable(sessions[s]))
<1> DEFINE f == Kept(own, ends)
<1>1. f = [x \in DOMAIN sessions |-> f[x]]
  BY DEF Kept
<1>2. \A x \in DOMAIN sessions :
         \/ sessions[x].state # "live" /\ f[x] = sessions[x]
         \/ x \in ends /\ f[x] = Became(sessions[x], "revoked")
         \/ /\ x \notin ends /\ (x = own \/ sessions[x].state = "live") /\ f[x] = Became(sessions[x], "live")
            /\ sessions[x].state \in {"new", "live"}
  BY DEF Kept, Became
<1> HIDE DEF f
<1>3. \A x \in DOMAIN sessions :
         /\ f[x] \in SessionRow /\ f[x].user = sessions[x].user /\ f[x].expired = sessions[x].expired
         /\ f[x].push = sessions[x].push
         /\ \/ sessions[x].state # "live" /\ f[x].state = sessions[x].state
            \/ f[x].state = "revoked"
            \/ x \notin ends /\ (x = own \/ sessions[x].state = "live") /\ sessions[x].state \in {"new", "live"}
  BY <1>2, StateField
<1>4. f \in Seq(SessionRow) /\ DOMAIN f = DOMAIN sessions
  BY <1>1, <1>3, SessionsAgain
<1>5. SameOwners(f) /\ Dropping(f)
  BY <1>3, <1>4 DEF SameOwners, Over, Dropping
<1>6. \A s \in DOMAIN sessions : Usable(f[s]) => s \notin ends /\ (s = own \/ Usable(sessions[s]))
  BY <1>3 DEF Usable
<1> QED BY <1>5, <1>6 DEF f

-----------------------------------------------------------------------------
(* The inductive invariant.                                                *)

\* The accounts, sessions and ways of signing in, as TypeOK has them.
Tables ==
    /\ accounts \in Seq({"new", "open", "closed"})
    /\ identity \in [Addresses -> (DOMAIN accounts) \cup {NoUser}]
    /\ sessions \in Seq(SessionRow) /\ \A s \in DOMAIN sessions : sessions[s].user \in DOMAIN accounts
    /\ lately \in Seq(DOMAIN sessions) /\ Len(lately) = Len(sessions)
    /\ ToSet(lately) = DOMAIN sessions

\* Addresses and open accounts go together, one to one.
Owned ==
    /\ \A e \in Addresses : identity[e] # NoUser => GetUser(identity[e])
    /\ \A e, f \in Addresses : identity[e] = identity[f] /\ identity[e] # NoUser => e = f
    /\ \A u \in DOMAIN accounts : accounts[u] = "open" => \E e \in Addresses : identity[e] = u

\* What a handler under way relies on: the rows it inserted are there, and what
\* was over when its message landed still is, and is told nothing.
Sound(x) ==
    /\ x.at \in {"hold", "commit"} => /\ x.u \in DOMAIN accounts /\ x.s \in DOMAIN sessions
                                      /\ sessions[x.s].user = x.u
    /\ x.at = "register" => x.s \in DOMAIN sessions
    /\ x.at = "look" => \A s \in x.over :
          /\ s \in DOMAIN sessions /\ sessions[s].user \in DOMAIN accounts
          /\ Over(sessions[s]) \/ accounts[sessions[s].user] = "closed"
    /\ x.at = "send" => \A p \in x.to : p.s \in DOMAIN sessions /\ p.s \notin x.over
Pending == \A r \in Requests : req[r] # Idle => Sound(req[r])

\* The sign-ins of a person that have picked whom to sign out.
Committing(u) == {r \in Requests : req[r] # Idle /\ req[r].at = "commit" /\ req[r].u = u}

\* The devices there would be, at most, once those of P had committed.
After(u, P) ==
    {s \in DOMAIN sessions :
        \/ s \in ListUserSessions(u) /\ \A r \in P : s \notin req[r].ends
        \/ \E r \in P : s = req[r].s /\ s \notin req[r].ends}

\* The limit holds of all that is still to come, in whatever order it comes.
Devices ==
    \A u \in Nat : \A P \in SUBSET Committing(u) :
        Cardinality(After(u, P)) <= DevicesMax + Cardinality(Requests) - 1

Inv ==
    /\ TypeOK /\ codes \in [Addresses -> Seq(Guarded)]
    /\ Owned /\ Pending /\ Devices /\ Alone(sessions)

-----------------------------------------------------------------------------
(* Accounts, sessions and ways of signing in.                              *)

\* Rows are added and keep their person; what is over stays over.
Grown ==
    /\ DOMAIN accounts \subseteq DOMAIN accounts' /\ DOMAIN sessions \subseteq DOMAIN sessions'
    /\ \A s \in DOMAIN sessions : sessions'[s].user = sessions[s].user /\ (Over(sessions[s]) => Over(sessions'[s]))
    /\ \A u \in DOMAIN accounts : accounts[u] = "closed" => accounts'[u] = "closed"

\* The tables, when sessions change but are neither added nor given away.
LEMMA SessionsChange ==
  ASSUME Tables, Owned, SameOwners(sessions'), UNCHANGED <<accounts, identity, lately>>
  PROVE  Tables' /\ Owned' /\ Grown
<1>1. /\ sessions' \in Seq(SessionRow) /\ DOMAIN sessions' = DOMAIN sessions
      /\ \A s \in DOMAIN sessions : sessions'[s].user = sessions[s].user /\ (Over(sessions[s]) => Over(sessions'[s]))
  BY DEF SameOwners
<1>2. Len(sessions') = Len(sessions)
  BY <1>1 DEF Tables
<1>3. Tables'
  BY <1>1, <1>2 DEF Tables
<1>4. Owned'
  BY DEF Owned, GetUser
<1> QED BY <1>1, <1>3, <1>4 DEF Grown

\* A session that was used is the latest, and every other keeps its order.
LEMMA TouchTables ==
  ASSUME Tables, Owned, NEW s \in DOMAIN sessions, lately' = Append(RemoveAt(lately, Place(s)), s),
         UNCHANGED <<accounts, identity, sessions>>
  PROVE  Tables' /\ Owned' /\ Grown
<1> DEFINE n == Len(sessions)
           p == Place(s)
           S == DOMAIN sessions
<1>1. n \in Nat /\ S = 1..n
  BY LenProperties DEF Tables
<1>2. lately \in Seq(S) /\ Len(lately) = n /\ s \in S /\ ToSet(lately) = S
  BY DEF Tables
<1> HIDE DEF S, n
<1>3. DOMAIN lately = 1..n
  BY <1>2, LenProperties
<1>4. \A x \in S : \E i \in 1..n : lately[i] = x
  BY <1>2, <1>3, Zenon DEF ToSet
<1>5. p \in 1..n /\ lately[p] = s
  BY <1>2, <1>3, <1>4 DEF Place
<1> HIDE DEF p
<1>6. lately' = Append(RemoveAt(lately, p), s)
  BY DEF p
<1>7. /\ lately' \in Seq(S) /\ Len(lately') = n /\ lately'[n] = s
      /\ \A i \in 1..(p - 1) : lately'[i] = lately[i]
      /\ \A i \in p..(n - 1) : lately'[i] = lately[i + 1]
  BY <1>2, <1>5, <1>6, Moved
<1>8. ASSUME NEW x \in S
      PROVE  \E i \in 1..n : lately'[i] = x
  <2>1. PICK j \in 1..n : lately[j] = x
    BY <1>4
  <2>2. CASE j < p
    <3>1. j \in 1..(p - 1)
      BY <1>1, <1>5, <2>2
    <3> QED BY <1>7, <2>1, <3>1
  <2>3. CASE j = p
    <3>1. n \in 1..n
      BY <1>1, <2>1
    <3> QED BY <1>5, <1>7, <2>1, <2>3, <3>1
  <2>4. CASE j > p
    <3>1. j - 1 \in p..(n - 1) /\ (j - 1) + 1 = j /\ j - 1 \in 1..n
      BY <1>1, <1>5, <2>1, <2>4
    <3> QED BY <1>7, <2>1, <3>1
  <2>5. j < p \/ j = p \/ j > p
    BY <1>1, <1>5, <2>1
  <2> QED BY <2>2, <2>3, <2>4, <2>5
<1>9. DOMAIN lately' = 1..n /\ \A i \in 1..n : lately'[i] \in S
  BY <1>1, <1>7
<1>10. ToSet(lately') = S
  BY <1>8, <1>9, Zenon DEF ToSet
<1>11. Tables'
  BY <1>7, <1>10 DEF Tables, n, S
<1>12. Owned'
  BY DEF Owned, GetUser
<1> QED BY <1>11, <1>12 DEF Grown

\* A sign-in inserts its session, and an account where the address had none.
LEMMA BeginTables ==
  ASSUME Tables, Owned, Alone(sessions), NEW u, u \in DOMAIN accounts', u \in Nat,
         accounts' \in {accounts, Append(accounts, "new")}, UNCHANGED identity,
         sessions' = Append(sessions, CreateSession(u)), lately' = Append(lately, Len(sessions) + 1)
  PROVE  /\ Tables' /\ Owned' /\ Grown
         /\ Len(sessions) + 1 \in DOMAIN sessions' /\ sessions'[Len(sessions) + 1].user = u
         /\ \A s \in DOMAIN sessions : sessions'[s] = sessions[s]
         /\ DOMAIN sessions' = DOMAIN sessions \cup {Len(sessions) + 1}
         /\ sessions'[Len(sessions) + 1].state = "new" /\ Alone(sessions')
<1> DEFINE n == Len(sessions)
           row == CreateSession(u)
<1>1. row \in SessionRow /\ row.user = u /\ row.state = "new" /\ row.push = NoToken
  BY DEF CreateSession, SessionRow
<1> HIDE DEF row
<1>2. n \in Nat /\ DOMAIN sessions = 1..n /\ sessions \in Seq(SessionRow)
  BY LenProperties DEF Tables
<1>3. /\ sessions' \in Seq(SessionRow) /\ Len(sessions') = n + 1 /\ DOMAIN sessions' = 1..(n + 1)
      /\ sessions'[n + 1] = row /\ \A s \in 1..n : sessions'[s] = sessions[s]
  BY <1>1, <1>2 DEF row
<1>4. /\ DOMAIN accounts \subseteq DOMAIN accounts' /\ accounts' \in Seq({"new", "open", "closed"})
      /\ \A v \in DOMAIN accounts : accounts'[v] = accounts[v]
      /\ \A v \in DOMAIN accounts' : v \in DOMAIN accounts \/ accounts'[v] = "new"
  <2>1. accounts \in Seq({"new", "open", "closed"})
    BY DEF Tables
  <2>2. CASE accounts' = accounts
    BY <2>1, <2>2
  <2>3. CASE accounts' = Append(accounts, "new")
    <3> DEFINE k == Len(accounts)
    <3>1. k \in Nat /\ DOMAIN accounts = 1..k
      BY <2>1, LenProperties
    <3>2. /\ accounts' \in Seq({"new", "open", "closed"}) /\ Len(accounts') = k + 1 /\ accounts'[k + 1] = "new"
          /\ \A v \in 1..k : accounts'[v] = accounts[v]
      BY <2>1, <2>3, AppendProperties
    <3>3. DOMAIN accounts' = 1..(k + 1)
      BY <3>2, LenProperties
    <3> HIDE DEF k
    <3>4. 1..k \subseteq 1..(k + 1) /\ \A v \in 1..(k + 1) : v \in 1..k \/ v = k + 1
      BY <3>1
    <3> QED BY <3>1, <3>2, <3>3, <3>4
  <2> QED BY <2>2, <2>3
<1>5. /\ lately \in Seq(1..n) /\ Len(lately) = n /\ DOMAIN lately = 1..n /\ ToSet(lately) = 1..n
  BY <1>2, LenProperties DEF Tables
<1> HIDE DEF n
<1>6. lately' = Append(lately, n + 1)
  BY DEF n
<1>7. /\ Len(lately') = n + 1 /\ DOMAIN lately' = 1..(n + 1) /\ lately'[n + 1] = n + 1
      /\ \A i \in 1..n : lately'[i] = lately[i]
  BY <1>2, <1>5, <1>6
<1>8. lately' \in Seq(1..(n + 1))
  <2>1. lately \in Seq(Nat) /\ n + 1 \in Nat
    BY <1>2, <1>5
  <2>2. lately' = [i \in 1..(n + 1) |-> lately'[i]]
    BY <1>2, <1>6, <1>7, <2>1
  <2>3. \A i \in 1..(n + 1) : lately'[i] \in 1..(n + 1)
    <3>1. \A i \in 1..(n + 1) : i \in 1..n \/ i = n + 1
      BY <1>2
    <3>2. \A i \in 1..n : i \in 1..(n + 1)
      BY <1>2
    <3>3. \A i \in 1..n : lately[i] \in 1..n
      BY <1>5
    <3>4. n + 1 \in 1..(n + 1)
      BY <1>2
    <3> QED BY <1>7, <3>1, <3>2, <3>3, <3>4
  <2>4. lately' \in [1..(n + 1) -> 1..(n + 1)]
    BY <2>2, <2>3, Zenon
  <2>5. \A m \in Nat : \A T : \A f \in [1..m -> T] : f \in Seq(T)
    OBVIOUS
  <2> QED BY <2>1, <2>4, <2>5, Zenon
<1>9. ToSet(lately') = 1..(n + 1)
  <2>1. \A i \in 1..(n + 1) : i \in 1..n \/ i = n + 1
    BY <1>2
  <2>2. \A i \in 1..n : i \in 1..(n + 1)
    BY <1>2
  <2>3. \A x \in 1..n : \E i \in 1..n : lately[i] = x
    BY <1>5, Zenon DEF ToSet
  <2>4. \A i \in 1..(n + 1) : lately'[i] \in 1..(n + 1)
    BY <1>7, <1>8
  <2>5. n + 1 \in 1..(n + 1)
    BY <1>2
  <2>6. \A x \in 1..(n + 1) : \E i \in 1..(n + 1) : lately'[i] = x
    BY <1>7, <2>1, <2>2, <2>3, <2>5, Zenon
  <2> QED BY <1>7, <2>4, <2>6, Zenon DEF ToSet
<1>10. \A s \in 1..(n + 1) : sessions'[s].user \in DOMAIN accounts'
  <2>1. \A s \in 1..(n + 1) : s \in 1..n \/ s = n + 1
    BY <1>2
  <2> QED BY <1>1, <1>2, <1>3, <1>4, <2>1 DEF Tables
<1>11. identity' \in [Addresses -> (DOMAIN accounts') \cup {NoUser}]
  BY <1>4 DEF Tables
<1>12. Tables'
  BY <1>3, <1>4, <1>7, <1>8, <1>9, <1>10, <1>11 DEF Tables
<1>13. Owned'
  BY <1>4 DEF Owned, GetUser
<1>14. n + 1 \in 1..(n + 1) /\ 1..n \subseteq 1..(n + 1) /\ 1..(n + 1) = 1..n \cup {n + 1}
  BY <1>2
<1>15. Grown
  BY <1>2, <1>3, <1>4, <1>14 DEF Grown
<1>16. Alone(sessions')
  <2>1. \A s \in 1..(n + 1) : s \in 1..n \/ s = n + 1
    BY <1>2
  <2> QED BY <1>1, <1>2, <1>3, <2>1, SignInAssumption DEF Alone, SignInAssumption
<1> QED BY <1>1, <1>2, <1>3, <1>12, <1>13, <1>14, <1>15, <1>16 DEF n

\* The accounts after one of them changed.
LEMMA OneAccount ==
  ASSUME Tables, NEW u \in DOMAIN accounts, NEW st \in {"open", "closed"}
  PROVE  /\ [accounts EXCEPT ![u] = st] \in Seq({"new", "open", "closed"})
         /\ DOMAIN [accounts EXCEPT ![u] = st] = DOMAIN accounts
         /\ \A v \in DOMAIN accounts : [accounts EXCEPT ![u] = st][v] = IF v = u THEN st ELSE accounts[v]
         /\ u \in Nat /\ u # NoUser
<1>1. accounts \in Seq({"new", "open", "closed"})
  BY DEF Tables
<1>2. u \in Nat /\ u # NoUser
  BY <1>1, SignInAssumption DEF SignInAssumption
<1> QED BY <1>1, <1>2, Replaced

\* The commit of a sign-in: an account that was new is its address's.
LEMMA CommitTables ==
  ASSUME Tables, Owned, NEW e \in Addresses, NEW u \in DOMAIN accounts, SameOwners(sessions'), UNCHANGED lately,
         accounts[u] = "new" => identity[e] = NoUser,
         accounts' = IF accounts[u] = "new" THEN [accounts EXCEPT ![u] = "open"] ELSE accounts,
         identity' = IF accounts[u] = "new" THEN [identity EXCEPT ![e] = u] ELSE identity
  PROVE  Tables' /\ Owned' /\ Grown
<1>1. CASE accounts[u] # "new"
  BY <1>1, SessionsChange
<1>2. CASE accounts[u] = "new"
  <2>1. /\ accounts' \in Seq({"new", "open", "closed"}) /\ DOMAIN accounts' = DOMAIN accounts
        /\ \A v \in DOMAIN accounts : accounts'[v] = IF v = u THEN "open" ELSE accounts[v]
        /\ u # NoUser
    BY <1>2, OneAccount
  <2>2. /\ identity' \in [Addresses -> (DOMAIN accounts) \cup {NoUser}] /\ identity'[e] = u
        /\ \A f \in Addresses : f # e => identity'[f] = identity[f]
    BY <1>2 DEF Tables
  <2>3. /\ sessions' \in Seq(SessionRow) /\ DOMAIN sessions' = DOMAIN sessions /\ Len(sessions') = Len(sessions)
        /\ \A s \in DOMAIN sessions : sessions'[s].user = sessions[s].user /\ (Over(sessions[s]) => Over(sessions'[s]))
    BY DEF SameOwners, Tables
  <2>4. Tables'
    BY <2>1, <2>2, <2>3 DEF Tables
  <2>5. \A f \in Addresses : identity[f] # u /\ (identity[f] # NoUser => identity[f] \in DOMAIN accounts /\ accounts[identity[f]] = "open")
    BY <1>2, <2>1 DEF Owned, GetUser
  <2>6. \A f \in Addresses : identity'[f] # NoUser => identity'[f] \in DOMAIN accounts' /\ accounts'[identity'[f]] = "open"
    BY <2>1, <2>2, <2>5
  <2>7. \A f, g \in Addresses : identity'[f] = identity'[g] /\ identity'[f] # NoUser => f = g
    BY <2>2, <2>5 DEF Owned
  <2>8. ASSUME NEW v \in DOMAIN accounts, accounts'[v] = "open"
        PROVE  \E f \in Addresses : identity'[f] = v
    <3>1. CASE v = u
      BY <2>2, <3>1
    <3>2. CASE v # u
      <4>1. PICK f \in Addresses : identity[f] = v
        BY <2>1, <2>8, <3>2 DEF Owned
      <4>2. v # NoUser
        BY OneAccount
      <4>3. f # e
        BY <1>2, <4>1, <4>2
      <4> QED BY <2>2, <4>1, <4>3
    <3> QED BY <3>1, <3>2
  <2>9. Owned'
    BY <2>1, <2>6, <2>7, <2>8 DEF Owned, GetUser
  <2> QED BY <1>2, <2>1, <2>3, <2>4, <2>9 DEF Grown
<1> QED BY <1>1, <1>2

\* Closing an account takes its ways of signing in with it.
LEMMA CloseTables ==
  ASSUME Tables, Owned, NEW u \in DOMAIN accounts, SameOwners(sessions'), UNCHANGED lately,
         identity' = [e \in Addresses |-> IF identity[e] = u THEN NoUser ELSE identity[e]],
         accounts' = [accounts EXCEPT ![u] = "closed"]
  PROVE  Tables' /\ Owned' /\ Grown
<1>1. /\ accounts' \in Seq({"new", "open", "closed"}) /\ DOMAIN accounts' = DOMAIN accounts
      /\ \A v \in DOMAIN accounts : accounts'[v] = IF v = u THEN "closed" ELSE accounts[v]
      /\ u # NoUser
  BY OneAccount
<1>2. /\ identity' \in [Addresses -> (DOMAIN accounts) \cup {NoUser}]
      /\ \A f \in Addresses : identity'[f] = IF identity[f] = u THEN NoUser ELSE identity[f]
  BY DEF Tables
<1>3. /\ sessions' \in Seq(SessionRow) /\ DOMAIN sessions' = DOMAIN sessions /\ Len(sessions') = Len(sessions)
      /\ \A s \in DOMAIN sessions : sessions'[s].user = sessions[s].user /\ (Over(sessions[s]) => Over(sessions'[s]))
  BY DEF SameOwners, Tables
<1>4. Tables'
  BY <1>1, <1>2, <1>3 DEF Tables
<1>5. Owned'
  <2>1. \A f \in Addresses : identity'[f] # NoUser => identity'[f] \in DOMAIN accounts' /\ accounts'[identity'[f]] = "open"
    BY <1>1, <1>2 DEF Owned, GetUser
  <2>2. \A f, g \in Addresses : identity'[f] = identity'[g] /\ identity'[f] # NoUser => f = g
    BY <1>2 DEF Owned
  <2>3. \A v \in DOMAIN accounts : accounts'[v] = "open" => \E f \in Addresses : identity'[f] = v
    BY <1>1, <1>2 DEF Owned
  <2> QED BY <1>1, <2>1, <2>2, <2>3 DEF Owned, GetUser
<1> QED BY <1>1, <1>3, <1>4, <1>5 DEF Grown

\* What is known of a handler under way.
LEMMA RequestKind ==
  ASSUME TypeOK, Pending, NEW r \in Requests, req[r] # Idle
  PROVE  /\ Sound(req[r])
         /\ req[r].at \in {"count", "begin", "hold", "commit"} => req[r] \in VerifyRequest /\ req[r].e \in Addresses
         /\ req[r].at = "register" => req[r].k \in PushTokens
         /\ req[r].at \in {"look", "send"} => req[r].u \in Nat /\ req[r].over \in SUBSET Nat
         /\ req[r].at = "send" => req[r].to \subseteq Target
<1>1. req[r] \in SignInRequest \cup NoticeRequest
  BY DEF TypeOK
<1> QED BY <1>1 DEF Pending, SignInRequest, VerifyRequest, RegisterRequest, NoticeRequest

-----------------------------------------------------------------------------
(* The handlers.                                                           *)

ReqOK == req \in [Requests -> SignInRequest \cup NoticeRequest \cup {Idle}]

\* Sound, of the next state.
SoundThen(x) ==
    /\ x.at \in {"hold", "commit"} => /\ x.u \in DOMAIN accounts' /\ x.s \in DOMAIN sessions'
                                      /\ sessions'[x.s].user = x.u
    /\ x.at = "register" => x.s \in DOMAIN sessions'
    /\ x.at = "look" => \A s \in x.over :
          /\ s \in DOMAIN sessions' /\ sessions'[s].user \in DOMAIN accounts'
          /\ Over(sessions'[s]) \/ accounts'[sessions'[s].user] = "closed"
    /\ x.at = "send" => \A p \in x.to : p.s \in DOMAIN sessions' /\ p.s \notin x.over

\* What a handler relies on is never taken from it by another.
LEMMA SoundGrows ==
  ASSUME NEW x, Sound(x), Grown
  PROVE  SoundThen(x)
BY DEF Sound, SoundThen, Grown

\* A step that moves no handler leaves all of them sound.
LEMMA RequestsKept ==
  ASSUME ReqOK, Pending, Grown, UNCHANGED req
  PROVE  ReqOK' /\ Pending'
<1>1. ASSUME NEW q \in Requests, req'[q] # Idle
      PROVE  SoundThen(req'[q])
  <2>1. req'[q] = req[q] /\ Sound(req[q])
    BY <1>1 DEF Pending
  <2> QED BY <2>1, SoundGrows
<1> QED BY <1>1 DEF Pending, Sound, SoundThen, ReqOK

\* One handler moves, begins or ends.
LEMMA OneRequest ==
  ASSUME ReqOK, Pending, Grown, NEW r \in Requests,
         NEW y \in SignInRequest \cup NoticeRequest \cup {Idle}, y # Idle => SoundThen(y), req' = [req EXCEPT ![r] = y]
  PROVE  ReqOK' /\ Pending' /\ req'[r] = y /\ \A q \in Requests : q # r => req'[q] = req[q]
<1>1. req'[r] = y /\ \A q \in Requests : q # r => req'[q] = req[q]
  BY DEF ReqOK
<1>2. ASSUME NEW q \in Requests, req'[q] # Idle
      PROVE  SoundThen(req'[q])
  <2>1. CASE q = r
    BY <1>1, <1>2, <2>1
  <2>2. CASE q # r
    <3>1. req'[q] = req[q] /\ Sound(req[q])
      BY <1>1, <1>2, <2>2 DEF Pending
    <3> QED BY <3>1, SoundGrows
  <2> QED BY <2>1, <2>2
<1>3. ReqOK'
  BY DEF ReqOK
<1> QED BY <1>1, <1>2, <1>3 DEF Pending, Sound, SoundThen

\* Nobody is signed in anew, and no sign-in picks whom to sign out.
Calm ==
    /\ \A s \in DOMAIN sessions' : Usable(sessions'[s]) => s \in DOMAIN sessions /\ Usable(sessions[s])
    /\ \A q \in Requests : req'[q] # Idle /\ req'[q].at = "commit" => req'[q] = req[q]

\* A sign-in picks them.
Picks(r) ==
    /\ req[r] # Idle /\ req[r].at = "hold" /\ UNCHANGED sessions
    /\ req' = [req EXCEPT ![r] = Held(@, RevokeOldestUserSessions(req[r].u, req[r].s))]

\* It commits.
Commits(r) ==
    /\ req[r] # Idle /\ req[r].at = "commit"
    /\ sessions' = Kept(req[r].s, req[r].ends)
    /\ req' = [req EXCEPT ![r] = Idle]

Effect == Calm \/ \E r \in Requests : Picks(r) \/ Commits(r)

\* What is shown of every step.
Good == Tables' /\ Owned' /\ Grown /\ Alone(sessions') /\ ReqOK' /\ Pending' /\ Effect

\* What the lemmas on single actions take from the invariant.
LEMMA InvParts ==
  ASSUME Inv
  PROVE  Tables /\ Owned /\ ReqOK /\ Pending /\ Alone(sessions) /\ sessions \in Seq(SessionRow)
BY DEF Inv, TypeOK, Tables, ReqOK

\* A calm step: at most one handler moves, and not to its commit.
LEMMA CalmGood ==
  ASSUME Inv, Tables', Owned', Grown, Alone(sessions'),
         \A s \in DOMAIN sessions' : Usable(sessions'[s]) => s \in DOMAIN sessions /\ Usable(sessions[s]),
         \/ UNCHANGED req
         \/ \E r \in Requests, y \in SignInRequest \cup NoticeRequest \cup {Idle} :
               req' = [req EXCEPT ![r] = y] /\ (y # Idle => SoundThen(y) /\ y.at # "commit")
  PROVE  Good
<1>1. CASE UNCHANGED req
  BY <1>1, InvParts, RequestsKept DEF Good, Effect, Calm
<1>2. ASSUME NEW r \in Requests, NEW y \in SignInRequest \cup NoticeRequest \cup {Idle},
             req' = [req EXCEPT ![r] = y], y # Idle => SoundThen(y) /\ y.at # "commit"
      PROVE  Good
  <2>1. ReqOK' /\ Pending' /\ req'[r] = y /\ \A q \in Requests : q # r => req'[q] = req[q]
    BY <1>2, InvParts, OneRequest
  <2>2. Calm
    BY <1>2, <2>1 DEF Calm
  <2> QED BY <2>1, <2>2 DEF Good, Effect
<1> QED BY <1>1, <1>2

\* One that leaves the tables alone.
LEMMA TablesSame ==
  ASSUME Inv, UNCHANGED <<accounts, identity, sessions, lately>>
  PROVE  /\ Tables' /\ Owned' /\ Grown /\ Alone(sessions')
         /\ \A s \in DOMAIN sessions' : Usable(sessions'[s]) => s \in DOMAIN sessions /\ Usable(sessions[s])
<1>1. SameOwners(sessions')
  BY InvParts DEF SameOwners
<1> QED BY <1>1, InvParts, SessionsChange

\* One that only ends sessions.
LEMMA TablesEnding ==
  ASSUME Inv, Ending(sessions')
  PROVE  /\ SameOwners(sessions')
         /\ \A s \in DOMAIN sessions' : Usable(sessions'[s]) => s \in DOMAIN sessions /\ Usable(sessions[s])
         /\ UNCHANGED <<accounts, identity, lately>> => Tables' /\ Owned' /\ Grown
<1>1. SameOwners(sessions')
  BY DEF Ending
<1>2. UNCHANGED <<accounts, identity, lately>> => Tables' /\ Owned' /\ Grown
  BY <1>1, InvParts, SessionsChange
<1> QED BY <1>1, <1>2 DEF Ending, SameOwners

\* The steps that change neither the tables nor a handler.
LEMMA StillGood ==
  ASSUME Inv, UNCHANGED <<accounts, identity, sessions, lately, req>>
  PROVE  Good
BY TablesSame, CalmGood

\* The handlers that only move.
LEMMA VerifyGood ==
  ASSUME Inv, NEW r \in Requests, NEW e \in Addresses, NEW guess, Verify(r, e, guess)
  PROVE  Good
<1> DEFINE i == GetLatestSignInCode(e)
           y == [at |-> "count", e |-> e, code |-> i, right |-> guess = i, u |-> 0, s |-> 0, ends |-> {}]
<1>1. i \in Nat
  BY LenProperties DEF GetLatestSignInCode, Inv
<1>2. (guess = i) \in BOOLEAN
  OBVIOUS
<1> DEFINE right == guess = i
<1> HIDE DEF i, right
<1>3. y \in VerifyRequest /\ y.at = "count"
  BY <1>1, <1>2 DEF VerifyRequest, right
<1>4. req' = [req EXCEPT ![r] = y] /\ UNCHANGED <<accounts, identity, sessions, lately>>
  BY DEF Verify, rows, i
<1> HIDE DEF y
<1>5. y # Idle => SoundThen(y) /\ y.at # "commit"
  BY <1>3 DEF SoundThen
<1>6. y \in SignInRequest \cup NoticeRequest \cup {Idle}
  BY <1>3 DEF SignInRequest
<1> QED BY <1>4, <1>5, <1>6, TablesSame, CalmGood

\* CountSignInAttempt: the handler ends, or goes on to its transaction.
LEMMA CountGood ==
  ASSUME Inv, NEW r \in Requests, CountSignInAttempt(r)
  PROVE  Good
<1>1. req[r] # Idle /\ req[r].at = "count" /\ UNCHANGED <<accounts, identity, sessions, lately>>
  BY DEF CountSignInAttempt, At
<1>2. req[r] \in VerifyRequest
  BY <1>1, RequestKind DEF Inv
<1>3. CASE Done(r)
  BY <1>1, <1>3, TablesSame, CalmGood DEF Done
<1>4. CASE req' = [req EXCEPT ![r].at = "begin"]
  <2> DEFINE y == [req[r] EXCEPT !.at = "begin"]
  <2>1. y \in VerifyRequest
    BY <1>2, Zenon DEF VerifyRequest
  <2>2. y.at = "begin"
    BY <1>2, Zenon DEF VerifyRequest
  <2>3. req' = [req EXCEPT ![r] = y]
    BY <1>4, Zenon
  <2> HIDE DEF y
  <2>4. y # Idle => SoundThen(y) /\ y.at # "commit"
    BY <2>2 DEF SoundThen
  <2>5. y \in SignInRequest \cup NoticeRequest \cup {Idle}
    BY <2>1 DEF SignInRequest
  <2> QED BY <1>1, <2>3, <2>4, <2>5, TablesSame, CalmGood
<1> QED BY <1>3, <1>4 DEF CountSignInAttempt

\* RegisterPush begins for a session that is there.
LEMMA RegisterGood ==
  ASSUME Inv, NEW r \in Requests, NEW s \in DOMAIN sessions, NEW k \in PushTokens, RegisterPush(r, s, k)
  PROVE  Good
<1> DEFINE y == [at |-> "register", s |-> s, k |-> k]
<1>1. y \in RegisterRequest /\ y.at = "register" /\ y.s = s
  BY InvParts DEF RegisterRequest
<1>2. req' = [req EXCEPT ![r] = y] /\ UNCHANGED <<accounts, identity, sessions, lately>>
  BY DEF RegisterPush, rows
<1> HIDE DEF y
<1>3. y # Idle => SoundThen(y) /\ y.at # "commit"
  BY <1>1, <1>2 DEF SoundThen
<1>4. y \in SignInRequest \cup NoticeRequest \cup {Idle}
  BY <1>1 DEF SignInRequest
<1> QED BY <1>2, <1>3, <1>4, TablesSame, CalmGood

\* MessageLanded notes which sessions were over when it landed.
LEMMA LandedGood ==
  ASSUME Inv, NEW r \in Requests, NEW u \in DOMAIN accounts, MessageLanded(r, u)
  PROVE  Good
<1> DEFINE over == EndedSessions(u)
           y == [at |-> "look", u |-> u, over |-> over]
<1>1. UNCHANGED <<accounts, identity, sessions, lately>> /\ (UNCHANGED req \/ req' = [req EXCEPT ![r] = y])
  BY DEF MessageLanded, rows
<1>2. u \in Nat /\ DOMAIN sessions \subseteq Nat
  BY InvParts DEF Tables
<1>3. \A s \in over : /\ s \in DOMAIN sessions /\ sessions[s].user \in DOMAIN accounts
                      /\ Over(sessions[s]) \/ accounts[sessions[s].user] = "closed"
  BY DEF EndedSessions, Ended, Over
<1> HIDE DEF over
<1>4. y \in NoticeRequest /\ y.at = "look" /\ y.u = u /\ y.over = over
  BY <1>2, <1>3 DEF NoticeRequest
<1> HIDE DEF y
<1>5. y # Idle => SoundThen(y) /\ y.at # "commit"
  BY <1>1, <1>3, <1>4 DEF SoundThen
<1>6. y \in SignInRequest \cup NoticeRequest \cup {Idle}
  BY <1>4
<1> QED BY <1>1, <1>5, <1>6, TablesSame, CalmGood

\* A session that is over is nowhere to be told.
LEMMA FindGood ==
  ASSUME Inv, NEW r \in Requests, FindDevices(r)
  PROVE  Good
<1> DEFINE to == PushTargets(req[r].u)
           y == [at |-> "send", u |-> req[r].u, over |-> req[r].over, to |-> to]
<1>1. /\ req[r] # Idle /\ req[r].at = "look" /\ UNCHANGED <<accounts, identity, sessions, lately>>
      /\ Done(r) \/ req' = [req EXCEPT ![r] = y]
  BY DEF FindDevices, rows, At
<1>2. /\ req[r].u \in Nat /\ req[r].over \in SUBSET Nat
      /\ \A s \in req[r].over : Over(sessions[s]) \/ accounts[sessions[s].user] = "closed"
  BY <1>1, RequestKind DEF Inv, Sound
<1>3. CASE Done(r)
  BY <1>1, <1>3, TablesSame, CalmGood DEF Done
<1>4. CASE req' = [req EXCEPT ![r] = y]
  <2>1. \A s \in DOMAIN sessions : sessions[s] \in SessionRow /\ s \in Nat
    BY InvParts
  <2>2. \A p \in to : \E s \in DOMAIN sessions :
          /\ p = [s |-> s, k |-> sessions[s].push] /\ sessions[s].push # NoToken
          /\ sessions[s].user = req[r].u /\ sessions[s].state = "live" /\ ~sessions[s].expired
          /\ accounts[req[r].u] = "open"
    BY DEF PushTargets, ListUserSessions, GetUser
  <2> HIDE DEF to
  <2>3. ASSUME NEW p \in to
        PROVE  p \in Target /\ p.s \in DOMAIN sessions /\ p.s \notin req[r].over
    <3>1. PICK s \in DOMAIN sessions :
            /\ p = [s |-> s, k |-> sessions[s].push] /\ sessions[s].push # NoToken
            /\ sessions[s].user = req[r].u /\ sessions[s].state = "live" /\ ~sessions[s].expired
            /\ accounts[req[r].u] = "open"
      BY <2>2
    <3>2. p \in Target /\ p.s = s
      BY <2>1, <3>1 DEF Target, SessionRow
    <3>3. s \notin req[r].over
      BY <1>2, <3>1 DEF Over
    <3> QED BY <3>2, <3>3
  <2>4. y \in NoticeRequest /\ y.at = "send" /\ y.over = req[r].over /\ y.to = to
    BY <1>2, <2>3 DEF NoticeRequest
  <2> HIDE DEF y
  <2>5. y # Idle => SoundThen(y) /\ y.at # "commit"
    BY <1>1, <2>3, <2>4 DEF SoundThen
  <2> QED BY <1>1, <1>4, <2>4, <2>5, TablesSame, CalmGood
<1> QED BY <1>1, <1>3, <1>4

\* The handlers that end, having ended sessions or released a push token.
LEMMA DoneGood ==
  ASSUME Inv, NEW r \in Requests, Ending(sessions'), Alone(sessions'), Done(r), UNCHANGED <<accounts, identity, lately>>
  PROVE  Good
BY TablesEnding, CalmGood DEF Done

\* RegisterTx moves a push token and signs nobody in.
LEMMA RegisterTxGood ==
  ASSUME Inv, NEW r \in Requests, RegisterTx(r)
  PROVE  Good
<1>1. req[r] # Idle /\ req[r].at = "register"
  BY DEF RegisterTx, At
<1>2. req[r].s \in DOMAIN sessions /\ req[r].k \in PushTokens
  BY <1>1, RequestKind DEF Inv, Sound
<1>3. Ending(sessions') /\ Alone(sessions')
  BY <1>2, InvParts, RegisterEnds DEF RegisterTx
<1> QED BY <1>3, DoneGood DEF RegisterTx

\* Notify forgets dead tokens and signs nobody in.
LEMMA NotifyGood ==
  ASSUME Inv, NEW r \in Requests, Notify(r)
  PROVE  Good
<1>1. \/ sessions' = sessions
      \/ \E k : sessions' = SetSessionPushToken(0, k)
  BY DEF Notify, ClearSessionPush
<1>2. Ending(sessions') /\ Alone(sessions')
  BY <1>1, InvParts, SessionsEnd, DroppingAlone
<1> QED BY <1>2, DoneGood DEF Notify

\* The steps of devices: one that is used, ends or runs out.
LEMMA DeviceGood ==
  ASSUME Inv, NEW s \in DOMAIN sessions,
         \/ TouchSession(s) \/ SessionExpires(s) \/ SignOutOthers(s) \/ Logout(s) \/ CloseAccount(s)
         \/ \E other \in DOMAIN sessions : SignOutDevice(s, other)
  PROVE  Good
<1>1. CASE TouchSession(s)
  <2>1. Tables' /\ Owned' /\ Grown
    BY <1>1, InvParts, TouchTables DEF TouchSession
  <2> QED BY <1>1, <2>1, InvParts, CalmGood DEF TouchSession
<1>2. ASSUME Ending(sessions'), Dropping(sessions'), UNCHANGED <<accounts, identity, lately, req>>
      PROVE  Good
  BY <1>2, TablesEnding, InvParts, DroppingAlone, CalmGood
<1>3. CASE SessionExpires(s)
  <2>1. sessions[s] \in SessionRow
    BY InvParts
  <2>2. sessions' = [sessions EXCEPT ![s] = Outlived(sessions[s])]
    BY <1>3, Zenon DEF SessionExpires, Outlived
  <2>3. Outlived(sessions[s]) \in SessionRow /\ Outlived(sessions[s]).user = sessions[s].user
        /\ ~Usable(Outlived(sessions[s])) /\ Over(Outlived(sessions[s])) /\ Outlived(sessions[s]).push = sessions[s].push
    BY <2>1, ExpiredField DEF Usable, Over
  <2>4. Ending(sessions') /\ Dropping(sessions')
    BY <2>2, <2>3, InvParts, OneSession
  <2> QED BY <1>2, <1>3, <2>4 DEF SessionExpires
<1>4. CASE SignOutOthers(s) \/ Logout(s) \/ \E other \in DOMAIN sessions : SignOutDevice(s, other)
  <2>1. \E set : sessions' = Revoked(set)
    BY <1>4 DEF SignOutOthers, Logout, SignOutDevice
  <2>2. Ending(sessions') /\ Dropping(sessions')
    BY <2>1, InvParts, SessionsEnd
  <2> QED BY <1>2, <1>4, <2>2 DEF SignOutOthers, Logout, SignOutDevice
<1>5. CASE CloseAccount(s)
  <2> DEFINE u == sessions[s].user
  <2>1. u \in DOMAIN accounts
    BY InvParts DEF Tables
  <2>2. Ending(sessions') /\ Alone(sessions')
    BY <1>5, InvParts, SessionsEnd, DroppingAlone DEF CloseAccount
  <2>3. /\ identity' = [e \in Addresses |-> IF identity[e] = u THEN NoUser ELSE identity[e]]
        /\ accounts' = [accounts EXCEPT ![u] = "closed"] /\ UNCHANGED <<lately, req>>
    BY <1>5 DEF CloseAccount
  <2> HIDE DEF u
  <2>4. Tables' /\ Owned' /\ Grown
    BY <2>1, <2>2, <2>3, InvParts, CloseTables DEF Ending
  <2> QED BY <2>2, <2>3, <2>4, TablesEnding, CalmGood
<1> QED BY <1>1, <1>3, <1>4, <1>5

\* The transaction of a right code.
LEMMA BeginGood ==
  ASSUME Inv, NEW r \in Requests, BeginSignIn(r)
  PROVE  Good
<1> DEFINE e == req[r].e
           new == identity[e] = NoUser
           u == IF new THEN Len(accounts) + 1 ELSE identity[e]
           s == Len(sessions) + 1
<1>1. req[r] # Idle /\ req[r].at = "begin"
  BY DEF BeginSignIn, At
<1>2. req[r] \in VerifyRequest /\ e \in Addresses
  BY <1>1, RequestKind DEF Inv
<1>3. /\ accounts' = IF new THEN Append(accounts, "new") ELSE accounts
      /\ sessions' = Append(sessions, CreateSession(u))
      /\ lately' = Append(lately, s)
      /\ req' = [req EXCEPT ![r] = Begun(req[r], u, s)]
      /\ UNCHANGED identity
  BY DEF BeginSignIn
<1>4. u \in DOMAIN accounts' /\ u \in Nat
  <2>1. accounts \in Seq({"new", "open", "closed"}) /\ identity[e] \in DOMAIN accounts \cup {NoUser}
    BY <1>2, InvParts DEF Tables
  <2>2. CASE new
    BY <1>3, <2>1, <2>2
  <2>3. CASE ~new
    BY <1>3, <2>1, <2>3
  <2> QED BY <2>2, <2>3
<1>5. s \in Nat
  BY InvParts
<1> HIDE DEF u, new
<1>6. accounts' \in {accounts, Append(accounts, "new")}
  BY <1>3
<1>7. /\ Tables' /\ Owned' /\ Grown
      /\ s \in DOMAIN sessions' /\ sessions'[s].user = u
      /\ \A x \in DOMAIN sessions : sessions'[x] = sessions[x]
      /\ DOMAIN sessions' = DOMAIN sessions \cup {s}
      /\ sessions'[s].state = "new" /\ Alone(sessions')
  BY <1>3, <1>4, <1>6, InvParts, BeginTables
<1> HIDE DEF s
<1> DEFINE y == Begun(req[r], u, s)
<1>8. y \in VerifyRequest /\ y.at = "hold" /\ y.u = u /\ y.s = s
  <2>1. req[r] \in VerifyRequest /\ u \in Nat /\ s \in Nat
    BY <1>2, <1>4, <1>5
  <2>2. \A x \in VerifyRequest, a \in Nat, b \in Nat :
           /\ Begun(x, a, b) \in VerifyRequest /\ Begun(x, a, b).at = "hold"
           /\ Begun(x, a, b).u = a /\ Begun(x, a, b).s = b
    BY BegunFields
  <2>3. \A b \in Nat : Begun(req[r], u, b) \in VerifyRequest /\ Begun(req[r], u, b).at = "hold" /\ Begun(req[r], u, b).u = u /\ Begun(req[r], u, b).s = b
    BY <2>1, <2>2
  <2>4. y \in VerifyRequest
    BY <2>1, <2>3
  <2>5. y.at = "hold" 
    BY <2>1, <2>3
  <2>6. y.u = u
    BY <2>1, <2>3
  <2>7. y.s = s
    BY <2>1, <2>3
  <2> QED BY <2>4, <2>5, <2>6, <2>7
<1> HIDE DEF y
<1>9. y # Idle => SoundThen(y) /\ y.at # "commit"
  BY <1>4, <1>7, <1>8 DEF SoundThen
<1>10. y \in SignInRequest \cup NoticeRequest \cup {Idle}
  BY <1>8 DEF SignInRequest
<1>11. \A x \in DOMAIN sessions' : Usable(sessions'[x]) => x \in DOMAIN sessions /\ Usable(sessions[x])
  BY <1>7 DEF Usable
<1>12. req' = [req EXCEPT ![r] = y]
  BY <1>3 DEF y
<1> QED BY <1>7, <1>9, <1>10, <1>11, <1>12, CalmGood

\* HoldToDevices picks, or undoes the session it inserted.
LEMMA HoldGood ==
  ASSUME Inv, NEW r \in Requests, HoldToDevices(r)
  PROVE  Good
<1> DEFINE u == req[r].u
           s == req[r].s
           ends == RevokeOldestUserSessions(u, s)
           y == Held(req[r], ends)
<1>1. req[r] # Idle /\ req[r].at = "hold" /\ UNCHANGED <<accounts, identity, lately>>
  BY DEF HoldToDevices, At
<1>2. req[r] \in VerifyRequest /\ u \in DOMAIN accounts /\ s \in DOMAIN sessions /\ sessions[s].user = u
  BY <1>1, RequestKind DEF Inv, Sound
<1>3. CASE sessions' = [sessions EXCEPT ![s].state = "undone"] /\ Done(r)
  <2>1. sessions[s] \in SessionRow
    BY <1>2, InvParts
  <2>2. sessions' = [sessions EXCEPT ![s] = Became(sessions[s], "undone")]
    BY <1>3, Zenon DEF Became
  <2> HIDE DEF s
  <2>3. Became(sessions[s], "undone") \in SessionRow /\ Became(sessions[s], "undone").user = sessions[s].user
        /\ ~Usable(Became(sessions[s], "undone")) /\ Over(Became(sessions[s], "undone"))
        /\ Became(sessions[s], "undone").push = sessions[s].push
    BY <2>1, StateField DEF Usable, Over
  <2>4. Ending(sessions') /\ Alone(sessions')
    BY <1>2, <2>2, <2>3, InvParts, OneSession, DroppingAlone
  <2> QED BY <1>1, <1>3, <2>4, DoneGood
<1>4. CASE req' = [req EXCEPT ![r] = Held(@, ends)] /\ UNCHANGED sessions
  <2>1. ends \in SUBSET Nat
    <3>1. DOMAIN sessions \subseteq Nat
      BY InvParts
    <3>2. ends \subseteq DOMAIN sessions
      BY <1>2 DEF RevokeOldestUserSessions, Visible, ListUserSessions
    <3> QED BY <3>1, <3>2
  <2>p. Picks(r)
    BY <1>1, <1>4 DEF Picks
  <2> HIDE DEF ends
  <2>2. y \in VerifyRequest /\ y.at = "commit" /\ y.u = u /\ y.s = s
    BY <1>2, <2>1, HeldFields
  <2>3. req' = [req EXCEPT ![r] = y]
    BY <1>4
  <2> HIDE DEF y
  <2>4. Tables' /\ Owned' /\ Grown /\ Alone(sessions')
    BY <1>1, <1>4, TablesSame
  <2>5. SoundThen(y)
    BY <1>1, <1>2, <1>4, <2>2 DEF SoundThen
  <2>6. y \in SignInRequest \cup NoticeRequest \cup {Idle}
    BY <2>2 DEF SignInRequest
  <2>7. ReqOK' /\ Pending'
    BY <2>3, <2>4, <2>5, <2>6, InvParts, OneRequest
  <2>8. Effect
    BY <2>p DEF Effect
  <2> QED BY <2>4, <2>7, <2>8 DEF Good
<1> QED BY <1>3, <1>4 DEF HoldToDevices

\* CommitSignIn commits, or undoes the session it inserted.
LEMMA CommitGood ==
  ASSUME Inv, NEW r \in Requests, CommitSignIn(r)
  PROVE  Good
<1> DEFINE e == req[r].e
           u == req[r].u
           s == req[r].s
<1>1. req[r] # Idle /\ req[r].at = "commit" /\ UNCHANGED lately /\ Done(r)
  BY DEF CommitSignIn, At
<1>2. e \in Addresses /\ u \in DOMAIN accounts /\ s \in DOMAIN sessions
  BY <1>1, RequestKind DEF Inv, Sound
<1>3. CASE sessions' = [sessions EXCEPT ![s].state = "undone"] /\ UNCHANGED <<accounts, identity>>
  <2>1. sessions[s] \in SessionRow
    BY <1>2, InvParts
  <2>2. sessions' = [sessions EXCEPT ![s] = Became(sessions[s], "undone")]
    BY <1>3, Zenon DEF Became
  <2> HIDE DEF s
  <2>3. Became(sessions[s], "undone") \in SessionRow /\ Became(sessions[s], "undone").user = sessions[s].user
        /\ ~Usable(Became(sessions[s], "undone")) /\ Over(Became(sessions[s], "undone"))
        /\ Became(sessions[s], "undone").push = sessions[s].push
    BY <2>1, StateField DEF Usable, Over
  <2>4. Ending(sessions') /\ Alone(sessions')
    BY <1>2, <2>2, <2>3, InvParts, OneSession, DroppingAlone
  <2> QED BY <1>1, <1>3, <2>4, DoneGood
<1>4. CASE /\ accounts[u] = "new" => identity[e] = NoUser
           /\ accounts' = IF accounts[u] = "new" THEN [accounts EXCEPT ![u] = "open"] ELSE accounts
           /\ identity' = IF accounts[u] = "new" THEN [identity EXCEPT ![e] = u] ELSE identity
           /\ sessions' = Kept(s, req[r].ends)
  <2>1. SameOwners(sessions') /\ Alone(sessions')
    BY <1>2, <1>4, InvParts, KeptSessions, DroppingAlone
  <2>2. Commits(r)
    BY <1>1, <1>4 DEF Commits, Done
  <2> HIDE DEF e, u, s
  <2>3. Tables' /\ Owned' /\ Grown
    BY <1>1, <1>2, <1>4, <2>1, InvParts, CommitTables
  <2>4. ReqOK' /\ Pending'
    <3>1. req' = [req EXCEPT ![r] = Idle] /\ Idle \in SignInRequest \cup NoticeRequest \cup {Idle}
      BY <1>1 DEF Done
    <3> QED BY <2>3, <3>1, InvParts, OneRequest
  <2> QED BY <2>1, <2>2, <2>3, <2>4 DEF Good, Effect
<1> QED BY <1>3, <1>4 DEF CommitSignIn

\* Every step is good.
LEMMA StepGood ==
  ASSUME Inv, [Next]_vars
  PROVE  Good
<1>1. CASE UNCHANGED vars
  BY <1>1, StillGood DEF vars, signInVars, noticeVars
<1>2. CASE SignInNext /\ UNCHANGED noticeVars
  <2>2. CASE \E e \in Addresses : Start(e) \/ Refill(e) \/ CodeExpires(e)
    BY <2>2, StillGood DEF Start, Refill, CodeExpires
  <2>3. CASE \E r \in Requests, e \in Addresses : \E guess \in 0..Len(codes[e]) : Verify(r, e, guess)
    BY <2>3, VerifyGood
  <2>4. CASE \E r \in Requests : \/ CountSignInAttempt(r) \/ BeginSignIn(r) \/ HoldToDevices(r) \/ CommitSignIn(r)
                                 \/ RegisterTx(r)
    BY <2>4, CountGood, BeginGood, HoldGood, CommitGood, RegisterTxGood
  <2>5. CASE \E s \in DOMAIN sessions :
                \/ TouchSession(s) \/ SessionExpires(s) \/ SignOutOthers(s) \/ Logout(s) \/ CloseAccount(s)
                \/ \E other \in DOMAIN sessions : SignOutDevice(s, other)
    BY <2>5, DeviceGood
  <2>6. CASE \E s \in DOMAIN sessions : \E r \in Requests, k \in PushTokens : RegisterPush(r, s, k)
    BY <2>6, RegisterGood
  <2> QED BY <1>2, <2>2, <2>3, <2>4, <2>5, <2>6 DEF SignInNext
<1>3. CASE \E c \in Sockets : Beat(c) \/ CloseSocket(c) \/ ClearPresence(c) \/ \E s \in DOMAIN sessions : Connect(c, s)
  BY <1>3, StillGood DEF Beat, CloseSocket, ClearPresence, Connect, rows, signInVars
<1>4. CASE \E p \in {Process[c] : c \in Sockets} : Kill(p)
  BY <1>4, StillGood DEF Kill, rows
<1>5. CASE \E u \in DOMAIN accounts : PresenceExpires(u) \/ Quieten(u)
  BY <1>5, StillGood DEF PresenceExpires, Quieten, rows, signInVars
<1>6. CASE \E r \in Requests : FindDevices(r) \/ Notify(r) \/ \E u \in DOMAIN accounts : MessageLanded(r, u)
  BY <1>6, FindGood, NotifyGood, LandedGood
<1> QED BY <1>1, <1>2, <1>3, <1>4, <1>5, <1>6 DEF Next

-----------------------------------------------------------------------------
(* The limit on devices.                                                   *)

\* Of a person's devices, at most DevicesMax are spared by the pick: the one
\* used longest ago among those spared has all the others after it.
LEMMA Spared ==
  ASSUME Tables, NEW u, NEW own \in DOMAIN sessions
  PROVE  /\ IsFiniteSet(Visible(u, own) \ RevokeOldestUserSessions(u, own))
         /\ Cardinality(Visible(u, own) \ RevokeOldestUserSessions(u, own)) <= DevicesMax
<1> DEFINE V == Visible(u, own)
           K == V \ RevokeOldestUserSessions(u, own)
           Later(s) == {n \in V : Place(n) > Place(s)}
<1> SUFFICES IsFiniteSet(K) /\ Cardinality(K) <= DevicesMax
  OBVIOUS
<1>0. DevicesMax \in Nat
  BY SignInAssumption DEF SignInAssumption
<1>1. V \subseteq DOMAIN sessions
  BY DEF Visible, ListUserSessions
<1>2. IsFiniteSet(DOMAIN sessions)
  <2>1. Len(sessions) \in Nat /\ DOMAIN sessions = 1..Len(sessions)
    BY LenProperties DEF Tables
  <2>2. Len(sessions) \in Int /\ 1 \in Int
    BY <2>1
  <2>3. IsFiniteSet(1..Len(sessions))
    BY <2>2, FS_Interval
  <2> QED BY <2>1, <2>3
<1>3. IsFiniteSet(V) /\ IsFiniteSet(K)
  BY <1>1, <1>2, FS_Subset
<1>4. K = {s \in V : ~(Cardinality(Later(s)) >= DevicesMax)}
  BY DEF RevokeOldestUserSessions
<1>5. \A s \in V : Place(s) \in Nat /\ lately[Place(s)] = s
  <2>1. \A s \in DOMAIN sessions : \E i \in DOMAIN lately : lately[i] = s
    BY Zenon DEF Tables, ToSet
  <2>2. DOMAIN lately \subseteq Nat
    BY LenProperties DEF Tables
  <2> QED BY <1>1, <2>1, <2>2 DEF Place
<1> HIDE DEF V
<1>6. CASE K = {}
  <2> HIDE DEF K
  <2> QED BY <1>0, <1>3, <1>6, FS_EmptySet
<1>7. CASE K # {}
  <2> DEFINE N == {Place(s) : s \in K}
  <2>1. N \in SUBSET Nat /\ N # {}
    BY <1>5, <1>7
  <2>2. PICK p \in N : \A k \in N : p <= k
    <3> HIDE DEF N
    <3> QED BY <2>1, Least
  <2>3. PICK m \in K : p = Place(m)
    BY <2>2
  <2>4. \A s \in K : s # m => Place(s) > Place(m)
    <3>1. \A s \in K : Place(s) \in Nat /\ lately[Place(s)] = s /\ Place(m) <= Place(s)
      BY <1>5, <2>2, <2>3
    <3>2. Place(m) \in Nat /\ lately[Place(m)] = m
      BY <3>1
    <3> QED BY <3>1, <3>2
  <2>5. K \ {m} \subseteq Later(m)
    BY <2>4
  <2>6. ~(Cardinality(Later(m)) >= DevicesMax) /\ Later(m) \subseteq V
    BY <1>4, <2>3
  <2> DEFINE L == Later(m)
  <2> HIDE DEF L, K
  <2>7. IsFiniteSet(L) /\ Cardinality(L) \in Nat /\ Cardinality(K \ {m}) <= Cardinality(L)
    <3>1. IsFiniteSet(L)
      BY <1>3, <2>6, FS_Subset DEF L
    <3> QED BY <2>5, <3>1, FS_Subset, FS_CardinalityType DEF L
  <2>8. Cardinality(K \ {m}) = Cardinality(K) - 1 /\ Cardinality(K) \in Nat
    BY <1>3, <2>3, FS_RemoveElement, FS_CardinalityType
  <2>9. ~(Cardinality(L) >= DevicesMax)
    BY <2>6 DEF L
  <2> QED BY <1>0, <1>3, <2>7, <2>8, <2>9
<1> QED BY <1>6, <1>7

\* What is still to come is finite, and at most one device for each handler.
LEMMA AfterFinite ==
  ASSUME Tables, NEW u, NEW P
  PROVE  IsFiniteSet(After(u, P))
<1>1. Len(sessions) \in Nat /\ DOMAIN sessions = 1..Len(sessions)
  BY LenProperties DEF Tables
<1>2. Len(sessions) \in Int /\ 1 \in Int
  BY <1>1
<1>3. IsFiniteSet(1..Len(sessions))
  BY <1>2, FS_Interval
<1>4. After(u, P) \subseteq 1..Len(sessions)
  BY <1>1 DEF After
<1> QED BY <1>3, <1>4, FS_Subset

\* A smaller set of devices is within the limit too.
LEMMA WithinLimit ==
  ASSUME NEW A, NEW B, A \subseteq B, IsFiniteSet(B), NEW n \in Int, Cardinality(B) <= n
  PROVE  Cardinality(A) <= n
<1>1. IsFiniteSet(A) /\ Cardinality(A) <= Cardinality(B)
  BY FS_Subset
<1>2. Cardinality(A) \in Nat /\ Cardinality(B) \in Nat
  BY <1>1, FS_CardinalityType
<1> QED BY <1>1, <1>2

Limit == DevicesMax + Cardinality(Requests) - 1

\* The limit is at least one device.
LEMMA LimitType ==
  /\ DevicesMax \in Nat \ {0} /\ IsFiniteSet(Requests) /\ Cardinality(Requests) \in Nat
  /\ Limit \in Nat
<1>1. DevicesMax \in Nat \ {0} /\ IsFiniteSet(Requests)
  BY SignInAssumption DEF SignInAssumption
<1>2. Cardinality(Requests) \in Nat
  BY <1>1, FS_CardinalityType
<1> DEFINE c == Cardinality(Requests)
<1> HIDE DEF c
<1>3. c \in Nat
  BY <1>2 DEF c
<1>4. DevicesMax + c - 1 \in Nat
  BY <1>1, <1>3
<1> QED BY <1>1, <1>2, <1>4 DEF Limit, c

\* The limit, in one word.
LEMMA DevicesLimit ==
  Devices <=> \A u \in Nat : \A P \in SUBSET Committing(u) : Cardinality(After(u, P)) <= Limit
BY DEF Devices, Limit

\* A sign-in that has inserted its session and picked whom to sign out.
LEMMA CommittingRows ==
  ASSUME Inv, NEW u, NEW q \in Committing(u)
  PROVE  /\ req[q] # Idle /\ req[q] \in VerifyRequest /\ req[q].s \in DOMAIN sessions
         /\ sessions[req[q].s].user = u /\ q \in Requests
BY RequestKind DEF Inv, Committing, Sound

\* Calm steps add nobody.
LEMMA CalmDevices ==
  ASSUME Inv, Grown, Calm, NEW u \in Nat, NEW P \in SUBSET (Committing(u)')
  PROVE  Cardinality(After(u, P)') <= Limit
<1>1. \A q \in P : q \in Requests /\ req'[q] # Idle /\ req'[q].at = "commit" /\ req'[q].u = u /\ req'[q] = req[q]
  BY DEF Committing, Calm
<1>2. P \in SUBSET Committing(u)
  BY <1>1 DEF Committing
<1>3. \A s \in DOMAIN sessions' : s \in ListUserSessions(u)' => s \in DOMAIN sessions /\ s \in ListUserSessions(u)
  BY DEF Calm, Grown, ListUserSessions, Usable
<1>4. \A q \in P : req[q].s \in DOMAIN sessions
  BY <1>2, CommittingRows
<1>5. After(u, P)' \subseteq After(u, P)
  <2>1. ASSUME NEW s, s \in After(u, P)'
        PROVE  s \in After(u, P)
    <3>1. s \in DOMAIN sessions'
      BY <2>1 DEF After
    <3>2. CASE s \in ListUserSessions(u)' /\ \A q \in P : s \notin req'[q].ends
      BY <1>1, <1>3, <3>1, <3>2 DEF After
    <3>3. CASE \E q \in P : s = req'[q].s /\ s \notin req'[q].ends
      BY <1>1, <1>4, <3>3 DEF After
    <3> QED BY <2>1, <3>2, <3>3 DEF After
  <2> QED BY <2>1
<1>6. IsFiniteSet(After(u, P)) /\ Cardinality(After(u, P)) <= Limit /\ Limit \in Int
  BY <1>2, InvParts, AfterFinite, DevicesLimit, LimitType DEF Inv
<1> QED BY <1>5, <1>6, WithinLimit

\* What a commit adds was counted among what was still to come.
LEMMA CommitDevices ==
  ASSUME Inv, Grown, NEW r \in Requests, Commits(r), NEW u \in Nat, NEW P \in SUBSET (Committing(u)')
  PROVE  Cardinality(After(u, P)') <= Limit
<1> DEFINE v == req[r].u
           own == req[r].s
           ends == req[r].ends
           Q == IF u = v THEN P \cup {r} ELSE P
<1>1. req'[r] = Idle /\ \A q \in Requests : q # r => req'[q] = req[q]
  BY InvParts DEF Commits, ReqOK
<1>2. \A q \in P : q \in Requests /\ q # r /\ req'[q] = req[q] /\ req[q] # Idle /\ req[q].at = "commit" /\ req[q].u = u
  BY <1>1 DEF Committing
<1>3. r \in Committing(v)
  BY DEF Committing, Commits
<1>4. Q \in SUBSET Committing(u) /\ P \subseteq Q
  BY <1>2, <1>3 DEF Committing
<1>5. \A q \in Q : req[q].s \in DOMAIN sessions
  BY <1>4, CommittingRows
<1>6. own \in DOMAIN sessions /\ sessions[own].user = v
  BY <1>3, CommittingRows
<1>7. /\ SameOwners(sessions')
      /\ \A s \in DOMAIN sessions : Usable(sessions'[s]) => s \notin ends /\ (s = own \/ Usable(sessions[s]))
  BY <1>6, InvParts, KeptSessions DEF Commits
<1>8. \A s \in ListUserSessions(u)' : s \in DOMAIN sessions /\ Usable(sessions'[s]) /\ sessions[s].user = u
  BY <1>7 DEF ListUserSessions, Usable, SameOwners
<1>9. \A s \in DOMAIN sessions : Usable(sessions[s]) /\ sessions[s].user = u => s \in ListUserSessions(u)
  BY DEF ListUserSessions, Usable
<1>10. ASSUME NEW s, s \in After(u, P)'
       PROVE  s \in After(u, Q)
  <2>1. CASE s \in ListUserSessions(u)' /\ \A q \in P : s \notin req'[q].ends
    <3>1. s \in DOMAIN sessions /\ s \notin ends /\ sessions[s].user = u /\ (s = own \/ Usable(sessions[s]))
      BY <1>7, <1>8, <2>1
    <3>2. \A q \in Q : s \notin req[q].ends
      BY <1>2, <2>1, <3>1
    <3>3. CASE Usable(sessions[s])
      <4>1. s \in ListUserSessions(u)
        BY <1>9, <3>1, <3>3
      <4> QED BY <3>1, <3>2, <4>1 DEF After
    <3>4. CASE s = own
      <4>1. u = v
        BY <1>6, <3>1, <3>4
      <4>2. r \in Q
        BY <4>1
      <4> QED BY <3>1, <3>4, <4>2 DEF After
    <3> QED BY <3>1, <3>3, <3>4
  <2>2. CASE \E q \in P : s = req'[q].s /\ s \notin req'[q].ends
    <3>1. PICK q \in P : s = req[q].s /\ s \notin req[q].ends
      BY <1>2, <2>2
    <3>2. q \in Q
      BY <1>4
    <3> QED BY <1>5, <3>1, <3>2 DEF After
  <2> QED BY <1>10, <2>1, <2>2 DEF After
<1> HIDE DEF Q
<1>11. IsFiniteSet(After(u, Q)) /\ Cardinality(After(u, Q)) <= Limit /\ Limit \in Int
  BY <1>4, InvParts, AfterFinite, DevicesLimit, LimitType DEF Inv
<1>12. After(u, P)' \subseteq After(u, Q)
  BY <1>10
<1> QED BY <1>11, <1>12, WithinLimit

\* After a pick, DevicesMax are left and the other sign-ins add one each.
LEMMA PickDevices ==
  ASSUME Inv, NEW r \in Requests, Picks(r), NEW u \in Nat, NEW P \in SUBSET (Committing(u)')
  PROVE  Cardinality(After(u, P)') <= Limit
<1> DEFINE v == req[r].u
           own == req[r].s
           ends == RevokeOldestUserSessions(v, own)
           y == Held(req[r], ends)
<1>1. req[r] # Idle /\ req[r].at = "hold" /\ UNCHANGED sessions /\ req' = [req EXCEPT ![r] = y]
  BY DEF Picks
<1>2. req[r] \in VerifyRequest /\ own \in DOMAIN sessions
  BY <1>1, RequestKind DEF Inv, Sound
<1>3. ends \in SUBSET Nat
  <2>1. DOMAIN sessions \subseteq Nat
    BY InvParts
  <2>2. ends \subseteq DOMAIN sessions
    BY <1>2 DEF RevokeOldestUserSessions, Visible, ListUserSessions
  <2> QED BY <2>1, <2>2
<1> DEFINE K == Visible(v, own) \ ends
<1>4. IsFiniteSet(K) /\ Cardinality(K) <= DevicesMax
  BY <1>2, InvParts, Spared
<1>5. \A s \in DOMAIN sessions : (s \in ListUserSessions(v) \/ s = own) /\ s \notin ends => s \in K
  BY DEF Visible
<1> HIDE DEF ends, K
<1>6. y.at = "commit" /\ y.u = v /\ y.s = own /\ y.ends = ends
  BY <1>2, <1>3, HeldFields
<1> HIDE DEF y
<1>7. req'[r] = y /\ \A q \in Requests : q # r => req'[q] = req[q]
  BY <1>1, InvParts DEF ReqOK
<1>8. \A q \in P : q \in Requests /\ req'[q] # Idle /\ req'[q].at = "commit" /\ req'[q].u = u
  BY DEF Committing
<1>9. CASE r \notin P
  <2>1. \A q \in P : q \in Requests /\ req'[q] = req[q]
    BY <1>7, <1>8, <1>9
  <2>2. P \in SUBSET Committing(u)
    BY <1>8, <2>1 DEF Committing
  <2>3. ListUserSessions(u)' = ListUserSessions(u)
    BY <1>1 DEF ListUserSessions
  <2>4. After(u, P)' = After(u, P)
    BY <1>1, <2>1, <2>3 DEF After
  <2> QED BY <2>2, <2>4, DevicesLimit DEF Inv
<1>10. CASE r \in P
  <2> DEFINE R == P \ {r}
             T == {req[q].s : q \in R}
  <2>1. u = v
    BY <1>6, <1>7, <1>8, <1>10
  <2>2. \A q \in R : q \in Requests /\ req'[q] = req[q]
    BY <1>7, <1>8
  <2>3. R \subseteq Requests \ {r}
    BY <1>8
  <2>4. IsFiniteSet(R) /\ Cardinality(R) <= Cardinality(Requests) - 1
    <3>1. IsFiniteSet(Requests \ {r}) /\ Cardinality(Requests \ {r}) = Cardinality(Requests) - 1
      BY LimitType, FS_RemoveElement
    <3> HIDE DEF R
    <3> QED BY <2>3, <3>1, FS_Subset
  <2> HIDE DEF R
  <2>5. IsFiniteSet(T) /\ Cardinality(T) <= Cardinality(R)
    <3> DEFINE f == [q \in R |-> req[q].s]
    <3>1. f \in Surjection(R, T)
      BY DEF Surjection
    <3> HIDE DEF f, T
    <3> QED BY <2>4, <3>1, FS_Surjection
  <2>6. After(u, P)' \subseteq K \cup T
    <3>1. ASSUME NEW s, s \in After(u, P)'
          PROVE  s \in K \cup T
      <4>1. s \in DOMAIN sessions
        BY <1>1, <3>1 DEF After
      <4>2. CASE s \in ListUserSessions(u)' /\ \A q \in P : s \notin req'[q].ends
        <5>1. s \in ListUserSessions(v)
          BY <1>1, <2>1, <4>2 DEF ListUserSessions
        <5>2. s \notin ends
          BY <1>6, <1>7, <1>10, <4>2
        <5> QED BY <1>5, <4>1, <5>1, <5>2
      <4>3. ASSUME NEW q \in P, s = req'[q].s, s \notin req'[q].ends
            PROVE  s \in K \cup T
        <5>1. CASE q = r
          <6>1. s = own /\ s \notin ends
            BY <1>6, <1>7, <4>3, <5>1
          <6> QED BY <1>5, <4>1, <6>1
        <5>2. CASE q # r
          <6>1. q \in R
            BY <5>2 DEF R
          <6> QED BY <2>2, <4>3, <6>1
        <5> QED BY <5>1, <5>2
      <4> QED BY <3>1, <4>2, <4>3 DEF After
    <3> QED BY <3>1
  <2> HIDE DEF T
  <2>7. IsFiniteSet(K \cup T) /\ Cardinality(K \cup T) <= Cardinality(K) + Cardinality(T)
    <3>1. /\ IsFiniteSet(K \cup T)
          /\ Cardinality(K \cup T) = Cardinality(K) + Cardinality(T) - Cardinality(K \cap T)
      BY <1>4, <2>5, FS_Union
    <3>2. IsFiniteSet(K \cap T)
      BY <1>4, FS_Subset
    <3>3. Cardinality(K) \in Nat /\ Cardinality(T) \in Nat /\ Cardinality(K \cap T) \in Nat
      BY <1>4, <2>5, <3>2, FS_CardinalityType
    <3> DEFINE ck == Cardinality(K)
               ct == Cardinality(T)
               ci == Cardinality(K \cap T)
    <3>4. \A a, b, c \in Nat : a + b - c <= a + b
      OBVIOUS
    <3>5. ck + ct - ci <= ck + ct
      BY <3>3, <3>4
    <3> QED BY <3>1, <3>5
  <2>8. Cardinality(K \cup T) <= Limit
    <3> DEFINE cu == Cardinality(K \cup T)
               ck == Cardinality(K)
               ct == Cardinality(T)
               cr == Cardinality(R)
               n == Cardinality(Requests)
    <3>1. cu \in Nat /\ ck \in Nat /\ ct \in Nat /\ cr \in Nat /\ n \in Nat /\ DevicesMax \in Nat
      BY <1>4, <2>4, <2>5, <2>7, LimitType, FS_CardinalityType
    <3>2. cu <= ck + ct /\ ct <= cr /\ cr <= n - 1 /\ ck <= DevicesMax
      BY <1>4, <2>4, <2>5, <2>7
    <3> HIDE DEF cu, ck, ct, cr, n
    <3>3. cu <= DevicesMax + n - 1
      BY <3>1, <3>2
    <3> QED BY <3>3 DEF cu, n, Limit
  <2> QED BY <2>6, <2>7, <2>8, LimitType, WithinLimit
<1> QED BY <1>9, <1>10

\* Every step keeps to the limit on devices.
LEMMA DevicesStep ==
  ASSUME Inv, Good
  PROVE  Devices'
<1>1. ASSUME NEW u \in Nat, NEW P \in SUBSET (Committing(u)')
      PROVE  Cardinality(After(u, P)') <= Limit
  BY CalmDevices, CommitDevices, PickDevices DEF Good, Effect
<1> QED BY <1>1 DEF Devices, Limit

-----------------------------------------------------------------------------
(* The codes, the bucket and the sockets.                                  *)

\* One code of an address is replaced by another guarded one.
LEMMA OneCode ==
  ASSUME codes \in [Addresses -> Seq(Guarded)], NEW e \in Addresses, NEW i, NEW row,
         i \in DOMAIN codes[e] => row \in Guarded,
         codes' = [codes EXCEPT ![e] = [codes[e] EXCEPT ![i] = row]]
  PROVE  codes' \in [Addresses -> Seq(Guarded)]
BY CodesChange

\* No step leaves a code of which more guesses were looked at than allowed.
LEMMA CodesStep ==
  ASSUME Inv, [Next]_vars
  PROVE  codes' \in [Addresses -> Seq(Guarded)]
<1>0. codes \in [Addresses -> Seq(Guarded)]
  BY DEF Inv
<1>1. ASSUME NEW e \in Addresses, NEW i \in DOMAIN codes[e]
      PROVE  codes[e][i] \in Guarded
  BY <1>0, <1>1
<1>2. ASSUME NEW e \in Addresses, Start(e)
      PROVE  codes' \in [Addresses -> Seq(Guarded)]
  <2> DEFINE new == [attempts |-> 0, used |-> FALSE, expired |-> FALSE, compared |-> 0]
  <2>1. new \in Guarded
    BY SignInAssumption DEF Guarded, CodeRow, SignInAssumption
  <2>2. codes' = [codes EXCEPT ![e] = Append(codes[e], new)]
    BY <1>2 DEF Start, CreateSignInCode
  <2> HIDE DEF new
  <2> QED BY <1>0, <2>1, <2>2, CodesChange
<1>3. ASSUME NEW e \in Addresses, CodeExpires(e)
      PROVE  codes' \in [Addresses -> Seq(Guarded)]
  <2>1. PICK i \in DOMAIN codes[e] : codes' = [codes EXCEPT ![e][i].expired = TRUE]
    BY <1>3 DEF CodeExpires
  <2> DEFINE row == [codes[e][i] EXCEPT !.expired = TRUE]
  <2>2. codes' = [codes EXCEPT ![e] = [codes[e] EXCEPT ![i] = row]]
    BY <2>1, Zenon
  <2>3. codes[e][i] \in Guarded
    BY <1>1, <2>1
  <2>4. row \in Guarded
    BY <2>3, MarkedGuarded
  <2> HIDE DEF row
  <2> QED BY <1>0, <2>2, <2>4, OneCode
<1>4. ASSUME NEW r \in Requests, CountSignInAttempt(r)
      PROVE  codes' \in [Addresses -> Seq(Guarded)]
  <2> DEFINE e == req[r].e
             i == req[r].code
             row == Counted(codes[e][i])
  <2>1. e \in Addresses
    BY <1>4, RequestKind DEF Inv, CountSignInAttempt, At
  <2>2. codes' = [codes EXCEPT ![e][i] = Counted(@)]
    BY <1>4 DEF CountSignInAttempt
  <2>3. codes' = [codes EXCEPT ![e] = [codes[e] EXCEPT ![i] = row]]
    BY <2>2, Zenon
  <2>4. i \in DOMAIN codes[e] => row \in Guarded
    BY <1>1, <2>1, CountedGuarded
  <2> HIDE DEF e, i, row
  <2> QED BY <1>0, <2>1, <2>3, <2>4, OneCode
<1>5. ASSUME NEW r \in Requests, CommitSignIn(r)
      PROVE  codes' \in [Addresses -> Seq(Guarded)]
  <2> DEFINE e == req[r].e
             i == req[r].code
             row == [codes[e][i] EXCEPT !.used = TRUE]
  <2>1. e \in Addresses
    BY <1>5, RequestKind DEF Inv, CommitSignIn, At
  <2>2. UNCHANGED codes \/ codes' = [codes EXCEPT ![e][i].used = TRUE]
    BY <1>5 DEF CommitSignIn
  <2>3. CASE codes' = [codes EXCEPT ![e][i].used = TRUE]
    <3>1. codes' = [codes EXCEPT ![e] = [codes[e] EXCEPT ![i] = row]]
      BY <2>3, Zenon
    <3>2. i \in DOMAIN codes[e] => row \in Guarded
      BY <1>1, <2>1, MarkedGuarded
    <3> HIDE DEF e, i, row
    <3> QED BY <1>0, <2>1, <3>1, <3>2, OneCode
  <2> QED BY <1>0, <2>2, <2>3
<1>6. CASE UNCHANGED codes
  BY <1>0, <1>6
<1>7. CASE SignInNext /\ UNCHANGED noticeVars
  <2>1. ASSUME NEW e \in Addresses, Refill(e)
        PROVE  UNCHANGED codes
    BY <2>1 DEF Refill
  <2>2. ASSUME NEW r \in Requests, BeginSignIn(r) \/ HoldToDevices(r) \/ RegisterTx(r)
        PROVE  UNCHANGED codes
    BY <2>2 DEF BeginSignIn, HoldToDevices, RegisterTx
  <2>3. ASSUME NEW s, \/ TouchSession(s) \/ SessionExpires(s) \/ SignOutOthers(s) \/ Logout(s) \/ CloseAccount(s)
                      \/ \E other \in DOMAIN sessions : SignOutDevice(s, other)
                      \/ \E r \in Requests, k \in PushTokens : RegisterPush(r, s, k)
        PROVE  UNCHANGED codes
    BY <2>3 DEF TouchSession, SessionExpires, SignOutOthers, Logout, CloseAccount, SignOutDevice, RegisterPush, rows
  <2>4. ASSUME NEW r, NEW e, NEW guess, Verify(r, e, guess)
        PROVE  UNCHANGED codes
    BY <2>4 DEF Verify, rows
  <2> QED BY <1>2, <1>3, <1>4, <1>5, <1>6, <1>7, <2>1, <2>2, <2>3, <2>4 DEF SignInNext
<1>8. CASE ~SignInNext
  BY <1>6, <1>8 DEF Next, vars, signInVars, rows, Beat, CloseSocket, ClearPresence, Connect, Kill,
                    PresenceExpires, Quieten, FindDevices, Notify, MessageLanded
<1>9. SignInNext => (SignInNext /\ UNCHANGED noticeVars) \/ UNCHANGED codes
  BY DEF Next, vars, signInVars, rows, Beat, CloseSocket, ClearPresence, Connect, Kill,
         PresenceExpires, Quieten, FindDevices, Notify, MessageLanded
<1> QED BY <1>6, <1>7, <1>8, <1>9

\* The bucket stays within its brim, and no more calls are made than there are.
LEMMA BucketStep ==
  ASSUME TypeOK, [Next]_vars
  PROVE  bucket' \in [Addresses -> 0..Burst] /\ left' \in 0..MaxCalls
<1>0. bucket \in [Addresses -> 0..Burst] /\ left \in 0..MaxCalls /\ Burst \in Nat /\ MaxCalls \in Nat
  BY SignInAssumption DEF TypeOK, SignInAssumption
<1>1. ASSUME NEW op, Calls(op)
      PROVE  left' \in 0..MaxCalls
  BY <1>0, <1>1 DEF Calls
<1>2. left' \in 0..MaxCalls
  <2>1. UNCHANGED left \/ \E op : Calls(op)
    BY DEF Next, SignInNext, vars, signInVars, rows, At, Start, Refill, CodeExpires, Verify, CountSignInAttempt,
           BeginSignIn, HoldToDevices, CommitSignIn, RegisterTx, TouchSession, SessionExpires, SignOutOthers,
           Logout, CloseAccount, SignOutDevice, RegisterPush, Beat, CloseSocket, ClearPresence, Connect, Kill,
           PresenceExpires, Quieten, FindDevices, Notify, MessageLanded
  <2> QED BY <1>0, <1>1, <2>1
<1>3. ASSUME NEW e \in Addresses, Start(e) \/ Refill(e)
      PROVE  bucket' \in [Addresses -> 0..Burst]
  <2>1. bucket[e] \in 0..Burst
    BY <1>0
  <2>2. PICK n \in 0..Burst : bucket' = [bucket EXCEPT ![e] = n]
    BY <1>0, <1>3, <2>1 DEF Start, Refill, Allow
  <2> QED BY <1>0, <2>2
<1>4. UNCHANGED bucket \/ \E e \in Addresses : Start(e) \/ Refill(e)
  BY DEF Next, SignInNext, vars, signInVars, rows, CodeExpires, Verify, CountSignInAttempt,
         BeginSignIn, HoldToDevices, CommitSignIn, RegisterTx, TouchSession, SessionExpires, SignOutOthers,
         Logout, CloseAccount, SignOutDevice, RegisterPush, Beat, CloseSocket, ClearPresence, Connect, Kill,
         PresenceExpires, Quieten, FindDevices, Notify, MessageLanded
<1> QED BY <1>0, <1>2, <1>3, <1>4

Holding == /\ holder \in [Sockets -> DOMAIN accounts \cup {NoUser}]
           /\ leaving \in SUBSET Sockets
           /\ present \subseteq DOMAIN accounts /\ quiet \subseteq DOMAIN accounts

\* Sockets and keys belong to accounts there are.
LEMMA HoldingStep ==
  ASSUME Holding, Grown, [Next]_vars
  PROVE  Holding'
<1>0. DOMAIN accounts \subseteq DOMAIN accounts'
  BY DEF Grown
<1>1. ASSUME UNCHANGED noticeVars
      PROVE  Holding'
  BY <1>0, <1>1 DEF Holding, noticeVars
<1>2. ASSUME NEW c \in Sockets, Beat(c) \/ CloseSocket(c) \/ ClearPresence(c)
      PROVE  Holding'
  BY <1>0, <1>2 DEF Holding, Beat, CloseSocket, ClearPresence, Arrived, Left
<1>3. ASSUME NEW c \in Sockets, NEW s, Connect(c, s)
      PROVE  Holding'
  <2>1. sessions[s].user \in DOMAIN accounts
    BY <1>3 DEF Connect, AuthenticateSession, GetUser
  <2> QED BY <1>0, <1>3, <2>1 DEF Holding, Connect, Arrived
<1>4. ASSUME NEW p, Kill(p)
      PROVE  Holding'
  BY <1>0, <1>4 DEF Holding, Kill
<1>5. ASSUME NEW u \in DOMAIN accounts, PresenceExpires(u) \/ Quieten(u)
      PROVE  Holding'
  BY <1>0, <1>5 DEF Holding, PresenceExpires, Quieten, Left
<1>6. ASSUME NEW r \in Requests, FindDevices(r) \/ Notify(r) \/ \E u \in DOMAIN accounts : MessageLanded(r, u)
      PROVE  UNCHANGED noticeVars
  BY <1>6 DEF FindDevices, Notify, MessageLanded, noticeVars
<1>7. UNCHANGED vars => UNCHANGED noticeVars
  BY DEF vars
<1> QED BY <1>1, <1>2, <1>3, <1>4, <1>5, <1>6, <1>7 DEF Next

-----------------------------------------------------------------------------
(* The theorems.                                                           *)

\* Guarded codes are codes.
LEMMA GuardedRows == Seq(Guarded) \subseteq Seq(CodeRow)
BY DEF Guarded

\* At the start there is nobody.
LEMMA InitInv ==
  ASSUME Init
  PROVE  Inv
<1>1. TypeOK
  <2>1. Tables
    BY DEF Init, SignInInit, Tables, ToSet
  <2>2. bucket \in [Addresses -> 0..Burst] /\ left \in 0..MaxCalls /\ codes \in [Addresses -> Seq(CodeRow)]
    BY SignInAssumption DEF Init, SignInInit, SignInAssumption
  <2>3. req \in [Requests -> SignInRequest \cup NoticeRequest \cup {Idle}]
    BY DEF Init, SignInInit
  <2>4. Holding
    BY DEF Init, SignInInit, Holding
  <2> QED BY <2>1, <2>2, <2>3, <2>4 DEF TypeOK, Tables, Holding
<1>2. codes \in [Addresses -> Seq(Guarded)]
  BY DEF Init, SignInInit
<1>3. Owned /\ Pending /\ Alone(sessions)
  BY DEF Init, SignInInit, Owned, Pending, Alone
<1>4. Devices
  <2>1. ASSUME NEW u \in Nat, NEW P \in SUBSET Committing(u)
        PROVE  Cardinality(After(u, P)) <= Limit
    <3>1. After(u, P) = {}
      BY DEF Init, SignInInit, After
    <3>2. Cardinality(After(u, P)) = 0
      BY <3>1, FS_EmptySet
    <3> QED BY <3>2, LimitType
  <2> QED BY <2>1 DEF Devices, Limit
<1> QED BY <1>1, <1>2, <1>3, <1>4 DEF Inv

\* Every step preserves the invariant.
LEMMA InvStep ==
  ASSUME Inv, [Next]_vars
  PROVE  Inv'
<1>1. Good
  BY StepGood
<1>2. Devices'
  BY <1>1, DevicesStep
<1>3. codes' \in [Addresses -> Seq(Guarded)]
  BY CodesStep
<1>4. codes' \in [Addresses -> Seq(CodeRow)]
  BY <1>3, GuardedRows
<1>5. bucket' \in [Addresses -> 0..Burst] /\ left' \in 0..MaxCalls
  BY BucketStep DEF Inv
<1>6. Holding'
  BY <1>1, HoldingStep DEF Inv, TypeOK, Holding, Good
<1>7. TypeOK'
  BY <1>1, <1>4, <1>5, <1>6 DEF TypeOK, Good, Tables, ReqOK, Holding
<1> QED BY <1>1, <1>2, <1>3, <1>7 DEF Inv, Good

\* The inductive invariant always holds.
THEOREM AlwaysInv == Spec => []Inv
<1>1. Init => Inv
  BY InitInv
<1>2. Inv /\ [Next]_vars => Inv'
  BY InvStep
<1> QED BY <1>1, <1>2, PTL DEF Spec

\* Every variable of the two modules keeps its type, whatever handlers overlap.
THEOREM TypeCorrect == Spec => []TypeOK
<1>1. Inv => TypeOK
  BY DEF Inv
<1> QED BY <1>1, AlwaysInv, PTL

\* However many guesses at a code run at once, CodeAttemptsMax are looked at:
\* Verify counts the attempt and reads the count back in one statement.
THEOREM GuessesAreBounded == Spec => []GuessesBounded
<1>1. Inv => GuessesBounded
  <2> SUFFICES ASSUME Inv, NEW e \in Addresses, NEW i \in DOMAIN codes[e]
               PROVE  codes[e][i].compared <= CodeAttemptsMax
    BY DEF GuessesBounded
  <2>1. codes[e] \in Seq(Guarded)
    BY DEF Inv
  <2>2. codes[e][i] \in Guarded
    BY <2>1
  <2> QED BY <2>2 DEF Guarded
<1> QED BY <1>1, AlwaysInv, PTL

\* An open account has exactly one address and an address leads to an open
\* account, whatever first sign-ins and closings overlap.
THEOREM OneAccountEach == Spec => []OneAccountPerAddress
<1>1. Inv => OneAccountPerAddress
  <2> SUFFICES ASSUME Inv PROVE OneAccountPerAddress
    OBVIOUS
  <2>1. NoUser \notin Nat /\ DOMAIN accounts \subseteq Nat
    BY SignInAssumption DEF SignInAssumption, Inv, TypeOK
  <2> QED BY <2>1 DEF Inv, Owned, OneAccountPerAddress
<1> QED BY <1>1, AlwaysInv, PTL

\* A person's devices pass the limit by no more than the other sign-ins that
\* can run at once: for any number of handlers and any limit.
THEOREM DevicesAreHeld == Spec => []DevicesHeld
<1>1. Inv => DevicesHeld
  <2> SUFFICES ASSUME Inv, NEW u \in DOMAIN accounts
               PROVE  Cardinality(ListUserSessions(u)) <= DevicesMax + Cardinality(Requests) - 1
    BY DEF DevicesHeld
  <2>1. u \in Nat
    BY DEF Inv, TypeOK
  <2>2. After(u, {}) = ListUserSessions(u)
    BY DEF After, ListUserSessions
  <2>3. {} \in SUBSET Committing(u)
    OBVIOUS
  <2> QED BY <2>1, <2>2, <2>3 DEF Inv, Devices
<1> QED BY <1>1, AlwaysInv, PTL

\* A phone that is told of a message had not been signed out when the message
\* landed, and is nobody else's: for any number of people, devices and
\* handlers, and whatever they do between the landing and the look.
THEOREM BuzzesOwners == Spec => []BuzzesItsOwn
<1>1. Inv => BuzzesItsOwn
  <2> SUFFICES ASSUME Inv, NEW r \in Requests, req[r] # Idle, req[r].at = "send", NEW p \in req[r].to
               PROVE  /\ p.s \notin req[r].over
                      /\ sessions[p.s].push = p.k => \A x \in DOMAIN sessions \ {p.s} : sessions[x].push # p.k
    BY DEF BuzzesItsOwn
  <2>1. p \in Target /\ p.s \in DOMAIN sessions /\ p.s \notin req[r].over
    BY RequestKind DEF Inv, Sound
  <2>2. p.k \in PushTokens
    BY <2>1 DEF Target
  <2> QED BY <2>1, <2>2 DEF Inv, Alone
<1> QED BY <1>1, AlwaysInv, PTL
=============================================================================
