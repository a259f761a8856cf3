--------------------------- MODULE HistoryProofs ----------------------------
(***************************************************************************)
(* Storage and History for every number of messages, files, handlers,      *)
(* sweeps and readers: a file that has a row has its bytes, a whole        *)
(* message keeps its words, nothing comes back into sight, and a walk      *)
(* through the history misses nothing it is not told of.                   *)
(***************************************************************************)
EXTENDS History, FiniteSetTheorems, WellFoundedInduction, TLAPS

-----------------------------------------------------------------------------
\* The order of the numbers is well founded; as a relation that the provers
\* need not look into.
LEMMA NumbersWellFounded ==
  \E R : IsWellFoundedOn(R, Nat) /\ \A x, y \in Nat : <<x, y>> \notin R => y <= x
<1>1. ASSUME NEW x \in Nat, NEW y \in Nat, x < y
      PROVE  <<x, y>> \in OpToRel(<, Nat)
  <2>1. <<x, y>> \in Nat \X Nat /\ <<x, y>>[1] = x /\ <<x, y>>[2] = y
    OBVIOUS
  <2> QED BY <1>1, <2>1, Zenon DEF OpToRel
<1>2. \A x, y \in Nat : ~(x < y) => y <= x
  OBVIOUS
<1> QED BY <1>1, <1>2, NatLessThanWellFounded, Zenon

\* A set of numbers that is not empty has a least element.
LEMMA Least ==
  ASSUME NEW S \in SUBSET Nat, S # {}
  PROVE  \E m \in S : \A k \in S : m <= k
<1>1. PICK R : IsWellFoundedOn(R, Nat) /\ \A x, y \in Nat : <<x, y>> \notin R => y <= x
  BY NumbersWellFounded
<1>2. PICK m \in S : \A k \in S : ~(<<k, m>> \in R)
  BY <1>1, WFMin, Zenon
<1> QED BY <1>1, <1>2, Zenon

\* A set of numbers that is bounded and not empty has a greatest element.
LEMMA Greatest ==
  ASSUME NEW S \in SUBSET Nat, S # {}, NEW n \in Nat, \A m \in S : m <= n
  PROVE  \E m \in S : \A k \in S : k <= m
<1> DEFINE U == {b \in Nat : \A m \in S : m <= b}
<1>1. U \subseteq Nat /\ U # {}
  OBVIOUS
<1>4. PICK b \in U : \A c \in U : b <= c
  BY <1>1, Least
<1>5. b \in S
  <2> SUFFICES ASSUME b \notin S PROVE FALSE
    OBVIOUS
  <2>1. PICK m \in S : TRUE
    OBVIOUS
  <2>2. m < b /\ b - 1 \in Nat
    BY <2>1
  <2>3. b - 1 \in U
    BY <2>2
  <2> QED BY <1>4, <2>3
<1> QED BY <1>5

\* NewestOf is the greatest of a bounded set, and 0 of none.
LEMMA NewestIsLast ==
  ASSUME NEW S \in SUBSET Msgs, NEW n \in Nat, \A m \in S : m <= n
  PROVE  /\ NewestOf(S) \in S \cup {0}
         /\ \A m \in S : m <= NewestOf(S)
<1>0. S \in SUBSET Nat
  BY StorageAssumption DEF StorageAssumption
<1>1. CASE S = {}
  BY <1>1 DEF NewestOf
<1>2. CASE S # {}
  <2>1. \E m \in S : \A k \in S : k <= m
    BY <1>0, <1>2, Greatest
  <2> QED BY <1>2, <2>1 DEF NewestOf
<1> QED BY <1>1, <1>2

\* The two updates of a message's row, field by field.
LEMMA RowUpdates ==
  ASSUME NEW row \in MessageRow, NEW w \in BOOLEAN
  PROVE  /\ Finished(row) \in MessageRow /\ Chosen(row, w) \in MessageRow
         /\ Finished(row).st = row.st /\ Chosen(row, w).st = row.st
         /\ Finished(row).from = row.from /\ Chosen(row, w).from = row.from
         /\ Finished(row).born = row.born /\ Chosen(row, w).born = row.born
         /\ Finished(row).status = "complete" /\ Chosen(row, w).status = row.status
         /\ Chosen(row, w).words = w
<1>1. Finished(row) \in MessageRow /\ Chosen(row, w) \in MessageRow
  BY Zenon DEF Finished, Chosen, MessageRow
<1>2. Finished(row).st = row.st /\ Chosen(row, w).st = row.st
  BY Zenon DEF Finished, Chosen, MessageRow
<1>3. Finished(row).from = row.from /\ Chosen(row, w).from = row.from
  BY Zenon DEF Finished, Chosen, MessageRow
<1>4. Finished(row).born = row.born /\ Chosen(row, w).born = row.born
  BY Zenon DEF Finished, Chosen, MessageRow
<1>5. Finished(row).status = "complete" /\ Chosen(row, w).status = row.status
  BY Zenon DEF Finished, Chosen, MessageRow
<1>6. Chosen(row, w).words = w
  BY Zenon DEF Finished, Chosen, MessageRow
<1> QED BY <1>1, <1>2, <1>3, <1>4, <1>5, <1>6

-----------------------------------------------------------------------------
(* Pages.                                                                  *)

\* A stored message has an id that was given.
IdsGiven == \A m \in Msgs : msg[m].st # "none" => m <= given

\* What a reader has before it.
Ahead(x) == {m \in Msgs : Sees(x.who, m) /\ Beyond(x, m)}

\* What a walk has ahead of it is finite.
LEMMA AheadFinite ==
  ASSUME given \in Nat, IdsGiven, NEW x
  PROVE  Ahead(x) \in SUBSET Nat /\ IsFiniteSet(Ahead(x)) /\ \A m \in Ahead(x) : m <= given
<1>1. Ahead(x) \in SUBSET Nat /\ \A m \in Ahead(x) : m <= given
  BY StorageAssumption DEF StorageAssumption, IdsGiven, Ahead, Sees, Visible, Stored
<1> QED BY <1>1, FS_BoundedSetOfNaturals

\* Messages have a nearest and a farthest, whichever way the reader goes.
LEMMA Ends ==
  ASSUME given \in Nat, NEW x, x.back \in BOOLEAN, NEW S \in SUBSET Nat, S # {}, \A m \in S : m <= given
  PROVE  /\ \E m \in S : \A n \in S : n = m \/ Nearer(x, m, n)
         /\ \E m \in S : \A n \in S : n = m \/ Nearer(x, n, m)
<1>1. PICK a \in S : \A n \in S : a <= n
  BY Least
<1>2. PICK b \in S : \A n \in S : n <= b
  BY Greatest
<1>3. \A n \in S : (n = a \/ a < n) /\ (n = b \/ b > n)
  BY <1>1, <1>2
<1> QED BY <1>1, <1>2, <1>3 DEF Nearer

\* Going either way is going along an order.
LEMMA NearerOrder ==
  ASSUME NEW x, x.back \in BOOLEAN
  PROVE  /\ \A m \in Nat : ~Nearer(x, m, m)
         /\ \A m, n \in Nat : m = n \/ Nearer(x, m, n) \/ Nearer(x, n, m)
         /\ \A k, m, n \in Nat : Nearer(x, k, m) /\ Nearer(x, m, n) => Nearer(x, k, n)
BY DEF Nearer

\* A reader's walk, at its beginning and after a page, field by field.
LEMMA WalkFields ==
  /\ \A who \in {"user", "agent"}, back \in BOOLEAN, cursor \in Msgs \cup {0} :
        /\ NewWalk(who, back, cursor) \in Walk
        /\ NewWalk(who, back, cursor).seen = {} /\ ~NewWalk(who, back, cursor).done
        /\ NewWalk(who, back, cursor).who = who
        /\ NewWalk(who, back, cursor).start = Ahead(NewWalk(who, back, cursor))
  /\ \A p : \A x \in Walk :
        /\ Turned(x, p).who = x.who /\ Turned(x, p).back = x.back /\ Turned(x, p).start = x.start
        /\ Turned(x, p).seen = x.seen \cup p.page
        /\ Turned(x, p).trimmed = Trimmed(x.who) /\ Turned(x, p).done = ~p.more
        /\ Turned(x, p).cursor = IF p.more THEN p.last ELSE x.cursor
<1>1. ASSUME NEW who \in {"user", "agent"}, NEW back \in BOOLEAN, NEW cursor \in Msgs \cup {0}
      PROVE  /\ NewWalk(who, back, cursor) \in Walk
             /\ NewWalk(who, back, cursor).seen = {} /\ ~NewWalk(who, back, cursor).done
             /\ NewWalk(who, back, cursor).who = who
             /\ NewWalk(who, back, cursor).start = Ahead(NewWalk(who, back, cursor))
  BY DEF NewWalk, Walk, Ahead, Beyond
<1>2. ASSUME NEW x \in Walk, NEW p
      PROVE  /\ Turned(x, p).who = x.who /\ Turned(x, p).back = x.back /\ Turned(x, p).start = x.start
             /\ Turned(x, p).seen = x.seen \cup p.page
             /\ Turned(x, p).trimmed = Trimmed(x.who) /\ Turned(x, p).done = ~p.more
             /\ Turned(x, p).cursor = IF p.more THEN p.last ELSE x.cursor
  <2>1. Turned(x, p).who = x.who
    BY Zenon DEF Turned, Walk
  <2>2. Turned(x, p).back = x.back
    BY Zenon DEF Turned, Walk
  <2>3. Turned(x, p).start = x.start
    BY Zenon DEF Turned, Walk
  <2>4. Turned(x, p).seen = x.seen \cup p.page
    BY Zenon DEF Turned, Walk
  <2>5. Turned(x, p).trimmed = Trimmed(x.who)
    BY Zenon DEF Turned, Walk
  <2>6. Turned(x, p).done = ~p.more
    BY Zenon DEF Turned, Walk
  <2>7. Turned(x, p).cursor = IF p.more THEN p.last ELSE x.cursor
    BY Zenon DEF Turned, Walk
  <2> QED BY <2>1, <2>2, <2>3, <2>4, <2>5, <2>6, <2>7
<1> QED BY <1>1, <1>2

\* A turned page leaves a walk of the right type.
LEMMA TurnedType ==
  ASSUME NEW x \in Walk, NEW p, p.page \in SUBSET Msgs, p.more => p.last \in Msgs
  PROVE  Turned(x, p) \in Walk
<1>1. /\ x.seen \cup p.page \in SUBSET Msgs /\ Trimmed(x.who) \in BOOLEAN /\ (~p.more) \in BOOLEAN
      /\ (IF p.more THEN p.last ELSE x.cursor) \in Msgs \cup {0}
  BY DEF Walk, Trimmed
<1>2. ASSUME NEW a \in SUBSET Msgs, NEW b \in BOOLEAN, NEW c \in BOOLEAN, NEW d \in Msgs \cup {0}
      PROVE  [x EXCEPT !.seen = a, !.trimmed = b, !.done = c, !.cursor = d] \in Walk
  BY Zenon DEF Walk
<1> QED BY <1>1, <1>2, Zenon DEF Turned

\* A page that is not followed by another one is all that was ahead; otherwise
\* what it leaves is beyond its last message.
LEMMA Paging ==
  ASSUME given \in Nat, IdsGiven, NEW x, x.back \in BOOLEAN
  PROVE  LET p == pageOf(x)
         IN  /\ p.page \subseteq Ahead(x)
             /\ ~p.more => p.page = Ahead(x)
             /\ p.more => p.last \in p.page /\ \A m \in Ahead(x) \ p.page : Nearer(x, p.last, m)
             /\ p.more \in BOOLEAN
<1> DEFINE all == Ahead(x)
           page == Rows(x, PageSize)
           next == Rows(x, PageSize + 1)
           N(m) == {n \in all : Nearer(x, n, m)}
           C(m) == Cardinality(N(m))
<1>0. PageSize \in Nat \ {0}
  BY HistoryAssumption DEF HistoryAssumption
<1>o. /\ \A m \in Nat : ~Nearer(x, m, m)
      /\ \A m, n \in Nat : m = n \/ Nearer(x, m, n) \/ Nearer(x, n, m)
      /\ \A k, m, n \in Nat : Nearer(x, k, m) /\ Nearer(x, m, n) => Nearer(x, k, n)
  BY NearerOrder
<1>1. all \in SUBSET Nat /\ IsFiniteSet(all) /\ (\A m \in all : m <= given) /\ \A m \in all : m \in Nat
  BY AheadFinite
<1>2. /\ page = {m \in all : C(m) < PageSize}
      /\ next = {m \in all : C(m) < PageSize + 1}
  BY DEF Rows, Ahead
<1>3. \A m \in all : IsFiniteSet(N(m)) /\ C(m) \in Nat
  BY <1>1, FS_Subset, FS_CardinalityType
<1> HIDE DEF all, page, next, C
<1>4. ASSUME NEW m \in all, NEW n \in all, Nearer(x, m, n)
      PROVE  C(m) <= C(n)
  <2>1. N(m) \in SUBSET N(n)
    BY <1>1, <1>4, <1>o
  <2> QED BY <1>3, <2>1, FS_Subset DEF C
<1>5. ASSUME NEW m \in all \ page, NEW p \in page
      PROVE  Nearer(x, p, m)
  <2>1. p \in all /\ C(p) < PageSize /\ ~(C(m) < PageSize)
    BY <1>2, <1>5
  <2> HIDE DEF N
  <2>2. ~Nearer(x, m, p)
    BY <1>0, <1>3, <1>4, <2>1
  <2> QED BY <1>1, <1>5, <2>1, <2>2, <1>o
<1>6. ASSUME all # {}
      PROVE  page # {}
  <2>1. PICK m \in all : \A n \in all : n = m \/ Nearer(x, m, n)
    BY <1>1, <1>6, Ends
  <2>2. N(m) = {}
    BY <1>1, <2>1, <1>o
  <2>3. C(m) = 0
    BY <2>2, FS_EmptySet DEF C
  <2> QED BY <1>0, <1>2, <2>3
<1>7. ASSUME page # {}
      PROVE  /\ LastOf(x, page) \in page
             /\ \A n \in page : n = LastOf(x, page) \/ Nearer(x, n, LastOf(x, page))
  <2>1. page \in SUBSET Nat /\ \A m \in page : m <= given
    BY <1>1, <1>2
  <2>2. \E m \in page : \A n \in page : n = m \/ Nearer(x, n, m)
    BY <1>7, <2>1, Ends
  <2> QED BY <1>7, <2>2 DEF LastOf
<1>8. ASSUME all # page
      PROVE  next # page
  <2> DEFINE rest == all \ page
  <2>1. rest # {} /\ rest \in SUBSET Nat /\ page # {} /\ \A m \in rest : m <= given
    BY <1>1, <1>2, <1>6, <1>8
  <2>2. PICK m \in rest : \A n \in rest : n = m \/ Nearer(x, m, n)
    <3> HIDE DEF rest
    <3> QED BY <2>1, Ends
  <2>3. N(m) \subseteq page
    BY <1>1, <2>2, <1>o
  <2> DEFINE p == LastOf(x, page)
  <2>4. p \in page /\ p \in all /\ C(p) < PageSize
    BY <1>2, <1>7, <2>1
  <2>5. page \subseteq N(p) \cup {p}
    BY <1>2, <1>7, <2>1
  <2> DEFINE T == N(p) \cup {p}
  <2>6. IsFiniteSet(T) /\ Cardinality(T) \in Nat /\ Cardinality(T) <= C(p) + 1
    <3>1. IsFiniteSet(N(p)) /\ C(p) \in Nat
      BY <1>3, <2>4
    <3>2. p \notin N(p)
      BY <1>1, <2>4, <1>o
    <3>3. IsFiniteSet(T) /\ Cardinality(T) = C(p) + 1
      <4> HIDE DEF N, p
      <4> QED BY <3>1, <3>2, FS_AddElement DEF C
    <3> HIDE DEF p, T
    <3> QED BY <3>1, <3>3
  <2>7. C(m) <= Cardinality(T)
    <3>1. N(m) \in SUBSET T
      BY <2>3, <2>5
    <3> HIDE DEF N, T
    <3> QED BY <2>6, <3>1, FS_Subset DEF C
  <2>8. C(m) < PageSize + 1
    <3>1. C(m) \in Nat /\ C(p) \in Nat
      BY <1>3, <2>2, <2>4
    <3> HIDE DEF p, T
    <3> QED BY <1>0, <2>4, <2>6, <2>7, <3>1
  <2> QED BY <1>2, <2>2, <2>8
<1>9. page \subseteq next /\ next \subseteq all
  <2> HIDE DEF N
  <2>1. \A m \in all : C(m) < PageSize => C(m) < PageSize + 1
    BY <1>0, <1>3
  <2> QED BY <1>2, <2>1
<1>10. /\ pageOf(x).page = page /\ pageOf(x).more = (next # page)
       /\ pageOf(x).last = LastOf(x, page)
  BY DEF pageOf, page, next
<1>11. next # page => page # {}
  BY <1>6, <1>9
<1>12. next = page => page = all
  BY <1>8
<1>13. next # page => LastOf(x, page) \in page /\ \A m \in all \ page : Nearer(x, LastOf(x, page), m)
  BY <1>5, <1>7, <1>11
<1>14. page \subseteq all
  BY <1>9
<1> QED BY <1>10, <1>12, <1>13, <1>14 DEF all

-----------------------------------------------------------------------------
(* Types.                                                                  *)

\* What a row of a message or a file, or a request, is.
LEMMA RowTypes ==
  ASSUME TypeOK
  PROVE  /\ \A m \in Msgs : msg[m] \in MessageRow
         /\ \A f \in Media : media[f] \in MediumRow
         /\ \A r \in Requests : req[r] # Idle => req[r] \in Request
BY DEF TypeOK, StorageTypeOK

\* The fields a request has where it is.
LEMMA RequestFields ==
  ASSUME NEW x \in Request
  PROVE  /\ x.at \in {"record", "face"} => x.file \in Media
         /\ x.at = "store" => /\ x.m \in Msgs /\ x.from \in {"user", "agent"}
                              /\ x.status \in {"streaming", "complete"}
                              /\ x.file \in Media \cup {None} /\ x.source \in Msgs \cup {0}
                              /\ x.words \in BOOLEAN
BY DEF Request

\* The row a request stores.
LEMMA NewRow ==
  ASSUME TypeOK, NEW x \in Request, x.at = "store"
  PROVE  CreateMessage(x) \in MessageRow
BY RequestFields DEF CreateMessage, MessageRow, TypeOK, StorageTypeOK

\* The calls that are left, and the ids that are given.
LEMMA CallsType ==
  ASSUME TypeOK, NEW op, Calls(op)
  PROVE  may' \in Worlds /\ left' \in 0..MaxCalls[may']
BY StorageAssumption DEF TypeOK, Calls, StorageAssumption

\* The handlers keep the types.
LEMMA HandleType ==
  ASSUME TypeOK, NEW r \in Requests, Handle(r), UNCHANGED view
  PROVE  TypeOK'
<1> USE StorageAssumption DEF StorageAssumption
<1>0. /\ readUpTo' \in Msgs \cup {0} /\ cleared' \in Msgs \cup {0} /\ hides' \subseteq Msgs
      /\ walk' \in [Walks -> Walk \cup {Idle}]
  BY DEF TypeOK, view
<1>1. CASE \E f \in Media : Upload(r, f) \/ SetFace(r, f)
  <2> PICK f \in Media : Upload(r, f) \/ SetFace(r, f)
    BY <1>1
  <2>1. may' \in Worlds /\ left' \in 0..MaxCalls[may']
    BY CallsType DEF Upload, SetFace
  <2>2. req' \in [Requests -> Request \cup {Idle}]
    BY DEF Upload, SetFace, Begins, TypeOK, StorageTypeOK, Request
  <2> QED BY <1>0, <2>1, <2>2 DEF TypeOK, StorageTypeOK, Upload, SetFace
<1>2. ASSUME NEW op, NEW from \in {"user", "agent"}, NEW status \in {"streaming", "complete"},
             NEW f \in Media \cup {None}, NEW m \in Msgs \cup {0}, Calls(op), Compose(r, from, status, f, m)
      PROVE  TypeOK'
  <2>1. may' \in Worlds /\ left' \in 0..MaxCalls[may']
    BY <1>2, CallsType
  <2>2. (m # 0 /\ msg[m].words) \in BOOLEAN
    OBVIOUS
  <2>3. req' \in [Requests -> Request \cup {Idle}]
    BY <1>2, <2>2 DEF Compose, Begins, TypeOK, StorageTypeOK, Request
  <2> QED BY <1>0, <1>2, <2>1, <2>3 DEF TypeOK, StorageTypeOK, Compose
<1>3. CASE \E f \in Media \cup {None} : SendAsUser(r, f)
  BY <1>2, <1>3 DEF SendAsUser
<1>4. CASE \E m \in Msgs : Tap(r, m)
  BY <1>2, <1>4 DEF Tap
<1>5. CASE SendAsAgent(r) \/ StartStream(r)
  BY <1>2, <1>5 DEF SendAsAgent, StartStream
<1>6. ASSUME NEW p, At(r, p)
      PROVE  /\ may' \in Worlds /\ left' \in 0..MaxCalls[may']
             /\ req[r] \in Request /\ req[r].at = p
  BY <1>6 DEF At, TypeOK, StorageTypeOK
<1>7. Done(r) => req' \in [Requests -> Request \cup {Idle}]
  BY DEF Done, TypeOK, StorageTypeOK
<1>8. CASE CreateMedia(r)
  <2>1. req[r].file \in Media
    BY <1>6, <1>8, RequestFields DEF CreateMedia
  <2>2. [st |-> "live", msg |-> 0, born |-> now] \in MediumRow
    BY DEF TypeOK, StorageTypeOK, MediumRow
  <2>3. media \in [Media -> MediumRow] /\ bytes \subseteq Media
    BY DEF TypeOK, StorageTypeOK
  <2>4. media' \in [Media -> MediumRow]
    BY <1>8, <2>1, <2>2, <2>3 DEF CreateMedia
  <2>5. bytes' \subseteq Media
    BY <1>8, <2>3 DEF CreateMedia
  <2> QED BY <1>0, <1>6, <1>7, <1>8, <2>4, <2>5 DEF CreateMedia, TypeOK, StorageTypeOK
<1>9. CASE UpdateUserProfile(r)
  <2>1. req[r].file \in Media
    BY <1>6, <1>9, RequestFields DEF UpdateUserProfile
  <2> QED BY <1>0, <1>6, <1>7, <1>9, <2>1 DEF UpdateUserProfile, TypeOK, StorageTypeOK
<1>10. CASE StoreMessage(r)
  <2> DEFINE x == req[r]
  <2>1. x \in Request /\ x.at = "store" /\ may' \in Worlds /\ left' \in 0..MaxCalls[may']
    BY <1>6, <1>10 DEF StoreMessage
  <2>2. /\ x.m \in Msgs /\ x.file \in Media \cup {None} /\ x.source \in Msgs \cup {0} /\ x.words \in BOOLEAN
        /\ CreateMessage(x) \in MessageRow
    BY <2>1, RequestFields, NewRow
  <2>3. [msg EXCEPT ![x.m] = CreateMessage(x)] \in [Msgs -> MessageRow]
    BY <2>2 DEF TypeOK, StorageTypeOK
  <2>4. recordTap([msg EXCEPT ![x.m] = CreateMessage(x)], x) \in [Msgs -> MessageRow]
    BY <2>2, <2>3, RowUpdates DEF recordTap
  <2>5. ClaimMedia(x.file, x.m) => media' \in [Media -> MediumRow]
    BY <2>2 DEF ClaimMedia, TypeOK, StorageTypeOK, MediumRow
  <2>6. msg' \in [Msgs -> MessageRow] /\ media' \in [Media -> MediumRow]
    BY <1>10, <2>4, <2>5 DEF StoreMessage, TypeOK, StorageTypeOK
  <2> QED BY <1>0, <1>7, <1>10, <2>1, <2>6 DEF StoreMessage, TypeOK, StorageTypeOK
<1> QED BY <1>1, <1>3, <1>4, <1>5, <1>8, <1>9, <1>10 DEF Handle

\* The rows a sweep leaves, field by field.
LEMMA RowsGoneFields ==
  ASSUME TypeOK, NEW rows
  PROVE  /\ RowsGone(rows) \in [Media -> MediumRow]
         /\ \A f \in Media : /\ RowsGone(rows)[f].st = IF f \in rows THEN "gone" ELSE media[f].st
                             /\ RowsGone(rows)[f].msg = media[f].msg
                             /\ RowsGone(rows)[f].born = media[f].born
BY DEF RowsGone, TypeOK, StorageTypeOK, MediumRow

\* The claim changes no row but the file's, and nothing of it but its message.
LEMMA ClaimFields ==
  ASSUME TypeOK, NEW file \in Media \cup {None}, NEW m \in Msgs, ClaimMedia(file, m)
  PROVE  \A f \in Media : media'[f].st = media[f].st /\ media'[f].born = media[f].born
<1>1. \A f \in Media : [media[f] EXCEPT !.msg = m].st = media[f].st /\ [media[f] EXCEPT !.msg = m].born = media[f].born
  BY DEF TypeOK, StorageTypeOK, MediumRow
<1>2. \A f \in Media : media'[f] \in {media[f], [media[f] EXCEPT !.msg = m]}
  BY DEF ClaimMedia, TypeOK, StorageTypeOK
<1> QED BY <1>1, <1>2

\* What the retention of messages changes, field by field.
LEMMA MessagesGoneFields ==
  ASSUME TypeOK, NEW ids
  PROVE  /\ MessagesGone(ids) \in [Msgs -> MessageRow]
         /\ \A m \in Msgs : /\ MessagesGone(ids)[m].st = IF m \in ids THEN "gone" ELSE msg[m].st
                            /\ MessagesGone(ids)[m].from = msg[m].from
                            /\ MessagesGone(ids)[m].status = msg[m].status
                            /\ MessagesGone(ids)[m].words = msg[m].words
                            /\ MessagesGone(ids)[m].born = msg[m].born
BY DEF MessagesGone, TypeOK, StorageTypeOK, MessageRow

\* The sweeps keep the types.
LEMMA SweepType ==
  ASSUME TypeOK, NEW s \in Sweepers, UNCHANGED view,
         DeleteUnclaimedMedia(s) \/ SweepUnclaimed(s) \/ SweepStep(s) \/ SweepDies(s)
  PROVE  TypeOK'
<1>0. /\ readUpTo' \in Msgs \cup {0} /\ cleared' \in Msgs \cup {0} /\ hides' \subseteq Msgs
      /\ walk' \in [Walks -> Walk \cup {Idle}]
  BY DEF TypeOK, view
<1>1. CASE DeleteUnclaimedMedia(s)
  BY <1>0, <1>1, RowsGoneFields DEF DeleteUnclaimedMedia, TypeOK, StorageTypeOK
<1>2. CASE SweepUnclaimed(s)
  BY <1>0, <1>2 DEF SweepUnclaimed, TypeOK, StorageTypeOK
<1>3. CASE SweepDies(s)
  BY <1>0, <1>3, CallsType DEF SweepDies, SweepTo, TypeOK, StorageTypeOK
<1>4. CASE SweepStep(s)
  <2>1. /\ \/ UNCHANGED msg
           \/ \E ids : msg' = MessagesGone(ids)
        /\ \/ UNCHANGED media
           \/ \E rows : media' = RowsGone(rows)
        /\ bytes' \subseteq bytes
        /\ \E x : SweepTo(s, x)
        /\ SweepUnchanged
    BY <1>4 DEF SweepStep, Sweep, sweepMessages, DeleteMediaOfMessages, DeleteMessagesByIDs, removeBytes,
                ListMediaOwnersOverBudget, sweepBudget, DeleteMediaByIDs
  <2>2. msg' \in [Msgs -> MessageRow] /\ media' \in [Media -> MediumRow]
    BY <2>1, RowsGoneFields, MessagesGoneFields DEF TypeOK, StorageTypeOK
  <2> QED BY <1>0, <2>1, <2>2 DEF SweepTo, SweepUnchanged, TypeOK, StorageTypeOK
<1> QED BY <1>1, <1>2, <1>3, <1>4

\* NewestOf, of what is stored.
LEMMA NewestStored ==
  ASSUME TypeOK, IdsGiven
  PROVE  LET newest == NewestOf({m \in Msgs : Stored(m)})
         IN  newest \in Msgs \cup {0} /\ \A m \in Msgs : Stored(m) => m <= newest
<1>1. given \in Nat /\ {m \in Msgs : Stored(m)} \in SUBSET Msgs
  BY StorageAssumption DEF StorageAssumption, TypeOK, StorageTypeOK
<1>2. \A m \in {n \in Msgs : Stored(n)} : m <= given
  BY DEF IdsGiven, Stored
<1> QED BY <1>1, <1>2, NewestIsLast

\* Every step keeps the types.
LEMMA TypeStep ==
  ASSUME TypeOK, IdsGiven, Next
  PROVE  TypeOK'
<1> USE StorageAssumption DEF StorageAssumption
<1>1. CASE \E r \in Requests : Handle(r) /\ UNCHANGED view
  BY <1>1, HandleType
<1>2. CASE \E m \in Msgs : FinishMessage(m) /\ UNCHANGED view
  <2> PICK m \in Msgs : FinishMessage(m) /\ UNCHANGED view
    BY <1>2
  <2>1. msg' \in [Msgs -> MessageRow]
    BY RowUpdates DEF FinishMessage, TypeOK, StorageTypeOK
  <2> QED BY <2>1, CallsType DEF FinishMessage, TypeOK, StorageTypeOK, view
<1>3. CASE \E s \in Sweepers : /\ DeleteUnclaimedMedia(s) \/ SweepUnclaimed(s) \/ SweepStep(s) \/ SweepDies(s)
                               /\ UNCHANGED view
  BY <1>3, SweepType
<1>4. CASE Tick /\ UNCHANGED view
  BY <1>4 DEF Tick, TypeOK, StorageTypeOK, view
<1>5. CASE Clear
  <2>1. cleared' \in Msgs \cup {0}
    BY <1>5, NewestStored DEF Clear, ClearConversation
  <2> QED BY <1>5, <2>1, CallsType DEF Clear, TypeOK, StorageTypeOK
<1>6. CASE \E m \in Msgs : MarkRead(m) \/ HideMessage(m)
  BY <1>6, CallsType DEF MarkRead, MovesMark, HideMessage, TypeOK, StorageTypeOK
<1>7. CASE \E w \in Walks : ListMessages(w) \/ ListMessagesForAgent(w)
  <2>1. PICK w \in Walks, who \in {"user", "agent"}, back \in BOOLEAN, cursor \in Msgs \cup {0} :
            BeginWalk(w, who, back, cursor)
    BY <1>7 DEF ListMessages, ListMessagesForAgent
  <2>2. walk' \in [Walks -> Walk \cup {Idle}]
    <3>1. NewWalk(who, back, cursor) \in Walk
      BY WalkFields
    <3> QED BY <2>1, <3>1 DEF BeginWalk, TypeOK
  <2> QED BY <2>1, <2>2, CallsType DEF BeginWalk, TypeOK, StorageTypeOK
<1>8. CASE \E w \in Walks : NextPage(w)
  <2> PICK w \in Walks : NextPage(w)
    BY <1>8
  <2>1. walk[w] \in Walk /\ given \in Nat
    BY DEF NextPage, TypeOK, StorageTypeOK
  <2>2. pageOf(walk[w]).page \in SUBSET Msgs /\ (pageOf(walk[w]).more => pageOf(walk[w]).last \in Msgs)
    <3>1. walk[w].back \in BOOLEAN
      BY <2>1 DEF Walk
    <3>2. /\ pageOf(walk[w]).page \subseteq Ahead(walk[w])
          /\ pageOf(walk[w]).more => pageOf(walk[w]).last \in pageOf(walk[w]).page
      BY <2>1, <3>1, Paging
    <3> QED BY <3>2 DEF Ahead
  <2>3. walk' \in [Walks -> Walk \cup {Idle}]
    BY <2>1, <2>2, TurnedType DEF NextPage, TypeOK
  <2> QED BY <2>3 DEF NextPage, store, TypeOK, StorageTypeOK
<1> QED BY <1>1, <1>2, <1>3, <1>4, <1>5, <1>6, <1>7, <1>8 DEF Next, StorageNext, HistoryStep

-----------------------------------------------------------------------------
(* Files and their bytes.                                                  *)

Gone == {f \in Media : media[f].st = "gone"}
Recording(r) == req[r] # Idle /\ req[r].at = "record"

\* An upload under way has its bytes, a file of its own, and no row yet; what
\* a sweep is about to remove from the blob store has lost its row for good.
BytesInv ==
    /\ RowHasBytes
    /\ \A r \in Requests : Recording(r) => req[r].file \in bytes /\ media[req[r].file].st = "none"
    /\ \A r, q \in Requests : Recording(r) /\ Recording(q) /\ r # q => req[r].file # req[q].file
    /\ \A s \in Sweepers : pick[s] \subseteq Gone
    /\ \A s \in Sweepers : SweepAt(s, "rows") \/ SweepAt(s, "bytes") => sweep[s].keys \subseteq Gone
    /\ \A s \in Sweepers : SweepAt(s, "bytes") => sweep[s].then.at \in {"owners", "messages", "oldest"}
    /\ \A s \in Sweepers : SweepAt(s, "drop") => sweep[s].ids \subseteq Media

\* The handlers remove no bytes that a row names.
LEMMA BytesHandle ==
  ASSUME TypeOK, BytesInv, NEW r \in Requests, Handle(r)
  PROVE  BytesInv'
<1> USE DEF BytesInv, RowHasBytes, HasRow, Recording, Gone, SweepAt
<1>1. CASE \E f \in Media : Upload(r, f)
  BY <1>1 DEF Upload, Begins, TypeOK, StorageTypeOK
<1>2. CASE \E f \in Media : SetFace(r, f)
  BY <1>2 DEF SetFace, Begins, TypeOK, StorageTypeOK
<1>3. ASSUME NEW from, NEW status, NEW f, NEW m, Compose(r, from, status, f, m)
      PROVE  BytesInv'
  BY <1>3 DEF Compose, Begins, TypeOK, StorageTypeOK
<1>4. CASE (\E f \in Media \cup {None} : SendAsUser(r, f)) \/ (\E m \in Msgs : Tap(r, m))
           \/ SendAsAgent(r) \/ StartStream(r)
  BY <1>3, <1>4 DEF SendAsUser, Tap, SendAsAgent, StartStream
<1>5. CASE CreateMedia(r)
  <2>1. req[r].file \in Media /\ Recording(r)
    BY <1>5, RowTypes, RequestFields DEF CreateMedia, At
  <2> QED BY <1>5, <2>1 DEF CreateMedia, At, Done, TypeOK, StorageTypeOK
<1>6. CASE UpdateUserProfile(r)
  BY <1>6 DEF UpdateUserProfile, At, Done, TypeOK, StorageTypeOK
<1>7. CASE StoreMessage(r)
  <2>1. req[r].m \in Msgs /\ req[r].file \in Media \cup {None}
    BY <1>7, RowTypes, RequestFields DEF StoreMessage, At
  <2>2. \A f \in Media : media'[f].st = media[f].st
    BY <1>7, <2>1, ClaimFields DEF StoreMessage
  <2> QED BY <1>7, <2>2 DEF StoreMessage, At, Done, TypeOK, StorageTypeOK
<1> QED BY <1>1, <1>2, <1>4, <1>5, <1>6, <1>7 DEF Handle

\* The sweeps remove a row before its bytes.
LEMMA BytesSweep ==
  ASSUME TypeOK, BytesInv, NEW s \in Sweepers,
         DeleteUnclaimedMedia(s) \/ SweepUnclaimed(s) \/ SweepStep(s) \/ SweepDies(s)
  PROVE  BytesInv'
<1> USE DEF BytesInv, RowHasBytes, HasRow, Recording, Gone, SweepAt, SweepTo, SweepUnchanged
<1>t. DOMAIN sweep = Sweepers /\ pick \in [Sweepers -> SUBSET Media]
  BY DEF TypeOK, StorageTypeOK
<1>1. CASE DeleteUnclaimedMedia(s)
  BY <1>1, <1>t, RowsGoneFields, RowTypes, RequestFields DEF DeleteUnclaimedMedia, Unclaimed
<1>2. CASE SweepUnclaimed(s)
  BY <1>2, <1>t DEF SweepUnclaimed
<1>3. CASE SweepDies(s)
  BY <1>3, <1>t DEF SweepDies
<1>4. CASE Sweep(s)
  BY <1>4, <1>t DEF Sweep
<1>5. CASE sweepMessages(s)
  BY <1>5, <1>t DEF sweepMessages
<1>6. CASE DeleteMediaOfMessages(s)
  BY <1>6, <1>t, RowsGoneFields, RowTypes, RequestFields DEF DeleteMediaOfMessages
<1>7. CASE DeleteMessagesByIDs(s)
  BY <1>7, <1>t DEF DeleteMessagesByIDs
<1>8. CASE removeBytes(s)
  BY <1>8, <1>t, RowTypes, RequestFields DEF removeBytes
<1>9. CASE ListMediaOwnersOverBudget(s)
  BY <1>9, <1>t DEF ListMediaOwnersOverBudget
<1>10. CASE sweepBudget(s)
  BY <1>10, <1>t DEF sweepBudget, ListClaimedMediaOldestFirst
<1>11. CASE DeleteMediaByIDs(s)
  BY <1>11, <1>t, RowsGoneFields, RowTypes, RequestFields DEF DeleteMediaByIDs
<1> QED BY <1>1, <1>2, <1>3, <1>4, <1>5, <1>6, <1>7, <1>8, <1>9, <1>10, <1>11 DEF SweepStep

\* Every step keeps the bytes of the rows.
LEMMA BytesStep ==
  ASSUME TypeOK, BytesInv, [Next]_vars
  PROVE  BytesInv'
<1>1. CASE \E r \in Requests : Handle(r)
  BY <1>1, BytesHandle
<1>2. CASE \E s \in Sweepers : DeleteUnclaimedMedia(s) \/ SweepUnclaimed(s) \/ SweepStep(s) \/ SweepDies(s)
  BY <1>2, BytesSweep
<1>3. CASE UNCHANGED <<media, bytes, req, sweep, pick>>
  BY <1>3 DEF BytesInv, RowHasBytes, HasRow, Recording, Gone, SweepAt
<1>4. CASE (\E m \in Msgs : FinishMessage(m)) \/ Tick \/ HistoryStep \/ UNCHANGED vars
  BY <1>3, <1>4 DEF FinishMessage, Tick, HistoryStep, Clear, MarkRead, HideMessage, ListMessages,
                    ListMessagesForAgent, BeginWalk, NextPage, store, vars
<1> QED BY <1>1, <1>2, <1>4 DEF Next, StorageNext

-----------------------------------------------------------------------------
(* Messages.                                                               *)

Storing(r) == req[r] # Idle /\ req[r].at = "store"

\* A message about to be stored has an id nobody else has; one that takes a
\* button carries the words of a message that was whole when it was read.
MsgInv ==
    /\ IdsGiven
    /\ \A r \in Requests : Storing(r) => req[r].m <= given /\ msg[req[r].m].st = "none"
    /\ \A r, q \in Requests : Storing(r) /\ Storing(q) /\ r # q => req[r].m # req[q].m
    /\ \A r \in Requests : Storing(r) /\ req[r].source # 0 =>
          /\ msg[req[r].source].st # "none" /\ msg[req[r].source].status = "complete"
          /\ msg[req[r].source].words = req[r].words

\* What no step does to a message there is: it is not another's, nor younger,
\* nor unwritten again, and once whole it keeps its words.
Kept ==
    \A m \in Msgs : msg[m].st # "none" =>
        /\ msg'[m].st # "none" /\ (msg[m].st = "gone" => msg'[m].st = "gone")
        /\ msg'[m].from = msg[m].from /\ msg'[m].born = msg[m].born
        /\ msg[m].status = "complete" => msg'[m].status = "complete" /\ msg'[m].words = msg[m].words

\* A stored message changes no earlier one.
LEMMA StoreMessageKeeps ==
  ASSUME TypeOK, MsgInv, NEW r \in Requests, StoreMessage(r)
  PROVE  /\ Kept
         /\ \A m \in Msgs : msg'[m].st = msg[m].st \/ (m = req[r].m /\ msg'[m].st = "live")
<1> DEFINE x == req[r]
           rows == [msg EXCEPT ![x.m] = CreateMessage(x)]
<1>1. /\ x.m \in Msgs /\ x.source \in Msgs \cup {0} /\ x.words \in BOOLEAN /\ Storing(r)
      /\ CreateMessage(x) \in MessageRow /\ CreateMessage(x).st = "live"
  BY RowTypes, RequestFields, NewRow DEF StoreMessage, At, Storing, CreateMessage
<1>2. msg \in [Msgs -> MessageRow] /\ rows \in [Msgs -> MessageRow]
  BY <1>1 DEF TypeOK, StorageTypeOK
<1>3. /\ msg[x.m].st = "none"
      /\ x.source # 0 => /\ msg[x.source].st # "none" /\ msg[x.source].status = "complete"
                         /\ msg[x.source].words = x.words
  BY <1>1 DEF MsgInv
<1>4. ASSUME NEW m \in Msgs
      PROVE  /\ msg[m].st # "none" => rows[m] = msg[m]
             /\ rows[m] = msg[m] \/ (m = x.m /\ rows[m].st = "live")
  BY <1>1, <1>2, <1>3
<1>5. ASSUME NEW m \in Msgs
      PROVE  msg'[m] \in {msg[m], rows[m]} \/ (m = x.source /\ msg'[m] = Chosen(rows[m], x.words))
  BY <1>1, <1>2 DEF StoreMessage, recordTap
<1>6. ASSUME NEW m \in Msgs
      PROVE  /\ Chosen(rows[m], x.words).st = rows[m].st /\ Chosen(rows[m], x.words).from = rows[m].from
             /\ Chosen(rows[m], x.words).born = rows[m].born
             /\ Chosen(rows[m], x.words).status = rows[m].status
             /\ Chosen(rows[m], x.words).words = x.words
  BY <1>1, <1>2, RowUpdates
<1> HIDE DEF rows
<1> QED BY <1>1, <1>3, <1>4, <1>5, <1>6, StorageAssumption DEF Kept, StorageAssumption

\* Of a sweep's steps one touches messages, and none a request.
LEMMA SweepTouches ==
  ASSUME NEW s \in Sweepers, DeleteUnclaimedMedia(s) \/ SweepUnclaimed(s) \/ SweepStep(s) \/ SweepDies(s)
  PROVE  (DeleteMessagesByIDs(s) \/ UNCHANGED msg) /\ UNCHANGED <<now, given, req>>
BY DEF DeleteUnclaimedMedia, SweepUnclaimed, SweepDies, SweepStep, Sweep, sweepMessages, DeleteMediaOfMessages,
       DeleteMessagesByIDs, removeBytes, ListMediaOwnersOverBudget, sweepBudget, DeleteMediaByIDs, SweepUnchanged

\* What a step may do to a message that is there.
LEMMA StepKeeps ==
  ASSUME TypeOK, MsgInv, [Next]_vars
  PROVE  Kept
<1>0. \A m \in Msgs : msg[m] \in MessageRow
  BY RowTypes
<1>1. CASE \E r \in Requests : StoreMessage(r)
  BY <1>1, StoreMessageKeeps
<1>2. CASE \E m \in Msgs : FinishMessage(m)
  <2> PICK n \in Msgs : FinishMessage(n)
    BY <1>2
  <2>1. \A m \in Msgs : msg'[m] = IF m = n THEN Finished(msg[n]) ELSE msg[m]
    BY DEF FinishMessage, TypeOK, StorageTypeOK
  <2>2. Finished(msg[n]).st = msg[n].st /\ Finished(msg[n]).from = msg[n].from /\ Finished(msg[n]).born = msg[n].born
    BY <1>0, RowUpdates
  <2>3. msg[n].status = "streaming"
    BY DEF FinishMessage
  <2> QED BY <2>1, <2>2, <2>3 DEF Kept
<1>3. CASE \E s \in Sweepers : DeleteMessagesByIDs(s)
  BY <1>3, MessagesGoneFields DEF DeleteMessagesByIDs, Kept
<1>4. CASE UNCHANGED msg
  BY <1>4 DEF Kept
<1>5. ASSUME NEW r \in Requests, Handle(r) PROVE StoreMessage(r) \/ UNCHANGED msg
  BY <1>5 DEF Handle, Upload, SetFace, SendAsUser, Tap, SendAsAgent, StartStream, Compose, CreateMedia,
              UpdateUserProfile
<1>6. ASSUME NEW s \in Sweepers,
             DeleteUnclaimedMedia(s) \/ SweepUnclaimed(s) \/ SweepStep(s) \/ SweepDies(s)
      PROVE  DeleteMessagesByIDs(s) \/ UNCHANGED msg
  BY <1>6, SweepTouches
<1>7. CASE Tick \/ HistoryStep \/ UNCHANGED vars
  BY <1>4, <1>7 DEF Tick, HistoryStep, Clear, MarkRead, HideMessage, ListMessages,
                    ListMessagesForAgent, BeginWalk, NextPage, store, vars
<1> QED BY <1>1, <1>2, <1>3, <1>4, <1>5, <1>6, <1>7 DEF Next, StorageNext

\* Messages past the window as it is now.
Old == {m \in Msgs : msg[m].st # "none" /\ msg[m].born < Window}

\* A sweep has messages past the window in hand, however long ago it read the
\* window, and only those go.
SweepInv ==
    /\ \A s \in Sweepers : SweepAt(s, "messages") => sweep[s].since \in Int /\ sweep[s].since <= Window
    /\ \A s \in Sweepers : SweepAt(s, "files") \/ SweepAt(s, "rows") =>
          /\ sweep[s].since \in Int /\ sweep[s].since <= Window
          /\ sweep[s].ids \subseteq Old
    /\ \A s \in Sweepers : SweepAt(s, "bytes") =>
          /\ sweep[s].then.at \in {"owners", "messages", "oldest"}
          /\ sweep[s].then.at = "messages" => sweep[s].then.since \in Int /\ sweep[s].then.since <= Window
    /\ \A m \in Msgs : msg[m].st = "gone" => msg[m].born < Window

\* Every step keeps what is known of the sweeps.
LEMMA SweepStepInv ==
  ASSUME TypeOK, MsgInv, SweepInv, [Next]_vars
  PROVE  SweepInv'
<1>0. Kept
  BY StepKeeps
<1>1. Window \in Int /\ Window' \in Int /\ Window <= Window'
  <2>1. now \in Int /\ now' \in Int /\ now <= now'
    <3>1. now' = now \/ now' = now + 1
      BY SweepTouches DEF Next, StorageNext, Handle, Upload, SetFace, SendAsUser, Tap, SendAsAgent, StartStream, Compose, CreateMedia,
              UpdateUserProfile, StoreMessage, FinishMessage, Tick, HistoryStep, Clear, MarkRead, HideMessage, ListMessages,
                    ListMessagesForAgent, BeginWalk, NextPage, store, vars
    <3>2. now \in Int
      BY StorageAssumption DEF TypeOK, StorageTypeOK, StorageAssumption
    <3> QED BY <3>1, <3>2
  <2>2. MessageAge \in Int
    BY StorageAssumption DEF StorageAssumption
  <2>3. Window = now - MessageAge /\ Window' = now' - MessageAge
    BY DEF Window
  <2>4. Window \in Int /\ Window' \in Int
    BY <2>1, <2>2, <2>3
  <2>5. now - MessageAge <= now' - MessageAge
    <3>1. \A a, b, c \in Int : a <= b => a - c <= b - c
      OBVIOUS
    <3> QED BY <2>1, <2>2, <3>1, Zenon
  <2> QED BY <2>3, <2>4, <2>5
<1>2. \A m \in Msgs : msg[m].born \in Int
  BY RowTypes DEF MessageRow
<1>3. Old \subseteq Old'
  BY <1>0, <1>1, <1>2 DEF Old, Kept
<1>4. ASSUME NEW s \in Sweepers, DeleteMessagesByIDs(s)
      PROVE  SweepInv'
  <2>1. sweep[s].ids \subseteq Old /\ sweep[s].since \in Int /\ sweep[s].since <= Window
    BY <1>4 DEF DeleteMessagesByIDs, SweepInv
  <2>2. \A m \in Msgs : msg'[m].st = "gone" => msg'[m].born < Window'
    BY <1>1, <1>2, <1>4, <2>1, MessagesGoneFields DEF DeleteMessagesByIDs, SweepInv, Old
  <2>3. DOMAIN sweep = Sweepers
    BY DEF TypeOK, StorageTypeOK
  <2> QED BY <1>1, <1>3, <1>4, <2>1, <2>2, <2>3 DEF DeleteMessagesByIDs, SweepTo, SweepAt, SweepInv
<1>5. ASSUME UNCHANGED sweep, \A m \in Msgs : msg'[m].st = "gone" => msg[m].st = "gone"
      PROVE  SweepInv'
  BY <1>0, <1>1, <1>2, <1>3, <1>5 DEF SweepInv, SweepAt, Kept
<1>6. ASSUME NEW s \in Sweepers, NEW x, SweepTo(s, x), UNCHANGED msg,
             x # Idle => /\ x.at = "messages" => x.since \in Int /\ x.since <= Window
                         /\ x.at \in {"files", "rows"} => /\ x.since \in Int /\ x.since <= Window
                                                          /\ x.ids \subseteq Old
                         /\ x.at = "bytes" =>
                              /\ x.then.at \in {"owners", "messages", "oldest"}
                              /\ x.then.at = "messages" => x.then.since \in Int /\ x.then.since <= Window
      PROVE  SweepInv'
  <2>1. DOMAIN sweep = Sweepers
    BY DEF TypeOK, StorageTypeOK
  <2>2. \A z \in Sweepers : sweep'[z] = IF z = s THEN x ELSE sweep[z]
    BY <1>6, <2>1 DEF SweepTo
  <2> QED BY <1>1, <1>2, <1>3, <1>6, <2>2 DEF SweepInv, SweepAt
<1>7. ASSUME NEW s \in Sweepers, SweepStep(s) \/ SweepDies(s)
      PROVE  SweepInv'
  <2>1. CASE Sweep(s)
    BY <1>1, <1>6, <2>1 DEF Sweep
  <2>2. CASE sweepMessages(s)
    <3> DEFINE since == sweep[s].since
               ids == ListExpiredMessageIDs(since)
    <3>1. since \in Int /\ since <= Window
      BY <2>2 DEF sweepMessages, SweepInv
    <3>2. ids \subseteq Old
      BY <1>1, <1>2, <3>1 DEF ListExpiredMessageIDs, FirstOf, Past, Stored, Old
    <3> QED BY <1>6, <2>2, <3>1, <3>2 DEF sweepMessages
  <2>3. CASE DeleteMediaOfMessages(s)
    BY <1>6, <2>3 DEF DeleteMediaOfMessages, SweepInv
  <2>4. CASE DeleteMessagesByIDs(s)
    BY <1>4, <2>4
  <2>5. CASE removeBytes(s)
    BY <1>6, <2>5 DEF removeBytes, SweepInv
  <2>6. CASE ListMediaOwnersOverBudget(s)
    BY <1>6, <2>6 DEF ListMediaOwnersOverBudget
  <2>7. CASE sweepBudget(s)
    BY <1>6, <2>7 DEF sweepBudget
  <2>8. CASE DeleteMediaByIDs(s)
    BY <1>6, <2>8 DEF DeleteMediaByIDs
  <2>9. CASE SweepDies(s)
    BY <1>6, <2>9 DEF SweepDies
  <2> QED BY <1>7, <2>1, <2>2, <2>3, <2>4, <2>5, <2>6, <2>7, <2>8, <2>9 DEF SweepStep
<1>8. CASE \E r \in Requests : Handle(r)
  <2> PICK r \in Requests : Handle(r)
    BY <1>8
  <2>1. CASE StoreMessage(r)
    BY <1>5, <2>1, StoreMessageKeeps DEF StoreMessage
  <2>2. StoreMessage(r) \/ UNCHANGED <<msg, sweep>>
    BY DEF Handle, Upload, SetFace, SendAsUser, Tap, SendAsAgent, StartStream, Compose, CreateMedia, UpdateUserProfile
  <2> QED BY <1>5, <2>1, <2>2
<1>9. CASE \E n \in Msgs : FinishMessage(n)
  <2> PICK n \in Msgs : FinishMessage(n)
    BY <1>9
  <2>1. \A m \in Msgs : msg'[m] = IF m = n THEN Finished(msg[n]) ELSE msg[m]
    BY DEF FinishMessage, TypeOK, StorageTypeOK
  <2>2. Finished(msg[n]).st = msg[n].st
    BY RowTypes, RowUpdates
  <2> QED BY <1>5, <2>1, <2>2 DEF FinishMessage
<1>10. CASE (\E s \in Sweepers : DeleteUnclaimedMedia(s) \/ SweepUnclaimed(s)) \/ Tick \/ HistoryStep \/ UNCHANGED vars
  BY <1>5, <1>10 DEF DeleteUnclaimedMedia, SweepUnclaimed, Tick, HistoryStep, Clear, MarkRead, HideMessage, ListMessages,
                    ListMessagesForAgent, BeginWalk, NextPage, store, vars
<1> QED BY <1>7, <1>8, <1>9, <1>10 DEF Next, StorageNext

\* Every step keeps what is known of messages and their files.
LEMMA MsgStep ==
  ASSUME TypeOK, MsgInv, SweepInv, [Next]_vars
  PROVE  MsgInv'
<1>0. Kept
  BY StepKeeps
<1>1. ASSUME NEW r \in Requests, NEW from, NEW status, NEW f, NEW m \in Msgs \cup {0}, Compose(r, from, status, f, m),
             m # 0 => resolveTap(m)
      PROVE  MsgInv'
  <2>1. given \in Nat /\ given + 1 \in Msgs /\ req' = [req EXCEPT ![r] = req'[r]] /\ UNCHANGED msg
    BY <1>1, StorageAssumption DEF Compose, Begins, TypeOK, StorageTypeOK, StorageAssumption
  <2>2. req'[r].m = given + 1 /\ req'[r].source = m /\ req'[r].words = (m # 0 /\ msg[m].words)
    BY <1>1 DEF Compose, Begins, TypeOK, StorageTypeOK
  <2>3. m # 0 => msg[m].words \in BOOLEAN
    BY <1>1, RowTypes DEF MessageRow
  <2>4. \A q \in Requests : Storing(q) => req[q].m \in Msgs /\ req[q].source \in Msgs \cup {0}
    BY RowTypes, RequestFields DEF Storing
  <2>5. \A n \in Msgs : n \in Nat
    BY StorageAssumption DEF StorageAssumption
  <2>6. DOMAIN req = Requests /\ given' = given + 1
    BY <1>1 DEF TypeOK, StorageTypeOK, Compose
  <2> QED
    BY <1>1, <2>1, <2>2, <2>3, <2>4, <2>5, <2>6 DEF MsgInv, IdsGiven, Storing, resolveTap, Stored
<1>2. CASE UNCHANGED <<given, req>> /\ (\A m \in Msgs : msg'[m].st # "none" <=> msg[m].st # "none")
  BY <1>0, <1>2, RowTypes, RequestFields DEF Kept, MsgInv, IdsGiven, Storing
<1>3. ASSUME NEW r \in Requests, NEW y, req' = [req EXCEPT ![r] = y], ~(y # Idle /\ y.at = "store"), UNCHANGED given,
             \A m \in Msgs : (msg'[m].st # "none" <=> msg[m].st # "none") \/ (Storing(r) /\ m = req[r].m)
      PROVE  MsgInv'
  <2>1. DOMAIN req = Requests
    BY DEF TypeOK, StorageTypeOK
  <2>2. \A q \in Requests : Storing(q) => req[q].m \in Msgs /\ req[q].source \in Msgs \cup {0}
    BY RowTypes, RequestFields DEF Storing
  <2>3. \A q \in Requests : Storing(q)' => q # r /\ Storing(q) /\ req'[q] = req[q]
    BY <1>3, <2>1 DEF Storing
  <2> QED BY <1>0, <1>3, <2>2, <2>3 DEF Kept, MsgInv, IdsGiven
<1>4. ASSUME NEW r \in Requests, Handle(r)
      PROVE  MsgInv'
  <2>1. CASE \E f \in Media : Upload(r, f)
    BY <1>3, <2>1 DEF Upload, Begins
  <2>2. CASE \E f \in Media : SetFace(r, f)
    BY <1>3, <2>2 DEF SetFace, Begins
  <2>3. CASE (\E f \in Media \cup {None} : SendAsUser(r, f)) \/ (\E m \in Msgs : Tap(r, m))
             \/ SendAsAgent(r) \/ StartStream(r)
    BY <1>1, <2>3 DEF SendAsUser, Tap, SendAsAgent, StartStream
  <2>4. CASE CreateMedia(r)
    BY <1>3, <2>4 DEF CreateMedia, Done
  <2>5. CASE UpdateUserProfile(r)
    BY <1>3, <2>5 DEF UpdateUserProfile, Done
  <2>6. CASE StoreMessage(r)
    <3>1. \A m \in Msgs : msg'[m].st = msg[m].st \/ m = req[r].m
      BY <2>6, StoreMessageKeeps
    <3>2. Storing(r)
      BY <2>6 DEF StoreMessage, At, Storing
    <3> QED BY <1>3, <2>6, <3>1, <3>2 DEF StoreMessage, Done
  <2> QED BY <1>4, <2>1, <2>2, <2>3, <2>4, <2>5, <2>6 DEF Handle
<1>5. ASSUME NEW s \in Sweepers,
             DeleteUnclaimedMedia(s) \/ SweepUnclaimed(s) \/ SweepStep(s) \/ SweepDies(s)
      PROVE  MsgInv'
  <2>1. UNCHANGED <<given, req>> /\ (DeleteMessagesByIDs(s) \/ UNCHANGED msg)
    BY <1>5, SweepTouches
  <2>2. \A m \in Msgs : msg'[m].st # "none" <=> msg[m].st # "none"
    <3>1. CASE UNCHANGED msg
      BY <3>1
    <3>2. CASE DeleteMessagesByIDs(s)
      BY <3>2, MessagesGoneFields DEF DeleteMessagesByIDs, SweepInv, Old
    <3> QED BY <2>1, <3>1, <3>2
  <2> QED BY <1>2, <2>1, <2>2
<1>6. CASE \E n \in Msgs : FinishMessage(n)
  <2> PICK n \in Msgs : FinishMessage(n)
    BY <1>6
  <2>1. \A m \in Msgs : msg'[m] = IF m = n THEN Finished(msg[n]) ELSE msg[m]
    BY DEF FinishMessage, TypeOK, StorageTypeOK
  <2>2. Finished(msg[n]).st = msg[n].st
    BY RowTypes, RowUpdates
  <2> QED BY <1>2, <2>1, <2>2 DEF FinishMessage
<1>7. CASE Tick \/ HistoryStep \/ UNCHANGED vars
  BY <1>2, <1>7 DEF Tick, HistoryStep, Clear, MarkRead, HideMessage, ListMessages,
                    ListMessagesForAgent, BeginWalk, NextPage, store, vars
<1> QED BY <1>4, <1>5, <1>6, <1>7 DEF Next, StorageNext

-----------------------------------------------------------------------------
\* The inductive invariant.
Inv == TypeOK /\ BytesInv /\ MsgInv /\ SweepInv

\* The invariant holds at the start.
LEMMA InitInv ==
  ASSUME Init
  PROVE  Inv
<1> USE StorageAssumption DEF StorageAssumption, Init, StorageInit
<1>1. TypeOK
  <2>1. NoMessage \in MessageRow /\ NoMedium \in MediumRow
    BY DEF NoMessage, NoMedium, MessageRow, MediumRow
  <2>2. left \in 0..MaxCalls[may]
    OBVIOUS
  <2> QED BY <2>1, <2>2 DEF TypeOK, StorageTypeOK
<1>2. BytesInv
  BY DEF BytesInv, RowHasBytes, HasRow, Recording, Gone, SweepAt, NoMedium
<1>3. MsgInv
  BY DEF MsgInv, IdsGiven, Storing, NoMessage
<1>4. SweepInv
  BY DEF SweepInv, SweepAt, NoMessage
<1> QED BY <1>1, <1>2, <1>3, <1>4 DEF Inv

\* Every step keeps the invariant.
LEMMA InvStep ==
  ASSUME Inv, [Next]_vars
  PROVE  Inv'
<1>1. CASE Next
  BY <1>1, TypeStep, BytesStep, MsgStep, SweepStepInv DEF Inv, MsgInv
<1>2. CASE UNCHANGED vars
  <2>1. TypeOK'
    BY <1>2 DEF Inv, TypeOK, StorageTypeOK, vars, store, view
  <2> QED BY <1>2, <2>1, BytesStep, MsgStep, SweepStepInv DEF Inv
<1> QED BY <1>1, <1>2

\* The inductive invariant holds: files, requests and sweeps under way agree
\* with the rows at every step.
THEOREM AlwaysInv == Spec => []Inv
<1>1. Init => Inv
  BY InitInv
<1>2. Inv /\ [Next]_vars => Inv'
  BY InvStep
<1> QED BY <1>1, <1>2, PTL DEF Spec

\* The type of every variable, for every number of messages, files, handlers,
\* sweeps and readers.
THEOREM TypeCorrect == Spec => []TypeOK
<1>1. Inv => TypeOK
  BY DEF Inv
<1> QED BY <1>1, AlwaysInv, PTL

\* While a file's row is there its bytes are: Upload writes the bytes before
\* the row, and removeBytes removes what the sweep's statement took the row of.
THEOREM FilesOpen == Spec => []RowHasBytes
<1>1. Inv => RowHasBytes
  BY DEF Inv, BytesInv
<1> QED BY <1>1, AlwaysInv, PTL

\* A tap writes back the body it read (recordTap), and no words of a whole
\* message are lost by it, because resolveTap takes only a whole message.
THEOREM WordsAreKept == Spec => WordsKept
<1>1. ASSUME Inv, [Next]_vars
      PROVE  \A m \in Msgs : Stored(m) /\ msg[m].status = "complete" /\ Stored(m)' => msg'[m].words = msg[m].words
  BY <1>1, StepKeeps DEF Inv, Kept, Stored
<1> QED BY <1>1, AlwaysInv, PTL DEF Spec, WordsKept

\* What has been seen or put out of sight stays so over a step.
Back ==
    \A m \in Msgs : Stored(m) /\ Stored(m)' => /\ ~Visible(m) => ~Visible(m)'
                                               /\ m \notin CountUnread => (m \notin CountUnread)'

\* No step brings back what a person no longer sees.
LEMMA StepBack ==
  ASSUME Inv, [Next]_vars
  PROVE  Back
<1>1. Kept /\ TypeOK
  BY StepKeeps DEF Inv
<1>2. (\A m \in Msgs : Stored(m) => m <= cleared') \/ UNCHANGED cleared
  <2>1. CASE Clear
    BY <2>1, NewestStored DEF Inv, MsgInv, Clear, ClearConversation
  <2> QED BY <2>1 DEF Next, view, HistoryStep, MarkRead, HideMessage, ListMessages, ListMessagesForAgent,
                      BeginWalk, NextPage, vars
<1>3. hides \subseteq hides' /\ (UNCHANGED readUpTo \/ \E m \in Msgs : MovesMark(m))
  BY DEF Next, view, HistoryStep, Clear, MarkRead, HideMessage, ListMessages, ListMessagesForAgent,
         BeginWalk, NextPage, vars
<1>4. Msgs \subseteq Nat /\ readUpTo \in Nat /\ cleared \in Nat /\ readUpTo' \in Nat /\ cleared' \in Nat
  <2>1. TypeOK'
    BY InvStep DEF Inv
  <2> QED BY <1>1, <2>1, StorageAssumption DEF StorageAssumption, TypeOK
<1>5. \A m \in Nat : m <= readUpTo => m <= readUpTo'
  <2>1. CASE UNCHANGED readUpTo
    BY <2>1
  <2>2. CASE \E m \in Msgs : MovesMark(m)
    BY <1>4, <2>2 DEF MovesMark
  <2> QED BY <1>3, <2>1, <2>2
<1> SUFFICES ASSUME NEW m \in Msgs, Stored(m), Stored(m)'
             PROVE  (~Visible(m) => ~Visible(m)') /\ (m \notin CountUnread => (m \notin CountUnread)')
  BY DEF Back
<1>6. msg'[m].from = msg[m].from
  BY <1>1 DEF Kept, Stored
<1>7. ~Visible(m) => ~Visible(m)'
  BY <1>2, <1>3, <1>4 DEF Visible
<1>8. m > readUpTo' => m > readUpTo
  BY <1>4, <1>5
<1> QED BY <1>6, <1>7, <1>8 DEF CountUnread

\* Neither a device that is behind (MarkRead) nor clearing again after the
\* newest messages are gone (ClearConversation) brings a message back that the
\* person has seen or put out of sight.
THEOREM NeverBack == Spec => NothingComesBack
<1>1. Inv /\ [Next]_vars => Back
  BY StepBack
<1> QED BY <1>1, AlwaysInv, PTL DEF Spec, NothingComesBack, Back

-----------------------------------------------------------------------------
(* Walks.                                                                  *)

\* What a reader could see when it began and has not seen yet is still ahead
\* of it, unless it is out of sight.
WalkInv ==
    \A w \in Walks : walk[w] # Idle =>
        /\ \A m \in walk[w].start : msg[m].st # "none"
        /\ ~walk[w].done => \A m \in walk[w].start \ walk[w].seen : Sees(walk[w].who, m) => Beyond(walk[w], m)

\* Nothing comes into sight that was there before.
LEMMA SightShrinks ==
  ASSUME Inv, [Next]_vars, NEW m \in Msgs, msg[m].st # "none", NEW who, Sees(who, m)'
  PROVE  Sees(who, m)
<1>1. Kept
  BY StepKeeps DEF Inv
<1>2. Stored(m)
  <2>1. msg[m].st \in {"none", "live", "gone"}
    BY RowTypes DEF Inv, MessageRow
  <2> QED BY <1>1, <2>1 DEF Kept, Sees, Visible, Stored
<1>3. CASE who = "agent"
  BY <1>1, <1>2, <1>3 DEF Kept, Sees
<1>4. CASE who # "agent"
  BY <1>2, <1>4, StepBack DEF Back, Sees, Visible
<1> QED BY <1>3, <1>4

\* One page of a walk: what it leaves unseen is ahead of the cursor, or, if it
\* is the last page, out of sight.
LEMMA PageTurned ==
  ASSUME Inv, WalkInv, NEW w \in Walks, NextPage(w)
  PROVE  /\ walk'[w].who = walk[w].who /\ walk'[w].start = walk[w].start /\ walk'[w].trimmed = Trimmed(walk[w].who)
         /\ \A m \in walk[w].start \ walk'[w].seen :
               Sees(walk[w].who, m) => ~walk'[w].done /\ Beyond(walk'[w], m)
<1> DEFINE x == walk[w]
           p == pageOf(x)
           y == walk'[w]
<1>1. x \in Walk /\ given \in Nat /\ IdsGiven /\ x.back \in BOOLEAN
  <2>1. walk \in [Walks -> Walk \cup {Idle}] /\ given \in Msgs \cup {0} /\ IdsGiven
    BY DEF Inv, MsgInv, TypeOK, StorageTypeOK
  <2>2. walk[w] \in Walk
    BY <2>1 DEF NextPage
  <2>3. walk[w].back \in BOOLEAN
    BY <2>2 DEF Walk
  <2>4. given \in Nat
    BY <2>1, StorageAssumption DEF StorageAssumption
  <2> QED BY <2>1, <2>2, <2>3, <2>4
<1>2. y = Turned(x, p)
  BY DEF NextPage, Inv, TypeOK
<1>3. /\ y.who = x.who /\ y.back = x.back /\ y.start = x.start /\ y.seen = x.seen \cup p.page
      /\ y.trimmed = Trimmed(x.who) /\ y.done = ~p.more
      /\ y.cursor = IF p.more THEN p.last ELSE x.cursor
  BY <1>1, <1>2, WalkFields
<1>4. /\ p.page \subseteq Ahead(x)
      /\ ~p.more => p.page = Ahead(x)
      /\ p.more => p.last \in p.page /\ \A m \in Ahead(x) \ p.page : Nearer(x, p.last, m)
  BY <1>1, Paging
<1> HIDE DEF p, y
<1>5. ASSUME NEW m \in x.start \ y.seen, Sees(x.who, m)
      PROVE  ~y.done /\ Beyond(y, m)
  <2>1. m \in Ahead(x) \ p.page
    <3>1. m \in Msgs /\ m \in x.start \ x.seen /\ m \notin p.page
      BY <1>1, <1>3, <1>5 DEF Walk
    <3>2. Beyond(x, m)
      BY <1>5, <3>1 DEF WalkInv, NextPage
    <3> QED BY <1>5, <3>1, <3>2 DEF Ahead
  <2>2. p.more /\ Nearer(x, p.last, m)
    BY <1>4, <2>1
  <2>3. y.cursor = p.last /\ y.back = x.back /\ ~y.done
    BY <1>3, <2>2
  <2>4. m \in Nat /\ p.last \in Nat
    BY <1>4, <2>1, <2>2, StorageAssumption DEF Ahead, StorageAssumption
  <2> QED BY <1>1, <2>2, <2>3, <2>4 DEF Nearer, Beyond
<1> QED BY <1>3, <1>5 DEF y

\* What a step does to a reader's walk.
LEMMA WalkMoves ==
  ASSUME Inv, [Next]_vars, NEW w \in Walks
  PROVE  \/ walk'[w] = walk[w]
         \/ NextPage(w)
         \/ /\ walk[w] = Idle /\ UNCHANGED <<msg, cleared, hides>>
            /\ walk'[w] \in Walk /\ walk'[w].seen = {}
            /\ walk'[w].start = Ahead(walk'[w])
<1>0. DOMAIN walk = Walks
  BY DEF Inv, TypeOK
<1>1. CASE \E v \in Walks : ListMessages(v) \/ ListMessagesForAgent(v)
  <2>1. PICK v \in Walks, who \in {"user", "agent"}, back \in BOOLEAN, cursor \in Msgs \cup {0} :
            BeginWalk(v, who, back, cursor)
    BY <1>1 DEF ListMessages, ListMessagesForAgent
  <2> DEFINE x == NewWalk(who, back, cursor)
  <2>2. x \in Walk /\ x.seen = {} /\ x.start = Ahead(x)
    BY WalkFields
  <2> HIDE DEF x
  <2>3. walk' = [walk EXCEPT ![v] = x] /\ walk[v] = Idle /\ UNCHANGED <<msg, cleared, hides>>
    BY <2>1 DEF BeginWalk, x
  <2> QED BY <1>0, <2>2, <2>3
<1>2. CASE \E v \in Walks : NextPage(v)
  BY <1>0, <1>2 DEF NextPage
<1>3. CASE StorageNext /\ UNCHANGED view
  BY <1>3 DEF view
<1>4. CASE Clear \/ (\E m \in Msgs : MarkRead(m) \/ HideMessage(m)) \/ UNCHANGED vars
  BY <1>4 DEF Clear, MarkRead, HideMessage, vars, view
<1> QED BY <1>1, <1>2, <1>3, <1>4 DEF Next, HistoryStep

\* Every step keeps what is known of the walks.
LEMMA WalkStep ==
  ASSUME Inv, WalkInv, [Next]_vars
  PROVE  WalkInv'
<1> SUFFICES ASSUME NEW w \in Walks, walk'[w] # Idle, NEW who, who = walk'[w].who
             PROVE  /\ \A m \in walk'[w].start : msg'[m].st # "none"
                    /\ ~walk'[w].done =>
                          \A m \in walk'[w].start \ walk'[w].seen : Sees(who, m)' => Beyond(walk'[w], m)
  BY DEF WalkInv, Beyond, Sees, Visible, Stored
<1>0. Kept
  BY StepKeeps DEF Inv
<1>1. walk[w] # Idle => walk[w] \in Walk /\ walk[w].start \in SUBSET Msgs
  BY DEF Inv, TypeOK, Walk
<1>2. CASE walk'[w] = walk[w]
  <2>1. \A m \in walk[w].start : m \in Msgs /\ msg[m].st # "none"
    BY <1>1, <1>2 DEF WalkInv
  <2>2. \A m \in walk[w].start : Sees(who, m)' => Sees(who, m)
    BY <1>2, <2>1, SightShrinks
  <2>3. ~walk[w].done => \A m \in walk[w].start \ walk[w].seen : Sees(who, m) => Beyond(walk[w], m)
    BY <1>2 DEF WalkInv
  <2> QED BY <1>0, <1>2, <2>1, <2>2, <2>3 DEF Kept
<1>3. CASE NextPage(w)
  <2>1. UNCHANGED <<msg, cleared, hides>> /\ walk[w] # Idle
    BY <1>3 DEF NextPage, store
  <2>2. \A m : Sees(who, m)' => Sees(who, m)
    BY <2>1 DEF Sees, Visible, Stored
  <2>3. /\ walk'[w].who = walk[w].who /\ walk'[w].start = walk[w].start
        /\ \A m \in walk[w].start \ walk'[w].seen : Sees(walk[w].who, m) => ~walk'[w].done /\ Beyond(walk'[w], m)
    BY <1>3, PageTurned
  <2> QED BY <2>1, <2>2, <2>3 DEF WalkInv
<1>4. CASE /\ walk[w] = Idle /\ UNCHANGED <<msg, cleared, hides>>
           /\ walk'[w] \in Walk /\ walk'[w].seen = {}
           /\ walk'[w].start = Ahead(walk'[w])
  BY <1>4 DEF Ahead, Sees, Visible, Stored
<1> QED BY <1>2, <1>3, <1>4, WalkMoves

\* A reader that went through every page saw all there was when it began, but
\* for what is out of sight; what it missed and is gone had expired, and a
\* person was told so (pageOf, Trimmed), however its walk met sweeps, new
\* messages and hiding.
THEOREM WalksWhole == Spec => WholeOrTrimmed
<1>1. Init => WalkInv
  BY DEF Init, WalkInv
<1>2. Inv /\ WalkInv /\ [Next]_vars => WalkInv'
  BY WalkStep
<1> DEFINE Whole ==
             \A w \in Walks :
                walk[w] # Idle /\ walk'[w].done /\ ~walk[w].done =>
                    \A m \in walk[w].start \ walk'[w].seen :
                        /\ ~Sees(walk[w].who, m)
                        /\ Stored(m) \/ /\ msg[m].born < Window
                                         /\ walk[w].who = "user" => walk'[w].trimmed
<1>3. ASSUME Inv, WalkInv, [Next]_vars
      PROVE  Whole
  <2> SUFFICES ASSUME NEW w \in Walks, walk[w] # Idle, walk'[w].done, ~walk[w].done,
                      NEW m \in walk[w].start \ walk'[w].seen
               PROVE  /\ ~Sees(walk[w].who, m)
                      /\ Stored(m) \/ /\ msg[m].born < Window
                                       /\ walk[w].who = "user" => walk'[w].trimmed
    OBVIOUS
  <2>1. NextPage(w)
    BY <1>3, WalkMoves
  <2>2. ~Sees(walk[w].who, m) /\ walk'[w].trimmed = Trimmed(walk[w].who)
    BY <1>3, <2>1, PageTurned
  <2>3. m \in Msgs /\ msg[m].st # "none" /\ msg[m].st \in {"none", "live", "gone"} /\ msg[m].born \in 0..MaxTime
    BY <1>3, RowTypes DEF Inv, TypeOK, WalkInv, Walk, MessageRow
  <2>4. Stored(m) \/ (0 <= msg[m].born /\ msg[m].born < Window /\ msg[m].born \in Int)
    BY <1>3, <2>3, StorageAssumption DEF Inv, SweepInv, Stored, StorageAssumption
  <2>5. Window \in Int
    BY <1>3, StorageAssumption DEF Window, Inv, TypeOK, StorageTypeOK, StorageAssumption
  <2>6. Stored(m) \/ (msg[m].born < Window /\ 0 < Window)
    BY <2>4, <2>5
  <2> QED BY <2>2, <2>6, Zenon DEF Trimmed
<1> QED BY <1>1, <1>2, <1>3, AlwaysInv, PTL DEF Spec, WholeOrTrimmed
=============================================================================
