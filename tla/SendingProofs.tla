--------------------------- MODULE SendingProofs ----------------------------
(***************************************************************************)
(* What the outbox and the hub promise of a send, for any number of sends, *)
(* files and calls and any number of losses, deaths, errors, sweeps and    *)
(* retries: it is stored at most once, it is never lost once it is written *)
(* down, its file stays with it, and sends are stored in the order they    *)
(* were typed.  The last three rest on one another: LostInv (documents only*)
(* drop what the hub has) gives NothingLost; FileInv (what may be posted is*)
(* uploaded in every document the app can come back with) gives FileKept;  *)
(* OrderInv uses both for what drain takes up next.                        *)
(***************************************************************************)
EXTENDS Sending, SequenceTheorems, TLAPS

\* What the transaction of create preserves: the rows are a sequence, and no
\* key is in it twice.
OnceInv ==
  /\ rows \in Seq(Range(rows))
  /\ ExactlyOnce

\* A commit appends a key that is not among the rows, or leaves them alone.
RowsStep == rows' = rows \/ \E k : ~Stored(k) /\ rows' = Append(rows, k)

\* Only CallStores writes the messages table, behind its unique index.
LEMMA StepOfRows == Next => RowsStep
<1> SUFFICES ASSUME Next PROVE RowsStep
  OBVIOUS
<1>q. UNCHANGED rows => RowsStep
  BY DEF RowsStep
<1>1. ASSUME NEW c \in Call, CallStores(c) PROVE RowsStep
  <2> DEFINE k == calls[c].key
  <2>1. CASE Stored(k)
    BY <1>1, <2>1, <1>q DEF CallStores
  <2>2. CASE ~Stored(k) /\ ~Sendable(k)
    BY <1>1, <2>2, <1>q DEF CallStores
  <2>3. CASE ~Stored(k) /\ Sendable(k)
    BY <1>1, <2>3 DEF CallStores, RowsStep
  <2> QED BY <2>1, <2>2, <2>3
<1>2. ASSUME NEW c \in Call, HubStep(c) \/ CallLimited(c) \/ CallErrs(c), ~CallStores(c) PROVE RowsStep
  BY <1>2, <1>q DEF HubStep, CallChecks, CallFinds, CallAnswers, Unheard, CallLimited, CallErrs
<1>3. CASE DeviceStep
  BY <1>3, <1>q DEF DeviceStep, Written, RetryTimer, DrainNext, DrainEnds, UploadDone, Post,
     Answered, Refused, hub
<1>4. CASE Reconnect \/ UploadLost \/ UploadFails \/ PostLost \/ Die \/ Open \/ Block
  BY <1>4, <1>q DEF Reconnect, UploadLost, UploadFails, PostLost, Die, Open, Block, hub
<1>5. ASSUME NEW k \in Send, Enqueue(k) \/ Retry(k) \/ SweepUnclaimed(k) PROVE RowsStep
  BY <1>5, <1>q DEF Enqueue, Retry, SweepUnclaimed, hub
<1> QED BY <1>1, <1>2, <1>3, <1>4, <1>5 DEF Next

\* Appending a new key keeps the invariant.
LEMMA AppendKeeps ==
  ASSUME OnceInv, NEW k, ~Stored(k), rows' = Append(rows, k)
  PROVE  OnceInv'
<1> DEFINE S == Range(rows) \cup {k}
<1>1. rows \in Seq(S) /\ k \in S
  BY DEF OnceInv
<1>2. /\ rows' \in Seq(S) /\ Len(rows') = Len(rows) + 1 /\ Len(rows) \in Nat
      /\ DOMAIN rows = 1..Len(rows) /\ DOMAIN rows' = 1..Len(rows')
      /\ \A i \in 1..Len(rows) : rows'[i] = rows[i]
      /\ rows'[Len(rows) + 1] = k
  BY <1>1
<1>3. \A i \in DOMAIN rows : rows[i] # k
  BY DEF Stored, Range
<1>4. ExactlyOnce'
  BY <1>2, <1>3 DEF OnceInv, ExactlyOnce
<1>5. rows' \in Seq(Range(rows'))
  <2>1. \A i \in 1..Len(rows') : rows'[i] \in Range(rows')
    BY <1>2 DEF Range
  <2> QED BY <1>2, <2>1
<1> QED BY <1>4, <1>5 DEF OnceInv, Range, ExactlyOnce

\* "lands exactly once": no sequence of losses, deaths, retries and racing
\* calls stores a send twice (create in conversations/messages.go, the unique
\* index of migration 00005).
THEOREM StoredOnce == Spec => []ExactlyOnce
<1>1. Init => OnceInv
  <2> SUFFICES ASSUME rows = <<>> PROVE OnceInv
    BY DEF Init
  <2> QED BY DEF OnceInv, ExactlyOnce, Range
<1>2. OnceInv /\ [Next]_vars => OnceInv'
  <2> SUFFICES ASSUME OnceInv, [Next]_vars PROVE OnceInv'
    OBVIOUS
  <2>1. RowsStep
    BY StepOfRows DEF RowsStep, vars, hub
  <2>2. CASE rows' = rows
    BY <2>2 DEF OnceInv, ExactlyOnce, Range
  <2>3. CASE \E k : ~Stored(k) /\ rows' = Append(rows, k)
    BY <2>3, AppendKeeps
  <2> QED BY <2>1, <2>2, <2>3 DEF RowsStep
<1>3. OnceInv => ExactlyOnce
  BY DEF OnceInv
<1> QED BY <1>1, <1>2, <1>3, PTL DEF Spec

-----------------------------------------------------------------------------
(* Documents: the queue as it is written down.                             *)

ItemSet == [key : Send, state : {"queued", "failed"}, uploaded : BOOLEAN]
WriteSet == [doc : Items, next : {"drain", "loop", "post"}]
Keys(doc) == {doc[i].key : i \in DOMAIN doc}

\* What is in a sequence.
LEMMA SeqFacts ==
  ASSUME NEW S, NEW q \in Seq(S)
  PROVE  /\ Len(q) \in Nat /\ DOMAIN q = 1..Len(q) /\ \A i \in DOMAIN q : q[i] \in S
         /\ q # <<>> <=> Len(q) # 0
OBVIOUS

\* A sequence with one more at its end.
LEMMA OneMore ==
  ASSUME NEW S, NEW q \in Seq(S), NEW x \in S
  PROVE  /\ Append(q, x) \in Seq(S) /\ DOMAIN Append(q, x) = 1..(Len(q) + 1) /\ Len(Append(q, x)) = Len(q) + 1
         /\ \A i \in 1..Len(q) : Append(q, x)[i] = q[i]
         /\ Append(q, x)[Len(q) + 1] = x
OBVIOUS

\* A sequence without its first.
LEMMA OneLess ==
  ASSUME NEW S, NEW q \in Seq(S), q # <<>>
  PROVE  /\ Head(q) = q[1] /\ q[1] \in S /\ Len(q) \in Nat \ {0}
         /\ Tail(q) \in Seq(S) /\ Len(Tail(q)) = Len(q) - 1 /\ DOMAIN Tail(q) = 1..(Len(q) - 1)
         /\ \A i \in 1..(Len(q) - 1) : Tail(q)[i] = q[i + 1]
<1>1. Len(q) \in Nat \ {0}
  OBVIOUS
<1>2. Head(q) = q[1] /\ q[1] \in S
  BY <1>1
<1>3. Tail(q) \in Seq(S) /\ Len(Tail(q)) = Len(q) - 1
  BY <1>1
<1>4. DOMAIN Tail(q) = 1..(Len(q) - 1) /\ \A i \in 1..(Len(q) - 1) : Tail(q)[i] = q[i + 1]
  BY <1>1
<1> QED BY <1>1, <1>2, <1>3, <1>4

\* A function on the places of a sequence is a sequence.
LEMMA SameLength ==
  ASSUME NEW S, NEW T, NEW q \in Seq(S), NEW f, f = [i \in DOMAIN q |-> f[i]], \A i \in DOMAIN q : f[i] \in T
  PROVE  f \in Seq(T) /\ DOMAIN f = DOMAIN q /\ Len(f) = Len(q)
<1>1. Len(q) \in Nat /\ DOMAIN q = 1..Len(q)
  OBVIOUS
<1>2. f \in [1..Len(q) -> T]
  BY <1>1, Zenon
<1>3. \A n \in Nat : \A g \in [1..n -> T] : g \in Seq(T) /\ DOMAIN g = 1..n /\ Len(g) = n
  OBVIOUS
<1> QED BY <1>1, <1>2, <1>3, Zenon

\* A sequence with one taken out.
LEMMA OneOut ==
  ASSUME NEW S, NEW q \in Seq(S), NEW p \in 1..Len(q)
  PROVE  /\ RemoveAt(q, p) \in Seq(S) /\ Len(RemoveAt(q, p)) = Len(q) - 1
         /\ \A i \in 1..(p - 1) : RemoveAt(q, p)[i] = q[i]
         /\ \A i \in p..(Len(q) - 1) : RemoveAt(q, p)[i] = q[i + 1]
<1> DEFINE n == Len(q)
           a == SubSeq(q, 1, p - 1)
           b == SubSeq(q, p + 1, Len(q))
           c == a \o b
<1>1. n \in Nat /\ p \in 1..n /\ n = Len(q) /\ DOMAIN q = 1..n
  BY LenProperties
<1>2. a \in Seq(S) /\ Len(a) = p - 1 /\ \A i \in 1..(p - 1) : a[i] = q[i]
  BY <1>1
<1>3. b \in Seq(S) /\ Len(b) = n - p /\ \A i \in 1..(n - p) : b[i] = q[p + i]
  <2>1. \A i \in (p + 1)..n : q[i] \in S
    BY <1>1
  <2> HIDE DEF n
  <2>2. p + 1 \in Int /\ n \in Int /\ n - (p + 1) + 1 = n - p /\ (~(p + 1 <= n) => n - p = 0)
    BY <1>1
  <2>3. \A i \in 1..(n - p) : (p + 1) + i - 1 = p + i
    BY <1>1
  <2>4. /\ SubSeq(q, p + 1, n) \in Seq(S)
        /\ Len(SubSeq(q, p + 1, n)) = IF p + 1 <= n THEN n - (p + 1) + 1 ELSE 0
        /\ \A i \in 1..(n - (p + 1) + 1) : SubSeq(q, p + 1, n)[i] = q[(p + 1) + i - 1]
    <3> DEFINE m == p + 1
    <3>1. m \in Int /\ n \in Int /\ \A i \in m..n : q[i] \in S
      BY <2>1, <2>2
    <3> HIDE DEF m
    <3>2. /\ SubSeq(q, m, n) \in Seq(S)
          /\ Len(SubSeq(q, m, n)) = IF m <= n THEN n - m + 1 ELSE 0
          /\ \A i \in 1..(n - m + 1) : SubSeq(q, m, n)[i] = q[m + i - 1]
      BY <3>1, SubSeqProperties
    <3> QED BY <3>2, Zenon DEF m
  <2> QED BY <2>2, <2>3, <2>4, Zenon DEF n
<1> HIDE DEF a, b, n
<1>4. c \in Seq(S) /\ Len(c) = Len(a) + Len(b)
      /\ \A i \in 1..(Len(a) + Len(b)) : c[i] = IF i <= Len(a) THEN a[i] ELSE b[i - Len(a)]
  BY <1>2, <1>3, ConcatProperties
<1> HIDE DEF c
<1>5. Len(c) = n - 1
  BY <1>1, <1>2, <1>3, <1>4
<1>6. ASSUME NEW i \in 1..(p - 1)
      PROVE  c[i] = q[i]
  <2>1. i \in 1..((p - 1) + (n - p)) /\ i <= p - 1
    BY <1>1
  <2>2. c[i] = a[i]
    BY <1>2, <1>3, <1>4, <2>1
  <2> QED BY <1>2, <2>2
<1>7. ASSUME NEW i \in p..(n - 1)
      PROVE  c[i] = q[i + 1]
  <2>1. i - (p - 1) \in 1..(n - p) /\ p + (i - (p - 1)) = i + 1 /\ i \in 1..((p - 1) + (n - p)) /\ ~(i <= p - 1)
    BY <1>1
  <2>2. c[i] = b[i - (p - 1)]
    BY <1>2, <1>3, <1>4, <2>1
  <2> QED BY <1>3, <2>1, <2>2
<1>8. RemoveAt(q, p) = c
  BY DEF RemoveAt, c, a, b
<1> QED BY <1>1, <1>4, <1>5, <1>6, <1>7, <1>8 DEF n

\* The queue with the state or the upload of one send changed: the same sends
\* at the same places.
LEMMA Rewritten ==
  ASSUME TypeOK, NEW k \in Send, NEW s \in {"queued", "failed"}
  PROVE  /\ WithState(k, s) \in Items /\ DOMAIN WithState(k, s) = DOMAIN items
         /\ \A i \in DOMAIN items :
              /\ WithState(k, s)[i].key = items[i].key /\ WithState(k, s)[i].uploaded = items[i].uploaded
              /\ WithState(k, s)[i].state = IF items[i].key = k THEN s ELSE items[i].state
         /\ WithUpload(k) \in Items /\ DOMAIN WithUpload(k) = DOMAIN items
         /\ \A i \in DOMAIN items :
              /\ WithUpload(k)[i].key = items[i].key /\ WithUpload(k)[i].state = items[i].state
              /\ (items[i].key = k => WithUpload(k)[i].uploaded)
              /\ (items[i].key # k => WithUpload(k)[i].uploaded = items[i].uploaded)
<1>1. items \in Seq(ItemSet)
  BY DEF TypeOK, Items, ItemSet
<1>2. \A i \in DOMAIN items : items[i] \in ItemSet
  BY <1>1, SeqFacts
<1>3. ASSUME NEW i \in DOMAIN items
      PROVE  Item(k, s, items[i].uploaded) \in ItemSet /\ Item(k, items[i].state, TRUE) \in ItemSet
  BY <1>2 DEF ItemSet, Item
<1> DEFINE f == WithState(k, s)
           g == WithUpload(k)
<1>4. /\ f = [i \in DOMAIN items |-> f[i]] /\ \A i \in DOMAIN items : f[i] \in ItemSet
      /\ \A i \in DOMAIN items : f[i] = IF items[i].key = k THEN Item(k, s, items[i].uploaded) ELSE items[i]
  BY <1>2, <1>3, Zenon DEF WithState
<1>5. /\ g = [i \in DOMAIN items |-> g[i]] /\ \A i \in DOMAIN items : g[i] \in ItemSet
      /\ \A i \in DOMAIN items : g[i] = IF items[i].key = k THEN Item(k, items[i].state, TRUE) ELSE items[i]
  BY <1>2, <1>3, Zenon DEF WithUpload
<1> HIDE DEF f, g
<1>6. f \in Seq(ItemSet) /\ DOMAIN f = DOMAIN items /\ g \in Seq(ItemSet) /\ DOMAIN g = DOMAIN items
  BY <1>1, <1>4, <1>5, SameLength
<1>7. \A i \in DOMAIN items : /\ f[i].key = items[i].key /\ f[i].uploaded = items[i].uploaded
                              /\ f[i].state = IF items[i].key = k THEN s ELSE items[i].state
  BY <1>4 DEF Item
<1>8. \A i \in DOMAIN items : /\ g[i].key = items[i].key /\ g[i].state = items[i].state
                              /\ (items[i].key = k => g[i].uploaded)
                              /\ (items[i].key # k => g[i].uploaded = items[i].uploaded)
  <2> SUFFICES ASSUME NEW i \in DOMAIN items
               PROVE  /\ g[i].key = items[i].key /\ g[i].state = items[i].state
                      /\ (items[i].key = k => g[i].uploaded)
                      /\ (items[i].key # k => g[i].uploaded = items[i].uploaded)
    OBVIOUS
  <2>1. CASE items[i].key = k
    <3>1. g[i] = Item(k, items[i].state, TRUE)
      BY <1>5, <2>1, Zenon
    <3>2. g[i].key = k /\ g[i].state = items[i].state
      BY <3>1 DEF Item
    <3>3. Item(k, items[i].state, TRUE).uploaded
      BY Zenon DEF Item
    <3> QED BY <2>1, <3>1, <3>2, <3>3, Zenon
  <2>2. CASE items[i].key # k
    BY <1>5, <2>2, Zenon
  <2> QED BY <2>1, <2>2
<1> QED BY <1>6, <1>7, <1>8 DEF f, g, Items, ItemSet

\* The queue with a send put at its end.
LEMMA PutLast ==
  ASSUME items \in Seq(ItemSet), NEW x \in ItemSet
  PROVE  /\ Append(items, x) \in Seq(ItemSet) /\ DOMAIN Append(items, x) = 1..(Len(items) + 1)
         /\ DOMAIN items = 1..Len(items) /\ Len(items) \in Nat
         /\ \A i \in DOMAIN items : Append(items, x)[i] = items[i]
         /\ Append(items, x)[Len(items) + 1] = x
BY OneMore, SeqFacts

WithNew(k) == Append(items, Item(k, "queued", FALSE))

\* The same of a new item.
LEMMA Typed ==
  ASSUME TypeOK, NEW k \in Send
  PROVE  /\ WithNew(k) \in Items /\ DOMAIN WithNew(k) = 1..(Len(items) + 1) /\ DOMAIN items = 1..Len(items) /\ Len(items) \in Nat
         /\ \A i \in DOMAIN items : WithNew(k)[i] = items[i]
         /\ WithNew(k)[Len(items) + 1].key = k /\ WithNew(k)[Len(items) + 1].state = "queued" /\ ~WithNew(k)[Len(items) + 1].uploaded
<1> DEFINE x == Item(k, "queued", FALSE)
           d == WithNew(k)
<1>1. items \in Seq(ItemSet) /\ x \in ItemSet
  BY DEF TypeOK, Items, ItemSet, Item
<1>2. x.key = k /\ x.state = "queued"
  BY DEF Item
<1>3. ~x.uploaded
  BY Zenon DEF Item
<1>4. d = Append(items, x)
  BY DEF WithNew
<1> HIDE DEF x, d
<1>5. d \in Seq(ItemSet) /\ DOMAIN d = 1..(Len(items) + 1) /\ DOMAIN items = 1..Len(items) /\ Len(items) \in Nat
      /\ d[Len(items) + 1] = x /\ \A i \in DOMAIN items : d[i] = items[i]
  BY <1>1, <1>4, PutLast, Zenon
<1> QED BY <1>2, <1>3, <1>5, Zenon DEF Items, ItemSet, d

\* The queue with a send taken out: the others are there, in their order.
LEMMA TakenOut ==
  ASSUME TypeOK, NEW k \in Keys(items)
  PROVE  /\ Without(k) \in Items
         /\ \A i \in DOMAIN items : items[i].key # k => \E j \in DOMAIN Without(k) : Without(k)[j] = items[i]
         /\ \E at0 \in Nat : /\ \A i \in DOMAIN Without(k) :
                                  LET o == IF i < at0 THEN i ELSE i + 1 IN
                                  o \in DOMAIN items /\ Without(k)[i] = items[o]
                             /\ at0 \in DOMAIN items
<1> DEFINE p == CHOOSE i \in DOMAIN items : items[i].key = k
           n == Len(items)
           d == RemoveAt(items, p)
<1>1. items \in Seq(ItemSet)
  BY DEF TypeOK, Items, ItemSet
<1>2. p \in DOMAIN items /\ items[p].key = k
  BY Zenon DEF Keys
<1>3. n \in Nat /\ DOMAIN items = 1..n
  BY <1>1, SeqFacts
<1>4. Without(k) = d
  BY DEF Without
<1> HIDE DEF p
<1>5. /\ d \in Seq(ItemSet) /\ Len(d) = n - 1
      /\ \A i \in 1..(p - 1) : d[i] = items[i]
      /\ \A i \in p..(n - 1) : d[i] = items[i + 1]
  BY <1>1, <1>2, <1>3, OneOut
<1>6. DOMAIN d = 1..(n - 1)
  BY <1>5, SeqFacts
<1> HIDE DEF d, n
<1>7. ASSUME NEW i \in DOMAIN items, items[i].key # k
      PROVE  \E j \in DOMAIN d : d[j] = items[i]
  <2>1. i # p
    BY <1>2, <1>7
  <2>2. CASE i < p
    BY <1>2, <1>3, <1>5, <1>6, <2>2
  <2>3. CASE i > p
    <3>1. i - 1 \in DOMAIN d /\ i - 1 \in p..(n - 1) /\ (i - 1) + 1 = i
      BY <1>2, <1>3, <1>6, <2>3
    <3>2. d[i - 1] = items[i]
      BY <1>5, <3>1
    <3> QED BY <3>1, <3>2
  <2> QED BY <1>2, <1>3, <2>1, <2>2, <2>3
<1>8. ASSUME NEW i \in DOMAIN d
      PROVE  LET o == IF i < p THEN i ELSE i + 1 IN o \in DOMAIN items /\ d[i] = items[o]
  BY <1>2, <1>3, <1>5, <1>6
<1>9. p \in Nat
  BY <1>2, <1>3
<1> QED BY <1>2, <1>4, <1>5, <1>7, <1>8, <1>9 DEF Items, ItemSet

-----------------------------------------------------------------------------
(* What the device has in hand: its types, and how the queue, the writes   *)
(* under way and the step drain is at belong together.                     *)

\* The documents in the order they were or will be written: what is saved,
\* then the writes under way.  The last is the queue.
Places == 0..Len(writes)
Doc(p) == IF p = 0 THEN saved ELSE writes[p].doc

LastDoc == up => items = Doc(Len(writes))
Down == ~up => at = "idle" /\ sending = None /\ writes = <<>>
Busy == at \in {"upload", "post", "waiting"} => sending \in Keys(items)
Awaits == at = "waiting" => calls[call].key = sending
OneWaits == \A p, q \in DOMAIN writes : writes[p].next # "drain" /\ writes[q].next # "drain" => p = q
Writing == \A p \in DOMAIN writes : writes[p].next # "drain" => at = "writing"
ThenPost == \A p \in DOMAIN writes : writes[p].next = "post" => sending \in Keys(items)

\* A call that says the message is there is right.
Answers == \A c \in Call : At(c, {"stored", "answered"}) => Stored(calls[c].key)

Flow == LastDoc /\ Down /\ Busy /\ Awaits /\ OneWaits /\ Writing /\ ThenPost
Base == TypeOK /\ Flow /\ Answers

\* Every document is a queue of items.
LEMMA DocTypes ==
  ASSUME TypeOK
  PROVE  /\ Len(writes) \in Nat /\ DOMAIN writes = 1..Len(writes) /\ writes \in Seq(WriteSet)
         /\ \A p \in Places : Doc(p) \in Items
         /\ \A p \in DOMAIN writes : writes[p].next \in {"drain", "loop", "post"} /\ writes[p].doc \in Items
         /\ writes # <<>> <=> Len(writes) # 0
<1>1. writes \in Seq(WriteSet)
  BY DEF TypeOK, WriteSet
<1>2. Len(writes) \in Nat /\ DOMAIN writes = 1..Len(writes) /\ \A p \in DOMAIN writes : writes[p] \in WriteSet
  BY <1>1, SeqFacts
<1>3. writes # <<>> <=> Len(writes) # 0
  BY <1>1, SeqFacts
<1>4. \A p \in DOMAIN writes : writes[p].next \in {"drain", "loop", "post"} /\ writes[p].doc \in Items
  BY <1>2 DEF WriteSet
<1>5. saved \in Items
  BY DEF TypeOK
<1>6. \A p \in Places : p # 0 => p \in DOMAIN writes
  BY <1>2 DEF Places
<1> QED BY <1>1, <1>2, <1>3, <1>4, <1>5, <1>6 DEF Doc

\* The items of a queue.
LEMMA ItemTypes ==
  ASSUME NEW d \in Items
  PROVE  /\ Len(d) \in Nat /\ DOMAIN d = 1..Len(d)
         /\ \A i \in DOMAIN d : d[i].key \in Send /\ d[i].state \in {"queued", "failed"} /\ d[i].uploaded \in BOOLEAN
         /\ Keys(d) \subseteq Send
<1>1. d \in Seq(ItemSet)
  BY DEF Items, ItemSet
<1>2. Len(d) \in Nat /\ DOMAIN d = 1..Len(d) /\ \A i \in DOMAIN d : d[i] \in ItemSet
  BY <1>1, SeqFacts
<1>3. \A i \in DOMAIN d : d[i].key \in Send /\ d[i].state \in {"queued", "failed"} /\ d[i].uploaded \in BOOLEAN
  BY <1>2 DEF ItemSet
<1> QED BY <1>2, <1>3 DEF Keys

\* persist: one more document, the others as they were.
LEMMA Wrote ==
  ASSUME TypeOK, NEW d \in Items, NEW n \in {"drain", "loop", "post"}, Persist(d, n), saved' = saved
  PROVE  /\ Len(writes) \in Nat /\ Len(writes)' = Len(writes) + 1 /\ Len(writes) + 1 \notin Places
         /\ writes' \in Seq(WriteSet) /\ items' = d
         /\ DOMAIN writes = 1..Len(writes) /\ DOMAIN writes' = 1..(Len(writes) + 1)
         /\ Places' = Places \cup {Len(writes) + 1} /\ DOMAIN writes' = DOMAIN writes \cup {Len(writes) + 1}
         /\ \A p \in DOMAIN writes : writes'[p] = writes[p]
         /\ \A p \in Places : Doc(p)' = Doc(p)
         /\ \A p \in {Len(writes) + 1} : Doc(p)' = d /\ writes'[p].next = n
<1> DEFINE x == [doc |-> d, next |-> n]
           m == Len(writes)
<1>1. writes \in Seq(WriteSet) /\ m \in Nat /\ DOMAIN writes = 1..m
  BY DocTypes
<1>2. x \in WriteSet /\ x.doc = d /\ x.next = n
  BY DEF WriteSet
<1>3. writes' = Append(writes, x) /\ items' = d
  BY DEF Persist
<1> HIDE DEF x
<1>4. /\ writes' \in Seq(WriteSet) /\ Len(writes') = m + 1 /\ DOMAIN writes' = 1..(m + 1)
      /\ \A p \in 1..m : writes'[p] = writes[p]
      /\ writes'[m + 1] = x
  BY <1>1, <1>2, <1>3, OneMore
<1>5. Places' = Places \cup {m + 1} /\ DOMAIN writes' = DOMAIN writes \cup {m + 1} /\ m + 1 \notin Places
  BY <1>1, <1>4 DEF Places
<1>6. \A p \in Places : p # 0 => p \in 1..m
  BY <1>1 DEF Places
<1>7. \A p \in Places : Doc(p)' = Doc(p)
  BY <1>4, <1>6 DEF Doc
<1>8. m + 1 # 0
  BY <1>1
<1>9. \A p \in {m + 1} : Doc(p)' = d /\ writes'[p].next = n
  BY <1>2, <1>4, <1>8 DEF Doc
<1> QED BY <1>1, <1>3, <1>4, <1>5, <1>7, <1>9

\* A write lands: the documents move up by one.
LEMMA Landed ==
  ASSUME TypeOK, Written
  PROVE  /\ Len(writes) \in Nat \ {0} /\ Len(writes)' = Len(writes) - 1
         /\ writes' \in Seq(WriteSet) /\ saved' = Doc(1) /\ Head(writes).next = writes[1].next
         /\ DOMAIN writes = 1..Len(writes) /\ DOMAIN writes' = 1..(Len(writes) - 1)
         /\ Places' = 0..(Len(writes) - 1)
         /\ \A p \in DOMAIN writes' : writes'[p] = writes[p + 1] /\ p + 1 \in DOMAIN writes
         /\ \A p \in Places' : Doc(p)' = Doc(p + 1) /\ p + 1 \in Places /\ p \in Places
<1> DEFINE m == Len(writes)
<1>1. writes \in Seq(WriteSet) /\ m \in Nat /\ DOMAIN writes = 1..m /\ writes # <<>> /\ writes' = Tail(writes)
      /\ saved' = Head(writes).doc
  BY DocTypes DEF Written
<1>2. /\ Head(writes) = writes[1] /\ m \in Nat \ {0}
      /\ writes' \in Seq(WriteSet) /\ Len(writes') = m - 1 /\ DOMAIN writes' = 1..(m - 1)
      /\ \A i \in 1..(m - 1) : writes'[i] = writes[i + 1]
  BY <1>1, OneLess
<1>3. saved' = Doc(1) /\ Head(writes).next = writes[1].next
  BY <1>1, <1>2 DEF Doc
<1>4. Places' = 0..(m - 1)
  BY <1>2 DEF Places
<1>5. \A p \in DOMAIN writes' : writes'[p] = writes[p + 1] /\ p + 1 \in DOMAIN writes
  BY <1>1, <1>2
<1>6. ASSUME NEW p \in Places'
      PROVE  Doc(p)' = Doc(p + 1) /\ p + 1 \in Places /\ p \in Places
  <2>1. p + 1 \in Places /\ p \in Places /\ p + 1 # 0
    BY <1>2, <1>4, <1>6 DEF Places
  <2>2. CASE p = 0
    BY <1>3, <2>1, <2>2 DEF Doc
  <2>3. CASE p # 0
    <3>1. p \in 1..(m - 1)
      BY <1>2, <1>4, <1>6, <2>3
    <3> QED BY <1>2, <2>1, <2>3, <3>1 DEF Doc
  <2> QED BY <2>1, <2>2, <2>3
<1> QED BY <1>1, <1>2, <1>3, <1>4, <1>5, <1>6

\* A row more at the end.
LEMMA RowsGrow ==
  ASSUME TypeOK, NEW k \in Send, rows' = Append(rows, k)
  PROVE  /\ rows' \in Seq(Send) /\ Range(rows)' = Range(rows) \cup {k}
         /\ DOMAIN rows' = 1..(Len(rows) + 1) /\ DOMAIN rows = 1..Len(rows) /\ Len(rows) \in Nat
         /\ \A i \in DOMAIN rows : rows'[i] = rows[i]
         /\ rows'[Len(rows) + 1] = k
<1>1. rows \in Seq(Send)
  BY DEF TypeOK
<1>2. /\ rows' \in Seq(Send) /\ DOMAIN rows' = 1..(Len(rows) + 1)
      /\ \A i \in 1..Len(rows) : rows'[i] = rows[i]
      /\ rows'[Len(rows) + 1] = k
  BY <1>1, OneMore
<1>3. DOMAIN rows = 1..Len(rows) /\ Len(rows) \in Nat
  BY <1>1, SeqFacts
<1>4. DOMAIN rows' = DOMAIN rows \cup {Len(rows) + 1}
  BY <1>2, <1>3
<1>5. Range(rows)' = Range(rows) \cup {k}
  BY <1>2, <1>3, <1>4 DEF Range
<1> QED BY <1>2, <1>3, <1>5

Stages == {"sent", "checked", "looked", "stored", "answered", "refused"}
RowsMove == rows' = rows \/ \E k \in Send : rows' = Append(rows, k)

\* What a step of a call does to it: it goes to another stage, and says the
\* message is stored only when it is, or its answer is dropped unheard.
CallMove(c) ==
  \/ /\ calls[c] # None
     /\ \E s \in Stages : /\ Stage(c, calls[c].key, s)
                          /\ s \in {"stored", "answered"} => calls[c].key \in Range(rows)'
  \/ c # call /\ Free(c)

\* The steps of the hub leave the device alone.
LEMMA HubMoves ==
  ASSUME TypeOK, Answers, NEW c \in Call, HubStep(c) \/ CallLimited(c) \/ CallErrs(c)
  PROVE  /\ UNCHANGED <<device, saved, up, open, history>>
         /\ CallMove(c) /\ RowsMove /\ media' \in [Send -> {"none", "free", "sent"}] /\ left' \in 0..MaxEvents
<1> DEFINE Goal == /\ UNCHANGED <<device, saved, up, open, history>>
                   /\ CallMove(c) /\ RowsMove /\ media' \in [Send -> {"none", "free", "sent"}]
                   /\ left' \in 0..MaxEvents
<1>t. media \in [Send -> {"none", "free", "sent"}] /\ left \in 0..MaxEvents /\ MaxEvents \in Nat
      /\ calls[c] \in {None} \cup [key : Send, at : Stages]
  BY SendingAssumption DEF TypeOK, Stages
<1>k. ASSUME calls[c] # None PROVE calls[c].key \in Send
  BY <1>k, <1>t
<1>1. CASE CallChecks(c)
  BY <1>1, <1>t DEF CallChecks, CallMove, At, RowsMove, Stages
<1>2. CASE CallFinds(c)
  BY <1>2, <1>t DEF CallFinds, CallMove, At, RowsMove, Stages, Stored
<1>3. CASE CallLimited(c)
  BY <1>3, <1>t DEF CallLimited, CallMove, At, RowsMove, Stages, Happens
<1>4. CASE CallErrs(c)
  BY <1>4, <1>t DEF CallErrs, CallMove, At, RowsMove, Stages, Happens
<1>5. CASE CallAnswers(c)
  <2>1. calls[c].key \in Range(rows)
    BY <1>5 DEF CallAnswers, Answers, At, Stored
  <2> QED BY <1>5, <1>t, <2>1 DEF CallAnswers, CallMove, At, RowsMove, Stages
<1>6. CASE Unheard(c)
  BY <1>6, <1>t DEF Unheard, CallMove, At, RowsMove, Stages
<1>7. CASE CallStores(c)
  <2> DEFINE k == calls[c].key
  <2>0. k \in Send /\ calls[c] # None
    BY <1>7, <1>k DEF CallStores, At
  <2>1. CASE Stored(k) /\ Stage(c, k, "answered") /\ UNCHANGED <<rows, media>>
    BY <1>7, <1>t, <2>0, <2>1 DEF CallStores, CallMove, At, RowsMove, Stages, Stored
  <2>2. CASE ~Stored(k) /\ ~Sendable(k) /\ Stage(c, k, "refused") /\ UNCHANGED <<rows, media>>
    BY <1>7, <1>t, <2>0, <2>2 DEF CallStores, CallMove, At, RowsMove, Stages
  <2>3. CASE /\ ~Stored(k) /\ Sendable(k)
             /\ rows' = Append(rows, k)
             /\ media' = IF k \in HasFile THEN [media EXCEPT ![k] = "sent"] ELSE media
             /\ Stage(c, k, "stored")
    <3>1. k \in Range(rows)'
      BY <2>0, <2>3, RowsGrow
    <3>2. media' \in [Send -> {"none", "free", "sent"}]
      BY <1>t, <2>3
    <3> QED BY <1>7, <1>t, <2>0, <2>3, <3>1, <3>2 DEF CallStores, CallMove, RowsMove, Stages
  <2> QED BY <1>7, <2>1, <2>2, <2>3 DEF CallStores
<1> QED BY <1>1, <1>2, <1>3, <1>4, <1>5, <1>6, <1>7 DEF HubStep

\* The types and the flow of the device when the hub takes a step.
LEMMA BaseHub ==
  ASSUME Base, NEW c \in Call, HubStep(c) \/ CallLimited(c) \/ CallErrs(c)
  PROVE  Base'
<1>1. /\ UNCHANGED <<items, writes, at, sending, call, timer, saved, up, open, typed, kept, refused>>
      /\ CallMove(c) /\ RowsMove /\ media' \in [Send -> {"none", "free", "sent"}] /\ left' \in 0..MaxEvents
  BY HubMoves DEF Base, device, history
<1>2. rows' \in Seq(Send) /\ Range(rows) \subseteq Range(rows)'
  <2>1. CASE rows' = rows
    BY <2>1 DEF Base, TypeOK
  <2>2. ASSUME NEW k \in Send, rows' = Append(rows, k)
        PROVE  rows' \in Seq(Send) /\ Range(rows) \subseteq Range(rows)'
    BY <2>2, RowsGrow DEF Base
  <2> QED BY <1>1, <2>1, <2>2 DEF RowsMove
<1>3. calls \in [Call -> {None} \cup [key : Send, at : Stages]]
  BY DEF Base, TypeOK, Stages
<1>4. calls' \in [Call -> {None} \cup [key : Send, at : Stages]]
  BY <1>1, <1>3 DEF CallMove, Stage, Free
<1>5. TypeOK'
  BY <1>1, <1>2, <1>4 DEF Base, TypeOK, Stages
<1>6. Awaits'
  BY <1>1, <1>3 DEF Base, Flow, Awaits, CallMove, Stage, Free, TypeOK
<1>7. Answers'
  <2> SUFFICES ASSUME NEW b \in Call, At(b, {"stored", "answered"})'
               PROVE  calls'[b].key \in Range(rows)'
    BY DEF Answers, Stored
  <2>1. CASE b = c
    BY <1>1, <1>3, <2>1 DEF CallMove, Stage, Free, At
  <2>2. CASE b # c
    <3>1. calls'[b] = calls[b]
      BY <1>1, <1>3, <2>2 DEF CallMove, Stage, Free
    <3> QED BY <1>2, <3>1 DEF Base, Answers, At, Stored
  <2> QED BY <2>1, <2>2
<1>8. LastDoc' /\ Down' /\ Busy' /\ OneWaits' /\ Writing' /\ ThenPost'
  BY <1>1 DEF Base, Flow, LastDoc, Down, Busy, OneWaits, Writing, ThenPost, Doc
<1> QED BY <1>5, <1>6, <1>7, <1>8 DEF Base, Flow

\* When the person blocks the agent or the hub sweeps its uploads.
LEMMA BaseAside ==
  ASSUME Base, Block \/ \E k \in Send : SweepUnclaimed(k)
  PROVE  Base' /\ UNCHANGED <<items, writes, at, sending, call, timer, saved, up, typed, kept, refused, calls, rows>>
<1>1. /\ UNCHANGED <<items, writes, at, sending, call, timer, saved, up, typed, kept, refused, calls, rows>>
      /\ media' \in [Send -> {"none", "free", "sent"}] /\ left' \in 0..MaxEvents /\ open' \in BOOLEAN
  <2>1. UNCHANGED <<items, writes, at, sending, call, timer, saved, up, typed, kept, refused, calls, rows>>
    BY DEF Block, SweepUnclaimed, device, history
  <2>2. media' \in [Send -> {"none", "free", "sent"}]
    BY DEF Block, SweepUnclaimed, Base, TypeOK
  <2>3. left' \in 0..MaxEvents
    BY SendingAssumption DEF Block, SweepUnclaimed, Base, TypeOK, Happens
  <2>4. open' \in BOOLEAN
    BY Zenon DEF Block, SweepUnclaimed, Base, TypeOK
  <2> QED BY <2>1, <2>2, <2>3, <2>4
<1>2. TypeOK'
  BY <1>1 DEF Base, TypeOK
<1>3. Flow' /\ Answers'
  BY <1>1 DEF Base, Flow, Answers, LastDoc, Down, Busy, Awaits, OneWaits, Writing, ThenPost, Doc, At, Stored
<1> QED BY <1>1, <1>2, <1>3 DEF Base

\* The steps of drain that do not write the queue down.
Stay == Reconnect \/ RetryTimer \/ DrainNext \/ DrainEnds \/ UploadLost \/ PostLost \/ Post

\* They change where drain is and what it is busy with, and no document.
LEMMA BaseStay ==
  ASSUME Base, Stay
  PROVE  Base' /\ UNCHANGED <<items, writes, saved, up, typed, kept, refused, rows, media, open>>
<1>u. UNCHANGED <<items, writes, saved, up, typed, kept, refused, rows, media, open>> /\ up
  BY DEF Stay, Reconnect, RetryTimer, DrainNext, DrainEnds, UploadLost, PostLost, Post, hub, history
<1>t. TypeOK /\ Flow /\ Answers
  BY DEF Base
<1>a. /\ at' \in {"idle", "loop", "upload", "post", "waiting"}
         \/ (at' = at /\ sending' = sending)
      /\ at # "writing" \/ (at' = at /\ sending' = sending)
  BY <1>t DEF Stay, Reconnect, RetryTimer, DrainNext, DrainEnds, UploadLost, PostLost, Post, Drain, Unreachable, TypeOK
<1>b. OneWaits' /\ Writing' /\ ThenPost' /\ LastDoc' /\ Down'
  BY <1>u, <1>t, <1>a DEF Flow, OneWaits, Writing, ThenPost, LastDoc, Down, Doc
<1>c. calls \in [Call -> {None} \cup [key : Send, at : Stages]]
  BY <1>t DEF TypeOK, Stages
<1>n. None \notin Call /\ None \notin Send
  BY SendingAssumption
<1>1. CASE Reconnect \/ RetryTimer
  <2>1. UNCHANGED <<sending, call, calls, left>> /\ timer' = FALSE /\ at' \in {at, "loop"}
        /\ (at' # at => at = "idle")
    BY <1>1 DEF Reconnect, RetryTimer, Drain, hub
  <2>2. TypeOK'
    BY <1>u, <1>t, <2>1 DEF TypeOK
  <2>3. Busy' /\ Awaits' /\ Answers'
    BY <1>u, <1>t, <2>1 DEF Flow, Busy, Awaits, Answers, At, Stored, TypeOK
  <2> QED BY <1>u, <1>b, <2>2, <2>3 DEF Base, Flow
<1>2. CASE DrainNext
  <2> PICK i \in DOMAIN items : sending' = items[i].key
       /\ at' = IF items[i].key \in HasFile /\ ~items[i].uploaded THEN "upload" ELSE "post"
    BY <1>2 DEF DrainNext
  <2>1. UNCHANGED <<call, calls, left, timer>> /\ at = "loop" /\ at' \in {"upload", "post"}
    BY <1>2 DEF DrainNext, hub
  <2>2. sending' \in Send /\ sending' \in Keys(items)
    BY <1>t, ItemTypes DEF TypeOK, Keys
  <2>3. TypeOK'
    BY <1>u, <1>t, <2>1, <2>2 DEF TypeOK
  <2>4. Busy' /\ Awaits' /\ Answers'
    BY <1>u, <1>t, <2>1, <2>2 DEF Flow, Busy, Awaits, Answers, At, Stored
  <2> QED BY <1>u, <1>b, <2>3, <2>4 DEF Base, Flow
<1>3. CASE DrainEnds
  <2>1. UNCHANGED <<sending, call, calls, left, timer>> /\ at = "loop" /\ at' = "idle"
    BY <1>3 DEF DrainEnds, hub
  <2>2. TypeOK'
    BY <1>u, <1>t, <2>1 DEF TypeOK
  <2>3. Busy' /\ Awaits' /\ Answers'
    BY <1>u, <1>t, <2>1 DEF Flow, Busy, Awaits, Answers, At, Stored
  <2> QED BY <1>u, <1>b, <2>2, <2>3 DEF Base, Flow
<1>4. CASE UploadLost \/ PostLost
  <2>1. /\ sending' = None /\ call' = None /\ timer' = TRUE /\ at' = "idle" /\ left' \in 0..MaxEvents
        /\ calls' = calls \/ (call \in Call /\ Free(call))
    BY <1>4, <1>t, SendingAssumption DEF UploadLost, PostLost, Unreachable, Happens, hub, TypeOK
  <2>2. calls' \in [Call -> {None} \cup [key : Send, at : Stages]]
    BY <1>c, <2>1 DEF Free
  <2>3. TypeOK'
    BY <1>u, <1>t, <2>1, <2>2 DEF TypeOK, Stages
  <2>4. Busy' /\ Awaits'
    BY <2>1 DEF Busy, Awaits
  <2>5. Answers'
    BY <1>u, <1>t, <1>c, <2>1 DEF Answers, At, Stored, Free
  <2> QED BY <1>u, <1>b, <2>3, <2>4, <2>5 DEF Base, Flow
<1>5. CASE Post
  <2> PICK c \in Call : calls[c] = None /\ Stage(c, sending, "sent") /\ call' = c
    BY <1>5 DEF Post
  <2>1. UNCHANGED <<sending, left, timer>> /\ at = "post" /\ at' = "waiting"
    BY <1>5 DEF Post
  <2>2. sending \in Send /\ sending \in Keys(items)
    BY <1>t, <2>1, ItemTypes DEF TypeOK, Flow, Busy
  <2>3. /\ calls' \in [Call -> {None} \cup [key : Send, at : Stages]]
        /\ calls'[c] = [key |-> sending, at |-> "sent"] /\ \A b \in Call \ {c} : calls'[b] = calls[b]
    BY <1>c, <2>2 DEF Stage, Stages
  <2>4. TypeOK'
    BY <1>u, <1>t, <1>n, <2>1, <2>3 DEF TypeOK, Stages
  <2>5. calls'[c].key = sending /\ calls'[c].at = "sent"
    BY <2>3
  <2>6. Busy' /\ Awaits'
    BY <1>u, <2>1, <2>2, <2>5 DEF Busy, Awaits
  <2>7. Answers'
    BY <1>u, <1>t, <2>3, <2>5 DEF Answers, At, Stored
  <2> QED BY <1>u, <1>b, <2>4, <2>6, <2>7 DEF Base, Flow
<1> QED BY <1>1, <1>2, <1>3, <1>4, <1>5 DEF Stay

\* A write asked for beside drain, by enqueue or retry.
LEMMA FlowBeside ==
  ASSUME Base, up, up' = up, NEW d \in Items, Persist(d, "drain"), saved' = saved,
         UNCHANGED <<at, sending, call, calls>>, Keys(items) \subseteq Keys(d)
  PROVE  Flow'
<1>1. TypeOK /\ Flow
  BY DEF Base
<1> DEFINE m == Len(writes)
<1>2. /\ m \in Nat /\ Len(writes)' = m + 1 /\ items' = d /\ DOMAIN writes' = DOMAIN writes \cup {m + 1}
      /\ \A p \in DOMAIN writes : writes'[p] = writes[p]
      /\ \A p \in {m + 1} : Doc(p)' = d /\ writes'[p].next = "drain"
  BY <1>1, Wrote
<1> HIDE DEF m
<1>3. LastDoc'
  BY <1>2 DEF LastDoc, Doc
<1>4. Down' /\ Busy' /\ Awaits'
  BY <1>1, <1>2 DEF Flow, Down, Busy, Awaits
<1>5. OneWaits'
  BY <1>1, <1>2 DEF Flow, OneWaits
<1>6. Writing' /\ ThenPost'
  BY <1>1, <1>2 DEF Flow, Writing, ThenPost
<1> QED BY <1>3, <1>4, <1>5, <1>6 DEF Flow

\* A write that drain awaits.
LEMMA FlowWaits ==
  ASSUME Base, up, up' = up, at \in {"upload", "waiting"}, NEW d \in Items, NEW n \in {"loop", "post"},
         Persist(d, n), saved' = saved, at' = "writing", n = "post" => sending' \in Keys(d)
  PROVE  Flow'
<1>1. TypeOK /\ Flow
  BY DEF Base
<1> DEFINE m == Len(writes)
<1>2. /\ m \in Nat /\ Len(writes)' = m + 1 /\ items' = d /\ DOMAIN writes' = DOMAIN writes \cup {m + 1}
      /\ \A p \in DOMAIN writes : writes'[p] = writes[p]
      /\ \A p \in {m + 1} : Doc(p)' = d /\ writes'[p].next = n
  BY <1>1, Wrote
<1> HIDE DEF m
<1>0. \A p \in DOMAIN writes : writes[p].next = "drain"
  BY <1>1 DEF Flow, Writing
<1>3. LastDoc'
  BY <1>2 DEF LastDoc, Doc
<1>4. Down' /\ Busy' /\ Awaits'
  BY <1>2 DEF Down, Busy, Awaits
<1>5. OneWaits'
  BY <1>0, <1>2 DEF OneWaits
<1>6. Writing' /\ ThenPost'
  BY <1>0, <1>2 DEF Writing, ThenPost
<1> QED BY <1>3, <1>4, <1>5, <1>6 DEF Flow

\* A send is put at the end of the queue.
LEMMA BaseEnqueue ==
  ASSUME Base, NEW k \in Send, Enqueue(k)
  PROVE  Base'
<1> DEFINE d == WithNew(k)
<1>t. TypeOK /\ Flow /\ Answers
  BY DEF Base
<1>1. /\ Persist(d, "drain") /\ UNCHANGED <<at, sending, call, timer, saved, up, calls, rows, media, open, kept, refused, left>>
      /\ up /\ typed' = Append(typed, k)
  BY DEF Enqueue, hub, WithNew
<1>2. /\ d \in Items /\ DOMAIN d = 1..(Len(items) + 1) /\ DOMAIN items = 1..Len(items) /\ Len(items) \in Nat
      /\ \A i \in DOMAIN items : d[i] = items[i]
  BY <1>t, Typed
<1> HIDE DEF d
<1>3. Keys(items) \subseteq Keys(d)
  <2>1. DOMAIN items \subseteq DOMAIN d
    BY <1>2
  <2> QED BY <1>2, <2>1 DEF Keys
<1>4. Flow'
  BY <1>1, <1>2, <1>3, FlowBeside
<1>5. typed' \in Seq(Send)
  BY <1>1, <1>t DEF TypeOK
<1>6. items' \in Items /\ writes' \in Seq(WriteSet)
  BY <1>1, <1>2, <1>t, Wrote
<1>7. TypeOK'
  BY <1>1, <1>t, <1>5, <1>6 DEF TypeOK, WriteSet
<1>8. Answers'
  BY <1>1, <1>t DEF Answers, At, Stored
<1> QED BY <1>4, <1>7, <1>8 DEF Base

\* A failed send waits its turn again.
LEMMA BaseRetry ==
  ASSUME Base, NEW k \in Send, Retry(k)
  PROVE  Base'
<1> DEFINE d == WithState(k, "queued")
<1>t. TypeOK /\ Flow /\ Answers
  BY DEF Base
<1>1. Persist(d, "drain") /\ up
      /\ UNCHANGED <<at, sending, call, timer, saved, up, calls, rows, media, open, typed, kept, refused>>
  BY DEF Retry, hub, history
<1>0. left' \in 0..MaxEvents
  BY <1>t, SendingAssumption DEF Retry, Happens, TypeOK
<1>2. d \in Items /\ DOMAIN d = DOMAIN items /\ \A i \in DOMAIN items : d[i].key = items[i].key
  BY <1>t, Rewritten
<1> HIDE DEF d
<1>3. Keys(items) \subseteq Keys(d)
  BY <1>2 DEF Keys
<1>4. Flow'
  BY <1>1, <1>2, <1>3, FlowBeside
<1>6. items' \in Items /\ writes' \in Seq(WriteSet)
  BY <1>1, <1>2, <1>t, Wrote
<1>7. TypeOK'
  BY <1>0, <1>1, <1>t, <1>6 DEF TypeOK, WriteSet
<1>8. Answers'
  BY <1>1, <1>t DEF Answers, At, Stored
<1> QED BY <1>4, <1>7, <1>8 DEF Base

\* The file is on the hub, and drain waits for that to be written down.
LEMMA BaseUploadDone ==
  ASSUME Base, UploadDone
  PROVE  /\ Base' /\ sending \in Keys(items) /\ sending \in Send /\ WithUpload(sending) \in Items
         /\ Keys(WithUpload(sending)) = Keys(items)
<1> DEFINE d == WithUpload(sending)
<1>t. TypeOK /\ Flow /\ Answers
  BY DEF Base
<1>1. /\ Persist(d, "post") /\ up /\ at = "upload" /\ at' = "writing"
      /\ UNCHANGED <<sending, call, timer, saved, up, calls, rows, open, typed, kept, refused, left>>
      /\ media' = [media EXCEPT ![sending] = "free"]
  BY DEF UploadDone, hub, history
<1>2. sending \in Keys(items) /\ sending \in Send
  BY <1>1, <1>t, ItemTypes DEF Flow, Busy, TypeOK
<1>3. d \in Items /\ DOMAIN d = DOMAIN items /\ \A i \in DOMAIN items : d[i].key = items[i].key
  BY <1>t, <1>2, Rewritten
<1> HIDE DEF d
<1>4. Keys(d) = Keys(items)
  BY <1>3 DEF Keys
<1>5. Flow'
  <2>1. sending' \in Keys(d) /\ at \in {"upload", "waiting"} /\ "post" \in {"loop", "post"}
    BY <1>1, <1>2, <1>4
  <2> QED BY <1>1, <1>3, <2>1, FlowWaits
<1>6. items' \in Items /\ writes' \in Seq(WriteSet)
  BY <1>1, <1>3, <1>t, Wrote
<1>7. media' \in [Send -> {"none", "free", "sent"}]
  BY <1>1, <1>t DEF TypeOK
<1>8. TypeOK'
  BY <1>1, <1>t, <1>6, <1>7 DEF TypeOK, WriteSet
<1>9. Answers'
  BY <1>1, <1>t DEF Answers, At, Stored
<1> QED BY <1>2, <1>3, <1>4, <1>5, <1>8, <1>9 DEF Base, d

\* The hub said no: the same sends in the queue, one of them failed.
LEMMA BaseFails ==
  ASSUME Base, UploadFails \/ Refused
  PROVE  /\ Base' /\ sending \in Keys(items) /\ sending \in Send /\ WithState(sending, "failed") \in Items
         /\ Keys(WithState(sending, "failed")) = Keys(items)
<1> DEFINE d == WithState(sending, "failed")
<1>t. TypeOK /\ Flow /\ Answers
  BY DEF Base
<1>0. Fails(sending)
  BY DEF UploadFails, Refused
<1>1. /\ Persist(d, "loop") /\ up /\ at \in {"upload", "waiting"} /\ at' = "writing"
      /\ sending' = None /\ call' = None /\ refused' = refused \cup {sending}
      /\ UNCHANGED <<timer, saved, up, rows, media, open, typed, kept>>
      /\ calls' = calls \/ (call \in Call /\ Free(call))
      /\ left' \in 0..MaxEvents
  BY <1>0, <1>t, SendingAssumption DEF UploadFails, Refused, Fails, hub, Happens, TypeOK
<1>2. sending \in Keys(items) /\ sending \in Send
  BY <1>1, <1>t, ItemTypes DEF Flow, Busy, TypeOK
<1>3. d \in Items /\ DOMAIN d = DOMAIN items /\ \A i \in DOMAIN items : d[i].key = items[i].key
  BY <1>t, <1>2, Rewritten
<1> HIDE DEF d
<1>4. Keys(d) = Keys(items)
  BY <1>3 DEF Keys
<1>5. Flow'
  <2>1. "loop" \in {"loop", "post"} /\ "loop" # "post"
    OBVIOUS
  <2> QED BY <1>1, <1>3, <2>1, FlowWaits
<1>6. items' \in Items /\ writes' \in Seq(WriteSet)
  BY <1>1, <1>3, <1>t, Wrote
<1>7. calls' \in [Call -> {None} \cup [key : Send, at : Stages]]
  BY <1>1, <1>t DEF TypeOK, Stages, Free
<1>8. TypeOK'
  BY <1>1, <1>2, <1>t, <1>6, <1>7 DEF TypeOK, WriteSet, Stages
<1>9. Answers'
  BY <1>1, <1>t DEF Answers, At, Stored, Free, TypeOK
<1> QED BY <1>2, <1>3, <1>4, <1>5, <1>8, <1>9 DEF Base, d

\* The hub has it: the queue goes on without it.
LEMMA BaseAnswered ==
  ASSUME Base, Answered
  PROVE  Base' /\ sending \in Keys(items) /\ sending \in Send /\ Without(sending) \in Items /\ Stored(sending)
<1> DEFINE d == Without(sending)
<1>t. TypeOK /\ Flow /\ Answers
  BY DEF Base
<1>1. /\ Persist(d, "loop") /\ up /\ at = "waiting" /\ at' = "writing" /\ At(call, {"answered"})
      /\ sending' = None /\ call' = None /\ call \in Call /\ Free(call)
      /\ UNCHANGED <<timer, saved, up, rows, media, open, typed, kept, refused, left>>
  BY <1>t, SendingAssumption DEF Answered, history, TypeOK
<1>2. sending \in Keys(items) /\ sending \in Send
  BY <1>1, <1>t, ItemTypes DEF Flow, Busy, TypeOK
<1>3. d \in Items
  BY <1>t, <1>2, TakenOut
<1> HIDE DEF d
<1>5. Flow'
  <2>1. "loop" \in {"loop", "post"} /\ "loop" # "post" /\ at \in {"upload", "waiting"}
    BY <1>1
  <2> QED BY <1>1, <1>3, <2>1, FlowWaits
<1>6. items' \in Items /\ writes' \in Seq(WriteSet)
  BY <1>1, <1>3, <1>t, Wrote
<1>7. calls' \in [Call -> {None} \cup [key : Send, at : Stages]]
  BY <1>1, <1>t DEF TypeOK, Stages, Free
<1>8. TypeOK'
  BY <1>1, <1>2, <1>t, <1>6, <1>7 DEF TypeOK, WriteSet, Stages
<1>9. Answers'
  BY <1>1, <1>t DEF Answers, At, Stored, Free, TypeOK
<1>10. Stored(sending)
  BY <1>1, <1>t DEF Answers, At, Flow, Awaits
<1> QED BY <1>2, <1>3, <1>5, <1>8, <1>9, <1>10 DEF Base, d

\* What is written down is the keys of a document.
LEMMA SavedKeys == ASSUME NEW doc PROVE {i.key : i \in Range(doc)} = Keys(doc)
BY Zenon DEF Keys, Range

\* A write lands, and what awaited it goes on.
LEMMA BaseWritten ==
  ASSUME Base, Written
  PROVE  Base' /\ kept' = kept \cup Keys(saved')
<1>t. TypeOK /\ Flow /\ Answers
  BY DEF Base
<1>1. /\ Len(writes) \in Nat \ {0} /\ Len(writes)' = Len(writes) - 1
      /\ writes' \in Seq(WriteSet) /\ saved' = Doc(1) /\ Head(writes).next = writes[1].next
      /\ DOMAIN writes = 1..Len(writes) /\ DOMAIN writes' = 1..(Len(writes) - 1)
      /\ Places' = 0..(Len(writes) - 1)
      /\ \A p \in DOMAIN writes' : writes'[p] = writes[p + 1] /\ p + 1 \in DOMAIN writes
      /\ \A p \in Places' : Doc(p)' = Doc(p + 1) /\ p + 1 \in Places
  BY <1>t, Landed
<1>2. UNCHANGED <<items, sending, call, up, calls, rows, media, open, typed, refused, left>> /\ up
  BY DEF Written, hub
<1>3. kept' = kept \cup Keys(saved')
  <2>1. kept' = kept \cup {i.key : i \in Range(saved')}
    BY DEF Written
  <2> QED BY <2>1, SavedKeys
<1>4. 1 \in DOMAIN writes /\ 1 \in Places
  BY <1>1 DEF Places
<1>5. saved' \in Items /\ Keys(saved') \subseteq Send
  BY <1>t, <1>1, <1>4, DocTypes, ItemTypes
<1>6. /\ writes[1].next = "drain" => (at = "idle" /\ at' = "loop" /\ timer' = FALSE) \/ UNCHANGED <<at, timer>>
      /\ writes[1].next # "drain" => at' = writes[1].next /\ timer' = timer /\ at = "writing"
      /\ writes[1].next \in {"drain", "loop", "post"}
  <2>1. writes[1].next \in {"drain", "loop", "post"}
    BY <1>t, <1>4, DocTypes
  <2> QED BY <1>1, <1>4, <1>t, <2>1 DEF Written, Drain, Flow, Writing
<1>7. TypeOK'
  BY <1>1, <1>2, <1>3, <1>5, <1>6, <1>t DEF TypeOK, WriteSet
<1>8. Answers'
  BY <1>2, <1>t DEF Answers, At, Stored
<1>9. LastDoc'
  <2>1. Len(writes)' \in Places' /\ Len(writes)' + 1 = Len(writes)
    BY <1>1
  <2>2. Doc(Len(writes))' = Doc(Len(writes))
    BY <1>1, <2>1 DEF Doc
  <2> QED BY <1>2, <1>t, <2>2 DEF Flow, LastDoc
<1>10. Down' /\ Busy' /\ Awaits'
  <2>1. Down'
    BY <1>2 DEF Down
  <2>2. CASE writes[1].next = "drain"
    BY <1>2, <1>6, <1>t, <2>1, <2>2 DEF Flow, Busy, Awaits
  <2>3. CASE writes[1].next = "loop"
    BY <1>6, <2>1, <2>3 DEF Busy, Awaits
  <2>4. CASE writes[1].next = "post"
    BY <1>2, <1>4, <1>6, <1>t, <2>1, <2>4 DEF Flow, Busy, Awaits, ThenPost
  <2> QED BY <1>6, <2>2, <2>3, <2>4
<1>11. OneWaits'
  BY <1>1, <1>t DEF Flow, OneWaits
<1>12. Writing'
  <2> SUFFICES ASSUME NEW p \in DOMAIN writes', writes'[p].next # "drain"
               PROVE  at' = "writing"
    BY DEF Writing
  <2>1. p + 1 \in DOMAIN writes /\ writes[p + 1].next # "drain" /\ p + 1 # 1
    BY <1>1
  <2>2. at = "writing" /\ writes[1].next = "drain"
    BY <1>4, <1>t, <2>1 DEF Flow, Writing, OneWaits
  <2> QED BY <1>6, <2>2
<1>13. ThenPost'
  BY <1>1, <1>2, <1>t DEF Flow, ThenPost
<1> QED BY <1>3, <1>7, <1>8, <1>9, <1>10, <1>11, <1>12, <1>13 DEF Base, Flow

\* The app dies.
LEMMA BaseDie ==
  ASSUME Base, Die
  PROVE  Base' /\ Places' = {0} /\ Doc(0)' = saved /\ UNCHANGED <<saved, kept, rows, typed, refused, calls, media>>
<1>t. TypeOK /\ Flow /\ Answers
  BY DEF Base
<1>1. /\ up' = FALSE /\ items' = <<>> /\ writes' = <<>> /\ at' = "idle" /\ timer' = FALSE /\ sending' = None /\ call' = None
      /\ UNCHANGED <<saved, calls, rows, media, open, typed, kept, refused>> /\ left' \in 0..MaxEvents
  BY <1>t, SendingAssumption DEF Die, Happens, hub, history, TypeOK
<1>2. items' \in Items /\ writes' \in Seq(WriteSet) /\ Len(writes') = 0 /\ DOMAIN writes' = {}
  BY <1>1 DEF Items
<1>3. TypeOK'
  BY <1>1, <1>2, <1>t DEF TypeOK, WriteSet
<1>4. Flow'
  BY <1>1, <1>2 DEF Flow, LastDoc, Down, Busy, Awaits, OneWaits, Writing, ThenPost
<1>5. Answers'
  BY <1>1, <1>t DEF Answers, At, Stored
<1>6. Places' = {0} /\ Doc(0)' = saved
  BY <1>1, <1>2 DEF Places, Doc
<1> QED BY <1>1, <1>3, <1>4, <1>5, <1>6 DEF Base

\* The app is opened again.
LEMMA BaseOpen ==
  ASSUME Base, Open
  PROVE  /\ Base' /\ Places = {0} /\ Places' = {0} /\ Doc(0)' = Doc(0)
         /\ UNCHANGED <<saved, writes, sending, kept, rows, typed, refused, calls, media>>
<1>t. TypeOK /\ Flow /\ Answers
  BY DEF Base
<1>1. /\ ~up /\ up' = TRUE /\ items' = saved /\ at' = "loop"
      /\ UNCHANGED <<saved, writes, sending, call, timer, calls, rows, media, open, typed, kept, refused, left>>
  BY DEF Open, hub, history
<1>2. at = "idle" /\ writes = <<>> /\ Len(writes) = 0 /\ DOMAIN writes = {}
  BY <1>1, <1>t DEF Flow, Down
<1>3. TypeOK'
  BY <1>1, <1>2, <1>t DEF TypeOK
<1>4. Flow'
  BY <1>1, <1>2 DEF Flow, LastDoc, Down, Busy, Awaits, OneWaits, Writing, ThenPost, Doc
<1>5. Answers'
  BY <1>1, <1>t DEF Answers, At, Stored
<1>6. Places = {0} /\ Places' = {0} /\ Doc(0)' = Doc(0)
  BY <1>1, <1>2 DEF Places, Doc
<1> QED BY <1>1, <1>3, <1>4, <1>5, <1>6 DEF Base

\* What enqueue, retry, the upload, a refusal and an answer write.
Writes == (\E k \in Send : Enqueue(k) \/ Retry(k)) \/ UploadDone \/ UploadFails \/ Refused \/ Answered

\* The steps by what they do to the documents.
LEMMA StepKinds ==
  Next => \/ (\E c \in Call : HubStep(c) \/ CallLimited(c) \/ CallErrs(c))
          \/ (Block \/ \E k \in Send : SweepUnclaimed(k)) \/ Stay
          \/ Writes \/ Written \/ Die \/ Open
BY DEF Next, DeviceStep, Stay, Writes

\* The types and the flow are kept by every step.
LEMMA BaseStep == Base /\ [Next]_vars => Base'
<1> SUFFICES ASSUME Base, [Next]_vars PROVE Base'
  OBVIOUS
<1>1. CASE UNCHANGED vars
  BY <1>1 DEF vars, device, hub, history, Base, TypeOK, Flow, Answers, LastDoc, Down, Busy, Awaits, OneWaits,
     Writing, ThenPost, Doc, At, Stored
<1>2. ASSUME NEW c \in Call, HubStep(c) \/ CallLimited(c) \/ CallErrs(c) PROVE Base'
  BY <1>2, BaseHub
<1>3. CASE Block \/ \E k \in Send : SweepUnclaimed(k)
  BY <1>3, BaseAside
<1>4. CASE Stay
  BY <1>4, BaseStay
<1>5. CASE Writes
  BY <1>5, BaseEnqueue, BaseRetry, BaseUploadDone, BaseFails, BaseAnswered DEF Writes
<1>6. CASE Written \/ Die \/ Open
  BY <1>6, BaseWritten, BaseDie, BaseOpen
<1> QED BY <1>1, <1>2, <1>3, <1>4, <1>5, <1>6, StepKinds

\* An app just installed is typed and idle.
LEMMA BaseInit == Init => Base
<1> SUFFICES ASSUME Init PROVE Base
  OBVIOUS
<1>1. items = <<>> /\ saved = <<>> /\ writes = <<>> /\ rows = <<>> /\ typed = <<>>
  BY DEF Init
<1>2. items \in Items /\ saved \in Items /\ writes \in Seq([doc : Items, next : {"drain", "loop", "post"}])
      /\ rows \in Seq(Send) /\ typed \in Seq(Send)
  BY <1>1 DEF Items
<1>3. TypeOK
  <2>1. timer \in BOOLEAN /\ up \in BOOLEAN /\ open \in BOOLEAN
    BY Zenon DEF Init
  <2>2. /\ calls \in [Call -> {None} \cup [key : Send,
             at : {"sent", "checked", "looked", "stored", "answered", "refused"}]]
        /\ media \in [Send -> {"none", "free", "sent"}]
    BY DEF Init
  <2>3. left \in 0..MaxEvents /\ kept \subseteq Send /\ refused \subseteq Send
        /\ at \in {"idle", "loop", "upload", "writing", "post", "waiting"} /\ sending \in Send \cup {None}
        /\ call \in Call \cup {None} /\ at # "waiting" /\ call = None
    BY SendingAssumption DEF Init
  <2> QED BY <1>2, <2>1, <2>2, <2>3 DEF TypeOK
<1>4. Flow
  BY <1>1 DEF Init, Flow, LastDoc, Down, Busy, Awaits, OneWaits, Writing, ThenPost, Doc
<1>5. Answers
  BY DEF Init, Answers, At
<1> QED BY <1>3, <1>4, <1>5 DEF Base

\* The queue, what is saved, the writes under way and the calls keep their
\* types; a call is awaited exactly while drain waits for one.
THEOREM TypeCorrect == Spec => []TypeOK
<1>1. Base => TypeOK
  BY DEF Base
<1> QED BY <1>1, BaseInit, BaseStep, PTL DEF Spec

-----------------------------------------------------------------------------
(* Nothing is lost.                                                        *)

\* A send of one document is in every later one, or on the hub.
Carried == \A p, q \in Places : p <= q => Keys(Doc(p)) \subseteq Keys(Doc(q)) \cup Range(rows)
LostInv == Base /\ Carried /\ NothingLost

\* NothingLost over the documents.
LEMMA LostKeys == NothingLost <=> \A k \in kept : k \in Keys(Doc(0)) \/ k \in Range(rows)
<1>1. {i.key : i \in Range(saved)} = Keys(saved)
  BY SavedKeys
<1>2. Doc(0) = saved
  BY DEF Doc
<1> QED BY <1>1, <1>2 DEF NothingLost, Stored

\* The same after a step.
LEMMA LostKeysNext == NothingLost' <=> \A k \in kept' : k \in Keys(saved') \/ k \in Range(rows')
<1>1. {i.key : i \in Range(saved')} = Keys(saved')
  BY SavedKeys
<1> QED BY <1>1 DEF NothingLost, Stored

\* A write that drops only what the hub has.
LEMMA LostWrote ==
  ASSUME LostInv, up, NEW d \in Items, NEW n \in {"drain", "loop", "post"}, Persist(d, n),
         UNCHANGED <<saved, rows, kept>>, Keys(items) \subseteq Keys(d) \cup Range(rows)
  PROVE  Carried' /\ NothingLost'
<1> DEFINE m == Len(writes)
<1>1. TypeOK /\ items = Doc(m)
  BY DEF LostInv, Base, Flow, LastDoc
<1>2. /\ m \in Nat /\ Places' = Places \cup {m + 1} /\ \A p \in Places : Doc(p)' = Doc(p)
      /\ \A p \in {m + 1} : Doc(p)' = d
  BY <1>1, Wrote
<1>3. Places = 0..m
  BY DEF Places
<1> HIDE DEF m
<1>4. Carried'
  <2> SUFFICES ASSUME NEW p \in Places', NEW q \in Places', p <= q
               PROVE  Keys(Doc(p)') \subseteq Keys(Doc(q)') \cup Range(rows)
    BY DEF Carried
  <2>1. CASE q \in Places
    <3>1. p \in Places
      BY <1>2, <1>3, <2>1
    <3> QED BY <1>2, <2>1, <3>1 DEF LostInv, Carried
  <2>2. CASE p \in Places /\ q = m + 1
    <3>1. m \in Places /\ p <= m
      BY <1>2, <1>3, <2>2
    <3>2. Keys(Doc(p)) \subseteq Keys(items) \cup Range(rows)
      BY <1>1, <2>2, <3>1 DEF LostInv, Carried
    <3> QED BY <1>2, <2>2, <3>2
  <2>3. CASE p = m + 1 /\ q = m + 1
    BY <2>3
  <2> QED BY <1>2, <1>3, <2>1, <2>2, <2>3
<1>5. NothingLost'
  BY LostKeys, LostKeysNext DEF LostInv, Doc
<1> QED BY <1>4, <1>5

\* Every step carries what was written down, or has it on the hub.
LEMMA LostStep == LostInv /\ [Next]_vars => LostInv'
<1> SUFFICES ASSUME LostInv, [Next]_vars PROVE Carried' /\ NothingLost'
  BY BaseStep DEF LostInv
<1>b. Base /\ TypeOK /\ Carried /\ NothingLost
  BY DEF LostInv, Base
<1>l. \A k \in kept : k \in Keys(Doc(0)) \/ k \in Range(rows)
  BY <1>b, LostKeys
<1>u. ASSUME UNCHANGED <<saved, writes, kept>>, Range(rows) \subseteq Range(rows')
      PROVE  Carried' /\ NothingLost'
  <2>1. Places' = Places /\ \A p \in Places : Doc(p)' = Doc(p)
    BY <1>u DEF Places, Doc
  <2>2. Carried'
    BY <1>b, <1>u, <2>1 DEF Carried
  <2>3. NothingLost'
    BY <1>l, <1>u, LostKeysNext DEF Doc
  <2> QED BY <2>2, <2>3
<1>1. CASE UNCHANGED vars
  BY <1>1, <1>u DEF vars, device, hub, history
<1>2. ASSUME NEW c \in Call, HubStep(c) \/ CallLimited(c) \/ CallErrs(c) PROVE Carried' /\ NothingLost'
  <2>1. UNCHANGED <<saved, writes, kept>> /\ RowsMove
    BY <1>b, <1>2, HubMoves DEF Base, device, history
  <2>2. Range(rows) \subseteq Range(rows')
    BY <1>b, <2>1, RowsGrow DEF RowsMove
  <2> QED BY <1>u, <2>1, <2>2
<1>3. CASE Block \/ \E k \in Send : SweepUnclaimed(k)
  BY <1>b, <1>3, <1>u, BaseAside
<1>4. CASE Stay
  BY <1>b, <1>4, <1>u, BaseStay
<1>5. ASSUME NEW k \in Send, Enqueue(k) PROVE Carried' /\ NothingLost'
  <2>1. Persist(WithNew(k), "drain") /\ UNCHANGED <<saved, rows, kept>> /\ up
    BY <1>5 DEF Enqueue, hub, WithNew
  <2>2. WithNew(k) \in Items /\ Keys(items) \subseteq Keys(WithNew(k))
    <3>1. /\ WithNew(k) \in Items /\ DOMAIN items \subseteq DOMAIN WithNew(k)
          /\ \A i \in DOMAIN items : WithNew(k)[i] = items[i]
      BY <1>b, Typed
    <3> QED BY <3>1 DEF Keys
  <2> QED BY <2>1, <2>2, LostWrote
<1>6. ASSUME NEW k \in Send, Retry(k) PROVE Carried' /\ NothingLost'
  <2>1. Persist(WithState(k, "queued"), "drain") /\ UNCHANGED <<saved, rows, kept>> /\ up
    BY <1>6 DEF Retry, hub, history
  <2>2. WithState(k, "queued") \in Items /\ Keys(items) \subseteq Keys(WithState(k, "queued"))
    <3>1. /\ WithState(k, "queued") \in Items /\ DOMAIN items = DOMAIN WithState(k, "queued")
          /\ \A i \in DOMAIN items : WithState(k, "queued")[i].key = items[i].key
      BY <1>b, Rewritten
    <3> QED BY <3>1 DEF Keys
  <2> QED BY <2>1, <2>2, LostWrote
<1>7. CASE UploadDone
  <2>1. Persist(WithUpload(sending), "post") /\ UNCHANGED <<saved, rows, kept>> /\ up
    BY <1>7 DEF UploadDone, history
  <2>2. WithUpload(sending) \in Items /\ Keys(items) \subseteq Keys(WithUpload(sending))
    BY <1>b, <1>7, BaseUploadDone
  <2> QED BY <2>1, <2>2, LostWrote
<1>8. CASE UploadFails \/ Refused
  <2>1. Persist(WithState(sending, "failed"), "loop") /\ UNCHANGED <<saved, rows, kept>> /\ up
    BY <1>8 DEF UploadFails, Refused, Fails, hub
  <2>2. WithState(sending, "failed") \in Items /\ Keys(items) \subseteq Keys(WithState(sending, "failed"))
    BY <1>b, <1>8, BaseFails
  <2> QED BY <2>1, <2>2, LostWrote
<1>9. CASE Answered
  <2>1. Persist(Without(sending), "loop") /\ UNCHANGED <<saved, rows, kept>> /\ up
    BY <1>9 DEF Answered, history
  <2>2. Without(sending) \in Items /\ sending \in Keys(items) /\ sending \in Range(rows)
    BY <1>b, <1>9, BaseAnswered DEF Stored
  <2>3. Keys(items) \subseteq Keys(Without(sending)) \cup Range(rows)
    <3>1. \A i \in DOMAIN items : items[i].key # sending =>
             \E j \in DOMAIN Without(sending) : Without(sending)[j] = items[i]
      BY <1>b, <2>2, TakenOut
    <3> QED BY <2>2, <3>1 DEF Keys
  <2> QED BY <2>1, <2>2, <2>3, LostWrote
<1>10. CASE Written
  <2>1. /\ Len(writes) \in Nat \ {0} /\ saved' = Doc(1)
        /\ \A p \in Places' : Doc(p)' = Doc(p + 1) /\ p + 1 \in Places
        /\ Places' = 0..(Len(writes) - 1)
    BY <1>b, <1>10, Landed
  <2>2. rows' = rows /\ kept' = kept \cup Keys(saved')
    BY <1>b, <1>10, BaseWritten DEF Written, hub
  <2>3. Carried'
    <3> SUFFICES ASSUME NEW p \in Places', NEW q \in Places', p <= q
                 PROVE  Keys(Doc(p)') \subseteq Keys(Doc(q)') \cup Range(rows)
      BY <2>2 DEF Carried
    <3>1. p + 1 <= q + 1
      BY <2>1
    <3> QED BY <1>b, <2>1, <3>1 DEF Carried
  <2>4. 0 \in Places /\ 1 \in Places /\ 0 <= 1
    BY <2>1 DEF Places
  <2>5. Keys(Doc(0)) \subseteq Keys(Doc(1)) \cup Range(rows)
    BY <1>b, <2>4 DEF Carried
  <2>6. NothingLost'
    BY <1>l, <2>1, <2>2, <2>5, LostKeysNext
  <2> QED BY <2>3, <2>6
<1>11. CASE Die \/ Open
  <2>1. Places' = {0} /\ UNCHANGED <<saved, kept, rows>>
    BY <1>b, <1>11, BaseDie, BaseOpen
  <2>2. Carried'
    BY <2>1 DEF Carried
  <2>3. NothingLost'
    BY <1>l, <2>1, LostKeysNext DEF Doc
  <2> QED BY <2>2, <2>3
<1> QED BY <1>1, <1>2, <1>3, <1>4, <1>5, <1>6, <1>7, <1>8, <1>9, <1>10, <1>11, StepKinds DEF Writes

\* What is written down stays so or is on the hub, in every state.
LEMMA AlwaysLost == Spec => []LostInv
<1>1. Init => Carried /\ NothingLost
  <2> SUFFICES ASSUME Init PROVE Carried /\ NothingLost
    OBVIOUS
  <2>1. Len(writes) = 0 /\ kept = {}
    BY DEF Init
  <2>2. Places = {0}
    BY <2>1 DEF Places
  <2> QED BY <2>1, <2>2 DEF Carried, NothingLost
<1>2. Init => LostInv
  BY <1>1, BaseInit DEF LostInv
<1> QED BY <1>2, LostStep, PTL DEF Spec

\* "a send typed with no signal is not lost when the app is closed": what was
\* once written down is in the cache or on the hub, through any deaths, lost
\* answers, refusals and retries (persist and send in outbox.ts).
THEOREM NoneIsLost == Spec => []NothingLost
<1>1. LostInv => NothingLost
  BY DEF LostInv
<1> QED BY <1>1, AlwaysLost, PTL

-----------------------------------------------------------------------------
(* A stored message keeps its file.                                        *)

Up(k, doc) == \A i \in DOMAIN doc : doc[i].key = k => doc[i].uploaded

\* The hub has this send, or may come to have it.
Posted(k) ==
  \/ Stored(k)
  \/ \E c \in Call : calls[c] # None /\ calls[c].key = k
  \/ at \in {"post", "waiting"} /\ sending = k

\* A send is in a document once.
Once(doc) == \A i, j \in DOMAIN doc : doc[i].key = doc[j].key => i = j
Distinct == \A p \in Places : Once(Doc(p))
\* Documents and calls hold only what was typed.
Known ==
  /\ \A p \in Places : Keys(Doc(p)) \subseteq Range(typed)
  /\ \A k \in Send : Posted(k) => k \in Range(typed)
\* What may reach the hub is not uploaded again, whichever document the app
\* comes back with.
PostedUp == \A k \in HasFile : Posted(k) => \A p \in Places : Up(k, Doc(p))
\* An upload a later document knows of and an earlier one does not is the one
\* drain waits to see written.
UpByPost == \A p, q \in Places : p < q =>
  \A i \in DOMAIN Doc(p), j \in DOMAIN Doc(q) :
     Doc(p)[i].key = Doc(q)[j].key /\ Doc(q)[j].uploaded /\ ~Doc(p)[i].uploaded =>
        Doc(p)[i].key = sending /\ \E r \in (p + 1)..q : writes[r].next = "post"
PostUp == \A r \in DOMAIN writes : writes[r].next = "post" =>
  \A q \in Places : r <= q => Up(sending, Doc(q))
Uploading == at = "upload" => sending \in HasFile /\ ~Up(sending, items)

FileInv == Distinct /\ Known /\ PostedUp /\ UpByPost /\ PostUp /\ Uploading /\ FileKept

\* The queue d that a step writes down, item for item and in the same order
\* from the queue it finds.
From(d, n, o) ==
  /\ o \in [DOMAIN d -> DOMAIN items]
  /\ \A i, j \in DOMAIN d : i < j => o[i] < o[j]
  /\ \A j \in DOMAIN d :
       /\ d[j].key = items[o[j]].key
       /\ items[o[j]].uploaded => d[j].uploaded
       /\ d[j].uploaded => items[o[j]].uploaded \/ (d[j].key = sending /\ n = "post")
       /\ n = "post" /\ d[j].key = sending => d[j].uploaded
       /\ d[j].state = "failed" => items[o[j]].state = "failed" \/ d[j].key \in refused'

\* What waits for that write.
Goes(n) ==
  \/ n = "drain" /\ UNCHANGED <<at, sending>>
  \/ n = "post" /\ at = "upload" /\ at' = "writing" /\ sending' = sending
  \/ n = "loop" /\ at \in {"upload", "waiting"} /\ at' = "writing" /\ sending' = None

\* retry, an upload, a refusal and an answer change one item or take it out.
Rewrites == (\E k \in Send : Retry(k)) \/ UploadDone \/ UploadFails \/ Refused \/ Answered

\* The queue they write comes from the one they find.
LEMMA RewritesFrom ==
  ASSUME Base, Rewrites
  PROVE  \E d \in Items, n \in {"drain", "loop", "post"} : \E o : Persist(d, n) /\ From(d, n, o) /\ Goes(n)
<1>t. TypeOK
  BY DEF Base
<1>d. /\ items \in Items /\ Len(items) \in Nat /\ DOMAIN items = 1..Len(items)
      /\ \A i \in DOMAIN items : items[i].state \in {"queued", "failed"}
  BY <1>t, ItemTypes DEF TypeOK
<1> DEFINE id == [i \in DOMAIN items |-> i]
<1>i. /\ id \in [DOMAIN items -> DOMAIN items] /\ \A i \in DOMAIN items : id[i] = i
      /\ \A i, j \in DOMAIN items : i < j => id[i] < id[j]
  OBVIOUS
<1> HIDE DEF id
<1>1. ASSUME NEW k \in Send, Retry(k)
      PROVE  \E d \in Items, n \in {"drain", "loop", "post"} : \E o : Persist(d, n) /\ From(d, n, o) /\ Goes(n)
  <2> DEFINE d == WithState(k, "queued")
  <2>1. /\ d \in Items /\ DOMAIN d = DOMAIN items
        /\ \A i \in DOMAIN items :
              /\ d[i].key = items[i].key /\ d[i].uploaded = items[i].uploaded
              /\ d[i].state = IF items[i].key = k THEN "queued" ELSE items[i].state
    BY <1>t, Rewritten
  <2>2. Persist(d, "drain") /\ Goes("drain")
    BY <1>1 DEF Retry, Goes
  <2> HIDE DEF d
  <2>3. From(d, "drain", id)
    <3>1. \A i \in DOMAIN d : d[i].state = "failed" => items[id[i]].state = "failed"
      BY <1>i, <2>1
    <3> QED BY <1>i, <2>1, <3>1 DEF From
  <2> QED BY <2>1, <2>2, <2>3
<1>2. ASSUME UploadDone
      PROVE  \E d \in Items, n \in {"drain", "loop", "post"} : \E o : Persist(d, n) /\ From(d, n, o) /\ Goes(n)
  <2> DEFINE d == WithUpload(sending)
  <2>1. /\ d \in Items /\ DOMAIN d = DOMAIN items
        /\ \A i \in DOMAIN items :
              /\ d[i].key = items[i].key /\ d[i].state = items[i].state
              /\ (items[i].key = sending => d[i].uploaded)
              /\ (items[i].key # sending => d[i].uploaded = items[i].uploaded)
    BY <1>t, <1>2, BaseUploadDone, Rewritten
  <2>2. Persist(d, "post") /\ Goes("post")
    BY <1>2 DEF UploadDone, Goes
  <2> HIDE DEF d
  <2>3. \A j \in DOMAIN d : /\ items[id[j]].uploaded => d[j].uploaded
                            /\ d[j].uploaded => items[id[j]].uploaded \/ d[j].key = sending
                            /\ d[j].key = sending => d[j].uploaded
    BY <1>i, <2>1, Zenon
  <2>4. From(d, "post", id)
    BY <1>i, <2>1, <2>3 DEF From
  <2> QED BY <2>1, <2>2, <2>4
<1>3. ASSUME UploadFails \/ Refused
      PROVE  \E d \in Items, n \in {"drain", "loop", "post"} : \E o : Persist(d, n) /\ From(d, n, o) /\ Goes(n)
  <2> DEFINE d == WithState(sending, "failed")
  <2>1. /\ d \in Items /\ DOMAIN d = DOMAIN items
        /\ \A i \in DOMAIN items :
              /\ d[i].key = items[i].key /\ d[i].uploaded = items[i].uploaded
              /\ d[i].state = IF items[i].key = sending THEN "failed" ELSE items[i].state
    BY <1>t, <1>3, BaseFails, Rewritten
  <2>2. Persist(d, "loop") /\ sending \in refused' /\ Goes("loop")
    BY <1>3 DEF UploadFails, Refused, Fails, Goes
  <2> HIDE DEF d
  <2>3. From(d, "loop", id)
    <3>1. \A i \in DOMAIN d : d[i].state = "failed" => items[id[i]].state = "failed" \/ d[i].key \in refused'
      BY <1>i, <2>1, <2>2
    <3> QED BY <1>i, <2>1, <3>1 DEF From
  <2> QED BY <2>1, <2>2, <2>3
<1>4. ASSUME Answered
      PROVE  \E d \in Items, n \in {"drain", "loop", "post"} : \E o : Persist(d, n) /\ From(d, n, o) /\ Goes(n)
  <2> DEFINE d == Without(sending)
  <2>1. d \in Items /\ sending \in Keys(items)
    BY <1>4, BaseAnswered
  <2>2. Persist(d, "loop") /\ Goes("loop")
    BY <1>4 DEF Answered, Goes
  <2>3. PICK p \in Nat : \A i \in DOMAIN d : LET o == IF i < p THEN i ELSE i + 1 IN
                            o \in DOMAIN items /\ d[i] = items[o]
    BY <1>t, <2>1, TakenOut
  <2> DEFINE o == [i \in DOMAIN d |-> IF i < p THEN i ELSE i + 1]
  <2> HIDE DEF d
  <2>4. DOMAIN d = 1..Len(d) /\ Len(d) \in Nat
    BY <2>1, ItemTypes
  <2>5. o \in [DOMAIN d -> DOMAIN items]
    BY <2>3
  <2>6. \A i \in DOMAIN d : d[i] = items[o[i]]
    BY <2>3
  <2>7. \A i, j \in DOMAIN d : i < j => o[i] < o[j]
    BY <2>4
  <2> HIDE DEF o
  <2>8. From(d, "loop", o)
    BY <2>5, <2>6, <2>7 DEF From
  <2> QED BY <2>1, <2>2, <2>8
<1> QED BY <1>1, <1>2, <1>3, <1>4 DEF Rewrites

\* The rest of what these steps do.
LEMMA RewritesRest ==
  ASSUME Base, Rewrites
  PROVE  /\ up /\ UNCHANGED <<saved, up, rows, typed, kept>> /\ refused \subseteq refused'
         /\ \A k \in Send : Posted(k)' => Posted(k)
<1>t. TypeOK
  BY DEF Base
<1>1. up /\ UNCHANGED <<saved, up, rows, typed, kept>> /\ refused \subseteq refused'
  BY DEF Rewrites, Retry, UploadDone, UploadFails, Refused, Answered, Fails, hub, history
<1>2. CASE \E k \in Send : Retry(k)
  <2>1. UNCHANGED <<at, sending, calls, rows>>
    BY <1>2 DEF Retry, hub
  <2>2. \A k \in Send : Posted(k)' => Posted(k)
    BY <2>1 DEF Posted, Stored
  <2> QED BY <1>1, <2>2
<1>3. CASE UploadDone
  <2>1. at = "upload" /\ at' = "writing" /\ UNCHANGED <<sending, calls, rows>>
    BY <1>3 DEF UploadDone
  <2>2. \A k \in Send : Posted(k)' => Posted(k)
    BY <2>1 DEF Posted, Stored
  <2> QED BY <1>1, <2>2
<1>4. CASE UploadFails \/ Refused \/ Answered
  <2>1. /\ at \in {"upload", "waiting"} /\ at' = "writing" /\ sending' = None /\ rows' = rows
        /\ calls' = calls \/ (call \in Call /\ Free(call))
    BY <1>4, <1>t, SendingAssumption DEF UploadFails, Refused, Answered, Fails, hub, TypeOK
  <2>3. \A c \in Call : calls'[c] # None => calls'[c] = calls[c]
    BY <1>t, <2>1 DEF Free, TypeOK
  <2>4. \A k \in Send : Posted(k)' => Posted(k)
    BY <2>1, <2>3 DEF Posted, Stored
  <2> QED BY <1>1, <2>4
<1> QED BY <1>2, <1>3, <1>4 DEF Rewrites

\* Once, through a rewrite.
LEMMA OnceFrom ==
  ASSUME items \in Items, NEW d \in Items, NEW n, NEW o, From(d, n, o), Once(items)
  PROVE  Once(d)
<1> SUFFICES ASSUME NEW i \in DOMAIN d, NEW j \in DOMAIN d, d[i].key = d[j].key PROVE i = j
  BY DEF Once
<1>1. o[i] \in DOMAIN items /\ o[j] \in DOMAIN items /\ items[o[i]].key = items[o[j]].key
  BY DEF From
<1>2. o[i] = o[j]
  BY <1>1 DEF Once
<1>3. i \in Nat /\ j \in Nat /\ o[i] \in Nat
  BY <1>1, ItemTypes
<1>4. ~(i < j) /\ ~(j < i)
  BY <1>2, <1>3 DEF From
<1> QED BY <1>3, <1>4

\* Up, through a rewrite.
LEMMA UpFrom ==
  ASSUME NEW d, NEW n, NEW o, From(d, n, o), NEW k, Up(k, items)
  PROVE  Up(k, d)
<1> SUFFICES ASSUME NEW j \in DOMAIN d, d[j].key = k PROVE d[j].uploaded
  BY DEF Up
<1>1. o[j] \in DOMAIN items /\ items[o[j]].key = k /\ (items[o[j]].uploaded => d[j].uploaded)
  BY DEF From
<1> QED BY <1>1 DEF Up

\* UpByPost, through a rewrite.
LEMMA UpByPostFrom ==
  ASSUME Base, FileInv, up, NEW d \in Items, NEW n \in {"drain", "loop", "post"}, NEW o,
         Persist(d, n), From(d, n, o), Goes(n), saved' = saved
  PROVE  UpByPost'
<1> DEFINE m == Len(writes)
<1>1. TypeOK /\ items = Doc(m) /\ Writing
  BY DEF Base, Flow, LastDoc
<1>2. /\ m \in Nat /\ Places' = Places \cup {m + 1} /\ \A p \in Places : Doc(p)' = Doc(p)
      /\ \A p \in {m + 1} : Doc(p)' = d /\ writes'[p].next = n
      /\ DOMAIN writes = 1..m /\ \A p \in 1..m : writes'[p] = writes[p]
  BY <1>1, Wrote
<1>3. Places = 0..m
  BY DEF Places
<1> HIDE DEF m
<1>4. /\ sending' = sending \/ (n # "post" /\ \A r \in 1..m : writes[r].next # "post")
      /\ n = "post" => sending' = sending
  BY <1>1, <1>2 DEF Goes, Writing
<1> SUFFICES ASSUME NEW p \in Places', NEW q \in Places', p < q,
                    NEW i \in DOMAIN (Doc(p)'), NEW j \in DOMAIN (Doc(q)'),
                    (Doc(p)')[i].key = (Doc(q)')[j].key, (Doc(q)')[j].uploaded, ~(Doc(p)')[i].uploaded
             PROVE  (Doc(p)')[i].key = sending' /\ \E r \in (p + 1)..q : writes'[r].next = "post"
  BY DEF UpByPost
<1>5. p \in Places /\ Doc(p)' = Doc(p) /\ p \in 0..m
  BY <1>2, <1>3
<1>6. ASSUME NEW l \in Places, NEW h \in DOMAIN Doc(l), p < l, l <= q, Doc(p)[i].key = Doc(l)[h].key, Doc(l)[h].uploaded
      PROVE  Doc(p)[i].key = sending' /\ \E r \in (p + 1)..q : writes'[r].next = "post"
  <2>1. Doc(p)[i].key = sending /\ \E r \in (p + 1)..l : writes[r].next = "post"
    BY <1>5, <1>6 DEF FileInv, UpByPost
  <2>2. PICK r \in (p + 1)..l : writes[r].next = "post"
    BY <2>1
  <2>3. r \in 1..m /\ r \in (p + 1)..q
    BY <1>2, <1>3, <1>5, <1>6
  <2> QED BY <1>2, <1>4, <2>1, <2>2, <2>3
<1>7. CASE q \in Places
  BY <1>2, <1>3, <1>5, <1>6, <1>7
<1>8. CASE q = m + 1
  <2>1. /\ o[j] \in DOMAIN items /\ d[j].key = items[o[j]].key /\ Doc(q)' = d /\ d[j].uploaded
        /\ items[o[j]].uploaded \/ (d[j].key = sending /\ n = "post")
    BY <1>2, <1>8 DEF From
  <2>2. CASE items[o[j]].uploaded /\ p = m
    <3>1. i = o[j]
      BY <1>1, <1>5, <2>1, <2>2 DEF FileInv, Distinct, Once
    <3> QED BY <1>1, <1>5, <2>2, <3>1
  <2>3. CASE items[o[j]].uploaded /\ p # m
    <3>1. p < m /\ m <= q /\ m \in Places
      BY <1>2, <1>3, <1>5, <1>8, <2>3
    <3> QED BY <1>1, <1>5, <1>6, <2>1, <2>3, <3>1
  <2>4. CASE d[j].key = sending /\ n = "post"
    <3>1. m + 1 \in (p + 1)..q
      BY <1>2, <1>5, <1>8
    <3> QED BY <1>2, <1>4, <1>5, <2>1, <2>4, <3>1
  <2> QED BY <2>1, <2>2, <2>3, <2>4
<1> QED BY <1>2, <1>7, <1>8

\* The files, through a rewrite.
LEMMA FileRewrites ==
  ASSUME Base, FileInv, Rewrites
  PROVE  FileInv'
<1>r. /\ up /\ UNCHANGED <<saved, up, rows, typed, kept>>
      /\ \A k \in Send : Posted(k)' => Posted(k)
  BY RewritesRest
<1>p. PICK d \in Items, n \in {"drain", "loop", "post"} : \E o : Persist(d, n) /\ From(d, n, o) /\ Goes(n)
  BY RewritesFrom
<1>o. PICK o : Persist(d, n) /\ From(d, n, o) /\ Goes(n)
  BY <1>p
<1> DEFINE m == Len(writes)
<1>1. TypeOK /\ items = Doc(m) /\ Writing
  BY <1>r DEF Base, Flow, LastDoc
<1>2. /\ m \in Nat /\ Places' = Places \cup {m + 1} /\ \A p \in Places : Doc(p)' = Doc(p)
      /\ \A p \in {m + 1} : Doc(p)' = d /\ writes'[p].next = n
      /\ DOMAIN writes = 1..m /\ DOMAIN writes' = DOMAIN writes \cup {m + 1}
      /\ (\A p \in DOMAIN writes : writes'[p] = writes[p]) /\ items' = d
  BY <1>r, <1>1, <1>o, Wrote
<1>3. Places = 0..m
  BY DEF Places
<1> HIDE DEF m
<1>4. m \in Places /\ items \in Items /\ HasFile \subseteq Send
  BY <1>1, <1>2, <1>3, SendingAssumption DEF TypeOK
<1>5. Distinct'
  <2>1. Once(d)
    BY <1>1, <1>4, <1>o, OnceFrom DEF FileInv, Distinct
  <2> QED BY <1>2, <2>1 DEF FileInv, Distinct, Once
<1>6. Known'
  <2>1. Keys(d) \subseteq Keys(items)
    BY <1>o DEF From, Keys
  <2>2. Keys(items) \subseteq Range(typed)
    BY <1>1, <1>4 DEF FileInv, Known
  <2>3. \A p \in Places' : Keys(Doc(p)') \subseteq Range(typed)
    BY <1>2, <2>1, <2>2 DEF FileInv, Known
  <2> QED BY <1>r, <2>3 DEF FileInv, Known
<1>7. PostedUp'
  <2> SUFFICES ASSUME NEW k \in HasFile, Posted(k)', NEW p \in Places' PROVE Up(k, Doc(p)')
    BY DEF PostedUp, Up
  <2>1. \A q \in Places : Up(k, Doc(q))
    BY <1>r, <1>4 DEF FileInv, PostedUp
  <2>2. Up(k, d)
    BY <1>1, <1>4, <1>o, <2>1, UpFrom
  <2> QED BY <1>2, <2>1, <2>2
<1>8. UpByPost'
  BY <1>r, <1>o, UpByPostFrom
<1>9. PostUp'
  <2> SUFFICES ASSUME NEW r \in DOMAIN writes', writes'[r].next = "post", NEW q \in Places', r <= q
               PROVE  Up(sending', Doc(q)')
    BY DEF PostUp, Up
  <2>1. CASE r = m + 1
    <3>1. n = "post" /\ sending' = sending /\ q = m + 1
      BY <1>2, <1>3, <1>o, <2>1 DEF Goes
    <3>2. Up(sending, d)
      BY <1>o, <3>1 DEF From, Up
    <3> QED BY <1>2, <3>1, <3>2
  <2>2. CASE r \in DOMAIN writes
    <3>1. writes[r].next = "post" /\ at = "writing" /\ sending' = sending /\ r <= m
      BY <1>1, <1>2, <1>o, <2>2 DEF Writing, Goes
    <3>2. \A l \in Places : r <= l => Up(sending, Doc(l))
      BY <2>2, <3>1 DEF FileInv, PostUp
    <3>3. Up(sending, d)
      BY <1>1, <1>4, <1>o, <3>1, <3>2, UpFrom
    <3> QED BY <1>2, <3>1, <3>2, <3>3
  <2> QED BY <1>2, <2>1, <2>2
<1>10. Uploading'
  <2>1. CASE \E k \in Send : Retry(k)
    <3> PICK k \in Send : Retry(k)
      BY <2>1
    <3>1. items' = WithState(k, "queued") /\ UNCHANGED <<at, sending>>
      BY DEF Retry, Persist
    <3>2. /\ DOMAIN items' = DOMAIN items
          /\ \A i \in DOMAIN items : items'[i].key = items[i].key /\ items'[i].uploaded = items[i].uploaded
      BY <1>1, <3>1, Rewritten
    <3> QED BY <3>1, <3>2 DEF FileInv, Uploading, Up
  <2>2. CASE UploadDone \/ UploadFails \/ Refused \/ Answered
    <3>1. at' = "writing"
      BY <2>2 DEF UploadDone, UploadFails, Refused, Answered, Fails
    <3> QED BY <3>1 DEF Uploading
  <2> QED BY <2>1, <2>2 DEF Rewrites
<1>11. FileKept'
  <2>1. CASE UploadDone
    <3>1. at = "upload" /\ media' = [media EXCEPT ![sending] = "free"]
      BY <2>1 DEF UploadDone
    <3>2. sending \in HasFile /\ ~Up(sending, items)
      BY <3>1 DEF FileInv, Uploading
    <3>3. ~Stored(sending)
      BY <1>1, <1>4, <3>2 DEF FileInv, PostedUp, Posted
    <3>4. \A k \in Range(rows) : media'[k] = media[k]
      BY <1>1, <3>1, <3>3 DEF Stored, TypeOK
    <3> QED BY <1>r, <3>4 DEF FileInv, FileKept
  <2>2. CASE media' = media
    BY <1>r, <2>2 DEF FileInv, FileKept
  <2> QED BY <2>1, <2>2 DEF Rewrites, Retry, UploadFails, Refused, Answered, hub
<1> QED BY <1>5, <1>6, <1>7, <1>8, <1>9, <1>10, <1>11 DEF FileInv

\* A send more is typed.
LEMMA TypedGrows ==
  ASSUME TypeOK, NEW k \in Send, typed' = Append(typed, k)
  PROVE  /\ Range(typed)' = Range(typed) \cup {k} /\ DOMAIN typed' = 1..(Len(typed) + 1)
         /\ DOMAIN typed = 1..Len(typed) /\ Len(typed) \in Nat
         /\ \A i \in DOMAIN typed : typed'[i] = typed[i]
         /\ typed'[Len(typed) + 1] = k
<1>1. typed \in Seq(Send)
  BY DEF TypeOK
<1>2. /\ DOMAIN typed' = 1..(Len(typed) + 1)
      /\ \A i \in 1..Len(typed) : typed'[i] = typed[i]
      /\ typed'[Len(typed) + 1] = k
  BY <1>1, OneMore
<1>3. DOMAIN typed = 1..Len(typed) /\ Len(typed) \in Nat
  BY <1>1, SeqFacts
<1>4. DOMAIN typed' = DOMAIN typed \cup {Len(typed) + 1}
  BY <1>2, <1>3
<1>5. Range(typed)' = Range(typed) \cup {k}
  BY <1>2, <1>3, <1>4 DEF Range
<1> QED BY <1>2, <1>3, <1>5

\* The files, when a send is typed.
LEMMA FileEnqueue ==
  ASSUME Base, FileInv, NEW k \in Send, Enqueue(k)
  PROVE  FileInv'
<1> DEFINE d == WithNew(k)
           m == Len(writes)
           l == Len(items)
<1>r. /\ up /\ UNCHANGED <<at, sending, saved, up, calls, rows, media>>
      /\ typed' = Append(typed, k) /\ k \notin Range(typed) /\ Persist(d, "drain")
  BY DEF Enqueue, hub, WithNew
<1>1. TypeOK /\ items = Doc(m) /\ ThenPost
  BY <1>r DEF Base, Flow, LastDoc
<1>d. /\ d \in Items /\ DOMAIN d = 1..(l + 1) /\ DOMAIN items = 1..l /\ l \in Nat
      /\ \A i \in DOMAIN items : d[i] = items[i]
      /\ d[l + 1].key = k /\ ~d[l + 1].uploaded
  BY <1>1, Typed
<1> HIDE DEF d, l
<1>e. DOMAIN d = DOMAIN items \cup {l + 1}
  BY <1>d
<1>2. /\ m \in Nat /\ Places' = Places \cup {m + 1} /\ \A p \in Places : Doc(p)' = Doc(p)
      /\ \A p \in {m + 1} : Doc(p)' = d /\ writes'[p].next = "drain"
      /\ DOMAIN writes = 1..m /\ DOMAIN writes' = DOMAIN writes \cup {m + 1}
      /\ (\A p \in DOMAIN writes : writes'[p] = writes[p]) /\ items' = d
  BY <1>r, <1>1, <1>d, Wrote
<1>3. Places = 0..m
  BY DEF Places
<1> HIDE DEF m
<1>4. m \in Places /\ HasFile \subseteq Send
  BY <1>1, <1>2, <1>3, SendingAssumption DEF TypeOK
<1>t. Range(typed)' = Range(typed) \cup {k}
  BY <1>1, <1>r, TypedGrows
<1>n. Keys(items) \subseteq Range(typed) /\ \A i \in DOMAIN items : items[i].key # k
  <2>1. Keys(items) \subseteq Range(typed)
    BY <1>1, <1>4 DEF FileInv, Known
  <2> QED BY <1>r, <2>1 DEF Keys
<1>q. \A j \in Send : Posted(j)' <=> Posted(j)
  BY <1>r DEF Posted, Stored
<1>5. Distinct'
  <2>1. Once(items)
    BY <1>1, <1>4 DEF FileInv, Distinct
  <2>2. Once(d)
    BY <1>d, <1>e, <1>n, <2>1 DEF Once
  <2> QED BY <1>2, <2>2 DEF FileInv, Distinct, Once
<1>6. Known'
  <2>1. Keys(d) \subseteq Keys(items) \cup {k}
    BY <1>d, <1>e DEF Keys
  <2>2. \A p \in Places' : Keys(Doc(p)') \subseteq Range(typed)'
    BY <1>2, <1>t, <1>n, <2>1 DEF FileInv, Known
  <2> QED BY <1>q, <1>t, <2>2 DEF FileInv, Known
<1>u. ASSUME NEW j, j # k, Up(j, items) PROVE Up(j, d)
  BY <1>d, <1>e, <1>u DEF Up
<1>7. PostedUp'
  <2> SUFFICES ASSUME NEW j \in HasFile, Posted(j)', NEW p \in Places' PROVE Up(j, Doc(p)')
    BY DEF PostedUp, Up
  <2>1. j # k /\ \A q \in Places : Up(j, Doc(q))
    BY <1>q, <1>r, <1>4 DEF FileInv, PostedUp, Known
  <2>2. Up(j, d)
    BY <1>1, <1>4, <1>u, <2>1
  <2> QED BY <1>2, <2>1, <2>2
<1>8. UpByPost'
  <2> SUFFICES ASSUME NEW p \in Places', NEW q \in Places', p < q,
                      NEW i \in DOMAIN (Doc(p)'), NEW j \in DOMAIN (Doc(q)'),
                      (Doc(p)')[i].key = (Doc(q)')[j].key, (Doc(q)')[j].uploaded, ~(Doc(p)')[i].uploaded
               PROVE  (Doc(p)')[i].key = sending' /\ \E r \in (p + 1)..q : writes'[r].next = "post"
    BY DEF UpByPost
  <2>1. p \in Places /\ Doc(p)' = Doc(p) /\ p \in 0..m
    BY <1>2, <1>3
  <2>2. ASSUME NEW s \in Places, NEW h \in DOMAIN Doc(s), p < s, s <= q, Doc(p)[i].key = Doc(s)[h].key, Doc(s)[h].uploaded
        PROVE  Doc(p)[i].key = sending' /\ \E r \in (p + 1)..q : writes'[r].next = "post"
    <3>1. Doc(p)[i].key = sending /\ \E r \in (p + 1)..s : writes[r].next = "post"
      BY <2>1, <2>2 DEF FileInv, UpByPost
    <3>2. PICK r \in (p + 1)..s : writes[r].next = "post"
      BY <3>1
    <3>3. r \in 1..m /\ r \in (p + 1)..q
      BY <1>2, <1>3, <2>1, <2>2
    <3> QED BY <1>2, <1>r, <3>1, <3>2, <3>3
  <2>3. CASE q \in Places
    BY <1>2, <1>3, <2>1, <2>2, <2>3
  <2>4. CASE q = m + 1
    <3>1. j \in DOMAIN items /\ d[j] = items[j] /\ Doc(q)' = d
      BY <1>2, <1>d, <1>e, <2>4
    <3>2. CASE p = m
      <4>1. i = j
        BY <1>1, <2>1, <3>1, <3>2 DEF FileInv, Distinct, Once
      <4> QED BY <1>1, <2>1, <3>1, <3>2, <4>1
    <3>3. CASE p # m
      <4>1. p < m /\ m <= q /\ m \in Places
        BY <1>2, <1>3, <2>1, <2>4, <3>3
      <4> QED BY <1>1, <2>1, <2>2, <3>1, <4>1
    <3> QED BY <3>2, <3>3
  <2> QED BY <1>2, <2>3, <2>4
<1>9. PostUp'
  <2> SUFFICES ASSUME NEW r \in DOMAIN writes', writes'[r].next = "post", NEW q \in Places', r <= q
               PROVE  Up(sending', Doc(q)')
    BY DEF PostUp, Up
  <2>1. r \in DOMAIN writes /\ writes[r].next = "post" /\ r <= m
    BY <1>2
  <2>2. \A s \in Places : r <= s => Up(sending, Doc(s))
    BY <2>1 DEF FileInv, PostUp
  <2>3. sending # k
    BY <1>1, <1>n, <1>r, <2>1 DEF ThenPost
  <2>4. Up(sending, d)
    BY <1>1, <1>4, <1>u, <2>1, <2>2, <2>3
  <2> QED BY <1>2, <1>r, <2>2, <2>4
<1>10. Uploading'
  <2>1. ~Up(sending, items) => ~Up(sending, d)
    BY <1>d, <1>e DEF Up
  <2> QED BY <1>2, <1>r, <2>1 DEF FileInv, Uploading
<1>11. FileKept'
  BY <1>r DEF FileInv, FileKept
<1> QED BY <1>5, <1>6, <1>7, <1>8, <1>9, <1>10, <1>11 DEF FileInv

\* The files, when a write lands: what is posted next is uploaded in every
\* document that is left.
LEMMA FileWritten ==
  ASSUME Base, FileInv, Written
  PROVE  FileInv'
<1> DEFINE m == Len(writes)
<1>1. TypeOK /\ Writing /\ ThenPost /\ LastDoc
  BY DEF Base, Flow
<1>2. /\ m \in Nat \ {0} /\ Len(writes)' = m - 1
      /\ DOMAIN writes = 1..m /\ DOMAIN writes' = 1..(m - 1)
      /\ Places' = 0..(m - 1) /\ Head(writes).next = writes[1].next
      /\ \A p \in DOMAIN writes' : writes'[p] = writes[p + 1] /\ p + 1 \in DOMAIN writes
      /\ \A p \in Places' : Doc(p)' = Doc(p + 1) /\ p + 1 \in Places
  BY <1>1, Landed
<1>3. Places = 0..m
  BY DEF Places
<1>r. up /\ UNCHANGED <<items, sending, calls, rows, media, typed>> /\ items = Doc(m)
  BY <1>1 DEF Written, hub, LastDoc
<1> HIDE DEF m
<1>4. /\ at' = at \/ at' = "loop" \/ (at' = "post" /\ writes[1].next = "post")
      /\ 1 \in DOMAIN writes /\ m \in Places /\ HasFile \subseteq Send
  <2>1. 1 \in DOMAIN writes /\ m \in Places
    BY <1>2, <1>3
  <2>2. writes[1].next \in {"drain", "loop", "post"}
    BY <1>1, <2>1, DocTypes
  <2> QED BY <1>2, <2>1, <2>2, SendingAssumption DEF Written, Drain
<1>5. Distinct'
  BY <1>2 DEF FileInv, Distinct, Once
<1>q. ASSUME NEW k \in Send, Posted(k)' PROVE Posted(k) \/ (k = sending /\ writes[1].next = "post")
  BY <1>4, <1>r, <1>q DEF Posted, Stored
<1>6. Known'
  <2>1. \A p \in Places' : Keys(Doc(p)') \subseteq Range(typed)
    BY <1>2 DEF FileInv, Known
  <2>2. writes[1].next = "post" => sending \in Range(typed)
    BY <1>1, <1>4, <1>r DEF FileInv, Known, ThenPost
  <2> QED BY <1>q, <1>r, <2>1, <2>2 DEF FileInv, Known
<1>7. PostedUp'
  <2> SUFFICES ASSUME NEW k \in HasFile, Posted(k)', NEW p \in Places' PROVE Up(k, Doc(p)')
    BY DEF PostedUp, Up
  <2>1. CASE Posted(k)
    BY <1>2, <2>1 DEF FileInv, PostedUp
  <2>2. CASE k = sending /\ writes[1].next = "post"
    <3>1. 1 <= p + 1
      BY <1>2
    <3> QED BY <1>2, <1>4, <2>2, <3>1 DEF FileInv, PostUp
  <2> QED BY <1>4, <1>q, <2>1, <2>2
<1>8. UpByPost'
  <2> SUFFICES ASSUME NEW p \in Places', NEW q \in Places', p < q,
                      NEW i \in DOMAIN (Doc(p)'), NEW j \in DOMAIN (Doc(q)'),
                      (Doc(p)')[i].key = (Doc(q)')[j].key, (Doc(q)')[j].uploaded, ~(Doc(p)')[i].uploaded
               PROVE  (Doc(p)')[i].key = sending' /\ \E r \in (p + 1)..q : writes'[r].next = "post"
    BY DEF UpByPost
  <2>1. p + 1 < q + 1 /\ p + 1 \in Places /\ q + 1 \in Places /\ Doc(p)' = Doc(p + 1) /\ Doc(q)' = Doc(q + 1)
    BY <1>2
  <2>2. Doc(p + 1)[i].key = sending /\ \E r \in (p + 2)..(q + 1) : writes[r].next = "post"
    <3> DEFINE a == p + 1
               b == q + 1
    <3>1. /\ a \in Places /\ b \in Places /\ a < b /\ i \in DOMAIN Doc(a) /\ j \in DOMAIN Doc(b)
          /\ Doc(a)[i].key = Doc(b)[j].key /\ Doc(b)[j].uploaded /\ ~Doc(a)[i].uploaded
      BY <2>1
    <3> HIDE DEF a, b
    <3>2. Doc(a)[i].key = sending /\ \E r \in (a + 1)..b : writes[r].next = "post"
      BY <3>1 DEF FileInv, UpByPost
    <3>3. a + 1 = p + 2
      BY <1>2 DEF a
    <3> QED BY <3>2, <3>3 DEF a, b
  <2>3. PICK r \in (p + 2)..(q + 1) : writes[r].next = "post"
    BY <2>2
  <2>4. r - 1 \in (p + 1)..q /\ r - 1 \in DOMAIN writes' /\ (r - 1) + 1 = r
    BY <1>2
  <2>5. writes'[r - 1].next = "post"
    BY <1>2, <2>3, <2>4
  <2> QED BY <1>r, <2>1, <2>2, <2>4, <2>5
<1>9. PostUp'
  <2> SUFFICES ASSUME NEW r \in DOMAIN writes', writes'[r].next = "post", NEW q \in Places', r <= q
               PROVE  Up(sending', Doc(q)')
    BY DEF PostUp, Up
  <2>1. r + 1 <= q + 1 /\ writes[r + 1].next = "post" /\ r + 1 \in DOMAIN writes /\ q + 1 \in Places
    BY <1>2
  <2> QED BY <1>2, <1>r, <2>1 DEF FileInv, PostUp
<1>10. Uploading'
  BY <1>4, <1>r DEF FileInv, Uploading
<1>11. FileKept'
  BY <1>r DEF FileInv, FileKept
<1> QED BY <1>5, <1>6, <1>7, <1>8, <1>9, <1>10, <1>11 DEF FileInv

\* The documents are as they were, and so is what drain waits for.
LEMMA FileSameDocs ==
  ASSUME FileInv, UNCHANGED <<saved, writes, items, typed>>, \A k \in Send : Posted(k)' => Posted(k),
         FileKept', Uploading', HasFile \subseteq Send,
         sending' = sending \/ \A r \in DOMAIN writes : writes[r].next # "post", Len(writes) \in Nat,
         DOMAIN writes = 1..Len(writes)
  PROVE  FileInv'
<1>1. Places' = Places /\ \A p \in Places : Doc(p)' = Doc(p)
  BY DEF Places, Doc
<1>2. Distinct' /\ Known' /\ PostedUp'
  BY <1>1 DEF FileInv, Distinct, Known, PostedUp, Once
<1>3. PostUp'
  BY <1>1 DEF FileInv, PostUp
<1>4. UpByPost'
  <2>1. CASE sending' = sending
    BY <1>1, <2>1 DEF FileInv, UpByPost
  <2>2. CASE \A r \in DOMAIN writes : writes[r].next # "post"
    <3>1. \A p, q \in Places : \A r \in (p + 1)..q : r \in DOMAIN writes
      BY DEF Places
    <3> QED BY <1>1, <2>2, <3>1 DEF FileInv, UpByPost
  <2> QED BY <2>1, <2>2
<1> QED BY <1>2, <1>3, <1>4 DEF FileInv

\* The files, when drain takes a step that writes nothing.
LEMMA FileStay ==
  ASSUME Base, FileInv, Stay
  PROVE  FileInv'
<1>u. UNCHANGED <<items, writes, saved, up, typed, rows, media>> /\ TypeOK /\ Writing /\ LastDoc
  BY BaseStay DEF Base, Flow
<1>w. Len(writes) \in Nat /\ DOMAIN writes = 1..Len(writes) /\ HasFile \subseteq Send
  BY <1>u, DocTypes, SendingAssumption
<1>k. FileKept'
  BY <1>u DEF FileInv, FileKept
<1>1. CASE Reconnect \/ RetryTimer
  <2>1. UNCHANGED <<sending, calls>> /\ (at' = at \/ (at' = "loop" /\ at = "idle"))
    BY <1>1 DEF Reconnect, RetryTimer, Drain, hub
  <2>2. \A k \in Send : Posted(k)' => Posted(k)
    BY <1>u, <2>1 DEF Posted, Stored
  <2>3. Uploading'
    BY <1>u, <2>1 DEF FileInv, Uploading
  <2> QED BY <1>u, <1>w, <1>k, <2>1, <2>2, <2>3, FileSameDocs
<1>2. CASE DrainEnds
  <2>1. UNCHANGED <<sending, calls>> /\ at' = "idle"
    BY <1>2 DEF DrainEnds, hub
  <2>2. \A k \in Send : Posted(k)' => Posted(k)
    BY <1>u, <2>1 DEF Posted, Stored
  <2>3. Uploading'
    BY <2>1 DEF Uploading
  <2> QED BY <1>u, <1>w, <1>k, <2>1, <2>2, <2>3, FileSameDocs
<1>3. CASE UploadLost \/ PostLost
  <2>1. /\ at' = "idle" /\ at \in {"upload", "waiting"}
        /\ calls' = calls \/ (call \in Call /\ Free(call))
    BY <1>3, <1>u, SendingAssumption DEF UploadLost, PostLost, Unreachable, hub, TypeOK
  <2>2. \A c \in Call : calls'[c] # None => calls'[c] = calls[c]
    BY <1>u, <2>1 DEF Free, TypeOK
  <2>3. \A k \in Send : Posted(k)' => Posted(k)
    BY <1>u, <2>1, <2>2 DEF Posted, Stored
  <2>4. Uploading'
    BY <2>1 DEF Uploading
  <2>5. \A r \in DOMAIN writes : writes[r].next # "post"
    BY <1>u, <2>1 DEF Writing
  <2> QED BY <1>u, <1>w, <1>k, <2>3, <2>4, <2>5, FileSameDocs
<1>4. CASE Post
  <2>1. /\ at = "post" /\ at' = "waiting" /\ sending' = sending
        /\ \E c \in Call : Stage(c, sending, "sent")
    BY <1>4 DEF Post
  <2>2. \A c \in Call : calls'[c] = calls[c] \/ calls'[c].key = sending
    BY <1>u, <2>1 DEF Stage, TypeOK
  <2>3. \A k \in Send : Posted(k)' => Posted(k)
    BY <1>u, <2>1, <2>2 DEF Posted, Stored
  <2>4. Uploading'
    BY <2>1 DEF Uploading
  <2> QED BY <1>u, <1>w, <1>k, <2>1, <2>3, <2>4, FileSameDocs
<1>5. CASE DrainNext
  <2>1. PICK i \in DOMAIN items :
          /\ sending' = items[i].key
          /\ at' = IF items[i].key \in HasFile /\ ~items[i].uploaded THEN "upload" ELSE "post"
    BY <1>5 DEF DrainNext
  <2>2. at = "loop" /\ calls' = calls /\ up
    BY <1>5 DEF DrainNext, hub
  <2>3. \A r \in DOMAIN writes : writes[r].next # "post"
    BY <1>u, <2>2 DEF Writing
  <2>4. Places' = Places /\ (\A p \in Places : Doc(p)' = Doc(p)) /\ items = Doc(Len(writes)) /\ Len(writes) \in Places
    BY <1>u, <1>w, <2>2 DEF Places, Doc, LastDoc
  <2>5. ASSUME NEW k \in Send, Posted(k)' PROVE Posted(k) \/ (k = items[i].key /\ (k \in HasFile => items[i].uploaded))
    <3>1. CASE Stored(k)' \/ \E c \in Call : calls'[c] # None /\ calls'[c].key = k
      BY <1>u, <2>2, <3>1 DEF Posted, Stored
    <3>2. CASE at' \in {"post", "waiting"} /\ sending' = k
      BY <2>1, <3>2
    <3> QED BY <2>5, <3>1, <3>2 DEF Posted
  <2>6. Distinct' /\ PostUp'
    BY <1>u, <2>3, <2>4 DEF FileInv, Distinct, Once, PostUp
  <2>7. Known'
    <3>1. items[i].key \in Range(typed)
      BY <2>4 DEF FileInv, Known, Keys
    <3> QED BY <1>u, <2>4, <2>5, <3>1 DEF FileInv, Known
  <2>8. \A p, q \in Places : \A r \in (p + 1)..q : r \in DOMAIN writes
    BY <1>w DEF Places
  <2>l. \A p \in Places : p # Len(writes) => p < Len(writes)
    <3>1. \A m \in Nat : \A p \in 0..m : p # m => p < m
      OBVIOUS
    <3> QED BY <1>w, <3>1, Zenon DEF Places
  <2>9. PostedUp'
    <3> SUFFICES ASSUME NEW k \in HasFile, Posted(k)', NEW p \in Places', NEW h \in DOMAIN Doc(p), Doc(p)[h].key = k
                 PROVE  Doc(p)[h].uploaded
      BY <2>4 DEF PostedUp, Up
    <3>1. CASE Posted(k)
      BY <2>4, <3>1 DEF FileInv, PostedUp, Up
    <3>2. CASE k = items[i].key /\ items[i].uploaded
      <4>1. CASE p = Len(writes)
        <5>1. h = i
          BY <2>4, <3>2, <4>1 DEF FileInv, Distinct, Once
        <5> QED BY <2>4, <3>2, <4>1, <5>1
      <4>2. CASE p # Len(writes)
        <5> DEFINE q == Len(writes)
        <5>0. p \in Places /\ q \in Places /\ items = Doc(q)
          BY <2>4
        <5>3. p < q
          BY <2>l, <4>2, <5>0
        <5>1. p < q /\ q \in Places /\ p \in Places /\ items = Doc(q)
          BY <5>0, <5>3
        <5> HIDE DEF q
        <5>2. \A r \in (p + 1)..q : writes[r].next # "post"
          BY <2>3, <2>8, <5>1
        <5> QED BY <3>2, <5>1, <5>2 DEF FileInv, UpByPost
      <4> QED BY <4>1, <4>2
    <3> QED BY <1>w, <2>5, <3>1, <3>2
  <2>10. UpByPost'
    BY <1>u, <2>3, <2>4, <2>8 DEF FileInv, UpByPost
  <2>11. Uploading'
    BY <1>u, <2>1 DEF Uploading, Up
  <2> QED BY <1>k, <2>6, <2>7, <2>9, <2>10, <2>11 DEF FileInv
<1> QED BY <1>1, <1>2, <1>3, <1>4, <1>5 DEF Stay

\* A commit stores the send of its call and claims its file.
Commits(c) ==
  LET k == calls[c].key IN
  /\ At(c, {"looked"}) /\ k \in Send /\ ~Stored(k) /\ rows' = Append(rows, k)
  /\ media' = IF k \in HasFile THEN [media EXCEPT ![k] = "sent"] ELSE media

\* Only a commit changes the rows and the files.
LEMMA HubCommits ==
  ASSUME TypeOK, NEW c \in Call, HubStep(c) \/ CallLimited(c) \/ CallErrs(c)
  PROVE  UNCHANGED <<rows, media>> \/ Commits(c)
<1>1. CASE CallStores(c)
  <2> DEFINE k == calls[c].key
  <2>1. k \in Send
    BY <1>1 DEF CallStores, At, TypeOK
  <2>2. CASE Stored(k)
    BY <1>1, <2>2 DEF CallStores
  <2>3. CASE ~Stored(k) /\ ~Sendable(k)
    BY <1>1, <2>3 DEF CallStores
  <2>4. CASE ~Stored(k) /\ Sendable(k)
    BY <1>1, <2>1, <2>4 DEF CallStores, Commits
  <2> QED BY <2>2, <2>3, <2>4
<1>2. CASE ~CallStores(c)
  BY <1>2 DEF HubStep, CallChecks, CallFinds, CallAnswers, Unheard, CallLimited, CallErrs
<1> QED BY <1>1, <1>2

\* A step of the hub posts nothing new.
LEMMA HubPostsNothing ==
  ASSUME Base, NEW c \in Call, HubStep(c) \/ CallLimited(c) \/ CallErrs(c)
  PROVE  \A k \in Send : Posted(k)' => Posted(k)
<1>1. UNCHANGED <<at, sending>> /\ CallMove(c) /\ TypeOK
  BY HubMoves DEF Base, device
<1>2. \A b \in Call : calls'[b] # None => calls[b] # None /\ calls'[b].key = calls[b].key
  BY <1>1 DEF CallMove, Stage, Free, TypeOK
<1>3. \A k \in Range(rows') : Stored(k) \/ (calls[c] # None /\ calls[c].key = k)
  <2>1. CASE rows' = rows
    BY <2>1 DEF Stored
  <2>2. CASE Commits(c)
    BY <1>1, <2>2, RowsGrow DEF Commits, Stored, At
  <2> QED BY <1>1, <2>1, <2>2, HubCommits
<1> QED BY <1>1, <1>2, <1>3 DEF Posted, Stored

\* A message's file is there through every step.
LEMMA FileStep == Base /\ FileInv /\ [Next]_vars => FileInv'
<1> SUFFICES ASSUME Base, FileInv, [Next]_vars PROVE FileInv'
  OBVIOUS
<1>t. TypeOK /\ Flow
  BY DEF Base
<1>w. Len(writes) \in Nat /\ DOMAIN writes = 1..Len(writes) /\ HasFile \subseteq Send
  BY <1>t, DocTypes, SendingAssumption
<1>1. CASE UNCHANGED vars
  <2>1. UNCHANGED <<items, saved, writes, typed, sending, at, calls, rows, media>>
    BY <1>1 DEF vars, device, hub, history
  <2>2. (\A k \in Send : Posted(k)' => Posted(k)) /\ FileKept' /\ Uploading'
    BY <2>1 DEF Posted, Stored, FileInv, FileKept, Uploading
  <2> QED BY <1>w, <2>1, <2>2, FileSameDocs
<1>2. ASSUME NEW c \in Call, HubStep(c) \/ CallLimited(c) \/ CallErrs(c) PROVE FileInv'
  <2>1. UNCHANGED <<items, saved, writes, typed, sending, at>>
    BY <1>2, HubMoves DEF Base, device, history
  <2>2. \A k \in Send : Posted(k)' => Posted(k)
    BY <1>2, HubPostsNothing
  <2>3. FileKept'
    <3>1. CASE UNCHANGED <<rows, media>>
      BY <3>1 DEF FileInv, FileKept
    <3>2. CASE Commits(c)
      <4> DEFINE k == calls[c].key
      <4>1. k \in Send /\ Range(rows)' = Range(rows) \cup {k}
            /\ media' = IF k \in HasFile THEN [media EXCEPT ![k] = "sent"] ELSE media
        BY <1>t, <3>2, RowsGrow DEF Commits
      <4> HIDE DEF k
      <4>2. \A l \in HasFile : media'[l] = IF l = k THEN "sent" ELSE media[l]
        BY <1>t, <1>w, <4>1 DEF TypeOK
      <4> QED BY <4>1, <4>2 DEF FileInv, FileKept
    <3> QED BY <1>t, <1>2, <3>1, <3>2, HubCommits
  <2>4. Uploading'
    BY <2>1 DEF FileInv, Uploading
  <2> QED BY <1>w, <2>1, <2>2, <2>3, <2>4, FileSameDocs
<1>3. CASE Block \/ \E k \in Send : SweepUnclaimed(k)
  <2>1. UNCHANGED <<items, saved, writes, typed, sending, at, calls, rows>>
    BY <1>3, BaseAside
  <2>2. (\A k \in Send : Posted(k)' => Posted(k)) /\ Uploading'
    BY <2>1 DEF Posted, Stored, FileInv, Uploading
  <2>3. \A k \in Send : media[k] = "sent" => media'[k] = "sent"
    BY <1>t, <1>3 DEF Block, SweepUnclaimed, TypeOK
  <2>4. FileKept'
    BY <1>w, <2>1, <2>3 DEF FileInv, FileKept
  <2> QED BY <1>w, <2>1, <2>2, <2>4, FileSameDocs
<1>4. CASE Stay
  BY <1>4, FileStay
<1>5. CASE Writes
  BY <1>5, FileEnqueue, FileRewrites DEF Writes, Rewrites
<1>6. CASE Written
  BY <1>6, FileWritten
<1>7. CASE Die \/ Open
  <2>1. /\ Places' = {0} /\ Doc(0)' = Doc(0) /\ UNCHANGED <<rows, typed, calls, media>>
        /\ at' \in {"idle", "loop"} /\ 0 \in Places
    <3>1. 0 \in Places
      BY <1>w DEF Places
    <3> QED BY <1>7, <3>1, BaseDie, BaseOpen DEF Doc, Die, Open
  <2>2. \A k \in Send : Posted(k)' => Posted(k)
    BY <2>1 DEF Posted, Stored
  <2>3. DOMAIN writes' = {}
    <3>1. writes' = <<>>
      BY <1>7, <1>t DEF Die, Open, Flow, Down
    <3> QED BY <3>1
  <2>4. Distinct' /\ Known' /\ PostedUp' /\ UpByPost'
    BY <1>w, <2>1, <2>2 DEF FileInv, Distinct, Once, Known, PostedUp, UpByPost
  <2>5. PostUp' /\ Uploading' /\ FileKept'
    BY <2>1, <2>3 DEF PostUp, Uploading, FileInv, FileKept
  <2> QED BY <2>4, <2>5 DEF FileInv
<1> QED BY <1>1, <1>2, <1>3, <1>4, <1>5, <1>6, <1>7, StepKinds

\* At first there is nothing to carry.
LEMMA FileInit == Init => FileInv
<1> SUFFICES ASSUME Init PROVE FileInv
  OBVIOUS
<1>1. Places = {0} /\ Doc(0) = <<>> /\ DOMAIN writes = {} /\ rows = <<>> /\ at = "idle"
  BY DEF Init, Places, Doc
<1>2. Distinct /\ UpByPost /\ PostUp /\ Uploading /\ FileKept
  BY <1>1 DEF Distinct, Once, UpByPost, PostUp, Uploading, FileKept, Range
<1>3. \A k \in Send : ~Posted(k)
  BY <1>1 DEF Init, Posted, Stored, Range
<1>4. Known /\ PostedUp
  BY <1>1, <1>3, SendingAssumption DEF Known, PostedUp, Keys
<1> QED BY <1>2, <1>4 DEF FileInv

\* A stored message that names a file has it: the sweep takes only what no
\* message claimed, and an upload is made again only for a send no call can
\* have posted (send in outbox.ts, claimAttachments in conversations/messages.go).
THEOREM FilesKept == Spec => []FileKept
<1>1. FileInv => FileKept
  BY DEF FileInv
<1>2. Init => Base /\ FileInv
  BY BaseInit, FileInit
<1>3. Base /\ FileInv /\ [Next]_vars => Base' /\ FileInv'
  BY BaseStep, FileStep
<1> QED BY <1>1, <1>2, <1>3, PTL DEF Spec

-----------------------------------------------------------------------------
(* Stored in the order they were typed.                                    *)

Before(a, b) == \E m, n \in DOMAIN typed : m < n /\ typed[m] = a /\ typed[n] = b
\* The order makes no promise about this send: it was refused once, or the
\* app died before it was written down.
Dead(k) == k \in refused \/ (k \notin kept /\ \A p \in Places : k \notin Keys(Doc(p)))
Active(k) == Posted(k) \/ sending = k

TypedOnce == \A m, n \in DOMAIN typed : typed[m] = typed[n] => m = n
SendingTyped == sending \in Range(typed) \cup {None}
InTurn == \A p \in Places : \A i, j \in DOMAIN Doc(p) : i < j => Before(Doc(p)[i].key, Doc(p)[j].key)
FailedRefused == \A p \in Places : \A i \in DOMAIN Doc(p) : Doc(p)[i].state = "failed" => Doc(p)[i].key \in refused
\* Nothing typed before a send that drain has taken up is still to come.
Cleared == \A k, l \in Send : Active(k) /\ Before(l, k) => Stored(l) \/ Dead(l)
RowsInTurn == \A i, j \in DOMAIN rows : i < j => Before(rows[i], rows[j]) \/ Dead(rows[j])

OrderInv == TypedOnce /\ SendingTyped /\ InTurn /\ FailedRefused /\ Cleared /\ RowsInTurn

\* The order of typing is total and has no cycles.
LEMMA BeforeFacts ==
  ASSUME TypeOK, TypedOnce
  PROVE  /\ \A a, b : Before(a, b) => a \in Range(typed) /\ b \in Range(typed) /\ a # b /\ ~Before(b, a)
         /\ \A a, b \in Range(typed) : a # b => Before(a, b) \/ Before(b, a)
<1>1. typed \in Seq(Send)
  BY DEF TypeOK
<1>2. Len(typed) \in Nat /\ DOMAIN typed = 1..Len(typed)
  BY <1>1, SeqFacts
<1>3. \A m \in DOMAIN typed : m \in Nat
  BY <1>2
<1>4. \A a, b : Before(a, b) => a \in Range(typed) /\ b \in Range(typed)
  BY DEF Before, Range
<1>5. \A a, b : Before(a, b) => a # b /\ ~Before(b, a)
  <2> SUFFICES ASSUME NEW a, NEW b, Before(a, b) PROVE a # b /\ ~Before(b, a)
    OBVIOUS
  <2>1. PICK m \in DOMAIN typed, n \in DOMAIN typed : m < n /\ typed[m] = a /\ typed[n] = b
    BY DEF Before
  <2>2. m \in Nat /\ n \in Nat
    BY <1>3
  <2>3. ASSUME NEW x \in DOMAIN typed, NEW y \in DOMAIN typed, typed[x] = b, typed[y] = a PROVE ~(x < y)
    <3>1. x = n /\ y = m
      BY <2>1, <2>3 DEF TypedOnce
    <3> QED BY <2>1, <2>2, <3>1
  <2>4. a # b
    BY <2>1, <2>2, <2>3
  <2> QED BY <2>3, <2>4 DEF Before
<1>6. ASSUME NEW a \in Range(typed), NEW b \in Range(typed), a # b PROVE Before(a, b) \/ Before(b, a)
  <2>1. PICK m \in DOMAIN typed, n \in DOMAIN typed : typed[m] = a /\ typed[n] = b
    BY DEF Range
  <2>2. m < n \/ n < m
    BY <1>3, <1>6, <2>1
  <2> QED BY <2>1, <2>2 DEF Before
<1> QED BY <1>4, <1>5, <1>6

\* What the order needs of a step that stores nothing and takes nothing up.
LEMMA OrderKept ==
  ASSUME TypeOK, FileInv, OrderInv, rows' = rows, SendingTyped',
         \A k \in Range(typed) : Dead(k) => Dead(k)',
         \A a, b : Before(a, b) => Before(a, b)',
         \A a : \A b \in Range(typed) : Before(a, b)' => Before(a, b),
         \A k \in Send : Active(k)' => Active(k)
  PROVE  Cleared' /\ RowsInTurn'
<1>b. \A a, b : Before(a, b) => a \in Range(typed) /\ b \in Range(typed)
  BY BeforeFacts DEF OrderInv
<1>1. Cleared'
  <2> SUFFICES ASSUME NEW k \in Send, NEW l \in Send, Active(k)', Before(l, k)' PROVE l \in Range(rows)' \/ Dead(l)'
    BY DEF Cleared, Stored
  <2>1. Active(k)
    OBVIOUS
  <2>2. k \in Range(typed)
    BY <2>1, SendingAssumption DEF Active, OrderInv, SendingTyped, FileInv, Known
  <2>3. Before(l, k)
    BY <2>2
  <2>4. Stored(l) \/ Dead(l)
    BY <2>1, <2>3 DEF OrderInv, Cleared
  <2> QED BY <1>b, <2>3, <2>4 DEF Stored
<1>2. RowsInTurn'
  <2> SUFFICES ASSUME NEW i \in DOMAIN rows, NEW j \in DOMAIN rows, i < j
               PROVE  Before(rows[i], rows[j])' \/ Dead(rows[j])'
    BY DEF RowsInTurn
  <2> DEFINE a == rows[i]
             b == rows[j]
  <2>1. Before(a, b) \/ Dead(b)
    BY DEF OrderInv, RowsInTurn
  <2>2. b \in Range(typed) /\ a' = a /\ b' = b
    <3>1. b \in Range(rows) /\ b \in Send
      BY DEF TypeOK, Range
    <3> QED BY <3>1 DEF FileInv, Known, Posted, Stored
  <2>3. ASSUME NEW x, NEW y, x = a, y = b PROVE Before(x, y)' \/ Dead(y)'
    BY <2>1, <2>2, <2>3
  <2> QED BY <2>2, <2>3 DEF Before, Dead
<1> QED BY <1>1, <1>2

\* A dead send stays so while the documents take in only what was there or
\* was never typed, and what is kept was in one of them.
LEMMA DeadStays ==
  ASSUME refused \subseteq refused',
         \A k \in kept' : k \in kept \/ \E p \in Places : k \in Keys(Doc(p)),
         \A p \in Places' : \A k \in Keys(Doc(p)') : k \notin Range(typed) \/ \E q \in Places : k \in Keys(Doc(q))
  PROVE  \A k \in Range(typed) : Dead(k) => Dead(k)'
BY DEF Dead, Keys

\* The order of typing, when nothing is typed.
LEMMA SameTyped ==
  ASSUME typed' = typed
  PROVE  /\ TypedOnce => TypedOnce'
         /\ \A a, b : Before(a, b) <=> Before(a, b)'
BY DEF TypedOnce, Before

\* The order, through a rewrite.
LEMMA OrderRewrites ==
  ASSUME Base, FileInv, OrderInv, Rewrites
  PROVE  OrderInv'
<1>r. /\ up /\ UNCHANGED <<saved, up, rows, typed, kept>> /\ refused \subseteq refused'
      /\ \A k \in Send : Posted(k)' => Posted(k)
  BY RewritesRest
<1>p. PICK d \in Items, n \in {"drain", "loop", "post"} : \E o : Persist(d, n) /\ From(d, n, o) /\ Goes(n)
  BY RewritesFrom
<1>o. PICK o : Persist(d, n) /\ From(d, n, o) /\ Goes(n)
  BY <1>p
<1> DEFINE m == Len(writes)
<1>1. TypeOK /\ items = Doc(m)
  BY <1>r DEF Base, Flow, LastDoc
<1>2. /\ m \in Nat /\ Places' = Places \cup {m + 1} /\ \A p \in Places : Doc(p)' = Doc(p)
      /\ \A p \in {m + 1} : Doc(p)' = d
  BY <1>r, <1>1, <1>o, Wrote
<1>3. m \in Places
  BY <1>2 DEF Places
<1> HIDE DEF m
<1>b. TypedOnce' /\ \A a, b : Before(a, b) <=> Before(a, b)'
  BY <1>r, SameTyped DEF OrderInv
<1>4. SendingTyped'
  BY <1>o, <1>r DEF OrderInv, SendingTyped, Goes
<1>5. InTurn'
  <2>1. ASSUME NEW p \in Places', NEW i \in DOMAIN (Doc(p)'), NEW j \in DOMAIN (Doc(p)'), i < j
        PROVE  Before((Doc(p)')[i].key, (Doc(p)')[j].key)
    <3>1. CASE p \in Places
      BY <1>2, <2>1, <3>1 DEF OrderInv, InTurn
    <3>2. CASE p = m + 1
      <4>1. Doc(p)' = d /\ o[i] \in DOMAIN items /\ o[j] \in DOMAIN items /\ o[i] < o[j]
            /\ d[i].key = items[o[i]].key /\ d[j].key = items[o[j]].key
        BY <1>2, <1>o, <2>1, <3>2 DEF From
      <4> QED BY <1>1, <1>3, <4>1 DEF OrderInv, InTurn
    <3> QED BY <1>2, <3>1, <3>2
  <2> QED BY <1>r, <2>1 DEF InTurn, Before
<1>6. FailedRefused'
  <2> SUFFICES ASSUME NEW p \in Places', NEW i \in DOMAIN (Doc(p)'), (Doc(p)')[i].state = "failed"
               PROVE  (Doc(p)')[i].key \in refused'
    BY DEF FailedRefused
  <2>1. CASE p \in Places
    BY <1>2, <1>r, <2>1 DEF OrderInv, FailedRefused
  <2>2. CASE p = m + 1
    <3>1. /\ Doc(p)' = d /\ o[i] \in DOMAIN items /\ d[i].key = items[o[i]].key
          /\ items[o[i]].state = "failed" \/ d[i].key \in refused'
      BY <1>2, <1>o, <2>2 DEF From
    <3> QED BY <1>1, <1>3, <1>r, <3>1 DEF OrderInv, FailedRefused
  <2> QED BY <1>2, <2>1, <2>2
<1>7. \A k \in Range(typed) : Dead(k) => Dead(k)'
  <2>1. Keys(d) \subseteq Keys(Doc(m))
    BY <1>1, <1>o DEF From, Keys
  <2>2. \A p \in Places' : \A k \in Keys(Doc(p)') : \E q \in Places : k \in Keys(Doc(q))
    BY <1>2, <1>3, <2>1
  <2> QED BY <1>r, <2>2, DeadStays
<1>8. \A k \in Send : Active(k)' => Active(k)
  BY <1>o, <1>r, SendingAssumption DEF Active, Goes
<1>9. Cleared' /\ RowsInTurn'
  BY <1>1, <1>r, <1>b, <1>4, <1>7, <1>8, OrderKept
<1> QED BY <1>b, <1>4, <1>5, <1>6, <1>9 DEF OrderInv

\* The order, when a send is typed: it is the last in both.
LEMMA OrderEnqueue ==
  ASSUME Base, FileInv, OrderInv, NEW k \in Send, Enqueue(k)
  PROVE  OrderInv'
<1> DEFINE d == WithNew(k)
           m == Len(writes)
           l == Len(items)
           t == Len(typed)
<1>r. /\ up /\ UNCHANGED <<at, sending, saved, up, calls, rows, kept, refused>>
      /\ typed' = Append(typed, k) /\ k \notin Range(typed) /\ Persist(d, "drain")
  BY DEF Enqueue, hub, WithNew
<1>1. TypeOK /\ items = Doc(m)
  BY <1>r DEF Base, Flow, LastDoc
<1>d. /\ d \in Items /\ DOMAIN d = 1..(l + 1) /\ DOMAIN items = 1..l /\ l \in Nat
      /\ \A i \in DOMAIN items : d[i] = items[i]
      /\ d[l + 1].key = k /\ d[l + 1].state = "queued"
  BY <1>1, Typed
<1> HIDE DEF d, l
<1>e. DOMAIN d = DOMAIN items \cup {l + 1}
  BY <1>d
<1>2. /\ m \in Nat /\ Places' = Places \cup {m + 1} /\ \A p \in Places : Doc(p)' = Doc(p)
      /\ \A p \in {m + 1} : Doc(p)' = d
  BY <1>r, <1>1, <1>d, Wrote
<1>3. m \in Places
  BY <1>2 DEF Places
<1> HIDE DEF m
<1>t. /\ Range(typed)' = Range(typed) \cup {k} /\ DOMAIN typed' = 1..(t + 1)
      /\ DOMAIN typed = 1..t /\ t \in Nat
      /\ \A i \in DOMAIN typed : typed'[i] = typed[i]
      /\ typed'[t + 1] = k
  BY <1>1, <1>r, TypedGrows
<1> HIDE DEF t
<1>s. DOMAIN typed' = DOMAIN typed \cup {t + 1} /\ \A i \in DOMAIN typed : i < t + 1 /\ i \in Nat /\ typed[i] # k
  BY <1>r, <1>t DEF Range
<1>4. TypedOnce'
  BY <1>s, <1>t DEF OrderInv, TypedOnce
<1>5. SendingTyped'
  BY <1>r, <1>t DEF OrderInv, SendingTyped
<1>6. \A a, b : Before(a, b) => Before(a, b)'
  BY <1>s, <1>t DEF Before
<1>7. \A a : \A b \in Range(typed) : Before(a, b)' => Before(a, b)
  <2> SUFFICES ASSUME NEW a, NEW b \in Range(typed), Before(a, b)' PROVE Before(a, b)
    OBVIOUS
  <2>1. PICK x \in DOMAIN typed', y \in DOMAIN typed' : x < y /\ typed'[x] = a /\ typed'[y] = b
    BY DEF Before
  <2>2. y \in DOMAIN typed
    BY <1>r, <1>s, <1>t, <2>1
  <2>3. x \in DOMAIN typed
    BY <1>t, <2>1, <2>2
  <2> QED BY <1>t, <2>1, <2>2, <2>3 DEF Before
<1>8. \A a \in Range(typed) : Before(a, k)'
  <2> SUFFICES ASSUME NEW x \in DOMAIN typed PROVE Before(typed[x], k)'
    BY <1>r DEF Range, Before
  <2>1. x \in DOMAIN typed' /\ t + 1 \in DOMAIN typed' /\ x < t + 1 /\ typed'[x] = typed[x]
    BY <1>s, <1>t
  <2>2. ASSUME NEW a, a = typed[x] PROVE \E u, v \in DOMAIN typed' : u < v /\ typed'[u] = a /\ typed'[v] = k
    BY <1>t, <2>1, <2>2
  <2> QED BY <2>1, <2>2 DEF Before
<1>9. InTurn'
  <2> SUFFICES ASSUME NEW p \in Places', NEW i \in DOMAIN (Doc(p)'), NEW j \in DOMAIN (Doc(p)'), i < j,
                      NEW a, NEW b, a = (Doc(p)')[i].key, b = (Doc(p)')[j].key
               PROVE  Before(a, b)'
    BY DEF InTurn, Before
  <2>1. CASE p \in Places
    BY <1>2, <1>6, <2>1 DEF OrderInv, InTurn
  <2>2. CASE p = m + 1 /\ j \in DOMAIN items
    <3>1. i \in DOMAIN items /\ d[i] = items[i] /\ d[j] = items[j] /\ Doc(p)' = d
      BY <1>2, <1>d, <1>e, <2>2
    <3>2. Before(a, b)
      BY <1>1, <1>3, <2>2, <3>1 DEF OrderInv, InTurn
    <3> QED BY <1>6, <3>2
  <2>3. CASE p = m + 1 /\ j = l + 1
    <3>1. i \in DOMAIN items /\ d[i] = items[i] /\ Doc(p)' = d /\ b = k
      BY <1>2, <1>d, <1>e, <2>3
    <3>2. a \in Range(typed)
      BY <1>1, <1>3, <3>1 DEF FileInv, Known, Keys
    <3> QED BY <1>8, <3>1, <3>2
  <2> QED BY <1>2, <1>e, <2>1, <2>2, <2>3
<1>10. FailedRefused'
  <2> SUFFICES ASSUME NEW p \in Places', NEW i \in DOMAIN (Doc(p)'), (Doc(p)')[i].state = "failed"
               PROVE  (Doc(p)')[i].key \in refused
    BY <1>r DEF FailedRefused
  <2>1. CASE p \in Places
    BY <1>2, <2>1 DEF OrderInv, FailedRefused
  <2>2. CASE p = m + 1
    <3>1. i \in DOMAIN items /\ d[i] = items[i] /\ Doc(p)' = d
      BY <1>2, <1>d, <1>e, <2>2
    <3> QED BY <1>1, <1>3, <3>1 DEF OrderInv, FailedRefused
  <2> QED BY <1>2, <2>1, <2>2
<1>11. \A j \in Range(typed) : Dead(j) => Dead(j)'
  <2>1. Keys(d) \subseteq Keys(Doc(m)) \cup {k}
    BY <1>1, <1>d, <1>e DEF Keys
  <2>2. \A p \in Places' : \A j \in Keys(Doc(p)') : j \notin Range(typed) \/ \E q \in Places : j \in Keys(Doc(q))
    BY <1>2, <1>3, <1>r, <2>1
  <2> QED BY <1>r, <2>2, DeadStays
<1>12. \A j \in Send : Active(j)' => Active(j)
  BY <1>r DEF Active, Posted, Stored
<1>13. Cleared' /\ RowsInTurn'
  BY <1>1, <1>r, <1>5, <1>6, <1>7, <1>11, <1>12, OrderKept
<1> QED BY <1>4, <1>5, <1>9, <1>10, <1>13 DEF OrderInv

\* The order, when a write lands.
LEMMA OrderWritten ==
  ASSUME Base, FileInv, OrderInv, Written
  PROVE  OrderInv'
<1>1. TypeOK
  BY DEF Base
<1>2. /\ Len(writes) \in Nat \ {0} /\ saved' = Doc(1)
      /\ Head(writes).next = writes[1].next /\ DOMAIN writes = 1..Len(writes)
      /\ \A p \in Places' : Doc(p)' = Doc(p + 1) /\ p + 1 \in Places
  BY <1>1, Landed
<1>3. /\ UNCHANGED <<sending, calls, rows, typed, refused>> /\ kept' = kept \cup Keys(saved')
      /\ 1 \in Places /\ 1 \in DOMAIN writes
  BY <1>2, BaseWritten DEF Written, hub, Places
<1>b. TypedOnce' /\ \A a, b : Before(a, b) <=> Before(a, b)'
  BY <1>3, SameTyped DEF OrderInv
<1>4. SendingTyped'
  BY <1>3 DEF OrderInv, SendingTyped
<1>5. InTurn'
  <2>1. ASSUME NEW p \in Places', NEW i \in DOMAIN (Doc(p)'), NEW j \in DOMAIN (Doc(p)'), i < j
        PROVE  Before((Doc(p)')[i].key, (Doc(p)')[j].key)
    BY <1>2, <2>1 DEF OrderInv, InTurn
  <2> QED BY <1>3, <2>1 DEF InTurn, Before
<1>6. FailedRefused'
  BY <1>2, <1>3 DEF OrderInv, FailedRefused
<1>7. \A k \in Range(typed) : Dead(k) => Dead(k)'
  <2>1. \A k \in kept' : k \in kept \/ \E p \in Places : k \in Keys(Doc(p))
    BY <1>2, <1>3
  <2>2. \A p \in Places' : \A k \in Keys(Doc(p)') : \E q \in Places : k \in Keys(Doc(q))
    BY <1>2
  <2> QED BY <1>3, <2>1, <2>2, DeadStays
<1>8. \A k \in Send : Active(k)' => Active(k)
  <2>1. at' = at \/ at' = "loop" \/ at' = "post"
    <3>1. writes[1].next \in {"drain", "loop", "post"}
      BY <1>1, <1>3, DocTypes
    <3> QED BY <1>2, <3>1 DEF Written, Drain
  <2> QED BY <1>3, <2>1 DEF Active, Posted, Stored
<1>9. Cleared' /\ RowsInTurn'
  BY <1>1, <1>3, <1>b, <1>4, <1>7, <1>8, OrderKept
<1> QED BY <1>b, <1>4, <1>5, <1>6, <1>9 DEF OrderInv

\* The documents are as they were.
LEMMA OrderSameDocs ==
  ASSUME OrderInv, UNCHANGED <<saved, writes, typed, kept, refused>>
  PROVE  /\ TypedOnce' /\ InTurn' /\ FailedRefused'
         /\ \A a, b : Before(a, b) <=> Before(a, b)'
         /\ \A k : Dead(k) => Dead(k)'
<1>1. Places' = Places /\ \A p \in Places : Doc(p)' = Doc(p)
  BY DEF Places, Doc
<1>2. TypedOnce' /\ \A a, b : Before(a, b) <=> Before(a, b)'
  BY SameTyped DEF OrderInv
<1>3. InTurn'
  <2>1. ASSUME NEW p \in Places', NEW i \in DOMAIN (Doc(p)'), NEW j \in DOMAIN (Doc(p)'), i < j
        PROVE  Before((Doc(p)')[i].key, (Doc(p)')[j].key)
    BY <1>1, <2>1 DEF OrderInv, InTurn
  <2> QED BY <2>1 DEF InTurn, Before
<1>4. FailedRefused'
  BY <1>1 DEF OrderInv, FailedRefused
<1>5. \A k : Dead(k) => Dead(k)'
  BY <1>1 DEF Dead, Keys
<1> QED BY <1>2, <1>3, <1>4, <1>5

\* What drain takes up is the oldest: everything typed before it that is not
\* dead is on the hub.
LEMMA NextIsClear ==
  ASSUME LostInv, OrderInv, up, NEW i \in DOMAIN items, NextItem(i), NEW l \in Send, Before(l, items[i].key)
  PROVE  Stored(l) \/ Dead(l)
<1> SUFFICES ASSUME ~Stored(l), ~Dead(l) PROVE FALSE
  OBVIOUS
<1> DEFINE m == Len(writes)
<1>1. TypeOK /\ items = Doc(m) /\ Carried /\ NothingLost
  BY DEF LostInv, Base, Flow, LastDoc
<1>2. m \in Nat /\ Places = 0..m
  BY <1>1, DocTypes DEF Places
<1> HIDE DEF m
<1>3. m \in Places /\ 0 \in Places /\ \A p \in Places : p <= m
  BY <1>2
<1>4. \E p \in Places : l \in Keys(Doc(p))
  <2>1. \A k \in kept : k \in Keys(Doc(0)) \/ k \in Range(rows)
    BY <1>1, LostKeys
  <2> QED BY <1>3, <2>1 DEF Dead, Stored
<1>5. l \in Keys(items)
  BY <1>1, <1>3, <1>4 DEF Carried, Stored
<1>6. PICK h \in DOMAIN items : items[h].key = l
  BY <1>5 DEF Keys
<1>7. l # items[i].key /\ ~Before(items[i].key, l)
  BY <1>1, BeforeFacts DEF OrderInv
<1>8. i \in Nat /\ h \in Nat /\ items[h].state \in {"queued", "failed"}
  BY <1>1, ItemTypes DEF TypeOK
<1>9. items[h].state = "queued"
  BY <1>1, <1>3, <1>6, <1>8 DEF OrderInv, FailedRefused, Dead
<1>10. i <= h
  BY <1>9 DEF NextItem, Queued
<1>11. i < h
  BY <1>6, <1>7, <1>8, <1>10
<1> QED BY <1>1, <1>3, <1>6, <1>7, <1>11 DEF OrderInv, InTurn

\* The order, when drain takes a step that writes nothing.
LEMMA OrderStay ==
  ASSUME LostInv, FileInv, OrderInv, Stay
  PROVE  OrderInv'
<1>t. Base /\ TypeOK
  BY DEF LostInv, Base
<1>u. UNCHANGED <<items, writes, saved, up, typed, kept, refused, rows, media>> /\ TypeOK'
  BY <1>t, BaseStay DEF Base
<1>d. /\ TypedOnce' /\ InTurn' /\ FailedRefused'
      /\ \A a, b : Before(a, b) <=> Before(a, b)'
      /\ \A k : Dead(k) => Dead(k)'
  BY <1>u, OrderSameDocs
<1>1. CASE Reconnect \/ RetryTimer \/ DrainEnds \/ UploadLost \/ PostLost \/ Post
  <2>1. sending' \in {sending, None}
    BY <1>1 DEF Reconnect, RetryTimer, DrainEnds, UploadLost, PostLost, Post, Unreachable
  <2>2. SendingTyped'
    BY <1>u, <2>1 DEF OrderInv, SendingTyped
  <2>3. /\ at' \in {"post", "waiting"} => at \in {"post", "waiting"}
        /\ calls' = calls \/ (call \in Call /\ Free(call)) \/ (sending' = sending /\ \E c \in Call : Stage(c, sending, "sent"))
    BY <1>1, <1>t, SendingAssumption DEF Reconnect, RetryTimer, DrainEnds, UploadLost, PostLost, Post, Unreachable,
       Drain, hub, TypeOK
  <2>4. \A c \in Call : calls'[c] # None => calls'[c] = calls[c] \/ calls'[c].key = sending
    BY <1>t, <2>3 DEF Stage, Free, TypeOK
  <2>5. \A k \in Send : Active(k)' => Active(k)
    BY <1>u, <2>1, <2>3, <2>4, SendingAssumption DEF Active, Posted, Stored
  <2>6. Cleared' /\ RowsInTurn'
    BY <1>t, <1>u, <1>d, <2>2, <2>5, OrderKept
  <2> QED BY <1>d, <2>2, <2>6 DEF OrderInv
<1>2. CASE DrainNext
  <2>1. PICK i \in DOMAIN items : NextItem(i) /\ sending' = items[i].key
    BY <1>2 DEF DrainNext
  <2>2. up /\ calls' = calls /\ items = Doc(Len(writes)) /\ Len(writes) \in Places
    BY <1>2, <1>t, DocTypes DEF DrainNext, hub, Base, Flow, LastDoc, Places
  <2>3. SendingTyped'
    BY <1>u, <2>1, <2>2 DEF FileInv, Known, Keys, SendingTyped
  <2>4. \A k \in Send : Active(k)' => Active(k) \/ k = items[i].key
    BY <1>u, <2>1, <2>2 DEF Active, Posted, Stored
  <2>5. Cleared'
    <3> SUFFICES ASSUME NEW k \in Send, NEW l \in Send, Active(k)', Before(l, k) PROVE Stored(l) \/ Dead(l)
      BY <1>u, <1>d DEF Cleared, Stored
    <3>1. CASE Active(k)
      BY <3>1 DEF OrderInv, Cleared
    <3>2. CASE k = items[i].key
      BY <2>1, <2>2, <3>2, NextIsClear
    <3> QED BY <2>4, <3>1, <3>2
  <2>6. RowsInTurn'
    <3> SUFFICES ASSUME NEW x \in DOMAIN rows, NEW y \in DOMAIN rows, x < y, NEW a, NEW b, a = rows[x], b = rows[y]
                 PROVE  Before(a, b)' \/ Dead(b)'
      BY <1>u DEF RowsInTurn, Before, Dead
    <3> QED BY <1>d DEF OrderInv, RowsInTurn
  <2> QED BY <1>d, <2>3, <2>5, <2>6 DEF OrderInv
<1> QED BY <1>1, <1>2 DEF Stay

\* The order, when the hub takes a step: what it stores comes after what it
\* has, or no promise was made about it.
LEMMA OrderHub ==
  ASSUME Base, FileInv, OrderInv, NEW c \in Call, HubStep(c) \/ CallLimited(c) \/ CallErrs(c)
  PROVE  OrderInv'
<1>t. TypeOK /\ Answers
  BY DEF Base
<1>u. UNCHANGED <<saved, writes, typed, kept, refused, sending, at>>
  BY <1>t, HubMoves DEF device, history
<1>d. /\ TypedOnce' /\ InTurn' /\ FailedRefused'
      /\ \A a, b : Before(a, b) <=> Before(a, b)'
      /\ \A k : Dead(k) => Dead(k)'
  BY <1>u, OrderSameDocs
<1>s. SendingTyped'
  BY <1>u DEF OrderInv, SendingTyped
<1>a. \A k \in Send : Active(k)' => Active(k)
  BY <1>u, HubPostsNothing DEF Active
<1>1. CASE rows' = rows
  <2>1. Cleared' /\ RowsInTurn'
    BY <1>t, <1>1, <1>d, <1>s, <1>a, OrderKept
  <2> QED BY <1>d, <1>s, <2>1 DEF OrderInv
<1>2. CASE Commits(c)
  <2> DEFINE k == calls[c].key
             n == Len(rows)
  <2>1. k \in Send /\ ~Stored(k) /\ rows' = Append(rows, k) /\ Posted(k)
    BY <1>2 DEF Commits, At, Posted
  <2>2. /\ Range(rows)' = Range(rows) \cup {k} /\ DOMAIN rows' = 1..(n + 1) /\ DOMAIN rows = 1..n /\ n \in Nat
        /\ (\A i \in DOMAIN rows : rows'[i] = rows[i]) /\ rows'[n + 1] = k
    BY <1>t, <2>1, RowsGrow
  <2> HIDE DEF k, n
  <2>3. Cleared'
    <3> SUFFICES ASSUME NEW j \in Send, NEW l \in Send, Active(j)', Before(l, j) PROVE l \in Range(rows)' \/ Dead(l)'
      BY <1>d DEF Cleared, Stored
    <3>1. Stored(l) \/ Dead(l)
      BY <1>a DEF OrderInv, Cleared
    <3> QED BY <1>d, <2>2, <3>1 DEF Stored
  <2>4. ASSUME NEW a \in Range(rows) PROVE Before(a, k) \/ Dead(k)
    <3>1. a \in Send /\ a # k /\ Active(a)
      BY <1>t, <2>1 DEF Stored, Active, Posted, TypeOK, Range
    <3>2. a \in Range(typed) /\ k \in Range(typed)
      BY <2>1, <3>1 DEF FileInv, Known, Posted, Stored
    <3>3. Before(a, k) \/ Before(k, a)
      BY <1>t, <3>1, <3>2, BeforeFacts DEF OrderInv
    <3>4. Before(k, a) => Dead(k)
      BY <2>1, <3>1 DEF OrderInv, Cleared
    <3> QED BY <3>3, <3>4
  <2>5. RowsInTurn'
    <3> SUFFICES ASSUME NEW x \in DOMAIN rows', NEW y \in DOMAIN rows', x < y, NEW a, NEW b, a = rows'[x], b = rows'[y]
                 PROVE  Before(a, b)' \/ Dead(b)'
      BY DEF RowsInTurn, Before, Dead
    <3>1. CASE y \in DOMAIN rows
      <4>1. x \in DOMAIN rows /\ a = rows[x] /\ b = rows[y]
        BY <2>2, <3>1
      <4>2. Before(a, b) \/ Dead(b)
        BY <3>1, <4>1 DEF OrderInv, RowsInTurn
      <4> QED BY <1>d, <4>2
    <3>2. CASE y = n + 1
      <4>1. x \in DOMAIN rows /\ a = rows[x] /\ b = k
        BY <2>2, <3>2
      <4>2. a \in Range(rows)
        BY <4>1 DEF Range
      <4> QED BY <1>d, <2>4, <4>1, <4>2
    <3> QED BY <2>2, <3>1, <3>2
  <2> QED BY <1>d, <1>s, <2>3, <2>5 DEF OrderInv
<1> QED BY <1>t, <1>1, <1>2, HubCommits

\* Every step keeps the order.
LEMMA OrderStep == LostInv /\ FileInv /\ OrderInv /\ [Next]_vars => OrderInv'
<1> SUFFICES ASSUME LostInv, FileInv, OrderInv, [Next]_vars PROVE OrderInv'
  OBVIOUS
<1>t. Base /\ TypeOK /\ Flow
  BY DEF LostInv, Base
<1>0. ASSUME UNCHANGED <<saved, writes, typed, kept, refused, sending, at, calls, rows>> PROVE OrderInv'
  <2>1. /\ TypedOnce' /\ InTurn' /\ FailedRefused'
        /\ \A a, b : Before(a, b) <=> Before(a, b)'
        /\ \A k : Dead(k) => Dead(k)'
    BY <1>0, OrderSameDocs
  <2>2. SendingTyped' /\ \A k \in Send : Active(k)' => Active(k)
    BY <1>0 DEF OrderInv, SendingTyped, Active, Posted, Stored
  <2>3. Cleared' /\ RowsInTurn'
    BY <1>t, <1>0, <2>1, <2>2, OrderKept
  <2> QED BY <2>1, <2>2, <2>3 DEF OrderInv
<1>1. CASE UNCHANGED vars
  BY <1>0, <1>1 DEF vars, device, hub, history
<1>2. ASSUME NEW c \in Call, HubStep(c) \/ CallLimited(c) \/ CallErrs(c) PROVE OrderInv'
  BY <1>t, <1>2, OrderHub
<1>3. CASE Block \/ \E k \in Send : SweepUnclaimed(k)
  BY <1>t, <1>0, <1>3, BaseAside
<1>4. CASE Stay
  BY <1>4, OrderStay
<1>5. CASE Writes
  BY <1>t, <1>5, OrderEnqueue, OrderRewrites DEF Writes, Rewrites
<1>6. CASE Written
  BY <1>t, <1>6, OrderWritten
<1>7. CASE Die \/ Open
  <2>1. /\ Places' = {0} /\ Doc(0)' = Doc(0) /\ UNCHANGED <<rows, typed, calls, kept, refused>> /\ 0 \in Places
        /\ at' \in {"idle", "loop"} /\ sending' = None
    <3>1. 0 \in Places
      BY <1>t, DocTypes DEF Places
    <3> QED BY <1>t, <1>7, <3>1, BaseDie, BaseOpen DEF Doc, Die, Open, Flow, Down
  <2>2. TypedOnce' /\ \A a, b : Before(a, b) <=> Before(a, b)'
    BY <2>1, SameTyped DEF OrderInv
  <2>3. SendingTyped' /\ \A k \in Send : Active(k)' => Active(k)
    BY <2>1, SendingAssumption DEF SendingTyped, Active, Posted, Stored
  <2>4. InTurn'
    <3>1. \A i, j \in DOMAIN Doc(0) : i < j => Before(Doc(0)[i].key, Doc(0)[j].key)
      BY <2>1 DEF OrderInv, InTurn
    <3> QED BY <2>1, <3>1 DEF InTurn, Before
  <2>5. FailedRefused'
    BY <2>1 DEF OrderInv, FailedRefused
  <2>6. \A k \in Range(typed) : Dead(k) => Dead(k)'
    BY <2>1, DeadStays
  <2>7. Cleared' /\ RowsInTurn'
    BY <1>t, <2>1, <2>2, <2>3, <2>6, OrderKept
  <2> QED BY <2>2, <2>3, <2>4, <2>5, <2>7 DEF OrderInv
<1> QED BY <1>1, <1>2, <1>3, <1>4, <1>5, <1>6, <1>7, StepKinds

\* At first nothing is typed.
LEMMA OrderInit == Init => OrderInv
<1> SUFFICES ASSUME Init PROVE OrderInv
  OBVIOUS
<1>1. Places = {0} /\ Doc(0) = <<>> /\ rows = <<>> /\ typed = <<>> /\ sending = None
  BY DEF Init, Places, Doc
<1> QED BY <1>1 DEF OrderInv, TypedOnce, SendingTyped, InTurn, FailedRefused, Cleared, Before, RowsInTurn

\* "order matters more than speed": of the sends that were written down and
\* never refused, the hub stores the earlier typed first, although lost calls
\* linger, the app dies and the queue is written behind its own back (next
\* and drain in outbox.ts, create in conversations/messages.go).
THEOREM StoredInOrder == Spec => []InOrder
<1>1. TypeOK /\ OrderInv => InOrder
  <2> SUFFICES ASSUME TypeOK, OrderInv, NEW i \in DOMAIN rows, NEW j \in DOMAIN rows, i < j,
                      {rows[i], rows[j]} \subseteq kept \ refused
               PROVE  Before(rows[i], rows[j])
    BY DEF InOrder, Before
  <2>1. ~Dead(rows[j])
    BY DEF Dead
  <2> QED BY <2>1 DEF OrderInv, RowsInTurn
<1>2. LostInv => Base /\ TypeOK
  BY DEF LostInv, Base
<1>3. Init => FileInv /\ OrderInv
  BY FileInit, OrderInit
<1>4. LostInv /\ FileInv /\ OrderInv /\ [Next]_vars => FileInv' /\ OrderInv'
  BY <1>2, FileStep, OrderStep
<1> QED BY <1>1, <1>2, <1>3, <1>4, AlwaysLost, PTL DEF Spec
=============================================================================
