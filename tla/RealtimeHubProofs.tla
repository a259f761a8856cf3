------------------------- MODULE RealtimeHubProofs --------------------------
(***************************************************************************)
(* For any number of principals, connections and events and channels of any*)
(* size: dispatch never sends on a closed channel, and a connection that   *)
(* stays registered gets every event, in order.                            *)
(***************************************************************************)
EXTENDS RealtimeHub, TLAPS

Stages == {"none", "accepted", "open", "leaving", "closing", "detached", "done"}

\* The strengthening: a connection that has not subscribed is nowhere in the
\* hub, one that has detached itself is not registered, and nothing is told
\* to end by Close before Close.
ClosedInv ==
  /\ stage \in [Conn -> Stages]
  /\ \A s \in Conn : stage[s] \in {"none", "accepted"} => s \notin subs \cup ended \cup slow \cup telling
  /\ \A s \in Conn : stage[s] = "detached" => s \notin subs
  /\ ~closed => telling = {}
  /\ NoSendOnClosed

\* The steps of a connection.
LEMMA ConnKeeps ==
  ASSUME ClosedInv, NEW s \in Conn, Accept(s) \/ GivesUp(s) \/ ConnStep(s) \/ Lost(s)
  PROVE  ClosedInv'
<1> USE DEF ClosedInv, NoSendOnClosed, Stages, EnterStage
<1>1. CASE Accept(s)
  BY <1>1 DEF Accept
<1>2. CASE GivesUp(s)
  BY <1>2 DEF GivesUp
<1>3. CASE Lost(s)
  BY <1>3 DEF Lost
<1>4. CASE Subscribe(s)
  BY <1>4 DEF Subscribe
<1>5. CASE Read(s)
  BY <1>5 DEF Read
<1>6. CASE ReadEnd(s)
  BY <1>6 DEF ReadEnd
<1>7. CASE Bookkeeping(s)
  BY <1>7 DEF Bookkeeping
<1>8. CASE CloseDetaches(s)
  BY <1>8 DEF CloseDetaches, Detach
<1>9. CASE CloseSignals(s)
  BY <1>9 DEF CloseSignals, Signal
<1> QED BY <1>1, <1>2, <1>3, <1>4, <1>5, <1>6, <1>7, <1>8, <1>9 DEF ConnStep

\* The steps of the dispatcher and of shutdown.
LEMMA HubKeeps ==
  ASSUME ClosedInv,
         \/ \E s \in Conn : DropStep(s) \/ Tell(s)
         \/ \E R \in SUBSET Principal : Dispatch(R)
         \/ HubClose \/ WaitReturns \/ WaitTimesOut
  PROVE  ClosedInv'
<1> USE DEF ClosedInv, NoSendOnClosed, Stages, conns
<1>1. ASSUME NEW s \in Conn, DropDetaches(s) PROVE ClosedInv'
  BY <1>1 DEF DropDetaches, Detach
<1>2. ASSUME NEW s \in Conn, DropSignals(s) PROVE ClosedInv'
  BY <1>2 DEF DropSignals, Signal
<1>3. ASSUME NEW s \in Conn, Tell(s) PROVE ClosedInv'
  <2>1. s \in telling /\ closed /\ closed'
    BY <1>3 DEF Tell
  <2> QED BY <1>3, <2>1 DEF Tell, Signal
<1>4. ASSUME NEW R \in SUBSET Principal, Dispatch(R) PROVE ClosedInv'
  <2>1. slow' \subseteq subs
    BY <1>4 DEF Dispatch, Addressed
  <2> QED BY <1>4, <2>1 DEF Dispatch
<1>5. CASE HubClose
  BY <1>5 DEF HubClose
<1>6. CASE WaitReturns \/ WaitTimesOut
  BY <1>6 DEF WaitReturns, WaitTimesOut
<1> QED BY <1>1, <1>2, <1>3, <1>4, <1>5, <1>6 DEF DropStep

\* Whatever closes a channel has taken it out of dispatch before (hub.go,
\* Subscription.Close and Hub.Dispatch), so no send meets a closed channel.
THEOREM NeverSendsOnClosed == Spec => []NoSendOnClosed
<1>1. Init => ClosedInv
  BY DEF Init, ClosedInv, NoSendOnClosed, Stages
<1>2. ClosedInv /\ [Next]_vars => ClosedInv'
  <2> SUFFICES ASSUME ClosedInv, [Next]_vars PROVE ClosedInv'
    OBVIOUS
  <2>1. CASE Next
    BY <2>1, ConnKeeps, HubKeeps DEF Next
  <2>2. CASE UNCHANGED vars
    BY <2>2 DEF vars, conns, ClosedInv, NoSendOnClosed
  <2> QED BY <2>1, <2>2
<1>3. ClosedInv => NoSendOnClosed
  BY DEF ClosedInv
<1> QED BY <1>1, <1>2, <1>3, PTL DEF Spec

-----------------------------------------------------------------------------
(* No gaps.  A channel is empty until its connection subscribes, and only  *)
(* a subscription can make a connection one that must miss nothing.        *)

GapInv ==
  /\ TypeOK /\ ClosedInv
  /\ \A s \in Conn : stage[s] \in {"none", "accepted"} => chan[s] = <<>>
  /\ NoGap

\* Whether a channel holds what follows the event numbered r, up to n.
Follows(q, r, n) == Len(q) = n - r /\ \A i \in 1..Len(q) : q[i] = r + i

\* The next event is read.
LEMMA ReadFollows ==
  ASSUME NEW q \in Seq(1..MaxEvent), q # <<>>, NEW r \in Nat, NEW n \in Nat, Follows(q, r, n)
  PROVE  Follows(Tail(q), Head(q), n)
<1>1. Len(q) \in Nat /\ Len(q) # 0 /\ Head(q) = q[1]
  OBVIOUS
<1>2. Head(q) = r + 1
  BY <1>1 DEF Follows
<1>3. Len(Tail(q)) = Len(q) - 1 /\ \A i \in 1..Len(Tail(q)) : Tail(q)[i] = q[i + 1]
  BY <1>1
<1> DEFINE h == Head(q)
           z == Tail(q)
<1>4. h = r + 1 /\ Len(z) = Len(q) - 1 /\ \A i \in 1..Len(z) : z[i] = q[i + 1]
  BY <1>2, <1>3
<1> HIDE DEF h, z
<1>5. Follows(z, h, n)
  BY <1>1, <1>4 DEF Follows
<1> QED BY <1>5 DEF h, z

\* One more is put in.
LEMMA AppendFollows ==
  ASSUME NEW q \in Seq(1..MaxEvent), NEW r \in Nat, NEW n \in Nat, Follows(q, r, n)
  PROVE  Follows(Append(q, n + 1), r, n + 1)
<1>1. /\ Len(q) \in Nat /\ Len(Append(q, n + 1)) = Len(q) + 1
      /\ \A i \in 1..Len(q) : Append(q, n + 1)[i] = q[i]
      /\ Append(q, n + 1)[Len(q) + 1] = n + 1
  OBVIOUS
<1> QED BY <1>1 DEF Follows

\* The head of a sequence is one of its values.
LEMMA HeadIn ==
  ASSUME NEW S, NEW q \in Seq(S), q # <<>>
  PROVE  Head(q) \in S
OBVIOUS

\* A channel that takes one in or gives one out stays a channel.
LEMMA ChannelType ==
  ASSUME NEW q \in Seq(1..MaxEvent), Len(q) <= Buffer
  PROVE  /\ q # <<>> => Head(q) \in 1..MaxEvent /\ Tail(q) \in Seq(1..MaxEvent) /\ Len(Tail(q)) <= Buffer
         /\ \A n \in 1..MaxEvent : Len(q) # Buffer =>
              Append(q, n) \in Seq(1..MaxEvent) /\ Len(Append(q, n)) <= Buffer
<1>1. Buffer \in Nat /\ Len(q) \in Nat
  BY HubAssumption DEF HubAssumption
<1>2. ASSUME q # <<>>
      PROVE  Head(q) \in 1..MaxEvent /\ Tail(q) \in Seq(1..MaxEvent) /\ Len(Tail(q)) = Len(q) - 1
  <2>1. Len(q) # 0 /\ Head(q) = q[1]
    BY <1>2
  <2>2. Head(q) \in 1..MaxEvent
    BY <1>2, HeadIn
  <2>3. Tail(q) \in Seq(1..MaxEvent) /\ Len(Tail(q)) = Len(q) - 1
    BY <1>2
  <2> QED BY <2>2, <2>3
<1>3. \A n \in 1..MaxEvent : Append(q, n) \in Seq(1..MaxEvent) /\ Len(Append(q, n)) = Len(q) + 1
  OBVIOUS
<1> QED BY <1>1, <1>2, <1>3

\* What the invariant says of one connection.
LEMMA GapOf ==
  ASSUME GapInv, NEW s \in Conn
  PROVE  /\ chan[s] \in Seq(1..MaxEvent) /\ Len(chan[s]) <= Buffer /\ read[s] \in Nat
         /\ PrincipalOf[s] \in Principal /\ sent[PrincipalOf[s]] \in 0..MaxEvent /\ MaxEvent \in Nat
         /\ s \in subs \ slow /\ stage[s] = "open" => Follows(chan[s], read[s], sent[PrincipalOf[s]])
<1>1. PrincipalOf[s] \in Principal /\ MaxEvent \in Nat
  BY HubAssumption DEF HubAssumption
<1> QED BY <1>1 DEF GapInv, TypeOK, NoGap, Follows

\* A step that leaves channels and events alone and opens no connection.
LEMMA GapSame ==
  ASSUME GapInv, TypeOK', ClosedInv', UNCHANGED <<chan, read, sent>>,
         \A s \in Conn : stage'[s] \in {"none", "accepted"} => stage[s] \in {"none", "accepted"},
         \A s \in Conn : stage'[s] = "open" => stage[s] = "open",
         subs' \ slow' \subseteq subs \ slow
  PROVE  GapInv'
<1>1. NoGap'
  BY DEF GapInv, NoGap, TypeOK
<1> QED BY <1>1 DEF GapInv

\* The steps of a connection.
LEMMA ConnGap ==
  ASSUME GapInv, ClosedInv', NEW s \in Conn, Accept(s) \/ GivesUp(s) \/ ConnStep(s) \/ Lost(s)
  PROVE  GapInv'
<1>t. stage \in [Conn -> Stages] /\ TypeOK
  BY DEF GapInv, ClosedInv
<1>1. CASE Accept(s) \/ GivesUp(s) \/ ReadEnd(s) \/ Lost(s) \/ Bookkeeping(s) \/ CloseSignals(s)
  <2>1. PICK g \in Stages : stage' = [stage EXCEPT ![s] = g] /\ g # "open" /\ (g = "accepted" => stage[s] = "none") /\ g # "none"
    BY <1>1 DEF Accept, GivesUp, ReadEnd, Lost, Bookkeeping, CloseSignals, EnterStage, Stages
  <2>2. UNCHANGED <<chan, read, sent, subs, slow, closed, telling, waited>> /\ ended' \subseteq ended \cup {s}
    BY <1>1 DEF Accept, GivesUp, ReadEnd, Lost, Bookkeeping, CloseSignals, Signal
  <2>3. TypeOK'
    BY <1>t, <2>1, <2>2 DEF TypeOK, Stages
  <2> QED BY <1>t, <2>1, <2>2, <2>3, GapSame
<1>2. CASE CloseDetaches(s)
  <2>1. UNCHANGED <<chan, read, sent, slow, closed, telling, waited, ended>> /\ subs' = subs \ {s}
        /\ stage' = [stage EXCEPT ![s] = "detached"]
    BY <1>2 DEF CloseDetaches, Detach, EnterStage
  <2>3. TypeOK'
    BY <1>t, <2>1 DEF TypeOK
  <2> QED BY <1>t, <2>1, <2>3, GapSame
<1>3. CASE Subscribe(s)
  <2>1. /\ UNCHANGED <<chan, sent, slow, closed, telling, waited, ended>> /\ subs' = subs \cup {s}
        /\ stage' = [stage EXCEPT ![s] = "open"] /\ stage[s] = "accepted"
        /\ read' = [read EXCEPT ![s] = sent[PrincipalOf[s]]]
    BY <1>3 DEF Subscribe, EnterStage
  <2>2. chan[s] = <<>> /\ sent[PrincipalOf[s]] \in 0..MaxEvent /\ MaxEvent \in Nat
    BY <2>1, GapOf DEF GapInv
  <2>3. TypeOK'
    BY <1>t, <2>1, <2>2 DEF TypeOK
  <2>4. read'[s] = sent'[PrincipalOf[s]] /\ \A x \in Conn \ {s} : read'[x] = read[x] /\ stage'[x] = stage[x]
    BY <1>t, <2>1, <2>2 DEF TypeOK
  <2>5. \A x \in Conn : stage'[x] \in {"none", "accepted"} => chan'[x] = <<>>
    BY <1>t, <2>1, <2>4 DEF GapInv
  <2>6. NoGap'
    BY <2>1, <2>2, <2>4 DEF GapInv, NoGap
  <2> QED BY <2>3, <2>5, <2>6 DEF GapInv
<1>4. CASE Read(s)
  <2>1. /\ UNCHANGED <<subs, stage, sent, slow, closed, telling, waited, ended>>
        /\ stage[s] = "open" /\ chan[s] # <<>>
        /\ read' = [read EXCEPT ![s] = Head(chan[s])]
        /\ chan' = [chan EXCEPT ![s] = Tail(chan[s])]
    BY <1>4 DEF Read
  <2>2. Head(chan[s]) \in 1..MaxEvent /\ Tail(chan[s]) \in Seq(1..MaxEvent) /\ Len(Tail(chan[s])) <= Buffer
    BY <2>1, GapOf, ChannelType
  <2>3. /\ read'[s] = Head(chan[s]) /\ chan'[s] = Tail(chan[s])
        /\ \A x \in Conn \ {s} : read'[x] = read[x] /\ chan'[x] = chan[x]
    BY <1>t, <2>1 DEF TypeOK
  <2>4. TypeOK'
    BY <1>t, <2>1, <2>2, <2>3 DEF TypeOK
  <2>5. s \in subs \ slow => Follows(chan'[s], read'[s], sent'[PrincipalOf[s]])
    BY <2>1, <2>3, GapOf, ReadFollows
  <2>6. NoGap'
    BY <2>1, <2>3, <2>5 DEF GapInv, NoGap, Follows
  <2> QED BY <2>1, <2>3, <2>4, <2>6 DEF GapInv
<1> QED BY <1>1, <1>2, <1>3, <1>4 DEF ConnStep

\* The steps of the dispatcher and of shutdown.
LEMMA HubGap ==
  ASSUME GapInv, ClosedInv',
         \/ \E s \in Conn : DropStep(s) \/ Tell(s)
         \/ \E R \in SUBSET Principal : Dispatch(R)
         \/ HubClose \/ WaitReturns \/ WaitTimesOut
  PROVE  GapInv'
<1>t. TypeOK
  BY DEF GapInv
<1>1. ASSUME NEW s \in Conn, DropStep(s) \/ Tell(s) PROVE GapInv'
  <2>1. /\ UNCHANGED <<chan, read, sent, stage, closed, waited>> /\ telling' \subseteq telling
        /\ ended' \subseteq ended \cup {s} /\ subs' \subseteq subs /\ slow' \subseteq slow
        /\ subs' \ slow' \subseteq subs \ slow
    BY <1>1 DEF DropStep, DropDetaches, DropSignals, Tell, Detach, Signal, conns
  <2>2. TypeOK'
    BY <1>t, <2>1 DEF TypeOK
  <2> QED BY <2>1, <2>2, GapSame
<1>2. CASE HubClose \/ WaitReturns \/ WaitTimesOut
  <2>1. /\ UNCHANGED <<chan, read, sent, stage, subs, slow, ended>> /\ telling' \subseteq telling \cup subs
        /\ closed' \in BOOLEAN /\ waited' \in {"no", "all", "timeout"}
    BY <1>t, <1>2 DEF HubClose, WaitReturns, WaitTimesOut, conns, TypeOK
  <2>2. TypeOK'
    BY <1>t, <2>1 DEF TypeOK
  <2> QED BY <2>1, <2>2, GapSame
<1>3. ASSUME NEW R \in SUBSET Principal, Dispatch(R) PROVE GapInv'
  <2>1. /\ UNCHANGED <<subs, ended, stage, read, closed, telling, waited>> /\ slow = {}
        /\ sent' = [p \in Principal |-> IF p \in R THEN sent[p] + 1 ELSE sent[p]]
        /\ chan' = [s \in Conn |-> IF s \in Addressed(R) /\ ~Full(s)
                                   THEN Append(chan[s], sent[PrincipalOf[s]] + 1) ELSE chan[s]]
        /\ slow' = {s \in Addressed(R) : Full(s)}
        /\ \A p \in R : sent[p] < MaxEvent
    BY <1>3 DEF Dispatch, conns
  <2>2. ASSUME NEW s \in Conn
        PROVE  /\ chan'[s] \in Seq(1..MaxEvent) /\ Len(chan'[s]) <= Buffer
               /\ s \notin subs => chan'[s] = chan[s]
               /\ s \in subs' \ slow' /\ stage'[s] = "open" =>
                    Follows(chan'[s], read'[s], sent'[PrincipalOf[s]])
    <3> DEFINE n == sent[PrincipalOf[s]]
    <3>1. /\ chan[s] \in Seq(1..MaxEvent) /\ Len(chan[s]) <= Buffer /\ read[s] \in Nat /\ n \in 0..MaxEvent
          /\ PrincipalOf[s] \in Principal /\ MaxEvent \in Nat
          /\ s \in subs /\ stage[s] = "open" => Follows(chan[s], read[s], n)
      BY <2>1, GapOf
    <3>2. CASE s \in Addressed(R) /\ ~Full(s)
      <4>1. chan'[s] = Append(chan[s], n + 1) /\ sent'[PrincipalOf[s]] = n + 1 /\ s \in subs
        BY <2>1, <3>1, <3>2 DEF Addressed
      <4>2. n + 1 \in 1..MaxEvent
        BY <2>1, <3>1, <3>2 DEF Addressed
      <4> HIDE DEF n
      <4>3. Append(chan[s], n + 1) \in Seq(1..MaxEvent) /\ Len(Append(chan[s], n + 1)) <= Buffer
        BY <3>1, <3>2, <4>2, ChannelType DEF Full
      <4>4. stage[s] = "open" => Follows(Append(chan[s], n + 1), read[s], n + 1)
        BY <3>1, <4>1, AppendFollows
      <4> QED BY <2>1, <4>1, <4>3, <4>4
    <3>3. CASE ~(s \in Addressed(R) /\ ~Full(s))
      <4>1. chan'[s] = chan[s] /\ (s \in subs' \ slow' => s \in subs /\ sent'[PrincipalOf[s]] = n)
        BY <2>1, <3>1, <3>3 DEF Addressed
      <4> QED BY <2>1, <3>1, <4>1
    <3> QED BY <3>2, <3>3
  <2>3. TypeOK'
    <3>1. chan' \in [Conn -> Seq(1..MaxEvent)] /\ \A s \in Conn : Len(chan'[s]) <= Buffer
      BY <2>1, <2>2
    <3>2. sent' \in [Principal -> 0..MaxEvent]
      BY <1>t, <2>1, HubAssumption DEF TypeOK, HubAssumption
    <3>3. slow' \subseteq Conn
      BY <1>t, <2>1 DEF TypeOK, Addressed
    <3> QED BY <1>t, <2>1, <3>1, <3>2, <3>3 DEF TypeOK
  <2>4. \A s \in Conn : stage'[s] \in {"none", "accepted"} => chan'[s] = <<>>
    BY <2>1, <2>2 DEF GapInv, ClosedInv
  <2>5. NoGap'
    BY <2>2, <2>3 DEF NoGap, Follows, TypeOK
  <2> QED BY <2>3, <2>4, <2>5 DEF GapInv
<1> QED BY <1>1, <1>2, <1>3

\* The inductive invariant always holds.
LEMMA AlwaysGapInv == Spec => []GapInv
<1>1. Init => GapInv
  <2> SUFFICES ASSUME Init PROVE GapInv
    OBVIOUS
  <2>1. ClosedInv /\ NoGap
    BY DEF Init, ClosedInv, NoSendOnClosed, NoGap, Stages
  <2>2. MaxEvent \in Nat /\ Buffer \in Nat
    BY HubAssumption DEF HubAssumption
  <2>3. chan = [s \in Conn |-> <<>>] /\ <<>> \in Seq(1..MaxEvent) /\ Len(<<>>) = 0
    BY DEF Init
  <2>4. chan \in [Conn -> Seq(1..MaxEvent)] /\ \A s \in Conn : chan[s] = <<>> /\ Len(chan[s]) <= Buffer
    BY <2>2, <2>3
  <2>5. subs \subseteq Conn /\ ended \subseteq Conn /\ slow \subseteq Conn /\ telling \subseteq Conn
    BY DEF Init
  <2>6. stage \in [Conn -> {"none", "accepted", "open", "leaving", "closing", "detached", "done"}]
    BY DEF Init
  <2>7. read \in [Conn -> 0..MaxEvent] /\ sent \in [Principal -> 0..MaxEvent]
    BY <2>2 DEF Init
  <2>8. closed \in BOOLEAN /\ waited \in {"no", "all", "timeout"}
    BY DEF Init
  <2> QED BY <2>1, <2>4, <2>5, <2>6, <2>7, <2>8 DEF GapInv, TypeOK
<1>2. GapInv /\ [Next]_vars => GapInv'
  <2> SUFFICES ASSUME GapInv, [Next]_vars PROVE GapInv'
    OBVIOUS
  <2>1. CASE Next
    <3>1. ClosedInv'
      BY <2>1, ConnKeeps, HubKeeps DEF Next, GapInv
    <3> QED BY <2>1, <3>1, ConnGap, HubGap DEF Next
  <2>2. CASE UNCHANGED vars
    BY <2>2 DEF vars, conns, GapInv, ClosedInv, NoSendOnClosed, TypeOK, NoGap
  <2> QED BY <2>1, <2>2
<1> QED BY <1>1, <1>2, PTL DEF Spec

\* Every variable of the hub keeps its type: no channel holds more than it may.
THEOREM TypeCorrect == Spec => []TypeOK
<1>1. GapInv => TypeOK
  BY DEF GapInv
<1> QED BY <1>1, AlwaysGapInv, PTL

\* A registered connection that is not being dropped misses nothing and gets
\* everything in order, for channels of any size and any number of events
\* (hub.go, Dispatch drops whom it cannot serve).
THEOREM NeverAGap == Spec => []NoGap
<1>1. GapInv => NoGap
  BY DEF GapInv
<1> QED BY <1>1, AlwaysGapInv, PTL
=============================================================================
