-------------------------- MODULE MmkvClientProofs --------------------------
(***************************************************************************)
(* TLAPS proofs about MmkvClient, for any number of callers and calls.     *)
(***************************************************************************)
EXTENDS MmkvClient, FiniteSetTheorems, SequenceTheorems, TLAPS

\* Facts about queues of calls.
LEMMA AppendConcat ==
  ASSUME NEW s \in Seq(Call), NEW t \in Seq(Call), NEW x \in Call
  PROVE  Append(s \o t, x) = s \o Append(t, x)
OBVIOUS

LEMMA HeadMoves ==
  ASSUME NEW s \in Seq(Call), NEW t \in Seq(Call), t # <<>>
  PROVE  /\ Append(s, Head(t)) \o Tail(t) = s \o t
         /\ Head(t) \in Call /\ Tail(t) \in Seq(Call)
OBVIOUS

LEMMA FrontConcat ==
  ASSUME NEW s \in Seq(Call), NEW t \in Seq(Call), s # <<>>
  PROVE  /\ Head(s \o t) = Head(s)
         /\ Tail(s \o t) = Tail(s) \o t
         /\ s \o t # <<>>
OBVIOUS

LEMMA EmptyConcat ==
  ASSUME NEW s \in Seq(Call)
  PROVE  s \o <<>> = s /\ <<>> \o s = s
OBVIOUS

-----------------------------------------------------------------------------
\* Every step keeps the types.
LEMMA TypeStep == TypeOK /\ [Next]_vars => TypeOK'
<1> SUFFICES ASSUME TypeOK, [Next]_vars PROVE TypeOK'
  OBVIOUS
<1> USE DEF TypeOK, Idle, Links
<1>1. ASSUME NEW t \in Caller, NEW c \in Call, PushCallback(t, c) PROVE TypeOK'
  BY <1>1 DEF PushCallback
<1>2. ASSUME NEW t \in Caller, GetConnection(t) PROVE TypeOK'
  BY <1>2 DEF GetConnection
<1>3. ASSUME NEW t \in Caller, PushPending(t) PROVE TypeOK'
  BY <1>3 DEF PushPending, Return
<1>4. ASSUME NEW t \in Caller, Send(t) PROVE TypeOK'
  BY <1>4 DEF Send, Return
<1>5. CASE Published
  BY <1>5 DEF Published
<1>6. CASE OnConnection
  BY <1>6 DEF OnConnection
<1>7. CASE RunSend
  BY <1>7, HeadMoves DEF RunSend
<1>8. CASE OnMessage
  BY <1>8, HeadMoves DEF OnMessage
<1>9. CASE Close
  BY <1>9 DEF Close
<1>10. CASE Disconnected
  BY <1>10 DEF Disconnected
<1>11. CASE UNCHANGED vars
  BY <1>11 DEF vars
<1>12. QED BY <1>1, <1>2, <1>3, <1>4, <1>5, <1>6, <1>7, <1>8, <1>9, <1>10, <1>11
           DEF Next, Callers, Loop

\* The types hold throughout.
THEOREM TypeCorrect == Spec => []TypeOK
<1>1. Init => TypeOK
  BY DEF Init, TypeOK, Links, Idle
<1>2. QED BY <1>1, TypeStep, PTL DEF Spec

-----------------------------------------------------------------------------
\* A caller that enters or leaves a call changes the number of busy ones by one.
LEMMA BusyEnters ==
  ASSUME NEW t \in Caller, Busy' = Busy \cup {t}, t \notin Busy
  PROVE  Cardinality(Busy') = Cardinality(Busy) + 1
<1>1. IsFiniteSet(Busy)
  BY CallerAssumption, FS_Subset DEF Busy
<1>2. QED BY <1>1, FS_AddElement

LEMMA BusyLeaves ==
  ASSUME NEW t \in Caller, Busy' = Busy \ {t}, t \in Busy
  PROVE  Cardinality(Busy') = Cardinality(Busy) - 1
<1>1. IsFiniteSet(Busy)
  BY CallerAssumption, FS_Subset DEF Busy
<1>2. QED BY <1>1, FS_RemoveElement

\* No step uses up a callback that an answerable request still needs.
LEMMA CallbackStep ==
  TypeOK /\ CallbackForEveryRequest /\ [Next]_vars => CallbackForEveryRequest'
<1> SUFFICES ASSUME TypeOK, CallbackForEveryRequest, [Next]_vars
             PROVE  CallbackForEveryRequest'
  OBVIOUS
<1>0. /\ Len(pending) \in Nat /\ Len(sendq) \in Nat /\ Len(net) \in Nat
      /\ Len(cbq) \in Nat /\ Cardinality(Busy) \in Nat
  <2>1. IsFiniteSet(Busy)
    BY CallerAssumption, FS_Subset DEF Busy
  <2>2. QED BY <2>1, FS_CardinalityType DEF TypeOK
<1> USE DEF CallbackForEveryRequest
<1>1. ASSUME NEW t \in Caller, NEW c \in Call, PushCallback(t, c)
      PROVE  CallbackForEveryRequest'
  <2>1. Busy' = Busy \cup {t} /\ t \notin Busy
    BY <1>1 DEF PushCallback, Busy, Idle, TypeOK
  <2>2. Cardinality(Busy') = Cardinality(Busy) + 1
    BY <2>1, BusyEnters
  <2>3. Len(cbq') = Len(cbq) + 1
    BY <1>1 DEF PushCallback, TypeOK
  <2>4. QED BY <1>0, <1>1, <2>2, <2>3 DEF PushCallback
<1>2. ASSUME NEW t \in Caller, GetConnection(t)
      PROVE  CallbackForEveryRequest'
  <2>1. Busy' = Busy
    BY <1>2 DEF GetConnection, Busy, Idle, TypeOK
  <2>2. QED BY <1>2, <2>1 DEF GetConnection
<1>3. ASSUME NEW t \in Caller, PushPending(t)
      PROVE  CallbackForEveryRequest'
  <2>1. Busy' = Busy \ {t} /\ t \in Busy
    BY <1>3 DEF PushPending, Return, Busy, Idle, TypeOK
  <2>2. Cardinality(Busy') = Cardinality(Busy) - 1
    BY <2>1, BusyLeaves
  <2>3. Len(pending') = Len(pending) + 1
    BY <1>3 DEF PushPending, TypeOK, Idle
  <2>4. QED BY <1>0, <1>3, <2>2, <2>3 DEF PushPending
<1>4. ASSUME NEW t \in Caller, Send(t)
      PROVE  CallbackForEveryRequest'
  <2>1. Busy' = Busy \ {t} /\ t \in Busy
    BY <1>4 DEF Send, Return, Busy, Idle, TypeOK
  <2>2. Cardinality(Busy') = Cardinality(Busy) - 1
    BY <2>1, BusyLeaves
  <2>3. Len(sendq') = Len(sendq) + 1
    BY <1>4 DEF Send, TypeOK, Idle
  <2>4. QED BY <1>0, <1>4, <2>2, <2>3 DEF Send
<1>5. ASSUME Loop PROVE Busy' = Busy
  BY <1>5 DEF Loop, Published, OnConnection, RunSend, OnMessage, Close,
              Disconnected, Busy, Idle
<1>6. CASE Published
  BY <1>5, <1>6 DEF Published, Loop
<1>7. CASE OnConnection
  <2>1. Len(net') = Len(net) + Len(pending) /\ Len(pending') = 0
    BY <1>7 DEF OnConnection, TypeOK
  <2>2. QED BY <1>0, <1>5, <1>7, <2>1 DEF OnConnection, Loop
<1>8. CASE RunSend
  <2>1. Len(sendq') = Len(sendq) - 1
    BY <1>8 DEF RunSend, TypeOK
  <2>2. Len(net') = Len(net) \/ Len(net') = Len(net) + 1
    BY <1>8, HeadMoves DEF RunSend, TypeOK
  <2>3. Busy' = Busy
    BY <1>5, <1>8 DEF Loop
  <2>4. pending' = pending /\ cbq' = cbq
    BY <1>8 DEF RunSend
  <2>5. CASE Len(net') = Len(net)
    BY <1>0, <2>1, <2>3, <2>4, <2>5
  <2>6. CASE Len(net') = Len(net) + 1
    BY <1>0, <2>1, <2>3, <2>4, <2>6
  <2>7. QED BY <2>2, <2>5, <2>6
<1>9. CASE OnMessage
  <2>1. Len(net') = Len(net) - 1 /\ Len(cbq') = Len(cbq) - 1
    BY <1>9 DEF OnMessage, TypeOK
  <2>2. QED BY <1>0, <1>5, <1>9, <2>1 DEF OnMessage, Loop
<1>10. CASE Close
  BY <1>5, <1>10 DEF Close, Loop
<1>11. CASE Disconnected
  <2>1. Len(net') = 0
    BY <1>11 DEF Disconnected
  <2>2. QED BY <1>0, <1>5, <1>11, <2>1 DEF Disconnected, Loop
<1>12. CASE UNCHANGED vars
  <2>1. Busy' = Busy
    BY <1>12 DEF vars, Busy, Idle
  <2>2. QED BY <1>12, <2>1 DEF vars
<1>13. QED BY <1>1, <1>2, <1>3, <1>4, <1>6, <1>7, <1>8, <1>9, <1>10, <1>11, <1>12
           DEF Next, Callers, Loop

\* cbq_ never runs out of callbacks for the responses that can still come.
THEOREM NoUnderflow == Spec => []CallbackForEveryRequest
<1>1. Init => CallbackForEveryRequest
  <2> SUFFICES ASSUME Init PROVE CallbackForEveryRequest
    OBVIOUS
  <2>1. Busy = {}
    BY DEF Init, Busy, Idle
  <2>2. Cardinality(Busy) = 0
    BY <2>1, FS_EmptySet
  <2>3. Len(pending) = 0 /\ Len(sendq) = 0 /\ Len(net) = 0 /\ Len(cbq) = 0
    BY DEF Init
  <2>4. QED BY <2>2, <2>3 DEF CallbackForEveryRequest
<1>2. QED BY <1>1, CallbackStep, TypeCorrect, PTL DEF Spec

-----------------------------------------------------------------------------
(***************************************************************************)
(* Matching by position.  Under the one-call-at-a-time discipline cbq_ is  *)
(* at all times the requests on their way, in order, plus the one a caller *)
(* is about to hand over; where those requests are depends on the link.    *)
(***************************************************************************)
Covers(s) ==
    \/ AllIdle /\ cbq = s
    \/ \E t \in Caller : /\ ~Idle(t)
                         /\ \A u \in Caller : u # t => Idle(u)
                         /\ cbq = Append(s, cur[t])

NoneAt(where) == \A t \in Caller : pc[t] # where

ConnectingPart == net = <<>> /\ sendq = <<>> /\ Covers(pending) /\ NoneAt("send")
PublishedPart  == net = <<>> /\ Covers(pending \o sendq) /\ NoneAt("park")
ConnectedPart  == pending = <<>> /\ Covers(net \o sendq) /\ NoneAt("park")
ClosingPart    == /\ pending = <<>> /\ NoneAt("park")
                  /\ \E s \in Seq(Call) : cbq = net \o s

Order ==
    /\ OwnResponse
    /\ link = "connecting" => ConnectingPart
    /\ link = "published" => PublishedPart
    /\ link = "connected" => ConnectedPart
    /\ link = "closing" => ClosingPart
    /\ link = "closed" => net = <<>>

\* A call that starts while nobody else is in one: cbq_ still covers s.
LEMMA CoversPush ==
  ASSUME TypeOK, NEW s, Covers(s), s' = s, AllIdle,
         NEW t \in Caller, NEW c \in Call, PushCallback(t, c)
  PROVE  Covers(s)'
<1>1. cbq = s
  BY DEF Covers, AllIdle
<1>2. ~Idle(t)' /\ cur'[t] = c /\ \A u \in Caller : u # t => Idle(u)'
  BY DEF PushCallback, TypeOK, AllIdle, Idle
<1>3. cbq' = Append(s, cur'[t])
  BY <1>1, <1>2 DEF PushCallback
<1>4. QED BY <1>2, <1>3 DEF Covers

\* GetConnection keeps its caller in the call.
LEMMA CoversGet ==
  ASSUME TypeOK, NEW s, Covers(s), s' = s, NEW t \in Caller, GetConnection(t)
  PROVE  Covers(s)'
<1>1. \A u \in Caller : Idle(u)' <=> Idle(u)
  BY DEF GetConnection, TypeOK, Idle
<1>2. cbq' = cbq /\ cur' = cur
  BY DEF GetConnection
<1>3. QED BY <1>1, <1>2 DEF Covers, AllIdle

\* A caller that hands its request over at the end of s leaves cbq_ covering it.
LEMMA CoversReturn ==
  ASSUME TypeOK, NEW s, Covers(s), NEW t \in Caller, ~Idle(t), Return(t),
         cbq' = cbq
  PROVE  AllIdle' /\ cbq' = Append(s, cur[t])
<1>1. \A u \in Caller : u # t => Idle(u)
  BY DEF Covers, AllIdle
<1>2. AllIdle'
  BY <1>1 DEF Return, TypeOK, Idle, AllIdle
<1>3. cbq = Append(s, cur[t])
  BY DEF Covers, AllIdle
<1>4. QED BY <1>2, <1>3

\* Steps of the callers keep the order.
LEMMA CallerOrder ==
  ASSUME TypeOK, Order, Callers, OneAtATime
  PROVE  Order'
<1> USE DEF Order
<1>0. link' = link /\ net' = net /\ OwnResponse'
  BY DEF Callers, PushCallback, GetConnection, PushPending, Send, OwnResponse
<1>1. ASSUME NEW t \in Caller, NEW c \in Call, PushCallback(t, c) PROVE Order'
  <2>1. AllIdle
    BY <1>1 DEF OneAtATime, PushCallback
  <2>2. pending' = pending /\ sendq' = sendq
    BY <1>1 DEF PushCallback
  <2>3. \A where \in {"send", "park"} : NoneAt(where) => NoneAt(where)'
    BY <1>1 DEF PushCallback, NoneAt, TypeOK
  <2>4. link = "connecting" => ConnectingPart'
    BY <1>0, <1>1, <2>1, <2>2, <2>3, CoversPush DEF ConnectingPart
  <2>5. link = "published" => PublishedPart'
    BY <1>0, <1>1, <2>1, <2>2, <2>3, CoversPush DEF PublishedPart
  <2>6. link = "connected" => ConnectedPart'
    BY <1>0, <1>1, <2>1, <2>2, <2>3, CoversPush DEF ConnectedPart
  <2>7. link = "closing" => ClosingPart'
    <3> SUFFICES ASSUME link = "closing" PROVE ClosingPart'
      OBVIOUS
    <3>1. PICK s \in Seq(Call) : cbq = net \o s
      BY DEF ClosingPart
    <3>2. net \in Seq(Call) /\ Append(s, c) \in Seq(Call)
      BY DEF TypeOK
    <3>3. Append(net \o s, c) = net \o Append(s, c)
      BY <3>2, AppendConcat
    <3>4. cbq' = net' \o Append(s, c)
      BY <1>0, <1>1, <3>1, <3>3 DEF PushCallback
    <3>5. QED BY <1>0, <2>2, <2>3, <3>2, <3>4 DEF ClosingPart
  <2>8. QED BY <1>0, <2>4, <2>5, <2>6, <2>7
<1>2. ASSUME NEW t \in Caller, GetConnection(t) PROVE Order'
  <2>1. UNCHANGED <<cbq, pending, sendq>>
    BY <1>2 DEF GetConnection
  <2>2. NoneAt("send") /\ link = "connecting" => NoneAt("send")'
    BY <1>2 DEF GetConnection, NoneAt, TypeOK, HasConnection
  <2>3. NoneAt("park") /\ HasConnection => NoneAt("park")'
    BY <1>2 DEF GetConnection, NoneAt, TypeOK
  <2>4. link = "connecting" => ConnectingPart'
    BY <1>0, <1>2, <2>1, <2>2, CoversGet DEF ConnectingPart
  <2>5. link = "published" => PublishedPart'
    BY <1>0, <1>2, <2>1, <2>3, CoversGet DEF PublishedPart, HasConnection
  <2>6. link = "connected" => ConnectedPart'
    BY <1>0, <1>2, <2>1, <2>3, CoversGet DEF ConnectedPart, HasConnection
  <2>7. link = "closing" => ClosingPart'
    BY <1>0, <2>1, <2>3 DEF ClosingPart, HasConnection
  <2>8. QED BY <1>0, <2>4, <2>5, <2>6, <2>7
<1>3. ASSUME NEW t \in Caller, PushPending(t) PROVE Order'
  <2>1. link \in {"connecting", "closed"}
    BY <1>3 DEF PushPending, NoneAt, PublishedPart, ConnectedPart, ClosingPart,
                TypeOK, Links
  <2>2. CASE link = "connecting"
    <3>1. AllIdle' /\ cbq' = Append(pending, cur[t])
      BY <1>3, <2>2, CoversReturn DEF PushPending, ConnectingPart, Idle
    <3>2. Covers(pending)' /\ NoneAt("send")' /\ sendq' = sendq
      BY <1>3, <3>1 DEF PushPending, Covers, AllIdle, Idle, NoneAt
    <3>3. QED BY <1>0, <2>2, <3>2 DEF ConnectingPart
  <2>3. CASE link = "closed"
    BY <1>0, <2>3
  <2>4. QED BY <2>1, <2>2, <2>3
<1>4. ASSUME NEW t \in Caller, Send(t) PROVE Order'
  <2>0. /\ ~Idle(t) /\ Return(t) /\ cbq' = cbq /\ pending' = pending
        /\ sendq' = Append(sendq, cur[t]) /\ cur[t] \in Call
    BY <1>4 DEF Send, Idle, TypeOK
  <2>1. link # "connecting"
    BY <1>4 DEF Send, NoneAt, ConnectingPart
  <2>2. NoneAt("park") => NoneAt("park")'
    BY <2>0 DEF Return, NoneAt, TypeOK
  <2>3. link = "published" => PublishedPart'
    <3> SUFFICES ASSUME link = "published" PROVE PublishedPart'
      OBVIOUS
    <3>1. AllIdle' /\ cbq' = Append(pending \o sendq, cur[t])
      BY <2>0, CoversReturn DEF PublishedPart
    <3>2. Append(pending \o sendq, cur[t]) = pending \o Append(sendq, cur[t])
      <4>1. pending \in Seq(Call) /\ sendq \in Seq(Call)
        BY DEF TypeOK
      <4>2. QED BY <2>0, <4>1, AppendConcat
    <3>3. cbq' = pending' \o sendq'
      BY <2>0, <3>1, <3>2
    <3>4. QED BY <1>0, <2>2, <3>1, <3>3 DEF PublishedPart, Covers
  <2>4. link = "connected" => ConnectedPart'
    <3> SUFFICES ASSUME link = "connected" PROVE ConnectedPart'
      OBVIOUS
    <3>1. AllIdle' /\ cbq' = Append(net \o sendq, cur[t])
      BY <2>0, CoversReturn DEF ConnectedPart
    <3>2. Append(net \o sendq, cur[t]) = net \o Append(sendq, cur[t])
      <4>1. net \in Seq(Call) /\ sendq \in Seq(Call)
        BY DEF TypeOK
      <4>2. QED BY <2>0, <4>1, AppendConcat
    <3>3. cbq' = net' \o sendq'
      BY <1>0, <2>0, <3>1, <3>2
    <3>4. QED BY <1>0, <2>0, <2>2, <3>1, <3>3 DEF ConnectedPart, Covers
  <2>5. link = "closing" => ClosingPart'
    BY <1>0, <2>0, <2>2 DEF ClosingPart
  <2>6. QED BY <1>0, <2>1, <2>3, <2>4, <2>5
<1>5. QED BY <1>1, <1>2, <1>3, <1>4 DEF Callers

\* On a connected link the requests in flight come first in cbq_.
LEMMA InFlightFirst ==
  ASSUME TypeOK, ConnectedPart
  PROVE  \E s \in Seq(Call) : cbq = net \o s
<1>0. net \in Seq(Call) /\ sendq \in Seq(Call)
  BY DEF TypeOK
<1>1. CASE AllIdle
  BY <1>0, <1>1 DEF ConnectedPart, Covers, AllIdle
<1>2. CASE ~AllIdle
  <2>1. PICK t \in Caller : ~Idle(t) /\ cbq = Append(net \o sendq, cur[t])
    BY <1>2 DEF ConnectedPart, Covers
  <2>2. cur[t] \in Call
    BY <2>1 DEF TypeOK
  <2>3. Append(net \o sendq, cur[t]) = net \o Append(sendq, cur[t])
    BY <1>0, <2>2, AppendConcat
  <2>4. Append(sendq, cur[t]) \in Seq(Call)
    BY <1>0, <2>2
  <2>5. QED BY <2>1, <2>3, <2>4
<1>3. QED BY <1>1, <1>2

\* Steps of the loop keep the order: requests only move from one queue to the
\* next, and a response and its callback leave together.
LEMMA LoopOrder ==
  ASSUME TypeOK, Order, Loop, OneAtATime
  PROVE  Order'
<1> USE DEF Order
<1>0. pc' = pc /\ cur' = cur
  BY DEF Loop, Published, OnConnection, RunSend, OnMessage, Close, Disconnected
<1>1. \A where : NoneAt(where)' <=> NoneAt(where)
  BY <1>0 DEF NoneAt
<1>2. \A t \in Caller : Idle(t)' <=> Idle(t)
  BY <1>0 DEF Idle
<1>3. AllIdle' <=> AllIdle
  BY <1>2 DEF AllIdle
<1>4. pending \in Seq(Call) /\ sendq \in Seq(Call) /\ net \in Seq(Call)
  BY DEF TypeOK
<1>5. CASE Published
  <2>1. AllIdle
    BY <1>5 DEF Published, OneAtATime
  <2>2. cbq = pending /\ sendq = <<>> /\ net = <<>>
    BY <1>5, <2>1 DEF Published, ConnectingPart, Covers, AllIdle
  <2>3. pending \o sendq = pending
    BY <1>4, <2>2, EmptyConcat
  <2>4. UNCHANGED <<cbq, pending, sendq, net, got>> /\ link' = "published"
    BY <1>5 DEF Published
  <2>5. Covers(pending \o sendq)'
    BY <1>3, <2>1, <2>2, <2>3, <2>4 DEF Covers
  <2>6. NoneAt("park")'
    BY <1>1, <2>1 DEF AllIdle, Idle, NoneAt
  <2>7. QED BY <2>2, <2>4, <2>5, <2>6 DEF PublishedPart, OwnResponse
<1>6. CASE OnConnection
  <2>1. PublishedPart
    BY <1>6 DEF OnConnection
  <2>2. net' = pending /\ sendq' = sendq /\ cbq' = cbq
    BY <1>4, <1>6, <2>1, EmptyConcat DEF OnConnection, PublishedPart
  <2>3. Covers(net \o sendq)'
    BY <1>0, <1>2, <1>3, <2>1, <2>2 DEF PublishedPart, Covers
  <2>4. QED BY <1>1, <1>6, <2>1, <2>3
            DEF OnConnection, PublishedPart, ConnectedPart, OwnResponse
<1>7. CASE RunSend
  <2>1. UNCHANGED <<link, cbq, pending, got>> /\ sendq # <<>> /\ link # "published"
    BY <1>7 DEF RunSend
  <2>2. CASE link = "connected"
    <3>1. net' = Append(net, Head(sendq)) /\ sendq' = Tail(sendq)
      BY <1>7, <2>2 DEF RunSend
    <3>2. net' \o sendq' = net \o sendq
      BY <1>4, <2>1, <3>1, HeadMoves
    <3>3. Covers(net \o sendq)'
      BY <1>0, <1>2, <1>3, <2>1, <2>2, <3>2 DEF ConnectedPart, Covers
    <3>4. QED BY <1>1, <2>1, <2>2, <3>3 DEF ConnectedPart, OwnResponse
  <2>3. CASE link # "connected"
    <3>1. net' = net
      BY <1>7, <2>3 DEF RunSend
    <3>2. link # "connecting"
      BY <2>1 DEF ConnectingPart
    <3>3. QED BY <1>1, <2>1, <2>3, <3>1, <3>2 DEF ClosingPart, OwnResponse
  <2>4. QED BY <2>2, <2>3
<1>8. CASE OnMessage
  <2>1. /\ UNCHANGED <<link, pending, sendq>> /\ net # <<>>
        /\ link \in {"connected", "closing"}
        /\ net' = Tail(net) /\ cbq' = Tail(cbq)
    BY <1>8 DEF OnMessage
  <2>2. PICK s \in Seq(Call) : cbq = net \o s
    BY <2>1, InFlightFirst DEF ClosingPart
  <2>3. Head(cbq) = Head(net) /\ cbq' = net' \o s
    BY <1>4, <2>1, <2>2, FrontConcat
  <2>4. OwnResponse'
    BY <1>8, <2>3 DEF OnMessage, OwnResponse, TypeOK
  <2>5. CASE link = "closing"
    BY <1>1, <2>1, <2>3, <2>4, <2>5 DEF ClosingPart
  <2>6. CASE link = "connected"
    <3>1. /\ Tail(net) \in Seq(Call) /\ Tail(net \o sendq) = Tail(net) \o sendq
          /\ net \o sendq \in Seq(Call) /\ net \o sendq # <<>>
      <4>1. Tail(net) \in Seq(Call)
        BY <1>4, <2>1, HeadMoves
      <4>2. Tail(net \o sendq) = Tail(net) \o sendq /\ net \o sendq # <<>>
        BY <1>4, <2>1, FrontConcat
      <4>3. net \o sendq \in Seq(Call)
        BY <1>4
      <4>4. QED BY <4>1, <4>2, <4>3
    <3>2. ASSUME NEW t \in Caller, ~Idle(t), cbq = Append(net \o sendq, cur[t])
          PROVE  cbq' = Append(net' \o sendq', cur[t])
      <4>1. cur[t] \in Call
        BY <3>2 DEF TypeOK
      <4>2. Tail(Append(net \o sendq, cur[t])) = Append(Tail(net \o sendq), cur[t])
        BY <3>1, <4>1
      <4>3. QED BY <2>1, <3>1, <3>2, <4>2
    <3>3. AllIdle /\ cbq = net \o sendq => cbq' = net' \o sendq'
      BY <2>1, <3>1
    <3>4. Covers(net \o sendq)'
      BY <1>0, <1>2, <1>3, <2>6, <3>2, <3>3 DEF ConnectedPart, Covers
    <3>5. QED BY <1>1, <2>1, <2>4, <2>6, <3>4 DEF ConnectedPart
  <2>7. QED BY <2>1, <2>5, <2>6
<1>9. CASE Close
  <2>1. /\ link = "connected" /\ link' = "closing"
        /\ UNCHANGED <<cbq, pending, sendq, net, got>>
    BY <1>9 DEF Close
  <2>2. \E s \in Seq(Call) : cbq = net \o s
    BY <2>1, InFlightFirst
  <2>3. QED BY <1>1, <2>1, <2>2 DEF ConnectedPart, ClosingPart, OwnResponse
<1>10. CASE Disconnected
  BY <1>10 DEF Disconnected, OwnResponse
<1>11. QED BY <1>5, <1>6, <1>7, <1>8, <1>9, <1>10 DEF Loop

\* Order is an invariant of the disciplined client.
THEOREM OrderTheorem == DisciplinedSpec => [](TypeOK /\ Order)
<1>1. Init => TypeOK /\ Order
  <2> SUFFICES ASSUME Init PROVE TypeOK /\ Order
    OBVIOUS
  <2>1. TypeOK
    BY DEF Init, TypeOK, Links, Idle
  <2>2. Covers(pending) /\ NoneAt("send")
    BY DEF Init, Covers, AllIdle, Idle, NoneAt
  <2>3. QED BY <2>1, <2>2 DEF Init, Order, OwnResponse, ConnectingPart
<1>2. TypeOK /\ Order /\ [Next /\ OneAtATime]_vars => (TypeOK /\ Order)'
  <2> SUFFICES ASSUME TypeOK, Order, [Next /\ OneAtATime]_vars
               PROVE  (TypeOK /\ Order)'
    OBVIOUS
  <2>1. TypeOK'
    BY TypeStep
  <2>2. CASE UNCHANGED vars
    BY <2>1, <2>2 DEF vars, Order, OwnResponse, ConnectingPart, PublishedPart,
         ConnectedPart, ClosingPart, Covers, AllIdle, Idle, NoneAt
  <2>3. CASE Next /\ OneAtATime
    BY <2>1, <2>3, CallerOrder, LoopOrder DEF Next
  <2>4. QED BY <2>2, <2>3
<1>3. QED BY <1>1, <1>2, PTL DEF DisciplinedSpec

\* With one call at a time, and none while the connection comes up, every
\* callback is given the response to its own request.
THEOREM OwnResponseTheorem == DisciplinedSpec => []OwnResponse
<1>1. TypeOK /\ Order => OwnResponse
  BY DEF Order
<1>2. QED BY <1>1, OrderTheorem, PTL

\* Under the same discipline the assertion that mmkv_client.cc comments out
\* would hold: no request is pending when a response can arrive.
THEOREM PendingTheorem == DisciplinedSpec => []PendingEmptyOnMessage
<1>1. TypeOK /\ Order => PendingEmptyOnMessage
  BY DEF TypeOK, Links, Order, PendingEmptyOnMessage, ConnectingPart,
         PublishedPart, ConnectedPart, ClosingPart
<1>2. QED BY <1>1, OrderTheorem, PTL

-----------------------------------------------------------------------------
\* The callbacks in cbq_ belong to different calls, none of them completed;
\* a call that was not made is not completed either.
Waiting ==
    /\ \A i, j \in 1 .. Len(cbq) : cbq[i] = cbq[j] => i = j
    /\ \A i \in 1 .. Len(cbq) : cbq[i] \in issued /\ got[cbq[i]] = NoCall
    /\ \A c \in Call : c \notin issued => got[c] = NoCall

\* Every step keeps the waiting callbacks distinct and not completed.
LEMMA WaitingStep == TypeOK /\ Waiting /\ [Next]_vars => Waiting'
<1> SUFFICES ASSUME TypeOK, Waiting, [Next]_vars PROVE Waiting'
  OBVIOUS
<1>1. ASSUME NEW t \in Caller, NEW c \in Call, PushCallback(t, c)
      PROVE  Waiting'
  <2>1. /\ cbq' = Append(cbq, c) /\ issued' = issued \cup {c} /\ got' = got
        /\ c \notin issued
    BY <1>1 DEF PushCallback
  <2>2. /\ Len(cbq') = Len(cbq) + 1 /\ Len(cbq) \in Nat
        /\ \A i \in 1 .. Len(cbq) : cbq'[i] = cbq[i]
        /\ cbq'[Len(cbq) + 1] = c
    BY <2>1 DEF TypeOK
  <2>3. \A i \in 1 .. Len(cbq) : cbq[i] # c
    BY <2>1 DEF Waiting
  <2>4. QED BY <2>1, <2>2, <2>3 DEF Waiting
<1>2. CASE OnMessage
  <2>1. /\ Len(cbq') = Len(cbq) - 1 /\ Len(cbq) \in Nat \ {0}
        /\ \A i \in 1 .. Len(cbq') : cbq'[i] = cbq[i + 1]
        /\ Head(cbq) = cbq[1]
    BY <1>2 DEF OnMessage, TypeOK
  <2>2. \A i \in 1 .. Len(cbq') : cbq'[i] # Head(cbq)
    BY <2>1 DEF Waiting
  <2>3. \A c \in Call : c # Head(cbq) => got'[c] = got[c]
    BY <1>2 DEF OnMessage, TypeOK
  <2>4. \A i \in 1 .. Len(cbq) : cbq[i] \in Call
    BY DEF TypeOK
  <2>5. issued' = issued
    BY <1>2 DEF OnMessage
  <2>6. Head(cbq) \in issued
    BY <2>1 DEF Waiting
  <2>7. \A i, j \in 1 .. Len(cbq') : cbq'[i] = cbq'[j] => i = j
    BY <2>1 DEF Waiting
  <2>8. \A i \in 1 .. Len(cbq') : cbq'[i] \in issued /\ got'[cbq'[i]] = NoCall
    BY <2>1, <2>2, <2>3, <2>4 DEF Waiting
  <2>9. QED BY <2>3, <2>5, <2>6, <2>7, <2>8 DEF Waiting
<1>3. CASE UNCHANGED <<cbq, issued, got>>
  BY <1>3 DEF Waiting
<1>4. QED BY <1>1, <1>2, <1>3 DEF Next, Callers, Loop, vars, GetConnection,
             PushPending, Send, Published, OnConnection, RunSend, Close, Disconnected

\* A callback runs at most once, however callers, flush, responses and the end
\* of the connection interleave.
THEOREM OnceTheorem == Spec => CompletedOnce
<1>1. Init => Waiting
  BY DEF Init, Waiting
<1>2. TypeOK /\ Waiting /\ [Next]_vars
        => [\A c \in Call : got[c] # NoCall => got'[c] = got[c]]_vars
  <2> SUFFICES ASSUME TypeOK, Waiting, Next, NEW c \in Call, got[c] # NoCall
               PROVE  got'[c] = got[c]
    OBVIOUS
  <2>1. CASE OnMessage
    <3>1. got[Head(cbq)] = NoCall
      BY <2>1 DEF OnMessage, Waiting, TypeOK
    <3>2. QED BY <2>1, <3>1 DEF OnMessage, TypeOK
  <2>2. CASE got' = got
    BY <2>2
  <2>3. QED BY <2>1, <2>2 DEF Next, Callers, Loop, PushCallback, GetConnection,
               PushPending, Send, Published, OnConnection, RunSend, Close, Disconnected
<1>3. QED BY <1>1, <1>2, WaitingStep, TypeCorrect, PTL DEF Spec, CompletedOnce
=============================================================================
