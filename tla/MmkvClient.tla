------------------------------ MODULE MmkvClient ----------------------------
(***************************************************************************)
(* mmkv::MmkvClient: caller threads hand requests to an event loop thread, *)
(* and the loop matches the responses with callbacks by position only: the *)
(* i-th response completes the i-th entry of cbq_.                         *)
(*                                                                         *)
(* A call is a model value; its request and the server's response to that  *)
(* request carry the same name.  PrepareOutstandingCall is three steps     *)
(* (push under cbq_mu_, GetConnection, push under pending_requestq_mu_ or  *)
(* Send), each atomic, with other threads and the loop in between.         *)
(*                                                                         *)
(* External (kanon, the server): TcpClient publishes one connection, then  *)
(* runs the connection callback in the loop; Send from another thread is a *)
(* functor the loop runs later; bytes are delivered in order; the server   *)
(* answers every request once, in order.  Nothing in src/ enables a        *)
(* reconnect, so a connection that is down stays down.                     *)
(***************************************************************************)
EXTENDS Integers, Sequences, FiniteSets

CONSTANTS Caller,     \* threads that use the client
          Call,       \* the AddStr/GetStr calls they make
          NoCall,     \* no call
          MayClose    \* whether Close() or a broken connection is considered

ASSUME NoCallAssumption == NoCall \notin Call
ASSUME CallerAssumption == IsFiniteSet(Caller)

VARIABLES link,       \* TcpClient's connection, see Links
          cbq,        \* cbq_: calls whose callback is waiting
          pending,    \* pending_requestq_
          sendq,      \* Send functors queued in the loop
          net,        \* requests sent and not answered, oldest first
          pc, cur,    \* where each caller is in PrepareOutstandingCall
          issued,     \* history: calls made
          got         \* history: which response each callback was given

vars == <<link, cbq, pending, sendq, net, pc, cur, issued, got>>

\* connecting: GetConnection() is null.  published: it is not, and the callback
\* has not run.  closing: ShutdownWrite done.  closed: null again.
Links == {"connecting", "published", "connected", "closing", "closed"}

HasConnection == link \in {"published", "connected", "closing"}

Idle(t) == pc[t] = "idle"

-----------------------------------------------------------------------------
Init ==
    /\ link = "connecting"     \* the constructor ends with Connect()
    /\ cbq = <<>> /\ pending = <<>> /\ sendq = <<>> /\ net = <<>>
    /\ pc = [t \in Caller |-> "idle"]
    /\ cur = [t \in Caller |-> NoCall]
    /\ issued = {}
    /\ got = [c \in Call |-> NoCall]

\* Mutant of PushCallback: the callback goes to the front.
PushCallbackFront(t, c) ==
    /\ Idle(t) /\ c \notin issued
    /\ cbq' = <<c>> \o cbq
    /\ issued' = issued \cup {c}
    /\ pc' = [pc EXCEPT ![t] = "pushed"]
    /\ cur' = [cur EXCEPT ![t] = c]
    /\ UNCHANGED <<link, pending, sendq, net, got>>

\* AddStr/GetStr up to the unlock of cbq_mu_
PushCallback(t, c) ==
    /\ Idle(t) /\ c \notin issued
    /\ cbq' = Append(cbq, c)
    /\ issued' = issued \cup {c}
    /\ pc' = [pc EXCEPT ![t] = "pushed"]
    /\ cur' = [cur EXCEPT ![t] = c]
    /\ UNCHANGED <<link, pending, sendq, net, got>>

GetConnection(t) ==
    /\ pc[t] = "pushed"
    /\ pc' = [pc EXCEPT ![t] = IF HasConnection THEN "send" ELSE "park"]
    /\ UNCHANGED <<link, cbq, pending, sendq, net, cur, issued, got>>

\* Mutant of Return: the caller goes on with a request it has given away.
ReturnTwice(t) == pc' = pc /\ cur' = [cur EXCEPT ![t] = NoCall]

\* The call returns to its caller.
Return(t) ==
    /\ pc' = [pc EXCEPT ![t] = "idle"]
    /\ cur' = [cur EXCEPT ![t] = NoCall]

PushPending(t) ==
    /\ pc[t] = "park"
    /\ pending' = Append(pending, cur[t])
    /\ Return(t)
    /\ UNCHANGED <<link, cbq, sendq, net, issued, got>>

Send(t) ==
    /\ pc[t] = "send"
    /\ sendq' = Append(sendq, cur[t])
    /\ Return(t)
    /\ UNCHANGED <<link, cbq, pending, net, issued, got>>

-----------------------------------------------------------------------------
Published ==
    /\ link = "connecting"
    /\ link' = "published"
    /\ UNCHANGED <<cbq, pending, sendq, net, pc, cur, issued, got>>

\* Mutant of OnConnection: the pending requests stay queued.
OnConnectionKeeps ==
    /\ link = "published"
    /\ link' = "connected"
    /\ net' = net \o pending
    /\ UNCHANGED <<cbq, pending, sendq, pc, cur, issued, got>>

\* Mutant of OnConnection: the pending requests are dropped.
OnConnectionDrops ==
    /\ link = "published"
    /\ link' = "connected"
    /\ pending' = <<>>
    /\ UNCHANGED <<cbq, sendq, net, pc, cur, issued, got>>

\* The connection callback: the loop sends what is pending, at once.
OnConnection ==
    /\ link = "published"
    /\ link' = "connected"
    /\ net' = net \o pending
    /\ pending' = <<>>
    /\ UNCHANGED <<cbq, sendq, pc, cur, issued, got>>

\* The loop runs a Send functor; a connection that is shut down drops it.
RunSend ==
    /\ sendq # <<>> /\ link # "published"
    /\ sendq' = Tail(sendq)
    /\ net' = IF link = "connected" THEN Append(net, Head(sendq)) ELSE net
    /\ UNCHANGED <<link, cbq, pending, pc, cur, issued, got>>

\* Mutant of OnMessage: the callback is not popped.
OnMessageKeeps ==
    /\ link \in {"connected", "closing"}
    /\ net # <<>> /\ cbq # <<>>
    /\ net' = Tail(net)
    /\ got' = [got EXCEPT ![Head(cbq)] = Head(net)]
    /\ UNCHANGED <<link, cbq, pending, sendq, pc, cur, issued>>

\* The message callback: the response to the oldest request is given to the
\* oldest callback.
OnMessage ==
    /\ link \in {"connected", "closing"}
    /\ net # <<>> /\ cbq # <<>>
    /\ net' = Tail(net)
    /\ cbq' = Tail(cbq)
    /\ got' = [got EXCEPT ![Head(cbq)] = Head(net)]
    /\ UNCHANGED <<link, pending, sendq, pc, cur, issued>>

\* Close(): Disconnect() half-closes the connection, if there is one.
Close ==
    /\ MayClose /\ link = "connected"
    /\ link' = "closing"
    /\ UNCHANGED <<cbq, pending, sendq, net, pc, cur, issued, got>>

\* The connection is gone; the connection callback does nothing about it.
Disconnected ==
    /\ MayClose /\ link \in {"connected", "closing"}
    /\ link' = "closed"
    /\ net' = <<>>
    /\ UNCHANGED <<cbq, pending, sendq, pc, cur, issued, got>>

-----------------------------------------------------------------------------
Callers == \E t \in Caller : \/ \E c \in Call : PushCallback(t, c)
                             \/ GetConnection(t) \/ PushPending(t) \/ Send(t)

Loop == Published \/ OnConnection \/ RunSend \/ OnMessage \/ Close \/ Disconnected

Next == Callers \/ Loop

Spec == Init /\ [][Next]_vars

\* Threads inside a call and the loop keep running, the server is reachable and
\* answers; nobody has to make a call.
Fairness ==
    /\ WF_vars(Published) /\ WF_vars(OnConnection)
    /\ WF_vars(RunSend) /\ WF_vars(OnMessage)
    /\ \A t \in Caller : WF_vars(GetConnection(t) \/ PushPending(t) \/ Send(t))

FairSpec == Spec /\ Fairness

(***************************************************************************)
(* The discipline under which positional matching is right: one call at a  *)
(* time, and the connection does not come up in the middle of one.  It is  *)
(* what a single-threaded caller does that waits for the connection first. *)
(***************************************************************************)
AllIdle == \A t \in Caller : Idle(t)

OneAtATime ==
    /\ (issued' # issued) => AllIdle
    /\ (link = "connecting" /\ link' # link) => AllIdle

DisciplinedSpec == Init /\ [][Next /\ OneAtATime]_vars

DisciplinedFairSpec == DisciplinedSpec /\ Fairness

-----------------------------------------------------------------------------
\* Type invariant.
TypeOK ==
    /\ link \in Links
    /\ cbq \in Seq(Call) /\ pending \in Seq(Call)
    /\ sendq \in Seq(Call) /\ net \in Seq(Call)
    /\ pc \in [Caller -> {"idle", "pushed", "park", "send"}]
    /\ cur \in [Caller -> Call \cup {NoCall}]
    /\ \A t \in Caller : ~Idle(t) => cur[t] \in Call
    /\ issued \in SUBSET Call
    /\ got \in [Call -> Call \cup {NoCall}]

Busy == {t \in Caller : ~Idle(t)}

\* The message callback never takes the front of an empty cbq_: whatever way
\* callers, flush and loop interleave, each request that can still be answered
\* (in a caller's hands, parked, queued or sent) has a callback of its own.
CallbackForEveryRequest ==
    Len(pending) + Len(sendq) + Len(net) + Cardinality(Busy) <= Len(cbq)

\* A callback runs at most once: what a call got is never changed.
CompletedOnce == [][\A c \in Call : got[c] # NoCall => got'[c] = got[c]]_vars

\* A call is completed with the response to its own request.
OwnResponse == \A c \in Call : got[c] \in {c, NoCall}

\* mmkv_client.cc:19, in the message callback, commented out:
\* "assert(pending_requestq_.empty())".
PendingEmptyOnMessage == net # <<>> => pending = <<>>

\* add_str_test.cc waits for all its calls: with a server that answers, every
\* call that was made completes, unless the connection is closed or lost.
CallsComplete ==
    \A c \in Call : c \in issued ~> got[c] # NoCall \/ link \in {"closing", "closed"}
=============================================================================
