------------------------- MODULE CompletionQueueNext ------------------------
(***************************************************************************)
(* mmkv::CompletionQueueNext: any thread pushes completions, any thread    *)
(* takes the next one and waits while there is none.  One mutex, one       *)
(* condition variable, Notify wakes one waiter.                            *)
(*                                                                         *)
(* What a thread does while it holds cq_mu_ is one step.  A thread that is *)
(* woken has to lock cq_mu_ again, so another one may empty the queue      *)
(* first; a condition variable (external) may also wake up by itself.      *)
(***************************************************************************)
EXTENDS Integers, Sequences, FiniteSets, FiniteSetTheorems, TLAPS

CONSTANTS Task,       \* completions, each pushed at most once
          Thread      \* threads that call Next

ASSUME ThreadAssumption == IsFiniteSet(Thread)

VARIABLES cq,         \* cq_
          pc,         \* per thread: outside Next, in Wait, or woken from it
          pushed,     \* history: tasks in the order of their Push
          taken       \* history: tasks in the order Next returned them

vars == <<cq, pc, pushed, taken>>

Waiting == {t \in Thread : pc[t] = "waiting"}
Woken   == {t \in Thread : pc[t] = "woken"}

-----------------------------------------------------------------------------
Init ==
    /\ cq = <<>>
    /\ pc = [t \in Thread |-> "outside"]
    /\ pushed = <<>> /\ taken = <<>>

\* Condition::Notify
Notify ==
    \/ Waiting = {} /\ UNCHANGED pc
    \/ \E t \in Waiting : pc' = [pc EXCEPT ![t] = "woken"]

\* Mutant of Push: notifies only when the queue was empty.
PushFirstNotifies(x) ==
    /\ \A i \in 1 .. Len(pushed) : pushed[i] # x
    /\ cq' = Append(cq, x)
    /\ pushed' = Append(pushed, x)
    /\ \/ cq = <<>> /\ Notify
       \/ cq # <<>> /\ UNCHANGED pc
    /\ UNCHANGED taken

\* Mutant of Push: does not notify.
PushSilent(x) ==
    /\ \A i \in 1 .. Len(pushed) : pushed[i] # x
    /\ cq' = Append(cq, x)
    /\ pushed' = Append(pushed, x)
    /\ UNCHANGED <<pc, taken>>

\* Mutant of Push: the newest completion goes first.
PushFront(x) ==
    /\ \A i \in 1 .. Len(pushed) : pushed[i] # x
    /\ cq' = <<x>> \o cq
    /\ pushed' = Append(pushed, x)
    /\ Notify
    /\ UNCHANGED taken

Push(x) ==
    /\ \A i \in 1 .. Len(pushed) : pushed[i] # x
    /\ cq' = Append(cq, x)
    /\ pushed' = Append(pushed, x)
    /\ Notify
    /\ UNCHANGED taken

\* The while loop of Next, entered or resumed with cq_mu_ held
TakeOrWait(t) ==
    \/ /\ cq = <<>>
       /\ pc' = [pc EXCEPT ![t] = "waiting"]
       /\ UNCHANGED <<cq, pushed, taken>>
    \/ /\ cq # <<>>
       /\ taken' = Append(taken, Head(cq))
       /\ cq' = Tail(cq)
       /\ pc' = [pc EXCEPT ![t] = "outside"]
       /\ UNCHANGED pushed

EnterNext(t)  == pc[t] = "outside" /\ TakeOrWait(t)
\* Mutant of ResumeNext: an if where the code has a while, so that a woken
\* thread reads the front of an empty queue.
ResumeUnchecked(t) ==
    /\ pc[t] = "woken"
    /\ taken' = Append(taken, IF cq = <<>> THEN <<>> ELSE Head(cq))
    /\ cq' = IF cq = <<>> THEN cq ELSE Tail(cq)
    /\ pc' = [pc EXCEPT ![t] = "outside"]
    /\ UNCHANGED pushed

ResumeNext(t) == pc[t] = "woken" /\ TakeOrWait(t)

SpuriousWakeup(t) ==
    /\ pc[t] = "waiting"
    /\ pc' = [pc EXCEPT ![t] = "woken"]
    /\ UNCHANGED <<cq, pushed, taken>>

Next == \/ \E x \in Task : Push(x)
        \/ \E t \in Thread : EnterNext(t) \/ ResumeNext(t) \/ SpuriousWakeup(t)

Spec == Init /\ [][Next]_vars

\* A woken thread gets the mutex in the end; nobody has to call Push or Next,
\* and no spurious wakeup has to come.
FairSpec == Spec /\ \A t \in Thread : WF_vars(ResumeNext(t))

-----------------------------------------------------------------------------
\* Type invariant.
TypeOK ==
    /\ cq \in Seq(Task) /\ pushed \in Seq(Task) /\ taken \in Seq(Task)
    /\ pc \in [Thread -> {"outside", "waiting", "woken"}]

\* No wakeup is lost: while a thread waits, every completion in the queue has a
\* woken thread of its own on the way to it.
NoLostWakeup == Waiting # {} => Len(cq) <= Cardinality(Woken)

\* Completions come out in the order they went in, each once, whichever thread
\* takes them.
Fifo == pushed = taken \o cq

\* A completion does not stay in the queue for ever while some thread is inside
\* Next.
Served == (cq # <<>> /\ Waiting \cup Woken # {}) ~>
              (cq = <<>> \/ Waiting \cup Woken = {})

-----------------------------------------------------------------------------
(* Proofs, for any tasks and threads. *)

\* Facts about the queue.
LEMMA AppendConcat ==
  ASSUME NEW s \in Seq(Task), NEW t \in Seq(Task), NEW x \in Task
  PROVE  Append(s \o t, x) = s \o Append(t, x)
OBVIOUS

LEMMA HeadMoves ==
  ASSUME NEW s \in Seq(Task), NEW t \in Seq(Task), t # <<>>
  PROVE  /\ Append(s, Head(t)) \o Tail(t) = s \o t
         /\ Head(t) \in Task /\ Tail(t) \in Seq(Task)
         /\ Len(Tail(t)) = Len(t) - 1
OBVIOUS

\* Woken threads are finitely many.
LEMMA WokenFinite == IsFiniteSet(Woken) /\ Cardinality(Woken) \in Nat
<1>1. IsFiniteSet(Woken)
  BY ThreadAssumption, FS_Subset DEF Woken
<1>2. QED BY <1>1, FS_CardinalityType

\* A thread that enters or leaves Woken changes its size by one.
LEMMA WokenGrows ==
  ASSUME NEW t, t \notin Woken, Woken' = Woken \cup {t}
  PROVE  Cardinality(Woken') = Cardinality(Woken) + 1
BY WokenFinite, FS_AddElement

LEMMA WokenShrinks ==
  ASSUME NEW t \in Woken, Woken' = Woken \ {t}
  PROVE  Cardinality(Woken') = Cardinality(Woken) - 1
BY WokenFinite, FS_RemoveElement

-----------------------------------------------------------------------------
\* Every step keeps the types.
LEMMA TypeStep == TypeOK /\ [Next]_vars => TypeOK'
<1> SUFFICES ASSUME TypeOK, [Next]_vars PROVE TypeOK'
  OBVIOUS
<1> USE DEF TypeOK
<1>1. ASSUME NEW x \in Task, Push(x) PROVE TypeOK'
  <2>1. pc' \in [Thread -> {"outside", "waiting", "woken"}]
    BY <1>1 DEF Push, Notify, Waiting
  <2>2. cq' \in Seq(Task) /\ pushed' \in Seq(Task) /\ taken' \in Seq(Task)
    BY <1>1 DEF Push
  <2>3. QED BY <2>1, <2>2
<1>2. ASSUME NEW t \in Thread, TakeOrWait(t) PROVE TypeOK'
  <2>1. pc' \in [Thread -> {"outside", "waiting", "woken"}]
    BY <1>2 DEF TakeOrWait
  <2>2. CASE cq = <<>>
    BY <1>2, <2>1, <2>2 DEF TakeOrWait
  <2>3. CASE cq # <<>>
    <3>1. Head(cq) \in Task /\ Tail(cq) \in Seq(Task)
      BY <2>3
    <3>2. taken' = Append(taken, Head(cq)) /\ cq' = Tail(cq) /\ pushed' = pushed
      BY <1>2, <2>3 DEF TakeOrWait
    <3>3. Append(taken, Head(cq)) \in Seq(Task)
      BY <3>1
    <3>4. QED BY <2>1, <3>1, <3>2, <3>3
  <2>4. QED BY <2>2, <2>3
<1>3. ASSUME NEW t \in Thread, SpuriousWakeup(t) PROVE TypeOK'
  BY <1>3 DEF SpuriousWakeup
<1>4. CASE UNCHANGED vars
  BY <1>4 DEF vars
<1>5. QED BY <1>1, <1>2, <1>3, <1>4 DEF Next, EnterNext, ResumeNext

\* The types hold throughout.
THEOREM TypeCorrect == Spec => []TypeOK
<1>1. Init => TypeOK
  BY DEF Init, TypeOK
<1>2. QED BY <1>1, TypeStep, PTL DEF Spec

-----------------------------------------------------------------------------
\* Every step keeps what went in equal to what came out and what is left.
LEMMA FifoStep == TypeOK /\ Fifo /\ [Next]_vars => Fifo'
<1> SUFFICES ASSUME TypeOK, Fifo, [Next]_vars PROVE Fifo'
  OBVIOUS
<1>0. taken \in Seq(Task) /\ cq \in Seq(Task)
  BY DEF TypeOK
<1>1. ASSUME NEW x \in Task, Push(x) PROVE Fifo'
  <2>1. Append(taken \o cq, x) = taken \o Append(cq, x)
    BY <1>0, AppendConcat
  <2>2. QED BY <1>1, <2>1 DEF Push, Fifo
<1>2. ASSUME NEW t \in Thread, TakeOrWait(t) PROVE Fifo'
  <2>1. CASE cq = <<>>
    BY <1>2, <2>1 DEF TakeOrWait, Fifo
  <2>2. CASE cq # <<>>
    <3>1. Append(taken, Head(cq)) \o Tail(cq) = taken \o cq
      BY <1>0, <2>2, HeadMoves
    <3>2. QED BY <1>2, <2>2, <3>1 DEF TakeOrWait, Fifo
  <2>3. QED BY <2>1, <2>2
<1>3. ASSUME NEW t \in Thread, SpuriousWakeup(t) PROVE Fifo'
  BY <1>3 DEF SpuriousWakeup, Fifo
<1>4. CASE UNCHANGED vars
  BY <1>4 DEF vars, Fifo
<1>5. QED BY <1>1, <1>2, <1>3, <1>4 DEF Next, EnterNext, ResumeNext

\* Completions are taken in the order they were pushed, each once.
THEOREM FifoTheorem == Spec => []Fifo
<1>1. Init => Fifo
  BY DEF Init, Fifo
<1>2. QED BY <1>1, FifoStep, TypeCorrect, PTL DEF Spec

-----------------------------------------------------------------------------
\* Every step keeps a woken thread for each queued completion while one waits.
LEMMA WakeupStep == TypeOK /\ NoLostWakeup /\ [Next]_vars => NoLostWakeup'
<1> SUFFICES ASSUME TypeOK, NoLostWakeup, [Next]_vars, Waiting' # {}
             PROVE  Len(cq') <= Cardinality(Woken')
  BY DEF NoLostWakeup
<1>0. Len(cq) \in Nat /\ Cardinality(Woken) \in Nat
  BY WokenFinite DEF TypeOK
<1>1. ASSUME NEW x \in Task, Push(x) PROVE Len(cq') <= Cardinality(Woken')
  <2>1. Len(cq') = Len(cq) + 1
    BY <1>1 DEF Push, TypeOK
  <2>2. Waiting # {}
    BY <1>1 DEF Push, Notify, Waiting
  <2>3. PICK t \in Waiting : pc' = [pc EXCEPT ![t] = "woken"]
    BY <1>1, <2>2 DEF Push, Notify
  <2>4. t \notin Woken /\ Woken' = Woken \cup {t}
    BY <2>3 DEF Waiting, Woken, TypeOK
  <2>5. Cardinality(Woken') = Cardinality(Woken) + 1
    BY <2>4, WokenGrows
  <2>6. QED BY <1>0, <2>1, <2>2, <2>5 DEF NoLostWakeup
<1>2. ASSUME NEW t \in Thread, TakeOrWait(t), cq = <<>>
      PROVE  Len(cq') <= Cardinality(Woken')
  <2>1. Len(cq') = 0
    BY <1>2 DEF TakeOrWait
  <2>2. Cardinality(Woken') \in Nat
    <3>1. IsFiniteSet(Woken')
      BY ThreadAssumption, FS_Subset DEF Woken
    <3>2. QED BY <3>1, FS_CardinalityType
  <2>3. QED BY <2>1, <2>2
<1>3. ASSUME NEW t \in Thread, TakeOrWait(t), cq # <<>>, pc[t] # "waiting"
      PROVE  Len(cq') <= Cardinality(Woken')
  <2>1. Len(cq') = Len(cq) - 1 /\ pc' = [pc EXCEPT ![t] = "outside"]
    BY <1>3, HeadMoves DEF TakeOrWait, TypeOK
  <2>2. Waiting # {}
    BY <1>3, <2>1 DEF Waiting, TypeOK
  <2>3. CASE t \in Woken
    <3>1. Woken' = Woken \ {t}
      BY <2>1 DEF Woken, TypeOK
    <3>2. Cardinality(Woken') = Cardinality(Woken) - 1
      BY <2>3, <3>1, WokenShrinks
    <3>3. QED BY <1>0, <2>1, <2>2, <3>2 DEF NoLostWakeup
  <2>4. CASE t \notin Woken
    <3>1. Woken' = Woken
      BY <2>1, <2>4 DEF Woken, TypeOK
    <3>2. QED BY <1>0, <2>1, <2>2, <3>1 DEF NoLostWakeup
  <2>5. QED BY <2>3, <2>4
<1>4. ASSUME NEW t \in Thread, SpuriousWakeup(t)
      PROVE  Len(cq') <= Cardinality(Woken')
  <2>1. t \notin Woken /\ Woken' = Woken \cup {t} /\ Waiting # {}
    BY <1>4 DEF SpuriousWakeup, Woken, Waiting, TypeOK
  <2>2. Cardinality(Woken') = Cardinality(Woken) + 1
    BY <2>1, WokenGrows
  <2>3. cq' = cq
    BY <1>4 DEF SpuriousWakeup
  <2>4. QED BY <1>0, <2>1, <2>2, <2>3 DEF NoLostWakeup
<1>5. CASE UNCHANGED vars
  <2>1. Waiting' = Waiting /\ Woken' = Woken /\ cq' = cq
    BY <1>5 DEF vars, Waiting, Woken
  <2>2. QED BY <2>1 DEF NoLostWakeup
<1>6. QED BY <1>1, <1>2, <1>3, <1>4, <1>5 DEF Next, EnterNext, ResumeNext

\* No wakeup is lost, however many threads push and take.
THEOREM NoLostWakeupTheorem == Spec => []NoLostWakeup
<1>1. Init => NoLostWakeup
  BY DEF Init, NoLostWakeup, Waiting
<1>2. QED BY <1>1, WakeupStep, TypeCorrect, PTL DEF Spec
=============================================================================
