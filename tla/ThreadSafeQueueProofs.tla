----------------------- MODULE ThreadSafeQueueProofs -----------------------
(***************************************************************************)
(* Proofs about ThreadSafeQueue for any numbers of producers and consumers *)
(* and any MaxPush.                                                        *)
(***************************************************************************)
EXTENDS ThreadSafeQueue, SequenceTheorems, FiniteSetTheorems, TLAPS

(***************************************************************************)
(* The inductive invariant.  Holding the mutex is the same as being at one *)
(* of the locked steps; a push() that has begun is counted; a blocking     *)
(* call never times out; a call about to remove the front still has the    *)
(* front it copied.                                                        *)
(***************************************************************************)
MutexInv == \A t \in Threads : pc[t] \in Locked <=> mutex_ = t

SentInv == \A p \in Producers : pc[p] = "push" => sent[p] > 0

NoDeadlineInv == \A c \in BlockingConsumers : ~expired[c]

IInv == TypeOK /\ MutexInv /\ SentInv /\ NoDeadlineInv /\ FrontIsDefined

-----------------------------------------------------------------------------
(* Lemmas about sequences used as queues. *)

\* Appending to the right operand of a concatenation appends to the whole.
LEMMA AppendAfterConcat ==
  ASSUME NEW S, NEW s \in Seq(S), NEW t \in Seq(S), NEW e \in S
  PROVE  s \o Append(t, e) = Append(s \o t, e)
<1>1. s \o t \in Seq(S) /\ <<e>> \in Seq(S)
  BY ConcatProperties
<1>2. s \o Append(t, e) = s \o (t \o <<e>>)
  BY AppendIsConcat
<1>3. Append(s \o t, e) = (s \o t) \o <<e>>
  BY <1>1, AppendIsConcat
<1>4. QED
  BY <1>1, <1>2, <1>3, ConcatAssociative

\* Moving the head of the right operand to the end of the left one changes
\* nothing.
LEMMA MoveHead ==
  ASSUME NEW S, NEW s \in Seq(S), NEW t \in Seq(S), t # <<>>
  PROVE  Append(s, Head(t)) \o Tail(t) = s \o t
<1>1. Head(t) \in S /\ Tail(t) \in Seq(S) /\ <<Head(t)>> \in Seq(S)
  BY HeadTailProperties
<1>2. Len(t) \in Nat \ {0} /\ Head(t) = t[1]
  BY EmptySeq
<1>3. t = <<Head(t)>> \o Tail(t)
  <2>1. t = SubSeq(t, 1, Len(t))
    BY SubSeqFull
  <2>2. SubSeq(t, 1, Len(t)) = <<t[1]>> \o SubSeq(t, 1 + 1, Len(t))
    BY <1>2, SubSeqRecursiveFirst
  <2>3. Tail(t) = SubSeq(t, 2, Len(t))
    BY TailIsSubSeq
  <2>4. QED
    BY <1>2, <2>1, <2>2, <2>3
<1>4. Append(s, Head(t)) = s \o <<Head(t)>>
  BY <1>1, AppendIsConcat
<1>5. (s \o <<Head(t)>>) \o Tail(t) = s \o (<<Head(t)>> \o Tail(t))
  BY <1>1, ConcatAssociative
<1>6. QED
  BY <1>3, <1>4, <1>5

-----------------------------------------------------------------------------
(* The state machine. *)

\* The strengthened invariant holds of a queue nobody has called yet.
LEMMA InitIInv == Init => IInv
<1> SUFFICES ASSUME Init PROVE IInv
  OBVIOUS
<1> USE ThreadAssumption DEF Init
<1>1. TypeOK
  <2>1. <<>> \in Seq(Items)
    BY EmptySeq
  <2>2. /\ pc \in [Threads -> ProducerSteps \cup ConsumerSteps]
        /\ \A p \in Producers : pc[p] \in ProducerSteps
        /\ \A c \in Consumers : pc[c] \in ConsumerSteps
    BY DEF ProducerSteps, ConsumerSteps, Threads
  <2>3. /\ sent \in [Producers -> 0 .. MaxPush]
        /\ item \in [Consumers -> Items \cup {NoItem}]
        /\ expired \in [Consumers -> BOOLEAN]
    OBVIOUS
  <2>4. QED
    BY <2>1, <2>2, <2>3 DEF TypeOK
<1>2. MutexInv
  BY DEF MutexInv, Locked
<1>3. SentInv /\ NoDeadlineInv /\ FrontIsDefined
  BY DEF SentInv, NoDeadlineInv, FrontIsDefined, Threads, Consumers
<1>4. QED
  BY <1>1, <1>2, <1>3 DEF IInv

\* Each step keeps the types.
LEMMA TypeStep ==
  TypeOK /\ SentInv /\ FrontIsDefined /\ [Next]_vars => TypeOK'
<1> SUFFICES ASSUME TypeOK, SentInv, FrontIsDefined, [Next]_vars PROVE TypeOK'
  OBVIOUS
<1> USE ThreadAssumption DEF TypeOK, ProducerSteps, ConsumerSteps, Goto,
      Acquire, Release
<1>1. ASSUME NEW p \in Producers, PushLock(p) PROVE TypeOK'
  BY <1>1 DEF PushLock, Threads
<1>2. ASSUME NEW p \in Producers, PushItem(p) PROVE TypeOK'
  <2>1. <<p, sent[p]>> \in Items
    <3>1. pc[p] = "push" /\ sent[p] \in 1 .. MaxPush
      BY <1>2 DEF SentInv, PushItem
    <3>2. QED
      BY <3>1 DEF Items
  <2>2. queue_' \in Seq(Items) /\ pushed' \in Seq(Items)
    BY <1>2, <2>1, AppendProperties DEF PushItem
  <2>3. QED
    BY <1>2, <2>2 DEF PushItem, Threads
<1>3. ASSUME NEW p \in Producers, NotifyOne(p) PROVE TypeOK'
  BY <1>3 DEF NotifyOne, Waiters, Threads
<1>4. ASSUME NEW c \in Consumers, PopLock(c) PROVE TypeOK'
  BY <1>4 DEF PopLock, Threads
<1>5. ASSUME NEW c \in Consumers, PredicateHolds(c) PROVE TypeOK'
  BY <1>5 DEF PredicateHolds, Threads
<1>6. ASSUME NEW c \in Consumers, Wait(c) PROVE TypeOK'
  BY <1>6 DEF Wait, Threads
<1>7. ASSUME NEW c \in Consumers, DeadlinePasses(c) PROVE TypeOK'
  BY <1>7 DEF DeadlinePasses, Threads
<1>8. ASSUME NEW c \in Consumers, SpuriousWakeup(c) PROVE TypeOK'
  BY <1>8 DEF SpuriousWakeup, Threads
<1>9. ASSUME NEW c \in Consumers, Relock(c) PROVE TypeOK'
  BY <1>9 DEF Relock, Threads
<1>10. ASSUME NEW c \in Consumers, ReturnNothing(c) PROVE TypeOK'
  BY <1>10 DEF ReturnNothing, Threads
<1>11. ASSUME NEW c \in Consumers, ReadFront(c) PROVE TypeOK'
  <2>1. Head(queue_) \in Items
    BY <1>11, HeadTailProperties DEF ReadFront
  <2>2. QED
    BY <1>11, <2>1 DEF ReadFront, Threads
<1>12. ASSUME NEW c \in Consumers, PopFront(c) PROVE TypeOK'
  <2>1. queue_ # <<>> /\ item[c] = Head(queue_)
    BY <1>12 DEF FrontIsDefined, PopFront
  <2>2. Tail(queue_) \in Seq(Items) /\ Head(queue_) \in Items
    BY <2>1, HeadTailProperties
  <2>3. queue_' \in Seq(Items) /\ popped' \in Seq(Items)
    BY <1>12, <2>1, <2>2, AppendProperties DEF PopFront
  <2>4. QED
    BY <1>12, <2>3 DEF PopFront, Threads
<1>13. ASSUME SetStop PROVE TypeOK'
  BY <1>13 DEF SetStop
<1>14. ASSUME UNCHANGED vars PROVE TypeOK'
  BY <1>14 DEF vars
<1>15. QED
  BY <1>1, <1>2, <1>3, <1>4, <1>5, <1>6, <1>7, <1>8, <1>9, <1>10, <1>11,
     <1>12, <1>13, <1>14 DEF Next, ProducerStep, ConsumerStep, InsideCall

\* Each step keeps the mutex with the threads at the locked steps.
LEMMA MutexStep == TypeOK /\ MutexInv /\ [Next]_vars => MutexInv'
<1> SUFFICES ASSUME TypeOK, MutexInv, [Next]_vars PROVE MutexInv'
  OBVIOUS
<1> USE ThreadAssumption DEF TypeOK, MutexInv, Locked, Goto, Acquire, Release,
      Threads
<1>1. ASSUME NEW p \in Producers, ProducerStep(p) PROVE MutexInv'
  <2>1. CASE PushLock(p)
    BY <2>1 DEF PushLock
  <2>2. CASE PushItem(p)
    BY <2>2 DEF PushItem
  <2>3. CASE NotifyOne(p)
    BY <2>3 DEF NotifyOne, Waiters, Consumers
  <2>4. QED
    BY <1>1, <2>1, <2>2, <2>3 DEF ProducerStep
<1>2. ASSUME NEW c \in Consumers, InsideCall(c) PROVE MutexInv'
  <2>1. CASE PredicateHolds(c) \/ ReadFront(c)
    BY <2>1 DEF PredicateHolds, ReadFront
  <2>2. CASE Wait(c)
    BY <2>2 DEF Wait
  <2>3. CASE ReturnNothing(c) \/ PopFront(c)
    BY <2>3 DEF ReturnNothing, PopFront
  <2>4. QED
    BY <1>2, <2>1, <2>2, <2>3 DEF InsideCall
<1>3. ASSUME NEW c \in Consumers, PopLock(c) \/ Relock(c) PROVE MutexInv'
  BY <1>3 DEF PopLock, Relock
<1>4. ASSUME NEW c \in Consumers, DeadlinePasses(c) \/ SpuriousWakeup(c)
      PROVE  MutexInv'
  BY <1>4 DEF DeadlinePasses, SpuriousWakeup
<1>5. ASSUME SetStop \/ UNCHANGED vars PROVE MutexInv'
  BY <1>5 DEF SetStop, vars
<1>6. QED
  BY <1>1, <1>2, <1>3, <1>4, <1>5 DEF Next, ConsumerStep

\* Each step keeps the count of a push() that has begun above zero.
LEMMA SentStep == TypeOK /\ SentInv /\ [Next]_vars => SentInv'
<1> SUFFICES ASSUME TypeOK, SentInv, [Next]_vars PROVE SentInv'
  OBVIOUS
<1> USE ThreadAssumption DEF TypeOK, SentInv, Goto, Threads
<1>1. ASSUME NEW p \in Producers, ProducerStep(p) PROVE SentInv'
  <2>1. CASE PushLock(p)
    BY <2>1 DEF PushLock
  <2>2. CASE PushItem(p)
    BY <2>2 DEF PushItem
  <2>3. CASE NotifyOne(p)
    BY <2>3 DEF NotifyOne, Waiters, Consumers
  <2>4. QED
    BY <1>1, <2>1, <2>2, <2>3 DEF ProducerStep
<1>2. ASSUME NEW c \in Consumers, InsideCall(c) PROVE SentInv'
  <2>1. CASE PredicateHolds(c) \/ ReadFront(c)
    BY <2>1 DEF PredicateHolds, ReadFront
  <2>2. CASE Wait(c)
    BY <2>2 DEF Wait
  <2>3. CASE ReturnNothing(c) \/ PopFront(c)
    BY <2>3 DEF ReturnNothing, PopFront
  <2>4. QED
    BY <1>2, <2>1, <2>2, <2>3 DEF InsideCall
<1>3. ASSUME NEW c \in Consumers, PopLock(c) \/ Relock(c) PROVE SentInv'
  BY <1>3 DEF PopLock, Relock
<1>4. ASSUME NEW c \in Consumers, DeadlinePasses(c) \/ SpuriousWakeup(c)
      PROVE  SentInv'
  BY <1>4 DEF DeadlinePasses, SpuriousWakeup
<1>5. ASSUME SetStop \/ UNCHANGED vars PROVE SentInv'
  BY <1>5 DEF SetStop, vars
<1>6. QED
  BY <1>1, <1>2, <1>3, <1>4, <1>5 DEF Next, ConsumerStep

\* Each step keeps what a consumer knows about the front of the queue: it
\* learnt it under the mutex it still holds.
LEMMA FrontStep == IInv /\ [Next]_vars => NoDeadlineInv' /\ FrontIsDefined'
<1> SUFFICES ASSUME IInv, [Next]_vars PROVE NoDeadlineInv' /\ FrontIsDefined'
  OBVIOUS
<1> USE ThreadAssumption DEF IInv, TypeOK, NoDeadlineInv, FrontIsDefined, Goto,
      Acquire, Release, Threads, Consumers
<1>0. \A t, u \in Threads : pc[t] \in Locked /\ pc[u] \in Locked => t = u
  BY DEF MutexInv
<1>1. ASSUME NEW p \in Producers, PushLock(p) \/ NotifyOne(p)
      PROVE  NoDeadlineInv' /\ FrontIsDefined'
  BY <1>1 DEF PushLock, NotifyOne, Waiters
<1>2. ASSUME NEW p \in Producers, PushItem(p)
      PROVE  NoDeadlineInv' /\ FrontIsDefined'
  BY <1>0, <1>2 DEF PushItem, Locked
<1>3. ASSUME NEW c \in Consumers, PopFront(c)
      PROVE  NoDeadlineInv' /\ FrontIsDefined'
  BY <1>0, <1>3 DEF PopFront, Locked
<1>4. ASSUME NEW c \in Consumers, PopLock(c)
      PROVE  NoDeadlineInv' /\ FrontIsDefined'
  BY <1>4 DEF PopLock
<1>5. ASSUME NEW c \in Consumers, PredicateHolds(c) \/ Wait(c)
      PROVE  NoDeadlineInv' /\ FrontIsDefined'
  BY <1>5 DEF PredicateHolds, Wait, Ready
<1>6. ASSUME NEW c \in Consumers, ReturnNothing(c) \/ ReadFront(c)
      PROVE  NoDeadlineInv' /\ FrontIsDefined'
  BY <1>6 DEF ReturnNothing, ReadFront
<1>7. ASSUME NEW c \in Consumers, Relock(c)
      PROVE  NoDeadlineInv' /\ FrontIsDefined'
  BY <1>7 DEF Relock
<1>8. ASSUME NEW c \in Consumers, DeadlinePasses(c) \/ SpuriousWakeup(c)
      PROVE  NoDeadlineInv' /\ FrontIsDefined'
  BY <1>8 DEF DeadlinePasses, SpuriousWakeup
<1>9. ASSUME SetStop \/ UNCHANGED vars
      PROVE  NoDeadlineInv' /\ FrontIsDefined'
  BY <1>9 DEF SetStop, vars
<1>10. QED
  BY <1>1, <1>2, <1>3, <1>4, <1>5, <1>6, <1>7, <1>8, <1>9
     DEF Next, ProducerStep, ConsumerStep, InsideCall

\* It is inductive: no step of any thread breaks it.
LEMMA NextIInv == IInv /\ [Next]_vars => IInv'
BY TypeStep, MutexStep, SentStep, FrontStep DEF IInv

\* The strengthened invariant always holds: types, who holds the mutex, and
\* what each consumer knows of the front of the queue.
THEOREM IInvCorrect == Spec => []IInv
BY InitIInv, NextIInv, PTL DEF Spec

-----------------------------------------------------------------------------
(* The theorems. *)

\* The queue's variables, its threads' program counters and the locals of its
\* calls always have their types.
THEOREM TypeCorrect == Spec => []TypeOK
<1>1. IInv => TypeOK
  BY DEF IInv
<1>2. QED
  BY <1>1, IInvCorrect, PTL

\* front() and pop() never run on an empty queue, and pop() removes the item
\* that front() returned to the same call.
THEOREM FrontCorrect == Spec => []FrontIsDefined
<1>1. IInv => FrontIsDefined
  BY DEF IInv
<1>2. QED
  BY <1>1, IInvCorrect, PTL

\* A step that leaves the queue and both histories alone.
LEMMA FifoUnchanged ==
  FifoDelivery /\ UNCHANGED <<queue_, pushed, popped>> => FifoDelivery'
BY DEF FifoDelivery

\* Each step keeps the order of the items: only push and pop touch it.
LEMMA FifoStep == IInv /\ FifoDelivery /\ [Next]_vars => FifoDelivery'
<1> SUFFICES ASSUME IInv, FifoDelivery, [Next]_vars PROVE FifoDelivery'
  OBVIOUS
<1>1. ASSUME NEW p \in Producers, PushItem(p) PROVE FifoDelivery'
  <2>1. <<p, sent[p]>> \in Items
    <3>1. pc[p] = "push" /\ sent[p] \in 1 .. MaxPush
      BY <1>1, ThreadAssumption DEF IInv, TypeOK, SentInv, PushItem, Goto
    <3>2. QED
      BY <3>1 DEF Items
  <2>2. popped \in Seq(Items) /\ queue_ \in Seq(Items)
    BY DEF IInv, TypeOK
  <2>3. popped \o Append(queue_, <<p, sent[p]>>)
          = Append(popped \o queue_, <<p, sent[p]>>)
    BY <2>1, <2>2, AppendAfterConcat
  <2>4. QED
    BY <1>1, <2>3 DEF FifoDelivery, PushItem
<1>2. ASSUME NEW c \in Consumers, PopFront(c) PROVE FifoDelivery'
  <2>1. queue_ # <<>> /\ item[c] = Head(queue_)
    BY <1>2 DEF IInv, FrontIsDefined, PopFront, Goto
  <2>2. popped \in Seq(Items) /\ queue_ \in Seq(Items)
    BY DEF IInv, TypeOK
  <2>3. Append(popped, Head(queue_)) \o Tail(queue_) = popped \o queue_
    BY <2>1, <2>2, MoveHead
  <2>4. QED
    BY <1>2, <2>1, <2>3 DEF FifoDelivery, PopFront
<1>3. ASSUME NEW p \in Producers, PushLock(p) \/ NotifyOne(p)
      PROVE  FifoDelivery'
  BY <1>3, FifoUnchanged DEF PushLock, NotifyOne
<1>4. ASSUME NEW c \in Consumers,
             PredicateHolds(c) \/ Wait(c) \/ ReturnNothing(c) \/ ReadFront(c)
      PROVE  FifoDelivery'
  BY <1>4, FifoUnchanged DEF PredicateHolds, Wait, ReturnNothing, ReadFront
<1>5. ASSUME NEW c \in Consumers,
             \/ PopLock(c) \/ Relock(c)
             \/ DeadlinePasses(c) \/ SpuriousWakeup(c)
      PROVE  FifoDelivery'
  BY <1>5, FifoUnchanged DEF PopLock, Relock, DeadlinePasses, SpuriousWakeup
<1>6. ASSUME SetStop \/ UNCHANGED vars PROVE FifoDelivery'
  BY <1>6, FifoUnchanged DEF SetStop, vars
<1>7. QED
  BY <1>1, <1>2, <1>3, <1>4, <1>5, <1>6
     DEF Next, ProducerStep, ConsumerStep, InsideCall

\* Every item pushed is returned once, in the order of the pushes, or still
\* inside.
THEOREM FifoCorrect == Spec => []FifoDelivery
<1>1. Init => FifoDelivery
  <2>1. <<>> \o <<>> = <<>>
    BY EmptySeq, ConcatEmptySeq
  <2>2. QED
    BY <2>1 DEF Init, FifoDelivery
<1>2. QED
  BY <1>1, FifoStep, IInvCorrect, PTL DEF Spec

-----------------------------------------------------------------------------
(* The wakeups *)

\* The sets that NoLostWakeup counts are finite.
LEMMA NotifyingFinite ==
  IsFiniteSet(Awake) /\ IsFiniteSet(Notifying)
<1>1. Awake \in SUBSET Consumers /\ Notifying \in SUBSET Producers
  BY DEF Awake, Notifying
<1>2. QED
  BY <1>1, ThreadAssumption, FS_Subset

\* As long as no item is added, no notification sent and no consumer falls
\* asleep or leaves its call, the bound on the queue holds.
LEMMA WakeupMonotonic ==
  ASSUME TypeOK, NoLostWakeup,
         Waiters' \subseteq Waiters,
         Awake \subseteq Awake', Awake' \subseteq Consumers,
         Notifying \subseteq Notifying', Notifying' \subseteq Producers,
         UNCHANGED queue_
  PROVE  NoLostWakeup'
<1>1. /\ IsFiniteSet(Awake') /\ IsFiniteSet(Notifying')
      /\ Cardinality(Awake) <= Cardinality(Awake')
      /\ Cardinality(Notifying) <= Cardinality(Notifying')
  BY ThreadAssumption, FS_Subset
<1>2. /\ Cardinality(Awake) \in Nat /\ Cardinality(Awake') \in Nat
      /\ Cardinality(Notifying) \in Nat /\ Cardinality(Notifying') \in Nat
  BY <1>1, NotifyingFinite, FS_CardinalityType
<1>3. Len(queue_) \in Nat
  BY LenProperties DEF TypeOK
<1>4. QED
  BY <1>1, <1>2, <1>3 DEF NoLostWakeup

\* An item more is matched by a notification more.
LEMMA WakeupPush ==
  ASSUME IInv, NoLostWakeup, NEW p \in Producers, PushItem(p)
  PROVE  NoLostWakeup'
<1>1. Waiters' = Waiters /\ Awake' = Awake
  BY ThreadAssumption
     DEF IInv, TypeOK, PushItem, Goto, Waiters, Awake, Threads
<1>2. Notifying' = Notifying \cup {p} /\ p \notin Notifying
  BY ThreadAssumption
     DEF IInv, TypeOK, PushItem, Goto, Notifying, Threads
<1>3. Cardinality(Notifying') = Cardinality(Notifying) + 1
  BY <1>2, NotifyingFinite, FS_AddElement
<1>4. Len(queue_') = Len(queue_) + 1
  <2>1. pc[p] = "push" /\ sent[p] \in 1 .. MaxPush
    BY ThreadAssumption DEF IInv, TypeOK, SentInv, PushItem, Goto
  <2>2. <<p, sent[p]>> \in Items /\ queue_ \in Seq(Items)
    BY <2>1 DEF Items, IInv, TypeOK
  <2>3. QED
    BY <2>2, AppendProperties DEF PushItem
<1>5. /\ Cardinality(Awake) \in Nat /\ Cardinality(Notifying) \in Nat
      /\ Len(queue_) \in Nat
  BY NotifyingFinite, FS_CardinalityType, LenProperties DEF IInv, TypeOK
<1>6. QED
  BY <1>1, <1>3, <1>4, <1>5 DEF NoLostWakeup

\* A notification that is delivered is replaced by the consumer it wakes.
LEMMA WakeupNotify ==
  ASSUME IInv, NoLostWakeup, NEW p \in Producers, NotifyOne(p)
  PROVE  NoLostWakeup'
<1>1. CASE Waiters = {}
  <2>1. Waiters' = {}
    BY <1>1, ThreadAssumption DEF IInv, TypeOK, NotifyOne, Waiters, Threads
  <2>2. QED
    BY <2>1 DEF NoLostWakeup
<1>2. CASE Waiters # {}
  <2>1. PICK w \in Waiters : pc' = [pc EXCEPT ![p] = "idle", ![w] = "wake"]
    BY <1>2 DEF NotifyOne
  <2>2. w \in Consumers /\ pc[w] = "waiting" /\ w # p /\ pc[p] = "notify"
    BY ThreadAssumption DEF NotifyOne, Waiters
  <2>3. Awake' = Awake \cup {w} /\ w \notin Awake
    BY <2>1, <2>2, ThreadAssumption DEF IInv, TypeOK, Awake, Threads
  <2>4. Notifying' = Notifying \ {p} /\ p \in Notifying
    BY <2>1, <2>2, ThreadAssumption DEF IInv, TypeOK, Notifying, Threads
  <2>5. /\ Cardinality(Awake') = Cardinality(Awake) + 1
        /\ Cardinality(Notifying') = Cardinality(Notifying) - 1
    BY <2>3, <2>4, NotifyingFinite, FS_AddElement, FS_RemoveElement
  <2>6. /\ Cardinality(Awake) \in Nat /\ Cardinality(Notifying) \in Nat
        /\ Len(queue_) \in Nat /\ queue_' = queue_
    BY NotifyingFinite, FS_CardinalityType, LenProperties
       DEF IInv, TypeOK, NotifyOne
  <2>7. QED
    BY <1>2, <2>5, <2>6 DEF NoLostWakeup
<1>3. QED
  BY <1>1, <1>2

\* The consumer that leaves takes an item with it.
LEMMA WakeupPop ==
  ASSUME IInv, NoLostWakeup, NEW c \in Consumers, PopFront(c)
  PROVE  NoLostWakeup'
<1>1. Waiters' = Waiters /\ Notifying' = Notifying
  BY ThreadAssumption
     DEF IInv, TypeOK, PopFront, Goto, Waiters, Notifying, Threads, Consumers
<1>2. Awake' = Awake \ {c} /\ c \in Awake
  BY ThreadAssumption
     DEF IInv, TypeOK, PopFront, Goto, Awake, Threads, Consumers
<1>3. Cardinality(Awake') = Cardinality(Awake) - 1
  BY <1>2, NotifyingFinite, FS_RemoveElement
<1>4. queue_ # <<>> /\ queue_ \in Seq(Items)
  BY DEF IInv, TypeOK, FrontIsDefined, PopFront, Goto
<1>5. Len(queue_') = Len(queue_) - 1 /\ Len(queue_) \in Nat
  BY <1>4, HeadTailProperties, LenProperties DEF PopFront
<1>6. Cardinality(Awake) \in Nat /\ Cardinality(Notifying) \in Nat
  BY NotifyingFinite, FS_CardinalityType
<1>7. QED
  BY <1>1, <1>3, <1>5, <1>6 DEF NoLostWakeup

\* A consumer falls asleep, or leaves without an item, beside an empty queue.
LEMMA WakeupEmpty ==
  ASSUME IInv, queue_ = <<>>, UNCHANGED queue_,
         Awake' \subseteq Consumers, Notifying' \subseteq Producers
  PROVE  NoLostWakeup'
<1>1. IsFiniteSet(Awake') /\ IsFiniteSet(Notifying')
  BY ThreadAssumption, FS_Subset
<1>2. Cardinality(Awake') \in Nat /\ Cardinality(Notifying') \in Nat
  BY <1>1, FS_CardinalityType
<1>3. Len(queue_') = 0
  BY EmptySeq
<1>4. QED
  BY <1>2, <1>3 DEF NoLostWakeup

\* Each step keeps enough consumers awake.
LEMMA WakeupStep == IInv /\ NoLostWakeup /\ [Next]_vars => NoLostWakeup'
<1> SUFFICES ASSUME IInv, NoLostWakeup, [Next]_vars PROVE NoLostWakeup'
  OBVIOUS
<1>0. TypeOK /\ Awake' \subseteq Consumers /\ Notifying' \subseteq Producers
  BY DEF IInv, Awake, Notifying
<1> DEFINE Monotonic == /\ Waiters' \subseteq Waiters
                        /\ Awake \subseteq Awake'
                        /\ Notifying \subseteq Notifying'
                        /\ UNCHANGED queue_
<1>1. Monotonic => NoLostWakeup'
  BY <1>0, WakeupMonotonic
<1>2. ASSUME NEW p \in Producers, ProducerStep(p) PROVE NoLostWakeup'
  <2>1. CASE PushLock(p)
    <3>1. Monotonic
      BY <1>0, <2>1, ThreadAssumption
         DEF TypeOK, PushLock, Goto, Waiters, Awake, Notifying, Threads
    <3>2. QED
      BY <1>1, <3>1
  <2>2. QED
    BY <1>2, <2>1, WakeupPush, WakeupNotify DEF ProducerStep
<1>3. ASSUME NEW c \in Consumers, Wait(c) \/ ReturnNothing(c)
      PROVE  NoLostWakeup'
  <2>1. queue_ = <<>> /\ UNCHANGED queue_
    BY <1>3 DEF Wait, ReturnNothing, Ready
  <2>2. QED
    BY <1>0, <2>1, WakeupEmpty
<1>4. ASSUME NEW c \in Consumers,
             \/ PopLock(c) \/ PredicateHolds(c) \/ Relock(c)
             \/ ReadFront(c) \/ SpuriousWakeup(c)
      PROVE  NoLostWakeup'
  <2>1. PICK s, t \in ConsumerSteps :
          /\ pc[c] = s /\ pc' = [pc EXCEPT ![c] = t] /\ UNCHANGED queue_
          /\ t \in {"check", "take", "wake", "pop"}
    BY <1>4 DEF PopLock, PredicateHolds, Relock, ReadFront, SpuriousWakeup,
                Goto, ConsumerSteps
  <2>2. Monotonic
    BY <1>0, <2>1, ThreadAssumption
       DEF TypeOK, Waiters, Awake, Notifying, Threads, Consumers
  <2>3. QED
    BY <1>1, <2>2
<1>5. ASSUME NEW c \in Consumers, DeadlinePasses(c) PROVE NoLostWakeup'
  <2>1. Monotonic
    BY <1>0, <1>5, ThreadAssumption
       DEF TypeOK, DeadlinePasses, Waiters, Awake, Notifying, Threads, Consumers
  <2>2. QED
    BY <1>1, <2>1
<1>6. ASSUME SetStop \/ UNCHANGED vars PROVE NoLostWakeup'
  <2>1. Monotonic
    BY <1>6 DEF SetStop, vars, Waiters, Awake, Notifying
  <2>2. QED
    BY <1>1, <2>1
<1>7. QED
  BY <1>2, <1>3, <1>4, <1>5, <1>6, WakeupPop
     DEF Next, ConsumerStep, InsideCall

\* A consumer sleeps beside a non-empty queue only while enough others are
\* awake, or about to be woken, to take every item.
THEOREM WakeupCorrect == Spec => []NoLostWakeup
<1>1. Init => NoLostWakeup
  BY DEF Init, NoLostWakeup, Waiters, Threads
<1>2. QED
  BY <1>1, WakeupStep, IInvCorrect, PTL DEF Spec

-----------------------------------------------------------------------------
(* The refinement, safety part *)

\* Every behaviour of the queue is one of the abstract channel: what threads
\* do between append and remove is invisible to the callers.
THEOREM ChannelCorrect == Spec => Channel!SafeSpec
<1>1. Init => Channel!Init
  BY DEF Init, Channel!Init
<1>2. IInv /\ [Next]_vars => [Channel!Next]_(Channel!chanVars)
  <2> SUFFICES ASSUME IInv, [Next]_vars
               PROVE  Channel!Next \/ UNCHANGED <<queue_, popped, stop_flag>>
    BY DEF Channel!chanVars
  <2>1. ASSUME NEW p \in Producers, PushItem(p) PROVE Channel!Next
    <3>1. pc[p] = "push" /\ sent[p] \in 1 .. MaxPush
      BY <2>1, ThreadAssumption DEF IInv, TypeOK, SentInv, PushItem, Goto
    <3>2. <<p, sent[p]>> \in Items
      BY <3>1 DEF Items
    <3>3. Channel!Put(<<p, sent[p]>>)
      BY <2>1 DEF PushItem, Channel!Put
    <3>4. QED
      BY <3>2, <3>3 DEF Channel!Next
  <2>2. ASSUME NEW c \in Consumers, PopFront(c) PROVE Channel!Next
    BY <2>2 DEF IInv, FrontIsDefined, PopFront, Goto, Channel!Take, Channel!Next
  <2>3. ASSUME SetStop PROVE Channel!Next
    BY <2>3 DEF SetStop, Channel!Close, Channel!Next
  <2>4. ASSUME NEW p \in Producers, PushLock(p) \/ NotifyOne(p)
        PROVE  UNCHANGED <<queue_, popped, stop_flag>>
    BY <2>4 DEF PushLock, NotifyOne
  <2>5. ASSUME NEW c \in Consumers,
               PredicateHolds(c) \/ Wait(c) \/ ReturnNothing(c) \/ ReadFront(c)
        PROVE  UNCHANGED <<queue_, popped, stop_flag>>
    BY <2>5 DEF PredicateHolds, Wait, ReturnNothing, ReadFront
  <2>6. ASSUME NEW c \in Consumers,
               \/ PopLock(c) \/ Relock(c)
               \/ DeadlinePasses(c) \/ SpuriousWakeup(c)
        PROVE  UNCHANGED <<queue_, popped, stop_flag>>
    BY <2>6 DEF PopLock, Relock, DeadlinePasses, SpuriousWakeup
  <2>7. QED
    BY <2>1, <2>2, <2>3, <2>4, <2>5, <2>6
       DEF Next, ProducerStep, ConsumerStep, InsideCall, vars
<1>3. QED
  BY <1>1, <1>2, IInvCorrect, PTL DEF Spec, Channel!SafeSpec

=============================================================================
