-------------------------- MODULE ThreadSafeQueue --------------------------
(***************************************************************************)
(* edge-engine/include/queue/ThreadSafeQueue.h: a std::queue under one     *)
(* mutex and one condition variable.  push() locks, appends, unlocks and   *)
(* only then notifies one waiter; the two wait_and_pop() overloads wait    *)
(* for the queue to be non-empty, one for as long as it takes, the other   *)
(* for at most 100 ms or until the stop flag is seen.                      *)
(*                                                                         *)
(* Every thread runs between the points where it can be overtaken: taking  *)
(* the mutex, the wait (which releases and takes it again), the            *)
(* notification, and front() and pop(), which the code calls separately.   *)
(***************************************************************************)
EXTENDS Naturals, Sequences, FiniteSets

CONSTANTS
  Producers,          \* threads that call push()
  TimedConsumers,     \* threads that call wait_and_pop(stop_flag)
  BlockingConsumers,  \* threads that call wait_and_pop()
  MaxPush,            \* bound: how often each producer calls push()
  Nobody,             \* the owner of the mutex while it is free
  NoItem              \* the local `item` of a call that has not read one

Consumers == TimedConsumers \cup BlockingConsumers
Threads == Producers \cup Consumers
Items == Producers \X (1 .. MaxPush)

ASSUME ThreadAssumption ==
  /\ MaxPush \in Nat
  /\ IsFiniteSet(Producers) /\ IsFiniteSet(Consumers)
  /\ Producers \cap Consumers = {}
  /\ TimedConsumers \cap BlockingConsumers = {}
  /\ Nobody \notin Threads
  /\ NoItem \notin Items

VARIABLES
  queue_,     \* the std::queue, front first
  mutex_,     \* the thread that holds the mutex, or Nobody
  stop_flag,  \* the atomic the timed overload's predicate reads
  pc,         \* where each thread is
  sent,       \* how many calls of push() each producer has begun
  item,       \* the local `item` of each consumer's call
  expired,    \* whether the 100 ms of the consumer's call are over
  pushed,     \* history: items in the order queue_.push() ran
  popped      \* history: items in the order their calls returned them

vars == <<queue_, mutex_, stop_flag, pc, sent, item, expired, pushed, popped>>

ProducerSteps == {"idle", "push", "notify"}
ConsumerSteps == {"idle", "check", "waiting", "wake", "take", "pop"}

\* The threads that hold the mutex when they are at these steps.
Locked == {"push", "check", "take", "pop"}

TypeOK ==
  /\ queue_ \in Seq(Items)
  /\ mutex_ \in Threads \cup {Nobody}
  /\ stop_flag \in BOOLEAN
  /\ pc \in [Threads -> ProducerSteps \cup ConsumerSteps]
  /\ \A p \in Producers : pc[p] \in ProducerSteps
  /\ \A c \in Consumers : pc[c] \in ConsumerSteps
  /\ sent \in [Producers -> 0 .. MaxPush]
  /\ item \in [Consumers -> Items \cup {NoItem}]
  /\ expired \in [Consumers -> BOOLEAN]
  /\ pushed \in Seq(Items)
  /\ popped \in Seq(Items)

\* The threads blocked in the condition variable.
Waiters == {c \in Consumers : pc[c] = "waiting"}

Init ==
  /\ queue_ = <<>>
  /\ mutex_ = Nobody
  /\ stop_flag = FALSE
  /\ pc = [t \in Threads |-> "idle"]
  /\ sent = [p \in Producers |-> 0]
  /\ item = [c \in Consumers |-> NoItem]
  /\ expired = [c \in Consumers |-> FALSE]
  /\ pushed = <<>>
  /\ popped = <<>>

Goto(t, from, to) ==
  /\ pc[t] = from
  /\ pc' = [pc EXCEPT ![t] = to]

Acquire(t) ==
  /\ mutex_ = Nobody
  /\ mutex_' = t

Release(t) == mutex_' = Nobody

-----------------------------------------------------------------------------
(* push() *)

PushLock(p) ==
  /\ sent[p] < MaxPush
  /\ Goto(p, "idle", "push")
  /\ Acquire(p)
  /\ sent' = [sent EXCEPT ![p] = @ + 1]
  /\ UNCHANGED <<queue_, stop_flag, item, expired, pushed, popped>>

PushItem(p) ==
  /\ Goto(p, "push", "notify")
  /\ queue_' = Append(queue_, <<p, sent[p]>>)
  /\ pushed' = Append(pushed, <<p, sent[p]>>)
  /\ Release(p)
  /\ UNCHANGED <<stop_flag, sent, item, expired, popped>>

\* Mutants are plausible slips, used by no specification: they confirm that the
\* properties notice them.
\* Mutant: notify only when the queue was empty before the push.
NotifyIfFirst(p) ==
  /\ pc[p] = "notify"
  /\ \/ \E w \in Waiters :
          Len(queue_) = 1 /\ pc' = [pc EXCEPT ![p] = "idle", ![w] = "wake"]
     \/ /\ Waiters = {} \/ Len(queue_) # 1
        /\ pc' = [pc EXCEPT ![p] = "idle"]
  /\ UNCHANGED <<queue_, mutex_, stop_flag, sent, item, expired, pushed, popped>>

\* notify_one() runs after the lock_guard's scope: any waiter may be the one
\* that wakes, and with none the notification is gone.
NotifyOne(p) ==
  /\ pc[p] = "notify"
  /\ \/ \E w \in Waiters : pc' = [pc EXCEPT ![p] = "idle", ![w] = "wake"]
     \/ /\ Waiters = {}
        /\ pc' = [pc EXCEPT ![p] = "idle"]
  /\ UNCHANGED <<queue_, mutex_, stop_flag, sent, item, expired, pushed, popped>>

-----------------------------------------------------------------------------
(* wait_and_pop(), both overloads *)

\* The predicate each overload waits for.
Ready(c) == queue_ # <<>> \/ (c \in TimedConsumers /\ stop_flag)

PopLock(c) ==
  /\ Goto(c, "idle", "check")
  /\ Acquire(c)
  /\ expired' = [expired EXCEPT ![c] = FALSE]
  /\ UNCHANGED <<queue_, stop_flag, sent, item, pushed, popped>>

PredicateHolds(c) ==
  /\ Ready(c)
  /\ Goto(c, "check", "take")
  /\ UNCHANGED <<queue_, mutex_, stop_flag, sent, item, expired, pushed, popped>>

\* A wait whose deadline is already over gives up the mutex and asks for it
\* again at once.
Wait(c) ==
  /\ ~Ready(c)
  /\ Goto(c, "check", IF expired[c] THEN "wake" ELSE "waiting")
  /\ Release(c)
  /\ UNCHANGED <<queue_, stop_flag, sent, item, expired, pushed, popped>>

\* Mutant: wait() in place of wait_for(), no deadline at all.
NeverExpires(c) == FALSE /\ c \in TimedConsumers /\ UNCHANGED vars

\* The deadline of wait_for() is fixed when the call begins.  It can also pass
\* after a notification, before the mutex is taken again: wait_for() then
\* reports a timeout all the same.
DeadlinePasses(c) ==
  /\ c \in TimedConsumers
  /\ pc[c] \in {"check", "waiting", "wake"}
  /\ ~expired[c]
  /\ expired' = [expired EXCEPT ![c] = TRUE]
  /\ pc' = [pc EXCEPT ![c] = IF @ = "waiting" THEN "wake" ELSE @]
  /\ UNCHANGED <<queue_, mutex_, stop_flag, sent, item, pushed, popped>>

SpuriousWakeup(c) ==
  /\ Goto(c, "waiting", "wake")
  /\ UNCHANGED <<queue_, mutex_, stop_flag, sent, item, expired, pushed, popped>>

\* Mutant: `if` in place of the wait loop, the predicate is not evaluated again.
RelockAndTake(c) ==
  /\ Goto(c, "wake", "take")
  /\ Acquire(c)
  /\ UNCHANGED <<queue_, stop_flag, sent, item, expired, pushed, popped>>

\* After a timeout wait_for() evaluates the predicate once more and returns
\* whatever it says; otherwise the wait loop starts over.
Relock(c) ==
  /\ Goto(c, "wake", IF expired[c] THEN "take" ELSE "check")
  /\ Acquire(c)
  /\ UNCHANGED <<queue_, stop_flag, sent, item, expired, pushed, popped>>

\* `if (queue_.empty()) return std::nullopt;`, in the timed overload only.
ReturnNothing(c) ==
  /\ c \in TimedConsumers
  /\ queue_ = <<>>
  /\ Goto(c, "take", "idle")
  /\ Release(c)
  /\ UNCHANGED <<queue_, stop_flag, sent, item, expired, pushed, popped>>

\* Mutant: pop() without reading front() first.
ReadNothing(c) ==
  /\ queue_ # <<>>
  /\ Goto(c, "take", "pop")
  /\ UNCHANGED <<queue_, mutex_, stop_flag, sent, item, expired, pushed, popped>>

ReadFront(c) ==
  /\ queue_ # <<>>
  /\ Goto(c, "take", "pop")
  /\ item' = [item EXCEPT ![c] = Head(queue_)]
  /\ UNCHANGED <<queue_, mutex_, stop_flag, sent, expired, pushed, popped>>

\* Mutant: the item is returned and the pop() forgotten.
PopNothing(c) ==
  /\ Goto(c, "pop", "idle")
  /\ popped' = Append(popped, item[c])
  /\ item' = [item EXCEPT ![c] = NoItem]
  /\ Release(c)
  /\ UNCHANGED <<queue_, stop_flag, sent, expired, pushed>>

PopFront(c) ==
  /\ Goto(c, "pop", "idle")
  /\ queue_' = Tail(queue_)
  /\ popped' = Append(popped, item[c])
  /\ item' = [item EXCEPT ![c] = NoItem]
  /\ Release(c)
  /\ UNCHANGED <<stop_flag, sent, expired, pushed>>

-----------------------------------------------------------------------------
\* The owner of the stop flag sets it; nothing notifies the condition variable.
SetStop ==
  /\ ~stop_flag
  /\ stop_flag' = TRUE
  /\ UNCHANGED <<queue_, mutex_, pc, sent, item, expired, pushed, popped>>

ProducerStep(p) == PushLock(p) \/ PushItem(p) \/ NotifyOne(p)

InsideCall(c) ==
  \/ PredicateHolds(c) \/ Wait(c)
  \/ ReturnNothing(c) \/ ReadFront(c) \/ PopFront(c)

ConsumerStep(c) ==
  \/ PopLock(c) \/ InsideCall(c) \/ Relock(c)
  \/ DeadlinePasses(c) \/ SpuriousWakeup(c)

Next ==
  \/ \E p \in Producers : ProducerStep(p)
  \/ \E c \in Consumers : ConsumerStep(c)
  \/ SetStop

\* A running thread runs on; a thread that waits for the mutex gets it in the
\* end (no thread holds it for long); 100 ms pass; and while the stop flag is
\* not set the consumers call wait_and_pop() again.  Nothing says that push()
\* is ever called, that a wakeup is spurious, or that the flag is ever set.
Fairness ==
  /\ \A p \in Producers : WF_vars(PushItem(p) \/ NotifyOne(p))
  /\ \A c \in Consumers :
       /\ WF_vars(InsideCall(c))
       /\ SF_vars(Relock(c))
       /\ SF_vars(~stop_flag /\ PopLock(c))
       /\ WF_vars(DeadlinePasses(c))

Spec == Init /\ [][Next]_vars
FairSpec == Spec /\ Fairness

-----------------------------------------------------------------------------
(* What the queue promises *)

\* Nothing is lost, duplicated or overtaken between push() and wait_and_pop():
\* what was appended is what was returned followed by what is still inside.
FifoDelivery == pushed = popped \o queue_

\* front() and pop() are undefined on an empty queue: a call that has decided
\* to pop finds an item, and the item it copied is still the front when it
\* removes the front.  The timed overload checks empty() itself; the blocking
\* one relies on its predicate alone, after any number of spurious wakeups.
FrontIsDefined ==
  \A c \in Consumers :
    /\ pc[c] = "take" /\ c \in BlockingConsumers => queue_ # <<>>
    /\ pc[c] = "pop" => queue_ # <<>> /\ item[c] = Head(queue_)

\* Consumers inside a call that will look at the queue before they wait again.
Awake == {c \in Consumers : pc[c] \in {"check", "wake", "take", "pop"}}

Notifying == {p \in Producers : pc[p] = "notify"}

\* A consumer sleeps beside a non-empty queue only while there are enough
\* consumers awake, and notifications still to come, to take every item: the
\* notification after the unlock in push() is never one too few.
NoLostWakeup ==
  Waiters # {} => Len(queue_) <= Cardinality(Awake) + Cardinality(Notifying)

\* wait_and_pop(stop_flag) comes back, with an item or without, whatever the
\* producers do: this is what lets the workers look at the stop flag again.
TimedCallReturns ==
  \A c \in TimedConsumers : pc[c] # "idle" ~> pc[c] = "idle"

\* The queue implements the abstract channel: FIFO, and everything pushed is
\* popped in the end unless the stop flag is set.
Channel ==
  INSTANCE FifoChannel WITH chan <- queue_, taken <- popped, open <- ~stop_flag

ImplementsChannel == Channel!Spec

=============================================================================
