------------------------ MODULE EventProcessorProofs ------------------------
(***************************************************************************)
(* Proofs about EventProcessor for any number of workers and sources, any  *)
(* window and any bounds on events and time.                               *)
(***************************************************************************)
EXTENDS EventProcessor, SequenceTheorems, FiniteSetTheorems, RecursionLemmas,
        TLAPS

(***************************************************************************)
(* The inductive invariant.  Holding state_mutex_ is the same as being     *)
(* between lock and unlock; a worker has an event from the pop to the      *)
(* update; the evaluator is not there before the server; it reports what   *)
(* it has copied.                                                          *)
(***************************************************************************)
MutexInv ==
  /\ \A w \in Workers : worker[w] = "add" <=> state_mutex_ = w
  /\ evaluator = "copy" <=> state_mutex_ = Evaluator

HoldInv ==
  \A w \in Workers : worker[w] \in {"lock", "add"} <=> event[w] # NoEvent

StartInv == main = "starting" => evaluator = "new"

ReportInv == evaluator = "report" => todo \subseteq DOMAIN snapshots

IInv == TypeOK /\ MutexInv /\ HoldInv /\ StartInv /\ ReportInv

(***************************************************************************)
(* The windows.  While a worker has the mutex, its event's window is       *)
(* evicted from and has still to get the event's row.  What the evaluator  *)
(* copies does not change meanwhile.                                       *)
(***************************************************************************)
WindowsInv ==
  \A s \in Sources :
    source_states_[s] =
      IF state_mutex_ \in Workers /\ event[state_mutex_].source_id = s
      THEN EvictOlderThan(Replay(Len(processed), s), event[state_mutex_].timestamp)
      ELSE Replay(Len(processed), s)

CopyInv ==
  evaluator = "copy" =>
    /\ todo \cup DOMAIN snapshots = {s \in Sources : source_states_[s] # <<>>}
    /\ \A s \in DOMAIN snapshots : snapshots[s] = source_states_[s]

-----------------------------------------------------------------------------
(* The operators. *)

\* evict_older_than() leaves a window of rows that were there.
LEMMA EvictType ==
  ASSUME NEW S, NEW window \in Seq(S), NEW t
  PROVE  EvictOlderThan(window, t) \in Seq(S)
BY SelectAtType DEF EvictOlderThan

\* What is in an event makes a row.
LEMMA ObservationType ==
  ASSUME NEW e \in Events
  PROVE  Observation(e) \in Observations
BY DEF Observation, Observations

\* An event has a source and a timestamp, and is no placeholder.
LEMMA EventFields ==
  ASSUME NEW e \in Events
  PROVE  /\ e.source_id \in Sources /\ e.timestamp \in Timestamps
         /\ e.event_id \in 1 .. MaxEvents /\ e # NoEvent
BY NoEventAssumption DEF Events

-----------------------------------------------------------------------------
(* Types, locks and who holds what *)

\* The strengthened invariant holds of a process whose threads have not started.
LEMMA InitIInv == Init => IInv
<1> SUFFICES ASSUME Init PROVE IInv
  OBVIOUS
<1> USE ProcessorAssumption DEF Init
<1>1. TypeOK
  <2>1. <<>> \in Seq(Events) /\ <<>> \in Seq(Observations)
    BY EmptySeq
  <2>2. DOMAIN snapshots = {}
    OBVIOUS
  <2>3. arrived \in 0 .. MaxEvents /\ now \in 0 .. MaxTime
    OBVIOUS
  <2>4. /\ worker \in [Workers -> {"new", "loop", "pop", "lock", "add", "returned"}]
        /\ event \in [Workers -> Events \cup {NoEvent}]
        /\ source_states_ \in [Sources -> Seq(Observations)]
    BY <2>1
  <2>5. QED
    BY <2>1, <2>2, <2>3, <2>4 DEF TypeOK
<1>2. MutexInv /\ HoldInv /\ StartInv /\ ReportInv
  BY DEF MutexInv, HoldInv, StartInv, ReportInv
<1>3. QED
  BY <1>1, <1>2 DEF IInv

\* A worker between lock and unlock, or waiting for the lock, has an event.
LEMMA HeldEvent ==
  ASSUME IInv, NEW w \in Workers, worker[w] \in {"lock", "add"}
  PROVE  event[w] \in Events
BY DEF IInv, TypeOK, HoldInv

\* Each step keeps the types.
LEMMA TypeStep == IInv /\ [Next]_vars => TypeOK'
<1> SUFFICES ASSUME IInv, [Next]_vars PROVE TypeOK'
  OBVIOUS
<1>0. TypeOK
  BY DEF IInv
<1> USE ProcessorAssumption DEF TypeOK, server_vars, queue_vars, worker_vars,
      state_vars, evaluator_vars
<1>1. ASSUME MainStep PROVE TypeOK'
  BY <1>0, <1>1 DEF MainStep, StartEvaluator, ServerReturns, Join, StartWorker
<1>2. ASSUME NEW s \in Sources, NEW t \in Timestamps, NEW p \in Payloads,
             Push(s, t, p)
      PROVE  TypeOK'
  <2>1. arrived + 1 \in 1 .. MaxEvents
    BY <1>0, <1>2 DEF Push
  <2>2. [source_id |-> s, event_id |-> arrived + 1, timestamp |-> t, payload |-> p]
          \in Events
    BY <2>1 DEF Events
  <2>3. queue' \in Seq(Events)
    BY <1>0, <1>2, <2>2, AppendProperties DEF Push, Queue!Put
  <2>4. QED
    BY <1>0, <1>2, <2>1, <2>3 DEF Push, Queue!Put
<1>3. ASSUME SetStop \/ Tick PROVE TypeOK'
  <2>1. CASE SetStop
    BY <1>0, <2>1 DEF SetStop
  <2>2. CASE Tick
    <3>1. now' \in 0 .. MaxTime
      BY <1>0, <2>2 DEF Tick
    <3>2. QED
      BY <1>0, <2>2, <3>1 DEF Tick
  <2>3. QED
    BY <1>3, <2>1, <2>2
<1>4. ASSUME NEW w \in Workers, TestStop(w) \/ PopNothing(w) PROVE TypeOK'
  BY <1>0, <1>4 DEF TestStop, PopNothing
<1>5. ASSUME NEW w \in Workers, Pop(w) PROVE TypeOK'
  <2>1. Head(queue) \in Events /\ Tail(queue) \in Seq(Events)
    BY <1>0, <1>5, HeadTailProperties DEF Pop, Queue!Take
  <2>2. popped' \in Seq(Events)
    BY <1>0, <1>5, <2>1, AppendProperties DEF Pop, Queue!Take
  <2>3. QED
    BY <1>0, <1>5, <2>1, <2>2 DEF Pop, Queue!Take
<1>6. ASSUME NEW w \in Workers, LockAndEvict(w) PROVE TypeOK'
  <2>1. event[w] \in Events
    BY <1>6, HeldEvent DEF LockAndEvict
  <2>2. \A s \in Sources :
          EvictOlderThan(source_states_[s], event[w].timestamp) \in Seq(Observations)
    BY <1>0, EvictType
  <2>3. source_states_' \in [Sources -> Seq(Observations)]
    BY <1>0, <1>6, <2>1, <2>2, EventFields DEF LockAndEvict
  <2>4. QED
    BY <1>0, <1>6, <2>3 DEF LockAndEvict
<1>7. ASSUME NEW w \in Workers, AddAndUnlock(w) PROVE TypeOK'
  <2>1. event[w] \in Events
    BY <1>7, HeldEvent DEF AddAndUnlock
  <2>2. \A s \in Sources :
          AddEvent(source_states_[s], Observation(event[w])) \in Seq(Observations)
    BY <1>0, <2>1, ObservationType, AppendProperties DEF AddEvent
  <2>3. source_states_' \in [Sources -> Seq(Observations)]
    BY <1>0, <1>7, <2>1, <2>2, EventFields DEF AddAndUnlock
  <2>4. processed' \in Seq(Events)
    BY <1>0, <1>7, <2>1, AppendProperties DEF AddAndUnlock
  <2>5. QED
    BY <1>0, <1>7, <2>3, <2>4 DEF AddAndUnlock
<1>8. ASSUME EvaluatorTestStop \/ WakeUp \/ LockStates \/ UnlockStates \/ RoundEnds
      PROVE  TypeOK'
  BY <1>0, <1>8
     DEF EvaluatorTestStop, WakeUp, LockStates, UnlockStates, RoundEnds
<1>9. ASSUME NEW s \in Sources, CopyState(s) PROVE TypeOK'
  <2>1. DOMAIN snapshots' = DOMAIN snapshots \cup {s}
    BY <1>9 DEF CopyState
  <2>2. \A x \in DOMAIN snapshots' : snapshots'[x] \in Seq(Observations)
    BY <1>0, <1>9, <2>1 DEF CopyState
  <2>3. QED
    BY <1>0, <1>9, <2>1, <2>2 DEF CopyState
<1>10. ASSUME NEW s \in Sources, Report(s) PROVE TypeOK'
  <2>1. snapshots[s] \in Seq(Observations)
    BY <1>0, <1>10 DEF IInv, ReportInv, Report
  <2>2. PICK c : evidence' = IF c \in {"SUSPICIOUS", "ATTACK"}
                             THEN evidence \cup {Line(s, c)} ELSE evidence
    BY <1>10 DEF Report
  <2>3. c \in {"SUSPICIOUS", "ATTACK"} =>
          /\ Line(s, c).window \in Seq(Observations)
          /\ Line(s, c) \in [source_id : Sources, timestamp : 0 .. MaxTime,
                              window : {Line(s, c).window},
                              classification : {"SUSPICIOUS", "ATTACK"}]
    BY <1>0, <2>1 DEF Line
  <2>4. \A line \in evidence' : line \in evidence \/
          (c \in {"SUSPICIOUS", "ATTACK"} /\ line = Line(s, c))
    BY <2>2
  <2>5. \A line \in evidence' :
          /\ line.window \in Seq(Observations)
          /\ line \in [source_id : Sources, timestamp : 0 .. MaxTime,
                       window : {line.window},
                       classification : {"SUSPICIOUS", "ATTACK"}]
    BY <1>0, <2>3, <2>4
  <2>6. QED
    BY <1>0, <1>10, <2>5 DEF Report
<1>11. ASSUME UNCHANGED vars PROVE TypeOK'
  BY <1>0, <1>11 DEF vars
<1>12. QED
  BY <1>1, <1>2, <1>3, <1>4, <1>5, <1>6, <1>7, <1>8, <1>9, <1>10, <1>11
     DEF Next, WorkerStep, EvaluatorStep

\* Each step keeps the mutex with the thread between lock and unlock, an event
\* with each worker that needs one, and the evaluator's copies with its list.
LEMMA LockStep ==
  IInv /\ [Next]_vars => MutexInv' /\ HoldInv' /\ StartInv' /\ ReportInv'
<1> DEFINE Others == MutexInv /\ HoldInv /\ StartInv /\ ReportInv
<1> SUFFICES ASSUME IInv, [Next]_vars PROVE Others'
  OBVIOUS
<1>0. TypeOK /\ Others
  BY DEF IInv
<1> USE ProcessorAssumption, <1>0 DEF MutexInv, HoldInv, StartInv, ReportInv,
      TypeOK, server_vars, queue_vars, worker_vars, state_vars, evaluator_vars
<1>1. ASSUME NEW w \in Workers, StartWorker(w) PROVE Others'
  BY <1>1 DEF StartWorker
<1>2. ASSUME StartEvaluator \/ ServerReturns \/ Join PROVE Others'
  BY <1>2 DEF StartEvaluator, ServerReturns, Join
<1>3. ASSUME NEW s \in Sources, NEW t \in Timestamps, NEW p \in Payloads,
             Push(s, t, p)
      PROVE  Others'
  BY <1>3 DEF Push
<1>4. ASSUME SetStop \/ Tick PROVE Others'
  BY <1>4 DEF SetStop, Tick
<1>5. ASSUME NEW w \in Workers, TestStop(w) \/ PopNothing(w) PROVE Others'
  BY <1>5 DEF TestStop, PopNothing
<1>6. ASSUME NEW w \in Workers, Pop(w) PROVE Others'
  <2>1. Head(queue) # NoEvent
    BY <1>6, HeadTailProperties, EventFields DEF Pop, Queue!Take
  <2>2. QED
    BY <1>6, <2>1 DEF Pop, Queue!Take
<1>7. ASSUME NEW w \in Workers, LockAndEvict(w) PROVE Others'
  BY <1>7 DEF LockAndEvict
<1>8. ASSUME NEW w \in Workers, AddAndUnlock(w) PROVE Others'
  BY <1>8 DEF AddAndUnlock
<1>9. ASSUME EvaluatorTestStop \/ WakeUp \/ RoundEnds PROVE Others'
  BY <1>9 DEF EvaluatorTestStop, WakeUp, RoundEnds
<1>10. ASSUME LockStates \/ UnlockStates PROVE Others'
  BY <1>10 DEF LockStates, UnlockStates
<1>11. ASSUME NEW s \in Sources, CopyState(s) \/ Report(s) PROVE Others'
  BY <1>11 DEF CopyState, Report
<1>12. ASSUME UNCHANGED vars PROVE Others'
  BY <1>12 DEF vars
<1>13. QED
  BY <1>1, <1>2, <1>3, <1>4, <1>5, <1>6, <1>7, <1>8, <1>9, <1>10, <1>11, <1>12
     DEF Next, MainStep, WorkerStep, EvaluatorStep

\* It is inductive: no step of any thread breaks it.
LEMMA NextIInv == IInv /\ [Next]_vars => IInv'
BY TypeStep, LockStep DEF IInv

\* The strengthened invariant always holds.
THEOREM IInvCorrect == Spec => []IInv
BY InitIInv, NextIInv, PTL DEF Spec

\* All variables always have their types; a line of evidence is about a window
\* that was there, and never says NORMAL.
THEOREM TypeCorrect == Spec => []TypeOK
<1>1. IInv => TypeOK
  BY DEF IInv
<1>2. QED
  BY <1>1, IInvCorrect, PTL

-----------------------------------------------------------------------------
(* One worker after another *)

\* What Replayed does with each event.
LEMMA ReplayedRecursion ==
  ASSUME NEW events \in Seq(Events), NEW s
  PROVE  /\ Replayed(events, s) \in [0 .. Len(events) -> Seq(Observations)]
         /\ Replayed(events, s)[0] = <<>>
         /\ \A n \in 1 .. Len(events) :
              Replayed(events, s)[n] = Applied(Replayed(events, s)[n - 1], events[n], s)
<1> DEFINE m == Len(events)
           S == Seq(Observations)
           step == [n \in 1 .. m |-> [x \in S |-> Applied(x, events[n], s)]]
           Value(f, n) == IF n = 0 THEN <<>> ELSE Applied(f[n - 1], events[n], s)
           Holds(f) == f = [n \in 0 .. m |-> Value(f, n)]
           window == CHOOSE f : Holds(f)
<1>1. m \in Nat /\ <<>> \in S
  BY LenProperties, EmptySeq
<1>2. Replayed(events, s) = window
  BY DEF Replayed
<1>3. ASSUME NEW n \in 1 .. m, NEW x \in S PROVE Applied(x, events[n], s) \in S
  <2>1. events[n] \in Events
    BY ElementOfSeq
  <2>2. Observation(events[n]) \in Observations
    BY <2>1, ObservationType
  <2>3. EvictOlderThan(x, events[n].timestamp) \in S
    BY EvictType
  <2>4. QED
    BY <2>2, <2>3, AppendProperties DEF Applied, AddEvent
<1> HIDE DEF m, S
<1>4. step \in [1 .. m -> [S -> S]]
  BY <1>3
<1>5. PICK f \in [0 .. m -> S] :
        f[0] = <<>> /\ \A n \in 1 .. m : f[n] = step[n][f[n - 1]]
  <2> HIDE DEF step
  <2>1. Recursive(m, S, <<>>, step) # {}
    BY <1>1, <1>4, RecursionExists
  <2>2. QED
    BY <2>1 DEF Recursive
<1>6. \A n \in 1 .. m : f[n] = Applied(f[n - 1], events[n], s)
  <2>1. ASSUME NEW n \in 1 .. m, NEW x \in S
        PROVE  step[n][x] = Applied(x, events[n], s)
    OBVIOUS
  <2>2. ASSUME NEW n \in 1 .. m PROVE f[n - 1] \in S
    BY <1>1, <1>5
  <2> HIDE DEF step
  <2>3. QED
    BY <1>5, <2>1, <2>2
<1>7. Holds(f)
  <2>1. ASSUME NEW n \in 0 .. m PROVE f[n] = Value(f, n)
    <3>1. CASE n = 0
      BY <1>5, <3>1
    <3>2. CASE n \in 1 .. m
      BY <1>1, <1>6, <3>2
    <3>3. QED
      BY <1>1, <3>1, <3>2
  <2> HIDE DEF Value
  <2>2. QED
    BY <1>5, <2>1
<1>8. Holds(window)
  <2> HIDE DEF Holds
  <2>1. QED
    BY <1>7
<1> HIDE DEF window
<1>9. \A n \in 0 .. m : window[n] = Value(window, n)
  <2> HIDE DEF Value
  <2>1. QED
    BY <1>8
<1>10. window[0] = <<>>
  BY <1>1, <1>9
<1>11. ASSUME NEW n \in 1 .. m PROVE window[n] = Applied(window[n - 1], events[n], s)
  <2>1. n \in 0 .. m /\ n # 0
    BY <1>1
  <2>2. window[n] = Value(window, n)
    BY <1>9, <2>1
  <2>3. QED
    BY <2>1, <2>2
<1>12. \A n \in 0 .. m : window[n] = f[n]
  <2>1. GoOnAlike(window, f, m)
    BY <1>5, <1>6, <1>10, <1>11 DEF GoOnAlike
  <2>2. QED
    BY <1>1, <2>1, RecursionUnique
<1>13. window \in [0 .. m -> S]
  <2> HIDE DEF Value, Holds
  <2>1. window = [n \in 0 .. m |-> window[n]]
    BY <1>8 DEF Holds
  <2>2. \A n \in 0 .. m : window[n] \in S
    BY <1>5, <1>12
  <2>3. QED
    BY <2>1, <2>2
<1>14. QED
  BY <1>2, <1>10, <1>11, <1>13 DEF m, S

\* Events that come later do not change what the first n made of a window.
LEMMA ReplayedPrefix ==
  ASSUME NEW events \in Seq(Events), NEW e \in Events, NEW s,
         NEW n \in 0 .. Len(events)
  PROVE  Replayed(Append(events, e), s)[n] = Replayed(events, s)[n]
<1> DEFINE m == Len(events)
           longer == Append(events, e)
           f == Replayed(longer, s)
           g == Replayed(events, s)
<1>1. /\ m \in Nat /\ longer \in Seq(Events) /\ Len(longer) = m + 1
      /\ \A i \in 1 .. m : longer[i] = events[i]
  BY LenProperties, AppendProperties
<1>2. g[0] = <<>> /\ \A i \in 1 .. m : g[i] = Applied(g[i - 1], events[i], s)
  BY ReplayedRecursion
<1> HIDE DEF m, longer
<1>3. /\ f[0] = <<>>
      /\ \A i \in 1 .. Len(longer) : f[i] = Applied(f[i - 1], longer[i], s)
  BY <1>1, ReplayedRecursion
<1> HIDE DEF f, g
<1>4. GoOnAlike(f, g, m)
  <2>1. ASSUME NEW i \in 1 .. m, f[i - 1] = g[i - 1] PROVE f[i] = g[i]
    <3>1. i \in 1 .. Len(longer) /\ longer[i] = events[i]
      BY <1>1
    <3>2. QED
      BY <1>2, <1>3, <2>1, <3>1
  <2>2. QED
    BY <1>2, <1>3, <2>1 DEF GoOnAlike
<1>5. \A i \in 0 .. m : f[i] = g[i]
  BY <1>1, <1>4, RecursionUnique
<1>6. QED
  BY <1>5 DEF f, g, m, longer

\* The last event is applied to what those before it made.
LEMMA ReplayedAppend ==
  ASSUME NEW events \in Seq(Events), NEW e \in Events, NEW s
  PROVE  Replayed(Append(events, e), s)[Len(events) + 1] =
           Applied(Replayed(events, s)[Len(events)], e, s)
<1> DEFINE m == Len(events)
           longer == Append(events, e)
<1>1. /\ m \in Nat /\ longer \in Seq(Events) /\ Len(longer) = m + 1
      /\ longer[m + 1] = e
  BY LenProperties, AppendProperties
<1>2. Replayed(longer, s)[m] = Replayed(events, s)[m]
  BY <1>1, ReplayedPrefix
<1> HIDE DEF m, longer
<1>3. m + 1 \in 1 .. Len(longer) /\ (m + 1) - 1 = m
  BY <1>1
<1>4. Replayed(longer, s)[m + 1] =
        Applied(Replayed(longer, s)[(m + 1) - 1], longer[m + 1], s)
  BY <1>1, <1>3, ReplayedRecursion
<1>5. QED
  BY <1>1, <1>2, <1>3, <1>4 DEF m, longer

\* The steps that leave the windows, the lock and the events in hand alone.
LEMMA WindowsUnchanged ==
  ASSUME WindowsInv, UNCHANGED <<source_states_, processed>>,
         state_mutex_ \in Workers <=> state_mutex_' \in Workers,
         state_mutex_ \in Workers =>
           state_mutex_' = state_mutex_ /\ event'[state_mutex_] = event[state_mutex_]
  PROVE  WindowsInv'
BY DEF WindowsInv, Replay

\* A worker that gets the mutex evicts from the window of its event's source.
LEMMA WindowsLockStep ==
  ASSUME IInv, WindowsInv, NEW w \in Workers, LockAndEvict(w)
  PROVE  WindowsInv'
<1> USE ProcessorAssumption DEF LockAndEvict
<1>1. event[w].source_id \in Sources
  BY HeldEvent, EventFields
<1>2. /\ state_mutex_ = Nobody /\ state_mutex_' = w /\ event' = event
      /\ processed' = processed
      /\ source_states_ \in [Sources -> Seq(Observations)]
  BY DEF state_vars, worker_vars, IInv, TypeOK
<1>3. ASSUME NEW s \in Sources
      PROVE  /\ source_states_[s] = Replay(Len(processed), s)
             /\ Replay(Len(processed), s)' = Replay(Len(processed), s)
  BY <1>2 DEF WindowsInv, Replay
<1>4. ASSUME NEW s \in Sources
      PROVE  source_states_'[s] =
               IF event[w].source_id = s
               THEN EvictOlderThan(Replay(Len(processed), s), event[w].timestamp)
               ELSE Replay(Len(processed), s)
  BY <1>1, <1>2, <1>3
<1>5. QED
  BY <1>2, <1>3, <1>4 DEF WindowsInv

\* The worker that has it adds the row: the event is applied.
LEMMA WindowsAddStep ==
  ASSUME IInv, WindowsInv, NEW w \in Workers, AddAndUnlock(w)
  PROVE  WindowsInv'
<1> USE ProcessorAssumption
<1> DEFINE e == event[w]
           n == Len(processed)
<1>1. e \in Events /\ e.source_id \in Sources
  BY HeldEvent, EventFields DEF AddAndUnlock
<1>2. /\ state_mutex_ = w /\ state_mutex_' = Nobody
      /\ source_states_ \in [Sources -> Seq(Observations)]
      /\ processed \in Seq(Events) /\ processed' = Append(processed, e)
  BY DEF AddAndUnlock, IInv, TypeOK, MutexInv
<1>3. n \in Nat /\ Len(processed') = n + 1
  BY <1>1, <1>2, LenProperties, AppendProperties
<1>4. ASSUME NEW s \in Sources
      PROVE  source_states_'[s] = Applied(Replayed(processed, s)[n], e, s)
  <2>1. source_states_[s] =
          IF e.source_id = s
          THEN EvictOlderThan(Replayed(processed, s)[n], e.timestamp)
          ELSE Replayed(processed, s)[n]
    BY <1>2 DEF WindowsInv, Replay
  <2>2. source_states_'[s] =
          IF e.source_id = s THEN AddEvent(source_states_[s], Observation(e))
          ELSE source_states_[s]
    BY <1>1, <1>2 DEF AddAndUnlock
  <2>3. QED
    BY <2>1, <2>2 DEF Applied
<1>5. ASSUME NEW s \in Sources
      PROVE  Replay(Len(processed), s)' = Applied(Replayed(processed, s)[n], e, s)
  <2>1. Replay(Len(processed), s)' = Replayed(Append(processed, e), s)[n + 1]
    BY <1>2, <1>3 DEF Replay
  <2>2. QED
    BY <1>1, <1>2, <2>1, ReplayedAppend
<1>6. state_mutex_' \notin Workers
  BY <1>2
<1>7. QED
  BY <1>4, <1>5, <1>6 DEF WindowsInv

\* The windows are those of one worker, up to the eviction that is under way.
LEMMA WindowsStep == IInv /\ WindowsInv /\ [Next]_vars => WindowsInv'
<1> SUFFICES ASSUME IInv, WindowsInv, [Next]_vars PROVE WindowsInv'
  OBVIOUS
<1> USE ProcessorAssumption DEF server_vars, queue_vars, worker_vars, state_vars,
      evaluator_vars
<1>1. ASSUME NEW w \in Workers, LockAndEvict(w) \/ AddAndUnlock(w) PROVE WindowsInv'
  BY <1>1, WindowsLockStep, WindowsAddStep
<1>2. ASSUME NEW w \in Workers, TestStop(w) \/ PopNothing(w) PROVE WindowsInv'
  BY <1>2, WindowsUnchanged DEF TestStop, PopNothing
<1>3. ASSUME NEW w \in Workers, Pop(w) PROVE WindowsInv'
  <2>1. state_mutex_ # w /\ event \in [Workers -> Events \cup {NoEvent}]
    BY <1>3 DEF IInv, TypeOK, MutexInv, Pop
  <2>2. QED
    BY <1>3, <2>1, WindowsUnchanged DEF Pop
<1>4. ASSUME LockStates \/ UnlockStates PROVE WindowsInv'
  <2>1. state_mutex_ \notin Workers /\ state_mutex_' \notin Workers
    BY <1>4 DEF LockStates, UnlockStates, IInv, MutexInv
  <2>2. QED
    BY <1>4, <2>1, WindowsUnchanged DEF LockStates, UnlockStates
<1>5. ASSUME EvaluatorTestStop \/ WakeUp \/ RoundEnds PROVE WindowsInv'
  BY <1>5, WindowsUnchanged DEF EvaluatorTestStop, WakeUp, RoundEnds
<1>6. ASSUME NEW s \in Sources, CopyState(s) \/ Report(s) PROVE WindowsInv'
  BY <1>6, WindowsUnchanged DEF CopyState, Report
<1>7. ASSUME MainStep PROVE WindowsInv'
  BY <1>7, WindowsUnchanged
     DEF MainStep, StartWorker, StartEvaluator, ServerReturns, Join
<1>8. ASSUME NEW s \in Sources, NEW t \in Timestamps, NEW p \in Payloads,
             Push(s, t, p)
      PROVE  WindowsInv'
  BY <1>8, WindowsUnchanged DEF Push
<1>9. ASSUME SetStop \/ Tick \/ UNCHANGED vars PROVE WindowsInv'
  BY <1>9, WindowsUnchanged DEF SetStop, Tick, vars
<1>10. QED
  BY <1>1, <1>2, <1>3, <1>4, <1>5, <1>6, <1>7, <1>8, <1>9
     DEF Next, WorkerStep, EvaluatorStep

\* It always holds.
THEOREM WindowsCorrect == Spec => []WindowsInv
<1>1. Init => WindowsInv
  <2>1. ASSUME Init, NEW s \in Sources PROVE Replay(Len(processed), s) = <<>>
    <3>1. <<>> \in Seq(Events) /\ Len(<<>>) = 0
      BY EmptySeq
    <3>2. PICK none \in Seq(Events) : none = <<>>
      BY <3>1
    <3>3. Replayed(none, s)[0] = <<>>
      BY ReplayedRecursion
    <3>4. QED
      BY <2>1, <3>1, <3>2, <3>3 DEF Init, Replay
  <2>2. QED
    BY <2>1, ProcessorAssumption DEF Init, WindowsInv
<1>2. QED
  BY <1>1, WindowsStep, IInvCorrect, PTL DEF Spec

\* Whatever workers do at the same time, between two updates the windows are
\* those that one worker makes of the events in the order of their updates.
THEOREM SerialCorrect == Spec => []UpdatesAreSerial
<1>1. WindowsInv => UpdatesAreSerial
  BY DEF WindowsInv, UpdatesAreSerial
<1>2. QED
  BY <1>1, WindowsCorrect, PTL

-----------------------------------------------------------------------------
(* The evaluator's copies *)

\* Each step keeps the copies equal to the windows while the evaluator copies:
\* whoever changes a window needs the mutex.
LEMMA CopyStep == IInv /\ CopyInv /\ [Next]_vars => CopyInv'
<1> SUFFICES ASSUME IInv, CopyInv, [Next]_vars PROVE CopyInv'
  OBVIOUS
<1>0. /\ TypeOK /\ MutexInv /\ StartInv
      /\ source_states_ \in [Sources -> Seq(Observations)]
  BY DEF IInv, TypeOK
<1>1. ASSUME UNCHANGED <<evaluator, todo, snapshots, source_states_>>
      PROVE  CopyInv'
  BY <1>1 DEF CopyInv
<1> USE ProcessorAssumption DEF server_vars, queue_vars, worker_vars, state_vars,
      evaluator_vars
<1>2. ASSUME NEW w \in Workers, WorkerStep(w) PROVE CopyInv'
  <2>1. CASE TestStop(w) \/ PopNothing(w) \/ Pop(w)
    BY <1>1, <2>1 DEF TestStop, PopNothing, Pop
  <2>2. CASE LockAndEvict(w) \/ AddAndUnlock(w)
    BY <1>0, <2>2 DEF LockAndEvict, AddAndUnlock, MutexInv, CopyInv
  <2>3. QED
    BY <1>2, <2>1, <2>2 DEF WorkerStep
<1>3. ASSUME LockStates PROVE CopyInv'
  <2>1. DOMAIN snapshots' = {}
    BY <1>3 DEF LockStates
  <2>2. QED
    BY <1>3, <2>1 DEF LockStates, CopyInv
<1>4. ASSUME NEW s \in Sources, CopyState(s) PROVE CopyInv'
  <2>1. /\ DOMAIN snapshots' = DOMAIN snapshots \cup {s}
        /\ todo' \cup DOMAIN snapshots' = todo \cup DOMAIN snapshots
    BY <1>4 DEF CopyState
  <2>2. \A x \in DOMAIN snapshots' : snapshots'[x] = source_states_[x]
    BY <1>4, <2>1 DEF CopyState, CopyInv
  <2>3. QED
    BY <1>4, <2>1, <2>2 DEF CopyState, CopyInv
<1>5. ASSUME EvaluatorTestStop \/ WakeUp \/ UnlockStates \/ RoundEnds PROVE CopyInv'
  BY <1>5 DEF EvaluatorTestStop, WakeUp, UnlockStates, RoundEnds, CopyInv
<1>6. ASSUME NEW s \in Sources, Report(s) PROVE CopyInv'
  BY <1>6 DEF Report, CopyInv
<1>7. ASSUME MainStep PROVE CopyInv'
  BY <1>0, <1>7
     DEF MainStep, StartWorker, StartEvaluator, ServerReturns, Join, CopyInv
<1>8. ASSUME NEW s \in Sources, NEW t \in Timestamps, NEW p \in Payloads,
             Push(s, t, p)
      PROVE  CopyInv'
  BY <1>1, <1>8 DEF Push
<1>9. ASSUME SetStop \/ Tick \/ UNCHANGED vars PROVE CopyInv'
  BY <1>1, <1>9 DEF SetStop, Tick, vars
<1>10. QED
  BY <1>2, <1>3, <1>4, <1>5, <1>6, <1>7, <1>8, <1>9 DEF Next, EvaluatorStep

\* The copies are the windows after the first n updates.
CopiedAfter(n) ==
  \A s \in Sources :
    Replay(n, s) = IF s \in DOMAIN snapshots THEN snapshots[s] ELSE <<>>

\* When the evaluator unlocks, its copies are of the moment.
LEMMA UnlockSnapshot ==
  ASSUME IInv, CopyInv, UpdatesAreSerial, UnlockStates
  PROVE  SnapshotIsOneMoment'
<1>1. /\ evaluator = "copy" /\ todo = {} /\ state_mutex_ \notin Workers
      /\ processed' = processed /\ snapshots' = snapshots
      /\ Len(processed) \in Nat
  BY ProcessorAssumption, LenProperties DEF UnlockStates, IInv, TypeOK, MutexInv
<1>2. CopiedAfter(Len(processed))
  BY <1>1 DEF CopyInv, UpdatesAreSerial, CopiedAfter
<1>3. CopiedAfter(Len(processed))'
  BY <1>1, <1>2 DEF CopiedAfter, Replay
<1>4. Len(processed)' \in 0 .. Len(processed)'
  BY <1>1
<1>5. QED
  BY <1>3, <1>4 DEF SnapshotIsOneMoment, CopiedAfter

\* Each step keeps the moment of the copies: later updates come after it.
LEMMA SnapshotStep ==
  IInv /\ CopyInv /\ UpdatesAreSerial /\ SnapshotIsOneMoment /\ [Next]_vars
    => SnapshotIsOneMoment'
<1> SUFFICES ASSUME IInv, CopyInv, UpdatesAreSerial, SnapshotIsOneMoment, [Next]_vars
             PROVE  SnapshotIsOneMoment'
  OBVIOUS
<1>1. ASSUME UNCHANGED <<evaluator, snapshots, processed>>
      PROVE  SnapshotIsOneMoment'
  BY <1>1 DEF SnapshotIsOneMoment, Replay
<1> USE ProcessorAssumption DEF server_vars, queue_vars, worker_vars, state_vars,
      evaluator_vars
<1>2. ASSUME NEW w \in Workers, AddAndUnlock(w) PROVE SnapshotIsOneMoment'
  <2>1. SUFFICES ASSUME evaluator = "report"
                 PROVE  \E n \in 0 .. Len(processed') : CopiedAfter(n)'
    BY <1>2 DEF AddAndUnlock, SnapshotIsOneMoment, CopiedAfter
  <2>2. PICK n \in 0 .. Len(processed) : CopiedAfter(n)
    BY <2>1 DEF SnapshotIsOneMoment, CopiedAfter
  <2>3. /\ event[w] \in Events /\ processed \in Seq(Events)
        /\ processed' = Append(processed, event[w])
        /\ snapshots' = snapshots
    BY <1>2, HeldEvent DEF AddAndUnlock, IInv, TypeOK
  <2>4. n \in 0 .. Len(processed')
    BY <2>3, LenProperties, AppendProperties
  <2>5. \A s \in Sources : Replay(n, s)' = Replay(n, s)
    BY <2>3, ReplayedPrefix DEF Replay
  <2>6. QED
    BY <2>2, <2>3, <2>4, <2>5 DEF CopiedAfter
<1>3. ASSUME NEW w \in Workers,
             TestStop(w) \/ PopNothing(w) \/ Pop(w) \/ LockAndEvict(w)
      PROVE  SnapshotIsOneMoment'
  BY <1>1, <1>3 DEF TestStop, PopNothing, Pop, LockAndEvict
<1>4. ASSUME UnlockStates PROVE SnapshotIsOneMoment'
  BY <1>4, UnlockSnapshot
<1>5. ASSUME EvaluatorTestStop \/ WakeUp \/ LockStates \/ RoundEnds
      PROVE  SnapshotIsOneMoment'
  BY <1>5 DEF EvaluatorTestStop, WakeUp, LockStates, RoundEnds, SnapshotIsOneMoment
<1>6. ASSUME NEW s \in Sources, CopyState(s) PROVE SnapshotIsOneMoment'
  BY <1>6 DEF CopyState, SnapshotIsOneMoment
<1>7. ASSUME NEW s \in Sources, Report(s) PROVE SnapshotIsOneMoment'
  BY <1>1, <1>7 DEF Report
<1>8. ASSUME MainStep PROVE SnapshotIsOneMoment'
  <2>1. CASE StartEvaluator
    BY <2>1 DEF StartEvaluator, SnapshotIsOneMoment
  <2>2. CASE ServerReturns \/ Join \/ \E w \in Workers : StartWorker(w)
    BY <1>1, <2>2 DEF ServerReturns, Join, StartWorker
  <2>3. QED
    BY <1>8, <2>1, <2>2 DEF MainStep
<1>9. ASSUME NEW s \in Sources, NEW t \in Timestamps, NEW p \in Payloads,
             Push(s, t, p)
      PROVE  SnapshotIsOneMoment'
  BY <1>1, <1>9 DEF Push
<1>10. ASSUME SetStop \/ Tick \/ UNCHANGED vars PROVE SnapshotIsOneMoment'
  BY <1>1, <1>10 DEF SetStop, Tick, vars
<1>11. QED
  BY <1>2, <1>3, <1>4, <1>5, <1>6, <1>7, <1>8, <1>9, <1>10
     DEF Next, WorkerStep, EvaluatorStep

\* What the evaluator scores is the state of all sources at one moment, however
\* many updates have come since.
THEOREM SnapshotCorrect == Spec => []SnapshotIsOneMoment
<1>1. Init => CopyInv /\ SnapshotIsOneMoment
  BY DEF Init, CopyInv, SnapshotIsOneMoment
<1>2. QED
  BY <1>1, CopyStep, SnapshotStep, IInvCorrect, SerialCorrect, PTL DEF Spec

-----------------------------------------------------------------------------
(* The events *)

\* What is in a sequence is its head and what is in its tail.
LEMMA HeadAndTail ==
  ASSUME NEW S, NEW s \in Seq(S), s # <<>>
  PROVE  /\ ToSet(s) = {Head(s)} \cup ToSet(Tail(s))
         /\ Len(Tail(s)) = Len(s) - 1 /\ Len(s) \in Nat
<1>1. /\ Len(s) \in Nat \ {0} /\ Head(s) = s[1]
      /\ DOMAIN s = 1 .. Len(s)
  BY EmptySeq, LenProperties
<1>2. /\ Tail(s) \in Seq(S) /\ Len(Tail(s)) = Len(s) - 1
      /\ \A i \in 1 .. Len(Tail(s)) : Tail(s)[i] = s[i + 1]
  BY HeadTailProperties
<1>3. DOMAIN Tail(s) = 1 .. Len(s) - 1
  BY <1>2, LenProperties
<1>4. ASSUME NEW x \in ToSet(s) PROVE x = Head(s) \/ x \in ToSet(Tail(s))
  <2>1. PICK i \in 1 .. Len(s) : x = s[i]
    BY <1>1 DEF ToSet
  <2>2. CASE i = 1
    BY <1>1, <2>1, <2>2
  <2>3. CASE i # 1
    <3>1. i - 1 \in 1 .. Len(s) - 1 /\ (i - 1) + 1 = i
      BY <1>1, <2>3
    <3>2. Tail(s)[i - 1] = s[i]
      BY <1>2, <3>1
    <3>3. QED
      BY <1>3, <2>1, <3>1, <3>2 DEF ToSet
  <2>4. QED
    BY <2>2, <2>3
<1>5. ASSUME NEW x \in ToSet(Tail(s)) PROVE x \in ToSet(s)
  <2>1. PICK i \in 1 .. Len(s) - 1 : x = Tail(s)[i]
    BY <1>3 DEF ToSet
  <2>2. i + 1 \in 1 .. Len(s) /\ x = s[i + 1]
    BY <1>1, <1>2, <2>1
  <2>3. QED
    BY <1>1, <2>2 DEF ToSet
<1>6. Head(s) \in ToSet(s)
  BY <1>1 DEF ToSet
<1>7. QED
  BY <1>1, <1>2, <1>4, <1>5, <1>6

\* What is in a sequence with an element appended.
LEMMA ToSetAppend ==
  ASSUME NEW S, NEW s \in Seq(S), NEW e \in S
  PROVE  /\ ToSet(Append(s, e)) = ToSet(s) \cup {e}
         /\ Len(Append(s, e)) = Len(s) + 1 /\ Len(s) \in Nat
<1>1. /\ Len(s) \in Nat /\ DOMAIN s = 1 .. Len(s)
      /\ Append(s, e) \in Seq(S) /\ Len(Append(s, e)) = Len(s) + 1
      /\ \A i \in 1 .. Len(s) : Append(s, e)[i] = s[i]
      /\ Append(s, e)[Len(s) + 1] = e
  BY LenProperties, AppendProperties
<1>2. DOMAIN Append(s, e) = 1 .. Len(s) + 1
  BY <1>1, LenProperties
<1>3. \A i \in 1 .. Len(s) + 1 : i \in 1 .. Len(s) \/ i = Len(s) + 1
  BY <1>1
<1>4. QED
  BY <1>1, <1>2, <1>3 DEF ToSet

Held == {event[w] : w \in InHand}

Somewhere == ToSet(queue) \cup Held \cup ToSet(processed)

\* How many workers hold an event is a natural number.
LEMMA InHandFinite == IsFiniteSet(InHand) /\ Cardinality(InHand) \in Nat
<1>1. InHand \subseteq Workers
  BY DEF InHand
<1>2. IsFiniteSet(InHand)
  BY <1>1, ProcessorAssumption, FS_Subset
<1>3. QED
  BY <1>2, FS_CardinalityType

\* A new event is in the queue, under the next number.
LEMMA PushAccounted ==
  ASSUME IInv, EventsAccountedFor, NEW s \in Sources, NEW t \in Timestamps,
         NEW p \in Payloads, Push(s, t, p)
  PROVE  EventsAccountedFor'
<1> DEFINE e == [source_id |-> s, event_id |-> arrived + 1, timestamp |-> t,
                 payload |-> p]
<1>1. /\ queue' = Append(queue, e) /\ arrived' = arrived + 1
      /\ event' = event /\ processed' = processed
      /\ e \in Events /\ queue \in Seq(Events) /\ arrived \in Nat
      /\ Len(processed) \in Nat
  <2>1. queue \in Seq(Events) /\ processed \in Seq(Events) /\ arrived \in 0 .. MaxEvents
    BY DEF IInv, TypeOK
  <2>2. arrived + 1 \in 1 .. MaxEvents
    BY <2>1, ProcessorAssumption DEF Push
  <2>3. e \in Events
    BY <2>2 DEF Events
  <2>4. QED
    BY <2>1, <2>3, LenProperties DEF Push, Queue!Put, worker_vars, state_vars
<1>2. e.event_id = arrived + 1
  OBVIOUS
<1> HIDE DEF e
<1>3. InHand' = InHand /\ Held' = Held
  BY <1>1 DEF InHand, Held
<1>4. /\ ToSet(queue)' = ToSet(queue) \cup {e}
      /\ Len(queue)' = Len(queue) + 1 /\ Len(queue) \in Nat
  BY <1>1, ToSetAppend
<1>5. Somewhere' = Somewhere \cup {e}
  BY <1>1, <1>3, <1>4 DEF Somewhere
<1>6. {x.event_id : x \in Somewhere'} = 1 .. arrived'
  <2>1. {x.event_id : x \in Somewhere} = 1 .. arrived
    BY DEF EventsAccountedFor, Somewhere, Held
  <2>2. {x.event_id : x \in Somewhere'} = (1 .. arrived) \cup {arrived + 1}
    BY <1>2, <1>5, <2>1
  <2>3. QED
    BY <1>1, <2>2
<1>7. Len(queue)' + Cardinality(InHand)' + Len(processed)' = arrived'
  BY <1>1, <1>3, <1>4, InHandFinite DEF EventsAccountedFor
<1>8. QED
  BY <1>6, <1>7 DEF EventsAccountedFor, Somewhere, Held

\* An event that a worker takes goes from the queue to its hand.
LEMMA PopAccounted ==
  ASSUME IInv, EventsAccountedFor, NEW w \in Workers, Pop(w)
  PROVE  EventsAccountedFor'
<1>1. /\ queue \in Seq(Events) /\ queue # <<>> /\ queue' = Tail(queue)
      /\ event \in [Workers -> Events \cup {NoEvent}]
      /\ event' = [event EXCEPT ![w] = Head(queue)]
      /\ arrived' = arrived /\ processed' = processed
      /\ worker[w] = "pop"
      /\ Len(processed) \in Nat /\ arrived \in Nat
  <2>1. queue \in Seq(Events) /\ processed \in Seq(Events) /\ arrived \in 0 .. MaxEvents
    BY DEF IInv, TypeOK
  <2>2. QED
    BY <2>1, LenProperties
       DEF Pop, Queue!Take, server_vars, state_vars, IInv, TypeOK
<1>2. Head(queue) # NoEvent /\ event[w] = NoEvent
  <2>1. Head(queue) \in Events
    BY <1>1, HeadTailProperties
  <2>2. QED
    BY <1>1, <2>1, EventFields DEF IInv, HoldInv
<1>3. InHand' = InHand \cup {w} /\ w \notin InHand
  BY <1>1, <1>2 DEF InHand
<1>4. Held' = Held \cup {Head(queue)}
  <2>1. event'[w] = Head(queue) /\ \A v \in InHand : event'[v] = event[v]
    BY <1>1, <1>3 DEF InHand
  <2>2. QED
    BY <1>3, <2>1 DEF Held
<1>5. /\ ToSet(queue) = {Head(queue)} \cup ToSet(queue)'
      /\ Len(queue)' = Len(queue) - 1 /\ Len(queue) \in Nat
  BY <1>1, HeadAndTail
<1>6. Somewhere' = Somewhere
  BY <1>1, <1>4, <1>5 DEF Somewhere
<1>7. Cardinality(InHand)' = Cardinality(InHand) + 1
  BY <1>3, InHandFinite, FS_AddElement
<1>8. Len(queue)' + Cardinality(InHand)' + Len(processed)' = arrived'
  <2>1. Len(queue) + Cardinality(InHand) + Len(processed) = arrived
    BY DEF EventsAccountedFor
  <2>2. arrived' = arrived /\ Len(processed)' = Len(processed) /\ Len(processed) \in Nat
    BY <1>1
  <2>3. QED
    BY <1>5, <1>7, <2>1, <2>2, InHandFinite
<1>9. {x.event_id : x \in Somewhere'} = 1 .. arrived'
  BY <1>1, <1>6 DEF EventsAccountedFor, Somewhere, Held
<1>10. QED
  BY <1>8, <1>9 DEF EventsAccountedFor, Somewhere, Held

\* An event that is applied leaves the worker's hand.
LEMMA AddAccounted ==
  ASSUME IInv, EventsAccountedFor, NEW w \in Workers, AddAndUnlock(w)
  PROVE  EventsAccountedFor'
<1>1. /\ queue' = queue /\ arrived' = arrived
      /\ event \in [Workers -> Events \cup {NoEvent}]
      /\ event' = [event EXCEPT ![w] = NoEvent]
      /\ processed \in Seq(Events) /\ processed' = Append(processed, event[w])
      /\ Len(queue) \in Nat /\ arrived \in Nat
  <2>1. queue \in Seq(Events) /\ processed \in Seq(Events) /\ arrived \in 0 .. MaxEvents
    BY DEF IInv, TypeOK
  <2>2. QED
    BY <2>1, LenProperties
       DEF AddAndUnlock, server_vars, queue_vars, IInv, TypeOK
<1>2. event[w] \in Events /\ event[w] # NoEvent
  BY HeldEvent, EventFields DEF AddAndUnlock
<1>3. InHand' = InHand \ {w} /\ w \in InHand
  BY <1>1, <1>2 DEF InHand
<1>4. Held = Held' \cup {event[w]}
  <2>1. \A v \in InHand' : event'[v] = event[v]
    BY <1>1, <1>3 DEF InHand
  <2>2. QED
    BY <1>3, <2>1 DEF Held
<1>5. /\ ToSet(processed)' = ToSet(processed) \cup {event[w]}
      /\ Len(processed)' = Len(processed) + 1 /\ Len(processed) \in Nat
  BY <1>1, <1>2, ToSetAppend
<1>6. Somewhere' = Somewhere
  BY <1>1, <1>4, <1>5 DEF Somewhere
<1>7. Cardinality(InHand)' = Cardinality(InHand) - 1
  BY <1>3, InHandFinite, FS_RemoveElement
<1>8. Len(queue)' + Cardinality(InHand)' + Len(processed)' = arrived'
  <2>1. Len(queue) + Cardinality(InHand) + Len(processed) = arrived
    BY DEF EventsAccountedFor
  <2>2. arrived' = arrived /\ Len(queue)' = Len(queue) /\ Len(queue) \in Nat
    BY <1>1
  <2>3. QED
    BY <1>5, <1>7, <2>1, <2>2, InHandFinite
<1>9. {x.event_id : x \in Somewhere'} = 1 .. arrived'
  BY <1>1, <1>6 DEF EventsAccountedFor, Somewhere, Held
<1>10. QED
  BY <1>8, <1>9 DEF EventsAccountedFor, Somewhere, Held

\* Each step keeps every event in one place.
LEMMA AccountedStep ==
  IInv /\ EventsAccountedFor /\ [Next]_vars => EventsAccountedFor'
<1> SUFFICES ASSUME IInv, EventsAccountedFor, [Next]_vars PROVE EventsAccountedFor'
  OBVIOUS
<1>1. ASSUME UNCHANGED <<queue, event, processed, arrived>>
      PROVE  EventsAccountedFor'
  BY <1>1 DEF EventsAccountedFor, InHand
<1> USE DEF server_vars, queue_vars, worker_vars, state_vars, evaluator_vars
<1>2. ASSUME NEW w \in Workers, WorkerStep(w) PROVE EventsAccountedFor'
  <2>1. CASE Pop(w) \/ AddAndUnlock(w)
    BY <2>1, PopAccounted, AddAccounted
  <2>2. CASE TestStop(w) \/ PopNothing(w) \/ LockAndEvict(w)
    BY <1>1, <2>2 DEF TestStop, PopNothing, LockAndEvict
  <2>3. QED
    BY <1>2, <2>1, <2>2 DEF WorkerStep
<1>3. ASSUME EvaluatorStep PROVE EventsAccountedFor'
  BY <1>1, <1>3 DEF EvaluatorStep, EvaluatorTestStop, WakeUp, LockStates, CopyState,
                    UnlockStates, Report, RoundEnds
<1>4. ASSUME MainStep PROVE EventsAccountedFor'
  BY <1>1, <1>4 DEF MainStep, StartWorker, StartEvaluator, ServerReturns, Join
<1>5. ASSUME NEW s \in Sources, NEW t \in Timestamps, NEW p \in Payloads,
             Push(s, t, p)
      PROVE  EventsAccountedFor'
  BY <1>5, PushAccounted
<1>6. ASSUME SetStop \/ Tick \/ UNCHANGED vars PROVE EventsAccountedFor'
  BY <1>1, <1>6 DEF SetStop, Tick, vars
<1>7. QED
  BY <1>2, <1>3, <1>4, <1>5, <1>6 DEF Next

\* No event is lost and none is applied twice, from its arrival through shutdown.
THEOREM AccountedCorrect == Spec => []EventsAccountedFor
<1>1. Init => EventsAccountedFor
  <2> SUFFICES ASSUME Init PROVE EventsAccountedFor
    OBVIOUS
  <2>1. InHand = {} /\ Cardinality({}) = 0
    BY FS_EmptySet DEF Init, InHand
  <2>2. ToSet(queue) = {} /\ ToSet(processed) = {} /\ Len(<<>>) = 0
    BY EmptySeq DEF Init, ToSet
  <2>3. 1 .. arrived = {}
    BY DEF Init
  <2>4. QED
    BY <2>1, <2>2, <2>3 DEF Init, EventsAccountedFor
<1>2. QED
  BY <1>1, AccountedStep, IInvCorrect, PTL DEF Spec

=============================================================================
