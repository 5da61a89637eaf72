--------------------------- MODULE EventProcessor ---------------------------
(***************************************************************************)
(* edge-engine/src/processing/EventProcessor.cpp under                     *)
(* edge-engine/main.cpp: worker threads take events from the queue and     *)
(* apply them to the windows of their sources; an evaluator thread copies  *)
(* all windows once a second, scores the copies and prints evidence; the   *)
(* main thread starts them, serves connections and joins them.             *)
(*                                                                         *)
(* state_mutex_ is held over several steps, so that leaving it out would   *)
(* show.  The queue is the abstract channel that ThreadSafeQueue refines.  *)
(* The server is what it does to the queue: any event at any time.         *)
(***************************************************************************)
EXTENDS AnomalyScorer, FiniteSets

CONSTANTS
  Workers,      \* the threads of workers_
  Sources,      \* the values of source_id
  Payloads,     \* records [payment_failed, fingerprint] (tokens are not scored)
  MaxEvents,    \* bound: how many events arrive
  MaxTime,      \* bound: how far the clock runs
  MaxSkew,      \* how far an event's timestamp may be from the clock
  Nobody,       \* the owner of state_mutex_ while it is free
  NoEvent       \* the local `event` of a worker that holds none

Evaluator == "evaluator"

ASSUME ProcessorAssumption ==
  /\ Workers # {} /\ IsFiniteSet(Workers)
  /\ MaxEvents \in Nat /\ MaxTime \in Nat /\ MaxSkew \in Nat
  /\ Evaluator \notin Workers
  /\ Nobody \notin Workers \cup {Evaluator}

Timestamps == -MaxSkew .. MaxTime + MaxSkew

Events ==
  [source_id : Sources, event_id : 1 .. MaxEvents, timestamp : Timestamps,
   payload : Payloads]

ASSUME NoEventAssumption == NoEvent \notin Events

Observations ==
  { [timestamp |-> e.timestamp, payment_failed |-> e.payload.payment_failed,
     fingerprint |-> e.payload.fingerprint] : e \in Events }

VARIABLES
  main,           \* where the main thread is
  stop_flag,
  arrived,        \* how many events the server has pushed
  now,            \* the wall clock, in seconds
  queue,          \* event_queue_
  popped,         \* history: the events taken, in order
  worker,         \* where each worker is
  event,          \* the worker's local of that name
  source_states_, \* the windows; a source without an entry has an empty one
  state_mutex_,
  evaluator,      \* where the evaluator is
  snapshots,      \* its copies: a function on the sources copied so far
  todo,           \* the sources still to copy, then those still to report
  evidence,       \* the lines printed since the last snapshot
  processed       \* history: the events in the order they were applied

server_vars == <<arrived, now>>
queue_vars == <<queue, popped>>
worker_vars == <<worker, event>>
state_vars == <<source_states_, state_mutex_, processed>>
evaluator_vars == <<evaluator, snapshots, todo, evidence>>

vars == <<main, stop_flag, server_vars, queue_vars, worker_vars, state_vars,
          evaluator_vars>>

Queue ==
  INSTANCE FifoChannel WITH
    Items <- Events, chan <- queue, taken <- popped, open <- ~stop_flag

\* What a line of evidence is about; the scores in it follow from the window.
Evidence ==
  [source_id : Sources, timestamp : 0 .. MaxTime, window : Seq(Observations),
   classification : {"SUSPICIOUS", "ATTACK"}]

TypeOK ==
  /\ main \in {"starting", "serving", "joining", "returned"}
  /\ stop_flag \in BOOLEAN
  /\ arrived \in 0 .. MaxEvents
  /\ now \in 0 .. MaxTime
  /\ queue \in Seq(Events)
  /\ popped \in Seq(Events)
  /\ worker \in [Workers -> {"new", "loop", "pop", "lock", "add", "returned"}]
  /\ event \in [Workers -> Events \cup {NoEvent}]
  /\ source_states_ \in [Sources -> Seq(Observations)]
  /\ state_mutex_ \in Workers \cup {Evaluator, Nobody}
  /\ evaluator \in {"new", "loop", "sleep", "lock", "copy", "report", "returned"}
  /\ DOMAIN snapshots \subseteq Sources
  /\ \A s \in DOMAIN snapshots : snapshots[s] \in Seq(Observations)
  /\ todo \subseteq Sources
  /\ \A line \in evidence :
       /\ line.window \in Seq(Observations)
       /\ line \in [source_id : Sources, timestamp : 0 .. MaxTime,
                    window : {line.window},
                    classification : {"SUSPICIOUS", "ATTACK"}]
  /\ processed \in Seq(Events)

Init ==
  /\ main = "starting"
  /\ stop_flag = FALSE
  /\ arrived = 0
  /\ now = 0
  /\ queue = <<>>
  /\ popped = <<>>
  /\ worker = [w \in Workers |-> "new"]
  /\ event = [w \in Workers |-> NoEvent]
  /\ source_states_ = [s \in Sources |-> <<>>]
  /\ state_mutex_ = Nobody
  /\ evaluator = "new"
  /\ snapshots = <<>>
  /\ todo = {}
  /\ evidence = {}
  /\ processed = <<>>

-----------------------------------------------------------------------------
(* The main thread, the server it runs, and the world around it *)

\* EventProcessor::start(): the workers first.
StartWorker(w) ==
  /\ main = "starting"
  /\ worker[w] = "new"
  /\ worker' = [worker EXCEPT ![w] = "loop"]
  /\ UNCHANGED <<main, stop_flag, server_vars, queue_vars, event, state_vars,
                 evaluator_vars>>

\* Then the evaluator, after which main() enters TcpServer::start().
StartEvaluator ==
  /\ main = "starting"
  /\ \A w \in Workers : worker[w] # "new"
  /\ evaluator' = "loop"
  /\ main' = "serving"
  /\ UNCHANGED <<stop_flag, server_vars, queue_vars, worker_vars, state_vars,
                 snapshots, todo, evidence>>

\* The server has parsed a line and pushes the event.  It may do so after the
\* stop flag is set: it looks at the flag between two reads, not two lines.
Push(s, t, p) ==
  /\ main = "serving"
  /\ arrived < MaxEvents
  /\ t \in now - MaxSkew .. now + MaxSkew
  /\ arrived' = arrived + 1
  /\ UNCHANGED <<main, stop_flag, now, worker_vars, state_vars, evaluator_vars>>
  /\ Queue!Put([source_id |-> s, event_id |-> arrived + 1, timestamp |-> t,
                payload |-> p])

\* TcpServer::start() returns.
ServerReturns ==
  /\ main = "serving"
  /\ stop_flag
  /\ main' = "joining"
  /\ UNCHANGED <<stop_flag, server_vars, queue_vars, worker_vars, state_vars,
                 evaluator_vars>>

\* EventProcessor::join() waits for each thread in turn, then main() returns.
Join ==
  /\ main = "joining"
  /\ \A w \in Workers : worker[w] = "returned"
  /\ evaluator = "returned"
  /\ main' = "returned"
  /\ UNCHANGED <<stop_flag, server_vars, queue_vars, worker_vars, state_vars,
                 evaluator_vars>>

\* handle_sigint(), or the server giving up.
SetStop ==
  /\ main # "returned"
  /\ ~stop_flag
  /\ stop_flag' = TRUE
  /\ UNCHANGED <<main, server_vars, queue_vars, worker_vars, state_vars,
                 evaluator_vars>>

Tick ==
  /\ now < MaxTime
  /\ now' = now + 1
  /\ UNCHANGED <<main, stop_flag, arrived, queue_vars, worker_vars, state_vars,
                 evaluator_vars>>

-----------------------------------------------------------------------------
(* process_events() *)

TestStop(w) ==
  /\ worker[w] = "loop"
  /\ worker' = [worker EXCEPT ![w] = IF stop_flag THEN "returned" ELSE "pop"]
  /\ UNCHANGED <<main, stop_flag, server_vars, queue_vars, event, state_vars,
                 evaluator_vars>>

\* Mutant: the stop flag is looked at again between the pop and the update.
PopAndTestStop(w) ==
  /\ worker[w] = "pop"
  /\ UNCHANGED <<main, stop_flag, server_vars, state_vars, evaluator_vars>>
  /\ Queue!Take
  /\ IF stop_flag
     THEN /\ worker' = [worker EXCEPT ![w] = "returned"]
          /\ UNCHANGED event
     ELSE /\ worker' = [worker EXCEPT ![w] = "lock"]
          /\ event' = [event EXCEPT ![w] = Head(queue)]

Pop(w) ==
  /\ worker[w] = "pop"
  /\ UNCHANGED <<main, stop_flag, server_vars, state_vars, evaluator_vars>>
  /\ Queue!Take
  /\ event' = [event EXCEPT ![w] = Head(queue)]
  /\ worker' = [worker EXCEPT ![w] = "lock"]

\* wait_and_pop() gives up after 100 ms, or because of the stop flag.
PopNothing(w) ==
  /\ worker[w] = "pop"
  /\ queue = <<>>
  /\ worker' = [worker EXCEPT ![w] = "loop"]
  /\ UNCHANGED <<main, stop_flag, server_vars, queue_vars, event, state_vars,
                 evaluator_vars>>

Observation(e) ==
  [timestamp |-> e.timestamp, payment_failed |-> e.payload.payment_failed,
   fingerprint |-> e.payload.fingerprint]

\* Mutant: the lock_guard left out.
EvictUnlocked(w) ==
  /\ worker[w] = "lock"
  /\ source_states_' =
       [source_states_ EXCEPT ![event[w].source_id] =
          EvictOlderThan(@, event[w].timestamp)]
  /\ worker' = [worker EXCEPT ![w] = "add"]
  /\ UNCHANGED <<main, stop_flag, server_vars, queue_vars, event, state_mutex_,
                 processed, evaluator_vars>>

\* source_states_[event->source_id] makes the entry when there is none.
LockAndEvict(w) ==
  /\ worker[w] = "lock"
  /\ state_mutex_ = Nobody
  /\ state_mutex_' = w
  /\ source_states_' =
       [source_states_ EXCEPT ![event[w].source_id] =
          EvictOlderThan(@, event[w].timestamp)]
  /\ worker' = [worker EXCEPT ![w] = "add"]
  /\ UNCHANGED <<main, stop_flag, server_vars, queue_vars, event, processed,
                 evaluator_vars>>

\* Mutant: the lock outlives its scope.
AddStillLocked(w) ==
  /\ worker[w] = "add"
  /\ source_states_' =
       [source_states_ EXCEPT ![event[w].source_id] =
          AddEvent(@, Observation(event[w]))]
  /\ processed' = Append(processed, event[w])
  /\ event' = [event EXCEPT ![w] = NoEvent]
  /\ worker' = [worker EXCEPT ![w] = "loop"]
  /\ UNCHANGED <<main, stop_flag, server_vars, queue_vars, state_mutex_,
                 evaluator_vars>>

AddAndUnlock(w) ==
  /\ worker[w] = "add"
  /\ source_states_' =
       [source_states_ EXCEPT ![event[w].source_id] =
          AddEvent(@, Observation(event[w]))]
  /\ state_mutex_' = Nobody
  /\ processed' = Append(processed, event[w])
  /\ event' = [event EXCEPT ![w] = NoEvent]
  /\ worker' = [worker EXCEPT ![w] = "loop"]
  /\ UNCHANGED <<main, stop_flag, server_vars, queue_vars, evaluator_vars>>

-----------------------------------------------------------------------------
(* evaluate_periodically() *)

EvaluatorTestStop ==
  /\ evaluator = "loop"
  /\ evaluator' = IF stop_flag THEN "returned" ELSE "sleep"
  /\ UNCHANGED <<main, stop_flag, server_vars, queue_vars, worker_vars,
                 state_vars, snapshots, todo, evidence>>

\* After a second of sleep the flag is tested again.
WakeUp ==
  /\ evaluator = "sleep"
  /\ evaluator' = IF stop_flag THEN "returned" ELSE "lock"
  /\ UNCHANGED <<main, stop_flag, server_vars, queue_vars, worker_vars,
                 state_vars, snapshots, todo, evidence>>

\* Mutant: the map is copied without the lock.
CopyUnlocked ==
  /\ evaluator = "lock"
  /\ evaluator' = "copy"
  /\ snapshots' = <<>>
  /\ todo' = {s \in Sources : source_states_[s] # <<>>}
  /\ evidence' = {}
  /\ UNCHANGED <<main, stop_flag, server_vars, queue_vars, worker_vars, state_vars>>

LockStates ==
  /\ evaluator = "lock"
  /\ state_mutex_ = Nobody
  /\ state_mutex_' = Evaluator
  /\ evaluator' = "copy"
  /\ snapshots' = <<>>
  /\ todo' = {s \in Sources : source_states_[s] # <<>>}
  /\ evidence' = {}
  /\ UNCHANGED <<main, stop_flag, server_vars, queue_vars, worker_vars,
                 source_states_, processed>>

CopyState(s) ==
  /\ evaluator = "copy"
  /\ s \in todo
  /\ snapshots' = [copied \in DOMAIN snapshots \cup {s} |->
                     IF copied = s THEN source_states_[s] ELSE snapshots[copied]]
  /\ todo' = todo \ {s}
  /\ UNCHANGED <<main, stop_flag, server_vars, queue_vars, worker_vars,
                 state_vars, evaluator, evidence>>

UnlockStates ==
  /\ evaluator = "copy"
  /\ todo = {}
  /\ state_mutex_' = Nobody
  /\ todo' = DOMAIN snapshots
  /\ evaluator' = "report"
  /\ UNCHANGED <<main, stop_flag, server_vars, queue_vars, worker_vars,
                 source_states_, processed, snapshots, evidence>>

Line(s, classification) ==
  [source_id |-> s, timestamp |-> now, window |-> snapshots[s],
   classification |-> classification]

\* Mutant: the `continue` left out.
ReportAny(s) ==
  /\ evaluator = "report"
  /\ s \in todo
  /\ \E c \in Classifications(snapshots[s]) : evidence' = evidence \cup {Line(s, c)}
  /\ todo' = todo \ {s}
  /\ UNCHANGED <<main, stop_flag, server_vars, queue_vars, worker_vars,
                 state_vars, evaluator, snapshots>>

\* Mutant: `continue` for a SUSPICIOUS source as well.
ReportAttack(s) ==
  /\ evaluator = "report"
  /\ s \in todo
  /\ \E c \in Classifications(snapshots[s]) :
       evidence' = IF c = "ATTACK" THEN evidence \cup {Line(s, c)} ELSE evidence
  /\ todo' = todo \ {s}
  /\ UNCHANGED <<main, stop_flag, server_vars, queue_vars, worker_vars,
                 state_vars, evaluator, snapshots>>

\* `continue` for a NORMAL source, a line of JSON for any other.
Report(s) ==
  /\ evaluator = "report"
  /\ s \in todo
  /\ \E c \in Classifications(snapshots[s]) :
       evidence' = IF c \in {"SUSPICIOUS", "ATTACK"}
                   THEN evidence \cup {Line(s, c)} ELSE evidence
  /\ todo' = todo \ {s}
  /\ UNCHANGED <<main, stop_flag, server_vars, queue_vars, worker_vars,
                 state_vars, evaluator, snapshots>>

RoundEnds ==
  /\ evaluator = "report"
  /\ todo = {}
  /\ evaluator' = "loop"
  /\ UNCHANGED <<main, stop_flag, server_vars, queue_vars, worker_vars,
                 state_vars, snapshots, todo, evidence>>

-----------------------------------------------------------------------------
MainStep == StartEvaluator \/ ServerReturns \/ Join \/ \E w \in Workers : StartWorker(w)

WorkerStep(w) ==
  TestStop(w) \/ Pop(w) \/ PopNothing(w) \/ LockAndEvict(w) \/ AddAndUnlock(w)

EvaluatorStep ==
  \/ EvaluatorTestStop \/ WakeUp \/ LockStates \/ UnlockStates \/ RoundEnds
  \/ \E s \in Sources : CopyState(s) \/ Report(s)

Next ==
  \/ MainStep
  \/ \E s \in Sources, t \in Timestamps, p \in Payloads : Push(s, t, p)
  \/ SetStop
  \/ Tick
  \/ \E w \in Workers : WorkerStep(w)
  \/ EvaluatorStep

\* Threads run; who waits for a mutex gets it in the end, and so does a worker
\* who waits for an event while events keep coming.  Nothing says that events
\* arrive, that the stop flag is set, or that the clock moves.
Fairness ==
  /\ WF_vars(MainStep)
  /\ \A w \in Workers : WF_vars(WorkerStep(w)) /\ SF_vars(LockAndEvict(w))
  /\ WF_vars(EvaluatorStep) /\ SF_vars(LockStates)

Spec == Init /\ [][Next]_vars
FairSpec == Spec /\ Fairness

-----------------------------------------------------------------------------
(* The events *)

InHand == {w \in Workers : event[w] # NoEvent}

\* Every event pushed is in exactly one place: in the queue, in the hands of
\* one worker, or applied to its source's window, once.  This holds through
\* shutdown as well: a worker that has taken an event does not leave with it.
EventsAccountedFor ==
  LET places == [queued |-> ToSet(queue), held |-> {event[w] : w \in InHand},
                 applied |-> ToSet(processed)]
      all == places.queued \cup places.held \cup places.applied
  IN  /\ {e.event_id : e \in all} = 1 .. arrived
      /\ Len(queue) + Cardinality(InHand) + Len(processed) = arrived

\* What applying one event makes of the window of a source.
Applied(window, e, s) ==
  IF e.source_id = s
  THEN AddEvent(EvictOlderThan(window, e.timestamp), Observation(e))
  ELSE window

\* The windows of a source as one worker makes them that processes these events
\* one after another: the window after the first n of them, for each n.
Replayed(events, s) ==
  LET window[n \in 0 .. Len(events)] ==
        IF n = 0 THEN <<>> ELSE Applied(window[n - 1], events[n], s)
  IN  window

Replay(n, s) == Replayed(processed, s)[n]

\* Whatever workers do at the same time, the windows are those of one worker
\* that processed the same events one after another.
UpdatesAreSerial ==
  state_mutex_ \notin Workers =>
    \A s \in Sources : source_states_[s] = Replay(Len(processed), s)

\* What the evaluator scores is the state of all sources at one moment: no
\* window caught between eviction and append, no two from different moments.
SnapshotIsOneMoment ==
  evaluator = "report" =>
    \E n \in 0 .. Len(processed) :
      \A s \in Sources :
        Replay(n, s) = IF s \in DOMAIN snapshots THEN snapshots[s] ELSE <<>>

-----------------------------------------------------------------------------
(* Progress *)

\* A source whose window cannot be NORMAL is reported, unless the engine stops
\* or the window changes first.
AlarmingSourceIsReported ==
  \A s \in Sources :
    "NORMAL" \notin Classifications(source_states_[s])
      ~> \/ stop_flag
         \/ "NORMAL" \in Classifications(source_states_[s])
         \/ \E line \in evidence : line.source_id = s

-----------------------------------------------------------------------------
(* What the documentation says of the evidence *)

\* README.md, Detection Signals: "request count in the 60-second window".
EvidenceFitsWindow ==
  \A line \in evidence :
    \A o1, o2 \in ToSet(line.window) : o1.timestamp - o2.timestamp <= WindowSize

\* docs/detection_spec.md, Detection Window: "a sliding window of recent
\* events".  The line says which WindowSize seconds: the last, until now.
EvidenceIsRecent ==
  \A line \in evidence :
    \A o \in ToSet(line.window) : line.timestamp - o.timestamp <= WindowSize

=============================================================================
