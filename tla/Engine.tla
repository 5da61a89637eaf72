------------------------------- MODULE Engine -------------------------------
(***************************************************************************)
(* edge-engine/main.cpp: TcpServer and EventProcessor in one process.  The *)
(* main thread starts the processor's threads, runs the server and, when   *)
(* the server returns, joins the threads.  The two share the queue and the *)
(* stop flag.                                                              *)
(*                                                                         *)
(* Each step is a step of one component, or a line the server hands on:    *)
(* then it is a step of both.                                              *)
(***************************************************************************)
EXTENDS Integers, Sequences, FiniteSets

CONSTANTS
  Workers, Sources, Payloads, WindowSize, WINDOW_SECONDS,
  MaxEvents, MaxTime, MaxSkew, Nobody, NoEvent,             \* EventProcessor
  Clients, Garbage, Newline, Scripts, BufferSize, Backlog,
  Windows, NoClient                                         \* TcpServer

VARIABLES
  stop_flag,
  main, arrived, now, queue, popped, worker, event, source_states_,
  state_mutex_, evaluator, snapshots, todo, evidence, processed,
  server, backlog, client_fd, pending_line, event_queue_, client, unsent, wire,
  received

Processor == INSTANCE EventProcessor

\* The lines that parse carry everything of an event but its event_id, which
\* the processor's model makes up.
LineEvents ==
  [source_id : Sources, timestamp : Processor!Timestamps, payload : Payloads]

ASSUME EngineAssumption ==
  /\ MaxEvents \in Nat
  /\ NoEvent \notin Processor!Events
  /\ Garbage \notin LineEvents
  /\ Newline \notin LineEvents \cup {Garbage}
  /\ Scripts \in [Clients -> Seq(LineEvents \cup {Garbage, Newline})]
  /\ BufferSize \in Nat \ {0} /\ Backlog \in Nat \ {0}
  /\ Windows \in BOOLEAN
  /\ NoClient \notin Clients

Server == INSTANCE TcpServer WITH
  Events <- LineEvents, Bodies <- LineEvents \cup {Garbage}

server_only == <<server, backlog, client_fd, pending_line, event_queue_, client,
                 unsent, wire, received>>
processor_only == <<arrived, now, queue, popped, worker, event, source_states_,
                    state_mutex_, evaluator, snapshots, todo, evidence,
                    processed>>
vars == <<stop_flag, main, server_only, processor_only>>

Init == Server!Init /\ Processor!Init

\* `processor.start()`, one thread after another.
StartProcessor ==
  /\ Processor!StartEvaluator \/ \E w \in Workers : Processor!StartWorker(w)
  /\ UNCHANGED server_only

\* Mutant: the event gets the time of its arrival.
PushesArrivalTime ==
  /\ main = "serving"
  /\ Server!PushLine
  /\ LET event_pushed == Server!NextLine[1]
     IN  Processor!Push(event_pushed.source_id, now, event_pushed.payload)

\* A line becomes an event in the queue.
ServerPushes ==
  /\ main = "serving"
  /\ Server!PushLine
  /\ LET event_pushed == Server!NextLine[1]
     IN  Processor!Push(event_pushed.source_id, event_pushed.timestamp,
                        event_pushed.payload)

\* `server.start()`, anything else it does.
ServerRuns ==
  /\ main = "serving"
  /\ Server!ServerRuns
  /\ UNCHANGED <<main, processor_only>>

\* Mutant: the two calls swapped, so that join() begins before the server ends.
JoinWithoutServer ==
  /\ main = "serving"
  /\ main' = "joining"
  /\ UNCHANGED <<stop_flag, processor_only, server_only>>

\* `server.start()` has returned; `processor.join()` begins.
ServerReturns ==
  /\ main = "serving"
  /\ server = "returned"
  /\ main' = "joining"
  /\ UNCHANGED <<stop_flag, processor_only, server_only>>

ProcessorJoins == Processor!Join /\ UNCHANGED server_only

ProcessorRuns ==
  /\ Processor!EvaluatorStep \/ \E w \in Workers : Processor!WorkerStep(w)
  /\ UNCHANGED server_only

ClientActs ==
  /\ main = "serving"
  /\ \E c \in Clients : Server!ClientStep(c)
  /\ UNCHANGED <<main, processor_only>>

\* handle_sigint().
Interrupt == Processor!SetStop /\ UNCHANGED server_only

ClockTicks == Processor!Tick /\ UNCHANGED server_only

MainStep ==
  StartProcessor \/ ServerPushes \/ ServerRuns \/ ServerReturns \/ ProcessorJoins

Next == MainStep \/ ProcessorRuns \/ ClientActs \/ Interrupt \/ ClockTicks

Spec == Init /\ [][Next]_vars

\* As for the two components.
FairSpec ==
  /\ Spec
  /\ WF_vars(MainStep)
  /\ \A w \in Workers :
       /\ WF_vars(Processor!WorkerStep(w) /\ UNCHANGED server_only)
       /\ SF_vars(Processor!LockAndEvict(w) /\ UNCHANGED server_only)
  /\ WF_vars(Processor!EvaluatorStep /\ UNCHANGED server_only)
  /\ SF_vars(Processor!LockStates /\ UNCHANGED server_only)

-----------------------------------------------------------------------------
(* The parts together *)

\* The server does to the processor what EventProcessor assumes of it: it
\* pushes events while it runs, and returns only when the stop flag is set, and
\* then it does.  Every engine behaviour is one of the processor's, as fair.
ServerIsAsAssumed == Processor!FairSpec

\* What stands on the line of an event.
LineOf(e) ==
  [source_id |-> e.source_id, timestamp |-> e.timestamp, payload |-> e.payload]

\* There is no evidence against a source but what was received: the event with
\* number n that a worker has applied says what the n-th line says that the server
\* has pushed, and that line was read whole, its newline included, from the
\* connection it is said to come from, however many workers and clients there are.
AppliedWasReceived ==
  \A i \in DOMAIN processed :
    /\ processed[i].event_id \in DOMAIN event_queue_
    /\ LET pushed == event_queue_[processed[i].event_id]
           read == SubSeq(Scripts[pushed[1]], 1, received[pushed[1]])
       IN  /\ pushed[2] = LineOf(processed[i])
           /\ \E k \in Server!EventPositions(read) : read[k] = pushed[2]

\* Whatever the clients do, an event the server has pushed is applied or the
\* engine stops: nothing between the two loses it.
PushedIsProcessed ==
  \A n \in 1 .. MaxEvents :
    Len(event_queue_) >= n ~> (Len(processed) >= n \/ stop_flag)

\* README.md, Multithreading / Networking: "Shutdown uses one shared atomic stop
\* flag and explicit thread joins".  Once the flag is set, or the server is done
\* however it came to that, all threads return and main() gets through the joins.
EngineExits == (stop_flag \/ server = "returned") ~> main = "returned"

\* With real clients and a real server in front of it, the processor still
\* reports each source that stays alarming, unless the engine stops.
AlarmingSourceIsReported == Processor!AlarmingSourceIsReported

=============================================================================
