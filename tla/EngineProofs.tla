---------------------------- MODULE EngineProofs ----------------------------
(***************************************************************************)
(* The engine behaves to its server and to its processor as each of the    *)
(* two models assumes, for any threads, clients, streams and bounds: what  *)
(* is proved of either alone holds of the process.  With what              *)
(* TcpServerProofs shows of the server, an event that a worker applies is  *)
(* one that a client has sent.                                             *)
(***************************************************************************)
EXTENDS Engine, SequenceTheorems, TLAPS

\* Threads of the processor leave the server alone, and the flag its loops test.
LEMMA ProcessorLeavesServer ==
  ASSUME StartProcessor \/ ProcessorJoins \/ ProcessorRuns \/ ClockTicks
  PROVE  UNCHANGED <<stop_flag, server_only>>
<1>1. CASE StartProcessor \/ ProcessorJoins \/ ClockTicks
  BY <1>1 DEF StartProcessor, ProcessorJoins, ClockTicks, Processor!StartEvaluator,
              Processor!StartWorker, Processor!Join, Processor!Tick
<1>2. ASSUME Processor!EvaluatorStep, UNCHANGED server_only
      PROVE  UNCHANGED <<stop_flag, server_only>>
  BY <1>2 DEF Processor!EvaluatorStep, Processor!EvaluatorTestStop, Processor!WakeUp,
              Processor!LockStates, Processor!CopyState, Processor!UnlockStates,
              Processor!Report, Processor!RoundEnds
<1>3. ASSUME NEW w \in Workers, Processor!WorkerStep(w), UNCHANGED server_only
      PROVE  UNCHANGED <<stop_flag, server_only>>
  BY <1>3 DEF Processor!WorkerStep, Processor!TestStop, Processor!Pop,
              Processor!PopNothing, Processor!LockAndEvict, Processor!AddAndUnlock
<1>4. QED
  BY <1>1, <1>2, <1>3 DEF ProcessorRuns

\* Every step of the engine is a step of the server or leaves it as it is.
LEMMA ServerStutters == [Next]_vars => [Server!Next]_(Server!vars)
<1> SUFFICES ASSUME [Next]_vars PROVE [Server!Next]_(Server!vars)
  OBVIOUS
<1> USE DEF server_only, Server!vars, Server!start_vars, Server!connection_vars,
            Server!client_vars
<1>1. CASE StartProcessor \/ ProcessorJoins \/ ProcessorRuns \/ ClockTicks
  BY <1>1, ProcessorLeavesServer
<1>2. CASE ServerPushes \/ ServerRuns
  BY <1>2 DEF ServerPushes, ServerRuns, Server!Next, Server!ServerStep
<1>3. CASE ServerReturns \/ UNCHANGED vars
  BY <1>3 DEF ServerReturns, vars
<1>4. CASE ClientActs
  BY <1>4 DEF ClientActs, Server!Next
<1>5. CASE Interrupt
  BY <1>5 DEF Interrupt, Processor!SetStop, Server!SetStop, Server!Next
<1>6. QED
  BY <1>1, <1>2, <1>3, <1>4, <1>5 DEF Next, MainStep

\* In the engine the server runs as TcpServer says, whatever the processor's
\* threads do meanwhile: pushing to the shared queue changes nothing for it.
THEOREM ServerImplemented == Spec => Server!Spec
<1>1. Init => Server!Init
  BY DEF Init
<1>2. QED
  BY <1>1, ServerStutters, PTL DEF Spec, Server!Spec

-----------------------------------------------------------------------------
(***************************************************************************)
(* The processor assumes that the server returns with the stop flag set.   *)
(* That is so where WSAStartup() is not needed: each of the other calls    *)
(* that can fail sets the flag, and the accept loop ends on it.            *)
(***************************************************************************)
ReturnInv ==
  /\ stop_flag \in BOOLEAN
  /\ server # "wsa_startup"
  /\ server = "returned" => stop_flag

\* Each step keeps it.
LEMMA ReturnStep == ReturnInv /\ [Next]_vars => ReturnInv'
<1> SUFFICES ASSUME ReturnInv, [Next]_vars PROVE ReturnInv'
  OBVIOUS
<1> USE DEF ReturnInv
<1>1. [Server!Next]_(Server!vars)
  BY ServerStutters
<1>2. CASE Server!StartUp
  BY <1>2 DEF Server!StartUp, Server!Succeeds
<1>3. CASE Server!WsaStartupFails \/ Server!SocketFails \/ Server!SetStop
  BY <1>3 DEF Server!WsaStartupFails, Server!SocketFails, Server!SetStop
<1>4. CASE Server!Serve
  BY <1>4 DEF Server!Serve, Server!Select, Server!Accept, Server!AcceptFails,
              Server!TestStop, Server!Receive, Server!ReceiveEnds,
              Server!ReceiveTimesOut, Server!RejectLine, Server!NoMoreLines,
              Server!CloseClient
<1>5. CASE Server!PushLine
  BY <1>5 DEF Server!PushLine
<1>6. ASSUME NEW c \in Clients, Server!ClientStep(c) \/ Server!SendAgain(c) PROVE ReturnInv'
  BY <1>6 DEF Server!ClientStep, Server!Connect, Server!Send, Server!CloseByClient,
              Server!Reset, Server!SendAgain, Server!start_vars
<1>7. CASE UNCHANGED Server!vars
  BY <1>7 DEF Server!vars, Server!start_vars
<1>8. QED
  BY <1>1, <1>2, <1>3, <1>4, <1>5, <1>6, <1>7
     DEF Server!Next, Server!ServerStep, Server!ServerRuns

\* What the server does beside pushing reaches the processor as the stop flag, at
\* most.
LEMMA ServerRunsQuietly ==
  ASSUME ReturnInv, ServerRuns
  PROVE  Processor!SetStop \/ UNCHANGED Processor!vars
<1> USE DEF processor_only, Processor!vars, Processor!server_vars, Processor!queue_vars,
            Processor!worker_vars, Processor!state_vars, Processor!evaluator_vars
<1>1. main = "serving" /\ Server!ServerRuns /\ UNCHANGED <<main, processor_only>>
  BY DEF ServerRuns
<1>2. CASE Server!SocketFails
  BY <1>1, <1>2 DEF Server!SocketFails, Processor!SetStop, ReturnInv
<1>3. CASE Server!StartUp \/ Server!WsaStartupFails
  BY <1>1, <1>3 DEF Server!StartUp, Server!Succeeds, Server!WsaStartupFails
<1>4. CASE Server!Serve
  BY <1>1, <1>4 DEF Server!Serve, Server!Select, Server!Accept, Server!AcceptFails,
              Server!TestStop, Server!Receive, Server!ReceiveEnds,
              Server!ReceiveTimesOut, Server!RejectLine, Server!NoMoreLines,
              Server!CloseClient
<1>5. QED
  BY <1>1, <1>2, <1>3, <1>4 DEF Server!ServerRuns

\* Every step of the engine is a step of the processor or leaves it as it is.
LEMMA ProcessorStutters ==
  ReturnInv /\ [Next]_vars => [Processor!Next]_(Processor!vars)
<1> SUFFICES ASSUME ReturnInv, [Next]_vars PROVE [Processor!Next]_(Processor!vars)
  OBVIOUS
<1>1. CASE StartProcessor \/ ProcessorJoins
  BY <1>1 DEF StartProcessor, ProcessorJoins, Processor!Next, Processor!MainStep
<1>2. CASE ProcessorRuns \/ Interrupt \/ ClockTicks
  BY <1>2 DEF ProcessorRuns, Interrupt, ClockTicks, Processor!Next
<1>3. CASE ServerPushes
  <2>1. PICK e \in LineEvents : Processor!Push(e.source_id, e.timestamp, e.payload)
    BY <1>3 DEF ServerPushes, Server!PushLine, Server!Parses
  <2>2. e.source_id \in Sources /\ e.timestamp \in Processor!Timestamps /\ e.payload \in Payloads
    BY <2>1 DEF LineEvents
  <2>3. QED
    BY <2>1, <2>2 DEF Processor!Next
<1>4. CASE ServerRuns
  BY <1>4, ServerRunsQuietly DEF Processor!Next
<1> USE DEF processor_only, Processor!vars, Processor!server_vars, Processor!queue_vars,
            Processor!worker_vars, Processor!state_vars, Processor!evaluator_vars
<1>5. CASE ServerReturns
  <2>1. Processor!ServerReturns
    BY <1>5 DEF ServerReturns, ReturnInv, Processor!ServerReturns
  <2>2. QED
    BY <2>1 DEF Processor!Next, Processor!MainStep
<1>6. CASE ClientActs
  <2>1. stop_flag' = stop_flag
    BY <1>6 DEF ClientActs, Server!ClientStep, Server!Connect, Server!Send,
                Server!CloseByClient, Server!Reset, Server!start_vars
  <2>2. QED
    BY <1>6, <2>1 DEF ClientActs
<1>7. CASE UNCHANGED vars
  BY <1>7 DEF vars
<1>8. QED
  BY <1>1, <1>2, <1>3, <1>4, <1>5, <1>6, <1>7 DEF Next, MainStep

\* The server does to the processor what EventProcessor assumes: it pushes events
\* of the right kind while it runs and returns only with the stop flag set.
THEOREM ProcessorImplemented == ASSUME Windows = FALSE PROVE Spec => Processor!Spec
<1>1. Init => ReturnInv
  BY DEF Init, Server!Init, ReturnInv
<1>2. Init => Processor!Init
  BY DEF Init
<1>3. QED
  BY <1>1, <1>2, ReturnStep, ProcessorStutters, PTL DEF Spec, Processor!Spec

-----------------------------------------------------------------------------
(* The server in Engine is the one of TcpServerProofs *)

ServerProofs == INSTANCE TcpServerProofs WITH
  Events <- LineEvents, Bodies <- LineEvents \cup {Garbage}

\* What TcpServer assumes of its constants.
LEMMA ServerConstants ==
  /\ LineEvents \subseteq LineEvents \cup {Garbage}
  /\ Newline \notin LineEvents \cup {Garbage}
  /\ Scripts \in [Clients -> Seq((LineEvents \cup {Garbage}) \cup {Newline})]
  /\ BufferSize \in Nat \ {0} /\ Backlog \in Nat \ {0}
  /\ Windows \in BOOLEAN
  /\ NoClient \notin Clients
<1>1. (LineEvents \cup {Garbage}) \cup {Newline} = LineEvents \cup {Garbage, Newline}
  OBVIOUS
<1>2. QED
  BY <1>1, EngineAssumption

\* The operators of the two instances mean the same: the lines.
LEMMA SameLines ==
  /\ Server!HasLine <=> ServerProofs!HasLine
  /\ Server!NextLine = ServerProofs!NextLine
  /\ Server!AfterLine = ServerProofs!AfterLine
<1>1. Server!HasLine <=> ServerProofs!HasLine
  BY DEF Server!HasLine, ServerProofs!HasLine, Server!Contains, ServerProofs!Contains
<1>2. Server!NewlinePosition = ServerProofs!NewlinePosition
  BY DEF Server!NewlinePosition, ServerProofs!NewlinePosition
<1>3. QED
  BY <1>1, <1>2 DEF Server!NextLine, ServerProofs!NextLine, Server!AfterLine, ServerProofs!AfterLine

\* Their initial states.
LEMMA SameInit == Server!Init => ServerProofs!Init
BY DEF Server!Init, ServerProofs!Init

\* Their steps.
LEMMA SameNext == [Server!Next]_(Server!vars) => [ServerProofs!Next]_(ServerProofs!vars)
<1> SUFFICES ASSUME [Server!Next]_(Server!vars)
             PROVE  [ServerProofs!Next]_(ServerProofs!vars)
  OBVIOUS
<1> USE DEF Server!start_vars, Server!connection_vars, Server!client_vars,
            ServerProofs!start_vars, ServerProofs!connection_vars, ServerProofs!client_vars
<1>1. /\ Server!StartUp => ServerProofs!StartUp
      /\ Server!WsaStartupFails => ServerProofs!WsaStartupFails
      /\ Server!SocketFails => ServerProofs!SocketFails
      /\ Server!SetStop => ServerProofs!SetStop
  BY DEF Server!StartUp, ServerProofs!StartUp, Server!Succeeds, ServerProofs!Succeeds,
         Server!WsaStartupFails, ServerProofs!WsaStartupFails,
         Server!SocketFails, ServerProofs!SocketFails,
         Server!SetStop, ServerProofs!SetStop
<1>2. /\ Server!Select => ServerProofs!Select
      /\ Server!Accept => ServerProofs!Accept
      /\ Server!AcceptFails => ServerProofs!AcceptFails
      /\ Server!TestStop => ServerProofs!TestStop
  BY DEF Server!Select, ServerProofs!Select, Server!Accept, ServerProofs!Accept,
         Server!AcceptFails, ServerProofs!AcceptFails, Server!TestStop, ServerProofs!TestStop
<1>3. /\ Server!Receive => ServerProofs!Receive
      /\ Server!ReceiveEnds => ServerProofs!ReceiveEnds
      /\ Server!ReceiveTimesOut => ServerProofs!ReceiveTimesOut
      /\ Server!CloseClient => ServerProofs!CloseClient
  BY DEF Server!Receive, ServerProofs!Receive, Server!ReceiveEnds, ServerProofs!ReceiveEnds,
         Server!ReceiveTimesOut, ServerProofs!ReceiveTimesOut,
         Server!CloseClient, ServerProofs!CloseClient
<1>4. /\ Server!PushLine => ServerProofs!PushLine
      /\ Server!RejectLine => ServerProofs!RejectLine
      /\ Server!NoMoreLines => ServerProofs!NoMoreLines
  BY SameLines DEF Server!PushLine, ServerProofs!PushLine,
     Server!RejectLine, ServerProofs!RejectLine, Server!Parses, ServerProofs!Parses,
     Server!NoMoreLines, ServerProofs!NoMoreLines
<1>5. \A c \in Clients :
        /\ Server!Connect(c) => ServerProofs!Connect(c)
        /\ Server!Send(c) => ServerProofs!Send(c)
        /\ Server!CloseByClient(c) => ServerProofs!CloseByClient(c)
        /\ Server!Reset(c) => ServerProofs!Reset(c)
  BY DEF Server!Connect, ServerProofs!Connect, Server!Listening, ServerProofs!Listening,
    Server!StartSteps, ServerProofs!StartSteps, Server!Send, ServerProofs!Send,
    Server!CloseByClient, ServerProofs!CloseByClient, Server!Reset, ServerProofs!Reset
<1>6. Server!ServerStep => ServerProofs!ServerStep
  BY <1>1, <1>2, <1>3, <1>4
     DEF Server!ServerStep, ServerProofs!ServerStep, Server!ServerRuns,
         ServerProofs!ServerRuns, Server!Serve, ServerProofs!Serve
<1>7. ASSUME NEW c \in Clients, Server!ClientStep(c) \/ Server!SendAgain(c)
      PROVE  ServerProofs!ClientStep(c) \/ ServerProofs!SendAgain(c)
  <2>1. CASE Server!ClientStep(c)
    BY <1>5, <2>1 DEF Server!ClientStep, ServerProofs!ClientStep
  <2>2. CASE Server!SendAgain(c)
    BY <2>2 DEF Server!SendAgain, ServerProofs!SendAgain, Server!ToSet, ServerProofs!ToSet
  <2>3. QED
    BY <1>7, <2>1, <2>2
<1>8. UNCHANGED Server!vars => UNCHANGED ServerProofs!vars
  BY DEF Server!vars, ServerProofs!vars
<1>9. QED
  BY <1>1, <1>6, <1>7, <1>8 DEF Server!Next, ServerProofs!Next

-----------------------------------------------------------------------------
(* From the client to the window *)

\* The events that carry the number of a push and say what was pushed then.
Traced ==
  {e \in Processor!Events :
     e.event_id \in 1 .. Len(event_queue_) /\ event_queue_[e.event_id][2] = LineOf(e)}

\* Where events can be: all of them are traced, and the processor numbers them as
\* the server pushes them.
TraceInv ==
  /\ arrived = Len(event_queue_)
  /\ queue \in Seq(Traced) /\ processed \in Seq(Traced)
  /\ worker \in [Workers -> {"new", "loop", "pop", "lock", "add", "returned"}]
  /\ event \in [Workers -> Processor!Events \cup {NoEvent}]
  /\ \A w \in Workers : worker[w] \in {"lock", "add"} => event[w] \in Traced

IInv == ServerProofs!IInv /\ ServerProofs!FramingInv /\ TraceInv

\* The processor has no thread and no event when the server starts.
LEMMA InitIInv == Init => IInv
<1> SUFFICES ASSUME Init PROVE IInv
  OBVIOUS
<1>1. ServerProofs!IInv /\ ServerProofs!FramingInv
  BY SameInit, ServerProofs!InitIInv, ServerProofs!FramingInit, ServerConstants DEF Init
<1>2. <<>> \in Seq(Traced) /\ Len(<<>>) = 0
  BY EmptySeq
<1>3. TraceInv
  BY <1>2 DEF Init, Server!Init, Processor!Init, TraceInv
<1>4. QED
  BY <1>1, <1>3 DEF IInv

\* Pushing does not change what was pushed before.
LEMMA TracedGrows ==
  ASSUME event_queue_ \in Seq(Clients \X LineEvents),
         NEW pushed \in Clients \X LineEvents,
         event_queue_' = Append(event_queue_, pushed)
  PROVE  Traced \subseteq Traced'
<1>1. /\ Len(event_queue_) \in Nat /\ Len(event_queue_') = Len(event_queue_) + 1
      /\ \A i \in 1 .. Len(event_queue_) : event_queue_'[i] = event_queue_[i]
  BY AppendProperties, LenProperties
<1>2. ASSUME NEW e \in Traced PROVE e \in Traced'
  <2>1. e \in Processor!Events /\ event_queue_[e.event_id][2] = LineOf(e)
    BY DEF Traced
  <2>2. e.event_id \in 1 .. Len(event_queue_)
    BY DEF Traced
  <2>3. e.event_id \in 1 .. Len(event_queue_') /\ event_queue_'[e.event_id] = event_queue_[e.event_id]
    BY <1>1, <2>2
  <2>4. QED
    BY <2>1, <2>3 DEF Traced, LineOf
<1>3. QED
  BY <1>2

\* The new event carries the number of its push and says what was pushed.
LEMMA PushStep ==
  ASSUME IInv, ServerPushes
  PROVE  TraceInv'
<1> DEFINE line == Server!NextLine[1]
           pushed == <<client_fd, line>>
           new == [source_id |-> line.source_id, event_id |-> arrived + 1,
                   timestamp |-> line.timestamp, payload |-> line.payload]
<1>1. /\ line \in LineEvents
      /\ event_queue_' = Append(event_queue_, pushed)
      /\ arrived' = arrived + 1 /\ arrived < MaxEvents
      /\ queue' = Append(queue, new)
      /\ UNCHANGED <<worker, event, processed>>
  BY DEF ServerPushes, Server!PushLine, Server!Parses, Processor!Push, Processor!Queue!Put,
         Processor!worker_vars, Processor!state_vars
<1>2. event_queue_ \in Seq(Clients \X LineEvents) /\ client_fd \in Clients
  <2>1. server = "lines"
    BY DEF ServerPushes, Server!PushLine
  <2>2. QED
    BY <2>1 DEF IInv, ServerProofs!IInv, ServerProofs!TypeOK, ServerProofs!ConnectionInv
<1> HIDE DEF line
<1>3. pushed \in Clients \X LineEvents
  BY <1>1, <1>2
<1> HIDE DEF pushed
<1>4. Traced \subseteq Traced'
  BY <1>1, <1>2, <1>3, TracedGrows
<1>5. new \in Traced'
  <2>1. arrived = Len(event_queue_) /\ arrived \in Nat
    BY <1>2, LenProperties DEF IInv, TraceInv
  <2>2. Len(event_queue_') = arrived + 1 /\ event_queue_'[arrived + 1] = pushed
    BY <1>1, <1>2, <1>3, <2>1, AppendProperties
  <2>3. arrived + 1 \in 1 .. MaxEvents /\ arrived + 1 \in 1 .. Len(event_queue_')
    BY <1>1, <2>1, <2>2, EngineAssumption
  <2>4. new \in Processor!Events /\ LineOf(new) = line /\ new.event_id = arrived + 1
    BY <1>1, <2>3 DEF LineEvents, Processor!Events, LineOf
  <2>5. pushed[2] = line
    BY DEF pushed
  <2> HIDE DEF new
  <2>6. event_queue_'[new.event_id][2] = LineOf(new)
    BY <2>2, <2>4, <2>5
  <2>7. QED
    BY <2>3, <2>4, <2>6 DEF Traced, LineOf
<1>6. queue' \in Seq(Traced')
  <2>1. queue \in Seq(Traced')
    BY <1>4, SeqMonotonic DEF IInv, TraceInv
  <2> HIDE DEF new
  <2>2. QED
    BY <1>1, <1>5, <2>1, AppendProperties
<1>7. processed' \in Seq(Traced')
  BY <1>1, <1>4, SeqMonotonic DEF IInv, TraceInv
<1>8. arrived' = Len(event_queue_')
  BY <1>1, <1>2, <1>3, AppendProperties, LenProperties DEF IInv, TraceInv
<1>9. QED
  BY <1>1, <1>4, <1>6, <1>7, <1>8 DEF IInv, TraceInv

\* What a worker does to an event: it takes it, and applies it.
LEMMA WorkerMoves ==
  ASSUME TraceInv, NEW w \in Workers, Processor!WorkerStep(w), UNCHANGED server_only
  PROVE  TraceInv'
<1>1. event_queue_' = event_queue_ /\ Traced' = Traced
  BY DEF server_only, Traced, LineOf
<1>2. /\ arrived = Len(event_queue_)
      /\ queue \in Seq(Traced) /\ processed \in Seq(Traced)
      /\ worker \in [Workers -> {"new", "loop", "pop", "lock", "add", "returned"}]
      /\ event \in [Workers -> Processor!Events \cup {NoEvent}]
      /\ \A v \in Workers : worker[v] \in {"lock", "add"} => event[v] \in Traced
      /\ Traced \subseteq Processor!Events
  BY DEF TraceInv, Traced
<1> USE DEF Processor!server_vars, Processor!queue_vars, Processor!worker_vars,
            Processor!state_vars
<1>3. CASE Processor!TestStop(w)
  BY <1>1, <1>2, <1>3 DEF Processor!TestStop, TraceInv
<1>4. CASE Processor!PopNothing(w)
  BY <1>1, <1>2, <1>4 DEF Processor!PopNothing, TraceInv
<1>5. CASE Processor!LockAndEvict(w)
  BY <1>1, <1>2, <1>5 DEF Processor!LockAndEvict, TraceInv
<1>6. CASE Processor!Pop(w)
  <2>1. queue # <<>> /\ queue' = Tail(queue) /\ arrived' = arrived /\ processed' = processed
        /\ event' = [event EXCEPT ![w] = Head(queue)]
        /\ worker' = [worker EXCEPT ![w] = "lock"]
    BY <1>6 DEF Processor!Pop, Processor!Queue!Take
  <2>2. Head(queue) \in Traced /\ queue' \in Seq(Traced)
    BY <1>2, <2>1, HeadTailProperties
  <2>3. QED
    BY <1>1, <1>2, <2>1, <2>2 DEF TraceInv
<1>7. CASE Processor!AddAndUnlock(w)
  <2>1. worker[w] = "add" /\ queue' = queue /\ arrived' = arrived
        /\ processed' = Append(processed, event[w])
        /\ event' = [event EXCEPT ![w] = NoEvent]
        /\ worker' = [worker EXCEPT ![w] = "loop"]
    BY <1>7 DEF Processor!AddAndUnlock
  <2>2. processed' \in Seq(Traced)
    BY <1>2, <2>1, AppendProperties
  <2>3. QED
    BY <1>1, <1>2, <2>1, <2>2 DEF TraceInv
<1>8. QED
  BY <1>3, <1>4, <1>5, <1>6, <1>7 DEF Processor!WorkerStep

\* Nobody else touches an event.
LEMMA TraceStep == IInv /\ [Next]_vars => TraceInv'
<1> SUFFICES ASSUME IInv, [Next]_vars PROVE TraceInv'
  OBVIOUS
<1>1. ASSUME UNCHANGED <<event_queue_, arrived, queue, processed, event>>,
             worker' \in [Workers -> {"new", "loop", "pop", "lock", "add", "returned"}],
             \A w \in Workers : worker'[w] \in {"lock", "add"} => worker[w] \in {"lock", "add"}
      PROVE  TraceInv'
  <2>1. Traced' = Traced
    BY <1>1 DEF Traced, LineOf
  <2>2. QED
    BY <1>1, <2>1 DEF IInv, TraceInv
<1>2. worker \in [Workers -> {"new", "loop", "pop", "lock", "add", "returned"}]
  BY DEF IInv, TraceInv
<1>3. ASSUME UNCHANGED <<event_queue_, arrived, queue, processed, event, worker>>
      PROVE  TraceInv'
  BY <1>1, <1>2, <1>3
<1> USE DEF server_only, processor_only, Processor!server_vars, Processor!queue_vars,
            Processor!worker_vars, Processor!state_vars
<1>4. CASE StartProcessor
  <2>1. ASSUME NEW w \in Workers, Processor!StartWorker(w), UNCHANGED server_only
        PROVE  TraceInv'
    <3>1. UNCHANGED <<event_queue_, arrived, queue, processed, event>>
          /\ worker' = [worker EXCEPT ![w] = "loop"]
      BY <2>1 DEF Processor!StartWorker
    <3>2. QED
      BY <1>1, <1>2, <3>1
  <2>2. ASSUME Processor!StartEvaluator, UNCHANGED server_only PROVE TraceInv'
    BY <1>3, <2>2 DEF Processor!StartEvaluator
  <2>3. QED
    BY <1>4, <2>1, <2>2 DEF StartProcessor
<1>5. CASE ServerPushes
  BY <1>5, PushStep
<1>6. CASE ServerRuns
  <2>1. UNCHANGED processor_only /\ Server!ServerRuns
    BY <1>6 DEF ServerRuns
  <2>2. event_queue_' = event_queue_
    BY <2>1 DEF Server!ServerRuns, Server!StartUp, Server!Succeeds, Server!WsaStartupFails,
      Server!SocketFails, Server!Serve, Server!Select, Server!Accept, Server!AcceptFails,
      Server!TestStop, Server!Receive, Server!ReceiveEnds, Server!ReceiveTimesOut,
      Server!RejectLine, Server!NoMoreLines, Server!CloseClient, Server!connection_vars
  <2>3. QED
    BY <1>3, <2>1, <2>2
<1>7. CASE ClientActs
  <2>1. UNCHANGED processor_only /\ \E c \in Clients : Server!ClientStep(c)
    BY <1>7 DEF ClientActs
  <2>2. event_queue_' = event_queue_
    BY <2>1 DEF Server!ClientStep, Server!Connect, Server!Send, Server!CloseByClient,
      Server!Reset, Server!connection_vars
  <2>3. QED
    BY <1>3, <2>1, <2>2
<1>8. CASE ServerReturns \/ ProcessorJoins \/ Interrupt \/ ClockTicks
  BY <1>3, <1>8 DEF ServerReturns, ProcessorJoins, Interrupt, ClockTicks,
     Processor!Join, Processor!SetStop, Processor!Tick
<1>9. CASE ProcessorRuns
  <2>1. ASSUME Processor!EvaluatorStep, UNCHANGED server_only PROVE TraceInv'
    BY <1>3, <2>1 DEF Processor!EvaluatorStep, Processor!EvaluatorTestStop,
      Processor!WakeUp, Processor!LockStates, Processor!CopyState, Processor!UnlockStates,
      Processor!Report, Processor!RoundEnds
  <2>2. ASSUME NEW w \in Workers, Processor!WorkerStep(w), UNCHANGED server_only
        PROVE  TraceInv'
    BY <2>2, WorkerMoves DEF IInv
  <2>3. QED
    BY <1>9, <2>1, <2>2 DEF ProcessorRuns
<1>10. CASE UNCHANGED vars
  BY <1>3, <1>10 DEF vars
<1>11. QED
  BY <1>4, <1>5, <1>6, <1>7, <1>8, <1>9, <1>10 DEF Next, MainStep

\* Each step keeps what was found of the server, and where the events are from.
LEMMA NextIInv == IInv /\ [Next]_vars => IInv'
<1> SUFFICES ASSUME IInv, [Next]_vars PROVE IInv'
  OBVIOUS
<1>1. [ServerProofs!Next]_(ServerProofs!vars)
  BY ServerStutters, SameNext
<1>2. ServerProofs!IInv' /\ ServerProofs!FramingInv'
  BY <1>1, ServerProofs!NextIInv, ServerProofs!FramingStep, ServerConstants DEF IInv
<1>3. QED
  BY <1>2, TraceStep DEF IInv

\* The inductive invariant holds of every behaviour of the engine.
THEOREM IInvCorrect == Spec => []IInv
BY InitIInv, NextIInv, PTL DEF Spec

\* No source is held for what nobody sent: whatever an applied event says was read,
\* on a line of its own, from a connection, for any workers, clients and streams and
\* any way recv() cuts them.
THEOREM AppliedCorrect == Spec => []AppliedWasReceived
<1>1. IInv => AppliedWasReceived
  <2> SUFFICES ASSUME IInv, NEW i \in DOMAIN processed
               PROVE  /\ processed[i].event_id \in DOMAIN event_queue_
                      /\ LET pushed == event_queue_[processed[i].event_id]
                             read == SubSeq(Scripts[pushed[1]], 1, received[pushed[1]])
                         IN  /\ pushed[2] = LineOf(processed[i])
                             /\ \E k \in Server!EventPositions(read) : read[k] = pushed[2]
    BY DEF AppliedWasReceived
  <2> DEFINE n == processed[i].event_id
             pushed == event_queue_[n]
             read == SubSeq(Scripts[pushed[1]], 1, received[pushed[1]])
  <2>1. processed[i] \in Traced
    BY LenProperties, ElementOfSeq DEF IInv, TraceInv
  <2>2. n \in 1 .. Len(event_queue_) /\ pushed[2] = LineOf(processed[i])
    BY <2>1 DEF Traced
  <2>3. n \in DOMAIN event_queue_
    BY <2>2, LenProperties DEF IInv, ServerProofs!IInv, ServerProofs!TypeOK
  <2> HIDE DEF n
  <2>4. \E k \in ServerProofs!EventPositions(read) : read[k] = pushed[2]
    BY <2>3, ServerProofs!PushedWasRead, ServerConstants DEF IInv
  <2> HIDE DEF read
  <2>5. ServerProofs!EventPositions(read) = Server!EventPositions(read)
    BY DEF ServerProofs!EventPositions, Server!EventPositions
  <2>6. QED
    BY <2>2, <2>3, <2>4, <2>5 DEF n, read
<1>2. QED
  BY <1>1, IInvCorrect, PTL

=============================================================================
