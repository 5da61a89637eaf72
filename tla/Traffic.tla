------------------------------ MODULE Traffic ------------------------------
(***************************************************************************)
(* The simulator's threads (simulator/main.cpp) and the engine's server    *)
(* (edge-engine/src/network/TcpServer.cpp) at the two ends of the          *)
(* connections.  Each connection carries one event and a newline.  A       *)
(* connection and the event it carries are both named by the call of       *)
(* send_event() that makes them.                                           *)
(***************************************************************************)
EXTENDS Simulator, SequencesExt

CONSTANTS Newline, BufferSize, Backlog, NoClient     \* TcpServer

VARIABLES
  server, stop_flag, backlog, client_fd, pending_line, event_queue_, client,
  unsent, wire, received,
  given_up      \* history: connections closed because nothing came for 100 ms

Telemetry == INSTANCE Event

\* What the simulator puts on a line is what the server makes an event of.
Events == {c \in Sends : Telemetry!HasEvent(event_json)}

Server == INSTANCE TcpServer WITH
  Clients <- Sends, Bodies <- Sends, Windows <- OnWindows,
  Scripts <- [c \in Sends |-> <<c, Newline>>]

server_vars == <<server, stop_flag, backlog, client_fd, pending_line,
                 event_queue_, client, unsent, wire, received>>
vars == <<simulator_vars, server_vars, given_up>>

ASSUME TrafficAssumption ==
  /\ PayloadSize = 2
  /\ Newline \notin Sends /\ NoClient \notin Sends
  /\ BufferSize \in Nat \ {0} /\ Backlog \in Nat \ {0}

TypeOK ==
  /\ SimulatorTypeOK
  /\ Server!TypeOK
  /\ given_up \subseteq Sends

Init == SimulatorInit /\ Server!Init /\ given_up = {}

\* The simulator on its own.
SimulatorPrepares ==
  /\ SimulatorMain \/ \E t \in Threads : PrepareEvent(t)
  /\ UNCHANGED <<server_vars, given_up>>

ClockTicks == TimePasses /\ UNCHANGED <<server_vars, given_up>>

\* connect() is answered by the listening socket, accepted or not.
Connect(t) ==
  /\ Connected(t)
  /\ Server!Connect(Current(t))
  /\ client'[Current(t)] = "connected"
  /\ UNCHANGED given_up

\* The backlog is full.
Refused(t) ==
  /\ ReturnFalse(t, "connect")
  /\ Server!Connect(Current(t))
  /\ client'[Current(t)] = "refused"
  /\ UNCHANGED given_up

\* socket() fails, or nobody listens.
NoConnection(t) ==
  /\ ReturnFalse(t, "connect")
  /\ UNCHANGED <<server_vars, given_up>>

\* The bytes reach the server's end.
SendToServer(t) ==
  /\ SendSome(t)
  /\ Server!Send(Current(t))
  /\ UNCHANGED given_up

\* The server has closed its end, with bytes of the event still to come.
ClosedByServer(c) == client[c] = "connected" /\ unsent[c] = <<>>

\* Its operating system takes the bytes, and they are lost: send() only fails
\* once the news has come back.
SendToNobody(t) ==
  /\ SendSome(t)
  /\ ClosedByServer(Current(t))
  /\ UNCHANGED <<server_vars, given_up>>

\* send() fails for whatever reason, the server perhaps still reading.  What it has
\* taken before arrives: both ends are on one machine (SERVER_HOST).
SendFails(t) ==
  /\ bytes_sent[t] < PayloadSize
  /\ ReturnFalse(t, "send")
  /\ Server!CloseByClient(Current(t))
  /\ UNCHANGED given_up

\* Bytes have been taken that the server's end no longer wants: its answer is
\* that the connection is broken.
BrokenPipe(t) ==
  /\ KilledBySigpipe(t)
  /\ ClosedByServer(Current(t)) /\ bytes_sent[t] > received[Current(t)]
  /\ LET open == {c \in Sends : client[c] = "connected"}
     IN  /\ client' = [c \in Sends |-> IF c \in open THEN "closed" ELSE client[c]]
         /\ unsent' = [c \in Sends |-> IF c \in open THEN <<>> ELSE unsent[c]]
  /\ UNCHANGED <<server, stop_flag, backlog, client_fd, pending_line,
                 event_queue_, wire, received, given_up>>

Finish(t) ==
  /\ ReturnTrue(t)
  /\ Server!CloseByClient(Current(t))
  /\ UNCHANGED given_up

SendEvent(t) ==
  \/ Connect(t) \/ Refused(t) \/ NoConnection(t)
  \/ SendToServer(t) \/ SendToNobody(t) \/ SendFails(t) \/ BrokenPipe(t)
  \/ Finish(t)

\* The server's side.
ServerServes ==
  /\ Server!ServerRuns \/ Server!PushLine
  /\ UNCHANGED <<simulator_vars, given_up>>
  /\ ~Server!ReceiveTimesOut

ServerGivesUp ==
  /\ Server!ReceiveTimesOut
  /\ given_up' = given_up \cup {client_fd}
  /\ UNCHANGED simulator_vars

Interrupt == Server!SetStop /\ UNCHANGED <<simulator_vars, given_up>>

Next ==
  \/ SimulatorPrepares
  \/ ClockTicks
  \/ \E t \in Threads : SendEvent(t)
  \/ ServerServes
  \/ ServerGivesUp
  \/ Interrupt

Spec == Init /\ [][Next]_vars

-----------------------------------------------------------------------------
(* What the two ends are to each other *)

Pushed == {event_queue_[i][2] : i \in DOMAIN event_queue_}

\* Threads share one counter: no two events get the same number, of whatever
\* thread, so that event_id tells them apart.
EventNumbersAreUnique ==
  \A c, d \in DOMAIN event_number : event_number[c] = event_number[d] => c = d

\* The events of one thread, which is one source, reach the queue at most once
\* each and in the order of their numbers and timestamps (unless the clock is
\* set back), although each has a connection of its own that may still be
\* waiting when the next is made.  And an event reaches it from the connection
\* that carried it.
SourceInOrder ==
  \A i, j \in DOMAIN event_queue_ :
    LET c == event_queue_[i][2]
        d == event_queue_[j][2]
    IN  /\ event_queue_[i][1] = c
        /\ i < j /\ c[1] = d[1] =>
             event_number[c] < event_number[d] /\ timestamp[c] <= timestamp[d]

\* When send_event() has returned false the event is not in the queue and does
\* not get there: what the simulator reports as not sent has not been.
FalseIsNotPushed ==
  \A c \in DOMAIN result : c \in Pushed => result[c]

\* When it has returned true the event is in the queue or on its way there, in
\* a connection that waits or is being read, although the client has closed at
\* once: unless the server is told to stop or has given the connection up
\* because the bytes were too long in coming.
TrueIsPushed ==
  \A c \in DOMAIN result :
    result[c] => \/ c \in Pushed \cup ToSet(backlog) \cup {client_fd}
                 \/ c \in given_up
                 \/ stop_flag

=============================================================================
