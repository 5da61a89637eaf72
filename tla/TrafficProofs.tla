---------------------------- MODULE TrafficProofs ----------------------------
(***************************************************************************)
(* Proofs about Traffic for any threads, any number of events each, any    *)
(* arguments and clock, any size of recv()'s buffer and of the backlog.    *)
(* What TcpServerProofs shows of the server's steps holds of them here.    *)
(***************************************************************************)
EXTENDS Traffic, RecursionLemmas, TLAPS

ServerProofs == INSTANCE TcpServerProofs WITH
  Clients <- Sends, Bodies <- Sends, Windows <- OnWindows,
  Scripts <- [c \in Sends |-> <<c, Newline>>]

(***************************************************************************)
(* The inductive invariant: the simulator's part.                          *)
(***************************************************************************)

\* A thread numbers its events one after the other, and has stamped the one it
\* connects for.
ThreadInv ==
  /\ sends \in [Threads -> Nat]
  /\ simulator = "arguments" => duration = 0
  /\ \A c \in DOMAIN event_number : c[2] <= sends[c[1]]
  /\ \A t \in Threads :
       /\ thread[t] \in {"stamp", "connect", "send"} =>
            Current(t) \in DOMAIN event_number /\ Current(t) \notin DOMAIN result
       /\ thread[t] \in {"connect", "send"} => Current(t) \in DOMAIN timestamp

\* Numbers come from the counter and stamps from the clock, each later event of
\* a thread having later ones.
NumberInv ==
  /\ \A c \in DOMAIN event_number : event_number[c] \in 0 .. event_counter - 1
  /\ \A c \in DOMAIN timestamp : timestamp[c] \in 0 .. now
  /\ EventNumbersAreUnique
  /\ \A c, d \in DOMAIN event_number :
       c[1] = d[1] /\ c[2] < d[2] => event_number[c] < event_number[d]
  /\ \A c, d \in DOMAIN timestamp :
       c[1] = d[1] /\ c[2] < d[2] => timestamp[c] <= timestamp[d]

(***************************************************************************)
(* The two ends.                                                           *)
(***************************************************************************)

\* A connection that the server has yet to close.
Held(c) == c = client_fd \/ \E i \in DOMAIN backlog : backlog[i] = c

\* What has come to the server's end of it.
Arrived(c) == received[c] + Len(wire[c])

\* A connection is open exactly while its thread is sending on it.
ClientInv ==
  /\ \A c \in Sends :
       /\ client[c] \in {"new", "refused", "connected", "closed"}
       /\ client[c] # "new" => c \in DOMAIN timestamp
       /\ client[c] = "connected" => thread[c[1]] = "send" /\ c = Current(c[1])
  /\ \A t \in Threads :
       /\ thread[t] \in {"stamp", "connect"} => client[Current(t)] = "new"
       /\ thread[t] = "send" => client[Current(t)] = "connected"

\* What has arrived is what send() has taken, or less when the server has closed
\* its end; all of it for a call that returned true, not all for one that
\* returned false.
BytesInv ==
  \A c \in Sends :
    /\ client[c] \in {"new", "refused"} => Arrived(c) = 0 /\ ~Held(c)
    /\ client[c] = "new" => Len(unsent[c]) = 2
    /\ client[c] = "closed" => unsent[c] = <<>>
    /\ client[c] = "connected" =>
         /\ Arrived(c) <= bytes_sent[c[1]]
         /\ IF Held(c)
            THEN Arrived(c) = bytes_sent[c[1]] /\ Len(unsent[c]) = 2 - bytes_sent[c[1]]
            ELSE unsent[c] = <<>>
    /\ c \in DOMAIN result =>
         IF result[c] THEN Held(c) => Arrived(c) = 2 ELSE Arrived(c) < 2

\* The connections whose line has been read are those whose event is pushed.
QueueInv ==
  /\ \A i \in DOMAIN event_queue_ : event_queue_[i][1] = event_queue_[i][2]
  /\ \A c \in Sends : c \in Pushed <=> ServerProofs!Done(c) = 2

\* A connection is closed by the server when its client has closed it and all is
\* read, or it is given up, or the server is to stop.
LossInv ==
  /\ server = "close_client" =>
       \/ client[client_fd] = "closed" /\ wire[client_fd] = <<>>
       \/ client_fd \in given_up
       \/ stop_flag
  /\ \A c \in Sends :
       /\ client[c] = "connected" => Held(c) \/ c \in given_up \/ stop_flag
       /\ c \in DOMAIN result =>
            (result[c] => Held(c) \/ c \in Pushed \/ c \in given_up \/ stop_flag)

\* The event e of the same thread comes after c.
Before(c, e) == c[1] = e[1] => c[2] < e[2]

\* Connections of a thread are read in the order they were made.
LineInv ==
  /\ \A i, j \in DOMAIN event_queue_ :
       i < j => Before(event_queue_[i][2], event_queue_[j][2])
  /\ \A c \in Pushed, e \in Sends : Held(e) /\ c # e => Before(c, e)
  /\ \A i \in DOMAIN backlog : client_fd # NoClient => Before(client_fd, backlog[i])
  /\ \A i, j \in DOMAIN backlog : i < j => Before(backlog[i], backlog[j])

SimulatorInv == SimulatorTypeOK /\ ThreadInv /\ NumberInv

EndsInv == SimulatorInv /\ ServerProofs!IInv /\ given_up \subseteq Sends

LinkInv == ClientInv /\ BytesInv /\ QueueInv /\ LossInv /\ LineInv

IInv == EndsInv /\ LinkInv

-----------------------------------------------------------------------------
(* The server in Traffic is the one of TcpServerProofs *)

\* A user's or bot's event is one that parse_line() takes.
LEMMA EventsAreParsed == Events = Sends
<1>1. Telemetry!HasEvent(event_json)
  BY DEF Telemetry!HasEvent, Telemetry!FieldKinds, event_json
<1>2. QED
  BY <1>1 DEF Events

\* A call of send_event() is a thread and a number.
LEMMA SendsType ==
  /\ \A c \in Sends : c[1] \in Threads /\ c[2] \in 1 .. MaxSends[c[1]] /\ c = <<c[1], c[2]>>
  /\ \A t \in Threads, k \in Int : <<t, k>> \in Sends <=> k \in 1 .. MaxSends[t]
BY DEF Sends

\* What TcpServer assumes of its constants.
LEMMA ServerConstants ==
  /\ Events \subseteq Sends
  /\ Newline \notin Sends
  /\ [c \in Sends |-> <<c, Newline>>] \in [Sends -> Seq(Sends \cup {Newline})]
  /\ BufferSize \in Nat \ {0} /\ Backlog \in Nat \ {0}
  /\ OnWindows \in BOOLEAN
  /\ NoClient \notin Sends
BY TrafficAssumption, SimulatorAssumption, EventsAreParsed

\* The operators of the two instances mean the same: the lines.
LEMMA SameLines ==
  /\ Server!HasLine <=> ServerProofs!HasLine
  /\ Server!NextLine = ServerProofs!NextLine
  /\ Server!AfterLine = ServerProofs!AfterLine
<1>1. Server!HasLine <=> ServerProofs!HasLine
  BY DEF Server!HasLine, ServerProofs!HasLine, Server!Contains, ServerProofs!Contains
<1>2. Server!NewlinePosition = ServerProofs!NewlinePosition
  BY DEF Server!NewlinePosition, ServerProofs!NewlinePosition
<1>3. QED
  BY <1>1, <1>2 DEF Server!NextLine, ServerProofs!NextLine, Server!AfterLine, ServerProofs!AfterLine

\* So do their type invariants.
LEMMA SameTypes == Server!TypeOK <=> ServerProofs!TypeOK
BY DEF Server!TypeOK, ServerProofs!TypeOK, Server!StartSteps, ServerProofs!StartSteps,
  Server!Symbols, ServerProofs!Symbols

\* Their initial states.
LEMMA SameInit == Server!Init <=> ServerProofs!Init
BY DEF Server!Init, ServerProofs!Init

\* What the simulator's calls do to the connections.
LEMMA SameClientActions ==
  \A c \in Sends :
    /\ Server!Connect(c) => ServerProofs!Connect(c)
    /\ Server!Send(c) => ServerProofs!Send(c)
    /\ Server!CloseByClient(c) => ServerProofs!CloseByClient(c)
BY DEF Server!Connect, ServerProofs!Connect, Server!Listening, ServerProofs!Listening,
  Server!StartSteps, ServerProofs!StartSteps, Server!Send, ServerProofs!Send,
  Server!CloseByClient, ServerProofs!CloseByClient,
  Server!start_vars, Server!connection_vars, Server!client_vars,
  ServerProofs!start_vars, ServerProofs!connection_vars, ServerProofs!client_vars

\* What the server does.
LEMMA SameServerActions ==
  /\ Server!ServerRuns => ServerProofs!ServerRuns
  /\ Server!PushLine => ServerProofs!PushLine
  /\ Server!SetStop => ServerProofs!SetStop
<1> USE DEF Server!start_vars, Server!connection_vars, Server!client_vars,
            ServerProofs!start_vars, ServerProofs!connection_vars, ServerProofs!client_vars
<1>1. /\ Server!StartUp => ServerProofs!StartUp
      /\ Server!WsaStartupFails => ServerProofs!WsaStartupFails
      /\ Server!SocketFails => ServerProofs!SocketFails
  BY DEF Server!StartUp, ServerProofs!StartUp, Server!Succeeds, ServerProofs!Succeeds,
         Server!WsaStartupFails, ServerProofs!WsaStartupFails,
         Server!SocketFails, ServerProofs!SocketFails
<1>2. /\ Server!Select => ServerProofs!Select
      /\ Server!Accept => ServerProofs!Accept
      /\ Server!AcceptFails => ServerProofs!AcceptFails
      /\ Server!TestStop => ServerProofs!TestStop
  BY DEF Server!Select, ServerProofs!Select, Server!Accept, ServerProofs!Accept,
         Server!AcceptFails, ServerProofs!AcceptFails, Server!TestStop, ServerProofs!TestStop
<1>3. /\ Server!Receive => ServerProofs!Receive
      /\ Server!ReceiveEnds => ServerProofs!ReceiveEnds
      /\ Server!ReceiveTimesOut => ServerProofs!ReceiveTimesOut
      /\ Server!CloseClient => ServerProofs!CloseClient
  BY DEF Server!Receive, ServerProofs!Receive, Server!ReceiveEnds, ServerProofs!ReceiveEnds,
         Server!ReceiveTimesOut, ServerProofs!ReceiveTimesOut,
         Server!CloseClient, ServerProofs!CloseClient
<1>4. /\ Server!PushLine => ServerProofs!PushLine
      /\ Server!RejectLine => ServerProofs!RejectLine
      /\ Server!NoMoreLines => ServerProofs!NoMoreLines
  BY SameLines DEF Server!PushLine, ServerProofs!PushLine,
     Server!RejectLine, ServerProofs!RejectLine, Server!Parses, ServerProofs!Parses,
     Server!NoMoreLines, ServerProofs!NoMoreLines
<1>5. Server!SetStop => ServerProofs!SetStop
  BY DEF Server!SetStop, ServerProofs!SetStop
<1>6. QED
  BY <1>1, <1>2, <1>3, <1>4, <1>5 DEF Server!ServerRuns, ServerProofs!ServerRuns,
     Server!Serve, ServerProofs!Serve

-----------------------------------------------------------------------------
(* The server's invariant *)

\* The event in hand is a call of send_event().
LEMMA CurrentType ==
  ASSUME SimulatorInv, NEW t \in Threads, thread[t] \in {"stamp", "connect", "send"}
  PROVE  Current(t) \in Sends /\ Current(t)[1] = t /\ Current(t)[2] = sends[t]
BY DEF SimulatorInv, ThreadInv, SimulatorTypeOK, Current

\* What the simulator leaves of the server.
LEMMA ServerStays ==
  ASSUME UNCHANGED server_vars PROVE UNCHANGED ServerProofs!vars
BY DEF server_vars, ServerProofs!vars, ServerProofs!start_vars,
       ServerProofs!connection_vars, ServerProofs!client_vars

\* Every step keeps what TcpServerProofs found invariant, also one that closes
\* all connections of the simulator at once.
LEMMA ServerKept ==
  ASSUME SimulatorInv, ServerProofs!IInv, [Next]_vars
  PROVE  ServerProofs!IInv'
<1>1. ASSUME [ServerProofs!Next]_(ServerProofs!vars) PROVE ServerProofs!IInv'
  BY <1>1, ServerProofs!NextIInv, ServerConstants
<1>2. ASSUME UNCHANGED server_vars PROVE ServerProofs!IInv'
  BY <1>1, <1>2, ServerStays
<1>3. CASE SimulatorPrepares \/ ClockTicks \/ UNCHANGED vars
  BY <1>2, <1>3 DEF SimulatorPrepares, ClockTicks, vars
<1>4. CASE ServerServes \/ ServerGivesUp \/ Interrupt
  <2>1. Server!ServerRuns \/ Server!PushLine \/ Server!SetStop
    BY <1>4 DEF ServerServes, ServerGivesUp, Interrupt, Server!ServerRuns, Server!Serve
  <2>2. ServerProofs!Next
    BY <2>1, SameServerActions DEF ServerProofs!Next, ServerProofs!ServerStep
  <2>3. QED
    BY <1>1, <2>2
<1>5. ASSUME NEW t \in Threads, SendEvent(t) PROVE ServerProofs!IInv'
  <2>1. Current(t) \in Sends
    <3>1. thread[t] \in {"connect", "send"}
      BY <1>5 DEF SendEvent, Connect, Refused, NoConnection, SendToServer, SendToNobody,
                  SendFails, BrokenPipe, Finish, Connected, ReturnFalse, ReturnTrue,
                  SendSome, KilledBySigpipe, Goto
    <3>2. QED
      BY <3>1, CurrentType
  <2>2. ASSUME Server!Connect(Current(t)) \/ Server!Send(Current(t)) \/ Server!CloseByClient(Current(t))
        PROVE  ServerProofs!IInv'
    <3>1. \E c \in Sends : ServerProofs!ClientStep(c)
      BY <2>1, <2>2, SameClientActions DEF ServerProofs!ClientStep
    <3>2. QED
      BY <1>1, <3>1 DEF ServerProofs!Next
  <2>3. CASE Connect(t) \/ Refused(t) \/ SendToServer(t) \/ SendFails(t) \/ Finish(t)
    BY <2>2, <2>3 DEF Connect, Refused, SendToServer, SendFails, Finish
  <2>4. CASE NoConnection(t) \/ SendToNobody(t)
    BY <1>2, <2>4 DEF NoConnection, SendToNobody
  <2>5. CASE BrokenPipe(t)
    <3> DEFINE D == {c \in Sends : client[c] = "connected"}
    <3>1. /\ client' = [c \in Sends |-> IF c \in D THEN "closed" ELSE client[c]]
          /\ unsent' = [c \in Sends |-> IF c \in D THEN <<>> ELSE unsent[c]]
          /\ UNCHANGED <<server, stop_flag, backlog, client_fd, pending_line,
                         event_queue_, wire, received>>
      BY <2>5 DEF BrokenPipe
    <3>2. /\ UNCHANGED <<ServerProofs!start_vars, ServerProofs!connection_vars>>
      BY <3>1 DEF ServerProofs!start_vars, ServerProofs!connection_vars
    <3>3. /\ wire \in [Sends -> Seq(ServerProofs!Symbols)]
          /\ unsent \in [Sends -> Seq(ServerProofs!Symbols)]
          /\ client \in [Sends -> {"new", "refused", "connected", "closed", "reset"}]
      BY DEF ServerProofs!IInv, ServerProofs!TypeOK
    <3>4. <<>> \in Seq(ServerProofs!Symbols)
      OBVIOUS
    <3>5. /\ wire' \in [Sends -> Seq(ServerProofs!Symbols)]
          /\ unsent' \in [Sends -> Seq(ServerProofs!Symbols)]
          /\ client' \in [Sends -> {"new", "refused", "connected", "closed", "reset"}]
      BY <3>1, <3>3, <3>4
    <3>6. /\ D \in SUBSET Sends
          /\ \A c \in D : /\ client[c] # "new" /\ client'[c] # "new"
                          /\ wire'[c] = wire[c] \/ wire'[c] = <<>>
                          /\ unsent'[c] = <<>>
          /\ \A c \in Sends \ D :
               client'[c] = client[c] /\ wire'[c] = wire[c] /\ unsent'[c] = unsent[c]
      BY <3>1
    <3> HIDE DEF D
    <3>7. QED
      BY <3>2, <3>5, <3>6, ServerProofs!ClientsEndStep, ServerConstants
  <2>6. QED
    BY <1>5, <2>3, <2>4, <2>5 DEF SendEvent
<1>6. QED
  BY <1>3, <1>4, <1>5 DEF Next

-----------------------------------------------------------------------------
(* The simulator's invariant *)

\* A set of numbers up to n that is not empty has a largest one.
LEMMA LargestGiven ==
  ASSUME NEW n \in Nat, NEW S \in SUBSET (1 .. n), S # {}
  PROVE  Max(S) \in S
<1> DEFINE T == {n - i : i \in S}
           Largest(x) == \A y \in S : x >= y
<1>1. T \subseteq Nat /\ T # {}
  OBVIOUS
<1>2. PICK m \in T : \A k \in T : m <= k
  BY <1>1, LeastNatural
<1>3. PICK x \in S : m = n - x
  BY <1>2
<1>4. Largest(x)
  <2>1. \A y \in S : n - x <= n - y
    BY <1>2, <1>3
  <2>2. QED
    BY <2>1
<1>5. Max(S) = CHOOSE y \in S : Largest(y)
  BY DEF Max
<1> HIDE DEF Largest
<1>6. QED
  BY <1>3, <1>4, <1>5

\* An option that is given has one of the values given for it.
LEMMA ValueGiven ==
  ASSUME NEW argv \in Seq(STRING), NEW option, NEW default
  PROVE  \/ ValueOf(option, argv, default) = default
         \/ \E i \in 1 .. Len(argv) \div 2 :
              argv[2 * i - 1] = option /\ ValueOf(option, argv, default) = argv[2 * i]
<1> DEFINE n == Len(argv) \div 2
           given == {i \in 1 .. n : argv[2 * i - 1] = option}
<1>1. ValueOf(option, argv, default) = IF given = {} THEN default ELSE argv[2 * Max(given)]
  BY DEF ValueOf
<1>2. n \in Nat
  BY LenProperties
<1> HIDE DEF n
<1>3. given # {} => Max(given) \in given
  BY <1>2, LargestGiven
<1>4. QED
  BY <1>1, <1>3 DEF n

\* parse_arguments() returns a mode and a number of seconds.
LEMMA ArgumentsType ==
  ASSUME NEW argv \in Arguments, WellFormed(argv)
  PROVE  ValueOf("--mode", argv, "normal") \in Modes /\ DurationIn(argv) \in Int
<1>1. /\ argv \in Seq(STRING)
      /\ \A text \in DOMAIN Numbers : Numbers[text] \in Int
  BY SimulatorAssumption
<1>2. \A i \in 1 .. Len(argv) \div 2 :
        \/ argv[2 * i - 1] = "--duration" /\ argv[2 * i] \in DOMAIN Numbers
        \/ argv[2 * i - 1] = "--mode" /\ argv[2 * i] \in Modes
  BY DEF WellFormed
<1>3. ValueOf("--mode", argv, "normal") \in Modes
  <2>1. "normal" \in Modes
    BY DEF Modes
  <2>2. QED
    BY <1>1, <1>2, <2>1, ValueGiven
<1> DEFINE text == ValueOf("--duration", argv, "")
<1>4. text \in DOMAIN Numbers \cup {""}
  <2> DEFINE option == "--duration"
             none == ""
  <2>1. \/ text = none
        \/ \E i \in 1 .. Len(argv) \div 2 : argv[2 * i - 1] = option /\ text = argv[2 * i]
    <3>1. text = ValueOf(option, argv, none)
      OBVIOUS
    <3> HIDE DEF option, none, text
    <3>2. QED
      BY <1>1, <3>1, ValueGiven
  <2> HIDE DEF text
  <2>2. ASSUME NEW i \in 1 .. Len(argv) \div 2, argv[2 * i - 1] = option, text = argv[2 * i]
        PROVE  text \in DOMAIN Numbers
    <3>1. argv[2 * i] \in DOMAIN Numbers
      BY <1>2, <2>2
    <3>2. QED
      BY <2>2, <3>1
  <2>3. QED
    BY <2>1, <2>2
<1>5. DurationIn(argv) = IF text = "" THEN 60 ELSE Numbers[text]
  BY DEF DurationIn
<1> HIDE DEF text
<1>6. CASE text = ""
  <2>1. DurationIn(argv) = 60
    BY <1>5, <1>6
  <2>2. QED
    BY <1>3, <2>1
<1>7. CASE text # ""
  <2>1. DurationIn(argv) = Numbers[text] /\ text \in DOMAIN Numbers
    BY <1>4, <1>5, <1>7
  <2>2. QED
    BY <1>1, <1>3, <2>1
<1>8. QED
  BY <1>6, <1>7

\* main() before it starts.
LEMMA InitSimulator == SimulatorInit => SimulatorInv
<1> SUFFICES ASSUME SimulatorInit PROVE SimulatorInv
  OBVIOUS
<1> USE SimulatorAssumption DEF SimulatorInit
<1>1. SimulatorTypeOK
  BY DEF SimulatorTypeOK, Modes
<1>2. ThreadInv /\ NumberInv
  BY DEF ThreadInv, NumberInv, EventNumbersAreUnique
<1>3. QED
  BY <1>1, <1>2 DEF SimulatorInv

\* main() and the clock.
LEMMA MainStep ==
  ASSUME SimulatorInv, ParseArguments \/ WsaStartup \/ AllStarted \/ JoinAll \/ TimePasses
  PROVE  SimulatorInv'
<1>1. UNCHANGED <<number_vars, thread, end_time, timestamp, send_vars>>
  BY DEF ParseArguments, WsaStartup, AllStarted, JoinAll, TimePasses
<1>2. SimulatorTypeOK /\ ThreadInv /\ NumberInv /\ MaxTime \in Nat
  BY SimulatorAssumption DEF SimulatorInv
<1>3. /\ simulator' \in {"arguments", "generate_dataset", "wsa_startup", "starting",
                         "joining", "returned", "failed", "killed"}
      /\ mode' \in Modes /\ duration' \in Nat
      /\ duration' = duration \/ duration = 0
      /\ simulator' = "arguments" => duration' = 0
  <2>1. CASE ParseArguments
    <3>1. simulator = "arguments" /\ duration = 0 /\ mode \in Modes
      BY <1>2, <2>1 DEF ParseArguments, ThreadInv, SimulatorTypeOK
    <3>2. PICK argv \in Arguments :
            IF WellFormed(argv) /\ DurationIn(argv) > 0
            THEN /\ mode' = ValueOf("--mode", argv, "normal")
                 /\ duration' = DurationIn(argv)
                 /\ simulator' \in {"generate_dataset", "wsa_startup"}
            ELSE simulator' = "failed" /\ mode' = mode /\ duration' = duration
      BY <2>1 DEF ParseArguments, option_vars
    <3>3. CASE WellFormed(argv) /\ DurationIn(argv) > 0
      BY <3>1, <3>2, <3>3, ArgumentsType
    <3>4. CASE ~(WellFormed(argv) /\ DurationIn(argv) > 0)
      BY <3>1, <3>2, <3>4
    <3>5. QED
      BY <3>3, <3>4
  <2>2. CASE WsaStartup \/ AllStarted \/ JoinAll \/ TimePasses
    BY <1>2, <2>2 DEF WsaStartup, AllStarted, JoinAll, TimePasses, ThreadInv,
                      SimulatorTypeOK, option_vars
  <2>3. QED
    BY <2>1, <2>2
<1>4. now' \in 0 .. MaxTime /\ now <= now' /\ now \in 0 .. MaxTime
  BY <1>2 DEF SimulatorTypeOK, ParseArguments, WsaStartup, AllStarted, JoinAll, TimePasses
<1>5. SimulatorTypeOK'
  <2>1. end_time' \in [Threads -> 0 .. MaxTime + duration']
    <3>1. end_time \in [Threads -> 0 .. MaxTime + duration] /\ end_time' = end_time
      BY <1>1, <1>2 DEF SimulatorTypeOK
    <3>2. 0 .. MaxTime + duration \subseteq 0 .. MaxTime + duration'
      BY <1>2, <1>3
    <3>3. QED
      BY <3>1, <3>2
  <2>2. QED
    BY <1>1, <1>2, <1>3, <1>4, <2>1 DEF SimulatorTypeOK, number_vars, send_vars
<1>6. ThreadInv'
  BY <1>1, <1>2, <1>3 DEF ThreadInv, number_vars, send_vars, Current
<1>7. NumberInv'
  <2>1. \A c \in DOMAIN timestamp : timestamp[c] \in 0 .. now'
    BY <1>2, <1>4 DEF NumberInv
  <2>2. QED
    BY <1>1, <1>2, <2>1 DEF NumberInv, EventNumbersAreUnique, number_vars
<1>8. QED
  BY <1>5, <1>6, <1>7 DEF SimulatorInv

\* A thread goes on, with the same numbers, stamps and results.
LEMMA ThreadMoves ==
  ASSUME SimulatorInv, NEW t \in Threads, NEW to,
         to \in {"sleep", "send", "returned"},
         to = "send" => thread[t] \in {"connect", "send"},
         thread' = [thread EXCEPT ![t] = to],
         end_time' \in [Threads -> 0 .. MaxTime + duration],
         bytes_sent' \in [Threads -> 0 .. PayloadSize],
         UNCHANGED <<main_vars, number_vars, timestamp>>,
         \/ result' = result
         \/ /\ thread[t] \in {"connect", "send"} /\ to # "send"
            /\ DOMAIN result' = DOMAIN result \cup {Current(t)}
  PROVE  SimulatorInv'
<1>1. /\ SimulatorTypeOK /\ ThreadInv /\ NumberInv
      /\ thread \in [Threads -> {"new", "sleep", "stamp", "connect", "send",
                                 "returned", "killed"}]
  BY DEF SimulatorInv, SimulatorTypeOK
<1>2. /\ \A u \in Threads : thread'[u] = IF u = t THEN to ELSE thread[u]
      /\ thread' \in [Threads -> {"new", "sleep", "stamp", "connect", "send",
                                  "returned", "killed"}]
  BY <1>1
<1>3. DOMAIN result' \subseteq DOMAIN result \cup {Current(t)}
  OBVIOUS
<1>4. SimulatorTypeOK'
  <2>1. DOMAIN result' \subseteq DOMAIN timestamp
    BY <1>1, <1>3 DEF SimulatorTypeOK, ThreadInv
  <2>2. QED
    BY <1>1, <1>2, <2>1 DEF SimulatorTypeOK, main_vars, option_vars, number_vars
<1>5. ThreadInv'
  <2> SUFFICES ASSUME NEW u \in Threads
               PROVE  /\ thread'[u] \in {"stamp", "connect", "send"} =>
                           Current(u) \in DOMAIN event_number /\ Current(u) \notin DOMAIN result'
                      /\ thread'[u] \in {"connect", "send"} => Current(u) \in DOMAIN timestamp
    BY <1>1 DEF ThreadInv, main_vars, option_vars, number_vars, Current
  <2>1. CASE u = t
    BY <1>1, <1>2, <2>1 DEF ThreadInv
  <2>2. CASE u # t
    <3>1. Current(u) # Current(t)
      BY <2>2 DEF Current
    <3>2. QED
      BY <1>1, <1>2, <1>3, <2>2, <3>1 DEF ThreadInv
  <2>3. QED
    BY <2>1, <2>2
<1>6. NumberInv'
  BY <1>1 DEF NumberInv, EventNumbersAreUnique, main_vars, number_vars
<1>7. QED
  BY <1>4, <1>5, <1>6 DEF SimulatorInv

\* A thread draws its next number: it is larger than any drawn before.
LEMMA FetchStep ==
  ASSUME SimulatorInv, NEW t \in Threads, FetchNumber(t)
  PROVE  SimulatorInv'
<1> DEFINE x == <<t, sends[t] + 1>>
<1>1. /\ SimulatorTypeOK /\ ThreadInv /\ NumberInv
      /\ thread \in [Threads -> {"new", "sleep", "stamp", "connect", "send",
                                 "returned", "killed"}]
      /\ sends \in [Threads -> Nat] /\ event_counter \in Nat /\ MaxSends[t] \in Nat
  BY SimulatorAssumption DEF SimulatorInv, SimulatorTypeOK, ThreadInv
<1>2. /\ sends[t] < MaxSends[t]
      /\ thread' = [thread EXCEPT ![t] = "stamp"]
      /\ sends' = [sends EXCEPT ![t] = @ + 1]
      /\ event_number' = With(event_number, x, event_counter)
      /\ event_counter' = event_counter + 1
      /\ UNCHANGED <<main_vars, end_time, timestamp, send_vars>>
  BY DEF FetchNumber, Goto
<1>3. /\ \A u \in Threads : thread'[u] = IF u = t THEN "stamp" ELSE thread[u]
      /\ \A u \in Threads : sends'[u] = IF u = t THEN sends[t] + 1 ELSE sends[u]
      /\ thread' \in [Threads -> {"new", "sleep", "stamp", "connect", "send",
                                  "returned", "killed"}]
      /\ sends' \in [Threads -> Nat]
  BY <1>1, <1>2
<1>4. /\ DOMAIN event_number' = DOMAIN event_number \cup {x}
      /\ \A c \in DOMAIN event_number' :
           event_number'[c] = IF c = x THEN event_counter ELSE event_number[c]
  BY <1>2 DEF With
<1>5. /\ x \in Sends /\ x[1] = t /\ x[2] = sends[t] + 1
      /\ x \notin DOMAIN event_number
      /\ \A c \in DOMAIN event_number : c \in Sends /\ c[1] \in Threads /\ c[2] \in Int
      /\ \A c \in DOMAIN event_number : c[1] = t => c[2] < x[2]
  <2>1. sends[t] + 1 \in 1 .. MaxSends[t] /\ sends[t] \in Nat
    BY <1>1, <1>2
  <2>2. x \in Sends
    BY <2>1, SendsType
  <2>3. \A c \in DOMAIN event_number : c \in Sends /\ c[1] \in Threads /\ c[2] \in Int
    BY <1>1, SendsType DEF SimulatorTypeOK
  <2>4. \A c \in DOMAIN event_number : c[2] <= sends[c[1]]
    BY <1>1 DEF ThreadInv
  <2>5. \A c \in DOMAIN event_number : c[1] = t => c[2] < sends[t] + 1
    BY <2>1, <2>3, <2>4
  <2>6. x[1] = t /\ x[2] = sends[t] + 1
    OBVIOUS
  <2> HIDE DEF x
  <2>7. x \notin DOMAIN event_number
    BY <2>1, <2>5, <2>6
  <2>8. QED
    BY <2>2, <2>3, <2>5, <2>6, <2>7
<1> HIDE DEF x
<1>6. SimulatorTypeOK'
  <2>1. \A u \in Threads : sends'[u] \in 0 .. MaxSends[u]
    BY <1>1, <1>2, <1>3 DEF SimulatorTypeOK
  <2>2. QED
    BY <1>1, <1>2, <1>3, <1>4, <1>5, <2>1 DEF SimulatorTypeOK, main_vars, option_vars, send_vars
<1>7. ThreadInv'
  <2>1. \A c \in DOMAIN event_number' : c[2] <= sends'[c[1]]
    <3>1. ASSUME NEW c \in DOMAIN event_number PROVE c[2] <= sends'[c[1]]
      <4>1. c[2] <= sends[c[1]] /\ c[1] \in Threads /\ c[2] \in Int
        BY <1>1, <1>5 DEF ThreadInv
      <4>2. sends[c[1]] \in Nat /\ (sends'[c[1]] = sends[c[1]] \/ sends'[c[1]] = sends[c[1]] + 1)
        BY <1>1, <1>3, <4>1
      <4>3. QED
        BY <4>1, <4>2
    <3>2. x[2] <= sends'[x[1]]
      BY <1>1, <1>3, <1>5
    <3>3. QED
      BY <1>4, <3>1, <3>2
  <2>2. ASSUME NEW u \in Threads, thread'[u] \in {"stamp", "connect", "send"}
        PROVE  /\ Current(u)' \in DOMAIN event_number' /\ Current(u)' \notin DOMAIN result'
               /\ thread'[u] \in {"connect", "send"} => Current(u)' \in DOMAIN timestamp'
    <3>1. CASE u = t
      <4>1. Current(u)' = x
        BY <1>3, <3>1 DEF Current, x
      <4>2. x \notin DOMAIN result'
        BY <1>1, <1>2, <1>5 DEF SimulatorTypeOK, send_vars
      <4>3. QED
        BY <1>3, <1>4, <3>1, <4>1, <4>2
    <3>2. CASE u # t
      <4>1. Current(u)' = Current(u) /\ thread'[u] = thread[u]
        BY <1>3, <3>2 DEF Current
      <4>2. QED
        BY <1>1, <1>2, <1>4, <2>2, <4>1 DEF ThreadInv, send_vars
    <3>3. QED
      BY <3>1, <3>2
  <2>3. QED
    BY <1>1, <1>2, <1>3, <2>1, <2>2 DEF ThreadInv, main_vars, option_vars
<1>8. NumberInv'
  <2>1. \A c \in DOMAIN event_number : event_number[c] \in 0 .. event_counter - 1
    BY <1>1 DEF NumberInv
  <2>2. \A c \in DOMAIN event_number' : event_number'[c] \in 0 .. event_counter' - 1
    BY <1>1, <1>2, <1>4, <2>1
  <2>3. EventNumbersAreUnique'
    <3> SUFFICES ASSUME NEW c \in DOMAIN event_number', NEW d \in DOMAIN event_number',
                        event_number'[c] = event_number'[d]
                 PROVE  c = d
      BY DEF EventNumbersAreUnique
    <3>1. CASE c # x /\ d # x
      BY <1>1, <1>4, <3>1 DEF NumberInv, EventNumbersAreUnique
    <3>2. CASE c = x \/ d = x
      BY <1>1, <1>4, <2>1, <3>2
    <3>3. QED
      BY <3>1, <3>2
  <2>4. ASSUME NEW c \in DOMAIN event_number', NEW d \in DOMAIN event_number',
               c[1] = d[1], c[2] < d[2]
        PROVE  event_number'[c] < event_number'[d]
    <3>1. CASE c # x /\ d # x
      BY <1>1, <1>4, <2>4, <3>1 DEF NumberInv
    <3>2. CASE c # x /\ d = x
      BY <1>1, <1>4, <2>1, <3>2
    <3>3. CASE c = x
      <4>1. d # x => d[2] < x[2] /\ d[2] \in Int
        BY <1>4, <1>5, <2>4, <3>3
      <4>2. x[2] \in Int
        BY <1>1, <1>5
      <4>3. QED
        BY <2>4, <3>3, <4>1, <4>2
    <3>4. QED
      BY <3>1, <3>2, <3>3
  <2>5. QED
    BY <1>1, <1>2, <2>2, <2>3, <2>4 DEF NumberInv, main_vars
<1>9. QED
  BY <1>6, <1>7, <1>8 DEF SimulatorInv

\* It stamps the event in hand: no stamp is later than now, and it has none with
\* a later number.
LEMMA StampStep ==
  ASSUME SimulatorInv, NEW t \in Threads, MakeEvent(t)
  PROVE  SimulatorInv'
<1> DEFINE x == Current(t)
<1>1. /\ SimulatorTypeOK /\ ThreadInv /\ NumberInv
      /\ thread \in [Threads -> {"new", "sleep", "stamp", "connect", "send",
                                 "returned", "killed"}]
      /\ now \in Nat
  BY SimulatorAssumption DEF SimulatorInv, SimulatorTypeOK
<1>2. /\ thread[t] = "stamp"
      /\ thread' = [thread EXCEPT ![t] = "connect"]
      /\ timestamp' = With(timestamp, x, now)
      /\ UNCHANGED <<main_vars, number_vars, end_time, send_vars>>
  BY DEF MakeEvent, Goto
<1>3. /\ \A u \in Threads : thread'[u] = IF u = t THEN "connect" ELSE thread[u]
      /\ thread' \in [Threads -> {"new", "sleep", "stamp", "connect", "send",
                                  "returned", "killed"}]
  BY <1>1, <1>2
<1>4. /\ DOMAIN timestamp' = DOMAIN timestamp \cup {x}
      /\ \A c \in DOMAIN timestamp' :
           timestamp'[c] = IF c = x THEN now ELSE timestamp[c]
  BY <1>2 DEF With
<1>5. /\ x \in Sends /\ x[1] = t /\ x[2] = sends[t] /\ x \in DOMAIN event_number
      /\ sends[t] \in Nat
  BY <1>1, <1>2, CurrentType DEF ThreadInv, SimulatorInv
<1>6. SimulatorTypeOK'
  BY <1>1, <1>2, <1>3, <1>4, <1>5 DEF SimulatorTypeOK, main_vars, option_vars,
     number_vars, send_vars
<1>7. ThreadInv'
  <2>1. \A u \in Threads : Current(u)' = Current(u)
    BY <1>2 DEF Current, number_vars
  <2>2. ASSUME NEW u \in Threads, thread'[u] \in {"stamp", "connect", "send"}
        PROVE  /\ Current(u)' \in DOMAIN event_number' /\ Current(u)' \notin DOMAIN result'
               /\ thread'[u] \in {"connect", "send"} => Current(u)' \in DOMAIN timestamp'
    <3>1. CASE u = t
      BY <1>1, <1>2, <1>4, <2>1, <3>1 DEF ThreadInv, number_vars, send_vars
    <3>2. CASE u # t
      BY <1>1, <1>2, <1>3, <1>4, <2>1, <2>2, <3>2 DEF ThreadInv, number_vars, send_vars
    <3>3. QED
      BY <3>1, <3>2
  <2>3. QED
    BY <1>1, <1>2, <2>2 DEF ThreadInv, main_vars, option_vars, number_vars
<1> HIDE DEF x
<1>8. NumberInv'
  <2>1. \A c \in DOMAIN timestamp : timestamp[c] \in 0 .. now
    BY <1>1 DEF NumberInv
  <2>2. \A c \in DOMAIN timestamp' : timestamp'[c] \in 0 .. now
    BY <1>1, <1>4, <2>1
  <2>3. \A c \in DOMAIN timestamp : c[1] = t => ~(x[2] < c[2])
    <3>1. \A c \in DOMAIN timestamp : c[2] <= sends[c[1]] /\ c[2] \in Int
      BY <1>1, SendsType DEF ThreadInv, SimulatorTypeOK
    <3>2. QED
      BY <1>5, <3>1
  <2>4. ASSUME NEW c \in DOMAIN timestamp', NEW d \in DOMAIN timestamp',
               c[1] = d[1], c[2] < d[2]
        PROVE  timestamp'[c] <= timestamp'[d]
    <3>1. CASE c # x /\ d # x
      BY <1>1, <1>4, <2>4, <3>1 DEF NumberInv
    <3>2. CASE d = x
      BY <1>1, <1>4, <2>2, <2>4, <3>2
    <3>3. CASE c = x /\ d # x
      BY <1>4, <1>5, <2>3, <2>4, <3>3
    <3>4. QED
      BY <3>1, <3>2, <3>3
  <2>5. QED
    BY <1>1, <1>2, <2>2, <2>4 DEF NumberInv, EventNumbersAreUnique, main_vars, number_vars
<1>9. QED
  BY <1>6, <1>7, <1>8 DEF SimulatorInv

\* SIGPIPE ends all threads.
LEMMA KilledStep ==
  ASSUME SimulatorInv, NEW t \in Threads, KilledBySigpipe(t)
  PROVE  SimulatorInv'
<1>1. /\ SimulatorTypeOK /\ ThreadInv /\ NumberInv
      /\ simulator' = "killed" /\ thread' = [u \in Threads |-> "killed"]
      /\ UNCHANGED <<option_vars, now, number_vars, end_time, timestamp, send_vars>>
  BY DEF SimulatorInv, KilledBySigpipe
<1>2. SimulatorTypeOK'
  BY <1>1 DEF SimulatorTypeOK, option_vars, number_vars, send_vars
<1>3. ThreadInv'
  BY <1>1 DEF ThreadInv, number_vars
<1>4. NumberInv'
  BY <1>1 DEF NumberInv, EventNumbersAreUnique, number_vars
<1>5. QED
  BY <1>2, <1>3, <1>4 DEF SimulatorInv

\* What the server does to the simulator is nothing.
LEMMA SimulatorStays ==
  ASSUME SimulatorInv, UNCHANGED simulator_vars PROVE SimulatorInv'
BY DEF SimulatorInv, SimulatorTypeOK, ThreadInv, NumberInv, EventNumbersAreUnique, Current,
  simulator_vars, main_vars, option_vars, number_vars, send_vars

\* Every step keeps the simulator's invariant.
LEMMA SimulatorKept == SimulatorInv /\ [Next]_vars => SimulatorInv'
<1> SUFFICES ASSUME SimulatorInv, [Next]_vars PROVE SimulatorInv'
  OBVIOUS
<1>1. /\ SimulatorTypeOK
      /\ thread \in [Threads -> {"new", "sleep", "stamp", "connect", "send",
                                 "returned", "killed"}]
      /\ end_time \in [Threads -> 0 .. MaxTime + duration]
      /\ bytes_sent \in [Threads -> 0 .. PayloadSize]
      /\ PayloadSize \in Nat /\ MaxTime \in Nat /\ now \in 0 .. MaxTime /\ duration \in Nat
  BY SimulatorAssumption DEF SimulatorInv, SimulatorTypeOK
<1>2. CASE UNCHANGED simulator_vars
  BY <1>2, SimulatorStays
<1>3. CASE ParseArguments \/ WsaStartup \/ AllStarted \/ JoinAll \/ TimePasses
  BY <1>3, MainStep
<1>4. ASSUME NEW t \in Threads, StartThread(t) \/ PrepareEvent(t) PROVE SimulatorInv'
  <2>1. CASE StartThread(t)
    <3>1. end_time' = [end_time EXCEPT ![t] = now + duration]
      BY <2>1 DEF StartThread
    <3>2. end_time' \in [Threads -> 0 .. MaxTime + duration]
      BY <1>1, <3>1
    <3>3. QED
      BY <1>1, <2>1, <3>2, ThreadMoves DEF StartThread, Goto, send_vars
  <2>2. CASE WakeUpAtEnd(t)
    BY <1>1, <2>2, ThreadMoves DEF WakeUpAtEnd, Goto, send_vars
  <2>3. CASE FetchNumber(t) \/ MakeEvent(t)
    BY <2>3, FetchStep, StampStep
  <2>4. QED
    BY <1>4, <2>1, <2>2, <2>3 DEF PrepareEvent
<1>5. ASSUME NEW t \in Threads, SendEvent(t) PROVE SimulatorInv'
  <2>1. CASE Connected(t)
    <3>1. bytes_sent' \in [Threads -> 0 .. PayloadSize]
      BY <1>1, <2>1 DEF Connected
    <3>2. QED
      BY <1>1, <2>1, <3>1, ThreadMoves DEF Connected, Goto
  <2>2. ASSUME NEW from \in {"connect", "send"}, NEW value,
               Goto(t, from, TestEnd(t)),
               result' = With(result, Current(t), value),
               UNCHANGED <<main_vars, number_vars, end_time, timestamp, bytes_sent>>
        PROVE  SimulatorInv'
    <3>1. DOMAIN result' = DOMAIN result \cup {Current(t)}
      BY <2>2 DEF With
    <3>2. /\ TestEnd(t) \in {"sleep", "returned"} /\ thread[t] \in {"connect", "send"}
          /\ thread' = [thread EXCEPT ![t] = TestEnd(t)]
      BY <2>2 DEF TestEnd, Goto
    <3> DEFINE to == TestEnd(t)
    <3> HIDE DEF to
    <3>3. QED
      BY <1>1, <2>2, <3>1, <3>2, ThreadMoves DEF to
  <2>3. CASE ReturnFalse(t, "connect") \/ ReturnFalse(t, "send") \/ ReturnTrue(t)
    BY <2>2, <2>3 DEF ReturnFalse, ReturnTrue
  <2>4. CASE SendSome(t)
    <3>1. /\ bytes_sent[t] < PayloadSize /\ thread[t] = "send"
          /\ bytes_sent' = [bytes_sent EXCEPT ![t] = @ + 1]
          /\ thread' = [thread EXCEPT ![t] = "send"]
          /\ UNCHANGED <<main_vars, number_vars, end_time, timestamp, result>>
      BY <1>1, <2>4 DEF SendSome
    <3>2. bytes_sent' \in [Threads -> 0 .. PayloadSize]
      BY <1>1, <3>1
    <3>3. QED
      BY <1>1, <3>1, <3>2, ThreadMoves
  <2>5. CASE KilledBySigpipe(t)
    BY <2>5, KilledStep
  <2>6. QED
    BY <1>5, <2>1, <2>3, <2>4, <2>5 DEF SendEvent, Connect, Refused, NoConnection,
       SendToServer, SendToNobody, SendFails, BrokenPipe, Finish
<1>6. QED
  BY <1>2, <1>3, <1>4, <1>5 DEF Next, SimulatorPrepares, SimulatorMain, ClockTicks,
     ServerServes, ServerGivesUp, Interrupt, vars

\* A connection that is given up is one that was accepted.
LEMMA GivenUpKept ==
  ASSUME EndsInv, [Next]_vars
  PROVE  given_up' \subseteq Sends
<1>1. CASE ServerGivesUp
  <2>1. client_fd \in Sends
    BY <1>1 DEF ServerGivesUp, Server!ReceiveTimesOut, EndsInv, ServerProofs!IInv,
       ServerProofs!TypeOK, ServerProofs!ConnectionInv
  <2>2. QED
    BY <1>1, <2>1 DEF ServerGivesUp, EndsInv
<1>2. CASE given_up' = given_up
  BY <1>2 DEF EndsInv
<1>3. QED
  BY <1>1, <1>2 DEF Next, SimulatorPrepares, ClockTicks, SendEvent, Connect, Refused,
     NoConnection, SendToServer, SendToNobody, SendFails, BrokenPipe, Finish,
     ServerServes, Interrupt, vars

-----------------------------------------------------------------------------
(* Connections *)

\* What the steps use of the types.
LEMMA LinkTypes ==
  ASSUME EndsInv
  PROVE  /\ \A c \in Sends :
              /\ received[c] \in Nat
              /\ wire[c] \in Seq(ServerProofs!Symbols) /\ Len(wire[c]) \in Nat
              /\ unsent[c] \in Seq(ServerProofs!Symbols) /\ Len(unsent[c]) \in Nat
              /\ received[c] + Len(wire[c]) + Len(unsent[c]) <= 2
              /\ c[1] \in Threads
         /\ \A t \in Threads : bytes_sent[t] \in 0 .. 2
         /\ received \in [Sends -> Nat]
         /\ wire \in [Sends -> Seq(ServerProofs!Symbols)]
         /\ unsent \in [Sends -> Seq(ServerProofs!Symbols)]
         /\ client \in [Sends -> {"new", "refused", "connected", "closed", "reset"}]
         /\ backlog \in Seq(Sends) /\ Len(backlog) \in Nat
         /\ DOMAIN backlog = 1 .. Len(backlog)
         /\ \A i \in DOMAIN backlog : backlog[i] \in Sends
         /\ DOMAIN result \subseteq Sends
<1>1. \A c \in Sends : Len([d \in Sends |-> <<d, Newline>>][c]) = 2
  OBVIOUS
<1>2. ServerProofs!TypeOK /\ SimulatorTypeOK
  BY DEF EndsInv, ServerProofs!IInv, SimulatorInv
<1>3. /\ backlog \in Seq(Sends) /\ Len(backlog) \in Nat /\ DOMAIN backlog = 1 .. Len(backlog)
      /\ \A i \in DOMAIN backlog : backlog[i] \in Sends
  BY <1>2, LenProperties, ElementOfSeq DEF ServerProofs!TypeOK
<1>4. /\ received \in [Sends -> Nat]
      /\ wire \in [Sends -> Seq(ServerProofs!Symbols)]
      /\ unsent \in [Sends -> Seq(ServerProofs!Symbols)]
      /\ client \in [Sends -> {"new", "refused", "connected", "closed", "reset"}]
  BY <1>2 DEF ServerProofs!TypeOK
<1>5. \A c \in Sends : received[c] + Len(wire[c]) + Len(unsent[c]) <= 2
  BY <1>1, <1>2 DEF ServerProofs!TypeOK
<1>6. \A c \in Sends : Len(wire[c]) \in Nat /\ Len(unsent[c]) \in Nat
  BY <1>4, LenProperties
<1>7. \A t \in Threads : bytes_sent[t] \in 0 .. 2
  BY <1>2, TrafficAssumption DEF SimulatorTypeOK
<1>8. DOMAIN result \subseteq Sends
  BY <1>2 DEF SimulatorTypeOK
<1>9. QED
  BY <1>3, <1>4, <1>5, <1>6, <1>7, <1>8, SendsType

\* Where nothing moves between the two ends.
LEMMA LinkStays ==
  ASSUME BytesInv, QueueInv, LossInv, LineInv,
         UNCHANGED <<server_vars, given_up, bytes_sent, result>>
  PROVE  BytesInv' /\ QueueInv' /\ LossInv' /\ LineInv'
BY DEF server_vars, BytesInv, QueueInv, LossInv, LineInv, Held, Arrived, Pushed, Before,
  ServerProofs!Done

\* Between two calls a thread touches no connection.
LEMMA PrepareStep ==
  ASSUME EndsInv, LinkInv, SimulatorPrepares \/ ClockTicks
  PROVE  LinkInv'
<1>1. UNCHANGED <<server_vars, given_up, bytes_sent, result>>
  BY DEF SimulatorPrepares, ClockTicks, TimePasses, SimulatorMain, ParseArguments,
     WsaStartup, AllStarted, JoinAll, StartThread, PrepareEvent, WakeUpAtEnd, FetchNumber,
     MakeEvent, send_vars
<1>2. client' = client /\ ClientInv /\ SimulatorTypeOK /\ ThreadInv
  BY <1>1 DEF server_vars, LinkInv, EndsInv, SimulatorInv
<1>3. ClientInv'
  <2>1. CASE UNCHANGED <<thread, timestamp, sends>>
    BY <1>2, <2>1 DEF ClientInv, Current
  <2>2. ASSUME NEW t \in Threads, StartThread(t) \/ WakeUpAtEnd(t) PROVE ClientInv'
    <3>1. /\ thread[t] \in {"new", "sleep"}
          /\ \A u \in Threads : thread'[u] = thread[u] \/ (u = t /\ thread'[u] \in {"sleep", "returned"})
          /\ UNCHANGED <<timestamp, sends>>
      BY <1>2, <2>2 DEF StartThread, WakeUpAtEnd, Goto, number_vars, SimulatorTypeOK
    <3>2. QED
      BY <1>2, <3>1, SendsType DEF ClientInv, Current
  <2>3. ASSUME NEW t \in Threads, FetchNumber(t) PROVE ClientInv'
    <3> DEFINE x == <<t, sends[t] + 1>>
    <3>1. /\ thread[t] = "sleep" /\ timestamp' = timestamp
          /\ \A u \in Threads : u # t => thread'[u] = thread[u] /\ sends'[u] = sends[u]
          /\ thread'[t] = "stamp" /\ sends'[t] = sends[t] + 1 /\ sends[t] \in Nat
          /\ sends[t] < MaxSends[t] /\ MaxSends[t] \in Nat
      BY <1>2, <2>3, SimulatorAssumption DEF FetchNumber, Goto, SimulatorTypeOK, ThreadInv
    <3>2. x \in Sends
      BY <3>1, SendsType
    <3>3. x \notin DOMAIN timestamp
      <4>1. x \notin DOMAIN event_number
        BY <1>2, <3>1 DEF ThreadInv
      <4>2. QED
        BY <1>2, <4>1 DEF SimulatorTypeOK
    <3>4. client[x] = "new"
      BY <1>2, <3>2, <3>3 DEF ClientInv
    <3>5. Current(t)' = x /\ \A u \in Threads : u # t => Current(u)' = Current(u)
      BY <3>1 DEF Current
    <3> HIDE DEF x
    <3>6. QED
      BY <1>2, <3>1, <3>4, <3>5, SendsType DEF ClientInv
  <2>4. ASSUME NEW t \in Threads, MakeEvent(t) PROVE ClientInv'
    <3>1. /\ thread[t] = "stamp" /\ sends' = sends
          /\ \A u \in Threads : thread'[u] = IF u = t THEN "connect" ELSE thread[u]
          /\ DOMAIN timestamp \subseteq DOMAIN timestamp'
      BY <1>2, <2>4 DEF MakeEvent, Goto, SimulatorTypeOK, number_vars, With
    <3>2. \A u \in Threads : Current(u)' = Current(u)
      BY <3>1 DEF Current
    <3>3. QED
      BY <1>2, <3>1, <3>2, SendsType DEF ClientInv
  <2>5. QED
    BY <2>1, <2>2, <2>3, <2>4 DEF SimulatorPrepares, SimulatorMain, ParseArguments,
       WsaStartup, AllStarted, JoinAll, ClockTicks, TimePasses, PrepareEvent, number_vars
<1>4. QED
  BY <1>1, <1>3, LinkStays DEF LinkInv

-----------------------------------------------------------------------------
(* The server's steps *)

\* A line is a whole event: the connection's own, and the first thing on it.
LEMMA WholeLine ==
  ASSUME EndsInv, ServerProofs!HasLine, client_fd \in Sends
  PROVE  /\ ServerProofs!Done(client_fd) = 0
         /\ ServerProofs!NewlinePosition = 2
         /\ pending_line[1] = client_fd
<1> DEFINE c == client_fd
           d == ServerProofs!Done(c)
           p == ServerProofs!NewlinePosition
           S == [x \in Sends |-> <<x, Newline>>][c]
<1>1. /\ d \in 0 .. Len(S) /\ d + p \in d + 1 .. Len(S)
      /\ d # 0 => S[d] = Newline
      /\ S[d + p] = Newline
      /\ pending_line[1] = S[d + 1]
  <2>1. ServerProofs!IInv
    BY DEF EndsInv
  <2>2. QED
    BY <2>1, ServerProofs!LineInScript, ServerConstants
<1>2. p \in Int
  BY ServerProofs!FirstNewline, ServerConstants DEF EndsInv, ServerProofs!IInv
<1>3. S = <<c, Newline>> /\ c # Newline
  BY ServerConstants
<1>4. S[1] = c /\ S[2] = Newline /\ Len(S) = 2
  BY <1>3
<1> HIDE DEF c, d, p, S
<1>5. d = 0
  BY <1>1, <1>2, <1>3, <1>4
<1>6. p = 2
  BY <1>1, <1>2, <1>3, <1>4, <1>5
<1>7. QED
  BY <1>1, <1>4, <1>5, <1>6 DEF c, d, p

\* No connection here is reset, and every line is an event.
LEMMA NeverResets ==
  ASSUME EndsInv, LinkInv
  PROVE  ~Server!AcceptFails /\ ~Server!RejectLine
<1>1. ~Server!AcceptFails
  <2> SUFFICES ASSUME Server!AcceptFails PROVE FALSE
    OBVIOUS
  <2>1. /\ server = "accept" /\ backlog # <<>> /\ client[Head(backlog)] = "reset"
    BY DEF Server!AcceptFails, EndsInv, ServerProofs!IInv, ServerProofs!ConnectionInv
  <2>2. Head(backlog) \in Sends
    BY <2>1, LinkTypes, HeadTailProperties
  <2>3. QED
    BY <2>1, <2>2 DEF LinkInv, ClientInv
<1>2. ~Server!RejectLine
  <2> SUFFICES ASSUME Server!RejectLine PROVE FALSE
    OBVIOUS
  <2>1. ServerProofs!RejectLine /\ ServerProofs!IInv
    BY SameServerActions, SameLines DEF EndsInv, Server!RejectLine, ServerProofs!RejectLine,
       Server!Parses, ServerProofs!Parses, Server!client_vars, ServerProofs!client_vars
  <2>2. client_fd \in Sends /\ ServerProofs!HasLine /\ ~ServerProofs!Parses(ServerProofs!NextLine)
    BY <2>1, ServerProofs!LineStep, ServerConstants DEF ServerProofs!RejectLine
  <2>3. QED
    BY <2>1, <2>2, WholeLine, EventsAreParsed, ServerProofs!ParsedLine, ServerConstants
       DEF ServerProofs!IInv
<1>3. QED
  BY <1>1, <1>2

\* Steps that touch no connection.
LEMMA QuietStep ==
  ASSUME EndsInv, LinkInv,
         UNCHANGED <<ServerProofs!connection_vars, ServerProofs!client_vars, simulator_vars>>,
         stop_flag => stop_flag', given_up \subseteq given_up',
         server' = "close_client" =>
           \/ client[client_fd] = "closed" /\ wire[client_fd] = <<>>
           \/ client_fd \in given_up'
           \/ stop_flag'
  PROVE  LinkInv'
<1> USE DEF LinkInv, ServerProofs!connection_vars, ServerProofs!client_vars, simulator_vars,
            main_vars, number_vars, send_vars
<1>1. ClientInv'
  BY DEF ClientInv, Current
<1>2. BytesInv' /\ QueueInv' /\ LineInv'
  BY DEF BytesInv, QueueInv, LineInv, Held, Arrived, Pushed, Before, ServerProofs!Done
<1>3. LossInv'
  BY DEF LossInv, Held, Pushed
<1>4. QED
  BY <1>1, <1>2, <1>3

\* Accepting moves a connection from the backlog to client_fd: it is held before
\* and after, and the oldest of its thread.
LEMMA AcceptLink ==
  ASSUME EndsInv, LinkInv, Server!Accept, UNCHANGED <<simulator_vars, given_up>>
  PROVE  LinkInv'
<1>1. /\ ServerProofs!Accept /\ ServerProofs!IInv
      /\ server = "accept" /\ client_fd = NoClient /\ backlog # <<>>
      /\ client_fd' = Head(backlog) /\ backlog' = Tail(backlog)
      /\ server' = "test" /\ stop_flag' = stop_flag /\ event_queue_' = event_queue_
      /\ received' = received /\ client' = client /\ unsent' = unsent /\ wire' = wire
      /\ UNCHANGED <<simulator_vars, given_up>>
  BY DEF EndsInv, ServerProofs!IInv, ServerProofs!ConnectionInv, Server!Accept,
     ServerProofs!Accept, Server!client_vars, ServerProofs!client_vars
<1>2. /\ Head(backlog) = backlog[1] /\ Tail(backlog) \in Seq(Sends)
      /\ Len(Tail(backlog)) = Len(backlog) - 1
      /\ Len(backlog) \in Nat \ {0}
      /\ \A i \in 1 .. Len(Tail(backlog)) : Tail(backlog)[i] = backlog[i + 1]
      /\ DOMAIN backlog = 1 .. Len(backlog) /\ DOMAIN Tail(backlog) = 1 .. Len(Tail(backlog))
      /\ \A i \in DOMAIN backlog : backlog[i] \in Sends
  BY <1>1, LinkTypes, HeadTailProperties, LenProperties
<1>3. \A c \in Sends : ServerProofs!Done(c)' = ServerProofs!Done(c)
  BY <1>1, ServerProofs!AcceptStep, ServerConstants
<1>4. \A c \in Sends : Held(c)' <=> Held(c)
  <2> SUFFICES ASSUME NEW c \in Sends PROVE Held(c)' <=> Held(c)
    OBVIOUS
  <2>1. Held(c)' <=> c = backlog[1] \/ \E i \in 1 .. Len(backlog) - 1 : backlog[i + 1] = c
    BY <1>1, <1>2 DEF Held
  <2>2. Held(c) <=> \E i \in 1 .. Len(backlog) : backlog[i] = c
    BY <1>1, <1>2, ServerConstants DEF Held
  <2>3. ASSUME NEW i \in 1 .. Len(backlog), backlog[i] = c
        PROVE  c = backlog[1] \/ \E j \in 1 .. Len(backlog) - 1 : backlog[j + 1] = c
    <3>1. i # 1 => i - 1 \in 1 .. Len(backlog) - 1 /\ (i - 1) + 1 = i
      BY <1>2
    <3>2. QED
      BY <2>3, <3>1
  <2>4. ASSUME NEW j \in 1 .. Len(backlog) - 1 PROVE j + 1 \in 1 .. Len(backlog)
    BY <1>2
  <2>5. 1 \in 1 .. Len(backlog)
    BY <1>2
  <2>6. QED
    BY <2>1, <2>2, <2>3, <2>4, <2>5
<1>5. ClientInv'
  BY <1>1 DEF LinkInv, ClientInv, Current, simulator_vars, number_vars
<1>6. BytesInv'
  BY <1>1, <1>4 DEF LinkInv, BytesInv, Arrived, simulator_vars, send_vars
<1>7. QueueInv'
  BY <1>1, <1>3 DEF LinkInv, QueueInv, Pushed
<1>8. LossInv'
  BY <1>1, <1>4 DEF LinkInv, LossInv, Pushed, simulator_vars, send_vars
<1>9. LineInv'
  <2>1. ASSUME NEW i \in DOMAIN backlog' PROVE Before(client_fd', backlog'[i])
    <3>1. 1 \in DOMAIN backlog /\ i + 1 \in DOMAIN backlog /\ 1 < i + 1
      BY <1>1, <1>2
    <3>2. Before(backlog[1], backlog[i + 1])
      BY <3>1 DEF LinkInv, LineInv
    <3>3. QED
      BY <1>1, <1>2, <3>2
  <2>2. ASSUME NEW i \in DOMAIN backlog', NEW j \in DOMAIN backlog', i < j
        PROVE  Before(backlog'[i], backlog'[j])
    <3>1. i + 1 \in DOMAIN backlog /\ j + 1 \in DOMAIN backlog /\ i + 1 < j + 1
      BY <1>1, <1>2, <2>2
    <3>2. Before(backlog[i + 1], backlog[j + 1])
      BY <3>1 DEF LinkInv, LineInv
    <3>3. QED
      BY <1>1, <1>2, <3>2
  <2>3. ASSUME NEW c \in Pushed', NEW e \in Sends, Held(e)', c # e PROVE Before(c, e)
    BY <1>1, <1>4, <2>3 DEF LinkInv, LineInv, Pushed
  <2>4. \A i, j \in DOMAIN event_queue_' :
          i < j => Before(event_queue_'[i][2], event_queue_'[j][2])
    BY <1>1 DEF LinkInv, LineInv
  <2>5. QED
    BY <2>1, <2>2, <2>3, <2>4 DEF LineInv, Before
<1>10. QED
  BY <1>5, <1>6, <1>7, <1>8, <1>9 DEF LinkInv

\* Reading moves what has arrived from the wire to pending_line.
LEMMA ReceiveLink ==
  ASSUME EndsInv, LinkInv, Server!Receive, UNCHANGED <<simulator_vars, given_up>>
  PROVE  LinkInv'
<1> DEFINE b == client_fd
<1>1. /\ ServerProofs!Receive /\ ServerProofs!IInv
      /\ b \in Sends /\ server' = "lines"
      /\ UNCHANGED <<stop_flag, backlog, client_fd, event_queue_, client, unsent,
                     simulator_vars, given_up>>
  BY DEF EndsInv, ServerProofs!IInv, ServerProofs!TypeOK, ServerProofs!ConnectionInv,
     Server!Receive, ServerProofs!Receive
<1>2. PICK n \in 1 .. Len(wire[b]) :
        /\ wire' = [wire EXCEPT ![b] = SubSeq(@, n + 1, Len(@))]
        /\ received' = [received EXCEPT ![b] = @ + n]
  BY DEF Server!Receive
<1>3. \A c \in Sends : ServerProofs!Done(c)' = ServerProofs!Done(c)
  BY <1>1, ServerProofs!ReceiveStep, ServerConstants
<1>4. /\ wire \in [Sends -> Seq(ServerProofs!Symbols)] /\ received \in [Sends -> Nat]
      /\ wire[b] \in Seq(ServerProofs!Symbols) /\ Len(wire[b]) \in Nat /\ received[b] \in Nat
  BY <1>1, LinkTypes
<1>5. \A c \in Sends : Arrived(c)' = Arrived(c)
  <2>1. ASSUME NEW c \in Sends, c # b PROVE Arrived(c)' = Arrived(c)
    BY <1>2, <1>4, <2>1 DEF Arrived
  <2>2. Arrived(b)' = Arrived(b)
    <3> DEFINE W == wire[b]
               m == Len(W)
    <3>1. /\ wire'[b] = SubSeq(W, n + 1, m) /\ received'[b] = received[b] + n
          /\ client_fd' = b
      BY <1>1, <1>2, <1>4
    <3>2. n \in 1 .. m /\ m \in Nat /\ n + 1 \in Int /\ \A i \in n + 1 .. m : W[i] \in ServerProofs!Symbols
      BY <1>2, <1>4, ElementOfSeq
    <3> HIDE DEF W, m
    <3>3. Len(SubSeq(W, n + 1, m)) = IF n + 1 <= m THEN m - (n + 1) + 1 ELSE 0
      BY <3>2, SubSeqProperties
    <3>4. Len(SubSeq(W, n + 1, m)) = m - n
      BY <3>2, <3>3
    <3>5. received'[b] + Len(wire'[b]) = received[b] + m
      BY <1>4, <3>1, <3>2, <3>4
    <3>6. QED
      BY <3>1, <3>5 DEF Arrived, m, W
  <2>3. QED
    BY <1>1, <2>1, <2>2
<1>6. \A c \in Sends : Held(c)' <=> Held(c)
  BY <1>1 DEF Held
<1>7. ClientInv'
  BY <1>1 DEF LinkInv, ClientInv, Current, simulator_vars, number_vars
<1>8. BytesInv'
  BY <1>1, <1>5, <1>6 DEF LinkInv, BytesInv, simulator_vars, send_vars
<1>9. QueueInv'
  BY <1>1, <1>3 DEF LinkInv, QueueInv, Pushed
<1>10. LossInv'
  BY <1>1, <1>6 DEF LinkInv, LossInv, Pushed, simulator_vars, send_vars
<1>11. LineInv'
  BY <1>1, <1>6 DEF LinkInv, LineInv, Pushed, Before
<1>12. QED
  BY <1>7, <1>8, <1>9, <1>10, <1>11 DEF LinkInv

\* A push adds the event of the connection that is read, which comes after those
\* of its thread that are pushed.
LEMMA PushLink ==
  ASSUME EndsInv, LinkInv, Server!PushLine, UNCHANGED <<simulator_vars, given_up>>
  PROVE  LinkInv'
<1> DEFINE b == client_fd
           q == event_queue_
           n == Len(q)
<1>1. /\ ServerProofs!PushLine /\ ServerProofs!IInv
      /\ server = "lines" /\ server' = server
      /\ UNCHANGED <<stop_flag, backlog, client_fd, received, client, unsent, wire,
                     simulator_vars, given_up>>
  BY SameServerActions DEF EndsInv, Server!PushLine, Server!client_vars
<1>2. /\ b \in Sends
      /\ ServerProofs!Done(client_fd)' = ServerProofs!Done(b) + ServerProofs!NewlinePosition
      /\ \A c \in Sends : c # b => ServerProofs!Done(c)' = ServerProofs!Done(c)
  BY <1>1, ServerProofs!LineStep, ServerConstants
<1>3. /\ ServerProofs!Done(b) = 0 /\ ServerProofs!Done(client_fd)' = 2
      /\ q' = Append(q, <<b, b>>)
  <2>1. ServerProofs!HasLine
    BY <1>1 DEF ServerProofs!PushLine
  <2>2. ServerProofs!NextLine[1] = pending_line[1]
    BY <1>1, <2>1, ServerProofs!ParsedLine, ServerConstants
       DEF ServerProofs!PushLine, ServerProofs!IInv
  <2>3. QED
    BY <1>1, <1>2, <2>1, <2>2, WholeLine DEF ServerProofs!PushLine
<1>4. /\ n \in Nat /\ DOMAIN q = 1 .. n /\ DOMAIN q' = 1 .. n + 1
      /\ \A i \in 1 .. n : q'[i] = q[i]
      /\ q'[n + 1] = <<b, b>>
  <2>1. q \in Seq(Sends \X Events)
    BY <1>1 DEF ServerProofs!IInv, ServerProofs!TypeOK
  <2>2. <<b, b>> \in Sends \X Events
    BY <1>2, EventsAreParsed
  <2> DEFINE pair == <<b, b>>
  <2> HIDE DEF pair
  <2>3. QED
    BY <1>3, <2>1, <2>2, AppendProperties, LenProperties DEF pair
<1>5. Pushed' = Pushed \cup {b}
  BY <1>4 DEF Pushed
<1>6. \A c \in Sends : (Held(c)' <=> Held(c)) /\ Arrived(c)' = Arrived(c)
  BY <1>1 DEF Held, Arrived
<1>7. Held(b) /\ b \notin Pushed
  BY <1>2, <1>3 DEF Held, LinkInv, QueueInv
<1> HIDE DEF b, q, n
<1>8. ClientInv'
  BY <1>1 DEF LinkInv, ClientInv, Current, simulator_vars, number_vars
<1>9. BytesInv'
  BY <1>1, <1>6 DEF LinkInv, BytesInv, simulator_vars, send_vars
<1>10. QueueInv'
  <2>1. ASSUME NEW i \in DOMAIN event_queue_' PROVE event_queue_'[i][1] = event_queue_'[i][2]
    BY <1>4 DEF LinkInv, QueueInv, q
  <2>2. ASSUME NEW c \in Sends PROVE c \in Pushed' <=> ServerProofs!Done(c)' = 2
    <3>1. CASE c = b
      <4>1. ServerProofs!Done(c)' = 2
        BY <1>1, <1>3, <3>1 DEF ServerProofs!Done, b
      <4>2. QED
        BY <1>5, <3>1, <4>1
    <3>2. CASE c # b
      BY <1>2, <1>5, <3>2 DEF LinkInv, QueueInv
    <3>3. QED
      BY <3>1, <3>2
  <2>3. QED
    BY <2>1, <2>2 DEF QueueInv
<1>11. LossInv'
  BY <1>1, <1>5, <1>6 DEF LinkInv, LossInv, simulator_vars, send_vars
<1>12. LineInv'
  <2>1. \A c \in Pushed : Before(c, b)
    BY <1>2, <1>7 DEF LinkInv, LineInv
  <2>2. ASSUME NEW i \in 1 .. n + 1, NEW j \in 1 .. n + 1, i < j
        PROVE  Before(event_queue_'[i][2], event_queue_'[j][2])
    <3>1. i \in 1 .. n /\ (j \in 1 .. n \/ j = n + 1)
      BY <1>4, <2>2
    <3>2. CASE j \in 1 .. n
      BY <1>4, <2>2, <3>1, <3>2 DEF LinkInv, LineInv, q
    <3>3. CASE j = n + 1
      <4>1. event_queue_'[j][2] = b
        BY <1>4, <3>3 DEF q
      <4>2. event_queue_'[i][2] = q[i][2] /\ q[i][2] \in Pushed
        BY <1>4, <3>1 DEF Pushed, q
      <4>3. QED
        BY <2>1, <4>1, <4>2
    <3>4. QED
      BY <3>1, <3>2, <3>3
  <2>3. ASSUME NEW c \in Pushed', NEW e \in Sends, Held(e)', c # e PROVE Before(c, e)
    <3>1. CASE c \in Pushed
      BY <1>6, <2>3, <3>1 DEF LinkInv, LineInv
    <3>2. CASE c = b
      <4>1. PICK i \in DOMAIN backlog : backlog[i] = e
        BY <1>6, <2>3, <3>2 DEF Held, b
      <4>2. Before(client_fd, backlog[i])
        BY <1>2, ServerConstants DEF LinkInv, LineInv, b
      <4>3. QED
        BY <3>2, <4>1, <4>2 DEF b
    <3>3. QED
      BY <1>5, <2>3, <3>1, <3>2
  <2>4. /\ \A i \in DOMAIN backlog' : client_fd' # NoClient => Before(client_fd', backlog'[i])
        /\ \A i, j \in DOMAIN backlog' : i < j => Before(backlog'[i], backlog'[j])
    BY <1>1 DEF LinkInv, LineInv
  <2>5. \A i, j \in DOMAIN event_queue_' :
          i < j => Before(event_queue_'[i][2], event_queue_'[j][2])
    BY <1>4, <2>2 DEF q
  <2>6. QED
    BY <2>3, <2>4, <2>5 DEF LineInv, Before
<1>13. QED
  BY <1>8, <1>9, <1>10, <1>11, <1>12 DEF LinkInv

\* Where no line is left, both symbols have been read exactly if they were cut off
\* as a line.
LEMMA NothingPending ==
  ASSUME EndsInv, client_fd \in Sends, server # "lines"
  PROVE  received[client_fd] = 2 <=> ServerProofs!Done(client_fd) = 2
<1> DEFINE c == client_fd
           d == ServerProofs!Done(c)
           m == Len(pending_line)
           S == [x \in Sends |-> <<x, Newline>>][c]
<1>1. /\ ServerProofs!IInv /\ ServerProofs!TypeOK
      /\ received[c] \in Nat /\ received[c] <= 2 /\ m \in Nat
      /\ pending_line \in Seq(ServerProofs!Symbols)
  <2>1. ServerProofs!IInv /\ ServerProofs!TypeOK
    BY DEF EndsInv, ServerProofs!IInv
  <2>2. pending_line \in Seq(ServerProofs!Symbols)
    BY <2>1 DEF ServerProofs!TypeOK
  <2>3. /\ received[c] \in Nat /\ Len(wire[c]) \in Nat /\ Len(unsent[c]) \in Nat
        /\ received[c] + Len(wire[c]) + Len(unsent[c]) <= 2
    BY LinkTypes
  <2>4. QED
    BY <2>1, <2>2, <2>3, LenProperties
<1>2. /\ d = received[c] - m /\ d \in Nat
      /\ \A i \in 1 .. m : pending_line[i] = S[d + i]
      /\ ~ServerProofs!HasLine
  BY <1>1, ServerConstants DEF ServerProofs!IInv, ServerProofs!PendingInv, ServerProofs!Done
<1>3. \A i \in 1 .. m : pending_line[i] # Newline
  <2>1. DOMAIN pending_line = 1 .. m
    BY <1>1, LenProperties
  <2>2. QED
    BY <1>2, <2>1 DEF ServerProofs!HasLine, ServerProofs!Contains
<1>4. S[2] = Newline
  OBVIOUS
<1> HIDE DEF c, d, m, S
<1>5. CASE m = 0
  BY <1>1, <1>2, <1>5 DEF c, d
<1>6. CASE m # 0
  <2>1. m \in 1 .. m
    BY <1>1, <1>6
  <2>2. d + m # 2
    BY <1>2, <1>3, <1>4, <2>1
  <2>3. QED
    BY <1>1, <1>2, <1>6, <2>2 DEF c, d
<1>7. QED
  BY <1>5, <1>6

\* Closing ends a connection whose event is pushed, unless it had to be given up
\* or the server is to stop.
LEMMA CloseLink ==
  ASSUME EndsInv, LinkInv, Server!CloseClient, UNCHANGED <<simulator_vars, given_up>>
  PROVE  LinkInv'
<1> DEFINE b == client_fd
<1>1. /\ ServerProofs!CloseClient /\ ServerProofs!IInv
      /\ server = "close_client" /\ server' = "select" /\ client_fd' = NoClient
      /\ wire' = [wire EXCEPT ![b] = <<>>]
      /\ unsent' = [unsent EXCEPT ![b] = <<>>]
      /\ UNCHANGED <<stop_flag, backlog, event_queue_, received, client,
                     simulator_vars, given_up>>
  BY DEF EndsInv, Server!CloseClient, ServerProofs!CloseClient
<1>2. /\ b \in Sends
      /\ \A c \in Sends : ServerProofs!Done(c)' = received[c]
      /\ \A c \in Sends : c # b => ServerProofs!Done(c) = received[c]
  BY <1>1, ServerProofs!CloseStep, ServerConstants
<1>3. \A c \in Sends : ServerProofs!Done(c)' = 2 <=> ServerProofs!Done(c) = 2
  <2>1. received[b] = 2 <=> ServerProofs!Done(b) = 2
    BY <1>1, <1>2, NothingPending
  <2>2. QED
    BY <1>2, <2>1
<1>4. /\ \A i \in DOMAIN backlog : backlog[i] # b
      /\ NoClient \notin Sends
  BY <1>1, LinkTypes, ServerConstants DEF ServerProofs!IInv, ServerProofs!ConnectionInv
<1>5. \A c \in Sends : Held(c)' <=> Held(c) /\ c # b
  BY <1>1, <1>4 DEF Held
<1>6. \A c \in Sends : /\ c # b => Arrived(c)' = Arrived(c) /\ unsent'[c] = unsent[c]
                       /\ c = b => unsent'[c] = <<>> /\ Arrived(c)' <= Arrived(c)
  <2>1. \A c \in Sends : /\ wire'[c] = IF c = b THEN <<>> ELSE wire[c]
                         /\ unsent'[c] = IF c = b THEN <<>> ELSE unsent[c]
                         /\ Len(wire[c]) \in Nat /\ received[c] \in Nat
    BY <1>1, LinkTypes
  <2>2. Len(<<>>) = 0
    OBVIOUS
  <2>3. QED
    BY <1>1, <2>1, <2>2 DEF Arrived
<1>7. Held(b)
  BY DEF Held
<1>8. \A c \in Sends : Arrived(c) \in Nat /\ Arrived(c)' \in Nat
  <2>1. \A c \in Sends : wire'[c] = IF c = b THEN <<>> ELSE wire[c]
    BY <1>1, LinkTypes
  <2>2. Len(<<>>) = 0
    OBVIOUS
  <2>3. QED
    BY <1>1, <2>1, <2>2, LinkTypes DEF Arrived
<1>9. ClientInv'
  BY <1>1 DEF LinkInv, ClientInv, Current, simulator_vars, number_vars
<1>10. BytesInv'
  <2> SUFFICES ASSUME NEW c \in Sends
               PROVE  /\ client[c] \in {"new", "refused"} => Arrived(c)' = 0 /\ ~Held(c)'
                      /\ client[c] = "new" => Len(unsent'[c]) = 2
                      /\ client[c] = "closed" => unsent'[c] = <<>>
                      /\ client[c] = "connected" =>
                           /\ Arrived(c)' <= bytes_sent[c[1]]
                           /\ IF Held(c)'
                              THEN Arrived(c)' = bytes_sent[c[1]] /\ Len(unsent'[c]) = 2 - bytes_sent[c[1]]
                              ELSE unsent'[c] = <<>>
                      /\ c \in DOMAIN result =>
                           IF result[c] THEN Held(c)' => Arrived(c)' = 2 ELSE Arrived(c)' < 2
    BY <1>1 DEF BytesInv, simulator_vars, send_vars
  <2>1. CASE c # b
    BY <1>5, <1>6, <2>1 DEF LinkInv, BytesInv
  <2>2. CASE c = b
    <3>1. Arrived(c) \in Nat /\ Arrived(c)' \in Nat /\ bytes_sent[c[1]] \in Nat
      <4>1. c[1] \in Threads /\ bytes_sent[c[1]] \in 0 .. 2
        BY LinkTypes
      <4>2. QED
        BY <1>8, <4>1
    <3>2. Held(c) /\ ~Held(c)' /\ Arrived(c)' <= Arrived(c) /\ unsent'[c] = <<>>
      BY <1>5, <1>6, <1>7, <2>2
    <3>3. /\ client[c] \notin {"new", "refused"}
          /\ client[c] = "connected" => Arrived(c) <= bytes_sent[c[1]]
          /\ c \in DOMAIN result => (~result[c] => Arrived(c) < 2)
      BY <3>2 DEF LinkInv, BytesInv
    <3>4. QED
      BY <3>1, <3>2, <3>3
  <2>3. QED
    BY <2>1, <2>2
<1>11. QueueInv'
  BY <1>1, <1>3 DEF LinkInv, QueueInv, Pushed
<1>12. LossInv'
  <2>1. Pushed' = Pushed
    BY <1>1 DEF Pushed
  <2>2. ASSUME NEW c \in Sends
        PROVE  /\ client[c] = "connected" => Held(c)' \/ c \in given_up \/ stop_flag
               /\ c \in DOMAIN result =>
                    (result[c] => Held(c)' \/ c \in Pushed \/ c \in given_up \/ stop_flag)
    <3>1. CASE c # b
      BY <1>5, <3>1 DEF LinkInv, LossInv
    <3>2. CASE c = b
      <4>1. \/ client[b] = "closed" /\ wire[b] = <<>>
            \/ b \in given_up
            \/ stop_flag
        BY <1>1 DEF LinkInv, LossInv
      <4>2. ASSUME client[b] = "closed", wire[b] = <<>>, b \in DOMAIN result, result[b]
            PROVE  b \in Pushed
        <5>1. Arrived(b) = 2
          BY <1>2, <1>7, <4>2 DEF LinkInv, BytesInv
        <5>2. received[b] = 2
          <6>1. Len(wire[b]) = 0 /\ received[b] \in Nat
            BY <1>2, <4>2, LinkTypes
          <6>2. QED
            BY <5>1, <6>1 DEF Arrived
        <5>3. QED
          BY <1>1, <1>2, <5>2, NothingPending DEF LinkInv, QueueInv
      <4>3. QED
        BY <3>2, <4>1, <4>2
    <3>3. QED
      BY <3>1, <3>2
  <2>3. QED
    BY <1>1, <2>1, <2>2 DEF LossInv, simulator_vars, send_vars
<1>13. LineInv'
  BY <1>1, <1>5 DEF LinkInv, LineInv, Pushed, Before
<1>14. QED
  BY <1>9, <1>10, <1>11, <1>12, <1>13 DEF LinkInv

\* All the server's steps.
LEMMA ServerLink ==
  ASSUME EndsInv, LinkInv, ServerServes \/ ServerGivesUp \/ Interrupt
  PROVE  LinkInv'
<1>1. ASSUME Server!StartUp \/ Server!WsaStartupFails \/ Server!SocketFails \/ Server!Select
             \/ Server!TestStop \/ Server!ReceiveEnds \/ Server!NoMoreLines \/ Server!SetStop,
             UNCHANGED <<simulator_vars, given_up>>
      PROVE  LinkInv'
  <2>1. UNCHANGED <<ServerProofs!connection_vars, ServerProofs!client_vars>>
    BY <1>1 DEF Server!StartUp, Server!Succeeds, Server!WsaStartupFails, Server!SocketFails,
       Server!Select, Server!TestStop, Server!ReceiveEnds, Server!NoMoreLines, Server!SetStop,
       Server!connection_vars, Server!client_vars,
       ServerProofs!connection_vars, ServerProofs!client_vars
  <2>2. stop_flag => stop_flag'
    BY <1>1 DEF Server!StartUp, Server!Succeeds, Server!WsaStartupFails, Server!SocketFails,
       Server!Select, Server!TestStop, Server!ReceiveEnds, Server!NoMoreLines, Server!SetStop
  <2>3. server' = "close_client" =>
          \/ client[client_fd] = "closed" /\ wire[client_fd] = <<>>
          \/ client_fd \in given_up'
          \/ stop_flag'
    <3>1. CASE Server!ReceiveEnds
      <4>1. server = "recv" /\ client[client_fd] \in {"closed", "reset"} /\ wire[client_fd] = <<>>
        BY <3>1 DEF Server!ReceiveEnds
      <4>2. client_fd \in Sends
        BY <4>1 DEF EndsInv, ServerProofs!IInv, ServerProofs!TypeOK, ServerProofs!ConnectionInv
      <4>3. QED
        BY <4>1, <4>2 DEF LinkInv, ClientInv
    <3>2. CASE Server!TestStop
      BY <3>2 DEF Server!TestStop
    <3>3. CASE Server!SetStop
      BY <3>3 DEF Server!SetStop
    <3>4. CASE Server!StartUp \/ Server!WsaStartupFails \/ Server!SocketFails \/ Server!Select
               \/ Server!NoMoreLines
      BY <3>4 DEF Server!StartUp, Server!Succeeds, Server!WsaStartupFails, Server!SocketFails,
         Server!Select, Server!NoMoreLines
    <3>5. QED
      BY <1>1, <3>1, <3>2, <3>3, <3>4
  <2>4. QED
    BY <1>1, <2>1, <2>2, <2>3, QuietStep
<1>2. ASSUME Server!Accept \/ Server!Receive \/ Server!PushLine \/ Server!CloseClient,
             UNCHANGED <<simulator_vars, given_up>>
      PROVE  LinkInv'
  BY <1>2, AcceptLink, ReceiveLink, PushLink, CloseLink
<1>3. CASE ServerServes
  <2>1. UNCHANGED <<simulator_vars, given_up>>
    BY <1>3 DEF ServerServes
  <2>2. QED
    BY <1>1, <1>2, <1>3, <2>1, NeverResets
       DEF ServerServes, Server!ServerRuns, Server!Serve
<1>4. CASE Interrupt
  BY <1>1, <1>4 DEF Interrupt
<1>5. CASE ServerGivesUp
  <2>1. /\ UNCHANGED <<ServerProofs!connection_vars, ServerProofs!client_vars, simulator_vars>>
        /\ stop_flag' = stop_flag /\ given_up' = given_up \cup {client_fd}
    BY <1>5 DEF ServerGivesUp, Server!ReceiveTimesOut, Server!connection_vars,
       Server!client_vars, ServerProofs!connection_vars, ServerProofs!client_vars
  <2>2. QED
    BY <2>1, QuietStep
<1>6. QED
  BY <1>3, <1>4, <1>5

-----------------------------------------------------------------------------
(* The simulator's steps on a connection *)

\* A connection that is made now comes after all others of its thread.
LEMMA NewestOfThread ==
  ASSUME EndsInv, LinkInv, NEW t \in Threads, thread[t] = "connect",
         NEW c \in Sends, c \in Pushed \/ Held(c)
  PROVE  c # Current(t) /\ Before(c, Current(t))
<1>1. client[c] # "new"
  <2>1. CASE c \in Pushed
    <3>1. ServerProofs!Done(c) = 2 /\ received[c] \in Nat
      BY <2>1, LinkTypes DEF LinkInv, QueueInv
    <3>2. Len(pending_line) \in Nat
      BY LenProperties DEF EndsInv, ServerProofs!IInv, ServerProofs!TypeOK
    <3>3. received[c] # 0
      BY <3>1, <3>2 DEF ServerProofs!Done
    <3>4. QED
      BY <3>3 DEF EndsInv, ServerProofs!IInv, ServerProofs!ConnectionInv
  <2>2. CASE Held(c)
    BY <2>2 DEF LinkInv, BytesInv
  <2>3. QED
    BY <2>1, <2>2
<1>2. client[Current(t)] = "new"
  BY DEF LinkInv, ClientInv
<1>3. c[2] <= sends[c[1]]
  <2>1. c \in DOMAIN timestamp
    BY <1>1 DEF LinkInv, ClientInv
  <2>2. QED
    BY <2>1 DEF EndsInv, SimulatorInv, SimulatorTypeOK, ThreadInv
<1>4. /\ c = <<c[1], c[2]>> /\ c[2] \in Int /\ c[1] \in Threads
      /\ Current(t)[1] = t /\ Current(t)[2] = sends[t] /\ Current(t) = <<t, sends[t]>>
      /\ sends[t] \in Nat
  BY SendsType DEF Current, EndsInv, SimulatorInv, ThreadInv
<1>5. c[1] = t => c[2] < sends[t]
  <2>1. c[1] = t => c[2] # sends[t]
    BY <1>1, <1>2, <1>4
  <2>2. QED
    BY <1>3, <1>4, <2>1
<1>6. QED
  BY <1>1, <1>2, <1>4, <1>5 DEF Before

\* The invariants of one connection, x, which is t's latest.
OwnInv(x, t) ==
  /\ client[x] \in {"new", "refused", "connected", "closed"}
  /\ client[x] = "connected" <=> thread[t] = "send"
  /\ client[x] \in {"new", "refused"} => Arrived(x) = 0 /\ ~Held(x)
  /\ client[x] = "new" => Len(unsent[x]) = 2
  /\ client[x] = "closed" => unsent[x] = <<>>
  /\ client[x] = "connected" =>
       /\ Arrived(x) <= bytes_sent[t]
       /\ IF Held(x)
          THEN Arrived(x) = bytes_sent[t] /\ Len(unsent[x]) = 2 - bytes_sent[t]
          ELSE unsent[x] = <<>>
       /\ Held(x) \/ x \in given_up \/ stop_flag
  /\ x \in DOMAIN result =>
       IF result[x] THEN /\ Held(x) => Arrived(x) = 2
                         /\ Held(x) \/ x \in Pushed \/ x \in given_up \/ stop_flag
                    ELSE Arrived(x) < 2

\* A call of send_event() touches only its own connection: if all is well with
\* that one afterwards, it is with all.
LEMMA OneConnection ==
  ASSUME EndsInv, LinkInv, NEW t \in Threads, NEW x \in Sends, x = Current(t),
         thread[t] \in {"connect", "send"},
         UNCHANGED <<server, stop_flag, client_fd, pending_line, event_queue_, received,
                     given_up, sends, timestamp>>,
         \A u \in Threads : u # t => thread'[u] = thread[u] /\ bytes_sent'[u] = bytes_sent[u],
         thread'[t] \in {"sleep", "send", "returned"},
         \A c \in Sends : c # x =>
           /\ client'[c] = client[c] /\ wire'[c] = wire[c] /\ unsent'[c] = unsent[c]
           /\ c \in DOMAIN result' <=> c \in DOMAIN result
           /\ c \in DOMAIN result => result'[c] = result[c],
         backlog' = backlog \/ (backlog' = Append(backlog, x) /\ thread[t] = "connect"),
         OwnInv(x, t)'
  PROVE  LinkInv'
<1>1. /\ ClientInv /\ BytesInv /\ QueueInv /\ LossInv /\ LineInv
      /\ x[1] = t /\ x \in DOMAIN timestamp
      /\ Pushed' = Pushed /\ \A u \in Threads : Current(u)' = Current(u)
  BY DEF LinkInv, Current, EndsInv, SimulatorInv, ThreadInv, Pushed
<1>2. \A c \in Sends : c # x => (Held(c)' <=> Held(c)) /\ Arrived(c)' = Arrived(c)
  <2>1. \A c \in Sends : c # x => Arrived(c)' = Arrived(c)
    BY DEF Arrived
  <2>2. CASE backlog' = backlog
    BY <2>1, <2>2 DEF Held
  <2>3. CASE backlog' = Append(backlog, x)
    <3>1. /\ Len(backlog) \in Nat /\ DOMAIN backlog = 1 .. Len(backlog)
          /\ DOMAIN backlog' = 1 .. Len(backlog) + 1
          /\ \A i \in 1 .. Len(backlog) : backlog'[i] = backlog[i]
          /\ backlog'[Len(backlog) + 1] = x
      <4>1. backlog \in Seq(Sends)
        BY LinkTypes
      <4>2. QED
        BY <2>3, <4>1, AppendProperties, LenProperties
    <3>2. QED
      BY <2>1, <3>1 DEF Held
  <2>4. QED
    BY <2>2, <2>3
<1>3. \A c \in Sends : c # x /\ client[c] = "connected" => c[1] \in Threads /\ c[1] # t
  BY <1>1, SendsType DEF ClientInv
<1>4. ClientInv'
  <2>1. ASSUME NEW c \in Sends
        PROVE  /\ client'[c] \in {"new", "refused", "connected", "closed"}
               /\ client'[c] # "new" => c \in DOMAIN timestamp
               /\ client'[c] = "connected" => thread'[c[1]] = "send" /\ c = Current(c[1])
    <3>1. CASE c = x
      BY <1>1, <3>1 DEF OwnInv
    <3>2. CASE c # x
      BY <1>1, <1>3, <3>2 DEF ClientInv
    <3>3. QED
      BY <3>1, <3>2
  <2>2. ASSUME NEW u \in Threads
        PROVE  /\ thread'[u] \in {"stamp", "connect"} => client'[Current(u)] = "new"
               /\ thread'[u] = "send" => client'[Current(u)] = "connected"
    <3>1. CASE u = t
      BY <3>1 DEF OwnInv
    <3>2. CASE u # t /\ thread'[u] \in {"stamp", "connect", "send"}
      <4>1. Current(u) \in Sends /\ Current(u)[1] = u
        BY <3>2, CurrentType DEF EndsInv
      <4>2. QED
        BY <1>1, <3>2, <4>1 DEF ClientInv
    <3>3. QED
      BY <3>1, <3>2
  <2>3. QED
    BY <2>1, <2>2 DEF ClientInv, Current
<1>5. BytesInv'
  <2> SUFFICES ASSUME NEW c \in Sends, c # x
               PROVE  /\ client'[c] \in {"new", "refused"} => Arrived(c)' = 0 /\ ~Held(c)'
                      /\ client'[c] = "new" => Len(unsent'[c]) = 2
                      /\ client'[c] = "closed" => unsent'[c] = <<>>
                      /\ client'[c] = "connected" =>
                           /\ Arrived(c)' <= bytes_sent'[c[1]]
                           /\ IF Held(c)'
                              THEN Arrived(c)' = bytes_sent'[c[1]] /\ Len(unsent'[c]) = 2 - bytes_sent'[c[1]]
                              ELSE unsent'[c] = <<>>
                      /\ c \in DOMAIN result' =>
                           IF result'[c] THEN Held(c)' => Arrived(c)' = 2 ELSE Arrived(c)' < 2
    BY <1>1 DEF BytesInv, OwnInv
  <2>1. client[c] = "connected" => bytes_sent'[c[1]] = bytes_sent[c[1]]
    BY <1>3
  <2>2. QED
    BY <1>1, <1>2, <2>1 DEF BytesInv
<1>6. QueueInv'
  BY <1>1 DEF QueueInv, ServerProofs!Done
<1>7. LossInv'
  <2>1. ASSUME server = "close_client"
        PROVE  \/ client'[client_fd] = "closed" /\ wire'[client_fd] = <<>>
               \/ client_fd \in given_up
               \/ stop_flag
    <3>1. client_fd \in Sends
      BY <2>1 DEF EndsInv, ServerProofs!IInv, ServerProofs!TypeOK, ServerProofs!ConnectionInv
    <3>2. client[x] # "closed"
      BY <1>1 DEF ClientInv
    <3>3. QED
      BY <1>1, <2>1, <3>1, <3>2 DEF LossInv
  <2>2. \A c \in Sends : c # x =>
          /\ client'[c] = "connected" => Held(c)' \/ c \in given_up \/ stop_flag
          /\ c \in DOMAIN result' =>
               (result'[c] => Held(c)' \/ c \in Pushed \/ c \in given_up \/ stop_flag)
    BY <1>1, <1>2 DEF LossInv
  <2>3. QED
    BY <1>1, <2>1, <2>2 DEF LossInv, OwnInv
<1>8. LineInv'
  <2>1. CASE backlog' = backlog
    BY <1>1, <2>1 DEF LineInv, Held, Before
  <2>2. CASE backlog' = Append(backlog, x) /\ thread[t] = "connect"
    <3> DEFINE n == Len(backlog)
    <3>1. /\ n \in Nat /\ DOMAIN backlog = 1 .. n
          /\ DOMAIN backlog' = 1 .. n + 1
          /\ \A i \in 1 .. n : backlog'[i] = backlog[i] /\ backlog[i] \in Sends
          /\ backlog'[n + 1] = x
      BY <2>2, LinkTypes, AppendProperties, LenProperties
    <3>2. \A c \in Sends : c \in Pushed \/ Held(c) => c # x /\ Before(c, x)
      BY <2>2, NewestOfThread
    <3> HIDE DEF n
    <3>3. ASSUME NEW i \in 1 .. n + 1, NEW j \in 1 .. n + 1, i < j
          PROVE  Before(backlog'[i], backlog'[j])
      <4>1. i \in 1 .. n /\ (j \in 1 .. n \/ j = n + 1)
        BY <3>1, <3>3
      <4>2. CASE j \in 1 .. n
        BY <1>1, <3>1, <3>3, <4>1, <4>2 DEF LineInv
      <4>3. CASE j = n + 1
        <5>1. Held(backlog[i]) /\ backlog[i] \in Sends
          BY <3>1, <4>1 DEF Held
        <5>2. QED
          BY <3>1, <3>2, <4>1, <4>3, <5>1
      <4>4. QED
        BY <4>1, <4>2, <4>3
    <3>4. ASSUME NEW i \in 1 .. n + 1, client_fd # NoClient
          PROVE  Before(client_fd, backlog'[i])
      <4>1. client_fd \in Sends /\ Held(client_fd)
        BY <3>4 DEF Held, EndsInv, ServerProofs!IInv, ServerProofs!TypeOK
      <4>2. CASE i \in 1 .. n
        BY <1>1, <3>1, <3>4, <4>2 DEF LineInv
      <4>3. CASE i = n + 1
        BY <3>1, <3>2, <4>1, <4>3
      <4>4. QED
        BY <3>1, <4>2, <4>3
    <3>5. \A c \in Pushed : c \in Sends
      <4>1. event_queue_ \in Seq(Sends \X Events)
        BY DEF EndsInv, ServerProofs!IInv, ServerProofs!TypeOK
      <4>2. \A i \in DOMAIN event_queue_ : event_queue_[i] \in Sends \X Events
        BY <4>1, LenProperties, ElementOfSeq
      <4>3. QED
        BY <4>2, EventsAreParsed DEF Pushed
    <3>6. ASSUME NEW c \in Pushed, NEW e \in Sends, Held(e)', c # e PROVE Before(c, e)
      <4>1. CASE e = x
        BY <3>2, <3>5, <3>6, <4>1
      <4>2. CASE e # x
        BY <1>1, <1>2, <3>6, <4>2 DEF LineInv
      <4>3. QED
        BY <4>1, <4>2
    <3>7. \A i, j \in DOMAIN event_queue_ :
            i < j => Before(event_queue_[i][2], event_queue_[j][2])
      BY <1>1 DEF LineInv
    <3>8. QED
      BY <1>1, <3>1, <3>3, <3>4, <3>6, <3>7 DEF LineInv, Before
  <2>3. QED
    BY <2>1, <2>2
<1>9. QED
  BY <1>4, <1>5, <1>6, <1>7, <1>8 DEF LinkInv

\* What is so of the connection of a running call.
LEMMA CurrentConnection ==
  ASSUME EndsInv, LinkInv, NEW t \in Threads, NEW x, x = Current(t),
         thread[t] \in {"connect", "send"}
  PROVE  /\ x \in Sends /\ x[1] = t /\ x \notin DOMAIN result
         /\ received[x] \in Nat /\ Arrived(x) \in Nat
         /\ wire[x] \in Seq(ServerProofs!Symbols) /\ Len(wire[x]) \in Nat
         /\ unsent[x] \in Seq(ServerProofs!Symbols) /\ Len(unsent[x]) \in Nat
         /\ Arrived(x) + Len(unsent[x]) <= 2
         /\ bytes_sent[t] \in 0 .. 2
         /\ thread[t] = "connect" =>
              client[x] = "new" /\ Arrived(x) = 0 /\ ~Held(x) /\ Len(unsent[x]) = 2
         /\ thread[t] = "send" =>
              /\ client[x] = "connected" /\ Arrived(x) <= bytes_sent[t]
              /\ Held(x) => Arrived(x) = bytes_sent[t] /\ Len(unsent[x]) = 2 - bytes_sent[t]
              /\ ~Held(x) => unsent[x] = <<>> /\ (x \in given_up \/ stop_flag)
<1>1. x \in Sends /\ x[1] = t /\ x \notin DOMAIN result
  BY CurrentType DEF EndsInv, SimulatorInv, ThreadInv
<1>2. /\ received[x] \in Nat
      /\ wire[x] \in Seq(ServerProofs!Symbols) /\ Len(wire[x]) \in Nat
      /\ unsent[x] \in Seq(ServerProofs!Symbols) /\ Len(unsent[x]) \in Nat
      /\ received[x] + Len(wire[x]) + Len(unsent[x]) <= 2
  BY <1>1, LinkTypes
<1>3. bytes_sent[t] \in 0 .. 2
  BY LinkTypes
<1>4. Arrived(x) \in Nat /\ Arrived(x) + Len(unsent[x]) <= 2
  BY <1>2 DEF Arrived
<1>5. /\ thread[t] = "connect" => client[x] = "new"
      /\ thread[t] = "send" => client[x] = "connected"
  BY DEF LinkInv, ClientInv
<1>6. /\ client[x] = "new" => Arrived(x) = 0 /\ ~Held(x) /\ Len(unsent[x]) = 2
      /\ client[x] = "connected" =>
           /\ Arrived(x) <= bytes_sent[t]
           /\ Held(x) => Arrived(x) = bytes_sent[t] /\ Len(unsent[x]) = 2 - bytes_sent[t]
           /\ ~Held(x) => unsent[x] = <<>>
  BY <1>1 DEF LinkInv, BytesInv
<1>7. client[x] = "connected" => Held(x) \/ x \in given_up \/ stop_flag
  BY <1>1 DEF LinkInv, LossInv
<1>8. QED
  BY <1>1, <1>2, <1>3, <1>4, <1>5, <1>6, <1>7

\* A thread's move leaves the others where they are.
LEMMA OneThread ==
  ASSUME EndsInv, NEW t \in Threads, NEW from, NEW to, Goto(t, from, to)
  PROVE  thread'[t] = to /\ \A u \in Threads : u # t => thread'[u] = thread[u]
BY DEF EndsInv, SimulatorInv, SimulatorTypeOK, Goto

\* connect(): accepted into the backlog, refused, or no connection at all.
LEMMA ConnectLink ==
  ASSUME EndsInv, LinkInv, NEW t \in Threads, Connect(t) \/ Refused(t) \/ NoConnection(t)
  PROVE  LinkInv'
<1>0. PICK x : x = Current(t)
  OBVIOUS
<1>1. /\ x = Current(t) /\ thread[t] = "connect"
      /\ UNCHANGED <<main_vars, number_vars, end_time, timestamp, given_up>>
  BY <1>0 DEF Connect, Refused, NoConnection, Connected, ReturnFalse, Goto
<1>2. /\ x \in Sends /\ x \notin DOMAIN result /\ client[x] = "new"
      /\ Arrived(x) = 0 /\ ~Held(x) /\ Len(unsent[x]) = 2
  BY <1>1, CurrentConnection
<1>3. CASE Connect(t)
  <2>1. /\ Connected(t) /\ Server!Connect(x) /\ client'[x] = "connected"
    BY <1>1, <1>3 DEF Connect
  <2>2. /\ client' = [client EXCEPT ![x] = "connected"]
        /\ backlog' = Append(backlog, x)
        /\ UNCHANGED <<server, stop_flag, client_fd, pending_line, event_queue_, received,
                       unsent, wire>>
    <3>1. client \in [Sends -> {"new", "refused", "connected", "closed", "reset"}]
      BY LinkTypes
    <3>2. QED
      BY <1>2, <2>1, <3>1 DEF Server!Connect, Server!start_vars
  <2>3. /\ thread'[t] = "send" /\ result' = result
        /\ \A u \in Threads : u # t => thread'[u] = thread[u] /\ bytes_sent'[u] = bytes_sent[u]
        /\ bytes_sent'[t] = 0
    BY <2>1, OneThread DEF Connected, EndsInv, SimulatorInv, SimulatorTypeOK
  <2>4. \A c \in Sends : c # x => client'[c] = client[c]
    BY <2>2, LinkTypes
  <2>5. Held(x)'
    <3>1. backlog \in Seq(Sends)
      BY LinkTypes
    <3>2. /\ Len(backlog) + 1 \in DOMAIN backlog'
          /\ backlog'[Len(backlog) + 1] = x
      BY <1>2, <2>2, <3>1, AppendProperties, LenProperties
    <3>3. QED
      BY <3>2 DEF Held
  <2>6. Arrived(x)' = 0
    BY <1>2, <2>2 DEF Arrived
  <2>7. sends' = sends
    BY <1>1 DEF number_vars
  <2>8. OwnInv(x, t)'
    BY <1>2, <2>1, <2>2, <2>3, <2>5, <2>6 DEF OwnInv
  <2>9. QED
    BY <1>1, <1>2, <2>2, <2>3, <2>4, <2>7, <2>8, OneConnection
<1>4. CASE Refused(t) \/ NoConnection(t)
  <2>1. /\ ReturnFalse(t, "connect")
        /\ UNCHANGED <<server, stop_flag, backlog, client_fd, pending_line, event_queue_,
                       received, unsent, wire>>
        /\ client' = client \/ client' = [client EXCEPT ![x] = "refused"]
    <3>1. CASE NoConnection(t)
      BY <3>1 DEF NoConnection, server_vars
    <3>2. CASE Refused(t)
      <4>1. client \in [Sends -> {"new", "refused", "connected", "closed", "reset"}]
        BY LinkTypes
      <4>2. QED
        BY <1>1, <1>2, <3>2, <4>1 DEF Refused, Server!Connect, Server!start_vars
    <3>3. QED
      BY <1>4, <3>1, <3>2
  <2>2. /\ thread'[t] \in {"sleep", "returned"} /\ bytes_sent' = bytes_sent
        /\ \A u \in Threads : u # t => thread'[u] = thread[u]
    <3>1. Goto(t, "connect", TestEnd(t)) /\ bytes_sent' = bytes_sent
      BY <2>1 DEF ReturnFalse
    <3>2. QED
      BY <3>1, OneThread DEF TestEnd
  <2>3. /\ x \in DOMAIN result' /\ result'[x] = FALSE
        /\ \A c \in Sends : c # x => /\ c \in DOMAIN result' <=> c \in DOMAIN result
                                     /\ c \in DOMAIN result => result'[c] = result[c]
    <3>1. result' = With(result, x, FALSE)
      BY <1>1, <2>1 DEF ReturnFalse
    <3>2. QED
      BY <3>1 DEF With
  <2>4. \A c \in Sends : c # x => client'[c] = client[c]
    BY <2>1, LinkTypes
  <2>5. client'[x] \in {"new", "refused"}
    BY <1>2, <2>1, LinkTypes
  <2>6. Arrived(x)' = 0 /\ ~Held(x)'
    BY <1>2, <2>1 DEF Arrived, Held
  <2>7. sends' = sends
    BY <1>1 DEF number_vars
  <2>8. OwnInv(x, t)'
    BY <1>2, <2>1, <2>2, <2>3, <2>5, <2>6 DEF OwnInv
  <2>9. QED
    BY <1>1, <1>2, <2>1, <2>2, <2>3, <2>4, <2>7, <2>8, OneConnection
<1>5. QED
  BY <1>3, <1>4

\* send(): what it takes arrives, unless the server has closed its end.
LEMMA SendLink ==
  ASSUME EndsInv, LinkInv, NEW t \in Threads, SendToServer(t) \/ SendToNobody(t)
  PROVE  LinkInv'
<1>0. PICK x : x = Current(t)
  OBVIOUS
<1>1. /\ x = Current(t) /\ thread[t] = "send" /\ bytes_sent[t] < 2
      /\ bytes_sent' = [bytes_sent EXCEPT ![t] = @ + 1]
      /\ UNCHANGED <<main_vars, number_vars, thread, end_time, timestamp, result, given_up>>
  BY <1>0, TrafficAssumption DEF SendToServer, SendToNobody, SendSome
<1>2. /\ x \in Sends /\ x \notin DOMAIN result /\ client[x] = "connected"
      /\ received[x] \in Nat /\ Arrived(x) \in Nat
      /\ wire[x] \in Seq(ServerProofs!Symbols) /\ Len(wire[x]) \in Nat
      /\ unsent[x] \in Seq(ServerProofs!Symbols) /\ Len(unsent[x]) \in Nat
      /\ bytes_sent[t] \in 0 .. 2 /\ Arrived(x) <= bytes_sent[t]
      /\ Held(x) => Arrived(x) = bytes_sent[t] /\ Len(unsent[x]) = 2 - bytes_sent[t]
      /\ ~Held(x) => unsent[x] = <<>> /\ (x \in given_up \/ stop_flag)
  BY <1>1, CurrentConnection
<1>3. /\ bytes_sent'[t] = bytes_sent[t] + 1
      /\ \A u \in Threads : u # t => thread'[u] = thread[u] /\ bytes_sent'[u] = bytes_sent[u]
      /\ sends' = sends
  BY <1>1 DEF EndsInv, SimulatorInv, SimulatorTypeOK, number_vars
<1>4. CASE SendToServer(t)
  <2>1. /\ unsent[x] # <<>>
        /\ wire' = [wire EXCEPT ![x] = Append(@, Head(unsent[x]))]
        /\ unsent' = [unsent EXCEPT ![x] = Tail(@)]
        /\ UNCHANGED <<server, stop_flag, backlog, client_fd, pending_line, event_queue_,
                       received, client>>
    BY <1>1, <1>4 DEF SendToServer, Server!Send, Server!start_vars, Server!connection_vars
  <2>2. /\ wire'[x] = Append(wire[x], Head(unsent[x])) /\ unsent'[x] = Tail(unsent[x])
        /\ \A c \in Sends : c # x => wire'[c] = wire[c] /\ unsent'[c] = unsent[c]
    BY <1>2, <2>1, LinkTypes
  <2>3. Len(wire'[x]) = Len(wire[x]) + 1 /\ Len(unsent'[x]) = Len(unsent[x]) - 1
    <3>1. Head(unsent[x]) \in ServerProofs!Symbols
      BY <1>2, <2>1, HeadTailProperties
    <3>2. Len(Append(wire[x], Head(unsent[x]))) = Len(wire[x]) + 1
      BY <1>2, <3>1, AppendProperties
    <3>3. Len(Tail(unsent[x])) = Len(unsent[x]) - 1
      BY <1>2, <2>1, HeadTailProperties
    <3>4. QED
      BY <2>2, <3>2, <3>3
  <2>4. Held(x) /\ Held(x)'
    BY <1>2, <2>1 DEF Held
  <2>5. Arrived(x)' = Arrived(x) + 1
    BY <1>2, <2>1, <2>3 DEF Arrived
  <2>6. Arrived(x)' = bytes_sent'[t] /\ Len(unsent'[x]) = 2 - bytes_sent'[t] /\ bytes_sent'[t] \in Nat
    BY <1>2, <1>3, <2>3, <2>4, <2>5
  <2>7. OwnInv(x, t)'
    BY <1>1, <1>2, <2>1, <2>4, <2>6 DEF OwnInv
  <2>8. QED
    BY <1>1, <1>2, <1>3, <2>1, <2>2, <2>7, OneConnection
<1>5. CASE SendToNobody(t)
  <2>1. /\ unsent[x] = <<>>
        /\ UNCHANGED <<server, stop_flag, backlog, client_fd, pending_line, event_queue_,
                       received, client, wire, unsent>>
    BY <1>1, <1>5 DEF SendToNobody, ClosedByServer, server_vars
  <2>2. ~Held(x)
    <3>1. Len(unsent[x]) = 0
      BY <2>1
    <3>2. QED
      BY <1>1, <1>2, <3>1
  <2>3. ~Held(x)' /\ Arrived(x)' = Arrived(x)
    BY <2>1, <2>2 DEF Held, Arrived
  <2>4. Arrived(x)' <= bytes_sent'[t]
    BY <1>2, <1>3, <2>3
  <2>5. OwnInv(x, t)'
    BY <1>1, <1>2, <2>1, <2>2, <2>3, <2>4 DEF OwnInv
  <2>6. QED
    BY <1>1, <1>2, <1>3, <2>1, <2>5, OneConnection
<1>6. QED
  BY <1>4, <1>5

\* The call ends: false before all is taken, true after.
LEMMA EndLink ==
  ASSUME EndsInv, LinkInv, NEW t \in Threads, SendFails(t) \/ Finish(t)
  PROVE  LinkInv'
<1>0. PICK x : x = Current(t)
  OBVIOUS
<1>1. PICK value \in BOOLEAN :
        /\ IF value THEN bytes_sent[t] = 2 ELSE bytes_sent[t] < 2
        /\ Goto(t, "send", TestEnd(t))
        /\ result' = With(result, x, value)
        /\ UNCHANGED <<main_vars, number_vars, end_time, timestamp, bytes_sent, given_up>>
        /\ Server!CloseByClient(x)
  <2>1. CASE SendFails(t)
    BY <1>0, <2>1, TrafficAssumption DEF SendFails, ReturnFalse
  <2>2. CASE Finish(t)
    BY <1>0, <2>2, TrafficAssumption DEF Finish, ReturnTrue
  <2>3. QED
    BY <2>1, <2>2
<1>2. x = Current(t) /\ thread[t] = "send" /\ sends' = sends
  BY <1>0, <1>1 DEF Goto, number_vars
<1>3. /\ x \in Sends /\ client[x] = "connected"
      /\ Arrived(x) \in Nat /\ bytes_sent[t] \in 0 .. 2 /\ Arrived(x) <= bytes_sent[t]
      /\ Held(x) => Arrived(x) = bytes_sent[t]
      /\ ~Held(x) => x \in given_up \/ stop_flag
  BY <1>2, CurrentConnection
<1>4. /\ client' = [client EXCEPT ![x] = "closed"]
      /\ unsent' = [unsent EXCEPT ![x] = <<>>]
      /\ UNCHANGED <<server, stop_flag, backlog, client_fd, pending_line, event_queue_,
                     received, wire>>
  BY <1>1 DEF Server!CloseByClient, Server!start_vars, Server!connection_vars
<1>5. /\ client'[x] = "closed" /\ unsent'[x] = <<>>
      /\ \A c \in Sends : c # x => client'[c] = client[c] /\ unsent'[c] = unsent[c]
  BY <1>3, <1>4, LinkTypes
<1>6. /\ thread'[t] \in {"sleep", "returned"}
      /\ \A u \in Threads : u # t => thread'[u] = thread[u]
  BY <1>1, OneThread DEF TestEnd
<1>7. /\ x \in DOMAIN result' /\ result'[x] = value
      /\ \A c \in Sends : c # x => /\ c \in DOMAIN result' <=> c \in DOMAIN result
                                   /\ c \in DOMAIN result => result'[c] = result[c]
  BY <1>1 DEF With
<1>8. (Held(x)' <=> Held(x)) /\ Arrived(x)' = Arrived(x)
  BY <1>4 DEF Held, Arrived
<1>9. OwnInv(x, t)'
  <2>1. CASE value
    <3>1. Held(x)' => Arrived(x)' = 2
      BY <1>1, <1>3, <1>8, <2>1
    <3>2. Held(x)' \/ x \in given_up' \/ stop_flag'
      BY <1>1, <1>3, <1>4, <1>8
    <3>3. QED
      BY <1>5, <1>6, <1>7, <2>1, <3>1, <3>2 DEF OwnInv
  <2>2. CASE ~value
    <3>1. Arrived(x)' < 2
      BY <1>1, <1>3, <1>8, <2>2
    <3>2. QED
      BY <1>5, <1>6, <1>7, <2>2, <3>1 DEF OwnInv
  <2>3. QED
    BY <2>1, <2>2
<1>10. QED
  BY <1>1, <1>2, <1>3, <1>4, <1>5, <1>6, <1>7, <1>9, OneConnection

\* SIGPIPE: all open connections are closed by the operating system.
LEMMA BrokenPipeLink ==
  ASSUME EndsInv, LinkInv, NEW t \in Threads, BrokenPipe(t)
  PROVE  LinkInv'
<1>1. /\ \A c \in Sends :
           /\ client'[c] = IF client[c] = "connected" THEN "closed" ELSE client[c]
           /\ unsent'[c] = IF client[c] = "connected" THEN <<>> ELSE unsent[c]
      /\ thread' = [u \in Threads |-> "killed"]
      /\ UNCHANGED <<server, stop_flag, backlog, client_fd, pending_line, event_queue_,
                     received, wire, given_up, sends, timestamp, bytes_sent, result>>
  BY DEF BrokenPipe, KilledBySigpipe, number_vars, send_vars
<1>2. /\ ClientInv /\ BytesInv /\ QueueInv /\ LossInv /\ LineInv
      /\ Pushed' = Pushed
      /\ \A c \in Sends : (Held(c)' <=> Held(c)) /\ Arrived(c)' = Arrived(c)
  BY <1>1 DEF LinkInv, Pushed, Held, Arrived
<1>3. \A c \in Sends : client[c] = "connected" => c \notin DOMAIN result
  BY SendsType DEF LinkInv, ClientInv, EndsInv, SimulatorInv, ThreadInv
<1>4. ClientInv'
  BY <1>1, <1>2 DEF ClientInv
<1>5. BytesInv'
  BY <1>1, <1>2, <1>3 DEF BytesInv
<1>6. QueueInv'
  BY <1>1, <1>2 DEF QueueInv, ServerProofs!Done
<1>7. LossInv'
  <2>1. server = "close_client" => client_fd \in Sends
    BY DEF EndsInv, ServerProofs!IInv, ServerProofs!TypeOK, ServerProofs!ConnectionInv
  <2>2. QED
    BY <1>1, <1>2, <2>1 DEF LossInv
<1>8. LineInv'
  BY <1>1, <1>2 DEF LineInv, Before
<1>9. QED
  BY <1>4, <1>5, <1>6, <1>7, <1>8 DEF LinkInv

-----------------------------------------------------------------------------
(* The invariant *)

\* No connection, no call.
LEMMA InitLink == Init => LinkInv
<1> SUFFICES ASSUME Init PROVE LinkInv
  OBVIOUS
<1> USE DEF Init, SimulatorInit, Server!Init
<1>1. /\ client = [c \in Sends |-> "new"] /\ received = [c \in Sends |-> 0]
      /\ wire = [c \in Sends |-> <<>>] /\ unsent = [c \in Sends |-> <<c, Newline>>]
      /\ backlog = <<>> /\ event_queue_ = <<>> /\ client_fd = NoClient
      /\ thread = [t \in Threads |-> "new"] /\ DOMAIN result = {}
      /\ server \in {"wsa_startup", "socket"} /\ NoClient \notin Sends
  BY ServerConstants
<1>2. DOMAIN backlog = {} /\ DOMAIN event_queue_ = {} /\ Pushed = {}
  BY <1>1 DEF Pushed
<1>3. \A c \in Sends : ~Held(c) /\ Arrived(c) = 0 /\ Len(unsent[c]) = 2 /\ ServerProofs!Done(c) = 0
  BY <1>1, <1>2 DEF Held, Arrived, ServerProofs!Done
<1>4. ClientInv
  BY <1>1 DEF ClientInv
<1>5. BytesInv
  BY <1>1, <1>3 DEF BytesInv
<1>6. QueueInv
  BY <1>2, <1>3 DEF QueueInv
<1>7. LossInv
  BY <1>1 DEF LossInv
<1>8. LineInv
  BY <1>1, <1>2 DEF LineInv
<1>9. QED
  BY <1>4, <1>5, <1>6, <1>7, <1>8 DEF LinkInv

\* Every step keeps what is so between the two ends.
LEMMA LinkKept == EndsInv /\ LinkInv /\ [Next]_vars => LinkInv'
<1> SUFFICES ASSUME EndsInv, LinkInv, [Next]_vars PROVE LinkInv'
  OBVIOUS
<1>1. CASE SimulatorPrepares \/ ClockTicks
  BY <1>1, PrepareStep
<1>2. CASE ServerServes \/ ServerGivesUp \/ Interrupt
  BY <1>2, ServerLink
<1>3. ASSUME NEW t \in Threads, SendEvent(t) PROVE LinkInv'
  BY <1>3, ConnectLink, SendLink, EndLink, BrokenPipeLink DEF SendEvent
<1>4. CASE UNCHANGED vars
  <2>1. UNCHANGED <<server_vars, given_up, bytes_sent, result, thread, timestamp, sends, client>>
    BY <1>4 DEF vars, simulator_vars, number_vars, send_vars, server_vars
  <2>2. ClientInv'
    BY <2>1 DEF LinkInv, ClientInv, Current
  <2>3. QED
    BY <2>1, <2>2, LinkStays DEF LinkInv
<1>5. QED
  BY <1>1, <1>2, <1>3, <1>4 DEF Next

\* The strengthened invariant: what each connection holds is what its thread has
\* sent and the server has not yet made an event of.
THEOREM IInvCorrect == Spec => []IInv
<1>1. Init => IInv
  <2>1. Init => ServerProofs!IInv
    BY ServerProofs!InitIInv, ServerConstants, SameInit DEF Init
  <2>2. QED
    BY <2>1, InitSimulator, InitLink DEF Init, EndsInv, IInv
<1>2. IInv /\ [Next]_vars => IInv'
  BY SimulatorKept, ServerKept, GivenUpKept, LinkKept DEF IInv, EndsInv
<1>3. QED
  BY <1>1, <1>2, PTL DEF Spec

\* The simulator and the server are well typed together.
THEOREM TypeCorrect == Spec => []TypeOK
<1>1. IInv => TypeOK
  BY SameTypes DEF IInv, EndsInv, SimulatorInv, ServerProofs!IInv, TypeOK
<1>2. QED
  BY <1>1, IInvCorrect, PTL

\* No two events of the simulator have the same number, of whatever thread.
THEOREM NumbersCorrect == Spec => []EventNumbersAreUnique
<1>1. IInv => EventNumbersAreUnique
  BY DEF IInv, EndsInv, SimulatorInv, NumberInv
<1>2. QED
  BY <1>1, IInvCorrect, PTL

\* An event that is pushed has been read whole, and was numbered and stamped.
LEMMA PushedIsRead ==
  ASSUME IInv, NEW c \in Pushed
  PROVE  c \in Sends /\ received[c] = 2 /\ c \in DOMAIN timestamp /\ c \in DOMAIN event_number
<1>1. EndsInv /\ LinkInv
  BY DEF IInv
<1>2. c \in Sends
  <2>1. event_queue_ \in Seq(Sends \X Events)
    BY <1>1 DEF EndsInv, ServerProofs!IInv, ServerProofs!TypeOK
  <2>2. \A i \in DOMAIN event_queue_ : event_queue_[i] \in Sends \X Events
    BY <2>1, LenProperties, ElementOfSeq
  <2>3. QED
    BY <2>2, EventsAreParsed DEF Pushed
<1>3. received[c] = 2
  <2>1. /\ ServerProofs!Done(c) = 2 /\ received[c] \in Nat
        /\ Len(wire[c]) \in Nat /\ Len(unsent[c]) \in Nat
        /\ received[c] + Len(wire[c]) + Len(unsent[c]) <= 2
    BY <1>1, <1>2, LinkTypes DEF LinkInv, QueueInv
  <2>2. Len(pending_line) \in Nat
    BY <1>1, LenProperties DEF EndsInv, ServerProofs!IInv, ServerProofs!TypeOK
  <2>3. QED
    BY <2>1, <2>2 DEF ServerProofs!Done
<1>4. client[c] # "new"
  BY <1>1, <1>2, <1>3 DEF EndsInv, ServerProofs!IInv, ServerProofs!ConnectionInv
<1>5. QED
  BY <1>1, <1>2, <1>3, <1>4 DEF LinkInv, ClientInv, EndsInv, SimulatorInv, SimulatorTypeOK

\* The events of a source are pushed in the order of their numbers and stamps,
\* each from the connection that carried it, although each has its own.
THEOREM OrderCorrect == Spec => []SourceInOrder
<1>1. IInv => SourceInOrder
  <2> SUFFICES ASSUME IInv, NEW i \in DOMAIN event_queue_, NEW j \in DOMAIN event_queue_
               PROVE  LET c == event_queue_[i][2]
                          d == event_queue_[j][2]
                      IN  /\ event_queue_[i][1] = c
                          /\ i < j /\ c[1] = d[1] =>
                               event_number[c] < event_number[d] /\ timestamp[c] <= timestamp[d]
    BY DEF SourceInOrder
  <2> DEFINE c == event_queue_[i][2]
             d == event_queue_[j][2]
  <2>1. c \in Pushed /\ d \in Pushed
    BY DEF Pushed
  <2>2. event_queue_[i][1] = c
    BY DEF IInv, LinkInv, QueueInv
  <2>3. i < j => Before(c, d)
    BY DEF IInv, LinkInv, LineInv
  <2> HIDE DEF c, d
  <2>4. c \in DOMAIN timestamp /\ d \in DOMAIN timestamp
        /\ c \in DOMAIN event_number /\ d \in DOMAIN event_number
    BY <2>1, PushedIsRead
  <2>5. c[1] = d[1] /\ c[2] < d[2] =>
          event_number[c] < event_number[d] /\ timestamp[c] <= timestamp[d]
    BY <2>4 DEF IInv, EndsInv, SimulatorInv, NumberInv
  <2>6. QED
    BY <2>2, <2>3, <2>5 DEF c, d, Before
<1>2. QED
  BY <1>1, IInvCorrect, PTL

\* An event whose call of send_event() returned false is not pushed, then or
\* later.
THEOREM FalseCorrect == Spec => []FalseIsNotPushed
<1>1. IInv => FalseIsNotPushed
  <2> SUFFICES ASSUME IInv, NEW c \in DOMAIN result, c \in Pushed PROVE result[c]
    BY DEF FalseIsNotPushed
  <2>1. c \in Sends /\ received[c] = 2
    BY PushedIsRead
  <2>2. Len(wire[c]) \in Nat
    BY <2>1, LinkTypes DEF IInv
  <2>3. ~result[c] => Arrived(c) < 2
    BY <2>1 DEF IInv, LinkInv, BytesInv
  <2>4. QED
    BY <2>1, <2>2, <2>3 DEF Arrived
<1>2. QED
  BY <1>1, IInvCorrect, PTL

\* One whose call returned true is pushed or on its way, unless the connection was
\* given up or the server is to stop.
THEOREM TrueCorrect == Spec => []TrueIsPushed
<1>1. IInv => TrueIsPushed
  <2> SUFFICES ASSUME IInv, NEW c \in DOMAIN result, result[c]
               PROVE  \/ c \in Pushed \cup ToSet(backlog) \cup {client_fd}
                      \/ c \in given_up
                      \/ stop_flag
    BY DEF TrueIsPushed
  <2>1. c \in Sends
    BY LinkTypes DEF IInv
  <2>2. Held(c) \/ c \in Pushed \/ c \in given_up \/ stop_flag
    BY <2>1 DEF IInv, LinkInv, LossInv
  <2>3. QED
    BY <2>2 DEF Held, ToSet
<1>2. QED
  BY <1>1, IInvCorrect, PTL

=============================================================================
