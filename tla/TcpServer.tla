----------------------------- MODULE TcpServer -----------------------------
(***************************************************************************)
(* edge-engine/src/network/TcpServer.cpp: the main thread sets up a        *)
(* listening socket, then serves one connection after another: it reads    *)
(* whatever has come, cuts it into lines, pushes the lines that parse.  A  *)
(* connection ends when the client has closed it, when nothing came for    *)
(* 100 ms, or when the stop flag is set.                                   *)
(*                                                                         *)
(* A byte stream is a sequence of line bodies and newlines.  A body is one *)
(* symbol: that a body may itself be cut in two by recv() shows already in *)
(* the cut between body and newline.                                       *)
(***************************************************************************)
EXTENDS Integers, Sequences, SequencesExt, SequenceSelection

CONSTANTS
  Clients,      \* connections: each client connects once
  Bodies,       \* what can stand on a line
  Events,       \* the bodies that parse_line() accepts
  Newline,
  Scripts,      \* what each client means to send
  BufferSize,   \* most symbols one recv() returns (sizeof(buffer): 1024)
  Backlog,      \* listen(server_fd, 10)
  Windows,      \* whether _WIN32 is defined
  NoClient      \* client_fd when no connection is open

ASSUME ServerAssumption ==
  /\ Events \subseteq Bodies
  /\ Newline \notin Bodies
  /\ Scripts \in [Clients -> Seq(Bodies \cup {Newline})]
  /\ BufferSize \in Nat \ {0} /\ Backlog \in Nat \ {0}
  /\ Windows \in BOOLEAN
  /\ NoClient \notin Clients

VARIABLES
  server,       \* where TcpServer::start() is
  stop_flag,
  backlog,      \* connections not accepted yet, oldest first
  client_fd,    \* the connection being served, or NoClient
  pending_line, \* what has been read of it and not cut into lines yet
  event_queue_, \* the events pushed, each with its connection
  client,       \* what each client has done to its connection
  unsent,       \* what each client has still to send
  wire,         \* what it has sent and the server has not read
  received      \* history: how much of its script the server has read

start_vars == <<server, stop_flag>>
connection_vars == <<backlog, client_fd, pending_line, event_queue_, received>>
client_vars == <<client, unsent, wire>>

vars == <<start_vars, connection_vars, client_vars>>

StartSteps == {"wsa_startup", "socket", "bind", "listen"}

Symbols == Bodies \cup {Newline}

TypeOK ==
  /\ server \in StartSteps \cup
       {"select", "accept", "test", "recv", "lines", "close_client", "returned"}
  /\ stop_flag \in BOOLEAN
  /\ backlog \in Seq(Clients) /\ Len(backlog) <= Backlog
  /\ client_fd \in Clients \cup {NoClient}
  /\ pending_line \in Seq(Symbols)
  /\ event_queue_ \in Seq(Clients \X Events)
  /\ client \in [Clients -> {"new", "refused", "connected", "closed", "reset"}]
  /\ unsent \in [Clients -> Seq(Symbols)]
  /\ wire \in [Clients -> Seq(Symbols)]
  /\ received \in [Clients -> Nat]
  /\ \A c \in Clients : received[c] + Len(wire[c]) + Len(unsent[c]) <= Len(Scripts[c])

Init ==
  /\ server = IF Windows THEN "wsa_startup" ELSE "socket"
  /\ stop_flag = FALSE
  /\ backlog = <<>>
  /\ client_fd = NoClient
  /\ pending_line = <<>>
  /\ event_queue_ = <<>>
  /\ client = [c \in Clients |-> "new"]
  /\ unsent = Scripts
  /\ wire = [c \in Clients |-> <<>>]
  /\ received = [c \in Clients |-> 0]

-----------------------------------------------------------------------------
(* Start-up: each call succeeds or makes start() return at once *)

Succeeds(from, to) ==
  /\ server = from
  /\ server' = to
  /\ UNCHANGED <<stop_flag, connection_vars, client_vars>>

StartUp ==
  \/ Succeeds("wsa_startup", "socket")
  \/ Succeeds("socket", "bind")
  \/ Succeeds("bind", "listen")
  \/ Succeeds("listen", "select")

\* WSAStartup() fails: the only return that leaves the stop flag alone.
WsaStartupFails ==
  /\ server = "wsa_startup"
  /\ server' = "returned"
  /\ UNCHANGED <<stop_flag, connection_vars, client_vars>>

\* Mutant: the same of the other three.
SocketFailsQuietly ==
  /\ server \in {"socket", "bind", "listen"}
  /\ server' = "returned"
  /\ UNCHANGED <<stop_flag, connection_vars, client_vars>>

\* socket(), bind() or listen() fails.
SocketFails ==
  /\ server \in {"socket", "bind", "listen"}
  /\ server' = "returned"
  /\ stop_flag' = TRUE
  /\ UNCHANGED <<connection_vars, client_vars>>

-----------------------------------------------------------------------------
(* The accept loop *)

\* `while (!stop_flag_.load())`; otherwise select() waits up to 100 ms for a
\* connection, and with none (or an error) the loop starts over.
Select ==
  /\ server = "select"
  /\ IF stop_flag THEN server' = "returned"
     ELSE backlog # <<>> /\ server' = "accept"
  /\ UNCHANGED <<stop_flag, connection_vars, client_vars>>

\* Mutant: the connection that came last.
AcceptNewest ==
  /\ server = "accept"
  /\ client_fd' = Last(backlog)
  /\ backlog' = Front(backlog)
  /\ pending_line' = <<>>
  /\ server' = "test"
  /\ UNCHANGED <<stop_flag, event_queue_, received, client_vars>>

Accept ==
  /\ server = "accept"
  /\ client_fd' = Head(backlog)
  /\ backlog' = Tail(backlog)
  /\ pending_line' = <<>>
  /\ server' = "test"
  /\ UNCHANGED <<stop_flag, event_queue_, received, client_vars>>

\* The connection was gone before it could be accepted.
AcceptFails ==
  /\ server = "accept"
  /\ client[Head(backlog)] = "reset"
  /\ backlog' = Tail(backlog)
  /\ server' = "select"
  /\ UNCHANGED <<stop_flag, client_fd, pending_line, event_queue_, received,
                 client_vars>>

-----------------------------------------------------------------------------
(* The receive loop *)

\* Mutant: `while ((bytes_received = recv(...)) > 0)`.
TestNothing ==
  /\ server = "test"
  /\ server' = "recv"
  /\ UNCHANGED <<stop_flag, connection_vars, client_vars>>

TestStop ==
  /\ server = "test"
  /\ server' = IF stop_flag THEN "close_client" ELSE "recv"
  /\ UNCHANGED <<stop_flag, connection_vars, client_vars>>

\* recv() returns some of what has come.
Receive ==
  /\ server = "recv"
  /\ \E n \in 1 .. Len(wire[client_fd]) :
       /\ n <= BufferSize
       /\ pending_line' = pending_line \o SubSeq(wire[client_fd], 1, n)
       /\ wire' = [wire EXCEPT ![client_fd] = SubSeq(@, n + 1, Len(@))]
       /\ received' = [received EXCEPT ![client_fd] = @ + n]
  /\ server' = "lines"
  /\ UNCHANGED <<stop_flag, backlog, client_fd, event_queue_, client, unsent>>

\* recv() returns 0 or an error: the client has closed the connection, and all
\* it sent is read, or has reset it.
ReceiveEnds ==
  /\ server = "recv"
  /\ wire[client_fd] = <<>>
  /\ client[client_fd] \in {"closed", "reset"}
  /\ server' = "close_client"
  /\ UNCHANGED <<stop_flag, connection_vars, client_vars>>

\* SO_RCVTIMEO: 100 ms without a byte are an error too.
ReceiveTimesOut ==
  /\ server = "recv"
  /\ wire[client_fd] = <<>>
  /\ client[client_fd] = "connected"
  /\ server' = "close_client"
  /\ UNCHANGED <<stop_flag, connection_vars, client_vars>>

HasLine == Contains(pending_line, Newline)

\* The first newline.
NewlinePosition ==
  CHOOSE i \in DOMAIN pending_line :
    /\ pending_line[i] = Newline
    /\ \A j \in 1 .. i - 1 : pending_line[j] # Newline

\* parse_line(): one event, all of it and nothing else.
Parses(line) == Len(line) = 1 /\ line[1] \in Events

NextLine == SubSeq(pending_line, 1, NewlinePosition - 1)

\* Mutant: clear() in place of erase(0, newline_position + 1).
AllPending == <<>>

AfterLine == SubSeq(pending_line, NewlinePosition + 1, Len(pending_line))

PushLine ==
  /\ server = "lines"
  /\ HasLine
  /\ Parses(NextLine)
  /\ event_queue_' = Append(event_queue_, <<client_fd, NextLine[1]>>)
  /\ pending_line' = AfterLine
  /\ UNCHANGED <<server, stop_flag, backlog, client_fd, received, client_vars>>

RejectLine ==
  /\ server = "lines"
  /\ HasLine
  /\ ~Parses(NextLine)
  /\ pending_line' = AfterLine
  /\ UNCHANGED <<server, stop_flag, backlog, client_fd, event_queue_, received,
                 client_vars>>

\* Mutant: `if` in place of `while` around recv().
ReceiveOnce ==
  /\ server = "lines"
  /\ ~HasLine
  /\ server' = "close_client"
  /\ UNCHANGED <<stop_flag, connection_vars, client_vars>>

NoMoreLines ==
  /\ server = "lines"
  /\ ~HasLine
  /\ server' = "test"
  /\ UNCHANGED <<stop_flag, connection_vars, client_vars>>

\* Mutant: what is left of pending_line is taken for a line.
CloseAndPushRest ==
  /\ server = "close_client"
  /\ event_queue_' = IF Parses(pending_line)
                     THEN Append(event_queue_, <<client_fd, pending_line[1]>>)
                     ELSE event_queue_
  /\ client_fd' = NoClient
  /\ pending_line' = <<>>
  /\ wire' = [wire EXCEPT ![client_fd] = <<>>]
  /\ unsent' = [unsent EXCEPT ![client_fd] = <<>>]
  /\ server' = "select"
  /\ UNCHANGED <<stop_flag, backlog, received, client>>

\* What is left of pending_line goes, and what is left on the wire.
CloseClient ==
  /\ server = "close_client"
  /\ client_fd' = NoClient
  /\ pending_line' = <<>>
  /\ wire' = [wire EXCEPT ![client_fd] = <<>>]
  /\ unsent' = [unsent EXCEPT ![client_fd] = <<>>]
  /\ server' = "select"
  /\ UNCHANGED <<stop_flag, backlog, event_queue_, received, client>>

-----------------------------------------------------------------------------
(* The clients, and whoever sets the stop flag *)

Listening == server \notin StartSteps \cup {"returned"}

\* Mutant: no limit on the backlog.
ConnectUnlimited(c) ==
  /\ Listening
  /\ client[c] = "new"
  /\ client' = [client EXCEPT ![c] = "connected"]
  /\ backlog' = Append(backlog, c)
  /\ UNCHANGED <<start_vars, client_fd, pending_line, event_queue_, received,
                 unsent, wire>>

Connect(c) ==
  /\ Listening
  /\ client[c] = "new"
  /\ IF Len(backlog) < Backlog
     THEN /\ client' = [client EXCEPT ![c] = "connected"]
          /\ backlog' = Append(backlog, c)
     ELSE /\ client' = [client EXCEPT ![c] = "refused"]
          /\ UNCHANGED backlog
  /\ UNCHANGED <<start_vars, client_fd, pending_line, event_queue_, received,
                 unsent, wire>>

Send(c) ==
  /\ client[c] = "connected"
  /\ unsent[c] # <<>>
  /\ wire' = [wire EXCEPT ![c] = Append(@, Head(unsent[c]))]
  /\ unsent' = [unsent EXCEPT ![c] = Tail(@)]
  /\ UNCHANGED <<start_vars, connection_vars, client>>

\* A client that has no event to tell may talk for ever: when the server has read
\* all of its script it begins again, within the 100 ms.
SendAgain(c) ==
  /\ client[c] = "connected"
  /\ client_fd = c
  /\ pending_line = <<>>
  /\ received[c] = Len(Scripts[c])
  /\ ToSet(Scripts[c]) \cap Events = {}
  /\ unsent' = [unsent EXCEPT ![c] = Scripts[c]]
  /\ received' = [received EXCEPT ![c] = 0]
  /\ UNCHANGED <<start_vars, backlog, client_fd, pending_line, event_queue_,
                 client, wire>>

CloseByClient(c) ==
  /\ client[c] = "connected"
  /\ client' = [client EXCEPT ![c] = "closed"]
  /\ unsent' = [unsent EXCEPT ![c] = <<>>]
  /\ UNCHANGED <<start_vars, connection_vars, wire>>

\* The connection breaks: what was on the way is lost.
Reset(c) ==
  /\ client[c] = "connected"
  /\ client' = [client EXCEPT ![c] = "reset"]
  /\ unsent' = [unsent EXCEPT ![c] = <<>>]
  /\ wire' = [wire EXCEPT ![c] = <<>>]
  /\ UNCHANGED <<start_vars, connection_vars>>

SetStop ==
  /\ ~stop_flag
  /\ stop_flag' = TRUE
  /\ UNCHANGED <<server, connection_vars, client_vars>>

-----------------------------------------------------------------------------
Serve ==
  \/ Select \/ Accept \/ AcceptFails
  \/ TestStop \/ Receive \/ ReceiveEnds \/ ReceiveTimesOut
  \/ RejectLine \/ NoMoreLines \/ CloseClient

\* Everything but the push.
ServerRuns == StartUp \/ WsaStartupFails \/ SocketFails \/ Serve

ServerStep == ServerRuns \/ PushLine

ClientStep(c) == Connect(c) \/ Send(c) \/ CloseByClient(c) \/ Reset(c)

Next ==
  \/ ServerStep
  \/ \E c \in Clients : ClientStep(c) \/ SendAgain(c)
  \/ SetStop

Spec == Init /\ [][Next]_vars

\* The main thread runs, and no call it makes blocks for more than 100 ms.
\* Nothing is assumed of the clients.
FairSpec == Spec /\ WF_vars(ServerStep)

-----------------------------------------------------------------------------
(* Framing *)

\* The events in a stream, in order: each stands on a line of its own, between
\* two newlines or at the start.
EventPositions(stream) ==
  {i \in DOMAIN stream :
     /\ stream[i] \in Events
     /\ i < Len(stream) /\ stream[i + 1] = Newline
     /\ i > 1 => stream[i - 1] = Newline}

EventsIn(stream) == SelectAt(stream, EventPositions(stream))

PushedBy(c) ==
  LET own == SelectAt(event_queue_, {i \in DOMAIN event_queue_ : event_queue_[i][1] = c})
  IN  [i \in DOMAIN own |-> own[i][2]]

\* Between two reads, what a connection has pushed is exactly the events on the
\* complete lines read from it, in order, however recv() has cut the stream
\* and whatever other connections left behind.
LinesBecomeEvents ==
  \A c \in Clients :
    \/ server = "lines" /\ c = client_fd
    \/ PushedBy(c) = EventsIn(SubSeq(Scripts[c], 1, received[c]))

Serving(c) == client_fd = c /\ server \in {"test", "recv", "lines"}

\* What a client has sent on a connection that is being read is all read, in as
\* many reads as it takes, unless the stop flag is set or the client breaks the
\* connection: the timeout only strikes when nothing is waiting.
SentIsRead ==
  \A c \in Clients :
    Serving(c) /\ wire[c] # <<>>
      ~> \/ Serving(c) /\ wire[c] = <<>>
         \/ stop_flag
         \/ client[c] = "reset"

\* Whether clients talk without end or keep silent, start() returns once the stop
\* flag is set: a recv() that always finds something would never time out.
StopLeadsToReturn == stop_flag ~> server = "returned"

\* docs/tcp_protocol.md, Processing Flow: "Read until newline".  A connection
\* that its client has left open is not given up in the middle of a line.
ReadUntilNewline ==
  [][ CloseClient =>
        \/ pending_line = <<>>
        \/ client[client_fd] # "connected"
        \/ stop_flag ]_vars

=============================================================================
