--------------------------- MODULE TcpServerProofs ---------------------------
(***************************************************************************)
(* Proofs about TcpServer for any clients, any streams they send, any size *)
(* of recv()'s buffer and of the backlog, on both kinds of system.         *)
(***************************************************************************)
EXTENDS TcpServer, SequenceTheorems, RecursionLemmas, TLAPS

(***************************************************************************)
(* The inductive invariant.                                                *)
(***************************************************************************)

\* What is on the wire, and what is still to be sent, is the script from where
\* the server has read to.
StreamInv ==
  \A c \in Clients :
    /\ \A i \in 1 .. Len(wire[c]) : wire[c][i] = Scripts[c][received[c] + i]
    /\ \A i \in 1 .. Len(unsent[c]) :
         unsent[c][i] = Scripts[c][received[c] + Len(wire[c]) + i]

\* A connection that waits has not been read and is not the one being served.
ConnectionInv ==
  /\ client_fd # NoClient <=> server \in {"test", "recv", "lines", "close_client"}
  /\ server = "accept" => backlog # <<>>
  /\ \A c \in Clients : client[c] = "new" => received[c] = 0 /\ c # client_fd
  /\ \A i \in 1 .. Len(backlog) :
       /\ received[backlog[i]] = 0
       /\ backlog[i] # client_fd
       /\ client[backlog[i]] # "new"
       /\ \A j \in 1 .. Len(backlog) : i # j => backlog[i] # backlog[j]

\* How much of what was read from a connection has been cut into lines.
Done(c) == received[c] - (IF c = client_fd THEN Len(pending_line) ELSE 0)

\* pending_line is the rest, from a newline or the start; it holds a newline only
\* inside the loop that takes lines from it.
PendingInv ==
  client_fd # NoClient =>
    /\ Done(client_fd) \in Nat
    /\ \A i \in 1 .. Len(pending_line) :
         pending_line[i] = Scripts[client_fd][Done(client_fd) + i]
    /\ Done(client_fd) # 0 => Scripts[client_fd][Done(client_fd)] = Newline
    /\ server # "lines" => ~HasLine

IInv == TypeOK /\ StreamInv /\ ConnectionInv /\ PendingInv

\* What a connection has pushed is the events on the lines cut so far.
FramingInv ==
  \A c \in Clients : PushedBy(c) = EventsIn(SubSeq(Scripts[c], 1, Done(c)))

-----------------------------------------------------------------------------
(* Streams and the events in them *)

\* A newline is no event.
LEMMA NewlineIsNoEvent == Newline \notin Events
BY ServerAssumption

\* A prefix of a stream.
LEMMA PrefixOfStream ==
  ASSUME NEW S \in Seq(Symbols), NEW n \in 0 .. Len(S)
  PROVE  /\ SubSeq(S, 1, n) \in Seq(Symbols)
         /\ Len(SubSeq(S, 1, n)) = n
         /\ \A i \in 1 .. n : SubSeq(S, 1, n)[i] = S[i]
<1>1. Len(S) \in Nat /\ \A i \in 1 .. n : S[i] \in Symbols
  BY LenProperties, ElementOfSeq
<1>2. QED
  BY <1>1, SubSeqProperties

\* What is selected does not change where no position is.
LEMMA SelectionGap ==
  ASSUME NEW S \in Seq(Symbols), NEW P, NEW m \in Nat, NEW n \in Nat,
         m <= n, n <= Len(S), \A i \in m + 1 .. n : i \notin P
  PROVE  Selection(S, P)[n] = Selection(S, P)[m]
<1> DEFINE f == Selection(S, P)
           Same == {k \in 0 .. n : k <= m \/ f[k] = f[m]}
           InP(i) == i \in P
<1>1. Len(S) \in Nat
  BY LenProperties
<1>2. \A i \in 1 .. Len(S) :
        f[i] = IF InP(i) THEN Append(f[i - 1], S[i]) ELSE f[i - 1]
  BY SelectionRecursion
<1>3. \A i \in m + 1 .. n : ~InP(i)
  OBVIOUS
<1> HIDE DEF f, InP
<1>4. 0 \in Same
  OBVIOUS
<1>5. ASSUME NEW k \in 1 .. n, k - 1 \in Same PROVE k \in Same
  <2>1. CASE k <= m
    BY <2>1
  <2>2. CASE k > m
    <3>1. k \in 1 .. Len(S) /\ k \in m + 1 .. n
      BY <1>1, <2>2
    <3>2. f[k] = f[k - 1]
      BY <1>2, <1>3, <3>1
    <3>3. f[k - 1] = f[m]
      <4>1. k - 1 <= m => k - 1 = m
        BY <2>2
      <4>2. QED
        BY <1>5, <4>1
    <3>4. QED
      BY <3>2, <3>3
  <2>3. QED
    BY <2>1, <2>2
<1>6. n \in Same
  <2>1. 0 .. n \subseteq Same
    <3> HIDE DEF Same
    <3>1. QED
      BY <1>4, <1>5, InductionUpTo
  <2>2. QED
    BY <2>1
<1>7. QED
  BY <1>6 DEF f

\* The events in a prefix: the last symbol of it is none, as no newline follows.
LEMMA EventsInPrefix ==
  ASSUME NEW S \in Seq(Symbols), NEW n \in 1 .. Len(S)
  PROVE  EventsIn(SubSeq(S, 1, n)) = Selection(S, EventPositions(S))[n - 1]
<1> DEFINE t == SubSeq(S, 1, n)
           P == EventPositions(t)
           Q == EventPositions(S)
<1>1. /\ Len(S) \in Nat /\ t \in Seq(Symbols) /\ Len(t) = n
      /\ \A i \in 1 .. n : t[i] = S[i]
  BY PrefixOfStream, LenProperties
<1> HIDE DEF t
<1>2. DOMAIN t = 1 .. n /\ DOMAIN S = 1 .. Len(S)
  BY <1>1, LenProperties
<1>3. n \notin P
  BY <1>1 DEF EventPositions
<1>4. \A i \in 1 .. n - 1 : t[i] = S[i] /\ (i \in P <=> i \in Q)
  <2> SUFFICES ASSUME NEW i \in 1 .. n - 1 PROVE t[i] = S[i] /\ (i \in P <=> i \in Q)
    OBVIOUS
  <2>1. i \in 1 .. n /\ i + 1 \in 1 .. n /\ i < n /\ i < Len(S) /\ (i > 1 => i - 1 \in 1 .. n)
    BY <1>1
  <2>2. i \in P <=> S[i] \in Events /\ S[i + 1] = Newline /\ (i > 1 => S[i - 1] = Newline)
    BY <1>1, <1>2, <2>1 DEF EventPositions
  <2>3. i \in Q <=> S[i] \in Events /\ S[i + 1] = Newline /\ (i > 1 => S[i - 1] = Newline)
    BY <1>1, <1>2, <2>1 DEF EventPositions
  <2>4. QED
    BY <1>1, <2>1, <2>2, <2>3
<1> HIDE DEF P, Q
<1>5. Selection(t, P)[n] = Selection(t, P)[n - 1]
  <2>1. n \in 1 .. Len(t)
    BY <1>1
  <2>2. QED
    BY <1>1, <1>3, <2>1, SelectionRecursion
<1>6. Selection(t, P)[n - 1] = Selection(S, Q)[n - 1]
  <2> DEFINE m == n - 1
  <2>1. m \in Nat /\ m <= Len(t) /\ m <= Len(S) /\ t \in Seq(Symbols)
    BY <1>1
  <2>2. \A i \in 1 .. m : S[i] = t[i] /\ (i \in Q <=> i \in P)
    BY <1>4
  <2> HIDE DEF m
  <2>3. Selection(t, P)[m] = Selection(S, Q)[m]
    BY <2>1, <2>2, SelectionPrefix
  <2>4. QED
    BY <2>3 DEF m
<1>7. EventsIn(t) = Selection(t, P)[n]
  BY <1>1 DEF EventsIn, SelectAt, P
<1>8. QED
  BY <1>5, <1>6, <1>7 DEF t, Q

\* The same for a prefix that ends with a newline, or is empty.
LEMMA EventsInLines ==
  ASSUME NEW S \in Seq(Symbols), NEW d \in 0 .. Len(S), d # 0 => S[d] = Newline
  PROVE  EventsIn(SubSeq(S, 1, d)) = Selection(S, EventPositions(S))[d]
<1>1. Len(S) \in Nat /\ DOMAIN S = 1 .. Len(S)
  BY LenProperties
<1>2. CASE d = 0
  <2>1. SubSeq(S, 1, 0) = <<>>
    BY SubSeqEmpty
  <2>2. Selection(S, EventPositions(S))[0] = <<>>
    BY SelectionRecursion
  <2>3. QED
    BY <1>2, <2>1, <2>2, SelectAtEmpty DEF EventsIn
<1>3. CASE d # 0
  <2>1. d \in 1 .. Len(S) /\ d \notin EventPositions(S)
    BY <1>1, <1>3, NewlineIsNoEvent DEF EventPositions
  <2>2. Selection(S, EventPositions(S))[d] = Selection(S, EventPositions(S))[d - 1]
    BY <2>1, SelectionRecursion
  <2>3. QED
    BY <2>1, <2>2, EventsInPrefix
<1>4. QED
  BY <1>2, <1>3

\* Part of a line adds no event.
LEMMA PartOfLine ==
  ASSUME NEW S \in Seq(Symbols), NEW d \in 0 .. Len(S), NEW r \in d .. Len(S),
         d # 0 => S[d] = Newline, \A i \in d + 1 .. r : S[i] # Newline
  PROVE  EventsIn(SubSeq(S, 1, r)) = EventsIn(SubSeq(S, 1, d))
<1>1. Len(S) \in Nat /\ DOMAIN S = 1 .. Len(S)
  BY LenProperties
<1>2. CASE r = d
  BY <1>2
<1>3. CASE r # d
  <2>1. /\ r \in 1 .. Len(S) /\ r - 1 \in Nat /\ d \in Nat
        /\ d <= r - 1 /\ r - 1 <= Len(S)
    BY <1>1, <1>3
  <2>2. ASSUME NEW i \in d + 1 .. r - 1 PROVE i \notin EventPositions(S)
    <3>1. i + 1 \in d + 1 .. r
      BY <1>1
    <3>2. QED
      BY <3>1 DEF EventPositions
  <2>3. Selection(S, EventPositions(S))[r - 1] = Selection(S, EventPositions(S))[d]
    BY <2>1, <2>2, SelectionGap
  <2>4. QED
    BY <2>1, <2>3, EventsInPrefix, EventsInLines
<1>4. QED
  BY <1>2, <1>3

\* A line adds the event on it, if it is one.
LEMMA OneLine ==
  ASSUME NEW S \in Seq(Symbols), NEW d \in 0 .. Len(S), NEW e \in d + 1 .. Len(S),
         d # 0 => S[d] = Newline, S[e] = Newline,
         \A i \in d + 1 .. e - 1 : S[i] # Newline
  PROVE  EventsIn(SubSeq(S, 1, e)) =
           IF e = d + 2 /\ S[d + 1] \in Events
           THEN Append(EventsIn(SubSeq(S, 1, d)), S[d + 1])
           ELSE EventsIn(SubSeq(S, 1, d))
<1> DEFINE P == EventPositions(S)
<1>1. /\ Len(S) \in Nat /\ DOMAIN S = 1 .. Len(S) /\ d \in Nat
      /\ e \in 1 .. Len(S) /\ e - 1 \in Nat /\ d <= e - 1 /\ e - 1 <= Len(S)
  BY LenProperties
<1>2. /\ EventsIn(SubSeq(S, 1, e)) = Selection(S, P)[e - 1]
      /\ EventsIn(SubSeq(S, 1, d)) = Selection(S, P)[d]
  BY <1>1, EventsInPrefix, EventsInLines
<1>3. CASE e = d + 2 /\ S[d + 1] \in Events
  <2>1. d + 1 \in 1 .. Len(S) /\ d + 1 < Len(S) /\ (d + 1) - 1 = d /\ e - 1 = d + 1
    BY <1>1, <1>3
  <2>2. d + 1 \in P
    BY <1>1, <1>3, <2>1 DEF EventPositions
  <2> HIDE DEF P
  <2>3. Selection(S, P)[d + 1] = Append(Selection(S, P)[d], S[d + 1])
    <3>1. Selection(S, P)[d + 1] = Append(Selection(S, P)[(d + 1) - 1], S[d + 1])
      BY <2>1, <2>2, SelectionRecursion
    <3>2. QED
      BY <2>1, <3>1
  <2>4. QED
    BY <1>2, <1>3, <2>1, <2>3
<1>4. CASE ~(e = d + 2 /\ S[d + 1] \in Events)
  <2>1. ASSUME NEW i \in d + 1 .. e - 1 PROVE i \notin P
    <3>1. CASE i < e - 1
      <4>1. i + 1 \in d + 1 .. e - 1
        BY <1>1, <3>1
      <4>2. QED
        BY <4>1 DEF EventPositions
    <3>2. CASE i = e - 1 /\ i > d + 1
      <4>1. i - 1 \in d + 1 .. e - 1 /\ i > 1
        BY <1>1, <3>2
      <4>2. QED
        BY <4>1 DEF EventPositions
    <3>3. CASE i = e - 1 /\ i = d + 1
      <4>1. e = d + 2
        BY <1>1, <3>3
      <4>2. QED
        BY <1>4, <3>3, <4>1 DEF EventPositions
    <3>4. QED
      BY <1>1, <3>1, <3>2, <3>3
  <2> HIDE DEF P
  <2>2. Selection(S, P)[e - 1] = Selection(S, P)[d]
    BY <1>1, <2>1, SelectionGap
  <2>3. QED
    BY <1>2, <1>4, <2>2
<1>5. QED
  BY <1>3, <1>4

-----------------------------------------------------------------------------
(* Lines *)

\* find() finds the first newline.
LEMMA FirstNewline ==
  ASSUME TypeOK, HasLine
  PROVE  /\ NewlinePosition \in 1 .. Len(pending_line)
         /\ pending_line[NewlinePosition] = Newline
         /\ \A j \in 1 .. NewlinePosition - 1 : pending_line[j] # Newline
<1> DEFINE T == {i \in 1 .. Len(pending_line) : pending_line[i] = Newline}
           First(i) == /\ pending_line[i] = Newline
                       /\ \A j \in 1 .. i - 1 : pending_line[j] # Newline
<1>1. /\ pending_line \in Seq(Symbols) /\ Len(pending_line) \in Nat
      /\ DOMAIN pending_line = 1 .. Len(pending_line)
  BY LenProperties DEF TypeOK
<1>2. T # {} /\ T \subseteq Nat
  BY <1>1 DEF HasLine, Contains
<1>3. PICK m \in T : \A i \in T : m <= i
  BY <1>2, LeastNatural
<1>4. m \in DOMAIN pending_line /\ First(m)
  <2>1. ASSUME NEW j \in 1 .. m - 1 PROVE pending_line[j] # Newline
    <3>1. j \in 1 .. Len(pending_line) /\ ~(m <= j)
      BY <1>1, <1>3
    <3>2. QED
      BY <1>3, <3>1
  <2>2. QED
    BY <1>1, <1>3, <2>1
<1>5. NewlinePosition \in DOMAIN pending_line /\ First(NewlinePosition)
  <2>1. NewlinePosition = CHOOSE i \in DOMAIN pending_line : First(i)
    BY DEF NewlinePosition
  <2> HIDE DEF First
  <2>2. QED
    BY <1>4, <2>1
<1>6. QED
  BY <1>1, <1>5

\* erase(0, newline_position + 1) leaves what follows the first newline.
LEMMA AfterLineType ==
  ASSUME TypeOK, HasLine
  PROVE  /\ AfterLine \in Seq(Symbols)
         /\ Len(AfterLine) = Len(pending_line) - NewlinePosition
         /\ \A i \in 1 .. Len(AfterLine) : AfterLine[i] = pending_line[NewlinePosition + i]
<1> DEFINE p == NewlinePosition
           n == Len(pending_line)
<1>1. p \in 1 .. n /\ n \in Nat
  BY FirstNewline, LenProperties DEF TypeOK
<1>2. \A i \in p + 1 .. n : pending_line[i] \in Symbols
  BY <1>1, ElementOfSeq DEF TypeOK
<1>3. AfterLine = SubSeq(pending_line, p + 1, n)
  BY DEF AfterLine
<1> HIDE DEF p, n
<1>4. p + 1 \in Int /\ n \in Int /\ n - (p + 1) + 1 = n - p /\ n - p \in Nat
  BY <1>1
<1>5. /\ AfterLine \in Seq(Symbols)
      /\ Len(AfterLine) = IF p + 1 <= n THEN n - (p + 1) + 1 ELSE 0
      /\ \A i \in 1 .. n - (p + 1) + 1 : AfterLine[i] = pending_line[(p + 1) + i - 1]
  BY <1>2, <1>3, <1>4, SubSeqProperties
<1>6. Len(AfterLine) = n - p
  BY <1>1, <1>5
<1>7. \A i \in 1 .. n - p : AfterLine[i] = pending_line[p + i]
  <2>1. \A i \in 1 .. n - p : (p + 1) + i - 1 = p + i
    BY <1>1
  <2>2. QED
    BY <1>4, <1>5, <2>1
<1>8. QED
  BY <1>5, <1>6, <1>7 DEF p, n

\* The line parses when it is one symbol, an event.
LEMMA ParsedLine ==
  ASSUME TypeOK, HasLine
  PROVE  /\ Parses(NextLine) <=> NewlinePosition = 2 /\ pending_line[1] \in Events
         /\ Parses(NextLine) => NextLine[1] = pending_line[1]
<1> DEFINE p == NewlinePosition
<1>1. p \in 1 .. Len(pending_line) /\ Len(pending_line) \in Nat
  BY FirstNewline, LenProperties DEF TypeOK
<1>2. \A i \in 1 .. p - 1 : pending_line[i] \in Symbols
  BY <1>1, ElementOfSeq DEF TypeOK
<1>3. NextLine = SubSeq(pending_line, 1, p - 1)
  BY DEF NextLine
<1> HIDE DEF p
<1>4. /\ Len(NextLine) = IF 1 <= p - 1 THEN (p - 1) - 1 + 1 ELSE 0
      /\ \A i \in 1 .. (p - 1) - 1 + 1 : NextLine[i] = pending_line[1 + i - 1]
  <2>1. 1 \in Int /\ p - 1 \in Int
    BY <1>1
  <2>2. QED
    BY <1>2, <1>3, <2>1, SubSeqProperties
<1>5. Len(NextLine) = 1 <=> p = 2
  BY <1>1, <1>4
<1>6. p = 2 => NextLine[1] = pending_line[1]
  <2>1. p = 2 => 1 \in 1 .. (p - 1) - 1 + 1 /\ 1 + 1 - 1 = 1
    BY <1>1
  <2>2. QED
    BY <1>4, <2>1
<1>7. QED
  BY <1>5, <1>6 DEF Parses, p

-----------------------------------------------------------------------------
(* Types *)

\* The server that start() begins with.
LEMMA InitIInv == Init => IInv
<1> SUFFICES ASSUME Init PROVE IInv
  OBVIOUS
<1> USE ServerAssumption DEF Init
<1>1. /\ <<>> \in Seq(Clients) /\ <<>> \in Seq(Symbols) /\ <<>> \in Seq(Clients \X Events)
      /\ Len(<<>>) = 0
  BY EmptySeq
<1>2. TypeOK
  <2>1. Scripts \in [Clients -> Seq(Symbols)]
    BY DEF Symbols
  <2>2. \A c \in Clients : Len(Scripts[c]) \in Nat
    BY <2>1, LenProperties
  <2>3. \A c \in Clients :
          received[c] + Len(wire[c]) + Len(unsent[c]) <= Len(Scripts[c])
    BY <1>1, <2>2
  <2>4. server \in StartSteps
    BY DEF StartSteps
  <2>5. Len(backlog) <= Backlog
    BY <1>1
  <2>6. QED
    BY <1>1, <2>1, <2>3, <2>4, <2>5 DEF TypeOK
<1>3. StreamInv
  <2>1. \A c \in Clients : Len(wire[c]) = 0 /\ received[c] = 0 /\ unsent[c] = Scripts[c]
    BY <1>1
  <2>2. \A c \in Clients : Len(Scripts[c]) \in Nat
    BY LenProperties
  <2>3. QED
    BY <2>1, <2>2 DEF StreamInv
<1>4. ConnectionInv /\ PendingInv
  BY <1>1 DEF ConnectionInv, PendingInv
<1>5. QED
  BY <1>2, <1>3, <1>4 DEF IInv

\* What the steps use of the types.
LEMMA Types ==
  ASSUME TypeOK
  PROVE  /\ \A c \in Clients :
              /\ Scripts[c] \in Seq(Symbols) /\ Len(Scripts[c]) \in Nat
              /\ wire[c] \in Seq(Symbols) /\ Len(wire[c]) \in Nat
              /\ unsent[c] \in Seq(Symbols) /\ Len(unsent[c]) \in Nat
              /\ received[c] \in Nat
              /\ received[c] + Len(wire[c]) + Len(unsent[c]) <= Len(Scripts[c])
         /\ backlog \in Seq(Clients) /\ Len(backlog) \in Nat
         /\ pending_line \in Seq(Symbols) /\ Len(pending_line) \in Nat
BY LenProperties, ServerAssumption DEF TypeOK, Symbols

\* The backlog without its head.
LEMMA BacklogTail ==
  ASSUME TypeOK, backlog # <<>>
  PROVE  /\ Head(backlog) \in Clients /\ Head(backlog) = backlog[1]
         /\ Tail(backlog) \in Seq(Clients) /\ Len(Tail(backlog)) = Len(backlog) - 1
         /\ Len(backlog) \in Nat \ {0}
         /\ \A i \in 1 .. Len(Tail(backlog)) : Tail(backlog)[i] = backlog[i + 1]
<1>1. backlog \in Seq(Clients)
  BY DEF TypeOK
<1>2. QED
  BY <1>1, HeadTailProperties, EmptySeq

\* The steps of the server that only move it: no connection, no stream changes.
LEMMA ServerMoves ==
  ASSUME IInv, UNCHANGED <<connection_vars, client_vars>>,
         client_fd # NoClient <=> server' \in {"test", "recv", "lines", "close_client"},
         server' = "accept" => backlog # <<>>,
         server' = "lines" \/ ~HasLine \/ client_fd = NoClient,
         server' \in StartSteps \cup {"select", "accept", "test", "recv", "lines",
                                      "close_client", "returned"},
         stop_flag' \in BOOLEAN
  PROVE  IInv'
<1> USE DEF connection_vars, client_vars, IInv
<1>1. TypeOK'
  BY DEF TypeOK
<1>2. StreamInv'
  BY DEF StreamInv
<1>3. ConnectionInv'
  BY DEF ConnectionInv
<1>4. PendingInv'
  BY DEF PendingInv, Done, HasLine
<1>5. QED
  BY <1>1, <1>2, <1>3, <1>4

\* accept(): the connection that has waited longest, of which nothing is read yet.
LEMMA AcceptStep ==
  ASSUME IInv, Accept \/ AcceptFails
  PROVE  IInv' /\ \A c \in Clients : Done(c)' = Done(c)
<1>1. TypeOK /\ server = "accept" /\ backlog # <<>> /\ client_fd = NoClient
  BY DEF IInv, ConnectionInv, Accept, AcceptFails
<1>2. /\ Head(backlog) \in Clients /\ Head(backlog) = backlog[1]
      /\ Tail(backlog) \in Seq(Clients) /\ Len(Tail(backlog)) = Len(backlog) - 1
      /\ Len(backlog) \in Nat \ {0}
      /\ \A i \in 1 .. Len(Tail(backlog)) : Tail(backlog)[i] = backlog[i + 1]
  BY <1>1, BacklogTail
<1>3. /\ backlog' = Tail(backlog) /\ UNCHANGED client_vars /\ received' = received
      /\ event_queue_' = event_queue_ /\ stop_flag' = stop_flag
  BY DEF Accept, AcceptFails, client_vars
<1>4. \/ /\ client_fd' = Head(backlog) /\ pending_line' = <<>> /\ server' = "test"
      \/ UNCHANGED <<client_fd, pending_line>> /\ server' = "select"
  BY DEF Accept, AcceptFails
<1>5. /\ <<>> \in Seq(Symbols) /\ Len(<<>>) = 0
      /\ NoClient \notin Clients /\ Backlog \in Nat
  BY EmptySeq, ServerAssumption
<1>6. /\ received[Head(backlog)] = 0 /\ client[Head(backlog)] # "new"
      /\ \A c \in Clients : received[c] \in Nat
  BY <1>1, <1>2 DEF IInv, ConnectionInv, TypeOK
<1>7. TypeOK'
  <2>1. Len(Tail(backlog)) <= Backlog
    BY <1>1, <1>2, <1>5 DEF TypeOK
  <2>2. QED
    BY <1>1, <1>2, <1>3, <1>4, <1>5, <2>1 DEF TypeOK, client_vars
<1>8. StreamInv'
  BY <1>3 DEF IInv, StreamInv, client_vars
<1>9. ConnectionInv'
  <2>1. \A j \in 1 .. Len(backlog') :
          /\ backlog'[j] = backlog[j + 1] /\ j + 1 \in 1 .. Len(backlog) /\ j + 1 # 1
    BY <1>2, <1>3
  <2>2. 1 \in 1 .. Len(backlog)
    BY <1>2
  <2>3. \A j \in 1 .. Len(backlog') :
          /\ received[backlog'[j]] = 0 /\ client[backlog'[j]] # "new"
          /\ backlog'[j] # client_fd /\ backlog'[j] # Head(backlog)
    BY <1>2, <2>1, <2>2 DEF IInv, ConnectionInv
  <2>4. \A j, k \in 1 .. Len(backlog') : j # k => backlog'[j] # backlog'[k]
    <3> SUFFICES ASSUME NEW j \in 1 .. Len(backlog'), NEW k \in 1 .. Len(backlog'), j # k
                 PROVE  backlog'[j] # backlog'[k]
      OBVIOUS
    <3>1. j + 1 # k + 1
      BY <1>2, <1>3
    <3>2. QED
      BY <2>1, <3>1 DEF IInv, ConnectionInv
  <2>5. client_fd' # NoClient <=> server' \in {"test", "recv", "lines", "close_client"}
    BY <1>1, <1>2, <1>4, <1>5
  <2>6. server' # "accept"
    BY <1>4
  <2>7. \A c \in Clients : client'[c] = "new" => received'[c] = 0 /\ c # client_fd'
    BY <1>2, <1>3, <1>4, <1>6 DEF IInv, ConnectionInv, client_vars
  <2>8. QED
    BY <1>3, <1>4, <2>3, <2>4, <2>5, <2>6, <2>7 DEF ConnectionInv, client_vars
<1>10. \A c \in Clients : Done(c)' = Done(c)
  BY <1>1, <1>2, <1>3, <1>4, <1>5, <1>6 DEF Done
<1>11. PendingInv'
  <2>1. CASE client_fd' = NoClient
    BY <2>1 DEF PendingInv
  <2>2. CASE client_fd' # NoClient
    <3>1. client_fd' = Head(backlog) /\ pending_line' = <<>>
      BY <1>1, <1>4, <2>2
    <3>2. Done(client_fd)' = 0
      BY <1>3, <1>5, <1>6, <3>1 DEF Done
    <3>3. ~HasLine'
      BY <1>5, <3>1 DEF HasLine, Contains
    <3>4. QED
      BY <1>5, <3>1, <3>2, <3>3 DEF PendingInv
  <2>3. QED
    BY <2>1, <2>2
<1>12. QED
  BY <1>7, <1>8, <1>9, <1>10, <1>11 DEF IInv

\* recv(): what was next on the wire is next in pending_line.
LEMMA ReceiveStep ==
  ASSUME IInv, Receive
  PROVE  IInv' /\ \A c \in Clients : Done(c)' = Done(c)
<1>1. /\ TypeOK /\ client_fd \in Clients /\ server = "recv" /\ server' = "lines"
      /\ UNCHANGED <<stop_flag, backlog, client_fd, event_queue_, client, unsent>>
  BY DEF IInv, TypeOK, ConnectionInv, Receive
<1> DEFINE c == client_fd
           S == Scripts[c]
           W == wire[c]
<1>2. PICK n \in 1 .. Len(W) :
        /\ pending_line' = pending_line \o SubSeq(W, 1, n)
        /\ wire' = [wire EXCEPT ![c] = SubSeq(@, n + 1, Len(@))]
        /\ received' = [received EXCEPT ![c] = @ + n]
  BY DEF Receive
<1>3. /\ S \in Seq(Symbols) /\ Len(S) \in Nat /\ W \in Seq(Symbols) /\ Len(W) \in Nat
      /\ unsent[c] \in Seq(Symbols) /\ Len(unsent[c]) \in Nat /\ received[c] \in Nat
      /\ received[c] + Len(W) + Len(unsent[c]) <= Len(S)
      /\ pending_line \in Seq(Symbols) /\ Len(pending_line) \in Nat
  BY <1>1, Types
<1>4. /\ wire \in [Clients -> Seq(Symbols)] /\ received \in [Clients -> Nat]
      /\ wire' = [wire EXCEPT ![c] = SubSeq(W, n + 1, Len(W))]
  BY <1>1, <1>2 DEF TypeOK
<1> HIDE DEF S, W
<1>5. /\ SubSeq(W, 1, n) \in Seq(Symbols) /\ Len(SubSeq(W, 1, n)) = n
      /\ \A i \in 1 .. n : SubSeq(W, 1, n)[i] = W[i]
  BY <1>3, PrefixOfStream
<1>6. /\ SubSeq(W, n + 1, Len(W)) \in Seq(Symbols)
      /\ Len(SubSeq(W, n + 1, Len(W))) = Len(W) - n
      /\ \A i \in 1 .. Len(W) - n : SubSeq(W, n + 1, Len(W))[i] = W[n + i]
  <2>1. /\ n + 1 \in Int /\ Len(W) \in Int /\ Len(W) - (n + 1) + 1 = Len(W) - n
        /\ \A i \in n + 1 .. Len(W) : W[i] \in Symbols
    BY <1>3, ElementOfSeq
  <2>2. /\ SubSeq(W, n + 1, Len(W)) \in Seq(Symbols)
        /\ Len(SubSeq(W, n + 1, Len(W))) =
             IF n + 1 <= Len(W) THEN Len(W) - (n + 1) + 1 ELSE 0
        /\ \A i \in 1 .. Len(W) - (n + 1) + 1 :
             SubSeq(W, n + 1, Len(W))[i] = W[(n + 1) + i - 1]
    BY <2>1, SubSeqProperties
  <2>3. \A i \in 1 .. Len(W) - n : (n + 1) + i - 1 = n + i
    BY <1>3
  <2>4. Len(SubSeq(W, n + 1, Len(W))) = Len(W) - n
    BY <1>3, <2>2
  <2>5. QED
    BY <2>1, <2>2, <2>3, <2>4
<1>7. /\ pending_line' \in Seq(Symbols)
      /\ Len(pending_line') = Len(pending_line) + n
      /\ \A i \in 1 .. Len(pending_line) + n :
           pending_line'[i] = IF i <= Len(pending_line) THEN pending_line[i]
                              ELSE W[i - Len(pending_line)]
  <2>1. /\ pending_line' \in Seq(Symbols)
        /\ Len(pending_line') = Len(pending_line) + n
        /\ \A i \in 1 .. Len(pending_line) + n :
             pending_line'[i] = IF i <= Len(pending_line) THEN pending_line[i]
                                ELSE SubSeq(W, 1, n)[i - Len(pending_line)]
    BY <1>2, <1>3, <1>5, ConcatProperties
  <2>2. \A i \in 1 .. Len(pending_line) + n :
          ~(i <= Len(pending_line)) => i - Len(pending_line) \in 1 .. n
    BY <1>3
  <2>3. QED
    BY <1>5, <2>1, <2>2
<1>8. /\ received'[c] = received[c] + n /\ received'[c] \in Nat
      /\ Len(wire'[c]) = Len(W) - n
      /\ \A d \in Clients : d # c => received'[d] = received[d] /\ wire'[d] = wire[d]
  <2>1. received'[c] = received[c] + n /\ \A d \in Clients : d # c => received'[d] = received[d]
    BY <1>1, <1>2, <1>4
  <2>2. /\ wire'[c] = SubSeq(W, n + 1, Len(W))
        /\ \A d \in Clients : d # c => wire'[d] = wire[d]
    BY <1>1, <1>4
  <2>3. received'[c] \in Nat
    BY <1>3, <2>1
  <2>4. QED
    BY <1>6, <2>1, <2>2, <2>3
<1>9. TypeOK'
  <2>1. wire' \in [Clients -> Seq(Symbols)] /\ received' \in [Clients -> Nat]
    BY <1>1, <1>2, <1>4, <1>6, <1>8
  <2>2. \A d \in Clients : received'[d] + Len(wire'[d]) + Len(unsent'[d]) <= Len(Scripts[d])
    <3>1. received'[c] + Len(wire'[c]) + Len(unsent'[c]) <= Len(S)
      BY <1>1, <1>3, <1>8
    <3>2. QED
      BY <1>1, <1>8, <3>1, Types DEF S
  <2>3. QED
    BY <1>1, <1>7, <2>1, <2>2 DEF TypeOK
<1>10. /\ \A i \in 1 .. Len(W) : W[i] = S[received[c] + i]
       /\ \A i \in 1 .. Len(unsent[c]) : unsent[c][i] = S[received[c] + Len(W) + i]
  BY <1>1 DEF IInv, StreamInv, S, W
<1>11. StreamInv'
  <2>1. ASSUME NEW i \in 1 .. Len(W) - n
        PROVE  wire'[c][i] = S[received'[c] + i]
    <3>1. n + i \in 1 .. Len(W) /\ received[c] + (n + i) = received'[c] + i
      BY <1>3, <1>8
    <3>2. wire'[c][i] = W[n + i]
      BY <1>1, <1>4, <1>6
    <3>3. QED
      BY <1>10, <3>1, <3>2
  <2>2. received'[c] + Len(wire'[c]) = received[c] + Len(W)
    BY <1>3, <1>8
  <2>3. QED
    <3>1. ASSUME NEW d \in Clients, d # c
          PROVE  /\ \A i \in 1 .. Len(wire'[d]) : wire'[d][i] = Scripts[d][received'[d] + i]
                 /\ \A i \in 1 .. Len(unsent'[d]) :
                      unsent'[d][i] = Scripts[d][received'[d] + Len(wire'[d]) + i]
      BY <1>1, <1>8, <3>1 DEF IInv, StreamInv
    <3>2. /\ \A i \in 1 .. Len(wire'[c]) : wire'[c][i] = S[received'[c] + i]
          /\ \A i \in 1 .. Len(unsent'[c]) :
               unsent'[c][i] = S[received'[c] + Len(wire'[c]) + i]
      BY <1>1, <1>8, <1>10, <2>1, <2>2
    <3>3. QED
      BY <3>1, <3>2 DEF StreamInv, S
<1>12. ConnectionInv'
  <2>1. \A i \in 1 .. Len(backlog) : backlog[i] \in Clients /\ backlog[i] # c
    BY <1>1, ElementOfSeq DEF IInv, TypeOK, ConnectionInv
  <2>2. \A d \in Clients : client[d] = "new" => d # c
    BY <1>1 DEF IInv, ConnectionInv
  <2>3. \A d \in Clients : client'[d] = "new" => received'[d] = 0 /\ d # client_fd'
    BY <1>1, <1>8, <2>2 DEF IInv, ConnectionInv
  <2>4. \A i \in 1 .. Len(backlog) : received'[backlog[i]] = 0
    BY <1>1, <1>8, <2>1 DEF IInv, ConnectionInv
  <2>5. client_fd' # NoClient /\ server' = "lines"
    BY <1>1, ServerAssumption
  <2>6. QED
    BY <1>1, <2>3, <2>4, <2>5 DEF IInv, ConnectionInv
<1>13. \A d \in Clients : Done(d)' = Done(d)
  BY <1>1, <1>3, <1>7, <1>8 DEF Done
<1>14. PendingInv'
  <2>1. /\ Done(c) \in Nat /\ Done(c) = received[c] - Len(pending_line)
        /\ \A i \in 1 .. Len(pending_line) : pending_line[i] = S[Done(c) + i]
        /\ Done(c) # 0 => S[Done(c)] = Newline
    BY <1>1, ServerAssumption DEF IInv, PendingInv, S, Done
  <2>2. Done(client_fd)' = Done(c)
    BY <1>1, <1>3, <1>7, <1>8 DEF Done
  <2>3. ASSUME NEW i \in 1 .. Len(pending_line) + n
        PROVE  pending_line'[i] = S[Done(c) + i]
    <3>1. CASE i <= Len(pending_line)
      <4>1. i \in 1 .. Len(pending_line)
        BY <1>3, <3>1
      <4>2. pending_line'[i] = pending_line[i]
        BY <1>7, <3>1
      <4>3. QED
        BY <2>1, <4>1, <4>2
    <3>2. CASE i > Len(pending_line)
      <4>1. /\ i - Len(pending_line) \in 1 .. Len(W)
            /\ received[c] + (i - Len(pending_line)) = Done(c) + i
        BY <1>3, <2>1, <3>2
      <4>2. pending_line'[i] = W[i - Len(pending_line)]
        BY <1>3, <1>7, <3>2
      <4>3. QED
        BY <1>10, <4>1, <4>2
    <3>3. QED
      BY <1>3, <3>1, <3>2
  <2>4. QED
    BY <1>1, <1>7, <2>1, <2>2, <2>3 DEF PendingInv, S
<1>15. QED
  BY <1>9, <1>11, <1>12, <1>13, <1>14 DEF IInv

\* The first line in pending_line is the part of the script up to the next newline.
LEMMA LineInScript ==
  ASSUME IInv, HasLine, client_fd \in Clients
  PROVE  LET c == client_fd
             d == Done(c)
             e == d + NewlinePosition
         IN  /\ d \in 0 .. Len(Scripts[c]) /\ e \in d + 1 .. Len(Scripts[c])
             /\ d # 0 => Scripts[c][d] = Newline
             /\ Scripts[c][e] = Newline
             /\ \A i \in d + 1 .. e - 1 : Scripts[c][i] # Newline
             /\ pending_line[1] = Scripts[c][d + 1]
<1> DEFINE c == client_fd
           d == Done(c)
           S == Scripts[c]
           p == NewlinePosition
<1>1. /\ Len(S) \in Nat /\ received[c] \in Nat /\ received[c] <= Len(S)
      /\ Len(pending_line) \in Nat
  BY Types DEF IInv
<1>2. d \in Nat /\ d + Len(pending_line) = received[c]
  BY <1>1, ServerAssumption DEF IInv, PendingInv, Done
<1>3. /\ \A i \in 1 .. Len(pending_line) : pending_line[i] = S[d + i]
      /\ d # 0 => S[d] = Newline
  BY ServerAssumption DEF IInv, PendingInv
<1>4. /\ p \in 1 .. Len(pending_line) /\ pending_line[p] = Newline
      /\ \A j \in 1 .. p - 1 : pending_line[j] # Newline
  BY FirstNewline DEF IInv
<1> HIDE DEF d, S, p
<1>5. ASSUME NEW i \in d + 1 .. (d + p) - 1 PROVE S[i] # Newline
  <2>1. /\ i - d \in 1 .. p - 1 /\ i - d \in 1 .. Len(pending_line)
        /\ d + (i - d) = i
    BY <1>1, <1>2, <1>4
  <2>2. QED
    BY <1>3, <1>4, <2>1
<1>6. /\ d \in 0 .. Len(S) /\ d + p \in d + 1 .. Len(S) /\ 1 \in 1 .. Len(pending_line)
  BY <1>1, <1>2, <1>4
<1>7. S[d + p] = Newline /\ pending_line[1] = S[d + 1]
  BY <1>3, <1>4, <1>6
<1>8. QED
  BY <1>3, <1>5, <1>6, <1>7 DEF d, S, p

\* A line is cut off, pushed or not.
LEMMA LineStep ==
  ASSUME IInv, PushLine \/ RejectLine
  PROVE  /\ IInv'
         /\ client_fd \in Clients
         /\ Done(client_fd)' = Done(client_fd) + NewlinePosition
         /\ \A c \in Clients : c # client_fd => Done(c)' = Done(c)
<1>1. /\ TypeOK /\ HasLine /\ server = "lines" /\ server' = server
      /\ client_fd \in Clients /\ client_fd # NoClient
      /\ pending_line' = AfterLine
      /\ UNCHANGED <<stop_flag, backlog, client_fd, received, client_vars>>
  BY ServerAssumption DEF IInv, TypeOK, ConnectionInv, PushLine, RejectLine
<1> DEFINE c == client_fd
           d == Done(c)
           p == NewlinePosition
           n == Len(pending_line)
<1>2. /\ p \in 1 .. n /\ n \in Nat
      /\ AfterLine \in Seq(Symbols) /\ Len(AfterLine) = n - p
      /\ \A i \in 1 .. Len(AfterLine) : AfterLine[i] = pending_line[p + i]
  BY <1>1, FirstNewline, AfterLineType, Types
<1>3. /\ d \in Nat /\ d = received[c] - n /\ received[c] \in Nat
      /\ \A i \in 1 .. n : pending_line[i] = Scripts[c][d + i]
  BY <1>1, Types DEF IInv, PendingInv, Done
<1>4. Scripts[c][d + p] = Newline
  BY <1>1, LineInScript
<1>5. Done(c)' = received[c] - Len(AfterLine)
  BY <1>1 DEF Done
<1>6. ASSUME NEW b \in Clients, b # c PROVE Done(b)' = Done(b)
  BY <1>1, <1>6 DEF Done
<1>7. event_queue_' \in Seq(Clients \X Events)
  <2>1. CASE RejectLine
    BY <1>1, <2>1 DEF RejectLine, TypeOK
  <2>2. CASE PushLine
    <3>1. NextLine[1] \in Events
      BY <2>2 DEF PushLine, Parses
    <3>2. <<c, NextLine[1]>> \in Clients \X Events
      BY <1>1, <3>1
    <3>3. QED
      BY <1>1, <2>2, <3>2, AppendProperties DEF PushLine, TypeOK
  <2>3. QED
    BY <2>1, <2>2
<1> HIDE DEF d, p, n
<1>8. Done(c)' = d + p
  BY <1>2, <1>3, <1>5
<1>9. TypeOK'
  BY <1>1, <1>2, <1>7 DEF TypeOK, client_vars
<1>10. StreamInv' /\ ConnectionInv'
  BY <1>1 DEF IInv, StreamInv, ConnectionInv, client_vars
<1>11. PendingInv'
  <2>1. ASSUME NEW i \in 1 .. Len(AfterLine)
        PROVE  AfterLine[i] = Scripts[c][(d + p) + i]
    <3>1. p + i \in 1 .. n /\ d + (p + i) = (d + p) + i
      BY <1>2, <1>3
    <3>2. QED
      BY <1>2, <1>3, <3>1
  <2>2. d + p \in Nat
    BY <1>2, <1>3
  <2>3. QED
    BY <1>1, <1>4, <1>8, <2>1, <2>2 DEF PendingInv
<1>12. QED
  BY <1>1, <1>6, <1>8, <1>9, <1>10, <1>11 DEF IInv, d, p

\* close(): what has been read stays read.
LEMMA CloseStep ==
  ASSUME IInv, CloseClient
  PROVE  /\ IInv'
         /\ client_fd \in Clients
         /\ \A c \in Clients :
              Done(c)' = received[c] /\ (c # client_fd => Done(c) = received[c])
<1>1. /\ TypeOK /\ server = "close_client" /\ server' = "select"
      /\ client_fd \in Clients /\ client_fd' = NoClient /\ pending_line' = <<>>
      /\ wire' = [wire EXCEPT ![client_fd] = <<>>]
      /\ unsent' = [unsent EXCEPT ![client_fd] = <<>>]
      /\ UNCHANGED <<stop_flag, backlog, event_queue_, received, client>>
      /\ wire \in [Clients -> Seq(Symbols)] /\ unsent \in [Clients -> Seq(Symbols)]
  BY DEF IInv, TypeOK, ConnectionInv, CloseClient
<1>2. /\ <<>> \in Seq(Symbols) /\ Len(<<>>) = 0 /\ NoClient \notin Clients
  BY EmptySeq, ServerAssumption
<1>3. \A c \in Clients :
        /\ wire'[c] = IF c = client_fd THEN <<>> ELSE wire[c]
        /\ unsent'[c] = IF c = client_fd THEN <<>> ELSE unsent[c]
  BY <1>1
<1>4. \A c \in Clients : received[c] + Len(wire'[c]) + Len(unsent'[c]) <= Len(Scripts[c])
  BY <1>1, <1>2, <1>3, Types
<1>5. TypeOK'
  <2>1. wire' \in [Clients -> Seq(Symbols)] /\ unsent' \in [Clients -> Seq(Symbols)]
    BY <1>1, <1>2
  <2>2. QED
    BY <1>1, <1>2, <1>4, <2>1 DEF TypeOK
<1>6. StreamInv'
  <2>1. ASSUME NEW c \in Clients, c # client_fd
        PROVE  wire'[c] = wire[c] /\ unsent'[c] = unsent[c]
    BY <1>3, <2>1
  <2>2. Len(wire'[client_fd]) = 0 /\ Len(unsent'[client_fd]) = 0
    BY <1>1, <1>2, <1>3
  <2>3. QED
    BY <1>1, <2>1, <2>2 DEF IInv, StreamInv
<1>7. ConnectionInv'
  <2>1. \A i \in 1 .. Len(backlog) : backlog[i] # NoClient
    BY <1>1, <1>2, ElementOfSeq DEF TypeOK
  <2>2. QED
    BY <1>1, <1>2, <2>1 DEF IInv, ConnectionInv
<1>8. PendingInv'
  BY <1>1 DEF PendingInv
<1>9. \A c \in Clients : Done(c)' = received[c]
  BY <1>1, <1>2, Types DEF Done
<1>10. \A c \in Clients : c # client_fd => Done(c) = received[c]
  BY <1>1, Types DEF Done
<1>11. QED
  BY <1>1, <1>5, <1>6, <1>7, <1>8, <1>9, <1>10 DEF IInv

\* connect(): a connection that waits is at the end of the backlog.
LEMMA ConnectStep ==
  ASSUME IInv, NEW c \in Clients, Connect(c)
  PROVE  IInv'
<1>1. /\ TypeOK /\ client[c] = "new"
      /\ UNCHANGED <<start_vars, client_fd, pending_line, event_queue_, received,
                     unsent, wire>>
      /\ client \in [Clients -> {"new", "refused", "connected", "closed", "reset"}]
      /\ backlog \in Seq(Clients) /\ Len(backlog) \in Nat
  BY Types DEF IInv, TypeOK, Connect
<1>2. StreamInv' /\ PendingInv'
  BY <1>1 DEF IInv, StreamInv, PendingInv, Done, HasLine, start_vars
<1>3. CASE Len(backlog) < Backlog
  <2>1. /\ client' = [client EXCEPT ![c] = "connected"]
        /\ backlog' = Append(backlog, c)
    BY <1>3 DEF Connect
  <2>2. /\ backlog' \in Seq(Clients) /\ Len(backlog') = Len(backlog) + 1
        /\ \A i \in 1 .. Len(backlog) : backlog'[i] = backlog[i]
        /\ backlog'[Len(backlog) + 1] = c
        /\ backlog' # <<>>
    BY <1>1, <2>1, AppendProperties
  <2>3. Len(backlog') <= Backlog
    BY <1>1, <1>3, <2>2, ServerAssumption
  <2>4. TypeOK'
    BY <1>1, <2>1, <2>2, <2>3 DEF TypeOK, start_vars
  <2>5. \A i \in 1 .. Len(backlog') : i \in 1 .. Len(backlog) \/ i = Len(backlog) + 1
    BY <1>1, <2>2
  <2>6. \A i \in 1 .. Len(backlog) :
          /\ backlog[i] \in Clients /\ backlog[i] # c
          /\ received[backlog[i]] = 0 /\ backlog[i] # client_fd
          /\ client'[backlog[i]] # "new"
          /\ \A j \in 1 .. Len(backlog) : i # j => backlog[i] # backlog[j]
    <3>1. \A i \in 1 .. Len(backlog) : backlog[i] \in Clients
      BY <1>1, ElementOfSeq
    <3>2. QED
      BY <1>1, <2>1, <3>1 DEF IInv, ConnectionInv
  <2>7. received[c] = 0 /\ c # client_fd /\ client'[c] # "new"
    BY <1>1, <2>1 DEF IInv, ConnectionInv
  <2>8. \A i \in 1 .. Len(backlog') :
          /\ received[backlog'[i]] = 0 /\ backlog'[i] # client_fd
          /\ client'[backlog'[i]] # "new"
    BY <2>2, <2>5, <2>6, <2>7
  <2>9. \A i, j \in 1 .. Len(backlog') : i # j => backlog'[i] # backlog'[j]
    BY <2>2, <2>5, <2>6
  <2>10. \A b \in Clients : client'[b] = "new" => client[b] = "new"
    BY <1>1, <2>1
  <2>11. ConnectionInv'
    BY <1>1, <2>2, <2>8, <2>9, <2>10 DEF IInv, ConnectionInv, start_vars
  <2>12. QED
    BY <1>2, <2>4, <2>11 DEF IInv
<1>4. CASE ~(Len(backlog) < Backlog)
  <2>1. client' = [client EXCEPT ![c] = "refused"] /\ backlog' = backlog
    BY <1>4 DEF Connect
  <2>2. TypeOK'
    BY <1>1, <2>1 DEF TypeOK, start_vars
  <2>3. \A b \in Clients : client'[b] = "new" => client[b] = "new"
    BY <1>1, <2>1
  <2>4. \A i \in 1 .. Len(backlog) : backlog[i] \in Clients
    BY <1>1, ElementOfSeq
  <2>5. ConnectionInv'
    BY <1>1, <2>1, <2>3, <2>4 DEF IInv, ConnectionInv, start_vars
  <2>6. QED
    BY <1>2, <2>2, <2>5 DEF IInv
<1>5. QED
  BY <1>3, <1>4

\* send(): a symbol goes from the script's rest to the wire.
LEMMA SendStep ==
  ASSUME IInv, NEW c \in Clients, Send(c)
  PROVE  IInv'
<1> DEFINE S == Scripts[c]
           W == wire[c]
           U == unsent[c]
<1>1. /\ TypeOK /\ U # <<>>
      /\ wire' = [wire EXCEPT ![c] = Append(W, Head(U))]
      /\ unsent' = [unsent EXCEPT ![c] = Tail(U)]
      /\ UNCHANGED <<start_vars, connection_vars, client>>
      /\ wire \in [Clients -> Seq(Symbols)] /\ unsent \in [Clients -> Seq(Symbols)]
  BY DEF IInv, TypeOK, Send
<1>2. /\ W \in Seq(Symbols) /\ Len(W) \in Nat /\ U \in Seq(Symbols) /\ Len(U) \in Nat
      /\ received[c] \in Nat /\ Len(S) \in Nat
      /\ received[c] + Len(W) + Len(U) <= Len(S)
  BY <1>1, Types
<1>3. /\ \A i \in 1 .. Len(W) : W[i] = S[received[c] + i]
      /\ \A i \in 1 .. Len(U) : U[i] = S[received[c] + Len(W) + i]
  BY DEF IInv, StreamInv
<1>4. /\ wire'[c] = Append(W, Head(U)) /\ unsent'[c] = Tail(U)
      /\ \A d \in Clients : d # c => wire'[d] = wire[d] /\ unsent'[d] = unsent[d]
  BY <1>1
<1> HIDE DEF S, W, U
<1>5. /\ Head(U) \in Symbols /\ Head(U) = U[1] /\ Tail(U) \in Seq(Symbols)
      /\ Len(Tail(U)) = Len(U) - 1 /\ Len(U) # 0
      /\ \A i \in 1 .. Len(Tail(U)) : Tail(U)[i] = U[i + 1]
  BY <1>1, <1>2, HeadTailProperties, EmptySeq
<1>6. /\ Append(W, Head(U)) \in Seq(Symbols)
      /\ Len(Append(W, Head(U))) = Len(W) + 1
      /\ \A i \in 1 .. Len(W) : Append(W, Head(U))[i] = W[i]
      /\ Append(W, Head(U))[Len(W) + 1] = U[1]
  BY <1>2, <1>5, AppendProperties
<1>7. TypeOK'
  <2>1. wire' \in [Clients -> Seq(Symbols)] /\ unsent' \in [Clients -> Seq(Symbols)]
    BY <1>1, <1>5, <1>6
  <2>2. received[c] + Len(wire'[c]) + Len(unsent'[c]) <= Len(S)
    BY <1>2, <1>4, <1>5, <1>6
  <2>3. \A d \in Clients : received[d] + Len(wire'[d]) + Len(unsent'[d]) <= Len(Scripts[d])
    BY <1>1, <1>4, <2>2, Types DEF S
  <2>4. QED
    BY <1>1, <2>1, <2>3 DEF TypeOK, start_vars, connection_vars
<1>8. StreamInv'
  <2>1. ASSUME NEW i \in 1 .. Len(W) + 1
        PROVE  wire'[c][i] = S[received[c] + i]
    <3>1. CASE i \in 1 .. Len(W)
      BY <1>3, <1>4, <1>6, <3>1
    <3>2. CASE i = Len(W) + 1
      <4>1. 1 \in 1 .. Len(U) /\ received[c] + Len(W) + 1 = received[c] + i
        BY <1>2, <1>5, <3>2
      <4>2. QED
        BY <1>3, <1>4, <1>6, <3>2, <4>1
    <3>3. QED
      BY <1>2, <3>1, <3>2
  <2>2. ASSUME NEW i \in 1 .. Len(Tail(U))
        PROVE  unsent'[c][i] = S[received[c] + (Len(W) + 1) + i]
    <3>1. i + 1 \in 1 .. Len(U) /\ i \in Nat
      BY <1>2, <1>5
    <3>2. received[c] + Len(W) + (i + 1) = received[c] + (Len(W) + 1) + i
      <4>1. \A k, l \in Nat : k + l + (i + 1) = k + (l + 1) + i
        BY <3>1
      <4>2. QED
        BY <1>2, <4>1
    <3>3. QED
      BY <1>3, <1>4, <1>5, <3>1, <3>2
  <2>3. received' = received /\ Len(wire'[c]) = Len(W) + 1
    BY <1>1, <1>4, <1>6 DEF connection_vars
  <2>4. ASSUME NEW d \in Clients, d # c
        PROVE  /\ \A i \in 1 .. Len(wire'[d]) : wire'[d][i] = Scripts[d][received'[d] + i]
               /\ \A i \in 1 .. Len(unsent'[d]) :
                    unsent'[d][i] = Scripts[d][received'[d] + Len(wire'[d]) + i]
    BY <1>4, <2>3, <2>4 DEF IInv, StreamInv
  <2>5. /\ \A i \in 1 .. Len(wire'[c]) : wire'[c][i] = S[received'[c] + i]
        /\ \A i \in 1 .. Len(unsent'[c]) :
             unsent'[c][i] = S[received'[c] + Len(wire'[c]) + i]
    BY <1>4, <2>1, <2>2, <2>3
  <2>6. QED
    BY <2>4, <2>5 DEF StreamInv, S
<1>9. ConnectionInv' /\ PendingInv'
  BY <1>1 DEF IInv, ConnectionInv, PendingInv, Done, HasLine, start_vars, connection_vars
<1>10. QED
  BY <1>7, <1>8, <1>9 DEF IInv

\* Clients end: what is not sent never will be, and what is on the wire may be lost.
LEMMA ClientsEndStep ==
  ASSUME IInv, NEW D \in SUBSET Clients,
         UNCHANGED <<start_vars, connection_vars>>,
         wire' \in [Clients -> Seq(Symbols)], unsent' \in [Clients -> Seq(Symbols)],
         client' \in [Clients -> {"new", "refused", "connected", "closed", "reset"}],
         \A c \in D : /\ client[c] # "new" /\ client'[c] # "new"
                      /\ wire'[c] = wire[c] \/ wire'[c] = <<>>
                      /\ unsent'[c] = <<>>,
         \A c \in Clients \ D :
           client'[c] = client[c] /\ wire'[c] = wire[c] /\ unsent'[c] = unsent[c]
  PROVE  IInv'
<1>1. TypeOK /\ <<>> \in Seq(Symbols) /\ Len(<<>>) = 0
  BY EmptySeq DEF IInv
<1>2. received' = received
  BY DEF connection_vars
<1>3. \A c \in Clients : /\ wire'[c] = wire[c] \/ wire'[c] = <<>>
                         /\ unsent'[c] = unsent[c] \/ unsent'[c] = <<>>
                         /\ client'[c] = "new" => client[c] = "new"
  OBVIOUS
<1>4. TypeOK'
  <2>1. ASSUME NEW c \in Clients
        PROVE  received[c] + Len(wire'[c]) + Len(unsent'[c]) <= Len(Scripts[c])
    <3>1. Len(wire'[c]) = Len(wire[c]) \/ Len(wire'[c]) = 0
      BY <1>1, <1>3
    <3>2. Len(unsent'[c]) = Len(unsent[c]) \/ Len(unsent'[c]) = 0
      BY <1>1, <1>3
    <3>3. /\ received[c] \in Nat /\ Len(wire[c]) \in Nat /\ Len(unsent[c]) \in Nat
          /\ Len(Scripts[c]) \in Nat
          /\ received[c] + Len(wire[c]) + Len(unsent[c]) <= Len(Scripts[c])
      BY <1>1, Types
    <3>4. QED
      BY <3>1, <3>2, <3>3
  <2>2. QED
    BY <1>1, <2>1 DEF TypeOK, start_vars, connection_vars
<1>5. StreamInv'
  <2> SUFFICES ASSUME NEW c \in Clients
               PROVE  /\ \A i \in 1 .. Len(wire'[c]) : wire'[c][i] = Scripts[c][received[c] + i]
                      /\ \A i \in 1 .. Len(unsent'[c]) :
                           unsent'[c][i] = Scripts[c][received[c] + Len(wire'[c]) + i]
    BY <1>2 DEF StreamInv
  <2>1. Len(<<>>) = 0 /\ \A i \in 1 .. 0 : FALSE
    BY <1>1
  <2>2. CASE c \in D
    BY <1>1, <2>1, <2>2 DEF IInv, StreamInv
  <2>3. CASE c \notin D
    BY <2>3 DEF IInv, StreamInv
  <2>4. QED
    BY <2>2, <2>3
<1>6. \A i \in 1 .. Len(backlog) : backlog[i] \in Clients /\ client'[backlog[i]] # "new"
  <2>1. \A i \in 1 .. Len(backlog) : backlog[i] \in Clients
    BY <1>1, ElementOfSeq DEF TypeOK
  <2>2. QED
    BY <1>3, <2>1 DEF IInv, ConnectionInv
<1>7. ConnectionInv'
  BY <1>3, <1>6 DEF IInv, ConnectionInv, start_vars, connection_vars
<1>8. PendingInv'
  BY DEF IInv, PendingInv, Done, HasLine, start_vars, connection_vars
<1>9. QED
  BY <1>4, <1>5, <1>7, <1>8 DEF IInv

\* close(), or the connection breaks.
LEMMA ClientEndsStep ==
  ASSUME IInv, NEW c \in Clients, CloseByClient(c) \/ Reset(c)
  PROVE  IInv'
<1>1. /\ UNCHANGED <<start_vars, connection_vars>>
      /\ client[c] = "connected"
      /\ unsent' = [unsent EXCEPT ![c] = <<>>]
      /\ wire' = wire \/ wire' = [wire EXCEPT ![c] = <<>>]
      /\ client' = [client EXCEPT ![c] = "closed"] \/ client' = [client EXCEPT ![c] = "reset"]
      /\ wire \in [Clients -> Seq(Symbols)] /\ unsent \in [Clients -> Seq(Symbols)]
      /\ client \in [Clients -> {"new", "refused", "connected", "closed", "reset"}]
      /\ <<>> \in Seq(Symbols)
  BY EmptySeq DEF IInv, TypeOK, CloseByClient, Reset
<1>2. /\ wire' \in [Clients -> Seq(Symbols)] /\ unsent' \in [Clients -> Seq(Symbols)]
      /\ client' \in [Clients -> {"new", "refused", "connected", "closed", "reset"}]
  BY <1>1
<1>3. /\ client[c] # "new" /\ client'[c] # "new"
      /\ wire'[c] = wire[c] \/ wire'[c] = <<>>
      /\ unsent'[c] = <<>>
  BY <1>1
<1>4. \A d \in Clients \ {c} :
        client'[d] = client[d] /\ wire'[d] = wire[d] /\ unsent'[d] = unsent[d]
  BY <1>1
<1> DEFINE D == {c}
<1>5. /\ D \in SUBSET Clients
      /\ \A d \in D : /\ client[d] # "new" /\ client'[d] # "new"
                      /\ wire'[d] = wire[d] \/ wire'[d] = <<>>
                      /\ unsent'[d] = <<>>
      /\ \A d \in Clients \ D :
           client'[d] = client[d] /\ wire'[d] = wire[d] /\ unsent'[d] = unsent[d]
  BY <1>3, <1>4
<1> HIDE DEF D
<1>6. QED
  BY <1>1, <1>2, <1>5, ClientsEndStep

\* A client that begins its script again: all of it is read, and nothing is on the
\* way.
LEMMA SendAgainStep ==
  ASSUME IInv, NEW c \in Clients, SendAgain(c)
  PROVE  IInv' /\ \A d \in Clients : Done(d)' = IF d = c THEN 0 ELSE Done(d)
<1> DEFINE S == Scripts[c]
<1>1. /\ TypeOK /\ client[c] = "connected" /\ client_fd = c /\ pending_line = <<>>
      /\ unsent' = [unsent EXCEPT ![c] = S] /\ received' = [received EXCEPT ![c] = 0]
      /\ UNCHANGED <<start_vars, backlog, client_fd, pending_line, event_queue_,
                      client, wire>>
      /\ unsent \in [Clients -> Seq(Symbols)] /\ received \in [Clients -> Nat]
      /\ received[c] = Len(S) /\ Len(<<>>) = 0
  BY EmptySeq DEF IInv, TypeOK, SendAgain
<1>2. /\ S \in Seq(Symbols) /\ Len(S) \in Nat /\ Len(wire[c]) = 0
  <2>1. /\ S \in Seq(Symbols) /\ Len(S) \in Nat /\ Len(wire[c]) \in Nat
        /\ Len(unsent[c]) \in Nat
        /\ Len(S) + Len(wire[c]) + Len(unsent[c]) <= Len(S)
    BY <1>1, Types
  <2>2. \A k, l, m \in Nat : k + l + m <= k => l = 0
    OBVIOUS
  <2> HIDE DEF S
  <2>3. QED
    BY <2>1, <2>2
<1>3. /\ unsent'[c] = S /\ received'[c] = 0
      /\ \A d \in Clients : d # c => unsent'[d] = unsent[d] /\ received'[d] = received[d]
  BY <1>1
<1>4. \A i \in 1 .. Len(backlog) : backlog[i] # c
  BY <1>1 DEF IInv, ConnectionInv
<1>5. \A d \in Clients : Done(d)' = IF d = c THEN 0 ELSE Done(d)
  BY <1>1, <1>3 DEF Done
<1> HIDE DEF S
<1>6. TypeOK'
  <2>1. unsent' \in [Clients -> Seq(Symbols)] /\ received' \in [Clients -> Nat]
    BY <1>1, <1>2
  <2>2. received'[c] + Len(wire'[c]) + Len(unsent'[c]) <= Len(S)
    BY <1>1, <1>2, <1>3
  <2>3. \A d \in Clients : received'[d] + Len(wire'[d]) + Len(unsent'[d]) <= Len(Scripts[d])
    BY <1>1, <1>3, <2>2, Types DEF S
  <2>4. QED
    BY <1>1, <2>1, <2>3 DEF TypeOK, start_vars
<1>7. StreamInv'
  <2>1. \A i \in 1 .. Len(S) : S[i] = S[0 + 0 + i]
    BY <1>2
  <2>2. /\ \A i \in 1 .. Len(wire'[c]) : wire'[c][i] = S[received'[c] + i]
        /\ \A i \in 1 .. Len(unsent'[c]) :
             unsent'[c][i] = S[received'[c] + Len(wire'[c]) + i]
    BY <1>1, <1>2, <1>3, <2>1
  <2>3. ASSUME NEW d \in Clients, d # c
        PROVE  /\ \A i \in 1 .. Len(wire'[d]) : wire'[d][i] = Scripts[d][received'[d] + i]
               /\ \A i \in 1 .. Len(unsent'[d]) :
                    unsent'[d][i] = Scripts[d][received'[d] + Len(wire'[d]) + i]
    BY <1>1, <1>3, <2>3 DEF IInv, StreamInv
  <2>4. QED
    BY <2>2, <2>3 DEF StreamInv, S
<1>8. ConnectionInv'
  <2>1. \A i \in 1 .. Len(backlog) : backlog[i] \in Clients
    BY <1>1, ElementOfSeq DEF TypeOK
  <2>2. QED
    BY <1>1, <1>3, <1>4, <2>1 DEF IInv, ConnectionInv, start_vars
<1>9. PendingInv'
  <2>1. Done(client_fd)' = 0
    BY <1>1, <1>5
  <2>2. server # "lines" => ~HasLine
    BY <1>1, ServerAssumption DEF IInv, PendingInv
  <2>3. QED
    BY <1>1, <2>1, <2>2 DEF PendingInv, HasLine, start_vars
<1>10. QED
  BY <1>5, <1>6, <1>7, <1>8, <1>9 DEF IInv

\* Each step keeps the invariant.
LEMMA NextIInv == IInv /\ [Next]_vars => IInv'
<1> SUFFICES ASSUME IInv, [Next]_vars PROVE IInv'
  OBVIOUS
<1>0. /\ TypeOK /\ ConnectionInv /\ server \in StartSteps \cup
          {"select", "accept", "test", "recv", "lines", "close_client", "returned"}
      /\ stop_flag \in BOOLEAN
  BY DEF IInv, TypeOK
<1>1. ASSUME server' = server, stop_flag' \in BOOLEAN, UNCHANGED <<connection_vars, client_vars>>
      PROVE  IInv'
  BY <1>0, <1>1, ServerMoves DEF IInv, ConnectionInv, PendingInv
<1>2. ASSUME StartUp \/ WsaStartupFails \/ SocketFails PROVE IInv'
  <2>1. /\ server \in StartSteps /\ server' \in StartSteps \cup {"select", "returned"}
        /\ stop_flag' \in BOOLEAN /\ UNCHANGED <<connection_vars, client_vars>>
    BY <1>0, <1>2 DEF StartUp, Succeeds, WsaStartupFails, SocketFails, StartSteps
  <2>2. client_fd = NoClient
    BY <1>0, <2>1 DEF ConnectionInv, StartSteps
  <2>3. server' \notin {"accept", "test", "recv", "lines", "close_client"}
    BY <2>1 DEF StartSteps
  <2>4. QED
    BY <2>1, <2>2, <2>3, ServerMoves
<1>3. ASSUME Select PROVE IInv'
  <2>1. /\ client_fd = NoClient /\ server' \in {"returned", "accept"}
        /\ server' = "accept" => backlog # <<>>
        /\ stop_flag' \in BOOLEAN /\ UNCHANGED <<connection_vars, client_vars>>
    BY <1>0, <1>3 DEF ConnectionInv, Select
  <2>2. QED
    BY <2>1, ServerMoves
<1>4. ASSUME TestStop \/ ReceiveEnds \/ ReceiveTimesOut \/ NoMoreLines PROVE IInv'
  <2>1. /\ server \in {"test", "recv", "lines"} /\ server' \in {"test", "recv", "close_client"}
        /\ server = "lines" => ~HasLine
        /\ stop_flag' \in BOOLEAN /\ UNCHANGED <<connection_vars, client_vars>>
    BY <1>0, <1>4 DEF TestStop, ReceiveEnds, ReceiveTimesOut, NoMoreLines
  <2>2. client_fd # NoClient /\ ~HasLine
    BY <1>0, <2>1 DEF ConnectionInv, IInv, PendingInv
  <2>3. QED
    BY <2>1, <2>2, ServerMoves
<1>5. ASSUME Accept \/ AcceptFails \/ Receive \/ PushLine \/ RejectLine \/ CloseClient
      PROVE  IInv'
  BY <1>5, AcceptStep, ReceiveStep, LineStep, CloseStep
<1>6. ASSUME NEW c \in Clients, ClientStep(c) \/ SendAgain(c) PROVE IInv'
  BY <1>6, ConnectStep, SendStep, ClientEndsStep, SendAgainStep DEF ClientStep
<1>7. ASSUME SetStop \/ UNCHANGED vars PROVE IInv'
  BY <1>0, <1>1, <1>7 DEF SetStop, vars, start_vars, connection_vars, client_vars
<1>8. QED
  BY <1>2, <1>3, <1>4, <1>5, <1>6, <1>7 DEF Next, ServerStep, ServerRuns, Serve

\* The strengthened invariant: one connection is served at a time, and what has
\* been read, is on the wire and still to come is what the client meant to send.
THEOREM IInvCorrect == Spec => []IInv
BY InitIInv, NextIInv, PTL DEF Spec

\* The server's state is well typed, its backlog never over the limit, and it
\* reads no more than was sent.
THEOREM TypeCorrect == Spec => []TypeOK
<1>1. IInv => TypeOK
  BY DEF IInv
<1>2. QED
  BY <1>1, IInvCorrect, PTL

-----------------------------------------------------------------------------
(* Framing *)

OwnPositions(c) == {i \in DOMAIN event_queue_ : event_queue_[i][1] = c}

\* A push is the connection's latest and no other's.
LEMMA PushedStep ==
  ASSUME TypeOK, NEW b \in Clients, NEW e \in Events,
         event_queue_' = Append(event_queue_, <<b, e>>),
         NEW c \in Clients
  PROVE  PushedBy(c)' = IF b = c THEN Append(PushedBy(c), e) ELSE PushedBy(c)
<1> DEFINE q == event_queue_
           pair == <<b, e>>
           n == Len(q)
           own == SelectAt(q, OwnPositions(c))
           seconds == [i \in 1 .. Len(own) |-> own[i][2]]
           Q == OwnPositions(c)'
<1>1. pair \in Clients \X Events /\ pair[1] = b /\ pair[2] = e
  OBVIOUS
<1>2. q \in Seq(Clients \X Events)
  BY DEF TypeOK
<1> HIDE DEF pair
<1>3. /\ n \in Nat /\ DOMAIN q = 1 .. n
      /\ q' \in Seq(Clients \X Events) /\ Len(q') = n + 1 /\ DOMAIN q' = 1 .. n + 1
      /\ \A i \in 1 .. n : q'[i] = q[i]
      /\ q'[n + 1] = pair
  <2>1. q' = Append(q, pair)
    BY DEF pair
  <2>2. /\ n \in Nat /\ q' \in Seq(Clients \X Events) /\ Len(q') = n + 1
        /\ \A i \in 1 .. n : q'[i] = q[i]
        /\ q'[n + 1] = pair
    BY <1>1, <1>2, <2>1, LenProperties, AppendProperties
  <2>3. QED
    BY <1>2, <2>2, LenProperties
<1>4. \A i \in 1 .. n : i \in OwnPositions(c) <=> i \in Q
  BY <1>3 DEF OwnPositions
<1>5. n + 1 \in Q <=> b = c
  BY <1>1, <1>3 DEF OwnPositions
<1>6. own \in Seq(Clients \X Events)
  BY <1>2, SelectAtType
<1>7. SelectAt(q', Q) = IF b = c THEN Append(own, pair) ELSE own
  <2> DEFINE P == OwnPositions(c)
  <2>1. q' = Append(q, pair) /\ \A i \in 1 .. Len(q) : i \in P <=> i \in Q
    BY <1>4 DEF pair
  <2> HIDE DEF P, Q, q
  <2>2. SelectAt(Append(q, pair), Q) =
          IF Len(q) + 1 \in Q THEN Append(SelectAt(q, P), pair) ELSE SelectAt(q, P)
    BY <1>1, <1>2, <2>1, SelectAtAppend
  <2>3. QED
    BY <1>5, <2>1, <2>2 DEF P
<1>8. PushedBy(c) = seconds
  BY <1>6, LenProperties DEF PushedBy, OwnPositions
<1>9. PushedBy(c)' = [i \in DOMAIN SelectAt(q', Q) |-> SelectAt(q', Q)[i][2]]
  BY DEF PushedBy, OwnPositions
<1> HIDE DEF own, q, Q, n
<1>10. CASE b # c
  <2>1. SelectAt(q', Q) = own /\ DOMAIN own = 1 .. Len(own)
    BY <1>6, <1>7, <1>10, LenProperties
  <2>2. QED
    BY <1>8, <1>9, <1>10, <2>1
<1>11. CASE b = c
  <2> DEFINE longer == Append(own, pair)
  <2>1. /\ Len(own) \in Nat /\ longer \in Seq(Clients \X Events)
        /\ Len(longer) = Len(own) + 1
        /\ \A i \in 1 .. Len(own) : longer[i] = own[i]
        /\ longer[Len(own) + 1] = pair
    BY <1>1, <1>6, LenProperties, AppendProperties
  <2>2. DOMAIN longer = 1 .. Len(own) + 1
    BY <2>1, LenProperties
  <2>3. SelectAt(q', Q) = longer
    BY <1>7, <1>11
  <2> HIDE DEF longer
  <2>4. PushedBy(c)' = [i \in 1 .. Len(own) + 1 |-> longer[i][2]]
    BY <1>9, <2>2, <2>3
  <2>5. \A i \in 1 .. Len(own) : own[i][2] \in Events
    BY <1>6, ElementOfSeq
  <2>6. seconds \in Seq(Events) /\ Len(seconds) = Len(own)
    <3>1. seconds \in [1 .. Len(own) -> Events]
      BY <2>5
    <3>2. QED
      BY <2>1, <3>1, SeqDef
  <2>7. [i \in 1 .. Len(own) + 1 |-> longer[i][2]] = Append(seconds, e)
    <3> DEFINE left == [i \in 1 .. Len(own) + 1 |-> longer[i][2]]
               right == Append(seconds, e)
    <3>1. /\ right \in Seq(Events) /\ Len(right) = Len(own) + 1
          /\ \A i \in 1 .. Len(own) : right[i] = own[i][2]
          /\ right[Len(own) + 1] = e
      BY <2>6, AppendProperties
    <3>2. right = [i \in 1 .. Len(own) + 1 |-> right[i]]
      BY <3>1, LenProperties
    <3>3. ASSUME NEW i \in 1 .. Len(own) + 1 PROVE longer[i][2] = right[i]
      <4>1. CASE i \in 1 .. Len(own)
        BY <2>1, <3>1, <4>1
      <4>2. CASE i = Len(own) + 1
        BY <1>1, <2>1, <3>1, <4>2
      <4>3. QED
        BY <2>1, <4>1, <4>2
    <3> HIDE DEF right
    <3>4. QED
      BY <3>2, <3>3 DEF right
  <2>8. QED
    BY <1>8, <1>11, <2>4, <2>7
<1>12. QED
  BY <1>10, <1>11

\* Outside the loop that takes lines, what is left in pending_line is no event.
LEMMA RestIsNoLine ==
  ASSUME IInv, NEW c \in Clients, c # client_fd \/ server # "lines"
  PROVE  EventsIn(SubSeq(Scripts[c], 1, received[c])) = EventsIn(SubSeq(Scripts[c], 1, Done(c)))
<1>1. /\ Scripts[c] \in Seq(Symbols) /\ Len(Scripts[c]) \in Nat
      /\ received[c] \in Nat /\ received[c] <= Len(Scripts[c])
      /\ Len(pending_line) \in Nat
  BY Types DEF IInv
<1>2. CASE c # client_fd
  BY <1>1, <1>2 DEF Done
<1>3. CASE c = client_fd
  <2> DEFINE S == Scripts[c]
             d == Done(c)
             r == received[c]
  <2>1. /\ d \in Nat /\ d = r - Len(pending_line)
        /\ \A i \in 1 .. Len(pending_line) : pending_line[i] = S[d + i]
        /\ d # 0 => S[d] = Newline
        /\ ~HasLine
    BY <1>3, ServerAssumption DEF IInv, PendingInv, Done
  <2> HIDE DEF S, d, r
  <2>2. ASSUME NEW i \in d + 1 .. r PROVE S[i] # Newline
    <3>1. i - d \in 1 .. Len(pending_line) /\ d + (i - d) = i
      BY <1>1, <2>1 DEF r
    <3>2. QED
      BY <2>1, <3>1 DEF HasLine, Contains
  <2>3. d \in 0 .. Len(S) /\ r \in d .. Len(S) /\ S \in Seq(Symbols)
    BY <1>1, <2>1 DEF r, S
  <2>4. EventsIn(SubSeq(S, 1, r)) = EventsIn(SubSeq(S, 1, d))
    BY <2>1, <2>2, <2>3, PartOfLine
  <2>5. QED
    BY <2>4 DEF S, d, r
<1>4. QED
  BY <1>2, <1>3

\* Such a client has pushed nothing.
LEMMA NothingToTell ==
  ASSUME IInv, FramingInv, NEW c \in Clients, SendAgain(c)
  PROVE  PushedBy(c) = <<>>
<1> DEFINE S == Scripts[c]
           n == Len(S)
           P == EventPositions(S)
<1>1. /\ S \in Seq(Symbols) /\ n \in Nat /\ DOMAIN S = 1 .. n
      /\ \A i \in 1 .. n : S[i] \notin Events
  <2>1. S \in Seq(Symbols) /\ n \in Nat
    BY Types DEF IInv
  <2>2. DOMAIN S = 1 .. n
    BY <2>1, LenProperties
  <2>3. QED
    BY <2>1, <2>2 DEF SendAgain, ToSet
<1>2. Done(c) = n
  BY <1>1, EmptySeq DEF SendAgain, Done
<1>3. PushedBy(c) = EventsIn(SubSeq(S, 1, n))
  BY <1>2 DEF FramingInv
<1>4. CASE n = 0
  <2>1. SubSeq(S, 1, 0) = <<>>
    BY SubSeqEmpty
  <2>2. QED
    BY <1>3, <1>4, <2>1, SelectAtEmpty DEF EventsIn
<1>5. CASE n # 0
  <2>1. \A i \in 1 .. n : i \notin P
    BY <1>1 DEF EventPositions
  <2> HIDE DEF S, n, P
  <2>2. n \in 1 .. n /\ n - 1 \in Nat /\ 0 <= n - 1 /\ n - 1 <= n
    BY <1>1, <1>5
  <2>3. EventsIn(SubSeq(S, 1, n)) = Selection(S, P)[n - 1]
    BY <1>1, <2>2, EventsInPrefix DEF n, P
  <2>4. Selection(S, P)[n - 1] = Selection(S, P)[0]
    <3> DEFINE m == n - 1
    <3>1. m \in Nat /\ 0 \in Nat /\ 0 <= m /\ m <= Len(S) /\ \A i \in 0 + 1 .. m : i \notin P
      BY <1>1, <2>1, <2>2 DEF n
    <3> HIDE DEF m
    <3>2. Selection(S, P)[m] = Selection(S, P)[0]
      BY <1>1, <3>1, SelectionGap
    <3>3. QED
      BY <3>2 DEF m
  <2>5. Selection(S, P)[0] = <<>>
    BY <1>1, SelectionRecursion
  <2>6. QED
    BY <1>3, <2>3, <2>4, <2>5
<1>6. QED
  BY <1>4, <1>5

\* Each step keeps what was pushed equal to the events on the lines cut so far.
LEMMA FramingStep == IInv /\ FramingInv /\ [Next]_vars => FramingInv'
<1> SUFFICES ASSUME IInv, FramingInv, [Next]_vars PROVE FramingInv'
  OBVIOUS
<1>0. TypeOK /\ Events \subseteq Bodies /\ NoClient \notin Clients
  BY ServerAssumption DEF IInv
<1>1. ASSUME event_queue_' = event_queue_, \A c \in Clients : Done(c)' = Done(c)
      PROVE  FramingInv'
  BY <1>1 DEF FramingInv, PushedBy
<1>2. ASSUME UNCHANGED <<event_queue_, received, client_fd, pending_line>>
      PROVE  FramingInv'
  BY <1>1, <1>2 DEF Done
<1>3. ASSUME PushLine \/ RejectLine PROVE FramingInv'
  <2> DEFINE b == client_fd
             d == Done(b)
             e == d + NewlinePosition
  <2>1. /\ b \in Clients /\ HasLine /\ client_fd' = client_fd
        /\ Done(b)' = e
        /\ \A c \in Clients : c # b => Done(c)' = Done(c)
    BY <1>3, LineStep DEF PushLine, RejectLine
  <2>2. /\ Scripts[b] \in Seq(Symbols)
        /\ d \in 0 .. Len(Scripts[b]) /\ e \in d + 1 .. Len(Scripts[b])
        /\ d # 0 => Scripts[b][d] = Newline
        /\ Scripts[b][e] = Newline
        /\ \A i \in d + 1 .. e - 1 : Scripts[b][i] # Newline
        /\ pending_line[1] = Scripts[b][d + 1]
    BY <1>0, <2>1, LineInScript, Types
  <2>3. EventsIn(SubSeq(Scripts[b], 1, e)) =
          IF e = d + 2 /\ Scripts[b][d + 1] \in Events
          THEN Append(EventsIn(SubSeq(Scripts[b], 1, d)), Scripts[b][d + 1])
          ELSE EventsIn(SubSeq(Scripts[b], 1, d))
    <3> HIDE DEF d, e
    <3>1. QED
      BY <2>2, OneLine
  <2>4. /\ Parses(NextLine) <=> e = d + 2 /\ Scripts[b][d + 1] \in Events
        /\ Parses(NextLine) => NextLine[1] = Scripts[b][d + 1]
    <3>1. d \in Nat /\ NewlinePosition \in Nat
      BY <1>0, <2>1, <2>2, FirstNewline
    <3>2. e = d + 2 <=> NewlinePosition = 2
      BY <3>1
    <3>3. QED
      BY <1>0, <2>1, <2>2, <3>2, ParsedLine
  <2>5. PushedBy(b) = EventsIn(SubSeq(Scripts[b], 1, d))
    BY <2>1 DEF FramingInv
  <2> HIDE DEF d, e
  <2>6. CASE PushLine
    <3>1. /\ Parses(NextLine) /\ NextLine[1] \in Events
          /\ event_queue_' = Append(event_queue_, <<b, NextLine[1]>>)
      BY <2>6 DEF PushLine, Parses
    <3>2. \A c \in Clients :
            PushedBy(c)' = IF b = c THEN Append(PushedBy(c), NextLine[1]) ELSE PushedBy(c)
      BY <1>0, <2>1, <3>1, PushedStep
    <3>3. ASSUME NEW c \in Clients, c # b
          PROVE  PushedBy(c)' = EventsIn(SubSeq(Scripts[c], 1, Done(c)'))
      BY <2>1, <3>2, <3>3 DEF FramingInv
    <3>4. ASSUME NEW c \in Clients, c = b
          PROVE  PushedBy(c)' = EventsIn(SubSeq(Scripts[c], 1, Done(c)'))
      <4>1. PushedBy(c)' = Append(PushedBy(b), NextLine[1]) /\ Done(c)' = e
        BY <2>1, <3>2, <3>4
      <4>2. QED
        BY <2>3, <2>4, <2>5, <3>1, <3>4, <4>1
    <3>5. QED
      BY <3>3, <3>4 DEF FramingInv
  <2>7. CASE RejectLine
    <3>1. ~Parses(NextLine) /\ event_queue_' = event_queue_
      BY <2>7 DEF RejectLine
    <3>2. \A c \in Clients : PushedBy(c)' = PushedBy(c)
      BY <3>1 DEF PushedBy
    <3>3. ASSUME NEW c \in Clients, c # b
          PROVE  PushedBy(c)' = EventsIn(SubSeq(Scripts[c], 1, Done(c)'))
      BY <2>1, <3>2, <3>3 DEF FramingInv
    <3>4. ASSUME NEW c \in Clients, c = b
          PROVE  PushedBy(c)' = EventsIn(SubSeq(Scripts[c], 1, Done(c)'))
      <4>1. Done(c)' = e
        BY <2>1, <3>4
      <4>2. QED
        BY <2>3, <2>4, <2>5, <3>1, <3>2, <3>4, <4>1
    <3>5. QED
      BY <3>3, <3>4 DEF FramingInv
  <2>8. QED
    BY <1>3, <2>6, <2>7
<1>4. ASSUME CloseClient PROVE FramingInv'
  <2>1. event_queue_' = event_queue_ /\ server = "close_client" /\ client_fd \in Clients
    BY <1>4, CloseStep DEF CloseClient
  <2>2. ASSUME NEW c \in Clients
        PROVE  EventsIn(SubSeq(Scripts[c], 1, Done(c)')) = EventsIn(SubSeq(Scripts[c], 1, Done(c)))
    BY <1>4, <2>1, RestIsNoLine, CloseStep
  <2>3. \A c \in Clients : PushedBy(c)' = PushedBy(c)
    BY <2>1 DEF PushedBy
  <2>4. QED
    BY <2>2, <2>3 DEF FramingInv
<1>5. ASSUME Accept \/ AcceptFails \/ Receive PROVE FramingInv'
  <2>1. event_queue_' = event_queue_
    BY <1>5 DEF Accept, AcceptFails, Receive
  <2>2. QED
    BY <1>1, <1>5, <2>1, AcceptStep, ReceiveStep
<1>6. ASSUME StartUp \/ WsaStartupFails \/ SocketFails \/ Select \/ TestStop \/ ReceiveEnds
               \/ ReceiveTimesOut \/ NoMoreLines
      PROVE  FramingInv'
  BY <1>2, <1>6 DEF StartUp, Succeeds, WsaStartupFails, SocketFails, Select, TestStop,
                    ReceiveEnds, ReceiveTimesOut, NoMoreLines, connection_vars
<1>7. ASSUME NEW c \in Clients, ClientStep(c) PROVE FramingInv'
  BY <1>2, <1>7 DEF ClientStep, Connect, Send, CloseByClient, Reset, connection_vars
<1>8. ASSUME NEW c \in Clients, SendAgain(c) PROVE FramingInv'
  <2>1. \A d \in Clients : PushedBy(d)' = PushedBy(d)
    BY <1>8 DEF SendAgain, PushedBy
  <2>2. \A d \in Clients : Done(d)' = IF d = c THEN 0 ELSE Done(d)
    BY <1>8, SendAgainStep
  <2>3. EventsIn(SubSeq(Scripts[c], 1, 0)) = <<>>
    <3>1. SubSeq(Scripts[c], 1, 0) = <<>>
      BY SubSeqEmpty
    <3>2. EventsIn(<<>>) = <<>>
      BY SelectAtEmpty DEF EventsIn
    <3>3. QED
      BY <3>1, <3>2
  <2>4. PushedBy(c) = <<>>
    BY <1>8, NothingToTell
  <2>5. QED
    BY <2>1, <2>2, <2>3, <2>4 DEF FramingInv
<1>9. ASSUME SetStop \/ UNCHANGED vars PROVE FramingInv'
  BY <1>2, <1>9 DEF SetStop, vars, connection_vars
<1>10. QED
  BY <1>3, <1>4, <1>5, <1>6, <1>7, <1>8, <1>9 DEF Next, ServerStep, ServerRuns, Serve

\* At the start nothing is pushed and nothing read.
LEMMA FramingInit == Init => FramingInv
<1> SUFFICES ASSUME Init, NEW c \in Clients
             PROVE  PushedBy(c) = EventsIn(SubSeq(Scripts[c], 1, Done(c)))
  BY DEF FramingInv
<1>1. Done(c) = 0
  BY ServerAssumption DEF Init, Done
<1>2. SubSeq(Scripts[c], 1, 0) = <<>>
  BY SubSeqEmpty
<1>3. EventsIn(<<>>) = <<>>
  BY SelectAtEmpty DEF EventsIn
<1>4. SelectAt(event_queue_, OwnPositions(c)) = <<>>
  BY SelectAtEmpty DEF Init
<1>5. PushedBy(c) = <<>>
  BY <1>4 DEF PushedBy, OwnPositions
<1>6. QED
  BY <1>1, <1>2, <1>3, <1>5

\* However recv() cuts the stream and whoever else is connected, what is pushed is
\* the events on complete lines, in order, none lost and none made up.
THEOREM LinesCorrect == Spec => []LinesBecomeEvents
<1>1. IInv /\ FramingInv => LinesBecomeEvents
  BY RestIsNoLine DEF FramingInv, LinesBecomeEvents
<1>2. QED
  BY <1>1, FramingInit, FramingStep, IInvCorrect, PTL DEF Spec

\* What has been pushed for a connection stands on a line read from it, also in
\* the middle of the loop that takes the lines.
LEMMA PushedWasRead ==
  ASSUME IInv, FramingInv, NEW i \in DOMAIN event_queue_
  PROVE  LET pushed == event_queue_[i]
             read == SubSeq(Scripts[pushed[1]], 1, received[pushed[1]])
         IN  \E k \in EventPositions(read) : read[k] = pushed[2]
<1> DEFINE q == event_queue_
           c == q[i][1]
           P == OwnPositions(c)
           own == SelectAt(q, P)
           S == Scripts[c]
           d == Done(c)
           r == received[c]
           cut == SubSeq(S, 1, d)
           read == SubSeq(S, 1, r)
<1>1. q \in Seq(Clients \X Events) /\ i \in DOMAIN q /\ i \in P
  BY DEF IInv, TypeOK, OwnPositions
<1>2. c \in Clients
  BY <1>1, ElementOfSeq, LenProperties
<1>3. S \in Seq(Symbols) /\ Len(S) \in Nat /\ r \in Nat /\ r <= Len(S)
      /\ Len(pending_line) \in Nat
  <2>1. TypeOK
    BY DEF IInv
  <2> HIDE DEF c
  <2>2. /\ Scripts[c] \in Seq(Symbols) /\ Len(Scripts[c]) \in Nat
        /\ received[c] \in Nat /\ Len(wire[c]) \in Nat /\ Len(unsent[c]) \in Nat
        /\ received[c] + Len(wire[c]) + Len(unsent[c]) <= Len(Scripts[c])
        /\ Len(pending_line) \in Nat
    BY <1>2, <2>1, Types
  <2>3. QED
    BY <2>2
<1>4. d \in Nat /\ d <= r
  <2>1. c = client_fd => d \in Nat /\ d = r - Len(pending_line)
    BY <1>2, ServerAssumption DEF IInv, PendingInv, Done
  <2>2. c # client_fd => d = r
    BY <1>3 DEF Done
  <2>3. QED
    BY <1>3, <2>1, <2>2
<1>5. PICK j \in DOMAIN own : own[j] = q[i]
  <2> HIDE DEF q, P
  <2>1. QED
    BY <1>1, SelectAtElements
<1>6. PushedBy(c) = [n \in DOMAIN own |-> own[n][2]]
  BY DEF PushedBy, OwnPositions
<1>7. PushedBy(c) = EventsIn(cut)
  BY <1>2 DEF FramingInv
<1> HIDE DEF q, c, P, own
<1>8. j \in DOMAIN EventsIn(cut) /\ EventsIn(cut)[j] = q[i][2]
  BY <1>5, <1>6, <1>7
<1> HIDE DEF S, d, r
<1>9. /\ cut \in Seq(Symbols) /\ Len(cut) = d /\ \A n \in 1 .. d : cut[n] = S[n]
      /\ read \in Seq(Symbols) /\ Len(read) = r /\ \A n \in 1 .. r : read[n] = S[n]
  <2>1. d \in 0 .. Len(S) /\ r \in 0 .. Len(S)
    BY <1>3, <1>4
  <2>2. QED
    BY <1>3, <2>1, PrefixOfStream
<1> HIDE DEF cut, read
<1>10. PICK k \in DOMAIN cut : k \in EventPositions(cut) /\ EventsIn(cut)[j] = cut[k]
  <2> DEFINE E == EventPositions(cut)
  <2>1. EventsIn(cut) = SelectAt(cut, E)
    BY DEF EventsIn
  <2> HIDE DEF E
  <2>2. \E k \in DOMAIN cut : k \in E /\ SelectAt(cut, E)[j] = cut[k]
    BY <1>8, <1>9, <2>1, SelectAtElements
  <2>3. QED
    BY <2>1, <2>2 DEF E
<1>11. k \in EventPositions(read) /\ read[k] = cut[k]
  <2>1. DOMAIN cut = 1 .. d /\ DOMAIN read = 1 .. r
    BY <1>9, LenProperties
  <2>2. /\ k \in 1 .. d /\ k + 1 \in 1 .. d /\ k < d
        /\ cut[k] \in Events /\ cut[k + 1] = Newline
        /\ k > 1 => k - 1 \in 1 .. d /\ cut[k - 1] = Newline
    BY <1>4, <1>9, <1>10, <2>1 DEF EventPositions
  <2>3. \A n \in 1 .. d : n \in 1 .. r /\ read[n] = cut[n]
    BY <1>3, <1>4, <1>9
  <2>4. k < r
    BY <1>3, <1>4, <2>2
  <2>5. QED
    BY <1>9, <2>1, <2>2, <2>3, <2>4 DEF EventPositions
<1>12. read[k] = q[i][2]
  BY <1>8, <1>10, <1>11
<1>13. QED
  BY <1>11, <1>12 DEF read, S, r, c, q

=============================================================================
