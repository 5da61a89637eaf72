----------------------------- MODULE Simulator -----------------------------
(***************************************************************************)
(* simulator/main.cpp: the arguments, and the traffic modes: one thread    *)
(* per user and per bot of the mode, each of which sleeps, numbers an      *)
(* event with a shared counter, stamps it and sends it over a connection   *)
(* of its own, until the duration is over.  Users and bots differ in the   *)
(* data they draw, not in what they do.  Dataset has the mode dataset-gen. *)
(*                                                                         *)
(* This module is the client's side: the outcome of connect() and send()   *)
(* is open.  Traffic puts the server on the other end.                     *)
(***************************************************************************)
EXTENDS Integers, Sequences, FiniteSetsExt

CONSTANTS
  Users, Bots,    \* the threads there may be
  Arguments,      \* the command lines, without the program's name
  Numbers,        \* what std::stoi() makes of the texts it takes
  MaxTime,        \* bound of the clock
  MaxSends,       \* bound: how many events each thread sends
  PayloadSize,    \* what send() may take in pieces
  OnWindows       \* whether _WIN32 is defined

Threads == Users \cup Bots

ASSUME SimulatorAssumption ==
  /\ Users \cap Bots = {} /\ Threads # {}
  /\ Arguments \subseteq Seq(STRING)
  /\ \A text \in DOMAIN Numbers : Numbers[text] \in Int
  /\ MaxTime \in Nat
  /\ MaxSends \in [Threads -> Nat]
  /\ PayloadSize \in Nat \ {0}
  /\ OnWindows \in BOOLEAN

\* A thread's k-th call of send_event(), and the connection it makes.
Sends == UNION {{t} \X (1 .. MaxSends[t]) : t \in Threads}

VARIABLES
  simulator,      \* where main() is
  mode,
  duration,       \* duration_seconds
  now,            \* the clock, in seconds
  event_counter,
  thread,         \* where each thread is
  end_time,       \* when each thread is to end
  sends,          \* how many events each thread has numbered
  bytes_sent,     \* of the payload of the running call of send_event()
  event_number,   \* of each event that has one
  timestamp,      \* likewise
  result          \* what each finished call of send_event() returned

option_vars == <<mode, duration>>
main_vars == <<simulator, option_vars, now>>
number_vars == <<event_counter, sends, event_number>>
send_vars == <<bytes_sent, result>>

simulator_vars ==
  <<main_vars, number_vars, send_vars, thread, end_time, timestamp>>

\* The event in hand.
Current(t) == <<t, sends[t]>>

Modes == {"normal", "attack", "mixed", "dataset-gen"}

SimulatorTypeOK ==
  /\ simulator \in {"arguments", "generate_dataset", "wsa_startup", "starting",
                    "joining", "returned", "failed", "killed"}
  /\ mode \in Modes
  /\ duration \in Nat
  /\ now \in 0 .. MaxTime
  /\ event_counter \in Nat
  /\ thread \in [Threads ->
       {"new", "sleep", "stamp", "connect", "send", "returned", "killed"}]
  /\ end_time \in [Threads -> 0 .. MaxTime + duration]
  /\ \A t \in Threads : sends[t] \in 0 .. MaxSends[t]
  /\ bytes_sent \in [Threads -> 0 .. PayloadSize]
  /\ DOMAIN event_number \subseteq Sends
  /\ DOMAIN timestamp \subseteq DOMAIN event_number
  /\ DOMAIN result \subseteq DOMAIN timestamp

With(f, x, y) == [z \in DOMAIN f \cup {x} |-> IF z = x THEN y ELSE f[z]]

SimulatorInit ==
  /\ simulator = "arguments"
  /\ mode = "normal"
  /\ duration = 0
  /\ now = 0
  /\ event_counter = 0
  /\ thread = [t \in Threads |-> "new"]
  /\ end_time = [t \in Threads |-> 0]
  /\ sends = [t \in Threads |-> 0]
  /\ bytes_sent = [t \in Threads |-> 0]
  /\ event_number = [c \in {} |-> 0]
  /\ timestamp = [c \in {} |-> 0]
  /\ result = [c \in {} |-> FALSE]

Goto(t, from, to) ==
  /\ thread[t] = from
  /\ thread' = [thread EXCEPT ![t] = to]

\* The test of the loop after each event.
TestEnd(t) == IF now < end_time[t] THEN "sleep" ELSE "returned"

-----------------------------------------------------------------------------
(* main() *)

\* parse_arguments() takes options in pairs, each with a value that is right.
WellFormed(argv) ==
  /\ Len(argv) % 2 = 0
  /\ \A i \in 1 .. Len(argv) \div 2 :
       \/ argv[2 * i - 1] = "--duration" /\ argv[2 * i] \in DOMAIN Numbers
       \/ argv[2 * i - 1] = "--mode" /\ argv[2 * i] \in Modes

\* The last value given counts.
ValueOf(option, argv, default) ==
  LET given == {i \in 1 .. Len(argv) \div 2 : argv[2 * i - 1] = option}
  IN  IF given = {} THEN default ELSE argv[2 * Max(given)]

DurationIn(argv) ==
  LET text == ValueOf("--duration", argv, "")
  IN  IF text = "" THEN 60 ELSE Numbers[text]

ParseArguments ==
  /\ simulator = "arguments"
  /\ \E argv \in Arguments :
       IF WellFormed(argv) /\ DurationIn(argv) > 0
       THEN /\ mode' = ValueOf("--mode", argv, "normal")
            /\ duration' = DurationIn(argv)
            /\ simulator' = IF mode' = "dataset-gen" THEN "generate_dataset"
                                                     ELSE "wsa_startup"
       ELSE simulator' = "failed" /\ UNCHANGED option_vars
  /\ UNCHANGED <<now, number_vars, thread, end_time, timestamp, send_vars>>

\* Elsewhere there is nothing to start.
WsaStartup ==
  /\ simulator = "wsa_startup"
  /\ simulator' \in {"starting"} \cup (IF OnWindows THEN {"failed"} ELSE {})
  /\ UNCHANGED <<option_vars, now, number_vars, thread, end_time, timestamp, send_vars>>

\* The threads of the mode.
Started ==
  (IF mode # "attack" THEN Users ELSE {}) \cup (IF mode # "normal" THEN Bots ELSE {})

\* The threads of users are created before those of bots; they get to run in any
\* order.
StartThread(t) ==
  /\ simulator = "starting"
  /\ t \in Started
  /\ Goto(t, "new", "sleep")
  /\ end_time' = [end_time EXCEPT ![t] = now + duration]
  /\ UNCHANGED <<main_vars, number_vars, timestamp, send_vars>>

AllStarted ==
  /\ simulator = "starting"
  /\ \A t \in Started : thread[t] # "new"
  /\ simulator' = "joining"
  /\ UNCHANGED <<option_vars, now, number_vars, thread, end_time, timestamp, send_vars>>

JoinAll ==
  /\ simulator = "joining"
  /\ \A t \in Started : thread[t] = "returned"
  /\ simulator' = "returned"
  /\ UNCHANGED <<option_vars, now, number_vars, thread, end_time, timestamp, send_vars>>

TimePasses ==
  /\ now < MaxTime
  /\ now' = now + 1
  /\ UNCHANGED <<simulator, option_vars, number_vars, thread, end_time, timestamp,
                 send_vars>>

-----------------------------------------------------------------------------
(* run_user(), run_attack_bot() *)

\* The end is tested again after the sleep, which may be of any length.
WakeUpAtEnd(t) ==
  /\ now >= end_time[t]
  /\ Goto(t, "sleep", "returned")
  /\ UNCHANGED <<main_vars, number_vars, end_time, timestamp, send_vars>>

\* Mutant: the counter handed to the threads by value, without std::ref().
NumberFromCopy(t) ==
  /\ now < end_time[t]
  /\ sends[t] < MaxSends[t]
  /\ Goto(t, "sleep", "stamp")
  /\ sends' = [sends EXCEPT ![t] = @ + 1]
  /\ event_number' = With(event_number, <<t, sends[t] + 1>>, sends[t])
  /\ UNCHANGED <<main_vars, event_counter, end_time, timestamp, send_vars>>

\* `event_counter.fetch_add(1)`.
FetchNumber(t) ==
  /\ now < end_time[t]
  /\ sends[t] < MaxSends[t]
  /\ Goto(t, "sleep", "stamp")
  /\ sends' = [sends EXCEPT ![t] = @ + 1]
  /\ event_number' = With(event_number, <<t, sends[t] + 1>>, event_counter)
  /\ event_counter' = event_counter + 1
  /\ UNCHANGED <<main_vars, end_time, timestamp, send_vars>>

\* What run_user() and run_attack_bot() put into an event: strings, a number of
\* seconds, and what a bernoulli_distribution draws.
event_json ==
  [kind |-> "object",
   fields |-> [source_id |-> "string", event_id |-> "string",
               timestamp |-> "number_integer", payment_token |-> "string",
               fingerprint |-> "string", payment_failed |-> "boolean"]]

\* The event is made with the time of day, which may be later.
MakeEvent(t) ==
  /\ Goto(t, "stamp", "connect")
  /\ timestamp' = With(timestamp, Current(t), now)
  /\ UNCHANGED <<main_vars, number_vars, end_time, send_vars>>

-----------------------------------------------------------------------------
(* send_event() *)

Connected(t) ==
  /\ Goto(t, "connect", "send")
  /\ bytes_sent' = [bytes_sent EXCEPT ![t] = 0]
  /\ UNCHANGED <<main_vars, number_vars, end_time, timestamp, result>>

\* `return false`; the thread reports it and goes on with its next event.
ReturnFalse(t, from) ==
  /\ Goto(t, from, TestEnd(t))
  /\ result' = With(result, Current(t), FALSE)
  /\ UNCHANGED <<main_vars, number_vars, end_time, timestamp, bytes_sent>>

\* Mutant: `while (bytes_sent <= payload.size())`.
SendOneMore(t) ==
  /\ thread[t] = "send"
  /\ bytes_sent[t] <= PayloadSize
  /\ bytes_sent' = [bytes_sent EXCEPT ![t] = @ + 1]
  /\ UNCHANGED <<main_vars, number_vars, thread, end_time, timestamp,
                 result>>

\* send() takes some of what is left.
SendSome(t) ==
  /\ thread[t] = "send"
  /\ bytes_sent[t] < PayloadSize
  /\ bytes_sent' = [bytes_sent EXCEPT ![t] = @ + 1]
  /\ UNCHANGED <<main_vars, number_vars, thread, end_time, timestamp,
                 result>>

\* All is sent: shutdown(), close(), `return true`.
ReturnTrue(t) ==
  /\ bytes_sent[t] = PayloadSize
  /\ Goto(t, "send", TestEnd(t))
  /\ result' = With(result, Current(t), TRUE)
  /\ UNCHANGED <<main_vars, number_vars, end_time, timestamp, bytes_sent>>

\* send() on a connection that is broken raises SIGPIPE except on Windows, and
\* nothing in the program catches or ignores it: all threads end.
KilledBySigpipe(t) ==
  /\ ~OnWindows
  /\ thread[t] = "send"
  /\ bytes_sent[t] < PayloadSize
  /\ simulator' = "killed"
  /\ thread' = [u \in Threads |-> "killed"]
  /\ UNCHANGED <<option_vars, now, number_vars, end_time, timestamp, send_vars>>

\* What a thread does between two calls of send_event().
PrepareEvent(t) == WakeUpAtEnd(t) \/ FetchNumber(t) \/ MakeEvent(t)

SimulatorMain ==
  ParseArguments \/ WsaStartup \/ AllStarted \/ JoinAll \/ \E t \in Threads : StartThread(t)

=============================================================================
