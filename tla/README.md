# CardShield Edge in TLA+

A model of the detection engine of CardShield Edge (`src/edge-engine/`): a TCP server that
reads payment telemetry, a queue, three workers that keep a sliding window per source, and an
evaluator that scores the windows once a second; of the simulator that sends it events
(`src/simulator/`); and of the offline programs that generate, split and evaluate a dataset.
Paths below are relative to `src/`; `Q`, `S`, `A`, `P`, `T`, `M`, `U`, `D` and `V` stand for

| | file |
|---|---|
| Q | `edge-engine/include/queue/ThreadSafeQueue.h` |
| S | `edge-engine/include/detection/SourceState.h` |
| A | `edge-engine/src/detection/AnomalyScorer.cpp` |
| P | `edge-engine/src/processing/EventProcessor.cpp` |
| T | `edge-engine/src/network/TcpServer.cpp` |
| M | `edge-engine/main.cpp` |
| U | `simulator/main.cpp` |
| D | `scripts/split_dataset.py` |
| V | `scripts/evaluate.py` |

## 1. The system

```
clients --bytes--> TcpServer --events--> ThreadSafeQueue --events--> workers --rows--> SourceState
(simulator)        main thread                                     state_mutex_         per source
                                                                                           | copies
                                             evidence (JSON lines) <-- AnomalyScorer <-- evaluator
```

One process, five threads: the main thread (server, then joins), three workers, the evaluator.
They share the queue (its own mutex and condition variable), the map `source_states_` (under
`state_mutex_`) and one atomic stop flag, set by the SIGINT handler or by a failing server.

| component | state it keeps | operations | what is hard | what makes it correct |
|---|---|---|---|---|
| ThreadSafeQueue (Q) | a `std::queue`, mutex, condition variable | `push`, `wait_and_pop()`, `wait_and_pop(stop_flag)` | notify after unlock, spurious wakeups, a deadline racing an item, a stop flag nobody notifies about, `front()` and `pop()` apart | FIFO, nothing lost or doubled, `front()` defined, no lost wakeup, the timed call returns |
| SourceState (S) | four parallel deques | `evict_older_than`, `add_event`, read-only ratios and gaps | erasing by position while walking, four deques that must stay aligned, timestamps out of order, 64-bit differences | rows stay whole; exactly the old rows go |
| AnomalyScorer (A) | none | `score` | a square root, thresholds, empty and zero cases | independent of arrival order; each signal moves the verdict one way |
| EventProcessor (P) | threads, `source_states_` | `start`, `join`, `process_events`, `evaluate_periodically` | workers overtake each other, lock scope, snapshot against updates, shutdown with events in hand | each event applied once, updates serial, snapshot of one moment, shutdown ends |
| TcpServer (T) | sockets, `pending_line` | `start` | start-up failures, bytes cut anywhere, receive timeout, one connection at a time, stop flag between reads | lines become events, whatever the cut; `start` returns |
| main (M) | the objects above, the handler's pointer | `main`, `handle_sigint` | order of start, serve and join when something fails | the process ends when its server has |
| Event (`telemetry/Event.h`) | the fields of an event | `parse_line`, `to_json`, `from_json` | malformed lines | a line gives one event or none |
| Simulator (U) | threads of users and bots, an event counter | `parse_arguments`, `send_event`, `run_user`, `run_attack_bot` | delivery to a server that may be busy, full or gone; one connection per event; a shared counter | numbers are unique, a source's events stay in order, the result of `send_event` is right about the queue |
| Dataset (U, D, V) | the files `full_dataset`, `train`, `holdout` in `dataset/` | `generate_dataset`, split, evaluate | a full disk nobody notices, a program killed between two files, files of different runs side by side, a formula written twice | no source is in both halves, a split loses nothing, no attack is missed, both formulas agree |
| AI analyst | none | one request to a language model | (not connected to the engine) | |

`detection/DetectionResult.h` is used nowhere. `build-linux/`, `dataset/` and the launcher are
build output, data and configuration.

## 2. The modules

| module | models | state and actions against the code |
|---|---|---|
| `FifoChannel` | what the queue promises | `chan`, `Put`, `Take`; `Close` is the stop flag |
| `ThreadSafeQueue` | Q | `queue_`, `mutex_`, a `pc` per thread. `push` is `PushLock`, `PushItem` (append and unlock), `NotifyOne`. `wait_and_pop` is `PopLock`, then `PredicateHolds` or `Wait`; `SpuriousWakeup`, `DeadlinePasses` and a notification lead to `Relock`; `ReturnNothing`, `ReadFront`, `PopFront` end it |
| `SlidingWindow` | what a source's state is meant to be | one sequence of observations; `Observe` drops the old ones and appends |
| `SequenceSelection` | (operators) | `SelectAt`: what stands at some positions of a sequence, for `EvictOlderThan` and for the events in a stream; `SelectSeq`, which the provers know nothing of, does the same |
| `SourceState` | the methods of S as operators on such a sequence | `EvictOlderThan`, `AddEvent`, `FailureCount`, `DistinctFingerprints`, `InterArrivalTimes` |
| `SourceWindow` | S as it is | the four deques and the loop variable; one step per iteration (`EraseRow`, `KeepRow`), then `AddEvent`. `Difference` is subtraction modulo 2^64 |
| `AnomalyScorer` | A | the score of a window as an exact number of units; `Classifications` is the verdict, or both verdicts at an exact threshold |
| `ScoredWindow` | every window, scored | `SourceWindow`, scored between its calls; the properties of the verdict |
| `EventProcessor` | P, under M | a pc for main, each worker and the evaluator; `source_states_`, `state_mutex_`. `LockAndEvict` and `AddAndUnlock` are the locked block of a worker, `LockStates`, `CopyState`, `UnlockStates` that of the evaluator |
| `Event` | `telemetry/Event.h` | which lines `parse_line` takes, by the kinds of their JSON values |
| `TcpServer` | T | a pc for `start()`, the backlog, `pending_line`, and per client what is unsent and on the wire |
| `Engine` | M | `EventProcessor` and `TcpServer` by `INSTANCE`, sharing the stop flag; a step is a step of one, and `ServerPushes` a step of both |
| `Simulator` | U but the dataset | `ParseArguments`; a pc for `main` and each thread, the mode, the clock, `event_counter`; a thread's k-th event and the connection it takes are the pair `<<t, k>>`. `FetchNumber` and `MakeEvent` prepare it; `Connected`, `SendSome`, `ReturnTrue`, `ReturnFalse` and `KilledBySigpipe` are the parts of `send_event`, whose outcomes are open |
| `Traffic` | U against T | `Simulator`, and `TcpServer` by `INSTANCE` with a client per event: each call of the simulator is a step of both, with the outcome the server's state allows |
| `Evaluation` | `score_record` of V | the verdict on a record, exactly, as in `AnomalyScorer`; products too long for TLC's integers are avoided by comparing fractions with Euclid's algorithm |
| `Dataset` | `generate_dataset` of U, D and V | the three files and what runs. `categories` has the ranges of each category, `MayReturn` says which examples can be drawn from them. `OpenFull`, `WriteExample`, `GenerateReturns`, `GenerateBreaks` are the generator; `ReadFull`, `WriteTrain`, `WriteHoldout` the split, `Evaluate` the evaluation; `FailsAtOnce` is any of them ending without having opened a file to write |
| `ThreadSafeQueueProofs`, `EventProcessorProofs`, `TcpServerProofs`, `EngineProofs`, `TrafficProofs`, `DatasetProofs` | | theorems about the module of that name |
| `WindowProofs` | | theorems about `SourceWindow` and `ScoredWindow` |
| `RecursionLemmas` | | what recursive functions, `SelectAt` among them, are and return |
| `MC...` | | constants for TLC |

`EventProcessor` uses `FifoChannel` for its queue, which `ThreadSafeQueue` implements, and the
window operators of `SourceState`, which `SourceWindow` implements: each detail is checked
once and used through what it promises. `Engine` in turn implements the processor's fair
specification, where the server is any source of events. `TcpServer` pushes to a plain sequence, the producer's
end of the same channel.

Definitions marked "Mutant" in the modules are plausible slips in the code, used by no
specification. Substituting one for its original makes a property fail; `PROJECT.json` pairs
each property with one.

## 3. The runs

Properties that hold:

| run | instance | what it shows |
|---|---|---|
| `queue` | 2 producers of 2 items, 1 consumer of each overload, deadlock checked | order, definedness of `front()`, wakeups, return of the timed call, refinement of `FifoChannel` with fairness |
| `source_window` | 5 observations, window 2 s, up to 4 rows | alignment, what stays, the loop ends, refinement of `SlidingWindow` |
| `scoring` | 16 observations (4 timestamps, failed or not, 2 fingerprints), windows of up to 4 rows, window 3 s | the verdict is independent of the order of rows; a failure, a new fingerprint or even spacing never calms it; a busy regular customer is no ATTACK; `evaluate.py` says the same of the window's record |
| `processor` | 2 workers, 2 sources, 3 events, window 2 s, clock of 1 s, timestamps 1 s either way | every event in one place; updates serial; snapshot of one moment |
| `server` | 3 clients, one of which may talk without end, reads of up to 3 symbols, backlog 1, `_WIN32` start-up | framing, reading, return whoever is talking |
| `engine` | 2 workers, 1 client with 2 events | what a worker applies was read from a client, on a line of its own; the engine implements `EventProcessor` with its fairness; pushed events are processed; an alarming source is reported; the process ends once the flag is set or the server is done |
| `traffic` | command lines right and wrong; a user with 1 event, a bot with 2, or the bot alone, 1 second, backlog 2, not Windows | unique numbers; a source's events in order; `false` means not pushed, `true` pushed or on its way, unless stopped or given up after 100 ms |
| `dataset` | one example of each category, drawn out of 14, two orders of shuffling | no source in both halves of datasets of one length, whatever was interrupted or generated anew; a split keeps each record; no false negative |

Statements of the documentation that the code does not keep, each with a counterexample:

| run | statement | what the code does |
|---|---|---|
| `late_event` | "request count in the 60-second window" (`README.md:68`) | two workers can apply two events against the order of their timestamps (P:56); the older row then stays beside the younger and the evidence covers more than 60 s |
| `silent_source` | "a sliding window of recent events" (`docs/detection_spec.md:12`) | only an event of the same source evicts (P:56); a silent source is reported for ever (P:92) |
| `slow_client` | "Read until newline" (`docs/tcp_protocol.md:25`) | 100 ms of silence end the connection and drop the part of the line read so far (T:126) |
| `engine_windows` | "Shutdown uses one shared atomic stop flag and explicit thread joins" (`README.md:106`) | a failing `WSAStartup` returns without setting the flag (T:28), and `join` waits for ever |

### Bounds

Every bound is a constant: `MaxPush`, `MaxRows`, `MaxEvents`, `MaxTime`, `MaxSkew`, `MaxSends`,
`BufferSize`, `Backlog`, and the clients' `Scripts`.

- Queue: two producers and two items each make a notification meet an empty and a
  non-empty wait set, an item taken by a thread that was not notified, and a deadline passing
  at each point of a call. The safety properties and the safety part of the refinement are
  also proved for any number of threads and items.
- Window: ages of -4 to 4 around a window of 2; four rows put an old row first, last, between
  two recent ones and next to another old one. No difference wraps in the run.
- Scoring: the 60-second window is 3 seconds with up to 4 rows, so that the velocity is below,
  at and above the point where it is full. Timestamps repeat, so gaps can be zero.
- Processor: three events and two workers are the least for two events of a source to be
  applied in the wrong order while a third is in the queue. Symmetry in workers and sources is
  used in the run without liveness only.
- Engine: two workers take two events in either order while the server is still reading, or
  has been told to stop. One failed payment makes a window SUSPICIOUS already.
- Server: a read takes 1 to 3 symbols of scripts of up to 5, so a line is cut at each place,
  and one read has two lines; the backlog of one refuses a connection. The third client begins
  its script again whenever all of it is read (`SendAgain`), so a server that did not test the
  stop flag between two reads would serve it for ever.
- Traffic: two events of one thread, whose connections wait together in the backlog of two, are
  needed for one to overtake the other, two threads for a number to be given twice; the third
  connection is refused. A payload has two pieces, the event and its newline, so that it breaks
  between them.
- Dataset: five examples split into three and two. The programs run any number of times:
  nothing bounds that. One order of the shuffle is what the SEED of D gives lists of up to
  five records, the other its opposite for the mutant. Bots are drawn with the fewest and the most
  requests and in between, with no failure, the usual ones and only failures, and with gaps
  that are even or as uneven as 50 to 200 ms allow (one long gap in five, a coefficient of
  variation of 3/4). Time is counted in 50 ms because TLC's integers have 32 bits. The run
  tries these examples; `AttackCorrect` is about each example the ranges allow, to the
  millisecond.

### Fairness

- A thread that can go on does (weak fairness of its steps). It is assumed of the operating
  system, not of what the threads are given to do: nothing says that a client sends,
  that an event arrives, that the clock moves or that the stop flag is set.
- A thread that asks for a mutex again and again free gets it (strong fairness of `Relock`,
  `PopLock`, `LockAndEvict`, `LockStates`). The code holds each mutex for a bounded block.
- Timeouts expire: 100 ms in `wait_for`, `select` and `recv`, one second in the evaluator. No
  timeout is longer than the code gives; a timeout is possible as soon as the wait begins.
- `PopLock` is fair while the stop flag is not set: that is the loop of the workers.

Deadlock is checked for the queue and the dataset. The other models stop on purpose: at their bounds, or when
the engine has returned.

## 4. The proofs

TLAPS checks the following for every value of the constants.

**`ThreadSafeQueueProofs`**, from `ThreadAssumption` (threads are distinct and finitely many).
`Init` and every step keep
`IInv == TypeOK /\ MutexInv /\ SentInv /\ NoDeadlineInv /\ FrontIsDefined`.
`FrontIsDefined` is not inductive alone: another thread could remove the front between
`ReadFront` and `PopFront`. `MutexInv` (to be at a locked step is to hold the mutex) excludes
that. `NoDeadlineInv` says that a blocking call never times out, so its `take` step always
follows a true predicate. On top of `IInv`:

- `TypeCorrect`, `FrontCorrect`;
- `FifoCorrect`: needs `FrontIsDefined`, as `PopFront` returns the copy and removes the front;
- `WakeupCorrect`: an append is matched by a notification to come, a notification by the
  consumer it wakes, and a consumer that leaves takes an item or leaves an empty queue. The
  argument counts threads, hence the finite sets;
- `ChannelCorrect`: each step is a step of `FifoChannel!SafeSpec` or a stutter.

**`WindowProofs`**, from `ObservationAssumption` and, for the verdict, `ScoredAssumption`.
`IInv == TypeOK /\ RowsAreObservations /\ AgeInv /\ LoopInv`. `AgeInv` is `NothingOldBeforeNew`
with the ages the code computes, modulo 2^64. `LoopInv` says that the rows the index has passed
are recent as seen from the event of the call; at the end of the loop it covers all rows, which
is what appending the event needs for `AgeInv`. `NothingOldBeforeNew` is in true arithmetic and
follows for each pair of rows whose difference fits an int64, as there the two agree
(`DifferenceIsExact`). A row whose age wraps stays although it is old.
The lemma `RemoveAtProperties` says what erasing by position does to a sequence. Proved:

- `TypeCorrect`, `RowsCorrect`, `WindowCorrect`, for deques of any length and all int64
  timestamps, so that differences that wrap do no harm to other pairs of rows;
- `WindowImplemented`: the loop implements `SlidingWindow`. `EraseInv` ties the middle of a call
  to the window before it: what the index has passed is the recent rows of the part walked so
  far, and the rest of the rows is still as it was. This one needs `DifferencesFit`: where
  the difference of two timestamps wraps, the code keeps the row it should erase, and the reverse.

The second half is about the verdict, for windows of any length and rows of any observations.
`IInv` says that the rows are observations; the rest is about operators, so it holds of any
window the deques could have.

- Sorting: at each place there is a timestamp that fits (`PlaceIsTaken`) and only one
  (`OrderedUnique`), and places ascend. Hence gaps are not negative, they add up to the time
  between the first row and the last, and all that is made of them is the same for rows in
  another order.
- `ScoresDecide`: a verdict is what two comparisons with thresholds make of it. `ComparedFalls`:
  a comparison falls with what is lacking to the threshold and with the variation of the gaps.
- `OrderCorrect`: swapping two rows changes none of what the comparisons are made of.
  `FailureCorrect`, `FingerprintCorrect`: they add to the untimed score and leave the timing alone.
  `RegularityCorrect`: even gaps have the least variation, as none has less than 0
  (`VarianceIsNatural`). `BusyCustomerCorrect`: one fingerprint and full velocity and timing
  stay below 13/20 once a row has company.
- `EvaluatedCorrect`: the two copies of the formula add alike, and `FractionsCompare` shows by
  induction on the sum of the denominators that Euclid's algorithm has the sign of the product the engine's
  copy computes.

**`RecursionLemmas`** has what the other proofs need of recursive definitions. The library's
induction theorems take an operator, which the provers cannot instantiate; `InductionUpTo` says
the same of a set: a subset of `0 .. n` that holds 0, and k with k - 1, is all of it. From that
come existence and uniqueness of a function with `f[k]` defined by `f[k - 1]`, and what
`SelectAt` returns for a longer sequence, a prefix, and element by element.

**`EventProcessorProofs`**, from the module's two assumptions.
`IInv == TypeOK /\ MutexInv /\ HoldInv /\ StartInv /\ ReportInv`: a thread holds `state_mutex_`
exactly at its locked steps, and a worker has an event exactly from the pop to the update.

- `SerialCorrect`: `UpdatesAreSerial` only speaks of moments when the mutex is free. `WindowsInv`
  adds that while a worker has it, the window of its event is the serial one with the old rows
  evicted and all others are serial; `MutexInv` keeps every other thread out meanwhile.
- `SnapshotCorrect`: `CopyInv` says that what has been copied does not change before the last
  copy is made.
- `AccountedCorrect`: counts the events in hand, hence the finite set of workers.

**`TcpServerProofs`**, from `ServerAssumption`.
`IInv == TypeOK /\ StreamInv /\ ConnectionInv /\ PendingInv`: what is in `pending_line`, on the
wire and unsent are the consecutive parts of a client's stream; a waiting connection has not
been read; `pending_line` begins at the start of a line and holds no newline outside the loop
that takes lines. `LinesCorrect` rests on `FramingInv`, which also speaks of the moments between
two lines of one read: what is pushed is the events in the part cut so far. The lemmas before it
say which events a line, and a part of one, adds to a stream. A client that begins its script
again has no event in it and has pushed nothing (`NothingToTell`), so its stream may be counted
from the start.

**`EngineProofs`**, from `EngineAssumption`.

- `ServerImplemented`: a behaviour of the engine is one of `TcpServer`.
- `ProcessorImplemented`, where `Windows = FALSE`: it is one of `EventProcessor`. `ReturnInv`
  says that the server returns only with the stop flag set; on Windows that is false, which is
  what `engine_windows` finds.
- `AppliedCorrect`: the theorem about the whole path. `IInv` takes the server's part from
  `TcpServerProofs` through an instance, and `TraceInv` follows an event through the queue and
  the workers: it carries the number of its push and says what was pushed then.

**`TrafficProofs`**, from the assumptions of `Traffic` and `Simulator`. The server's invariant is
again that of `TcpServerProofs`; the simulator's part (`ThreadInv`, `NumberInv`) says that
numbers come from the counter and stamps from the clock. The two ends meet in `BytesInv` (what
has arrived on a connection is what `send()` has taken, or less once the server has closed it),
`QueueInv` (a connection's event is pushed when both its symbols are cut), `LossInv` (why a
connection may be gone before) and `LineInv` (connections of a thread stand in the backlog in the
order they were made). Proved: `TypeCorrect`, `NumbersCorrect`, `OrderCorrect`, `FalseCorrect`,
`TrueCorrect`.

**`DatasetProofs`**, from `DatasetAssumption`, for any number of examples and any seed, whose
shuffle is a bijection on the places of a list, and any draws the ranges allow. `TypeCorrect`
bounds all three files by the number of examples. `TrainInv` and `HoldoutInv` give each line of the
two files the place of the schedule it came from, by the length of the list it was split from;
they stay true when `full_dataset` is generated anew.

- `HoldoutCorrect`: schedule and shuffle are injections, so different places hold different
  sources. `SplitCorrect`: the shuffle reaches every place.
- `AttackCorrect`, for windows of up to 60 s: the 60 requests each bot has at the least give it
  full velocity, 6/20 of the score, which is the threshold; its fingerprints, two at the least,
  lift it above. Failures and gaps only add to that, so their draws do not matter
  (`BotIsNotNormal`, of everything `MayReturn` allows).

Checked by TLC only: everything about progress, that is the temporal properties of `queue`,
`source_window` (`CallReturns`), `server` and `engine`, and the fairness in `ImplementsChannel`
and `ServerIsAsAssumed` (`ChannelCorrect` and `ProcessorImplemented` are their safety parts).
Liveness and ENABLED are beyond the prover.

## 5. What is abstracted

- The three programs of `Dataset` run one at a time, by hand. A file is a sequence of
  examples, the last of which may be torn. The dataset that comes with the repository is a state these
  programs reach. `HoldoutIsNotTrained` speaks of halves of datasets of the same length: with
  a dataset cut short by a full disk, the seed gives another order and nothing is promised.
- The ratios V prints are made of the confusion matrix and left out.
- Events carry what scoring tells apart: source, timestamp, failure, fingerprint. The payment
  token is kept in `SourceWindow` (it has a deque of its own) and dropped where only scores
  matter: no score reads it.
- A line is what `json::parse` makes of it, down to the kinds of its values; the text and the
  values' content are not modelled. `Event` says which lines are events; `server` sends lines
  with a number, a fraction and a string for the timestamp, `traffic` what the simulator builds.
  `parse_line` ignores white space, so the removal of a `\r` changes nothing.
- Scores are exact. The code's doubles can be off by a rounding error, which matters only at a
  threshold; there the model allows both sides.
- `std::unordered_map` iterates in any order; so do `CopyState` and `Report`.
- A byte stream is a sequence of line bodies and newlines.
- The simulator's clocks (steady for the end, system for timestamps) are one clock.
- A `send()` may fail at any time (`SendFails`), while the server reads the connection as well;
  what was taken before arrives. To a connection the server has closed it is taken and lost, or
  fails, or raises SIGPIPE once bytes have been lost (`BrokenPipe`, not on Windows), which ends
  the simulator.
- A client that never stops talking is one without an event in its script, in `TcpServer`; a
  client of `Engine` or `Traffic` sends its script once.
- The difference of two timestamps that does not fit an int64 is undefined in the language; the
  model has the modular result builds produce.
- Connections that find the backlog full are refused; what an operating system does
  to retry them is not modelled.
- Not modelled: the console (workers and evaluator print without a lock), the random
  data of the simulator's events (its random intervals are any interval), the AI analyst (one
  HTTP request, not connected to the engine), build files, and `DetectionResult`, which is used
  nowhere, as is `to_json`. `handle_sigint` after `main` has returned is left out.

## 6. Plan

Done, in this order: queue and its proofs, window and its proofs, scoring, processor, server,
composition, simulator, dataset and evaluation; then the proofs about processor, server, engine,
traffic and dataset, the refinement of the sliding window, and the verdict.

Next:

1. `Console`: the separate insertions of a line of evidence and the workers' lines. The
   documentation promises nothing of the console, so this comes last.
2. Rounding at the thresholds of `AnomalyScorer` and `Evaluation`.
