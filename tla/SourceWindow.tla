---------------------------- MODULE SourceWindow ----------------------------
(***************************************************************************)
(* edge-engine/include/detection/SourceState.h: the recent events of one   *)
(* source, kept as four parallel deques.  evict_older_than() walks them    *)
(* with one index, erasing old rows from all four; add_event() appends to  *)
(* all four.  EventProcessor calls the two in this order for every event   *)
(* and holds state_mutex_ all along, so one call follows another here.     *)
(*                                                                         *)
(* Sequences start at 1 where deques start at 0, so `index` is one more    *)
(* than the variable of the same name in the code.                         *)
(***************************************************************************)
EXTENDS Integers, Sequences, SequencesExt

CONSTANTS
  Observations,     \* EventObservation records that may arrive
  WindowSize,       \* window_size of EventProcessor::process_events: 60
  IntLimit,         \* 2^63: the first integer an int64 cannot hold
  MaxRows,          \* bound: a source has at most this many rows
  NoCall            \* the observation between two calls

Int64 == -IntLimit .. IntLimit - 1

Fields == {"timestamp", "payment_failed", "payment_token", "fingerprint"}

ASSUME ObservationAssumption ==
  /\ IntLimit \in Nat \ {0}
  /\ WindowSize \in Nat
  /\ MaxRows \in Nat
  /\ \A o \in Observations :
       /\ o = [timestamp |-> o.timestamp, payment_failed |-> o.payment_failed,
               payment_token |-> o.payment_token, fingerprint |-> o.fingerprint]
       /\ o.timestamp \in Int64
       /\ o.payment_failed \in BOOLEAN
  /\ NoCall \notin Observations

VARIABLES
  timestamps, failures, payment_tokens, fingerprints,   \* the four deques
  observation,  \* the event whose call is running, or NoCall
  index,        \* the loop variable of evict_older_than()
  before        \* history: the rows when the call began

deques == <<timestamps, failures, payment_tokens, fingerprints>>
vars == <<deques, observation, index, before>>

Tokens == {o.payment_token : o \in Observations}
Fingerprints == {o.fingerprint : o \in Observations}

TypeOK ==
  /\ timestamps \in Seq(Int64)
  /\ failures \in Seq(BOOLEAN)
  /\ payment_tokens \in Seq(Tokens)
  /\ fingerprints \in Seq(Fingerprints)
  /\ observation \in Observations \cup {NoCall}
  /\ index \in 1 .. Len(timestamps) + 1
  /\ before \in Seq(Observations)

Idle == observation = NoCall

Row(i) ==
  [timestamp |-> timestamps[i], payment_failed |-> failures[i],
   payment_token |-> payment_tokens[i], fingerprint |-> fingerprints[i]]

Rows == [i \in 1 .. Len(timestamps) |-> Row(i)]

\* Subtraction of two int64 values as the compiled code does it: modulo 2^64.
\* The language leaves a result outside the type undefined.
Difference(a, b) == ((a - b + IntLimit) % (2 * IntLimit)) - IntLimit

Init ==
  /\ timestamps = <<>>
  /\ failures = <<>>
  /\ payment_tokens = <<>>
  /\ fingerprints = <<>>
  /\ observation = NoCall
  /\ index = 1
  /\ before = <<>>

\* A worker has popped an event of this source and calls evict_older_than().
Call(o) ==
  /\ Idle
  /\ Len(timestamps) < MaxRows
  /\ observation' = o
  /\ index' = 1
  /\ before' = Rows
  /\ UNCHANGED deques

InLoop == ~Idle /\ index <= Len(timestamps)

\* Mutant: the age is taken the wrong way round.
YoungerAtIndex == Difference(timestamps[index], observation.timestamp) > WindowSize

OldAtIndex == Difference(observation.timestamp, timestamps[index]) > WindowSize

\* Mutant: the row is erased from three of the deques.
EraseThree ==
  /\ InLoop
  /\ OldAtIndex
  /\ timestamps' = RemoveAt(timestamps, index)
  /\ failures' = RemoveAt(failures, index)
  /\ payment_tokens' = RemoveAt(payment_tokens, index)
  /\ UNCHANGED <<fingerprints, observation, index, before>>

\* Mutant: the index moves on after an erase too, past the row that moved up.
EraseAndSkip ==
  /\ InLoop
  /\ OldAtIndex
  /\ timestamps' = RemoveAt(timestamps, index)
  /\ failures' = RemoveAt(failures, index)
  /\ payment_tokens' = RemoveAt(payment_tokens, index)
  /\ fingerprints' = RemoveAt(fingerprints, index)
  /\ index' = index + 1
  /\ UNCHANGED <<observation, before>>

EraseRow ==
  /\ InLoop
  /\ OldAtIndex
  /\ timestamps' = RemoveAt(timestamps, index)
  /\ failures' = RemoveAt(failures, index)
  /\ payment_tokens' = RemoveAt(payment_tokens, index)
  /\ fingerprints' = RemoveAt(fingerprints, index)
  /\ UNCHANGED <<observation, index, before>>

\* Mutant: the index stands still.
KeepForever ==
  /\ InLoop
  /\ ~OldAtIndex
  /\ UNCHANGED vars

KeepRow ==
  /\ InLoop
  /\ ~OldAtIndex
  /\ index' = index + 1
  /\ UNCHANGED <<deques, observation, before>>

\* The loop is over and add_event() runs.
AddEvent ==
  /\ ~Idle
  /\ index = Len(timestamps) + 1
  /\ timestamps' = Append(timestamps, observation.timestamp)
  /\ failures' = Append(failures, observation.payment_failed)
  /\ payment_tokens' = Append(payment_tokens, observation.payment_token)
  /\ fingerprints' = Append(fingerprints, observation.fingerprint)
  /\ observation' = NoCall
  /\ index' = 1
  /\ before' = <<>>

Next ==
  \/ \E o \in Observations : Call(o)
  \/ EraseRow
  \/ KeepRow
  \/ AddEvent

Spec == Init /\ [][Next]_vars

\* Once called, the code runs to its end.
FairSpec == Spec /\ WF_vars(EraseRow \/ KeepRow \/ AddEvent)

-----------------------------------------------------------------------------
(* What makes the four deques one window *)

\* The deques stay aligned through every erase and append: each row is, field
\* by field, one observation that arrived, never a mix of two.
RowsAreObservations ==
  /\ Len(failures) = Len(timestamps)
  /\ Len(payment_tokens) = Len(timestamps)
  /\ Len(fingerprints) = Len(timestamps)
  /\ \A i \in 1 .. Len(timestamps) : Row(i) \in Observations

\* No row is more than WindowSize older than a row that was added after it,
\* whatever the order of the timestamps, as far as an int64 can hold their
\* difference.  (A row may be more than WindowSize younger than a later one: see
\* EventProcessor.)
NothingOldBeforeNew ==
  \A i, j \in 1 .. Len(timestamps) :
    i < j /\ timestamps[j] - timestamps[i] \in Int64 =>
      timestamps[j] - timestamps[i] <= WindowSize

\* evict_older_than() ends, although it erases from what it walks over.
CallReturns == ~Idle ~> Idle

\* Seen from outside a call, the deques are the abstract window: the loop
\* erases exactly the old rows and keeps the others in their order.
Window == INSTANCE SlidingWindow WITH
  window <- IF Idle THEN Rows ELSE before

ImplementsSlidingWindow == Window!Spec

=============================================================================
