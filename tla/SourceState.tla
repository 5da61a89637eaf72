---------------------------- MODULE SourceState ----------------------------
(***************************************************************************)
(* The methods of edge-engine/include/detection/SourceState.h as operators *)
(* on a window: the sequence of a source's rows, one observation each.     *)
(* SourceWindow has the four deques and the loop of evict_older_than(),    *)
(* and refines what is said here.                                          *)
(***************************************************************************)
EXTENDS Integers, Sequences, SequencesExt, SequenceSelection

CONSTANT WindowSize   \* window_size in EventProcessor::process_events: 60

\* evict_older_than(): the rows that are at most WindowSize older than
\* `timestamp`, in their order.  A row younger than `timestamp` stays.
EvictOlderThan(window, timestamp) ==
  SelectAt(window,
           {i \in DOMAIN window : timestamp - window[i].timestamp <= WindowSize})

AddEvent(window, observation) == Append(window, observation)

\* Mutant: `if (!failure)`.
SuccessCount(window) ==
  Cardinality({i \in DOMAIN window : ~window[i].payment_failed})

FailureCount(window) ==
  Cardinality({i \in DOMAIN window : window[i].payment_failed})

\* Mutant: the repetitions are counted.
RepeatedFingerprints(window) ==
  Len(window) - Cardinality({o.fingerprint : o \in ToSet(window)})

DistinctFingerprints(window) == Cardinality({o.fingerprint : o \in ToSet(window)})

\* Mutant: the sort left out.
ArrivalTimestamps(window) == [i \in DOMAIN window |-> window[i].timestamp]

\* std::sort(): at each place the timestamp that fewer than that many are before,
\* and at least that many are not after.
OrderedTimestamps(window) ==
  [place \in DOMAIN window |->
     CHOOSE t \in {window[i].timestamp : i \in DOMAIN window} :
       /\ Cardinality({i \in DOMAIN window : window[i].timestamp < t}) < place
       /\ Cardinality({i \in DOMAIN window : window[i].timestamp <= t}) >= place]

\* In seconds; the code's factor of 1000 changes nothing that is made of them.
InterArrivalTimes(window) ==
  LET ordered == OrderedTimestamps(window)
  IN  [i \in 1 .. Len(ordered) - 1 |-> ordered[i + 1] - ordered[i]]

=============================================================================
