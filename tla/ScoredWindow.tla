---------------------------- MODULE ScoredWindow ----------------------------
(***************************************************************************)
(* The windows a source can get into, each scored: what the verdict may    *)
(* depend on, and which way.  The deques are scored between two calls; in  *)
(* the midst of one state_mutex_ keeps the evaluator from them.            *)
(***************************************************************************)
EXTENDS SourceWindow

CONSTANTS
  WINDOW_SECONDS,
  FreshFingerprint    \* a fingerprint that no observation has

ASSUME ScoredAssumption ==
  /\ WINDOW_SECONDS \in Nat \ {0}
  /\ \A o \in Observations : o.fingerprint # FreshFingerprint

Scorer == INSTANCE AnomalyScorer

Rank(c) == CASE c = "NORMAL" -> 0 [] c = "SUSPICIOUS" -> 1 [] c = "ATTACK" -> 2

\* Whatever w is found to be, v is not found to be less.
NoCalmer(v, w) ==
  /\ \A c \in Scorer!Classifications(w) : \E d \in Scorer!Classifications(v) : Rank(d) >= Rank(c)
  /\ \A d \in Scorer!Classifications(v) : \E c \in Scorer!Classifications(w) : Rank(d) >= Rank(c)

-----------------------------------------------------------------------------
(* What a verdict depends on *)

\* Several workers process the events of a source, in any order: rows that are
\* in the window in another order must get the same verdict.
OrderIrrelevant ==
  Idle =>
    \A i \in 1 .. Len(Rows) - 1 :
      Scorer!Classifications([Rows EXCEPT ![i] = Rows[i + 1], ![i + 1] = Rows[i]])
        = Scorer!Classifications(Rows)

\* docs/detection_spec.md: a high failure ratio indicates payment testing.
FailureNeverCalms ==
  Idle =>
    \A i \in DOMAIN Rows : NoCalmer([Rows EXCEPT ![i].payment_failed = TRUE], Rows)

\* docs/detection_spec.md: fingerprint changes indicate evasive behavior.
FingerprintNeverCalms ==
  Idle =>
    \A i \in DOMAIN Rows :
      NoCalmer([Rows EXCEPT ![i].fingerprint = FreshFingerprint], Rows)

\* The same rows spread evenly over the same time.
Evenly(w) ==
  LET ordered == Scorer!OrderedTimestamps(w)
      step == (ordered[Len(w)] - ordered[1]) \div (Len(w) - 1)
  IN  [i \in DOMAIN w |-> [w[i] EXCEPT !.timestamp = ordered[1] + (i - 1) * step]]

\* docs/detection_spec.md: regular timing is what the timing score looks for.
\* (The spacing is only even when the time divides into whole seconds.)
RegularityNeverCalms ==
  Idle /\ Len(Rows) > 1 =>
    LET ordered == Scorer!OrderedTimestamps(Rows)
    IN  (ordered[Len(Rows)] - ordered[1]) % (Len(Rows) - 1) = 0 =>
          NoCalmer(Evenly(Rows), Rows)

\* However busy and regular, a source with no failure and one fingerprint is no
\* ATTACK, once the window has a second row.
BusyCustomerIsNoAttack ==
  Idle /\ Len(Rows) > 1 =>
    \/ Scorer!FailureCount(Rows) > 0
    \/ Scorer!DistinctFingerprints(Rows) > 1
    \/ "ATTACK" \notin Scorer!Classifications(Rows)

-----------------------------------------------------------------------------
(* The formula has a second copy *)

Script == INSTANCE Evaluation

\* The record that describes a window.
Record(w) ==
  [request_count |-> Len(w), failure_count |-> Scorer!FailureCount(w),
   distinct_fingerprints |-> Scorer!DistinctFingerprints(w),
   inter_arrival_times |-> Scorer!InterArrivalTimes(w)]

\* What evaluate.py measures is the engine's detector: it gives the record of a
\* window the verdict the engine gives the window, or verdicts, at a threshold.
EvaluatedAlike ==
  Idle => Script!RecordClassifications(Record(Rows)) = Scorer!Classifications(Rows)

=============================================================================
