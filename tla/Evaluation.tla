----------------------------- MODULE Evaluation -----------------------------
(***************************************************************************)
(* scripts/evaluate.py: the verdict on one record of the dataset.  It is   *)
(* the formula of AnomalyScorer written a second time, on what a record    *)
(* says of a window: how many requests, failures and fingerprints, and the *)
(* gaps.                                                                   *)
(*                                                                         *)
(* Exact, as in AnomalyScorer: a score is a whole number of units of       *)
(* 1 / (20 * WINDOW_SECONDS * request_count).                              *)
(***************************************************************************)
EXTENDS Integers, Sequences, SequencesExt

CONSTANT WINDOW_SECONDS

Sign(x) == IF x < 0 THEN -1 ELSE IF x > 0 THEN 1 ELSE 0

\* The sign of a/b - c/d, by Euclid's algorithm: products of numerators and
\* denominators would not fit.
CompareFractions[q \in Nat \X (Nat \ {0}) \X Nat \X (Nat \ {0})] ==
  LET a == q[1]  b == q[2]  c == q[3]  d == q[4]
  IN  IF a \div b # c \div d THEN Sign(a \div b - c \div d)
      ELSE IF a % b = 0 \/ c % d = 0 THEN Sign((a % b) - (c % d))
      ELSE CompareFractions[<<d, c % d, b, a % b>>]

clamp_score(value, one) == IF value < one THEN value ELSE one

\* Mutant: the velocity not clamped.
UnclampedVelocity(record) == record.request_count * record.request_count

\* In 1 / (WINDOW_SECONDS * request_count), as all scores but the timing.
VelocityScore(record) ==
  record.request_count * clamp_score(record.request_count, WINDOW_SECONDS)

\* Six, six and three of the twenty weights.
UntimedScore(record) ==
  6 * VelocityScore(record)
    + WINDOW_SECONDS * (6 * record.failure_count + 3 * record.distinct_fingerprints)

Total(numbers) ==
  LET sum[i \in 0 .. Len(numbers)] == IF i = 0 THEN 0 ELSE sum[i - 1] + numbers[i]
  IN  sum[Len(numbers)]

\* `len(gaps) >= 2` and `mean > 0.0`.
HasTiming(record) ==
  Len(record.inter_arrival_times) >= 2 /\ Total(record.inter_arrival_times) > 0

\* timing_anomaly_score is velocity_score / (1 + pstdev / fmean) with the weight
\* of four.  The sign tells how it compares with `needed`: for 0 < needed <= most
\* as (most - needed)^2 / needed^2 does with variance / fmean^2.
CompareTiming(record, needed) ==
  LET most == 4 * VelocityScore(record)
      gaps == record.inter_arrival_times
      squares == Total([i \in DOMAIN gaps |-> gaps[i] * gaps[i]])
      mean2 == Total(gaps) * Total(gaps)
  IN  IF ~HasTiming(record) THEN -needed
      ELSE IF needed <= 0 THEN 1
      ELSE IF most < needed THEN -1
      ELSE CompareFractions[<<(most - needed) * (most - needed), needed * needed,
                              Len(gaps) * squares - mean2, mean2>>]

\* final_score against a threshold of that many twentieths.  Without requests
\* it is 0.
CompareFinalScore(record, twentieths) ==
  LET one == WINDOW_SECONDS * (IF record.request_count = 0 THEN 1 ELSE record.request_count)
  IN  CompareTiming(record, twentieths * one - UntimedScore(record))

\* The classifications score_record() may give: two at an exact threshold.
RecordClassifications(record) ==
  LET at30 == CompareFinalScore(record, 6)
      at65 == CompareFinalScore(record, 13)
  IN  (IF at30 <= 0 THEN {"NORMAL"} ELSE {})
        \cup (IF at30 >= 0 /\ at65 <= 0 THEN {"SUSPICIOUS"} ELSE {})
        \cup (IF at65 >= 0 THEN {"ATTACK"} ELSE {})

\* Mutant: only ATTACK counts as an attack.
StrictLabel(classification) == IF classification = "ATTACK" THEN "ATTACK" ELSE "NORMAL"

predicted_label(classification) ==
  IF classification = "NORMAL" THEN "NORMAL" ELSE "ATTACK"

=============================================================================
