--------------------------- MODULE AnomalyScorer ---------------------------
(***************************************************************************)
(* edge-engine/src/detection/AnomalyScorer.cpp: the weighted score of a    *)
(* window and its classification.                                          *)
(*                                                                         *)
(* Scores are exact here: an integer number of units, where one unit is    *)
(* 1 / (20 * WINDOW_SECONDS * n) for a window of n rows, so that every     *)
(* ratio, the weights 6/20, 6/20, 4/20, 3/20 and the thresholds 6/20 and   *)
(* 13/20 are whole.  The timing score has a square root in it, and is      *)
(* compared by squares.  The code computes in doubles: what it finds can   *)
(* only differ where a score is exactly a threshold, so there either side  *)
(* is possible.                                                            *)
(***************************************************************************)
EXTENDS SourceState

CONSTANT WINDOW_SECONDS   \* 60 in the code

ASSUME WindowSecondsAssumption == WINDOW_SECONDS \in Nat \ {0}

Smaller(a, b) == IF a <= b THEN a ELSE b
Larger(a, b) == IF a <= b THEN b ELSE a

\* VELOCITY_THRESHOLD is 1 request per second: the score is 1 from
\* WINDOW_SECONDS requests on.
VelocityScore(window) == Len(window) * Smaller(Len(window), WINDOW_SECONDS)

\* Mutant: the payments that went through over all.
SuccessRatioScore(window) == WINDOW_SECONDS * (Len(window) - FailureCount(window))

FailureRatioScore(window) == WINDOW_SECONDS * FailureCount(window)

FingerprintAnomalyScore(window) == WINDOW_SECONDS * DistinctFingerprints(window)

\* An empty window has score 0; any positive number of units stands for 1.
FullScore(window) == WINDOW_SECONDS * Larger(Len(window), 1)

\* What the final score has without the timing, in twentieths of a unit.
Untimed(window) ==
  6 * VelocityScore(window)
    + 6 * FailureRatioScore(window)
    + 3 * FingerprintAnomalyScore(window)

\* For each i, the sum of the first i.
PartialSums(numbers) ==
  LET total[i \in 0 .. Len(numbers)] == IF i = 0 THEN 0 ELSE total[i - 1] + numbers[i]
  IN  total

Sum(numbers) == PartialSums(numbers)[Len(numbers)]

Squares(numbers) == [i \in DOMAIN numbers |-> numbers[i] * numbers[i]]

\* The timing score is 0 with fewer than two gaps, and when all gaps are 0.
HasTiming(window) ==
  LET gaps == InterArrivalTimes(window)
  IN  Len(gaps) >= 2 /\ Sum(gaps) > 0

\* Mutant: mean / standard_deviation.
InverseVariation(gaps) ==
  LET mean2 == Sum(gaps) * Sum(gaps)
  IN  [over |-> mean2, under |-> Len(gaps) * Sum(Squares(gaps)) - mean2]

\* The square of the coefficient of variation, standard_deviation / mean, as a
\* fraction.
Variation(gaps) ==
  LET mean2 == Sum(gaps) * Sum(gaps)
  IN  [over |-> Len(gaps) * Sum(Squares(gaps)) - mean2, under |-> mean2]

\* The sign tells whether timing / (1 + cv) is below, at or above `rest`, where
\* `timing` is 4/20 of the velocity score and cv the coefficient of variation:
\*   timing / (1 + cv) < rest   iff   rest > 0 and timing - rest < rest * cv.
CompareTiming(window, rest) ==
  LET timing == 4 * VelocityScore(window)
      cv2 == Variation(InterArrivalTimes(window))
  IN  IF ~HasTiming(window) THEN -rest
      ELSE IF rest <= 0 THEN 1
      ELSE IF timing < rest THEN -1
      ELSE (timing - rest) * (timing - rest) * cv2.under - rest * rest * cv2.over

\* Below, at or above a threshold of that many twentieths.
CompareScore(window, twentieths) ==
  CompareTiming(window, twentieths * FullScore(window) - Untimed(window))

CanBeBelow(window, twentieths) == CompareScore(window, twentieths) <= 0
CanBeAtLeast(window, twentieths) == CompareScore(window, twentieths) >= 0

\* The classifications score() may give the window: one, or two at a threshold.
Classifications(window) ==
  { c \in {"NORMAL", "SUSPICIOUS", "ATTACK"} :
      CASE c = "NORMAL"     -> CanBeBelow(window, 6)
        [] c = "SUSPICIOUS" -> CanBeAtLeast(window, 6) /\ CanBeBelow(window, 13)
        [] c = "ATTACK"     -> CanBeAtLeast(window, 13) }

=============================================================================
