----------------------------- MODULE MCDataset -----------------------------
(***************************************************************************)
(* One example of each category, with gaps of whole 50 ms.  The bots are   *)
(* drawn with the fewest and the most requests and in between, with no     *)
(* failure, with the usual ones and with nothing else, spaced evenly and   *)
(* as unevenly as the range allows; the others come close to a threshold.  *)
(***************************************************************************)
EXTENDS Dataset

Example(c, requests, failures, gaps) ==
  [request_count |-> requests, failure_count |-> failures,
   distinct_fingerprints |-> Min({categories[c].distinct_fingerprint_count, requests}),
   inter_arrival_times |-> SubSeq(gaps, 1, requests - 1)]

Every(gap) == [i \in 1 .. 100 |-> gap]

\* One gap in so many is long.
OneIn(n, short, long) == [i \in 1 .. 100 |-> IF i % n = 0 THEN long ELSE short]

MCCounts == <<1, 1, 1, 1, 1>>

\* With one long gap in five the bot's deviation is three quarters of the mean,
\* the most that gaps between 50 and 200 ms can have.
MCDrawn ==
  << <<Example(1, 20, 0, Every(50))>>,
     <<Example(2, 40, 0, OneIn(2, 14, 36)), Example(2, 70, 0, Every(14))>>,
     <<Example(3, 60, 0, Every(1)), Example(3, 60, 0, OneIn(5, 1, 4)),
       Example(3, 60, 60, Every(4)), Example(3, 80, 64, OneIn(3, 1, 2)),
       Example(3, 100, 0, OneIn(5, 1, 4)), Example(3, 100, 100, Every(1))>>,
     <<Example(4, 5, 5, Every(160))>>,
     <<Example(5, 60, 0, Every(2)), Example(5, 80, 4, Every(2)),
       Example(5, 100, 0, Every(2)), Example(5, 100, 100, Every(2))>> >>

\* The order SEED = 20260905 gives lists of each length, and another.
MCShuffles ==
  { [n \in 0 .. 5 |->
       CASE n <= 3 -> [i \in 1 .. n |-> i]
         [] n = 4  -> <<4, 2, 1, 3>>
         [] n = 5  -> <<4, 2, 1, 3, 5>>],
    [n \in 0 .. 5 |-> [i \in 1 .. n |-> n + 1 - i]] }

=============================================================================
