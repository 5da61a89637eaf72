---------------------------- MODULE WindowProofs ----------------------------
(***************************************************************************)
(* Proofs about SourceWindow and ScoredWindow for every set of             *)
(* observations, any window and integer size, and deques of any length:    *)
(* first what the deques hold, then what verdict they get.                 *)
(***************************************************************************)
EXTENDS ScoredWindow, RecursionLemmas, FiniteSetTheorems, TLAPS

(***************************************************************************)
(* The loop invariant: the rows the index has passed are recent.           *)
(***************************************************************************)
LoopInv ==
  ~Idle => \A i \in 1 .. index - 1 :
             Difference(observation.timestamp, timestamps[i]) <= WindowSize

\* The rows' ages as the compiled test takes them: an age that overflows is
\* negative there, and its row stays.
AgeInv ==
  \A i, j \in 1 .. Len(timestamps) :
    i < j => Difference(timestamps[j], timestamps[i]) <= WindowSize

IInv == TypeOK /\ RowsAreObservations /\ AgeInv /\ LoopInv

-----------------------------------------------------------------------------
(* Lemmas about sequences. *)

\* Erasing element i moves the later ones up by one.
LEMMA RemoveAtProperties ==
  ASSUME NEW S, NEW s \in Seq(S), NEW i \in 1 .. Len(s)
  PROVE  /\ RemoveAt(s, i) \in Seq(S)
         /\ Len(RemoveAt(s, i)) = Len(s) - 1
         /\ \A j \in 1 .. Len(s) - 1 :
              RemoveAt(s, i)[j] = IF j < i THEN s[j] ELSE s[j + 1]
<1> DEFINE l == SubSeq(s, 1, i - 1)
           r == SubSeq(s, i + 1, Len(s))
<1>1. Len(s) \in Nat /\ \A j \in 1 .. Len(s) : s[j] \in S
  BY LenProperties, ElementOfSeq
<1>2. /\ l \in Seq(S)
      /\ Len(l) = i - 1
      /\ \A j \in 1 .. i - 1 : l[j] = s[j]
  BY <1>1, SubSeqProperties
<1>3. /\ r \in Seq(S)
      /\ Len(r) = Len(s) - i
      /\ \A j \in 1 .. Len(s) - i : r[j] = s[j + i]
  BY <1>1, SubSeqProperties
<1>4. RemoveAt(s, i) = l \o r
  BY DEF RemoveAt
<1> HIDE DEF l, r
<1>5. /\ l \o r \in Seq(S)
      /\ Len(l \o r) = Len(l) + Len(r)
      /\ \A j \in 1 .. Len(l) + Len(r) :
           (l \o r)[j] = IF j <= Len(l) THEN l[j] ELSE r[j - Len(l)]
  BY <1>2, <1>3, ConcatProperties
<1>6. ASSUME NEW j \in 1 .. Len(s) - 1
      PROVE  (l \o r)[j] = IF j < i THEN s[j] ELSE s[j + 1]
  <2>1. CASE j < i
    BY <2>1, <1>1, <1>2, <1>3, <1>5
  <2>2. CASE ~(j < i)
    <3>1. (l \o r)[j] = r[j - (i - 1)]
      BY <2>2, <1>1, <1>2, <1>3, <1>5
    <3>2. j - (i - 1) \in 1 .. Len(s) - i
      BY <2>2, <1>1
    <3>3. r[j - (i - 1)] = s[(j - (i - 1)) + i]
      BY <3>2, <1>3
    <3>4. QED
      BY <2>2, <3>1, <3>3, <1>1
  <2>3. QED
    BY <2>1, <2>2
<1>7. QED
  BY <1>1, <1>2, <1>3, <1>4, <1>5, <1>6

\* A function on 1 .. n is a sequence.
LEMMA FunctionIsSeq ==
  ASSUME NEW S, NEW n \in Nat, NEW f \in [1 .. n -> S]
  PROVE  f \in Seq(S)
BY SeqDef

-----------------------------------------------------------------------------
(* The actions, one lemma each. *)

\* The strengthened invariant holds of empty deques.
LEMMA InitIInv == Init => IInv
<1> SUFFICES ASSUME Init PROVE IInv
  OBVIOUS
<1> USE ObservationAssumption DEF Init
<1>1. \A S : <<>> \in Seq(S) /\ Len(<<>>) = 0
  BY EmptySeq
<1>2. TypeOK
  BY <1>1 DEF TypeOK
<1>3. RowsAreObservations /\ AgeInv
  BY <1>1 DEF RowsAreObservations, AgeInv
<1>4. LoopInv
  BY DEF LoopInv, Idle
<1>5. QED
  BY <1>2, <1>3, <1>4 DEF IInv

\* A call starts: nothing has been passed yet.
LEMMA CallStep == ASSUME IInv, NEW o \in Observations, Call(o) PROVE IInv'
<1>1. Len(timestamps) \in Nat
  BY LenProperties DEF IInv, TypeOK
<1>2. Rows \in Seq(Observations)
  <2>1. Rows \in [1 .. Len(timestamps) -> Observations]
    BY DEF Rows, IInv, RowsAreObservations
  <2>2. QED
    BY <1>1, <2>1, FunctionIsSeq
<1>3. TypeOK'
  BY <1>1, <1>2 DEF IInv, TypeOK, Call, deques
<1>4. RowsAreObservations' /\ AgeInv'
  BY DEF IInv, RowsAreObservations, AgeInv, Row, Call, deques
<1>5. LoopInv'
  BY DEF LoopInv, Call
<1>6. QED
  BY <1>3, <1>4, <1>5 DEF IInv

\* An erase moves whole rows: those after the erased one move up by one.
LEMMA EraseMovesRows ==
  ASSUME IInv, EraseRow
  PROVE  LET n == Len(timestamps)
         IN  /\ n \in Nat /\ index \in 1 .. n
             /\ timestamps' \in Seq(Int64) /\ Len(timestamps') = n - 1
             /\ failures' \in Seq(BOOLEAN) /\ Len(failures') = n - 1
             /\ payment_tokens' \in Seq(Tokens) /\ Len(payment_tokens') = n - 1
             /\ fingerprints' \in Seq(Fingerprints) /\ Len(fingerprints') = n - 1
             /\ \A j \in 1 .. n - 1 :
                  /\ timestamps'[j] =
                       IF j < index THEN timestamps[j] ELSE timestamps[j + 1]
                  /\ Row(j)' = IF j < index THEN Row(j) ELSE Row(j + 1)
<1> DEFINE n == Len(timestamps)
<1>1. /\ timestamps \in Seq(Int64) /\ failures \in Seq(BOOLEAN)
      /\ payment_tokens \in Seq(Tokens) /\ fingerprints \in Seq(Fingerprints)
      /\ Len(failures) = n /\ Len(payment_tokens) = n /\ Len(fingerprints) = n
  BY DEF IInv, TypeOK, RowsAreObservations
<1>2. n \in Nat /\ index \in 1 .. n
  BY <1>1, LenProperties DEF IInv, TypeOK, EraseRow, InLoop
<1>2a. /\ index \in 1 .. Len(failures) /\ index \in 1 .. Len(payment_tokens)
       /\ index \in 1 .. Len(fingerprints)
  BY <1>1, <1>2
<1>3. /\ timestamps' \in Seq(Int64) /\ Len(timestamps') = n - 1
      /\ \A j \in 1 .. n - 1 : timestamps'[j] =
           IF j < index THEN timestamps[j] ELSE timestamps[j + 1]
  BY <1>1, <1>2, RemoveAtProperties DEF EraseRow
<1>4. /\ failures' \in Seq(BOOLEAN) /\ Len(failures') = n - 1
      /\ \A j \in 1 .. n - 1 : failures'[j] =
           IF j < index THEN failures[j] ELSE failures[j + 1]
  <2>1. failures' = RemoveAt(failures, index)
    BY DEF EraseRow
  <2>2. QED
    BY <1>1, <1>2a, <2>1, RemoveAtProperties
<1>5. /\ payment_tokens' \in Seq(Tokens) /\ Len(payment_tokens') = n - 1
      /\ \A j \in 1 .. n - 1 : payment_tokens'[j] =
           IF j < index THEN payment_tokens[j] ELSE payment_tokens[j + 1]
  <2>1. payment_tokens' = RemoveAt(payment_tokens, index)
    BY DEF EraseRow
  <2>2. QED
    BY <1>1, <1>2a, <2>1, RemoveAtProperties
<1>6. /\ fingerprints' \in Seq(Fingerprints) /\ Len(fingerprints') = n - 1
      /\ \A j \in 1 .. n - 1 : fingerprints'[j] =
           IF j < index THEN fingerprints[j] ELSE fingerprints[j + 1]
  <2>1. fingerprints' = RemoveAt(fingerprints, index)
    BY DEF EraseRow
  <2>2. QED
    BY <1>1, <1>2a, <2>1, RemoveAtProperties
<1> HIDE DEF n
<1>7. \A j \in 1 .. n - 1 : Row(j)' = IF j < index THEN Row(j) ELSE Row(j + 1)
  BY <1>3, <1>4, <1>5, <1>6 DEF Row
<1>8. QED
  BY <1>2, <1>3, <1>4, <1>5, <1>6, <1>7 DEF n

\* The invariant holds of the rows that are left.
LEMMA EraseStep == ASSUME IInv, EraseRow PROVE IInv'
<1> DEFINE n == Len(timestamps)
<1>1. n \in Nat /\ index \in 1 .. n
  BY EraseMovesRows
<1>2. /\ timestamps' \in Seq(Int64) /\ Len(timestamps') = n - 1
      /\ failures' \in Seq(BOOLEAN) /\ Len(failures') = n - 1
      /\ payment_tokens' \in Seq(Tokens) /\ Len(payment_tokens') = n - 1
      /\ fingerprints' \in Seq(Fingerprints) /\ Len(fingerprints') = n - 1
  BY EraseMovesRows
<1>3. \A j \in 1 .. n - 1 :
        timestamps'[j] = IF j < index THEN timestamps[j] ELSE timestamps[j + 1]
  BY EraseMovesRows
<1>4. \A j \in 1 .. n - 1 : Row(j)' = IF j < index THEN Row(j) ELSE Row(j + 1)
  BY EraseMovesRows
<1> HIDE DEF n
<1>5. TypeOK'
  BY <1>1, <1>2 DEF IInv, TypeOK, EraseRow
<1>6. RowsAreObservations'
  <2>1. \A j \in 1 .. n : Row(j) \in Observations
    BY DEF IInv, RowsAreObservations, n
  <2>2. \A j \in 1 .. n - 1 : Row(j)' \in Observations
    BY <1>1, <1>4, <2>1
  <2>3. QED
    BY <1>2, <2>2 DEF RowsAreObservations
<1>7. AgeInv'
  <2>1. \A i, j \in 1 .. n :
          i < j => Difference(timestamps[j], timestamps[i]) <= WindowSize
    BY DEF IInv, AgeInv, n
  <2>2. SUFFICES ASSUME NEW i \in 1 .. n - 1, NEW j \in 1 .. n - 1, i < j
                 PROVE  Difference(timestamps'[j], timestamps'[i]) <= WindowSize
    BY <1>2 DEF AgeInv, Difference
  <2>3. PICK k \in 1 .. n, l \in 1 .. n :
          k < l /\ timestamps'[i] = timestamps[k] /\ timestamps'[j] = timestamps[l]
    <3>1. timestamps'[i] = timestamps[IF i < index THEN i ELSE i + 1]
      BY <1>3
    <3>2. timestamps'[j] = timestamps[IF j < index THEN j ELSE j + 1]
      BY <1>3
    <3>3. QED
      BY <1>1, <2>2, <3>1, <3>2
  <2>4. QED
    BY <2>1, <2>3
<1>8. LoopInv'
  BY <1>1, <1>3 DEF IInv, LoopInv, Idle, EraseRow, Difference
<1>9. QED
  BY <1>5, <1>6, <1>7, <1>8 DEF IInv

\* The row the index passes is recent: that is the test it has passed.
LEMMA KeepStep == ASSUME IInv, KeepRow PROVE IInv'
<1>1. Len(timestamps) \in Nat /\ index \in 1 .. Len(timestamps)
  BY LenProperties DEF IInv, TypeOK, KeepRow, InLoop
<1>2. TypeOK'
  BY <1>1 DEF IInv, TypeOK, KeepRow, deques
<1>3. RowsAreObservations' /\ AgeInv'
  BY DEF IInv, RowsAreObservations, AgeInv, Row, KeepRow, deques
<1>4. LoopInv'
  <2>1. observation.timestamp \in Int64 /\ timestamps[index] \in Int64
    BY <1>1, ObservationAssumption, ElementOfSeq
       DEF IInv, TypeOK, KeepRow, InLoop, Idle
  <2>2. Difference(observation.timestamp, timestamps[index]) \in Int
    BY <2>1, ObservationAssumption DEF Int64, Difference
  <2>3. Difference(observation.timestamp, timestamps[index]) <= WindowSize
    BY <2>2, ObservationAssumption DEF KeepRow, OldAtIndex
  <2>4. \A i \in 1 .. index - 1 :
          Difference(observation.timestamp, timestamps[i]) <= WindowSize
    BY DEF IInv, LoopInv, KeepRow, InLoop
  <2>5. \A i \in 1 .. index :
          Difference(observation.timestamp, timestamps[i]) <= WindowSize
    <3>1. \A i \in 1 .. index : i \in 1 .. index - 1 \/ i = index
      BY <1>1
    <3>2. QED
      BY <2>3, <2>4, <3>1
  <2>6. index' - 1 = index /\ UNCHANGED <<observation, timestamps>>
    BY <1>1 DEF KeepRow, deques
  <2>7. QED
    BY <2>5, <2>6 DEF LoopInv, Difference
<1>5. QED
  BY <1>2, <1>3, <1>4 DEF IInv

\* The event joins as a row of its own, and the others stay where they are.
LEMMA AddJoinsRow ==
  ASSUME IInv, AddEvent
  PROVE  LET n == Len(timestamps)
         IN  /\ n \in Nat /\ index = n + 1 /\ observation \in Observations
             /\ timestamps' \in Seq(Int64) /\ Len(timestamps') = n + 1
             /\ failures' \in Seq(BOOLEAN) /\ Len(failures') = n + 1
             /\ payment_tokens' \in Seq(Tokens) /\ Len(payment_tokens') = n + 1
             /\ fingerprints' \in Seq(Fingerprints) /\ Len(fingerprints') = n + 1
             /\ \A j \in 1 .. n : timestamps'[j] = timestamps[j] /\ Row(j)' = Row(j)
             /\ timestamps'[n + 1] = observation.timestamp
             /\ \A j \in {n + 1} : Row(j)' = observation
<1> DEFINE n == Len(timestamps)
<1>1. /\ timestamps \in Seq(Int64) /\ failures \in Seq(BOOLEAN)
      /\ payment_tokens \in Seq(Tokens) /\ fingerprints \in Seq(Fingerprints)
      /\ Len(failures) = n /\ Len(payment_tokens) = n /\ Len(fingerprints) = n
      /\ n \in Nat /\ index = n + 1
  BY LenProperties DEF IInv, TypeOK, RowsAreObservations, AddEvent
<1>2. /\ observation \in Observations
      /\ observation =
           [timestamp |-> observation.timestamp,
            payment_failed |-> observation.payment_failed,
            payment_token |-> observation.payment_token,
            fingerprint |-> observation.fingerprint]
      /\ observation.timestamp \in Int64 /\ observation.payment_failed \in BOOLEAN
      /\ observation.payment_token \in Tokens
      /\ observation.fingerprint \in Fingerprints
  BY ObservationAssumption DEF IInv, TypeOK, AddEvent, Idle, Tokens, Fingerprints
<1>3. /\ timestamps' \in Seq(Int64) /\ Len(timestamps') = n + 1
      /\ \A j \in 1 .. n : timestamps'[j] = timestamps[j]
      /\ timestamps'[n + 1] = observation.timestamp
  BY <1>1, <1>2, AppendProperties DEF AddEvent
<1>4. /\ failures' \in Seq(BOOLEAN) /\ Len(failures') = n + 1
      /\ \A j \in 1 .. n : failures'[j] = failures[j]
      /\ failures'[n + 1] = observation.payment_failed
  BY <1>1, <1>2, AppendProperties DEF AddEvent
<1>5. /\ payment_tokens' \in Seq(Tokens) /\ Len(payment_tokens') = n + 1
      /\ \A j \in 1 .. n : payment_tokens'[j] = payment_tokens[j]
      /\ payment_tokens'[n + 1] = observation.payment_token
  BY <1>1, <1>2, AppendProperties DEF AddEvent
<1>6. /\ fingerprints' \in Seq(Fingerprints) /\ Len(fingerprints') = n + 1
      /\ \A j \in 1 .. n : fingerprints'[j] = fingerprints[j]
      /\ fingerprints'[n + 1] = observation.fingerprint
  BY <1>1, <1>2, AppendProperties DEF AddEvent
<1> HIDE DEF n
<1>7. \A j \in 1 .. n : Row(j)' = Row(j)
  BY <1>1, <1>3, <1>4, <1>5, <1>6 DEF Row
<1>8. ASSUME NEW j \in {n + 1} PROVE Row(j)' = observation
  BY <1>2, <1>3, <1>4, <1>5, <1>6, <1>8 DEF Row
<1>9. QED
  BY <1>1, <1>2, <1>3, <1>4, <1>5, <1>6, <1>7, <1>8 DEF n

\* Everything that is left is recent when the new row joins.
LEMMA AddStep == ASSUME IInv, AddEvent PROVE IInv'
<1> DEFINE n == Len(timestamps)
<1>1. n \in Nat /\ index = n + 1 /\ observation \in Observations
  BY AddJoinsRow
<1>2. /\ timestamps' \in Seq(Int64) /\ Len(timestamps') = n + 1
      /\ failures' \in Seq(BOOLEAN) /\ Len(failures') = n + 1
      /\ payment_tokens' \in Seq(Tokens) /\ Len(payment_tokens') = n + 1
      /\ fingerprints' \in Seq(Fingerprints) /\ Len(fingerprints') = n + 1
  BY AddJoinsRow
<1>3. /\ \A j \in 1 .. n : timestamps'[j] = timestamps[j]
      /\ timestamps'[n + 1] = observation.timestamp
  BY AddJoinsRow
<1>4. /\ \A j \in 1 .. n : Row(j)' = Row(j)
      /\ \A j \in {n + 1} : Row(j)' = observation
  BY AddJoinsRow
<1>5. \A j \in 1 .. n + 1 : j \in 1 .. n \/ j = n + 1
  BY <1>1
<1>6. TypeOK'
  <2>1. before' \in Seq(Observations) /\ index' = 1 /\ observation' = NoCall
    BY EmptySeq DEF AddEvent
  <2>2. QED
    BY <1>1, <1>2, <2>1 DEF TypeOK
<1>7. \A i, j \in 1 .. n :
        i < j => Difference(timestamps[j], timestamps[i]) <= WindowSize
  BY DEF IInv, AgeInv
<1>8. \A j \in 1 .. n : Row(j) \in Observations
  BY DEF IInv, RowsAreObservations
<1>9. \A i \in 1 .. n :
         Difference(observation.timestamp, timestamps[i]) <= WindowSize
  BY <1>1 DEF IInv, LoopInv, AddEvent
<1> HIDE DEF n
<1>10. RowsAreObservations'
  <2>1. ASSUME NEW j \in 1 .. n + 1 PROVE Row(j)' \in Observations
    BY <1>1, <1>4, <1>5, <1>8
  <2>2. QED
    BY <1>2, <2>1 DEF RowsAreObservations
<1>11. AgeInv'
  <2>1. SUFFICES ASSUME NEW i \in 1 .. n + 1, NEW j \in 1 .. n + 1, i < j
                 PROVE  Difference(timestamps'[j], timestamps'[i]) <= WindowSize
    BY <1>2 DEF AgeInv, Difference
  <2>2. i \in 1 .. n /\ timestamps'[i] = timestamps[i]
    BY <1>1, <1>3, <2>1
  <2>3. CASE j \in 1 .. n
    BY <1>3, <1>7, <2>1, <2>2, <2>3
  <2>4. CASE j = n + 1
    BY <1>3, <1>9, <2>2, <2>4
  <2>5. QED
    BY <1>5, <2>3, <2>4
<1>12. LoopInv'
  BY DEF LoopInv, Idle, AddEvent
<1>13. QED
  BY <1>6, <1>10, <1>11, <1>12 DEF IInv

\* It is inductive: no step of the loop or of add_event() breaks it.
LEMMA NextIInv == IInv /\ [Next]_vars => IInv'
<1>1. IInv /\ UNCHANGED vars => IInv'
  BY DEF vars, deques, IInv, TypeOK, RowsAreObservations, AgeInv,
         LoopInv, Row, Idle, Difference
<1>2. QED
  BY <1>1, CallStep, EraseStep, KeepStep, AddStep DEF Next

\* The strengthened invariant always holds: types, aligned rows, and what the
\* index of evict_older_than() has passed.
THEOREM IInvCorrect == Spec => []IInv
BY InitIInv, NextIInv, PTL DEF Spec

-----------------------------------------------------------------------------
(* The theorems. *)

\* The deques and the locals of evict_older_than() always have their types;
\* the index never runs past the end by more than one.
THEOREM TypeCorrect == Spec => []TypeOK
<1>1. IInv => TypeOK
  BY DEF IInv
<1>2. QED
  BY <1>1, IInvCorrect, PTL

\* The four deques stay aligned: each row is one observation that arrived.
THEOREM RowsCorrect == Spec => []RowsAreObservations
<1>1. IInv => RowsAreObservations
  BY DEF IInv
<1>2. QED
  BY <1>1, IInvCorrect, PTL

\* A difference that fits is the difference.
LEMMA DifferenceIsExact ==
  ASSUME NEW a \in Int, NEW b \in Int, a - b \in Int64
  PROVE  Difference(a, b) = a - b
<1>1. \A x, m \in Nat : x < m => x % m = x
  OBVIOUS
<1>2. a - b + IntLimit \in Nat /\ a - b + IntLimit < 2 * IntLimit /\ 2 * IntLimit \in Nat
  BY ObservationAssumption DEF Int64
<1>3. (a - b + IntLimit) % (2 * IntLimit) = a - b + IntLimit
  BY <1>1, <1>2
<1>4. QED
  BY <1>2, <1>3, ObservationAssumption DEF Difference

\* No row is more than WindowSize older than one added after it, in whatever
\* order the events arrive, wherever the language defines the difference: the
\* undefined ones, taken modulo 2^64, do no harm to the others.
THEOREM WindowCorrect == Spec => []NothingOldBeforeNew
<1>1. ASSUME IInv PROVE NothingOldBeforeNew
  <2> SUFFICES ASSUME NEW i \in 1 .. Len(timestamps), NEW j \in 1 .. Len(timestamps),
                      i < j, timestamps[j] - timestamps[i] \in Int64
               PROVE  timestamps[j] - timestamps[i] <= WindowSize
    BY DEF NothingOldBeforeNew
  <2>1. timestamps[i] \in Int /\ timestamps[j] \in Int
    <3>1. timestamps[i] \in Int64 /\ timestamps[j] \in Int64
      BY <1>1, ElementOfSeq DEF IInv, TypeOK
    <3>2. QED
      BY <3>1, ObservationAssumption DEF Int64
  <2>2. Difference(timestamps[j], timestamps[i]) = timestamps[j] - timestamps[i]
    BY <2>1, DifferenceIsExact
  <2>3. QED
    BY <1>1, <2>2 DEF IInv, AgeInv
<1>2. IInv => NothingOldBeforeNew
  BY <1>1
<1>3. QED
  BY <1>2, IInvCorrect, PTL

-----------------------------------------------------------------------------
(***************************************************************************)
(* The refinement.  While evict_older_than() runs, the rows are what it    *)
(* has kept of the rows it has passed, followed by the rows it has not     *)
(* reached.                                                                *)
(***************************************************************************)

\* The positions, when the call began, of the rows that are to stay.
Kept ==
  {i \in DOMAIN before : observation.timestamp - before[i].timestamp <= WindowSize}

Erased == Len(before) - Len(timestamps)

\* How many of the rows the index has passed, erased ones included.
Passed == index - 1 + Erased

EraseInv ==
  ~Idle =>
    /\ Erased \in Nat
    /\ Len(Selection(before, Kept)[Passed]) = index - 1
    /\ \A i \in 1 .. index - 1 : Row(i) = Selection(before, Kept)[Passed][i]
    /\ \A i \in index .. Len(timestamps) : Row(i) = before[i + Erased]

\* No two timestamps are 2^63 seconds apart, so that the language defines their
\* difference.
DifferencesFit == \A o, p \in Observations : o.timestamp - p.timestamp \in Int64

\* The operators of the abstract window are the ones the lemmas are about.
LEMMA WindowEvicts ==
  ASSUME NEW rows, NEW timestamp
  PROVE  Window!EvictOlderThan(rows, timestamp) =
           SelectAt(rows, {i \in DOMAIN rows : timestamp - rows[i].timestamp <= WindowSize})
<1>1. \A positions : Window!SelectAt(rows, positions) = SelectAt(rows, positions)
  BY DEF Window!SelectAt, Window!Selection, SelectAt, Selection
<1>2. QED
  BY <1>1 DEF Window!EvictOlderThan

\* The test of the loop is the test of the abstract window.
LEMMA OldIsNotKept ==
  ASSUME IInv, EraseInv, DifferencesFit, InLoop
  PROVE  /\ Passed + 1 \in 1 .. Len(before)
         /\ before[Passed + 1] = Row(index)
         /\ Passed + 1 \in Kept <=> ~OldAtIndex
<1>1. /\ index \in 1 .. Len(timestamps) /\ Len(timestamps) \in Nat
      /\ before \in Seq(Observations) /\ Len(before) \in Nat
      /\ observation \in Observations
  BY DEF IInv, TypeOK, InLoop, Idle
<1>2. Erased \in Nat /\ Row(index) = before[index + Erased]
  BY <1>1 DEF EraseInv, InLoop
<1>3. Passed + 1 = index + Erased
  BY <1>1, <1>2 DEF Passed
<1>4. Passed + 1 \in 1 .. Len(before)
  BY <1>1, <1>2, <1>3 DEF Erased
<1>5. before[Passed + 1] = Row(index) /\ before[Passed + 1] \in Observations
  BY <1>1, <1>2, <1>3, <1>4
<1>6. before[Passed + 1].timestamp = timestamps[index]
  BY <1>5 DEF Row
<1>7. /\ observation.timestamp \in Int /\ timestamps[index] \in Int
      /\ observation.timestamp - timestamps[index] \in Int64
  <2>1. observation.timestamp \in Int64 /\ before[Passed + 1].timestamp \in Int64
    BY <1>1, <1>5, ObservationAssumption
  <2>2. observation.timestamp - before[Passed + 1].timestamp \in Int64
    BY <1>1, <1>5 DEF DifferencesFit
  <2>3. QED
    BY <1>6, <2>1, <2>2, ObservationAssumption DEF Int64
<1>8. Difference(observation.timestamp, timestamps[index])
        = observation.timestamp - timestamps[index]
  BY <1>7, DifferenceIsExact
<1>9. Passed + 1 \in Kept <=> observation.timestamp - timestamps[index] <= WindowSize
  BY <1>1, <1>4, <1>6 DEF Kept
<1>10. QED
  BY <1>4, <1>5, <1>7, <1>8, <1>9, ObservationAssumption DEF OldAtIndex

\* What has been kept of the rows that the index has passed.
LEMMA OnePassed ==
  ASSUME IInv, NEW p \in Nat, p + 1 \in 1 .. Len(before)
  PROVE  /\ Selection(before, Kept)[p] \in Seq(Observations)
         /\ Selection(before, Kept)[p + 1] =
              IF p + 1 \in Kept THEN Append(Selection(before, Kept)[p], before[p + 1])
              ELSE Selection(before, Kept)[p]
<1>1. before \in Seq(Observations) /\ Len(before) \in Nat
  BY DEF IInv, TypeOK
<1>2. p \in 0 .. Len(before) /\ (p + 1) - 1 = p
  BY <1>1
<1>3. QED
  BY <1>1, <1>2, SelectionRecursion

\* A call begins with all rows, none of them passed.
LEMMA CallErases == ASSUME IInv, NEW o \in Observations, Call(o) PROVE EraseInv'
<1>1. Rows \in Seq(Observations) /\ Len(Rows) = Len(timestamps) /\ Len(timestamps) \in Nat
  <2>1. Rows \in [1 .. Len(timestamps) -> Observations]
    BY DEF Rows, IInv, RowsAreObservations
  <2>2. Len(timestamps) \in Nat
    BY DEF IInv, TypeOK
  <2>3. Rows \in Seq(Observations)
    BY <2>1, <2>2, FunctionIsSeq
  <2>4. QED
    BY <2>1, <2>2, <2>3
<1>2. /\ before' = Rows /\ timestamps' = timestamps /\ index' = 1
      /\ UNCHANGED deques
  BY DEF Call, deques
<1>3. Erased' = 0 /\ Passed' = 0
  BY <1>1, <1>2 DEF Erased, Passed
<1>4. Selection(before, Kept)'[Passed'] = <<>>
  <2>1. \A rows \in Seq(Observations) : \A kept : Selection(rows, kept)[0] = <<>>
    BY SelectionRecursion
  <2>2. QED
    BY <1>1, <1>2, <1>3, <2>1
<1>5. ASSUME NEW i \in 1 .. Len(timestamps) PROVE Row(i)' = Rows[i]
  BY <1>2 DEF Row, Rows, deques
<1>6. QED
  BY <1>1, <1>2, <1>3, <1>4, <1>5 DEF EraseInv

\* An erased row has been passed, and is not one to stay.
LEMMA EraseErases ==
  ASSUME IInv, EraseInv, DifferencesFit, EraseRow PROVE EraseInv'
<1> DEFINE n == Len(timestamps)
           sel == Selection(before, Kept)
<1>1. /\ n \in Nat /\ index \in 1 .. n /\ Len(timestamps') = n - 1
      /\ \A j \in 1 .. n - 1 : Row(j)' = IF j < index THEN Row(j) ELSE Row(j + 1)
  BY EraseMovesRows
<1>2. UNCHANGED <<observation, index, before>>
  BY DEF EraseRow
<1>3. /\ Erased \in Nat
      /\ Len(sel[Passed]) = index - 1
      /\ \A i \in 1 .. index - 1 : Row(i) = sel[Passed][i]
      /\ \A i \in index .. n : Row(i) = before[i + Erased]
  BY DEF EraseInv, EraseRow, InLoop
<1>4. Erased' = Erased + 1 /\ Passed' = Passed + 1 /\ Passed \in Nat
  <2>1. Len(before) \in Nat
    BY DEF IInv, TypeOK
  <2>2. QED
    BY <1>1, <1>2, <1>3, <2>1 DEF Erased, Passed
<1>5. sel[Passed + 1] = sel[Passed]
  <2>1. Passed + 1 \in 1 .. Len(before) /\ Passed + 1 \notin Kept
    BY OldIsNotKept DEF EraseRow
  <2>2. QED
    BY <1>4, <2>1, OnePassed
<1>6. sel' = sel
  BY <1>2 DEF Kept
<1> HIDE DEF n, sel
<1>7. \A i \in 1 .. index - 1 : Row(i)' = sel'[Passed'][i]
  BY <1>1, <1>3, <1>4, <1>5, <1>6
<1>8. \A i \in index .. n - 1 : Row(i)' = before[i + Erased']
  <2>1. SUFFICES ASSUME NEW i \in index .. n - 1 PROVE Row(i)' = before[i + Erased']
    OBVIOUS
  <2>2. Row(i)' = Row(i + 1) /\ i + 1 \in index .. n
    BY <1>1
  <2>3. Row(i + 1) = before[(i + 1) + Erased]
    BY <1>3, <2>2
  <2>4. (i + 1) + Erased = i + Erased'
    BY <1>1, <1>3, <1>4
  <2>5. QED
    BY <2>2, <2>3, <2>4
<1>9. Len(sel'[Passed']) = index - 1
  BY <1>3, <1>4, <1>5, <1>6
<1>10. Erased' \in Nat
  BY <1>3, <1>4
<1>11. QED
  BY <1>1, <1>2, <1>7, <1>8, <1>9, <1>10 DEF EraseInv, sel

\* A row that is kept joins the ones that were.
LEMMA KeepErases ==
  ASSUME IInv, EraseInv, DifferencesFit, KeepRow PROVE EraseInv'
<1> DEFINE n == Len(timestamps)
           sel == Selection(before, Kept)
<1>1. n \in Nat /\ index \in 1 .. n /\ Len(before) \in Nat
  BY DEF IInv, TypeOK, KeepRow, InLoop
<1>2. index' = index + 1 /\ UNCHANGED <<deques, observation, before>>
  BY DEF KeepRow
<1>3. /\ Erased \in Nat
      /\ Len(sel[Passed]) = index - 1
      /\ \A i \in 1 .. index - 1 : Row(i) = sel[Passed][i]
      /\ \A i \in index .. n : Row(i) = before[i + Erased]
  BY DEF EraseInv, KeepRow, InLoop
<1>4. Erased' = Erased /\ Passed' = Passed + 1 /\ Passed \in Nat
  BY <1>1, <1>2, <1>3 DEF Erased, Passed, deques
<1>5. /\ sel[Passed] \in Seq(Observations) /\ Row(index) \in Observations
      /\ sel[Passed + 1] = Append(sel[Passed], Row(index))
  <2>1. /\ Passed + 1 \in 1 .. Len(before) /\ Passed + 1 \in Kept
        /\ before[Passed + 1] = Row(index)
    BY OldIsNotKept DEF KeepRow
  <2>2. Row(index) \in Observations
    BY <1>1 DEF IInv, RowsAreObservations
  <2>3. /\ sel[Passed] \in Seq(Observations)
        /\ sel[Passed + 1] =
             IF Passed + 1 \in Kept THEN Append(sel[Passed], before[Passed + 1])
             ELSE sel[Passed]
    BY <1>4, <2>1, OnePassed
  <2>4. QED
    BY <2>1, <2>2, <2>3
<1>6. sel' = sel /\ \A i \in 1 .. n : Row(i)' = Row(i)
  BY <1>2 DEF Kept, Row, deques
<1>7. /\ Len(sel[Passed + 1]) = index
      /\ \A i \in 1 .. index : Row(i) = sel[Passed + 1][i]
  <2> DEFINE s == sel[Passed]
             r == Row(index)
  <2>1. s \in Seq(Observations) /\ r \in Observations /\ Len(s) = index - 1
    BY <1>3, <1>5
  <2>2. \A i \in 1 .. index - 1 : Row(i) = s[i]
    BY <1>3
  <2>3. sel[Passed + 1] = Append(s, r)
    BY <1>5
  <2> HIDE DEF s, r
  <2>4. /\ Len(Append(s, r)) = index
        /\ \A i \in 1 .. index - 1 : Append(s, r)[i] = s[i]
        /\ Append(s, r)[index] = r
    BY <1>1, <2>1
  <2>5. ASSUME NEW i \in 1 .. index PROVE Row(i) = Append(s, r)[i]
    <3>1. CASE i = index
      BY <2>4, <3>1 DEF r
    <3>2. CASE i # index
      <4>1. i \in 1 .. index - 1
        BY <1>1, <3>2
      <4>2. QED
        BY <2>2, <2>4, <4>1
    <3>3. QED
      BY <3>1, <3>2
  <2>6. QED
    BY <2>3, <2>4, <2>5
<1> HIDE DEF n, sel
<1>8. index' - 1 = index /\ \A i \in 1 .. index : i \in 1 .. n
  BY <1>1, <1>2
<1>9. \A i \in 1 .. index : Row(i)' = sel'[Passed'][i]
  BY <1>4, <1>6, <1>7, <1>8
<1>10. \A i \in index + 1 .. n : Row(i)' = before[i + Erased']
  <2>1. \A i \in index + 1 .. n : i \in index .. n /\ i \in 1 .. n
    BY <1>1
  <2>2. QED
    BY <1>3, <1>4, <1>6, <2>1
<1>11. Len(sel'[Passed']) = index
  BY <1>4, <1>6, <1>7
<1>12. n' = n
  BY <1>2 DEF n, deques
<1>13. QED
  BY <1>2, <1>3, <1>4, <1>8, <1>9, <1>10, <1>11, <1>12 DEF EraseInv, sel, n

\* When the call ends, the rows are the ones the abstract window keeps, and the
\* event.
LEMMA AddObserves ==
  ASSUME IInv, EraseInv, AddEvent
  PROVE  Rows' = Append(SelectAt(before, Kept), observation)
<1> DEFINE n == Len(timestamps)
           kept == SelectAt(before, Kept)
<1>1. /\ n \in Nat /\ index = n + 1 /\ observation \in Observations
      /\ Len(timestamps') = n + 1
      /\ \A j \in 1 .. n : Row(j)' = Row(j)
      /\ \A j \in {n + 1} : Row(j)' = observation
  BY AddJoinsRow
<1>2. before \in Seq(Observations) /\ Len(before) \in Nat
  BY DEF IInv, TypeOK
<1>3. kept \in Seq(Observations)
  BY <1>2, SelectAtType
<1>4. Len(kept) = n /\ \A i \in 1 .. n : Row(i) = kept[i]
  <2>1. ~Idle
    BY DEF AddEvent
  <2>2. /\ Erased \in Nat
        /\ Len(Selection(before, Kept)[Passed]) = index - 1
        /\ \A i \in 1 .. index - 1 : Row(i) = Selection(before, Kept)[Passed][i]
    BY <2>1 DEF EraseInv
  <2>3. Passed = Len(before)
    BY <1>1, <1>2, <2>2 DEF Passed, Erased
  <2>4. index - 1 = n
    BY <1>1
  <2>5. QED
    BY <2>2, <2>3, <2>4 DEF SelectAt
<1> HIDE DEF n, kept
<1>5. Rows' = [i \in 1 .. n + 1 |-> Append(kept, observation)[i]]
  <2>1. ASSUME NEW i \in 1 .. n + 1 PROVE Row(i)' = Append(kept, observation)[i]
    <3>1. CASE i = n + 1
      BY <1>1, <1>3, <1>4, <3>1
    <3>2. CASE i # n + 1
      BY <1>1, <1>3, <1>4, <3>2
    <3>3. QED
      BY <3>1, <3>2
  <2>2. Rows' = [i \in 1 .. n + 1 |-> Row(i)']
    BY <1>1 DEF Rows
  <2>3. QED
    BY <2>1, <2>2
<1>6. Append(kept, observation) = [i \in 1 .. n + 1 |-> Append(kept, observation)[i]]
  <2> DEFINE longer == Append(kept, observation)
  <2>1. longer \in Seq(Observations) /\ Len(longer) = n + 1
    BY <1>1, <1>3, <1>4, AppendProperties
  <2> HIDE DEF longer
  <2>2. longer \in [1 .. n + 1 -> Observations]
    BY <2>1, LenProperties
  <2>3. longer = [i \in 1 .. n + 1 |-> longer[i]]
    BY <2>2
  <2>4. QED
    BY <2>3 DEF longer
<1>7. QED
  BY <1>5, <1>6 DEF kept

\* Each step of the loop and of the calls keeps the invariant of the refinement.
LEMMA NextEraseInv ==
  ASSUME DifferencesFit, IInv, EraseInv, [Next]_vars PROVE EraseInv'
<1>1. CASE UNCHANGED vars
  BY <1>1 DEF vars, deques, EraseInv, Idle, Erased, Passed, Kept, Row
<1>2. CASE AddEvent
  BY <1>2 DEF AddEvent, EraseInv, Idle
<1>3. QED
  BY <1>1, <1>2, CallErases, EraseErases, KeepErases DEF Next

\* The end of a call is a step of the abstract window; nothing else is seen.
LEMMA StepImplemented ==
  ASSUME IInv, EraseInv, [Next]_vars
  PROVE  [Window!Next]_(IF Idle THEN Rows ELSE before)
<1> DEFINE window == IF Idle THEN Rows ELSE before
<1>1. CASE UNCHANGED vars
  BY <1>1 DEF vars, deques, Idle, Rows, Row
<1>2. ASSUME NEW o \in Observations, Call(o) PROVE UNCHANGED window
  BY <1>2, ObservationAssumption DEF Call, Idle
<1>3. CASE EraseRow \/ KeepRow
  BY <1>3 DEF EraseRow, KeepRow, InLoop, Idle
<1>4. CASE AddEvent
  <2>1. observation \in Observations /\ ~Idle /\ Idle'
    BY <1>4, AddJoinsRow DEF AddEvent, Idle
  <2>2. Rows' = Append(SelectAt(before, Kept), observation)
    BY <1>4, AddObserves
  <2>3. Window!EvictOlderThan(before, observation.timestamp) = SelectAt(before, Kept)
    BY WindowEvicts DEF Kept
  <2>4. window = before /\ window' = Rows'
    BY <2>1
  <2>5. Window!Observe(observation)
    BY <2>2, <2>3, <2>4 DEF Window!Observe, Window!AddEvent
  <2>6. QED
    BY <2>1, <2>5 DEF Window!Next
<1>5. QED
  BY <1>1, <1>2, <1>3, <1>4 DEF Next

\* Seen from outside a call, the four deques and the erasing loop implement the
\* abstract sliding window, for deques of any length, as long as no difference
\* of two timestamps overflows.
THEOREM WindowImplemented ==
  ASSUME DifferencesFit
  PROVE  Spec => ImplementsSlidingWindow
<1>1. Init => EraseInv
  BY DEF Init, EraseInv, Idle
<1>2. IInv /\ EraseInv /\ [Next]_vars => EraseInv'
  BY NextEraseInv
<1>3. Init => Window!Init
  <2>1. ASSUME Init PROVE Rows = <<>> /\ Idle
    <3>1. timestamps = <<>> /\ Idle
      BY <2>1 DEF Init, Idle
    <3>2. Rows = [i \in 1 .. 0 |-> Row(i)]
      BY <3>1 DEF Rows
    <3>3. QED
      BY <3>1, <3>2
  <2>2. QED
    BY <2>1 DEF Window!Init
<1>4. IInv /\ EraseInv /\ [Next]_vars => [Window!Next]_(IF Idle THEN Rows ELSE before)
  BY StepImplemented
<1>5. QED
  BY <1>1, <1>2, <1>3, <1>4, IInvCorrect, PTL DEF Spec, ImplementsSlidingWindow, Window!Spec

-----------------------------------------------------------------------------
(* Sorted timestamps: what std::sort() puts in each place of a window. *)

\* The rows that a window may be scored with: those of observations, or one with
\* a failure or a fingerprint that did not arrive.
ScoredRows ==
  [timestamp : Int64, payment_failed : BOOLEAN, payment_token : Tokens,
   fingerprint : Fingerprints \cup {FreshFingerprint}]

\* The positions whose timestamp is before t, and those whose is not after t.
Before(w, t) == {i \in DOMAIN w : w[i].timestamp < t}
UpTo(w, t) == {i \in DOMAIN w : w[i].timestamp <= t}

\* What std::sort() puts in this place.
IsAt(w, place, t) == Cardinality(Before(w, t)) < place /\ Cardinality(UpTo(w, t)) >= place

\* The places up to a given one are as many as it says.
LEMMA PlacesUpTo ==
  ASSUME NEW k \in Nat PROVE IsFiniteSet(1 .. k) /\ Cardinality(1 .. k) = k
BY FS_Interval

\* The timestamps of a window are integers.
LEMMA TimestampsType ==
  ASSUME NEW w \in Seq(ScoredRows)
  PROVE  /\ Len(w) \in Nat /\ DOMAIN w = 1 .. Len(w)
         /\ \A i \in 1 .. Len(w) : w[i].timestamp \in Int64 /\ w[i].timestamp \in Int
<1>1. \A i \in 1 .. Len(w) : w[i] \in ScoredRows
  BY ElementOfSeq
<1>2. QED
  BY <1>1, LenProperties, ObservationAssumption DEF ScoredRows, Int64

\* The scorer counts as everybody does.
LEMMA SameCardinality == \A S : Scorer!Cardinality(S) = Cardinality(S)
BY DEF Scorer!Cardinality, Cardinality

\* Positions of a window are finitely many, and more are no fewer.
LEMMA PositionsFinite ==
  ASSUME NEW S, NEW w \in Seq(S), NEW A \in SUBSET DOMAIN w, NEW B \in SUBSET A
  PROVE  /\ IsFiniteSet(A) /\ Cardinality(A) \in 0 .. Len(w)
         /\ Cardinality(B) \in Nat /\ Cardinality(B) <= Cardinality(A)
<1>1. Len(w) \in Nat /\ DOMAIN w = 1 .. Len(w)
  BY LenProperties
<1>2. IsFiniteSet(DOMAIN w) /\ Cardinality(DOMAIN w) = Len(w)
  BY <1>1, PlacesUpTo
<1>3. IsFiniteSet(A) /\ Cardinality(A) <= Len(w)
  BY <1>2, FS_Subset
<1>4. IsFiniteSet(B) /\ Cardinality(B) <= Cardinality(A)
  BY <1>3, FS_Subset
<1>5. QED
  BY <1>1, <1>3, <1>4, FS_CardinalityType

\* A place holds at most one timestamp, and later places later ones.
LEMMA PlacesAscend ==
  ASSUME NEW w \in Seq(ScoredRows), NEW k \in Int, NEW l \in Int, k <= l,
         NEW s \in Int, NEW t \in Int, IsAt(w, k, s), IsAt(w, l, t)
  PROVE  s <= t
<1>1. SUFFICES ASSUME t < s PROVE FALSE
  OBVIOUS
<1>2. \A i \in DOMAIN w : w[i].timestamp \in Int
  BY TimestampsType
<1>3. UpTo(w, t) \in SUBSET Before(w, s) /\ Before(w, s) \in SUBSET DOMAIN w
  BY <1>1, <1>2 DEF UpTo, Before
<1>4. /\ Cardinality(UpTo(w, t)) <= Cardinality(Before(w, s))
      /\ Cardinality(UpTo(w, t)) \in Nat /\ Cardinality(Before(w, s)) \in Nat
  BY <1>3, PositionsFinite
<1>5. QED
  BY <1>4 DEF IsAt

\* Each place holds a timestamp of the window.
LEMMA PlaceIsTaken ==
  ASSUME NEW w \in Seq(ScoredRows), NEW k \in 1 .. Len(w)
  PROVE  \E t \in {w[i].timestamp : i \in DOMAIN w} : IsAt(w, k, t)
<1> DEFINE Enough == {x \in Nat : Cardinality(UpTo(w, x - IntLimit)) >= k}
<1>1. Len(w) \in Nat /\ DOMAIN w = 1 .. Len(w) /\ IntLimit \in Nat
  BY LenProperties, ObservationAssumption
<1>2. \A i \in DOMAIN w : w[i].timestamp \in Int64
  BY TimestampsType
<1>3. \A t : UpTo(w, t) \in SUBSET DOMAIN w /\ Before(w, t) \in SUBSET DOMAIN w
  BY DEF UpTo, Before
<1>4. \A t : Cardinality(UpTo(w, t)) \in Nat /\ Cardinality(Before(w, t)) \in Nat
  BY <1>3, PositionsFinite
<1>5. 2 * IntLimit \in Enough
  <2>1. UpTo(w, 2 * IntLimit - IntLimit) = 1 .. Len(w)
    BY <1>1, <1>2 DEF UpTo, Int64
  <2>2. QED
    BY <1>1, <2>1, PlacesUpTo
<1>6. PICK x \in Enough : \A y \in Enough : x <= y
  <2>1. Enough \subseteq Nat /\ Enough # {}
    BY <1>5
  <2> HIDE DEF Enough
  <2>2. QED
    BY <2>1, LeastNatural
<1> DEFINE t == x - IntLimit
<1>7. t \in Int /\ Cardinality(UpTo(w, t)) >= k /\ x \in Nat
  BY <1>1, <1>6
<1>8. Cardinality(UpTo(w, t - 1)) < k
  <2>1. CASE x = 0
    <3>1. UpTo(w, t - 1) = {}
      BY <1>1, <1>2, <2>1 DEF UpTo, Int64
    <3>2. Cardinality(UpTo(w, t - 1)) = 0
      BY <3>1, FS_EmptySet
    <3>3. QED
      BY <1>1, <3>2
  <2>2. CASE x > 0
    <3>1. x - 1 \in Nat /\ x - 1 \notin Enough /\ t - 1 = (x - 1) - IntLimit
      BY <1>1, <1>6, <1>7, <2>2
    <3>2. ~(Cardinality(UpTo(w, t - 1)) >= k)
      BY <3>1
    <3>3. QED
      BY <1>4, <3>2
  <2>3. QED
    BY <1>7, <2>1, <2>2
<1> HIDE DEF t, Enough
<1>9. Before(w, t) = UpTo(w, t - 1)
  BY <1>1, <1>2, <1>7 DEF Before, UpTo, Int64
<1>10. IsAt(w, k, t)
  BY <1>7, <1>8, <1>9 DEF IsAt
<1>11. \E i \in DOMAIN w : w[i].timestamp = t
  <2>1. SUFFICES ASSUME \A i \in DOMAIN w : w[i].timestamp # t PROVE FALSE
    OBVIOUS
  <2>2. UpTo(w, t) = Before(w, t)
    BY <1>1, <1>2, <1>7, <2>1 DEF Before, UpTo, Int64
  <2>3. QED
    BY <1>4, <1>10, <2>2 DEF IsAt
<1>12. QED
  BY <1>10, <1>11

\* Sorting gives each place its timestamp.
LEMMA OrderedPlaces ==
  ASSUME NEW w \in Seq(ScoredRows)
  PROVE  /\ Scorer!OrderedTimestamps(w) \in [1 .. Len(w) -> Int64]
         /\ \A k \in 1 .. Len(w) : IsAt(w, k, Scorer!OrderedTimestamps(w)[k])
<1> DEFINE Values == {w[i].timestamp : i \in DOMAIN w}
<1>1. DOMAIN w = 1 .. Len(w)
  BY LenProperties
<1>2. Values \subseteq Int64
  BY TimestampsType
<1>3. Scorer!OrderedTimestamps(w) =
        [k \in DOMAIN w |-> CHOOSE t \in Values : IsAt(w, k, t)]
  BY DEF Scorer!OrderedTimestamps, IsAt, Before, UpTo, Scorer!Cardinality, Cardinality
<1>4. \A k \in 1 .. Len(w) : \E t \in Values : IsAt(w, k, t)
  BY PlaceIsTaken
<1> HIDE DEF Values
<1>5. \A k \in 1 .. Len(w) :
        /\ (CHOOSE t \in Values : IsAt(w, k, t)) \in Values
        /\ IsAt(w, k, CHOOSE t \in Values : IsAt(w, k, t))
  BY <1>4
<1>6. QED
  BY <1>1, <1>2, <1>3, <1>5

-----------------------------------------------------------------------------
(* Sums, and the variance of the gaps. *)

\* What PartialSums does at each position.
LEMMA SumRecursion ==
  ASSUME NEW numbers \in Seq(Int)
  PROVE  /\ Scorer!PartialSums(numbers) \in [0 .. Len(numbers) -> Int]
         /\ Scorer!PartialSums(numbers)[0] = 0
         /\ \A i \in 1 .. Len(numbers) :
              Scorer!PartialSums(numbers)[i] =
                Scorer!PartialSums(numbers)[i - 1] + numbers[i]
<1> DEFINE n == Len(numbers)
           step == [i \in 1 .. n |-> [x \in Int |-> x + numbers[i]]]
           Value(f, i) == IF i = 0 THEN 0 ELSE f[i - 1] + numbers[i]
           Holds(f) == f = [i \in 0 .. n |-> Value(f, i)]
           total == CHOOSE f : Holds(f)
<1>1. n \in Nat /\ \A i \in 1 .. n : numbers[i] \in Int
  BY LenProperties, ElementOfSeq
<1>2. Scorer!PartialSums(numbers) = total
  BY DEF Scorer!PartialSums
<1> HIDE DEF n
<1>3. step \in [1 .. n -> [Int -> Int]]
  BY <1>1
<1>4. PICK f \in [0 .. n -> Int] :
        f[0] = 0 /\ \A i \in 1 .. n : f[i] = step[i][f[i - 1]]
  <2> HIDE DEF step
  <2> DEFINE S == Int
             zero == 0
  <2>0. zero \in S /\ step \in [1 .. n -> [S -> S]]
    BY <1>3
  <2> HIDE DEF S, zero
  <2>1. Recursive(n, S, zero, step) # {}
    BY <1>1, <2>0, RecursionExists
  <2>2. QED
    BY <2>1 DEF Recursive, S, zero
<1>5. \A i \in 1 .. n : f[i] = f[i - 1] + numbers[i]
  <2>1. ASSUME NEW i \in 1 .. n, NEW x \in Int PROVE step[i][x] = x + numbers[i]
    OBVIOUS
  <2>2. ASSUME NEW i \in 1 .. n PROVE f[i - 1] \in Int
    BY <1>1, <1>4
  <2> HIDE DEF step
  <2>3. QED
    BY <1>4, <2>1, <2>2
<1>6. Holds(f)
  <2>1. ASSUME NEW i \in 0 .. n PROVE f[i] = Value(f, i)
    <3>1. CASE i = 0
      BY <1>4, <3>1
    <3>2. CASE i \in 1 .. n
      BY <1>1, <1>5, <3>2
    <3>3. QED
      BY <1>1, <3>1, <3>2
  <2> HIDE DEF Value
  <2>2. QED
    BY <1>4, <2>1
<1>7. Holds(total)
  <2> HIDE DEF Holds
  <2>1. QED
    BY <1>6
<1> HIDE DEF total
<1>8. DOMAIN total = 0 .. n /\ \A i \in 0 .. n : total[i] = Value(total, i)
  <2> HIDE DEF Value
  <2>1. QED
    BY <1>7
<1>9. total[0] = 0 /\ \A i \in 1 .. n : total[i] = total[i - 1] + numbers[i]
  <2>1. 0 \in 0 .. n /\ \A i \in 1 .. n : i \in 0 .. n /\ i # 0
    BY <1>1
  <2>2. total[0] = Value(total, 0)
    BY <1>8, <2>1
  <2>3. ASSUME NEW i \in 1 .. n PROVE total[i] = total[i - 1] + numbers[i]
    <3>1. total[i] = Value(total, i)
      BY <1>8, <2>1
    <3>2. QED
      BY <2>1, <3>1
  <2>4. QED
    BY <2>2, <2>3
<1>10. \A i \in 0 .. n : total[i] = f[i]
  <2>1. GoOnAlike(total, f, n)
    BY <1>4, <1>5, <1>9 DEF GoOnAlike
  <2>2. QED
    BY <1>1, <2>1, RecursionUnique
<1>11. total \in [0 .. n -> Int]
  <2> HIDE DEF Value, Holds
  <2>1. total = [i \in 0 .. n |-> total[i]]
    BY <1>7 DEF Holds
  <2>2. \A i \in 0 .. n : total[i] \in Int
    BY <1>4, <1>10
  <2>3. QED
    BY <2>1, <2>2
<1>12. QED
  BY <1>2, <1>9, <1>11 DEF n

\* The sum of whole numbers is one.
LEMMA SumType ==
  ASSUME NEW numbers \in Seq(Int)
  PROVE  Scorer!Sum(numbers) \in Int
<1>1. Len(numbers) \in 0 .. Len(numbers)
  BY LenProperties
<1>2. Scorer!PartialSums(numbers) \in [0 .. Len(numbers) -> Int]
  BY SumRecursion
<1>3. QED
  BY <1>1, <1>2 DEF Scorer!Sum

\* The squares of whole numbers.
LEMMA SquaresType ==
  ASSUME NEW numbers \in Seq(Int)
  PROVE  /\ Scorer!Squares(numbers) \in Seq(Int)
         /\ Len(Scorer!Squares(numbers)) = Len(numbers)
         /\ \A i \in 1 .. Len(numbers) :
              Scorer!Squares(numbers)[i] = numbers[i] * numbers[i]
<1>1. /\ Len(numbers) \in Nat /\ DOMAIN numbers = 1 .. Len(numbers)
      /\ \A i \in 1 .. Len(numbers) : numbers[i] \in Int
  BY LenProperties, ElementOfSeq
<1>2. Scorer!Squares(numbers) = [i \in 1 .. Len(numbers) |-> numbers[i] * numbers[i]]
  BY <1>1 DEF Scorer!Squares
<1>3. Scorer!Squares(numbers) \in [1 .. Len(numbers) -> Int]
  BY <1>1, <1>2
<1>4. Scorer!Squares(numbers) \in Seq(Int)
  BY <1>1, <1>3, FunctionIsSeq
<1>5. QED
  BY <1>1, <1>2, <1>3, <1>4, LenProperties

\* The mean of the squares is no less than the square of the mean, by the
\* squares of the differences a * x - b of the numbers x.
LEMMA VarianceIsNatural ==
  ASSUME NEW numbers \in Seq(Int)
  PROVE  /\ Scorer!Variation(numbers).over \in Nat
         /\ Scorer!Variation(numbers).under \in Nat
<1> DEFINE n == Len(numbers)
           s == Scorer!PartialSums(numbers)
           q == Scorer!PartialSums(Scorer!Squares(numbers))
           Right == {k \in 0 .. n : \A a, b \in Int :
                       a * a * q[k] - 2 * a * b * s[k] + k * b * b >= 0}
<1>1. n \in Nat /\ \A i \in 1 .. n : numbers[i] \in Int
  BY LenProperties, ElementOfSeq
<1>2. /\ s \in [0 .. n -> Int] /\ s[0] = 0
      /\ \A i \in 1 .. n : s[i] = s[i - 1] + numbers[i]
  BY SumRecursion
<1>3. /\ q \in [0 .. n -> Int] /\ q[0] = 0
      /\ \A i \in 1 .. n : q[i] = q[i - 1] + numbers[i] * numbers[i]
  <2>1. /\ Scorer!Squares(numbers) \in Seq(Int) /\ Len(Scorer!Squares(numbers)) = n
        /\ \A i \in 1 .. n : Scorer!Squares(numbers)[i] = numbers[i] * numbers[i]
    BY SquaresType
  <2>2. QED
    BY <2>1, SumRecursion
<1> HIDE DEF n, s, q
<1>4. 0 \in Right
  BY <1>1, <1>2, <1>3
<1>5. ASSUME NEW k \in 1 .. n, k - 1 \in Right PROVE k \in Right
  <2>1. SUFFICES ASSUME NEW a \in Int, NEW b \in Int
                 PROVE  a * a * q[k] - 2 * a * b * s[k] + k * b * b >= 0
    BY <1>1
  <2>2. a * a * q[k - 1] - 2 * a * b * s[k - 1] + (k - 1) * b * b >= 0
    BY <1>5
  <2>3. PICK x \in Int : x = numbers[k]
    BY <1>1
  <2>4. PICK u \in Int : u = q[k - 1]
    BY <1>1, <1>3
  <2>5. PICK v \in Int : v = s[k - 1]
    BY <1>1, <1>2
  <2>6. q[k] = u + x * x /\ s[k] = v + x
    BY <1>2, <1>3, <2>3, <2>4, <2>5
  <2>7. a * a * u - 2 * a * b * v + (k - 1) * b * b >= 0
    BY <2>2, <2>4, <2>5
  <2>8. a * a * (u + x * x) - 2 * a * b * (v + x) + k * b * b
          = (a * a * u - 2 * a * b * v + (k - 1) * b * b) + (a * x - b) * (a * x - b)
    OBVIOUS
  <2>9. (a * x - b) * (a * x - b) >= 0
    OBVIOUS
  <2>10. QED
    BY <2>6, <2>7, <2>8, <2>9
<1>6. n \in Right
  <2>1. 0 .. n \subseteq Right
    <3> HIDE DEF Right
    <3>1. QED
      BY <1>1, <1>4, <1>5, InductionUpTo
  <2>2. n \in 0 .. n
    BY <1>1
  <2> HIDE DEF Right
  <2>3. QED
    BY <2>1, <2>2
<1>7. PICK sum \in Int, squares \in Int : sum = s[n] /\ squares = q[n]
  BY <1>1, <1>2, <1>3
<1>8. n * squares - sum * sum >= 0
  <2>1. n * n * squares - 2 * n * sum * sum + n * sum * sum >= 0
    <3>1. \A a, b \in Int : a * a * squares - 2 * a * b * sum + n * b * b >= 0
      BY <1>6, <1>7
    <3>2. n \in Int
      BY <1>1
    <3>3. QED
      BY <3>1, <3>2, Zenon
  <2>2. n * (n * squares - sum * sum) >= 0
    BY <2>1, <1>1
  <2>3. CASE n = 0
    <3>1. sum = 0 /\ squares = 0
      BY <1>2, <1>3, <1>7, <2>3
    <3>2. QED
      BY <2>3, <3>1
  <2>4. CASE n > 0
    <3>1. PICK d \in Int : d = n * squares - sum * sum
      BY <1>1
    <3>2. n * d >= 0
      BY <2>2, <3>1
    <3>3. d >= 0
      BY <1>1, <2>4, <3>2
    <3>4. QED
      BY <3>1, <3>3
  <2>5. QED
    BY <1>1, <2>3, <2>4
<1>9. sum * sum >= 0
  OBVIOUS
<1>10. Scorer!Sum(numbers) = sum /\ Scorer!Sum(Scorer!Squares(numbers)) = squares
  BY <1>7, SquaresType DEF Scorer!Sum, s, q, n
<1>11. /\ Scorer!Variation(numbers).over = n * squares - sum * sum
       /\ Scorer!Variation(numbers).under = sum * sum
  BY <1>10 DEF Scorer!Variation, n
<1>12. QED
  BY <1>1, <1>8, <1>9, <1>11

-----------------------------------------------------------------------------
(* The scores of a window, and what decides the verdict. *)

\* The gaps of a window: one fewer than there are rows, if there are any.
LEMMA GapsType ==
  ASSUME NEW w \in Seq(ScoredRows)
  PROVE  /\ Scorer!InterArrivalTimes(w) \in Seq(Int)
         /\ Len(Scorer!InterArrivalTimes(w)) = IF Len(w) = 0 THEN 0 ELSE Len(w) - 1
         /\ \A i \in 1 .. Len(w) - 1 :
              Scorer!InterArrivalTimes(w)[i] =
                Scorer!OrderedTimestamps(w)[i + 1] - Scorer!OrderedTimestamps(w)[i]
<1> DEFINE n == Len(w)
           ordered == Scorer!OrderedTimestamps(w)
           m == IF n = 0 THEN 0 ELSE n - 1
<1>1. n \in Nat /\ m \in Nat
  BY LenProperties
<1>2. ordered \in [1 .. n -> Int]
  BY OrderedPlaces, ObservationAssumption DEF Int64
<1>3. Len(ordered) = n
  BY <1>1, <1>2
<1>4. Scorer!InterArrivalTimes(w) = [i \in 1 .. n - 1 |-> ordered[i + 1] - ordered[i]]
  BY <1>3 DEF Scorer!InterArrivalTimes
<1> HIDE DEF ordered, n
<1>5. 1 .. n - 1 = 1 .. m
  BY <1>1
<1>6. \A i \in 1 .. m : i \in 1 .. n /\ i + 1 \in 1 .. n
  BY <1>1
<1>7. [i \in 1 .. m |-> ordered[i + 1] - ordered[i]] \in [1 .. m -> Int]
  BY <1>2, <1>6
<1>8. Scorer!InterArrivalTimes(w) \in [1 .. m -> Int]
  BY <1>4, <1>5, <1>7
<1>9. Scorer!InterArrivalTimes(w) \in Seq(Int) /\ Len(Scorer!InterArrivalTimes(w)) = m
  BY <1>1, <1>8, FunctionIsSeq
<1>10. QED
  BY <1>4, <1>9 DEF n, ordered

\* The counts of a window are at most its length.
LEMMA CountsType ==
  ASSUME NEW w \in Seq(ScoredRows)
  PROVE  /\ Len(w) \in Nat
         /\ Scorer!FailureCount(w) \in 0 .. Len(w)
         /\ IsFiniteSet({o.fingerprint : o \in ToSet(w)})
         /\ Scorer!DistinctFingerprints(w) \in 0 .. Len(w)
<1> DEFINE Used == {o.fingerprint : o \in ToSet(w)}
           f == [i \in 1 .. Len(w) |-> w[i].fingerprint]
<1>1. Len(w) \in Nat /\ DOMAIN w = 1 .. Len(w)
  BY LenProperties
<1>2. Scorer!FailureCount(w) \in 0 .. Len(w)
  <2> DEFINE Failed == {i \in DOMAIN w : w[i].payment_failed}
  <2>1. Failed \in SUBSET DOMAIN w /\ Failed \in SUBSET Failed
    OBVIOUS
  <2>2. Scorer!FailureCount(w) = Cardinality(Failed)
    BY SameCardinality DEF Scorer!FailureCount
  <2> HIDE DEF Failed
  <2>3. QED
    BY <2>1, <2>2, PositionsFinite
<1>3. Used = {w[i].fingerprint : i \in 1 .. Len(w)}
  BY <1>1 DEF ToSet
<1>4. f \in Surjection(1 .. Len(w), Used)
  BY <1>3 DEF Surjection
<1> HIDE DEF f, Used
<1>5. IsFiniteSet(Used) /\ Cardinality(Used) <= Len(w)
  BY <1>1, <1>4, PlacesUpTo, FS_Surjection
<1>6. Cardinality(Used) \in Nat
  BY <1>5, FS_CardinalityType
<1>7. Scorer!DistinctFingerprints(w) = Cardinality(Used)
  BY SameCardinality DEF Scorer!DistinctFingerprints, Scorer!ToSet, ToSet, Used
<1>8. QED
  BY <1>1, <1>2, <1>5, <1>6, <1>7 DEF Used

\* The weighted scores but the timing, and the whole.
LEMMA ScoresType ==
  ASSUME NEW w \in Seq(ScoredRows)
  PROVE  /\ Scorer!VelocityScore(w) \in Nat
         /\ Scorer!VelocityScore(w) <= Len(w) * WINDOW_SECONDS
         /\ Scorer!FullScore(w) \in Nat
         /\ Scorer!Untimed(w) \in Nat
         /\ Scorer!Untimed(w) = 6 * Scorer!VelocityScore(w)
              + 6 * (WINDOW_SECONDS * Scorer!FailureCount(w))
              + 3 * (WINDOW_SECONDS * Scorer!DistinctFingerprints(w))
<1>1. WINDOW_SECONDS \in Nat
  BY ScoredAssumption
<1>2. /\ Len(w) \in Nat /\ Scorer!FailureCount(w) \in Nat
      /\ Scorer!DistinctFingerprints(w) \in Nat
  <2>1. /\ Len(w) \in Nat /\ Scorer!FailureCount(w) \in 0 .. Len(w)
        /\ Scorer!DistinctFingerprints(w) \in 0 .. Len(w)
    BY CountsType, Zenon
  <2>2. QED
    BY <2>1
<1>3. /\ Scorer!Smaller(Len(w), WINDOW_SECONDS) \in Nat
      /\ Scorer!Smaller(Len(w), WINDOW_SECONDS) <= WINDOW_SECONDS
  BY <1>1, <1>2 DEF Scorer!Smaller
<1>4. /\ Scorer!VelocityScore(w) \in Nat
      /\ Scorer!VelocityScore(w) <= Len(w) * WINDOW_SECONDS
  <2>1. \A n, a, b \in Nat : a <= b => n * a \in Nat /\ n * a <= n * b
    OBVIOUS
  <2>2. QED
    BY <1>1, <1>2, <1>3, <2>1 DEF Scorer!VelocityScore
<1>5. Scorer!FullScore(w) \in Nat
  BY <1>1, <1>2 DEF Scorer!FullScore, Scorer!Larger
<1>6. /\ WINDOW_SECONDS * Scorer!FailureCount(w) \in Nat
      /\ WINDOW_SECONDS * Scorer!DistinctFingerprints(w) \in Nat
  BY <1>1, <1>2
<1>7. Scorer!Untimed(w) = 6 * Scorer!VelocityScore(w)
              + 6 * (WINDOW_SECONDS * Scorer!FailureCount(w))
              + 3 * (WINDOW_SECONDS * Scorer!DistinctFingerprints(w))
  BY DEF Scorer!Untimed, Scorer!FailureRatioScore, Scorer!FingerprintAnomalyScore
<1>8. QED
  BY <1>4, <1>5, <1>6, <1>7

\* CompareTiming() of what it is made of.
Compared(timed, timing, rest, over, under) ==
  IF ~timed THEN -rest
  ELSE IF rest <= 0 THEN 1
  ELSE IF timing < rest THEN -1
  ELSE (timing - rest) * (timing - rest) * under - rest * rest * over

\* What the timing adds to a window's score, against a threshold.
LEMMA ScoreIsCompared ==
  ASSUME NEW w, NEW k
  PROVE  Scorer!CompareScore(w, k) =
           Compared(Scorer!HasTiming(w), 4 * Scorer!VelocityScore(w),
                    k * Scorer!FullScore(w) - Scorer!Untimed(w),
                    Scorer!Variation(Scorer!InterArrivalTimes(w)).over,
                    Scorer!Variation(Scorer!InterArrivalTimes(w)).under)
BY DEF Scorer!CompareScore, Scorer!CompareTiming, Compared

\* A score is a number.
LEMMA ScoreType ==
  ASSUME NEW w \in Seq(ScoredRows), NEW k \in Nat
  PROVE  Scorer!CompareScore(w, k) \in Int
<1> DEFINE gaps == Scorer!InterArrivalTimes(w)
<1>1. /\ Scorer!VelocityScore(w) \in Nat /\ Scorer!FullScore(w) \in Nat
      /\ Scorer!Untimed(w) \in Nat
  BY ScoresType
<1>2. Scorer!Variation(gaps).over \in Nat /\ Scorer!Variation(gaps).under \in Nat
  BY GapsType, VarianceIsNatural
<1>3. \A timed : \A t, r \in Int : \A o, u \in Nat : Compared(timed, t, r, o, u) \in Int
  BY DEF Compared
<1> HIDE DEF gaps
<1>4. k * Scorer!FullScore(w) - Scorer!Untimed(w) \in Int
  BY <1>1
<1>5. QED
  BY <1>1, <1>2, <1>3, <1>4, ScoreIsCompared DEF gaps

\* The less a window lacks without the timing, the more it scores with it.
LEMMA ComparedFalls ==
  ASSUME NEW timed, NEW t \in Int, NEW r \in Int, NEW s \in Int, s <= r,
         NEW o \in Nat, NEW u \in Nat
  PROVE  /\ Compared(timed, t, r, o, u) >= 0 => Compared(timed, t, s, o, u) >= 0
         /\ Compared(timed, t, s, o, u) <= 0 => Compared(timed, t, r, o, u) <= 0
<1>1. CASE ~timed
  BY <1>1 DEF Compared
<1>2. CASE timed /\ s <= 0
  BY <1>2 DEF Compared
<1>3. CASE timed /\ s > 0 /\ t < r
  BY <1>3 DEF Compared
<1>4. CASE timed /\ s > 0 /\ r <= t
  <2>1. (t - r) * (t - r) * u <= (t - s) * (t - s) * u
    <3>1. \A a, b \in Nat : a <= b => a * a <= b * b
      <4>1. SUFFICES ASSUME NEW a \in Nat, NEW b \in Nat, a <= b PROVE a * a <= b * b
        OBVIOUS
      <4>2. a * a <= a * b /\ a * b <= b * b
        BY <4>1
      <4>3. QED
        BY <4>2
    <3>2. t - r \in Nat /\ t - s \in Nat /\ t - r <= t - s
      BY <1>4
    <3>3. (t - r) * (t - r) <= (t - s) * (t - s)
      BY <3>1, <3>2
    <3>4. \A a, b \in Int : a <= b => a * u <= b * u
      OBVIOUS
    <3>5. (t - r) * (t - r) \in Int /\ (t - s) * (t - s) \in Int
      OBVIOUS
    <3>6. QED
      BY <3>3, <3>4, <3>5
  <2>2. s * s * o <= r * r * o
    <3>1. s * s <= s * r /\ s * r <= r * r
      BY <1>4
    <3>2. s * s <= r * r
      BY <3>1
    <3>3. \A a, b \in Int : a <= b => a * o <= b * o
      OBVIOUS
    <3>4. QED
      BY <3>2, <3>3
  <2>3. /\ Compared(timed, t, r, o, u) = (t - r) * (t - r) * u - r * r * o
        /\ Compared(timed, t, s, o, u) = (t - s) * (t - s) * u - s * s * o
    BY <1>4 DEF Compared
  <2>4. PICK a \in Int, b \in Int, c \in Int, d \in Int :
          /\ a = (t - r) * (t - r) * u /\ b = (t - s) * (t - s) * u
          /\ c = r * r * o /\ d = s * s * o
    OBVIOUS
  <2>5. a <= b /\ d <= c
    BY <2>1, <2>2, <2>4
  <2>6. Compared(timed, t, r, o, u) = a - c /\ Compared(timed, t, s, o, u) = b - d
    BY <2>3, <2>4
  <2>7. QED
    BY <2>5, <2>6
<1>5. QED
  BY <1>1, <1>2, <1>3, <1>4

\* What the thresholds say of a window.
LEMMA ClassifiedBy ==
  ASSUME NEW w
  PROVE  /\ "NORMAL" \in Scorer!Classifications(w) <=> Scorer!CanBeBelow(w, 6)
         /\ "SUSPICIOUS" \in Scorer!Classifications(w) <=>
              Scorer!CanBeAtLeast(w, 6) /\ Scorer!CanBeBelow(w, 13)
         /\ "ATTACK" \in Scorer!Classifications(w) <=> Scorer!CanBeAtLeast(w, 13)
         /\ Scorer!Classifications(w) \subseteq {"NORMAL", "SUSPICIOUS", "ATTACK"}
BY DEF Scorer!Classifications

\* v scores no less than w, as far as can be told, against this threshold.
NoLess(v, w, k) ==
  /\ Scorer!CanBeAtLeast(w, k) => Scorer!CanBeAtLeast(v, k)
  /\ Scorer!CanBeBelow(v, k) => Scorer!CanBeBelow(w, k)

\* The two thresholds decide.
LEMMA ScoresDecide ==
  ASSUME NEW v \in Seq(ScoredRows), NEW w \in Seq(ScoredRows),
         NoLess(v, w, 6), NoLess(v, w, 13)
  PROVE  NoCalmer(v, w)
<1>1. \A x \in Seq(ScoredRows) : \A k \in {6, 13} :
        Scorer!CanBeAtLeast(x, k) \/ Scorer!CanBeBelow(x, k)
  <2>1. SUFFICES ASSUME NEW x \in Seq(ScoredRows), NEW k \in {6, 13}
                 PROVE  Scorer!CanBeAtLeast(x, k) \/ Scorer!CanBeBelow(x, k)
    OBVIOUS
  <2>2. Scorer!CompareScore(x, k) \in Int
    BY ScoreType
  <2>3. QED
    BY <2>2 DEF Scorer!CanBeAtLeast, Scorer!CanBeBelow
<1>2. \A x : /\ "NORMAL" \in Scorer!Classifications(x) <=> Scorer!CanBeBelow(x, 6)
             /\ "SUSPICIOUS" \in Scorer!Classifications(x) <=>
                  Scorer!CanBeAtLeast(x, 6) /\ Scorer!CanBeBelow(x, 13)
             /\ "ATTACK" \in Scorer!Classifications(x) <=> Scorer!CanBeAtLeast(x, 13)
             /\ Scorer!Classifications(x) \subseteq {"NORMAL", "SUSPICIOUS", "ATTACK"}
  BY ClassifiedBy
<1>3. Rank("NORMAL") = 0 /\ Rank("SUSPICIOUS") = 1 /\ Rank("ATTACK") = 2
  BY DEF Rank
<1>4. \A c \in Scorer!Classifications(w) :
        \E d \in Scorer!Classifications(v) : Rank(d) >= Rank(c)
  <2>1. CASE Scorer!CanBeAtLeast(v, 13)
    BY <1>2, <1>3, <2>1
  <2>2. CASE ~Scorer!CanBeAtLeast(v, 13)
    BY <1>1, <1>2, <1>3, <2>2 DEF NoLess
  <2>3. QED
    BY <2>1, <2>2
<1>5. \A d \in Scorer!Classifications(v) :
        \E c \in Scorer!Classifications(w) : Rank(d) >= Rank(c)
  <2>1. CASE Scorer!CanBeBelow(w, 6)
    BY <1>2, <1>3, <2>1
  <2>2. CASE ~Scorer!CanBeBelow(w, 6)
    BY <1>1, <1>2, <1>3, <2>2 DEF NoLess
  <2>3. QED
    BY <2>1, <2>2
<1>6. QED
  BY <1>4, <1>5 DEF NoCalmer

-----------------------------------------------------------------------------
(* More signs of an attack at the same times. *)

\* What stands in the places is the sorted window.
LEMMA OrderedUnique ==
  ASSUME NEW w \in Seq(ScoredRows), NEW f \in [1 .. Len(w) -> Int],
         \A k \in 1 .. Len(w) : IsAt(w, k, f[k])
  PROVE  Scorer!OrderedTimestamps(w) = f
<1> DEFINE n == Len(w)
           g == Scorer!OrderedTimestamps(w)
<1>1. n \in Nat
  BY TimestampsType
<1>2. g \in [1 .. n -> Int] /\ \A k \in 1 .. n : IsAt(w, k, g[k])
  <2>1. Int64 \subseteq Int
    BY ObservationAssumption DEF Int64
  <2>2. QED
    BY <2>1, OrderedPlaces
<1>3. f \in [1 .. n -> Int] /\ \A k \in 1 .. n : IsAt(w, k, f[k])
  OBVIOUS
<1> HIDE DEF n, g
<1>4. ASSUME NEW k \in 1 .. n PROVE g[k] = f[k]
  <2>1. k \in Int /\ k <= k /\ g[k] \in Int /\ f[k] \in Int
    BY <1>1, <1>2, <1>3
  <2>2. IsAt(w, k, g[k]) /\ IsAt(w, k, f[k])
    BY <1>2, <1>3
  <2>3. g[k] <= f[k]
    BY <2>1, <2>2, PlacesAscend
  <2>4. f[k] <= g[k]
    BY <2>1, <2>2, PlacesAscend
  <2>5. QED
    BY <2>1, <2>3, <2>4
<1>5. g = f
  <2>1. g = [k \in 1 .. n |-> g[k]] /\ f = [k \in 1 .. n |-> f[k]]
    BY <1>2, <1>3
  <2>2. [k \in 1 .. n |-> g[k]] = [k \in 1 .. n |-> f[k]]
    BY <1>4
  <2>3. QED
    BY <2>1, <2>2, Zenon
<1>6. QED
  BY <1>5 DEF g

\* Windows with as many timestamps up to each time are sorted alike.
LEMMA OrderedAlike ==
  ASSUME NEW v \in Seq(ScoredRows), NEW w \in Seq(ScoredRows), Len(v) = Len(w),
         \A t : /\ Cardinality(Before(v, t)) = Cardinality(Before(w, t))
                /\ Cardinality(UpTo(v, t)) = Cardinality(UpTo(w, t))
  PROVE  Scorer!OrderedTimestamps(v) = Scorer!OrderedTimestamps(w)
<1> DEFINE f == Scorer!OrderedTimestamps(w)
<1>1. Int64 \subseteq Int
  BY ObservationAssumption DEF Int64
<1>2. f \in [1 .. Len(w) -> Int] /\ \A k \in 1 .. Len(w) : IsAt(w, k, f[k])
  BY <1>1, OrderedPlaces
<1> HIDE DEF f
<1>3. f \in [1 .. Len(v) -> Int] /\ \A k \in 1 .. Len(v) : IsAt(v, k, f[k])
  BY <1>2 DEF IsAt
<1>4. QED
  BY <1>3, OrderedUnique DEF f

\* Windows with the same timestamps, of which one lacks no more than the other.
LEMMA MoreUntimed ==
  ASSUME NEW v \in Seq(ScoredRows), NEW w \in Seq(ScoredRows), Len(v) = Len(w),
         Scorer!OrderedTimestamps(v) = Scorer!OrderedTimestamps(w),
         Scorer!Untimed(v) >= Scorer!Untimed(w)
  PROVE  NoCalmer(v, w)
<1> DEFINE gaps == Scorer!InterArrivalTimes(w)
           timed == Scorer!HasTiming(w)
           over == Scorer!Variation(gaps).over
           under == Scorer!Variation(gaps).under
           most == 4 * Scorer!VelocityScore(w)
           r(k) == k * Scorer!FullScore(w) - Scorer!Untimed(w)
           s(k) == k * Scorer!FullScore(v) - Scorer!Untimed(v)
<1>1. Scorer!InterArrivalTimes(v) = gaps
  BY DEF Scorer!InterArrivalTimes
<1>2. Scorer!HasTiming(v) <=> timed
  BY <1>1 DEF Scorer!HasTiming
<1>3. Scorer!VelocityScore(v) = Scorer!VelocityScore(w)
  BY DEF Scorer!VelocityScore
<1>4. Scorer!FullScore(v) = Scorer!FullScore(w)
  BY DEF Scorer!FullScore
<1>5. /\ Scorer!VelocityScore(w) \in Nat /\ Scorer!FullScore(w) \in Nat
      /\ Scorer!Untimed(w) \in Nat /\ Scorer!Untimed(v) \in Nat
  BY ScoresType
<1>6. over \in Nat /\ under \in Nat
  BY GapsType, VarianceIsNatural
<1>7. ASSUME NEW k \in {6, 13} PROVE NoLess(v, w, k)
  <2>1. r(k) \in Int /\ s(k) \in Int /\ s(k) <= r(k) /\ most \in Int
    BY <1>4, <1>5
  <2>2. Scorer!CompareScore(w, k) = Compared(timed, most, r(k), over, under)
    BY ScoreIsCompared
  <2>3. Scorer!CompareScore(v, k) = Compared(Scorer!HasTiming(v), most, s(k), over, under)
    BY <1>1, <1>3, ScoreIsCompared
  <2>4. Scorer!CompareScore(v, k) = Compared(timed, most, s(k), over, under)
    BY <1>2, <2>3 DEF Compared
  <2> HIDE DEF r, s, most, over, under, timed
  <2>5. /\ Scorer!CompareScore(w, k) >= 0 => Scorer!CompareScore(v, k) >= 0
        /\ Scorer!CompareScore(v, k) <= 0 => Scorer!CompareScore(w, k) <= 0
    BY <1>6, <2>1, <2>2, <2>4, ComparedFalls
  <2>6. QED
    BY <2>5 DEF NoLess, Scorer!CanBeAtLeast, Scorer!CanBeBelow
<1>8. QED
  BY <1>7, ScoresDecide

\* The counts that the scores are made of.
Failed(w) == {i \in DOMAIN w : w[i].payment_failed}
Used(w) == {w[i].fingerprint : i \in DOMAIN w}

\* They count failures and distinct fingerprints.
LEMMA CountsAre ==
  ASSUME NEW w
  PROVE  /\ Scorer!FailureCount(w) = Cardinality(Failed(w))
         /\ Scorer!DistinctFingerprints(w) = Cardinality(Used(w))
<1>1. {o.fingerprint : o \in ToSet(w)} = Used(w)
  BY DEF ToSet, Used
<1>2. Scorer!DistinctFingerprints(w) = Cardinality({o.fingerprint : o \in ToSet(w)})
  BY SameCardinality DEF Scorer!DistinctFingerprints, Scorer!ToSet, ToSet
<1>3. Scorer!FailureCount(w) = Cardinality(Failed(w))
  BY SameCardinality DEF Scorer!FailureCount, Failed
<1>4. QED
  BY <1>1, <1>2, <1>3

\* More failures, or more fingerprints, at the same times.
LEMMA MoreSigns ==
  ASSUME NEW v \in Seq(ScoredRows), NEW w \in Seq(ScoredRows), Len(v) = Len(w),
         \A i \in 1 .. Len(w) : v[i].timestamp = w[i].timestamp,
         Scorer!FailureCount(v) >= Scorer!FailureCount(w),
         Scorer!DistinctFingerprints(v) >= Scorer!DistinctFingerprints(w)
  PROVE  NoCalmer(v, w)
<1>1. DOMAIN v = DOMAIN w /\ DOMAIN w = 1 .. Len(w)
  BY TimestampsType
<1>2. \A t : Before(v, t) = Before(w, t) /\ UpTo(v, t) = UpTo(w, t)
  BY <1>1 DEF Before, UpTo
<1>3. Scorer!OrderedTimestamps(v) = Scorer!OrderedTimestamps(w)
  BY <1>2, OrderedAlike
<1>4. Scorer!Untimed(v) >= Scorer!Untimed(w)
  <2>1. Scorer!VelocityScore(v) = Scorer!VelocityScore(w)
    BY DEF Scorer!VelocityScore
  <2>2. WINDOW_SECONDS \in Nat /\ \A x \in {v, w} : Scorer!VelocityScore(x) \in Nat
    BY ScoresType, ScoredAssumption
  <2>3. \A x \in {v, w} :
          /\ Scorer!FailureCount(x) \in Nat
          /\ Scorer!DistinctFingerprints(x) \in Nat
    <3>1. \A x \in {v, w} :
            /\ Len(x) \in Nat /\ Scorer!FailureCount(x) \in 0 .. Len(x)
            /\ Scorer!DistinctFingerprints(x) \in 0 .. Len(x)
      BY CountsType, Zenon
    <3>2. QED
      BY <3>1
  <2>4. \A a, b \in Nat : a >= b => WINDOW_SECONDS * a >= WINDOW_SECONDS * b
    BY <2>2
  <2>5. /\ WINDOW_SECONDS * Scorer!FailureCount(v)
             >= WINDOW_SECONDS * Scorer!FailureCount(w)
        /\ WINDOW_SECONDS * Scorer!DistinctFingerprints(v)
             >= WINDOW_SECONDS * Scorer!DistinctFingerprints(w)
    BY <2>3, <2>4
  <2>6. \A x \in {v, w} :
          /\ WINDOW_SECONDS * Scorer!FailureCount(x) \in Nat
          /\ WINDOW_SECONDS * Scorer!DistinctFingerprints(x) \in Nat
    BY <2>2, <2>3
  <2>7. \A x \in {v, w} :
          Scorer!Untimed(x) = 6 * Scorer!VelocityScore(x)
               + 6 * (WINDOW_SECONDS * Scorer!FailureCount(x))
               + 3 * (WINDOW_SECONDS * Scorer!DistinctFingerprints(x))
    BY ScoresType
  <2>8. QED
    BY <2>1, <2>2, <2>5, <2>6, <2>7
<1>5. QED
  BY <1>3, <1>4, MoreUntimed

\* A window in which one row is another.
LEMMA RowChanged ==
  ASSUME NEW w \in Seq(ScoredRows), NEW i \in DOMAIN w, NEW row \in ScoredRows
  PROVE  /\ [w EXCEPT ![i] = row] \in Seq(ScoredRows)
         /\ Len([w EXCEPT ![i] = row]) = Len(w)
         /\ \A j \in DOMAIN w : [w EXCEPT ![i] = row][j] = IF j = i THEN row ELSE w[j]
<1>1. Len(w) \in Nat /\ DOMAIN w = 1 .. Len(w) /\ \A j \in 1 .. Len(w) : w[j] \in ScoredRows
  BY LenProperties, ElementOfSeq
<1>2. [w EXCEPT ![i] = row] \in [1 .. Len(w) -> ScoredRows]
  BY <1>1
<1>3. [w EXCEPT ![i] = row] \in Seq(ScoredRows)
  BY <1>1, <1>2, FunctionIsSeq
<1>4. QED
  BY <1>1, <1>2, <1>3, LenProperties

\* One payment more that failed.
LEMMA FailureScores ==
  ASSUME NEW w \in Seq(ScoredRows), NEW i \in DOMAIN w
  PROVE  NoCalmer([w EXCEPT ![i].payment_failed = TRUE], w)
<1> DEFINE row == [w[i] EXCEPT !.payment_failed = TRUE]
           v == [w EXCEPT ![i] = row]
<1>1. DOMAIN w = 1 .. Len(w) /\ w[i] \in ScoredRows
  BY LenProperties, ElementOfSeq
<1>2. /\ row \in ScoredRows /\ row.timestamp = w[i].timestamp /\ row.payment_failed
      /\ row.fingerprint = w[i].fingerprint
  BY <1>1 DEF ScoredRows
<1>3. [w EXCEPT ![i].payment_failed = TRUE] = v
  OBVIOUS
<1> HIDE DEF row
<1>4. /\ v \in Seq(ScoredRows) /\ Len(v) = Len(w)
      /\ \A j \in DOMAIN w : v[j] = IF j = i THEN row ELSE w[j]
  BY <1>2, RowChanged
<1> HIDE DEF v
<1>5. DOMAIN v = DOMAIN w
  BY <1>1, <1>4, LenProperties
<1>6. Scorer!FailureCount(v) >= Scorer!FailureCount(w)
  <2>1. Failed(w) \in SUBSET Failed(v) /\ Failed(v) \in SUBSET DOMAIN v
    BY <1>2, <1>4, <1>5 DEF Failed
  <2>2. /\ Cardinality(Failed(w)) \in Nat
        /\ Cardinality(Failed(w)) <= Cardinality(Failed(v))
        /\ Cardinality(Failed(v)) \in 0 .. Len(v)
    BY <1>4, <2>1, PositionsFinite
  <2>3. QED
    BY <2>2, CountsAre
<1>7. Scorer!DistinctFingerprints(v) >= Scorer!DistinctFingerprints(w)
  <2>1. Used(v) = Used(w)
    BY <1>2, <1>4, <1>5 DEF Used
  <2>2. Len(w) \in Nat /\ Scorer!DistinctFingerprints(w) \in 0 .. Len(w)
    BY CountsType, Zenon
  <2>3. QED
    BY <2>1, <2>2, CountsAre
<1>8. \A j \in 1 .. Len(w) : v[j].timestamp = w[j].timestamp
  BY <1>1, <1>2, <1>4
<1>9. NoCalmer(v, w)
  BY <1>4, <1>6, <1>7, <1>8, MoreSigns
<1>10. QED
  BY <1>3, <1>9

\* One fingerprint in the place of another, that no other row has.
LEMMA FingerprintScores ==
  ASSUME NEW w \in Seq(ScoredRows), NEW i \in DOMAIN w,
         \A j \in DOMAIN w : w[j].fingerprint # FreshFingerprint
  PROVE  NoCalmer([w EXCEPT ![i].fingerprint = FreshFingerprint], w)
<1> DEFINE row == [w[i] EXCEPT !.fingerprint = FreshFingerprint]
           v == [w EXCEPT ![i] = row]
<1>1. DOMAIN w = 1 .. Len(w) /\ w[i] \in ScoredRows
  BY LenProperties, ElementOfSeq
<1>2. /\ row \in ScoredRows /\ row.timestamp = w[i].timestamp
      /\ row.payment_failed = w[i].payment_failed
      /\ row.fingerprint = FreshFingerprint
  BY <1>1 DEF ScoredRows
<1>3. [w EXCEPT ![i].fingerprint = FreshFingerprint] = v
  OBVIOUS
<1> HIDE DEF row
<1>4. /\ v \in Seq(ScoredRows) /\ Len(v) = Len(w)
      /\ \A j \in DOMAIN w : v[j] = IF j = i THEN row ELSE w[j]
  BY <1>2, RowChanged
<1> HIDE DEF v
<1>5. DOMAIN v = DOMAIN w
  BY <1>1, <1>4, LenProperties
<1>6. Scorer!FailureCount(v) >= Scorer!FailureCount(w)
  <2>1. Failed(v) = Failed(w)
    BY <1>2, <1>4, <1>5 DEF Failed
  <2>2. Len(w) \in Nat /\ Scorer!FailureCount(w) \in 0 .. Len(w)
    BY CountsType, Zenon
  <2>3. QED
    BY <2>1, <2>2, CountsAre
<1>7. Scorer!DistinctFingerprints(v) >= Scorer!DistinctFingerprints(w)
  <2> DEFINE Others == {w[j].fingerprint : j \in DOMAIN w \ {i}}
  <2>1. /\ Used(v) = Others \cup {FreshFingerprint}
        /\ Used(w) = Others \cup {w[i].fingerprint}
        /\ FreshFingerprint \notin Others
    <3>1. Used(w) = Others \cup {w[i].fingerprint} /\ FreshFingerprint \notin Others
      BY DEF Used
    <3>2. v[i].fingerprint = FreshFingerprint
      BY <1>2, <1>4
    <3>3. \A j \in DOMAIN w \ {i} : v[j].fingerprint = w[j].fingerprint
      BY <1>4
    <3>4. Used(v) = Others \cup {FreshFingerprint}
      BY <1>5, <3>2, <3>3 DEF Used
    <3>5. QED
      BY <3>1, <3>4
  <2> HIDE DEF Others
  <2>2. IsFiniteSet(Others)
    <3>1. {o.fingerprint : o \in ToSet(w)} = Used(w)
      BY DEF ToSet, Used
    <3>2. IsFiniteSet(Used(w))
      BY <3>1, CountsType
    <3>3. Others \in SUBSET Used(w)
      BY <2>1
    <3>4. QED
      BY <3>2, <3>3, FS_Subset
  <2>3. /\ Cardinality(Others) \in Nat
        /\ Cardinality(Used(v)) = Cardinality(Others) + 1
        /\ Cardinality(Used(w)) =
             IF w[i].fingerprint \in Others THEN Cardinality(Others)
             ELSE Cardinality(Others) + 1
    BY <2>1, <2>2, FS_AddElement, FS_CardinalityType
  <2>4. QED
    BY <2>3, CountsAre
<1>8. \A j \in 1 .. Len(w) : v[j].timestamp = w[j].timestamp
  BY <1>1, <1>2, <1>4
<1>9. NoCalmer(v, w)
  BY <1>4, <1>6, <1>7, <1>8, MoreSigns
<1>10. QED
  BY <1>3, <1>9

-----------------------------------------------------------------------------
(* The order of the rows, and a window without any sign. *)

\* As many positions, of two that have changed places, have something.
LEMMA SwappedAlike ==
  ASSUME NEW n \in Nat, NEW i \in 1 .. n - 1,
         NEW A \in SUBSET (1 .. n), NEW B \in SUBSET (1 .. n),
         i \in A <=> i + 1 \in B, i + 1 \in A <=> i \in B,
         \A j \in (1 .. n) \ {i, i + 1} : j \in A <=> j \in B
  PROVE  Cardinality(A) = Cardinality(B)
<1> DEFINE swap(j) == IF j = i THEN i + 1 ELSE IF j = i + 1 THEN i ELSE j
           f == [j \in A |-> swap(j)]
<1>1. /\ i \in 1 .. n /\ i + 1 \in 1 .. n /\ i # i + 1
      /\ \A j \in 1 .. n : swap(j) \in 1 .. n /\ swap(swap(j)) = j
  OBVIOUS
<1>2. \A j \in 1 .. n : j \in A <=> swap(j) \in B
  BY <1>1
<1> HIDE DEF swap
<1>3. f \in [A -> B]
  BY <1>2
<1>4. ASSUME NEW j \in A, NEW k \in A, f[j] = f[k] PROVE j = k
  <2>1. swap(j) = swap(k) /\ j \in 1 .. n /\ k \in 1 .. n
    BY <1>4
  <2>2. swap(swap(j)) = swap(swap(k))
    BY <2>1
  <2>3. QED
    BY <1>1, <2>1, <2>2
<1>5. ASSUME NEW k \in B PROVE \E j \in A : f[j] = k
  <2>1. k \in 1 .. n /\ swap(k) \in 1 .. n /\ swap(swap(k)) = k
    BY <1>1
  <2>2. swap(k) \in A
    BY <1>2, <2>1
  <2>3. f[swap(k)] = k
    BY <2>1, <2>2
  <2>4. QED
    BY <2>2, <2>3
<1> HIDE DEF f
<1>6. f \in Bijection(A, B)
  BY <1>3, <1>4, <1>5 DEF Bijection, Injection, Surjection, IsInjective
<1>7. IsFiniteSet(A)
  BY PlacesUpTo, FS_Subset
<1>8. QED
  BY <1>6, <1>7, FS_Bijection DEF ExistsBijection

\* Windows with the same timestamps, counted alike, are classified alike.
LEMMA CountedAlike ==
  ASSUME NEW v, NEW w, Len(v) = Len(w),
         Scorer!OrderedTimestamps(v) = Scorer!OrderedTimestamps(w),
         Scorer!FailureCount(v) = Scorer!FailureCount(w),
         Scorer!DistinctFingerprints(v) = Scorer!DistinctFingerprints(w)
  PROVE  Scorer!Classifications(v) = Scorer!Classifications(w)
<1>1. Scorer!InterArrivalTimes(v) = Scorer!InterArrivalTimes(w)
  BY DEF Scorer!InterArrivalTimes
<1>2. Scorer!HasTiming(v) <=> Scorer!HasTiming(w)
  BY <1>1 DEF Scorer!HasTiming
<1>3. Scorer!VelocityScore(v) = Scorer!VelocityScore(w)
  BY DEF Scorer!VelocityScore
<1>4. Scorer!FullScore(v) = Scorer!FullScore(w)
  BY DEF Scorer!FullScore
<1>5. Scorer!Untimed(v) = Scorer!Untimed(w)
  BY <1>3 DEF Scorer!Untimed, Scorer!FailureRatioScore, Scorer!FingerprintAnomalyScore
<1>6. ASSUME NEW k PROVE Scorer!CompareScore(v, k) = Scorer!CompareScore(w, k)
  BY <1>1, <1>2, <1>3, <1>4, <1>5, ScoreIsCompared DEF Compared
<1>7. ASSUME NEW k
      PROVE  /\ Scorer!CanBeAtLeast(v, k) <=> Scorer!CanBeAtLeast(w, k)
             /\ Scorer!CanBeBelow(v, k) <=> Scorer!CanBeBelow(w, k)
  BY <1>6 DEF Scorer!CanBeAtLeast, Scorer!CanBeBelow
<1>8. QED
  BY <1>7, ClassifiedBy

\* Two neighbours that change places.
LEMMA OrderScores ==
  ASSUME NEW w \in Seq(ScoredRows), NEW i \in 1 .. Len(w) - 1
  PROVE  Scorer!Classifications([w EXCEPT ![i] = w[i + 1], ![i + 1] = w[i]])
           = Scorer!Classifications(w)
<1> DEFINE n == Len(w)
           v == [w EXCEPT ![i] = w[i + 1], ![i + 1] = w[i]]
<1>1. /\ n \in Nat /\ DOMAIN w = 1 .. n /\ \A j \in 1 .. n : w[j] \in ScoredRows
      /\ i \in 1 .. n /\ i + 1 \in 1 .. n /\ i # i + 1
  BY LenProperties, ElementOfSeq
<1>2. /\ v \in [1 .. n -> ScoredRows] /\ v[i] = w[i + 1] /\ v[i + 1] = w[i]
      /\ \A j \in (1 .. n) \ {i, i + 1} : v[j] = w[j]
  BY <1>1
<1> HIDE DEF v
<1>3. v \in Seq(ScoredRows) /\ Len(v) = n /\ DOMAIN v = 1 .. n
  BY <1>1, <1>2, FunctionIsSeq, LenProperties
<1> HIDE DEF n
<1>4. ASSUME NEW t
      PROVE  /\ Cardinality(Before(v, t)) = Cardinality(Before(w, t))
             /\ Cardinality(UpTo(v, t)) = Cardinality(UpTo(w, t))
  <2>1. Cardinality(Before(v, t)) = Cardinality(Before(w, t))
    <3>1. Before(v, t) \in SUBSET (1 .. n) /\ Before(w, t) \in SUBSET (1 .. n)
      BY <1>1, <1>3 DEF Before
    <3>2. /\ i \in Before(v, t) <=> i + 1 \in Before(w, t)
          /\ i + 1 \in Before(v, t) <=> i \in Before(w, t)
          /\ \A j \in (1 .. n) \ {i, i + 1} : j \in Before(v, t) <=> j \in Before(w, t)
      BY <1>1, <1>2, <1>3 DEF Before
    <3>3. QED
      BY <1>1, <3>1, <3>2, SwappedAlike DEF n
  <2>2. Cardinality(UpTo(v, t)) = Cardinality(UpTo(w, t))
    <3>1. UpTo(v, t) \in SUBSET (1 .. n) /\ UpTo(w, t) \in SUBSET (1 .. n)
      BY <1>1, <1>3 DEF UpTo
    <3>2. /\ i \in UpTo(v, t) <=> i + 1 \in UpTo(w, t)
          /\ i + 1 \in UpTo(v, t) <=> i \in UpTo(w, t)
          /\ \A j \in (1 .. n) \ {i, i + 1} : j \in UpTo(v, t) <=> j \in UpTo(w, t)
      BY <1>1, <1>2, <1>3 DEF UpTo
    <3>3. QED
      BY <1>1, <3>1, <3>2, SwappedAlike DEF n
  <2>3. QED
    BY <2>1, <2>2
<1>5. Scorer!OrderedTimestamps(v) = Scorer!OrderedTimestamps(w)
  BY <1>3, <1>4, OrderedAlike DEF n
<1>6. Scorer!FailureCount(v) = Scorer!FailureCount(w)
  <2>1. Failed(v) \in SUBSET (1 .. n) /\ Failed(w) \in SUBSET (1 .. n)
    BY <1>1, <1>3 DEF Failed
  <2>2. /\ i \in Failed(v) <=> i + 1 \in Failed(w)
        /\ i + 1 \in Failed(v) <=> i \in Failed(w)
        /\ \A j \in (1 .. n) \ {i, i + 1} : j \in Failed(v) <=> j \in Failed(w)
    BY <1>1, <1>2, <1>3 DEF Failed
  <2>3. Cardinality(Failed(v)) = Cardinality(Failed(w))
    BY <1>1, <2>1, <2>2, SwappedAlike DEF n
  <2>4. QED
    BY <2>3, CountsAre
<1>7. Scorer!DistinctFingerprints(v) = Scorer!DistinctFingerprints(w)
  <2>1. \A j \in 1 .. n : \E k \in 1 .. n : v[k] = w[j]
    BY <1>1, <1>2
  <2>2. \A j \in 1 .. n : \E k \in 1 .. n : w[k] = v[j]
    BY <1>1, <1>2
  <2>3. ASSUME NEW x \in Used(v) PROVE x \in Used(w)
    <3>1. PICK j \in 1 .. n : x = v[j].fingerprint
      BY <1>3 DEF Used
    <3>2. PICK k \in 1 .. n : w[k] = v[j]
      BY <2>2
    <3>3. QED
      BY <1>1, <3>1, <3>2 DEF Used
  <2>4. ASSUME NEW x \in Used(w) PROVE x \in Used(v)
    <3>1. PICK j \in 1 .. n : x = w[j].fingerprint
      BY <1>1 DEF Used
    <3>2. PICK k \in 1 .. n : v[k] = w[j]
      BY <2>1
    <3>3. QED
      BY <1>3, <3>1, <3>2 DEF Used
  <2>5. Used(v) = Used(w)
    BY <2>3, <2>4
  <2>6. QED
    BY <2>5, CountsAre
<1>8. QED
  BY <1>3, <1>5, <1>6, <1>7, CountedAlike DEF n, v

\* No failure and one fingerprint.
LEMMA BusyScores ==
  ASSUME NEW w \in Seq(ScoredRows), Len(w) > 1,
         Scorer!FailureCount(w) = 0, Scorer!DistinctFingerprints(w) <= 1
  PROVE  "ATTACK" \notin Scorer!Classifications(w)
<1> DEFINE n == Len(w)
           ws == WINDOW_SECONDS
           velocity == Scorer!VelocityScore(w)
           distinct == Scorer!DistinctFingerprints(w)
           rest == 13 * Scorer!FullScore(w) - Scorer!Untimed(w)
           timed == Scorer!HasTiming(w)
           over == Scorer!Variation(Scorer!InterArrivalTimes(w)).over
           under == Scorer!Variation(Scorer!InterArrivalTimes(w)).under
<1>1. n \in Nat /\ n >= 2 /\ ws \in Nat /\ ws > 0
  BY ScoredAssumption, TimestampsType
<1>2. velocity \in Nat /\ velocity <= n * ws
  BY ScoresType
<1>3. distinct \in {0, 1}
  <2>1. distinct \in 0 .. n /\ n \in Nat
    BY CountsType, Zenon
  <2>2. QED
    BY <2>1
<1>4. Scorer!FullScore(w) = ws * n
  BY <1>1 DEF Scorer!FullScore, Scorer!Larger
<1>5. Scorer!Untimed(w) = 6 * velocity + 6 * (ws * 0) + 3 * (ws * distinct)
  BY ScoresType
<1>6. Scorer!CompareScore(w, 13) = Compared(timed, 4 * velocity, rest, over, under)
  BY ScoreIsCompared
<1> HIDE DEF velocity, distinct, timed, over, under
<1>7. rest > 4 * velocity
  <2>1. rest = 13 * (ws * n) - (6 * velocity + 6 * (ws * 0) + 3 * (ws * distinct))
    BY <1>4, <1>5
  <2>2. PICK full \in Nat : full = ws * n /\ full >= 2 * ws
    <3>1. \A a, b \in Nat : b >= 2 => a * b \in Nat /\ a * b >= 2 * a
      OBVIOUS
    <3>2. QED
      BY <1>1, <3>1
  <2>3. ws * distinct <= ws /\ ws * distinct \in Nat
    BY <1>1, <1>3
  <2>4. rest = 13 * full - 6 * velocity - 3 * (ws * distinct)
    BY <1>1, <1>2, <2>1, <2>2, <2>3
  <2>5. velocity <= full
    BY <1>1, <1>2, <2>2
  <2> HIDE DEF rest
  <2>6. QED
    BY <1>1, <1>2, <2>2, <2>3, <2>4, <2>5
<1>8. rest \in Int
  BY <1>1, <1>2, <1>3, <1>4, <1>5
<1> HIDE DEF rest
<1>9. Compared(timed, 4 * velocity, rest, over, under) < 0
  BY <1>2, <1>7, <1>8 DEF Compared
<1>10. ~Scorer!CanBeAtLeast(w, 13)
  <2>1. Compared(timed, 4 * velocity, rest, over, under) \in Int
    BY <1>2, <1>7, <1>8 DEF Compared
  <2>2. QED
    BY <1>6, <1>9, <2>1 DEF Scorer!CanBeAtLeast
<1>11. QED
  BY <1>10, ClassifiedBy

-----------------------------------------------------------------------------
(* Regular timing. *)

\* The gaps add up to the time from the first row to the last.
LEMMA GapsAddUp ==
  ASSUME NEW w \in Seq(ScoredRows), Len(w) > 1
  PROVE  Scorer!Sum(Scorer!InterArrivalTimes(w)) =
           Scorer!OrderedTimestamps(w)[Len(w)] - Scorer!OrderedTimestamps(w)[1]
<1> DEFINE n == Len(w)
           ordered == Scorer!OrderedTimestamps(w)
           gaps == Scorer!InterArrivalTimes(w)
           sums == Scorer!PartialSums(gaps)
           Right == {k \in 0 .. n - 1 : sums[k] = ordered[k + 1] - ordered[1]}
<1>1. n \in Nat /\ n > 1
  BY TimestampsType
<1>2. ordered \in [1 .. n -> Int]
  BY OrderedPlaces, ObservationAssumption DEF Int64
<1>3. /\ gaps \in Seq(Int) /\ Len(gaps) = n - 1
      /\ \A i \in 1 .. n - 1 : gaps[i] = ordered[i + 1] - ordered[i]
  BY <1>1, GapsType
<1>4. /\ sums \in [0 .. n - 1 -> Int] /\ sums[0] = 0
      /\ \A i \in 1 .. n - 1 : sums[i] = sums[i - 1] + gaps[i]
  BY <1>3, SumRecursion
<1>5. Scorer!Sum(gaps) = sums[n - 1]
  BY <1>3 DEF Scorer!Sum
<1> HIDE DEF n, ordered, gaps, sums
<1>6. 0 \in Right
  BY <1>1, <1>2, <1>4
<1>7. ASSUME NEW k \in 1 .. n - 1, k - 1 \in Right PROVE k \in Right
  <2>1. k \in 1 .. n /\ k + 1 \in 1 .. n /\ 1 \in 1 .. n /\ (k - 1) + 1 = k
    BY <1>1
  <2>2. ordered[k] \in Int /\ ordered[k + 1] \in Int /\ ordered[1] \in Int
    BY <1>2, <2>1
  <2>3. sums[k - 1] = ordered[k] - ordered[1]
    BY <1>7, <2>1
  <2>4. sums[k] = sums[k - 1] + (ordered[k + 1] - ordered[k])
    BY <1>3, <1>4
  <2>5. sums[k] = ordered[k + 1] - ordered[1]
    BY <2>2, <2>3, <2>4
  <2>6. QED
    BY <1>1, <2>5
<1>8. n - 1 \in Right
  <2>1. 0 .. n - 1 \subseteq Right
    <3>1. n - 1 \in Nat
      BY <1>1
    <3> HIDE DEF Right
    <3>2. QED
      BY <1>6, <1>7, <3>1, InductionUpTo
  <2>2. n - 1 \in 0 .. n - 1
    BY <1>1
  <2> HIDE DEF Right
  <2>3. QED
    BY <2>1, <2>2
<1>9. QED
  BY <1>1, <1>5, <1>8 DEF n, ordered, gaps

\* Equal numbers add up to a multiple.
LEMMA SumOfEqual ==
  ASSUME NEW numbers \in Seq(Int), NEW c \in Int,
         \A i \in 1 .. Len(numbers) : numbers[i] = c
  PROVE  Scorer!Sum(numbers) = Len(numbers) * c
<1> DEFINE n == Len(numbers)
           sums == Scorer!PartialSums(numbers)
           Right == {k \in 0 .. n : sums[k] = k * c}
<1>1. n \in Nat /\ \A i \in 1 .. n : numbers[i] = c
  BY LenProperties
<1>2. /\ sums \in [0 .. n -> Int] /\ sums[0] = 0
      /\ \A i \in 1 .. n : sums[i] = sums[i - 1] + numbers[i]
  BY SumRecursion
<1>3. Scorer!Sum(numbers) = sums[n]
  BY DEF Scorer!Sum
<1> HIDE DEF n, sums
<1>4. 0 \in Right
  BY <1>1, <1>2
<1>5. ASSUME NEW k \in 1 .. n, k - 1 \in Right PROVE k \in Right
  <2>1. sums[k] = (k - 1) * c + c
    BY <1>1, <1>2, <1>5
  <2>2. (k - 1) * c + c = k * c
    OBVIOUS
  <2>3. QED
    BY <1>1, <2>1, <2>2
<1>6. n \in Right
  <2>1. 0 .. n \subseteq Right
    <3> HIDE DEF Right
    <3>1. QED
      BY <1>1, <1>4, <1>5, InductionUpTo
  <2>2. n \in 0 .. n
    BY <1>1
  <2> HIDE DEF Right
  <2>3. QED
    BY <2>1, <2>2
<1>7. QED
  BY <1>3, <1>6 DEF n

\* Where std::sort() puts the rows of a window whose timestamps ascend.
LEMMA AscendingIsOrdered ==
  ASSUME NEW w \in Seq(ScoredRows),
         \A i, j \in 1 .. Len(w) : i <= j => w[i].timestamp <= w[j].timestamp
  PROVE  \A k \in 1 .. Len(w) : Scorer!OrderedTimestamps(w)[k] = w[k].timestamp
<1> DEFINE n == Len(w)
           f == [i \in 1 .. n |-> w[i].timestamp]
<1>1. n \in Nat /\ DOMAIN w = 1 .. n /\ \A i \in 1 .. n : w[i].timestamp \in Int
  BY TimestampsType
<1>2. f \in [1 .. n -> Int] /\ \A i \in 1 .. n : f[i] = w[i].timestamp
  BY <1>1
<1>3. \A i, j \in 1 .. n : i <= j => f[i] <= f[j]
  OBVIOUS
<1> HIDE DEF n, f
<1>4. ASSUME NEW k \in 1 .. n PROVE IsAt(w, k, f[k])
  <2>1. /\ Before(w, f[k]) \in SUBSET (1 .. k - 1)
        /\ (1 .. k) \in SUBSET UpTo(w, f[k])
        /\ UpTo(w, f[k]) \in SUBSET DOMAIN w
    <3>1. \A i \in 1 .. n : w[i].timestamp < f[k] => i < k
      BY <1>1, <1>2, <1>3
    <3>2. \A i \in 1 .. k : i \in 1 .. n /\ w[i].timestamp <= f[k]
      BY <1>1, <1>2, <1>3
    <3>3. QED
      BY <1>1, <3>1, <3>2 DEF Before, UpTo
  <2>2. k - 1 \in Nat /\ k \in Nat
    BY <1>1
  <2>3. IsFiniteSet(1 .. k - 1) /\ Cardinality(1 .. k - 1) = k - 1
    BY <2>2, PlacesUpTo
  <2>4. Cardinality(1 .. k) = k
    BY <2>2, PlacesUpTo
  <2>5. /\ Cardinality(Before(w, f[k])) <= Cardinality(1 .. k - 1)
        /\ Cardinality(Before(w, f[k])) \in Nat
    BY <2>1, <2>3, FS_Subset, FS_CardinalityType
  <2>6. /\ Cardinality(1 .. k) <= Cardinality(UpTo(w, f[k]))
        /\ Cardinality(UpTo(w, f[k])) \in 0 .. Len(w)
    BY <2>1, PositionsFinite
  <2>7. QED
    BY <1>1, <2>2, <2>3, <2>4, <2>5, <2>6 DEF IsAt, n
<1>5. Scorer!OrderedTimestamps(w) = f
  BY <1>2, <1>4, OrderedUnique DEF n
<1>6. QED
  BY <1>2, <1>5 DEF n

\* Regular timing adds the most.
LEMMA ComparedFallsWithVariation ==
  ASSUME NEW timed, NEW t \in Int, NEW r \in Int, NEW o \in Nat, NEW u \in Nat
  PROVE  /\ Compared(timed, t, r, o, u) >= 0 => Compared(timed, t, r, 0, u) >= 0
         /\ Compared(timed, t, r, 0, u) <= 0 => Compared(timed, t, r, o, u) <= 0
<1>1. PICK a \in Int : a = (t - r) * (t - r) * u
  OBVIOUS
<1>2. PICK b \in Nat : b = r * r * o
  <2>1. \A x \in Int : x * x \in Nat
    OBVIOUS
  <2>2. \A x, y \in Nat : x * y \in Nat
    OBVIOUS
  <2>3. QED
    BY <2>1, <2>2
<1>3. r * r * 0 = 0
  OBVIOUS
<1>4. CASE timed /\ r > 0 /\ r <= t
  <2>1. Compared(timed, t, r, o, u) = a - b /\ Compared(timed, t, r, 0, u) = a - 0
    BY <1>1, <1>2, <1>3, <1>4 DEF Compared
  <2>2. QED
    BY <2>1
<1>5. CASE ~(timed /\ r > 0 /\ r <= t)
  BY <1>5 DEF Compared
<1>6. QED
  BY <1>4, <1>5

\* The evenly spread window, row by row.
LEMMA EvenRows ==
  ASSUME NEW w \in Seq(ScoredRows), Len(w) > 1,
         (Scorer!OrderedTimestamps(w)[Len(w)] - Scorer!OrderedTimestamps(w)[1])
           % (Len(w) - 1) = 0
  PROVE  LET n == Len(w)
             ordered == Scorer!OrderedTimestamps(w)
         IN  /\ Evenly(w) \in Seq(ScoredRows) /\ Len(Evenly(w)) = n
             /\ \A i \in 1 .. n :
                  /\ Evenly(w)[i].payment_failed = w[i].payment_failed
                  /\ Evenly(w)[i].fingerprint = w[i].fingerprint
             /\ \E step \in Nat :
                  /\ (n - 1) * step = ordered[n] - ordered[1]
                  /\ \A i \in 1 .. n :
                       Evenly(w)[i].timestamp = ordered[1] + (i - 1) * step
<1> DEFINE n == Len(w)
           ordered == Scorer!OrderedTimestamps(w)
           step == (ordered[n] - ordered[1]) \div (n - 1)
<1>1. /\ n \in Nat /\ n > 1 /\ DOMAIN w = 1 .. n
      /\ \A i \in 1 .. n : w[i] \in ScoredRows
  BY TimestampsType, ElementOfSeq
<1>2. /\ ordered \in [1 .. n -> Int64]
      /\ \A k \in 1 .. n : IsAt(w, k, ordered[k])
  BY OrderedPlaces
<1>3. Evenly(w) =
        [i \in 1 .. n |-> [w[i] EXCEPT !.timestamp = ordered[1] + (i - 1) * step]]
  BY <1>1 DEF Evenly
<1>4. (ordered[n] - ordered[1]) % (n - 1) = 0
  OBVIOUS
<1> HIDE DEF n, ordered
<1>5. PICK first \in Int64, last \in Int64 : first = ordered[1] /\ last = ordered[n]
  BY <1>1, <1>2
<1>6. first \in Int /\ last \in Int
  BY ObservationAssumption DEF Int64
<1>7. first <= last
  <2>1. IsAt(w, 1, first) /\ IsAt(w, n, last)
    BY <1>1, <1>2, <1>5
  <2>2. 1 \in Int /\ n \in Int /\ 1 <= n
    BY <1>1
  <2>3. QED
    BY <1>6, <2>1, <2>2, PlacesAscend
<1>8. step \in Nat /\ (n - 1) * step = last - first
  <2>1. \A d \in Nat : \A m \in Nat \ {0} :
          d % m = 0 => d \div m \in Nat /\ m * (d \div m) = d
    OBVIOUS
  <2>2. last - first \in Nat /\ n - 1 \in Nat \ {0} /\ (last - first) % (n - 1) = 0
    BY <1>1, <1>4, <1>5, <1>6, <1>7
  <2>3. step = (last - first) \div (n - 1)
    BY <1>5
  <2> HIDE DEF step
  <2>4. QED
    BY <2>1, <2>2, <2>3
<1> HIDE DEF step
<1>9. ASSUME NEW i \in 1 .. n PROVE first + (i - 1) * step \in Int64
  <2>1. (i - 1) * step \in Nat /\ (i - 1) * step <= (n - 1) * step
    <3>1. \A a, b \in Nat : a <= b => a * step \in Nat /\ a * step <= b * step
      BY <1>8
    <3>2. i - 1 \in Nat /\ n - 1 \in Nat /\ i - 1 <= n - 1
      BY <1>1
    <3>3. QED
      BY <3>1, <3>2
  <2>2. PICK part \in Nat : part = (i - 1) * step
    BY <2>1
  <2>3. part <= last - first
    BY <1>8, <2>1, <2>2
  <2>4. first + part \in Int64
    BY <1>6, <2>3, ObservationAssumption DEF Int64
  <2>5. QED
    BY <2>2, <2>4
<1>10. ASSUME NEW i \in 1 .. n
       PROVE  /\ Evenly(w)[i] \in ScoredRows
              /\ Evenly(w)[i].payment_failed = w[i].payment_failed
              /\ Evenly(w)[i].fingerprint = w[i].fingerprint
              /\ Evenly(w)[i].timestamp = first + (i - 1) * step
  <2>1. PICK t \in Int64 : t = first + (i - 1) * step
    BY <1>9
  <2>2. Evenly(w)[i] = [w[i] EXCEPT !.timestamp = t]
    BY <1>3, <1>5, <2>1
  <2>3. w[i] \in ScoredRows
    BY <1>1
  <2>4. QED
    BY <2>1, <2>2, <2>3 DEF ScoredRows
<1>11. Evenly(w) \in Seq(ScoredRows) /\ Len(Evenly(w)) = n
  <2>1. DOMAIN Evenly(w) = 1 .. n /\ Evenly(w) = [i \in 1 .. n |-> Evenly(w)[i]]
    BY <1>3
  <2>2. Evenly(w) \in [1 .. n -> ScoredRows]
    BY <1>10, <2>1
  <2>3. QED
    BY <1>1, <2>2, FunctionIsSeq
<1>12. QED
  BY <1>5, <1>8, <1>10, <1>11 DEF n, ordered

\* The same rows, spread evenly.
LEMMA RegularityScores ==
  ASSUME NEW w \in Seq(ScoredRows), Len(w) > 1,
         (Scorer!OrderedTimestamps(w)[Len(w)] - Scorer!OrderedTimestamps(w)[1])
           % (Len(w) - 1) = 0
  PROVE  NoCalmer(Evenly(w), w)
<1> DEFINE n == Len(w)
           v == Evenly(w)
           ordered == Scorer!OrderedTimestamps(w)
           gaps == Scorer!InterArrivalTimes(w)
           even == Scorer!InterArrivalTimes(v)
           timed == Scorer!HasTiming(w)
           over == Scorer!Variation(gaps).over
           under == Scorer!Variation(gaps).under
           most == 4 * Scorer!VelocityScore(w)
           rest(k) == k * Scorer!FullScore(w) - Scorer!Untimed(w)
<1>1. /\ n \in Nat /\ n > 1 /\ DOMAIN w = 1 .. n
      /\ \A k \in 1 .. n : ordered[k] \in Int
  <2>1. \A k \in 1 .. n : ordered[k] \in Int64
    BY OrderedPlaces
  <2>2. QED
    BY <2>1, TimestampsType, ObservationAssumption DEF Int64
<1>2. /\ v \in Seq(ScoredRows) /\ Len(v) = n
      /\ \A i \in 1 .. n : /\ v[i].payment_failed = w[i].payment_failed
                           /\ v[i].fingerprint = w[i].fingerprint
  BY EvenRows
<1>3. PICK step \in Nat :
        /\ (n - 1) * step = ordered[n] - ordered[1]
        /\ \A i \in 1 .. n : v[i].timestamp = ordered[1] + (i - 1) * step
  BY EvenRows
<1>4. DOMAIN v = 1 .. n
  BY <1>2, LenProperties
<1> HIDE DEF v, n
<1>5. \A k \in 1 .. n : Scorer!OrderedTimestamps(v)[k] = ordered[1] + (k - 1) * step
  <2>1. ASSUME NEW i \in 1 .. n, NEW j \in 1 .. n, i <= j
        PROVE  v[i].timestamp <= v[j].timestamp
    <3>1. (i - 1) * step <= (j - 1) * step /\ (i - 1) * step \in Int /\ (j - 1) * step \in Int
      <4>1. \A a, b \in Nat : a <= b => a * step <= b * step
        OBVIOUS
      <4>2. i - 1 \in Nat /\ j - 1 \in Nat /\ i - 1 <= j - 1
        BY <1>1, <2>1
      <4>3. QED
        BY <4>1, <4>2
    <3>2. ordered[1] \in Int
      BY <1>1
    <3>3. QED
      BY <1>3, <3>1, <3>2
  <2>2. \A k \in 1 .. n : Scorer!OrderedTimestamps(v)[k] = v[k].timestamp
    BY <1>2, <2>1, AscendingIsOrdered
  <2>3. QED
    BY <1>3, <2>2
<1>6. /\ even \in Seq(Int) /\ Len(even) = n - 1 /\ gaps \in Seq(Int) /\ Len(gaps) = n - 1
      /\ \A i \in 1 .. n - 1 : even[i] = step
  <2>1. /\ even \in Seq(Int) /\ Len(even) = n - 1
        /\ \A i \in 1 .. n - 1 : even[i] =
             Scorer!OrderedTimestamps(v)[i + 1] - Scorer!OrderedTimestamps(v)[i]
    BY <1>1, <1>2, GapsType
  <2>2. gaps \in Seq(Int) /\ Len(gaps) = n - 1
    <3>1. gaps \in Seq(Int) /\ Len(gaps) = IF n = 0 THEN 0 ELSE n - 1
      BY GapsType DEF n
    <3>2. QED
      BY <1>1, <3>1
  <2>3. ASSUME NEW i \in 1 .. n - 1 PROVE even[i] = step
    <3>1. even[i] = (ordered[1] + ((i + 1) - 1) * step) - (ordered[1] + (i - 1) * step)
      BY <1>1, <1>5, <2>1
    <3>2. PICK a \in Int : a = ordered[1]
      BY <1>1
    <3>3. (a + ((i + 1) - 1) * step) - (a + (i - 1) * step) = step
      OBVIOUS
    <3>4. QED
      BY <3>1, <3>2, <3>3
  <2>4. QED
    BY <2>1, <2>2, <2>3
<1> HIDE DEF gaps, even
<1>7. PICK sum \in Int :
        /\ sum = (n - 1) * step /\ Scorer!Sum(even) = sum /\ Scorer!Sum(gaps) = sum
  <2>1. Scorer!Sum(even) = (n - 1) * step
    BY <1>6, SumOfEqual
  <2>2. Scorer!Sum(gaps) = ordered[n] - ordered[1]
    BY GapsAddUp DEF gaps, n
  <2>3. (n - 1) * step \in Int
    BY <1>1
  <2>4. QED
    BY <1>3, <2>1, <2>2, <2>3
<1>8. Scorer!HasTiming(v) <=> timed
  BY <1>6, <1>7 DEF Scorer!HasTiming, even, gaps
<1>9. Scorer!Variation(even).over = 0 /\ Scorer!Variation(even).under = under
  <2>1. Scorer!Sum(Scorer!Squares(even)) = (n - 1) * (step * step)
    <3>1. /\ Scorer!Squares(even) \in Seq(Int) /\ Len(Scorer!Squares(even)) = n - 1
          /\ \A i \in 1 .. n - 1 : Scorer!Squares(even)[i] = step * step
      BY <1>6, SquaresType
    <3>2. step * step \in Int
      OBVIOUS
    <3>3. QED
      BY <3>1, <3>2, SumOfEqual
  <2>2. Scorer!Variation(even).over = (n - 1) * ((n - 1) * (step * step)) - sum * sum
    BY <1>6, <1>7, <2>1 DEF Scorer!Variation
  <2>3. \A m \in Int : m * (m * (step * step)) - (m * step) * (m * step) = 0
    OBVIOUS
  <2>4. n - 1 \in Int
    BY <1>1
  <2>5. Scorer!Variation(even).over = 0
    BY <1>7, <2>2, <2>3, <2>4
  <2>6. Scorer!Variation(even).under = sum * sum /\ under = sum * sum
    BY <1>7 DEF Scorer!Variation
  <2>7. QED
    BY <2>5, <2>6
<1>10. Scorer!FullScore(v) = Scorer!FullScore(w)
       /\ Scorer!VelocityScore(v) = Scorer!VelocityScore(w)
  BY <1>2 DEF Scorer!FullScore, Scorer!VelocityScore, n
<1>11. Scorer!Untimed(v) = Scorer!Untimed(w)
  <2>1. Failed(v) = Failed(w) /\ Used(v) = Used(w)
    BY <1>1, <1>2, <1>4 DEF Failed, Used
  <2>2. QED
    BY <1>2, <1>10, <2>1, CountsAre
       DEF Scorer!Untimed, Scorer!FailureRatioScore, Scorer!FingerprintAnomalyScore
<1>12. over \in Nat /\ under \in Nat
  BY <1>6, VarianceIsNatural
<1>13. ASSUME NEW k \in {6, 13} PROVE NoLess(v, w, k)
  <2>1. rest(k) \in Int /\ most \in Int
    BY ScoresType
  <2>2. Scorer!CompareScore(w, k) = Compared(timed, most, rest(k), over, under)
    BY ScoreIsCompared DEF gaps
  <2>3. Scorer!CompareScore(v, k)
          = Compared(Scorer!HasTiming(v), most, rest(k), Scorer!Variation(even).over,
                     Scorer!Variation(even).under)
    BY <1>10, <1>11, ScoreIsCompared DEF even
  <2>4. Scorer!CompareScore(v, k) = Compared(timed, most, rest(k), 0, under)
    BY <1>8, <1>9, <2>3 DEF Compared
  <2> HIDE DEF rest, most, over, under, timed
  <2>5. /\ Scorer!CompareScore(w, k) >= 0 => Scorer!CompareScore(v, k) >= 0
        /\ Scorer!CompareScore(v, k) <= 0 => Scorer!CompareScore(w, k) <= 0
    BY <1>12, <2>1, <2>2, <2>4, ComparedFallsWithVariation
  <2>6. QED
    BY <2>5 DEF NoLess, Scorer!CanBeAtLeast, Scorer!CanBeBelow
<1>14. QED
  BY <1>2, <1>13, ScoresDecide DEF v

-----------------------------------------------------------------------------
(* evaluate.py: its exact comparison, and its copy of the formula. *)

\* A step of Euclid's algorithm keeps the order of the fractions.
LEMMA EuclidStep ==
  ASSUME NEW a \in Nat, NEW b \in Nat \ {0}, NEW c \in Nat, NEW d \in Nat \ {0}
  PROVE  /\ a \div b # c \div d =>
              Script!Sign(a \div b - c \div d) = Script!Sign(a * d - c * b)
         /\ (a \div b = c \div d /\ (a % b = 0 \/ c % d = 0)) =>
              Script!Sign((a % b) - (c % d)) = Script!Sign(a * d - c * b)
         /\ (a \div b = c \div d /\ ~(a % b = 0 \/ c % d = 0)) =>
              /\ a % b \in Nat \ {0} /\ c % d \in Nat \ {0}
              /\ Script!Sign(d * (a % b) - b * (c % d)) = Script!Sign(a * d - c * b)
              /\ (c % d) + (a % b) < b + d
<1>1. PICK m \in Nat, r \in Nat : m = a \div b /\ r = a % b /\ a = m * b + r /\ r < b
  OBVIOUS
<1>2. PICK n \in Nat, s \in Nat : n = c \div d /\ s = c % d /\ c = n * d + s /\ s < d
  OBVIOUS
<1>3. /\ a * d - c * b = (m * b + r) * d - (n * d + s) * b
      /\ (m * b + r) * d - (n * d + s) * b = (m - n) * (b * d) + (r * d - s * b)
  <2>1. a * d - c * b = (m * b + r) * d - (n * d + s) * b
    BY <1>1, <1>2
  <2>2. (m * b + r) * d - (n * d + s) * b = (m - n) * (b * d) + (r * d - s * b)
    OBVIOUS
  <2>3. QED
    BY <2>1, <2>2
<1>4. /\ r * d \in Nat /\ s * b \in Nat /\ b * d \in Nat
      /\ r * d < b * d /\ s * b < b * d
  <2>1. \A x, y \in Nat : x * y \in Nat
    OBVIOUS
  <2>2. \A x, y \in Nat : \A z \in Nat \ {0} : x < y => x * z < y * z
    OBVIOUS
  <2>3. r * d < b * d /\ s * b < d * b
    BY <1>1, <1>2, <2>2
  <2>4. QED
    BY <2>1, <2>3
<1>5. PICK p \in Nat, q \in Nat, t \in Nat : p = r * d /\ q = s * b /\ t = b * d
  BY <1>4
<1>6. p < t /\ q < t
  BY <1>4, <1>5
<1>7. PICK e \in Int : e = a * d - c * b /\ e = (m - n) * t + (p - q)
  BY <1>3, <1>5
<1>8. m < n => e < 0
  <2>1. SUFFICES ASSUME m < n PROVE e < 0
    OBVIOUS
  <2>2. \A k \in Int : k <= -1 => k * t <= -t
    OBVIOUS
  <2>3. (m - n) * t <= -t
    BY <2>1, <2>2
  <2>4. PICK z \in Int : z = (m - n) * t
    OBVIOUS
  <2>5. QED
    BY <1>6, <1>7, <2>3, <2>4
<1>9. m > n => e > 0
  <2>1. SUFFICES ASSUME m > n PROVE e > 0
    OBVIOUS
  <2>2. \A k \in Int : k >= 1 => k * t >= t
    OBVIOUS
  <2>3. (m - n) * t >= t
    BY <2>1, <2>2
  <2>4. PICK z \in Int : z = (m - n) * t
    OBVIOUS
  <2>5. QED
    BY <1>6, <1>7, <2>3, <2>4
<1>10. m = n => e = p - q
  BY <1>7
<1>11. m # n => Script!Sign(m - n) = Script!Sign(e)
  BY <1>8, <1>9 DEF Script!Sign
<1>12. /\ r = 0 <=> p = 0
       /\ s = 0 <=> q = 0
  <2>1. \A x \in Nat : \A y \in Nat \ {0} : x = 0 <=> x * y = 0
    OBVIOUS
  <2>2. QED
    BY <1>5, <2>1
<1>13. (m = n /\ (r = 0 \/ s = 0)) => Script!Sign(r - s) = Script!Sign(e)
  BY <1>10, <1>12 DEF Script!Sign
<1>14. Script!Sign(d * r - b * s) = Script!Sign(p - q)
  BY <1>5
<1>15. QED
  BY <1>1, <1>2, <1>7, <1>10, <1>11, <1>13, <1>14

\* Euclid's algorithm compares the fractions.
LEMMA FractionsCompare ==
  ASSUME NEW a \in Nat, NEW b \in Nat \ {0}, NEW c \in Nat, NEW d \in Nat \ {0}
  PROVE  Script!CompareFractions[<<a, b, c, d>>] = Script!Sign(a * d - c * b)
<1> DEFINE Pairs == Nat \X (Nat \ {0}) \X Nat \X (Nat \ {0})
           Truth(q) == Script!Sign(q[1] * q[4] - q[3] * q[2])
           Rest(q) == <<q[4], q[3] % q[4], q[2], q[1] % q[2]>>
           Apart(q) == q[1] \div q[2] # q[3] \div q[4]
           Whole(q) == q[1] % q[2] = 0 \/ q[3] % q[4] = 0
           Value(f, q) ==
             IF Apart(q) THEN Script!Sign(q[1] \div q[2] - q[3] \div q[4])
             ELSE IF Whole(q) THEN Script!Sign((q[1] % q[2]) - (q[3] % q[4]))
             ELSE f[Rest(q)]
           Holds(f) == f = [q \in Pairs |-> Value(f, q)]
           truth == [q \in Pairs |-> Truth(q)]
           found == CHOOSE f : Holds(f)
           Size(q) == q[2] + q[4]
<1>1. Script!CompareFractions = found
  BY DEF Script!CompareFractions
<1>2. ASSUME NEW q \in Pairs
      PROVE  /\ Apart(q) => Script!Sign(q[1] \div q[2] - q[3] \div q[4]) = Truth(q)
             /\ ~Apart(q) /\ Whole(q) => Script!Sign((q[1] % q[2]) - (q[3] % q[4])) = Truth(q)
             /\ ~Apart(q) /\ ~Whole(q) =>
                  Rest(q) \in Pairs /\ Truth(Rest(q)) = Truth(q) /\ Size(Rest(q)) < Size(q)
             /\ Size(q) \in Nat
  <2>1. PICK w \in Nat, x \in Nat \ {0}, y \in Nat, z \in Nat \ {0} : q = <<w, x, y, z>>
    OBVIOUS
  <2>2. q[1] = w /\ q[2] = x /\ q[3] = y /\ q[4] = z
    BY <2>1
  <2>3. /\ w \div x # y \div z =>
             Script!Sign(w \div x - y \div z) = Script!Sign(w * z - y * x)
        /\ (w \div x = y \div z /\ (w % x = 0 \/ y % z = 0)) =>
             Script!Sign((w % x) - (y % z)) = Script!Sign(w * z - y * x)
        /\ (w \div x = y \div z /\ ~(w % x = 0 \/ y % z = 0)) =>
             /\ w % x \in Nat \ {0} /\ y % z \in Nat \ {0}
             /\ Script!Sign(z * (w % x) - x * (y % z)) = Script!Sign(w * z - y * x)
             /\ (y % z) + (w % x) < x + z
    BY EuclidStep
  <2>4. Truth(q) = Script!Sign(w * z - y * x)
    BY <2>2
  <2>5. Apart(q) => Script!Sign(q[1] \div q[2] - q[3] \div q[4]) = Truth(q)
    BY <2>2, <2>3, <2>4
  <2>6. ~Apart(q) /\ Whole(q) => Script!Sign((q[1] % q[2]) - (q[3] % q[4])) = Truth(q)
    BY <2>2, <2>3, <2>4
  <2>7. ASSUME ~Apart(q), ~Whole(q)
        PROVE  Rest(q) \in Pairs /\ Truth(Rest(q)) = Truth(q) /\ Size(Rest(q)) < Size(q)
    <3>1. /\ w % x \in Nat \ {0} /\ y % z \in Nat \ {0}
          /\ Script!Sign(z * (w % x) - x * (y % z)) = Script!Sign(w * z - y * x)
          /\ (y % z) + (w % x) < x + z
      BY <2>2, <2>3, <2>7
    <3>2. PICK s \in Nat \ {0}, t \in Nat \ {0} : s = w % x /\ t = y % z
      BY <3>1
    <3>3. Rest(q) = <<z, t, x, s>>
      BY <2>2, <3>2
    <3>4. /\ Rest(q)[1] = z /\ Rest(q)[2] = t /\ Rest(q)[3] = x /\ Rest(q)[4] = s
          /\ Rest(q) \in Pairs
      BY <3>3
    <3> HIDE DEF Rest
    <3>5. QED
      BY <2>2, <2>4, <3>1, <3>2, <3>4
  <2>8. Size(q) \in Nat
    BY <2>2
  <2>9. QED
    BY <2>5, <2>6, <2>7, <2>8
<1> HIDE DEF Truth, Rest, Apart, Whole, Pairs, Size
<1>3. Holds(truth)
  <2>1. ASSUME NEW q \in Pairs PROVE truth[q] = Value(truth, q)
    BY <1>2
  <2>2. truth = [q \in Pairs |-> truth[q]]
    OBVIOUS
  <2> HIDE DEF Value, truth
  <2>3. QED
    BY <2>1, <2>2
<1>4. Holds(found)
  <2> HIDE DEF Holds, truth
  <2>1. QED
    BY <1>3
<1> HIDE DEF found
<1>5. ASSUME NEW q \in Pairs
      PROVE  /\ Apart(q) => found[q] = Script!Sign(q[1] \div q[2] - q[3] \div q[4])
             /\ ~Apart(q) /\ Whole(q) => found[q] = Script!Sign((q[1] % q[2]) - (q[3] % q[4]))
             /\ ~Apart(q) /\ ~Whole(q) => found[q] = found[Rest(q)]
  <2>1. found[q] = Value(found, q)
    <3> HIDE DEF Value
    <3>1. QED
      BY <1>4
  <2>2. QED
    BY <2>1
<1>6. \A q \in Pairs : found[q] = Truth(q)
  <2> DEFINE Wrong == {q \in Pairs : found[q] # Truth(q)}
             Sizes == {Size(q) : q \in Wrong}
  <2>1. SUFFICES ASSUME Wrong # {} PROVE FALSE
    OBVIOUS
  <2>2. Sizes \subseteq Nat /\ Sizes # {}
    BY <1>2, <2>1
  <2>3. PICK k \in Sizes : \A l \in Sizes : k <= l
    <3> HIDE DEF Sizes
    <3>1. QED
      BY <2>2, LeastNatural
  <2>4. PICK q \in Wrong : k = Size(q)
    OBVIOUS
  <2>5. q \in Pairs /\ found[q] # Truth(q)
    OBVIOUS
  <2>6. ~Apart(q) /\ ~Whole(q)
    BY <1>2, <1>5, <2>5
  <2>7. /\ Rest(q) \in Pairs /\ Truth(Rest(q)) = Truth(q)
        /\ Size(Rest(q)) < Size(q) /\ Size(q) \in Nat /\ Size(Rest(q)) \in Nat
    BY <1>2, <2>5, <2>6
  <2>8. found[q] = found[Rest(q)]
    BY <1>5, <2>5, <2>6
  <2>9. Rest(q) \in Wrong
    BY <2>5, <2>7, <2>8
  <2>10. k <= Size(Rest(q))
    BY <2>3, <2>9
  <2>11. QED
    BY <2>4, <2>7, <2>10
<1>7. <<a, b, c, d>> \in Pairs
  BY DEF Pairs
<1>8. Truth(<<a, b, c, d>>) = Script!Sign(a * d - c * b)
  BY DEF Truth
<1>9. QED
  BY <1>1, <1>6, <1>7, <1>8

\* The script adds up as the engine does.
LEMMA TotalIsSum == ASSUME NEW numbers PROVE Script!Total(numbers) = Scorer!Sum(numbers)
BY DEF Script!Total, Scorer!Sum, Scorer!PartialSums

\* The script's scores but the timing, and what it needs of the timing.
LEMMA ScriptScores ==
  ASSUME NEW w \in Seq(ScoredRows)
  PROVE  /\ Script!VelocityScore(Record(w)) = Scorer!VelocityScore(w)
         /\ Script!UntimedScore(Record(w)) = Scorer!Untimed(w)
         /\ Script!HasTiming(Record(w)) <=> Scorer!HasTiming(w)
         /\ \A k : Script!CompareFinalScore(Record(w), k) =
                     Script!CompareTiming(Record(w),
                                          k * Scorer!FullScore(w) - Scorer!Untimed(w))
<1> DEFINE r == Record(w)
           gaps == Scorer!InterArrivalTimes(w)
<1>1. /\ r.request_count = Len(w) /\ r.failure_count = Scorer!FailureCount(w)
      /\ r.distinct_fingerprints = Scorer!DistinctFingerprints(w)
      /\ r.inter_arrival_times = gaps
  BY DEF Record
<1>2. WINDOW_SECONDS \in Nat /\ Len(w) \in Nat
  BY ScoredAssumption, TimestampsType
<1> HIDE DEF r, gaps
<1>3. Script!VelocityScore(r) = Scorer!VelocityScore(w)
  BY <1>1, <1>2
     DEF Script!VelocityScore, Script!clamp_score, Scorer!VelocityScore, Scorer!Smaller
<1>4. Script!UntimedScore(r) = Scorer!Untimed(w)
  <2>1. PICK f \in Nat, d \in Nat :
          f = Scorer!FailureCount(w) /\ d = Scorer!DistinctFingerprints(w)
    <3>1. /\ Len(w) \in Nat /\ Scorer!FailureCount(w) \in 0 .. Len(w)
          /\ Scorer!DistinctFingerprints(w) \in 0 .. Len(w)
      BY CountsType, Zenon
    <3>2. QED
      BY <3>1
  <2>2. PICK v \in Nat : v = Scorer!VelocityScore(w)
    BY ScoresType
  <2>3. Scorer!Untimed(w) = 6 * v + 6 * (WINDOW_SECONDS * f) + 3 * (WINDOW_SECONDS * d)
    BY <2>1, <2>2, ScoresType
  <2>4. Script!UntimedScore(r) = 6 * v + WINDOW_SECONDS * (6 * f + 3 * d)
    BY <1>1, <1>3, <2>1, <2>2 DEF Script!UntimedScore
  <2>5. WINDOW_SECONDS * (6 * f + 3 * d)
          = 6 * (WINDOW_SECONDS * f) + 3 * (WINDOW_SECONDS * d)
    BY <1>2
  <2>6. /\ WINDOW_SECONDS * f \in Nat /\ WINDOW_SECONDS * d \in Nat
    BY <1>2
  <2>7. QED
    BY <2>3, <2>4, <2>5, <2>6
<1>5. Script!HasTiming(r) <=> Scorer!HasTiming(w)
  BY <1>1, TotalIsSum DEF Script!HasTiming, Scorer!HasTiming, gaps
<1>6. ASSUME NEW k
      PROVE  Script!CompareFinalScore(r, k) =
               Script!CompareTiming(r, k * Scorer!FullScore(w) - Scorer!Untimed(w))
  <2>1. WINDOW_SECONDS * (IF r.request_count = 0 THEN 1 ELSE r.request_count)
          = Scorer!FullScore(w)
    BY <1>1, <1>2 DEF Scorer!FullScore, Scorer!Larger
  <2>2. QED
    BY <1>4, <2>1 DEF Script!CompareFinalScore
<1>7. QED
  BY <1>3, <1>4, <1>5, <1>6 DEF r

\* Both copies of the formula say on the same side of a threshold.
LEMMA ScriptCompares ==
  ASSUME NEW w \in Seq(ScoredRows), NEW k \in Nat
  PROVE  /\ Script!CompareFinalScore(Record(w), k) <= 0 <=> Scorer!CanBeBelow(w, k)
         /\ Script!CompareFinalScore(Record(w), k) >= 0 <=> Scorer!CanBeAtLeast(w, k)
<1> DEFINE gaps == Scorer!InterArrivalTimes(w)
           r == Record(w)
<1>1. PICK timed \in BOOLEAN : timed <=> Scorer!HasTiming(w)
  OBVIOUS
<1>2. PICK most \in Nat : most = 4 * Scorer!VelocityScore(w)
  BY ScoresType
<1>3. PICK rest \in Int : rest = k * Scorer!FullScore(w) - Scorer!Untimed(w)
  BY ScoresType
<1>4. PICK over \in Nat, under \in Nat :
        /\ over = Scorer!Variation(gaps).over
        /\ under = Scorer!Variation(gaps).under
  BY GapsType, VarianceIsNatural
<1>5. Scorer!CompareScore(w, k) = Compared(timed, most, rest, over, under)
  BY <1>1, <1>2, <1>3, <1>4, ScoreIsCompared DEF Compared
<1>6. Script!CompareFinalScore(r, k) =
        IF ~timed THEN -rest
        ELSE IF rest <= 0 THEN 1
        ELSE IF most < rest THEN -1
        ELSE Script!CompareFractions[<<(most - rest) * (most - rest), rest * rest,
                                       over, under>>]
  <2>1. Script!CompareFinalScore(r, k) = Script!CompareTiming(r, rest)
    BY <1>3, ScriptScores
  <2>2. /\ 4 * Script!VelocityScore(r) = most
        /\ Script!HasTiming(r) <=> timed
    BY <1>1, <1>2, ScriptScores
  <2>3. /\ r.inter_arrival_times = gaps
        /\ Script!Total(gaps) * Script!Total(gaps) = under
        /\ Len(gaps) * Script!Total([i \in DOMAIN gaps |-> gaps[i] * gaps[i]])
             - Script!Total(gaps) * Script!Total(gaps) = over
    <3>1. Scorer!Squares(gaps) = [i \in DOMAIN gaps |-> gaps[i] * gaps[i]]
      BY DEF Scorer!Squares
    <3>2. /\ under = Scorer!Sum(gaps) * Scorer!Sum(gaps)
          /\ over = Len(gaps) * Scorer!Sum(Scorer!Squares(gaps))
                      - Scorer!Sum(gaps) * Scorer!Sum(gaps)
      BY <1>4 DEF Scorer!Variation
    <3>3. r.inter_arrival_times = gaps
      BY DEF Record
    <3> HIDE DEF gaps, r
    <3>4. /\ Script!Total(gaps) = Scorer!Sum(gaps)
          /\ Script!Total([i \in DOMAIN gaps |-> gaps[i] * gaps[i]])
               = Scorer!Sum(Scorer!Squares(gaps))
      BY <3>1, TotalIsSum
    <3>5. QED
      BY <3>2, <3>3, <3>4
  <2> HIDE DEF r, gaps
  <2>4. QED
    BY <2>1, <2>2, <2>3 DEF Script!CompareTiming
<1>7. timed => under > 0
  <2>1. SUFFICES ASSUME timed PROVE under > 0
    OBVIOUS
  <2>2. Scorer!Sum(gaps) > 0 /\ Scorer!Sum(gaps) \in Int
    BY <1>1, <2>1, GapsType, SumType DEF Scorer!HasTiming
  <2>3. under = Scorer!Sum(gaps) * Scorer!Sum(gaps)
    BY <1>4 DEF Scorer!Variation
  <2>4. \A x \in Int : x > 0 => x * x > 0
    OBVIOUS
  <2> HIDE DEF gaps
  <2>5. QED
    BY <2>2, <2>3, <2>4
<1> HIDE DEF gaps, r
<1>8. CASE timed /\ rest > 0 /\ rest <= most
  <2>1. \A x \in Int : x * x \in Nat /\ (x > 0 => x * x \in Nat \ {0})
    OBVIOUS
  <2>2. PICK a \in Nat : a = (most - rest) * (most - rest)
    BY <2>1
  <2>3. PICK b \in Nat \ {0} : b = rest * rest
    BY <1>8, <2>1
  <2>4. under \in Nat \ {0}
    BY <1>7, <1>8
  <2>5. Script!CompareFinalScore(r, k) = Script!CompareFractions[<<a, b, over, under>>]
    BY <1>6, <1>8, <2>2, <2>3
  <2>6. Script!CompareFinalScore(r, k) = Script!Sign(a * under - over * b)
    BY <2>4, <2>5, FractionsCompare
  <2>7. Scorer!CompareScore(w, k) = a * under - b * over
    BY <1>5, <1>8, <2>2, <2>3 DEF Compared
  <2>8. PICK x \in Int : x = a * under - over * b /\ x = a * under - b * over
    OBVIOUS
  <2>9. Script!CompareFinalScore(r, k) = Script!Sign(x) /\ Scorer!CompareScore(w, k) = x
    BY <2>6, <2>7, <2>8
  <2>10. QED
    BY <2>9 DEF Script!Sign, Scorer!CanBeBelow, Scorer!CanBeAtLeast, r
<1>9. CASE ~(timed /\ rest > 0 /\ rest <= most)
  <2>1. Script!CompareFinalScore(r, k) = Scorer!CompareScore(w, k)
    BY <1>5, <1>6, <1>9 DEF Compared
  <2>2. QED
    BY <2>1 DEF Scorer!CanBeBelow, Scorer!CanBeAtLeast, r
<1>10. QED
  BY <1>8, <1>9

-----------------------------------------------------------------------------
(* The theorems about verdicts. *)

\* The rows of a window can be scored, and have arrived.
LEMMA RowsAreScored ==
  ASSUME IInv
  PROVE  /\ Rows \in Seq(ScoredRows)
         /\ \A i \in DOMAIN Rows : Rows[i].fingerprint # FreshFingerprint
<1>1. Rows \in [1 .. Len(timestamps) -> Observations] /\ Len(timestamps) \in Nat
  BY LenProperties DEF Rows, IInv, TypeOK, RowsAreObservations
<1>2. ASSUME NEW o \in Observations PROVE o \in ScoredRows
  <2>1. /\ o = [timestamp |-> o.timestamp, payment_failed |-> o.payment_failed,
                payment_token |-> o.payment_token, fingerprint |-> o.fingerprint]
        /\ o.timestamp \in Int64 /\ o.payment_failed \in BOOLEAN
    BY ObservationAssumption
  <2>2. o.payment_token \in Tokens /\ o.fingerprint \in Fingerprints
    BY DEF Tokens, Fingerprints
  <2>3. QED
    BY <2>1, <2>2 DEF ScoredRows
<1>3. Rows \in [1 .. Len(timestamps) -> ScoredRows]
  BY <1>1, <1>2
<1>4. Rows \in Seq(ScoredRows)
  BY <1>1, <1>3, FunctionIsSeq
<1>5. \A i \in DOMAIN Rows : Rows[i].fingerprint # FreshFingerprint
  BY <1>1, ScoredAssumption
<1>6. QED
  BY <1>4, <1>5

\* Rows in another order get the same verdict, whatever is in the window.
THEOREM OrderCorrect == Spec => []OrderIrrelevant
<1>1. IInv => OrderIrrelevant
  <2>1. ASSUME IInv PROVE OrderIrrelevant
    BY <2>1, RowsAreScored, OrderScores DEF OrderIrrelevant
  <2>2. QED
    BY <2>1
<1>2. QED
  BY <1>1, IInvCorrect, PTL

\* One more failed payment never makes a source look better.
THEOREM FailureCorrect == Spec => []FailureNeverCalms
<1>1. IInv => FailureNeverCalms
  <2>1. ASSUME IInv PROVE FailureNeverCalms
    BY <2>1, RowsAreScored, FailureScores DEF FailureNeverCalms
  <2>2. QED
    BY <2>1
<1>2. QED
  BY <1>1, IInvCorrect, PTL

\* Nor does one more fingerprint.
THEOREM FingerprintCorrect == Spec => []FingerprintNeverCalms
<1>1. IInv => FingerprintNeverCalms
  <2>1. ASSUME IInv PROVE FingerprintNeverCalms
    BY <2>1, RowsAreScored, FingerprintScores DEF FingerprintNeverCalms
  <2>2. QED
    BY <2>1
<1>2. QED
  BY <1>1, IInvCorrect, PTL

\* Nor do regular gaps.
THEOREM RegularityCorrect == Spec => []RegularityNeverCalms
<1>1. IInv => RegularityNeverCalms
  <2>1. ASSUME IInv PROVE RegularityNeverCalms
    BY <2>1, RowsAreScored, RegularityScores DEF RegularityNeverCalms
  <2>2. QED
    BY <2>1
<1>2. QED
  BY <1>1, IInvCorrect, PTL

\* A customer whose payments go through, with one fingerprint, is no ATTACK,
\* however fast and regular: from the second row on.
THEOREM BusyCustomerCorrect == Spec => []BusyCustomerIsNoAttack
<1>1. IInv => BusyCustomerIsNoAttack
  <2>1. ASSUME IInv PROVE BusyCustomerIsNoAttack
    <3>1. SUFFICES ASSUME Len(Rows) > 1, ~(Scorer!FailureCount(Rows) > 0),
                          ~(Scorer!DistinctFingerprints(Rows) > 1)
                   PROVE  "ATTACK" \notin Scorer!Classifications(Rows)
      BY DEF BusyCustomerIsNoAttack
    <3>2. /\ Len(Rows) \in Nat /\ Scorer!FailureCount(Rows) \in 0 .. Len(Rows)
          /\ Scorer!DistinctFingerprints(Rows) \in 0 .. Len(Rows)
      BY <2>1, RowsAreScored, CountsType, Zenon
    <3>3. Scorer!FailureCount(Rows) = 0 /\ Scorer!DistinctFingerprints(Rows) <= 1
      BY <3>1, <3>2
    <3>4. QED
      BY <2>1, <3>1, <3>3, RowsAreScored, BusyScores
  <2>2. QED
    BY <2>1
<1>2. QED
  BY <1>1, IInvCorrect, PTL

\* What evaluate.py measures is the engine's detector: on every window the two
\* copies of the formula give the same verdict, or verdicts.
THEOREM EvaluatedCorrect == Spec => []EvaluatedAlike
<1>1. ASSUME IInv PROVE EvaluatedAlike
  <2>1. Rows \in Seq(ScoredRows)
    BY <1>1, RowsAreScored
  <2>2. \A k \in {6, 13} :
          /\ Script!CompareFinalScore(Record(Rows), k) <= 0 <=> Scorer!CanBeBelow(Rows, k)
          /\ Script!CompareFinalScore(Record(Rows), k) >= 0 <=> Scorer!CanBeAtLeast(Rows, k)
    BY <2>1, ScriptCompares
  <2>3. /\ "NORMAL" \in Script!RecordClassifications(Record(Rows)) <=>
             Scorer!CanBeBelow(Rows, 6)
        /\ "SUSPICIOUS" \in Script!RecordClassifications(Record(Rows)) <=>
             Scorer!CanBeAtLeast(Rows, 6) /\ Scorer!CanBeBelow(Rows, 13)
        /\ "ATTACK" \in Script!RecordClassifications(Record(Rows)) <=>
             Scorer!CanBeAtLeast(Rows, 13)
        /\ Script!RecordClassifications(Record(Rows))
             \subseteq {"NORMAL", "SUSPICIOUS", "ATTACK"}
    BY <2>2 DEF Script!RecordClassifications
  <2>4. Script!RecordClassifications(Record(Rows)) = Scorer!Classifications(Rows)
    BY <2>3, ClassifiedBy
  <2>5. QED
    BY <2>4 DEF EvaluatedAlike
<1>2. QED
  <2>1. IInv => EvaluatedAlike
    BY <1>1
  <2>2. QED
    BY <2>1, IInvCorrect, PTL

=============================================================================
