--------------------------- MODULE DatasetProofs ---------------------------
(***************************************************************************)
(* Theorems about Dataset, for any number of examples of each category,    *)
(* whatever is drawn for them, and for any seed.                           *)
(*                                                                         *)
(* That a held-out example was not trained on rests on two injections: no  *)
(* example is written twice, and the shuffle takes no two places from the  *)
(* same one.  They meet in the invariant on the two files, which says for  *)
(* each line the place of the schedule it came from; it holds of whichever *)
(* dataset the file was split from, also after that dataset is gone.       *)
(***************************************************************************)
EXTENDS Dataset, FiniteSetTheorems, SequenceTheorems, TLAPS

-----------------------------------------------------------------------------
(* The inductive invariant *)

\* The line is the example that the schedule has there, with something drawn.
Writes(line, place) ==
  /\ line \in Lines
  /\ line.category = place.category
  /\ line.index = place.index

\* The seventy percent of so many records.
Cut(count) == (count * 7) \div 10

ControlTypeOK ==
  /\ program \in {"none", "generating", "generated", "splitting",
                  "train written", "split", "evaluated", "failed"}
  /\ shuffle \in Shuffles
  /\ split_from \in [{"train", "holdout"} -> 0 .. ExampleCount]

\* The first of the three files has the schedule's examples, each at its place.
FullInv ==
  full # Missing \/ program = "generating" =>
    /\ full \in Seq(Lines \cup {Torn})
    /\ Len(full) <= ExampleCount
    /\ \A i \in DOMAIN full : full[i] = Torn \/ Writes(full[i], Schedule[i])

\* What a split reads is whole, and nothing changes it meanwhile.
SplitInv ==
  /\ program \in {"splitting", "train written", "split"} => Readable(full)
  /\ program \in {"train written", "split"} => train = train_records
  /\ program = "split" => holdout = holdout_records

\* Where the lines of the other two come from: the places that the shuffle of
\* that length takes to the front and to the back.
TrainInv ==
  train # Missing =>
    /\ train \in Seq(Lines \cup {Torn})
    /\ Len(train) <= ExampleCount
    /\ LET count == split_from.train
       IN  \A i \in DOMAIN train :
             \/ train[i] = Torn
             \/ /\ i <= Cut(count)
                /\ Writes(train[i], Schedule[shuffle[count][i]])

HoldoutInv ==
  holdout # Missing =>
    /\ holdout \in Seq(Lines \cup {Torn})
    /\ Len(holdout) <= ExampleCount
    /\ LET count == split_from.holdout
       IN  \A i \in DOMAIN holdout :
             \/ holdout[i] = Torn
             \/ /\ Cut(count) + i <= count
                /\ Writes(holdout[i], Schedule[shuffle[count][Cut(count) + i]])

ConfusionTypeOK == confusion \in [{"TP", "TN", "FP", "FN"} -> 0 .. ExampleCount]

IInv == ControlTypeOK /\ ConfusionTypeOK /\ FullInv /\ SplitInv
          /\ TrainInv /\ HoldoutInv

-----------------------------------------------------------------------------
(* The schedule *)

\* The places of the first so many categories.
Places(c) ==
  {place \in [category : 1 .. c, index : Nat \ {0}] : place.index <= Counts[place.category]}

\* The examples of one more category come after those of the ones before, and
\* none of them is among those.
LEMMA OneMoreCategory ==
  ASSUME NEW c \in 1 .. 5, NEW n \in Nat, n = Counts[c],
         NEW s \in Seq(Places(c - 1)), IsInjective(s),
         NEW r, r = [i \in 1 .. n |-> [category |-> c, index |-> i]]
  PROVE  s \o r \in Seq(Places(c)) /\ IsInjective(s \o r)
<1>1. s \in Seq(Places(c)) /\ r \in Seq(Places(c)) /\ Len(r) = n
  <2>1. Places(c - 1) \subseteq Places(c)
    BY DEF Places
  <2>2. \A i \in 1 .. n : [category |-> c, index |-> i] \in Places(c)
    BY DEF Places
  <2>3. r \in [1 .. n -> Places(c)]
    BY <2>2
  <2>4. QED
    BY <2>1, <2>3
<1>2. s \o r \in Seq(Places(c))
  BY <1>1
<1> DEFINE t == s \o r
<1>3. /\ Len(t) = Len(s) + n
      /\ \A i \in 1 .. Len(s) : t[i] = s[i]
      /\ \A i \in Len(s) + 1 .. Len(s) + n :
           t[i].category = c /\ t[i].index = i - Len(s)
  <2>1. \A i \in Len(s) + 1 .. Len(s) + n : i - Len(s) \in 1 .. n
    BY <1>1
  <2>2. \A i \in Len(s) + 1 .. Len(s) + n : t[i] = r[i - Len(s)]
    BY <1>1
  <2>3. QED
    BY <1>1, <2>1, <2>2
<1>4. \A i \in 1 .. Len(s) : t[i].category \in 1 .. c - 1
  <2>1. \A i \in 1 .. Len(s) : s[i] \in Places(c - 1)
    OBVIOUS
  <2>2. QED
    BY <1>3, <2>1 DEF Places
<1>5. DOMAIN t = 1 .. Len(s) + n /\ Len(s) \in Nat
  BY <1>1, <1>2, <1>3
<1>6. \A i, j \in 1 .. Len(s) : s[i] = s[j] => i = j
  BY DEF IsInjective
<1> HIDE DEF t
<1>7. ASSUME NEW i \in DOMAIN t, NEW j \in DOMAIN t, t[i] = t[j] PROVE i = j
  <2>1. CASE i <= Len(s) /\ j <= Len(s)
    BY <1>3, <1>5, <1>6, <1>7, <2>1
  <2>2. CASE i > Len(s) /\ j > Len(s)
    <3>1. i \in Len(s) + 1 .. Len(s) + n /\ j \in Len(s) + 1 .. Len(s) + n
      BY <1>5, <2>2
    <3>2. i - Len(s) = j - Len(s)
      BY <1>3, <1>7, <3>1
    <3>3. QED
      BY <1>5, <3>1, <3>2
  <2>3. CASE i <= Len(s) /\ j > Len(s)
    <3>1. t[i].category \in 1 .. c - 1 /\ t[j].category = c
      BY <1>3, <1>4, <1>5, <2>3
    <3>2. QED
      BY <1>7, <3>1
  <2>4. CASE i > Len(s) /\ j <= Len(s)
    <3>1. t[j].category \in 1 .. c - 1 /\ t[i].category = c
      BY <1>3, <1>4, <1>5, <2>4
    <3>2. QED
      BY <1>7, <3>1
  <2>5. QED
    BY <1>5, <2>1, <2>2, <2>3, <2>4
<1>8. IsInjective(t)
  BY <1>7 DEF IsInjective
<1>9. QED
  BY <1>2, <1>8 DEF t

\* No example is written twice: no two places of the schedule are for the same
\* index of the same category.
LEMMA ScheduleIsInjective ==
  Schedule \in Seq(Places(5)) /\ IsInjective(Schedule)
<1> DEFINE Of(c) == [i \in 1 .. Counts[c] |-> [category |-> c, index |-> i]]
<1>1. \A c \in 1 .. 5 : Counts[c] \in Nat
  BY DatasetAssumption
<1>2. Of(1) \in Seq(Places(1)) /\ IsInjective(Of(1))
  <2>1. \A i \in 1 .. Counts[1] : [category |-> 1, index |-> i] \in Places(1)
    BY <1>1 DEF Places
  <2>2. Of(1) \in [1 .. Counts[1] -> Places(1)]
    BY <2>1
  <2>3. Of(1) \in Seq(Places(1))
    BY <1>1, <2>2
  <2>4. IsInjective(Of(1))
    BY DEF IsInjective
  <2>5. QED
    BY <2>3, <2>4
<1> DEFINE s1 == Of(1)
           s2 == s1 \o Of(2)
           s3 == s2 \o Of(3)
           s4 == s3 \o Of(4)
           s5 == s4 \o Of(5)
<1> DEFINE Right(c, s) == s \in Seq(Places(c)) /\ IsInjective(s)
<1>3. \A c \in 2 .. 5 : \A s : Right(c - 1, s) => Right(c, s \o Of(c))
  <2> SUFFICES ASSUME NEW c \in 2 .. 5, NEW s, Right(c - 1, s)
               PROVE  Right(c, s \o Of(c))
    OBVIOUS
  <2>1. c \in 1 .. 5 /\ Counts[c] \in Nat
    BY <1>1
  <2>2. s \in Seq(Places(c - 1)) /\ IsInjective(s)
    OBVIOUS
  <2> DEFINE r == Of(c)
  <2>3. r = [i \in 1 .. Counts[c] |-> [category |-> c, index |-> i]]
    OBVIOUS
  <2> HIDE DEF r
  <2>4. s \o r \in Seq(Places(c)) /\ IsInjective(s \o r)
    BY <2>1, <2>2, <2>3, OneMoreCategory
  <2>5. QED
    BY <2>4 DEF r
<1>4. Schedule = s5
  BY DEF Schedule
<1>5. Right(1, s1)
  BY <1>2
<1> HIDE DEF Of, Right
<1>6. Right(2, s2) /\ Right(3, s3) /\ Right(4, s4) /\ Right(5, s5)
  <2>1. Right(2, s2)
    BY <1>3, <1>5, 2 - 1 = 1
  <2>2. Right(3, s3)
    BY <1>3, <2>1, 3 - 1 = 2
  <2>3. Right(4, s4)
    BY <1>3, <2>2, 4 - 1 = 3
  <2>4. Right(5, s5)
    BY <1>3, <2>3, 5 - 1 = 4
  <2>5. QED
    BY <2>1, <2>2, <2>3, <2>4
<1>7. QED
  BY <1>4, <1>6 DEF Right

-----------------------------------------------------------------------------
(* What a split writes *)

\* A shuffle of so many places takes each of them to one of its own.
LEMMA ShuffleIsInjective ==
  ASSUME NEW s \in Shuffles, NEW n \in 0 .. ExampleCount
  PROVE  s[n] \in [1 .. n -> 1 .. n] /\ IsInjective(s[n])
BY DatasetAssumption DEF Bijection, Injection

\* The number of examples is one.
LEMMA ExampleCountType == ExampleCount \in Nat
BY ScheduleIsInjective DEF ExampleCount

\* Seventy percent are not more than all.
LEMMA CutBounds ==
  ASSUME NEW n \in Nat
  PROVE  Cut(n) \in 0 .. n
BY DEF Cut

\* The two parts of the shuffled records, line by line.
LEMMA SplitLines ==
  ASSUME ControlTypeOK, FullInv, Readable(full)
  PROVE  LET n == Len(full)
         IN  /\ n \in 0 .. ExampleCount
             /\ shuffled_records \in [1 .. n -> Lines]
             /\ \A i \in 1 .. n :
                  Writes(shuffled_records[i], Schedule[shuffle[n][i]])
             /\ train_records \in Seq(Lines)
             /\ Len(train_records) = Cut(n)
             /\ \A i \in 1 .. Cut(n) : train_records[i] = shuffled_records[i]
             /\ holdout_records \in Seq(Lines)
             /\ Len(holdout_records) = n - Cut(n)
             /\ \A i \in 1 .. n - Cut(n) :
                  holdout_records[i] = shuffled_records[Cut(n) + i]
<1> DEFINE n == Len(full)
           s == shuffled_records
<1>1. /\ full \in Seq(Lines \cup {Torn})
      /\ n \in 0 .. ExampleCount
      /\ \A i \in 1 .. n : full[i] \in Lines /\ Writes(full[i], Schedule[i])
  <2>1. /\ full \in Seq(Lines \cup {Torn})
        /\ n <= ExampleCount
        /\ \A i \in DOMAIN full : full[i] = Torn \/ Writes(full[i], Schedule[i])
    BY DEF FullInv, Readable
  <2>2. \A i \in DOMAIN full : full[i] # Torn
    BY DEF Readable, ToSet
  <2>3. DOMAIN full = 1 .. n /\ n \in Nat
    BY <2>1
  <2>4. QED
    BY <2>1, <2>2, <2>3, ExampleCountType DEF Writes
<1>2. shuffle[n] \in [1 .. n -> 1 .. n]
  BY <1>1, ShuffleIsInjective DEF ControlTypeOK
<1>3. \A i \in 1 .. n : s[i] = full[shuffle[n][i]]
  BY <1>1 DEF shuffled_records
<1>4. s \in [1 .. n -> Lines]
  <2>1. DOMAIN full = 1 .. n
    BY <1>1
  <2>2. \A i \in 1 .. n : full[shuffle[n][i]] \in Lines
    BY <1>1, <1>2
  <2>3. QED
    BY <2>1, <2>2 DEF shuffled_records
<1>5. \A i \in 1 .. n : Writes(s[i], Schedule[shuffle[n][i]])
  BY <1>1, <1>2, <1>3
<1>6. Cut(n) \in 0 .. n /\ train_count = Cut(n)
  BY <1>1, CutBounds, ExampleCountType DEF train_count, Cut
<1>7. s \in Seq(Lines) /\ Len(s) = n
  BY <1>1, <1>4
<1> DEFINE cut == Cut(n)
<1> HIDE DEF n, s, cut
<1>8. /\ train_records \in Seq(Lines)
      /\ Len(train_records) = cut
      /\ \A i \in 1 .. cut : train_records[i] = s[i]
  <2>1. train_records = SubSeq(s, 1, cut)
    BY <1>6 DEF train_records, s, cut
  <2>2. cut \in 0 .. Len(s)
    BY <1>6, <1>7 DEF cut
  <2>3. QED
    BY <1>7, <2>1, <2>2
<1>9. /\ holdout_records \in Seq(Lines)
      /\ Len(holdout_records) = n - cut
      /\ \A i \in 1 .. n - cut : holdout_records[i] = s[cut + i]
  <2>1. holdout_records = SubSeq(s, cut + 1, n)
    BY <1>6 DEF holdout_records, s, cut, n
  <2>2. cut \in 0 .. n /\ n = Len(s) /\ n \in Nat
    BY <1>1, <1>6, <1>7, ExampleCountType DEF cut
  <2>3. QED
    BY <1>7, <2>1, <2>2
<1>10. QED
  BY <1>1, <1>4, <1>5, <1>8, <1>9 DEF n, s, cut

\* What is in a file that was not written to its end: lines of the ones that
\* were to be written, each in its place, but one that may be torn.
LEMMA BrokenLines ==
  ASSUME NEW S, NEW lines \in Seq(S), NEW file \in Broken(lines)
  PROVE  /\ file \in Seq(S \cup {Torn})
         /\ Len(file) <= Len(lines)
         /\ \A i \in DOMAIN file :
              file[i] = Torn \/ (i \in 1 .. Len(lines) /\ file[i] = lines[i])
<1>1. lines \in Seq(S \cup {Torn}) /\ Len(lines) \in Nat /\ DOMAIN lines = 1 .. Len(lines)
  OBVIOUS
<1>2. CASE file = lines
  BY <1>1, <1>2
<1>3. ASSUME NEW n \in 0 .. Len(lines) - 1,
             file = SubSeq(lines, 1, n) \/ file = Append(SubSeq(lines, 1, n), Torn)
      PROVE  /\ file \in Seq(S \cup {Torn})
             /\ Len(file) <= Len(lines)
             /\ \A i \in DOMAIN file :
                  file[i] = Torn \/ (i \in 1 .. Len(lines) /\ file[i] = lines[i])
  <2> DEFINE kept == SubSeq(lines, 1, n)
  <2>1. /\ kept \in Seq(S \cup {Torn})
        /\ Len(kept) = n
        /\ \A i \in 1 .. n : kept[i] = lines[i]
    BY <1>1
  <2> HIDE DEF kept
  <2>2. CASE file = kept
    BY <1>1, <2>1, <2>2
  <2>3. CASE file = Append(kept, Torn)
    <3>1. Len(file) = n + 1 /\ file \in Seq(S \cup {Torn})
      BY <2>1, <2>3
    <3>2. \A i \in 1 .. n + 1 : file[i] = IF i = n + 1 THEN Torn ELSE kept[i]
      BY <2>1, <2>3
    <3>3. QED
      BY <1>1, <2>1, <3>1, <3>2
  <2>4. QED
    BY <1>3, <2>2, <2>3 DEF kept
<1>4. CASE file # lines
  <2>1. PICK n \in 0 .. Len(lines) - 1 :
             file \in {SubSeq(lines, 1, n), Append(SubSeq(lines, 1, n), Torn)}
    BY <1>4, Zenon DEF Broken
  <2>2. QED
    BY <1>3, <2>1
<1>5. QED
  BY <1>2, <1>4

-----------------------------------------------------------------------------
(* The steps *)

\* Nothing is there before the first program has run.
LEMMA InitInv == Init => IInv
<1> SUFFICES ASSUME Init PROVE IInv
  OBVIOUS
<1> USE DEF Init
<1>1. ControlTypeOK
  BY ExampleCountType DEF ControlTypeOK
<1>2. ConfusionTypeOK
  BY ExampleCountType DEF ConfusionTypeOK, NoConfusion
<1>3. FullInv /\ TrainInv /\ HoldoutInv
  BY DEF FullInv, TrainInv, HoldoutInv
<1>4. SplitInv
  BY DEF SplitInv
<1>5. QED
  BY <1>1, <1>2, <1>3, <1>4 DEF IInv

\* A step that leaves the files alone, and neither begins to write the first of
\* them nor goes on with a split.
LEMMA SameFiles ==
  ASSUME IInv, UNCHANGED <<full, train, holdout, shuffle, split_from>>,
         \/ program' \in {"generated", "evaluated", "failed"}
         \/ program' = "splitting" /\ Readable(full),
         ConfusionTypeOK'
  PROVE  IInv'
<1> USE DEF IInv
<1>1. ControlTypeOK'
  BY DEF ControlTypeOK
<1>2. FullInv'
  BY DEF FullInv
<1>3. SplitInv'
  BY DEF SplitInv, Readable
<1>4. TrainInv' /\ HoldoutInv'
  BY DEF TrainInv, HoldoutInv
<1>5. QED
  BY <1>1, <1>2, <1>3, <1>4

\* A step of the generator changes the first file only.
LEMMA SameParts ==
  ASSUME IInv, UNCHANGED <<train, holdout, shuffle, split_from>>,
         program' \in {"generating", "generated", "failed"},
         ConfusionTypeOK', FullInv'
  PROVE  IInv'
<1> USE DEF IInv
<1>1. ControlTypeOK'
  BY DEF ControlTypeOK
<1>2. SplitInv'
  BY DEF SplitInv
<1>3. TrainInv' /\ HoldoutInv'
  BY DEF TrainInv, HoldoutInv
<1>4. QED
  BY <1>1, <1>2, <1>3

\* The matrix of a program that evaluates nothing.
LEMMA NoConfusionType ==
  ASSUME confusion' = NoConfusion \/ (ConfusionTypeOK /\ UNCHANGED confusion)
  PROVE  ConfusionTypeOK'
BY ExampleCountType DEF ConfusionTypeOK, NoConfusion

\* Opening the file empties it.
LEMMA OpenFullStep == IInv /\ OpenFull => IInv'
<1> SUFFICES ASSUME IInv, OpenFull PROVE IInv'
  OBVIOUS
<1>1. ConfusionTypeOK'
  BY NoConfusionType DEF OpenFull
<1>2. FullInv'
  BY ExampleCountType DEF OpenFull, FullInv
<1>3. QED
  BY <1>1, <1>2, SameParts DEF OpenFull, files

\* The line that is added is the example that the schedule has next.
LEMMA WriteExampleStep == IInv /\ WriteExample => IInv'
<1> SUFFICES ASSUME IInv, WriteExample PROVE IInv'
  OBVIOUS
<1>1. ConfusionTypeOK'
  BY NoConfusionType DEF WriteExample, IInv
<1> DEFINE next == Schedule[Len(full) + 1]
<1>2. PICK draw \in DOMAIN Drawn[next.category] :
        full' = Append(full, [category |-> next.category,
                              index |-> next.index, draw |-> draw])
  BY DEF WriteExample
<1> DEFINE line == [category |-> next.category, index |-> next.index, draw |-> draw]
<1>3. /\ full \in Seq(Lines \cup {Torn})
      /\ Len(full) < ExampleCount
      /\ \A i \in DOMAIN full : full[i] = Torn \/ Writes(full[i], Schedule[i])
  BY DEF WriteExample, IInv, FullInv
<1>4. next \in Places(5)
  BY <1>3, ScheduleIsInjective DEF ExampleCount
<1>5. Writes(line, next)
  <2>1. /\ next.category \in 1 .. 5 /\ next.index \in 1 .. Counts[next.category]
    BY <1>4, DatasetAssumption DEF Places
  <2> HIDE DEF next
  <2>2. line \in Lines
    BY <2>1 DEF Lines
  <2>3. QED
    BY <2>2 DEF Writes
<1> HIDE DEF line
<1>6. FullInv'
  <2>1. full' = Append(full, line)
    BY <1>2 DEF line
  <2>2. line \in Lines
    BY <1>5 DEF Writes
  <2>3. /\ full' \in Seq(Lines \cup {Torn})
        /\ Len(full') = Len(full) + 1
        /\ DOMAIN full = 1 .. Len(full) /\ Len(full) \in Nat
        /\ DOMAIN full' = 1 .. Len(full) + 1
        /\ \A i \in 1 .. Len(full) : full'[i] = full[i]
        /\ full'[Len(full) + 1] = line
    BY <1>3, <2>1, <2>2
  <2>4. ASSUME NEW i \in 1 .. Len(full) + 1
        PROVE  full'[i] = Torn \/ Writes(full'[i], Schedule[i])
    <3>1. CASE i = Len(full) + 1
      BY <1>5, <2>3, <3>1
    <3>2. CASE i \in 1 .. Len(full)
      BY <1>3, <2>3, <3>2
    <3>3. QED
      BY <2>3, <3>1, <3>2
  <2>5. Len(full') <= ExampleCount
    BY <1>3, <2>3, ExampleCountType
  <2>6. QED
    BY <2>3, <2>4, <2>5 DEF FullInv
<1>7. QED
  BY <1>1, <1>6, SameParts DEF WriteExample

\* Ended early, the file has a torn line at its end or none.
LEMMA GenerateBreaksStep == IInv /\ GenerateBreaks => IInv'
<1> SUFFICES ASSUME IInv, GenerateBreaks PROVE IInv'
  OBVIOUS
<1>1. ConfusionTypeOK'
  BY NoConfusionType DEF GenerateBreaks, IInv
<1>2. /\ full \in Seq(Lines \cup {Torn})
      /\ Len(full) < ExampleCount
      /\ \A i \in DOMAIN full : full[i] = Torn \/ Writes(full[i], Schedule[i])
  BY DEF GenerateBreaks, IInv, FullInv
<1>3. FullInv'
  <2>1. CASE full' = full
    BY <1>2, <2>1, ExampleCountType DEF FullInv
  <2>2. CASE full' = Append(full, Torn)
    <3>1. /\ full' \in Seq(Lines \cup {Torn})
          /\ Len(full') = Len(full) + 1
          /\ DOMAIN full = 1 .. Len(full) /\ Len(full) \in Nat
          /\ DOMAIN full' = 1 .. Len(full) + 1
          /\ \A i \in 1 .. Len(full) : full'[i] = full[i]
          /\ full'[Len(full) + 1] = Torn
      BY <1>2, <2>2
    <3>2. \A i \in 1 .. Len(full) + 1 :
            full'[i] = Torn \/ Writes(full'[i], Schedule[i])
      BY <1>2, <3>1
    <3>3. Len(full') <= ExampleCount
      BY <1>2, <3>1, ExampleCountType
    <3>4. QED
      BY <3>1, <3>2, <3>3 DEF FullInv
  <2>3. QED
    BY <2>1, <2>2 DEF GenerateBreaks
<1>4. QED
  BY <1>1, <1>3, SameParts DEF GenerateBreaks

\* The training file gets the front of the shuffled records, or some of it.
LEMMA WriteTrainStep == IInv /\ WriteTrain => IInv'
<1> SUFFICES ASSUME IInv, WriteTrain PROVE IInv'
  OBVIOUS
<1> DEFINE n == Len(full)
<1>1. program = "splitting" /\ Readable(full)
  BY DEF WriteTrain, IInv, SplitInv
<1>2. /\ n \in 0 .. ExampleCount
      /\ \A i \in 1 .. n : Writes(shuffled_records[i], Schedule[shuffle[n][i]])
      /\ train_records \in Seq(Lines)
      /\ Len(train_records) = Cut(n)
      /\ \A i \in 1 .. Cut(n) : train_records[i] = shuffled_records[i]
  BY <1>1, SplitLines DEF IInv
<1>3. Cut(n) \in 0 .. n
  BY <1>2, CutBounds, ExampleCountType
<1>4. train' \in Broken(train_records)
  BY DEF WriteTrain, Broken
<1>5. /\ train' \in Seq(Lines \cup {Torn})
      /\ Len(train') <= Len(train_records)
      /\ \A i \in DOMAIN train' :
           train'[i] = Torn
             \/ (i \in 1 .. Len(train_records) /\ train'[i] = train_records[i])
  <2>1. train_records \in Seq(Lines)
    BY <1>2
  <2>2. QED
    <3>1. \A file \in Broken(train_records) :
            /\ file \in Seq(Lines \cup {Torn})
            /\ Len(file) <= Len(train_records)
            /\ \A i \in DOMAIN file :
                 file[i] = Torn \/ ( /\ i \in 1 .. Len(train_records)
                                    /\ file[i] = train_records[i])
      BY <2>1, BrokenLines
    <3>2. QED
      BY <1>4, <3>1
<1>6. /\ split_from \in [{"train", "holdout"} -> 0 .. ExampleCount]
      /\ split_from' = [split_from EXCEPT !.train = n]
      /\ split_from'.train = n /\ split_from'.holdout = split_from.holdout
      /\ UNCHANGED <<full, holdout, shuffle, confusion>>
  BY DEF WriteTrain, IInv, ControlTypeOK
<1>7. TrainInv'
  <2>1. ASSUME NEW i \in DOMAIN train', train'[i] # Torn
        PROVE  i <= Cut(n) /\ Writes(train'[i], Schedule[shuffle[n][i]])
    <3>1. i \in 1 .. Cut(n) /\ train'[i] = shuffled_records[i]
      BY <1>2, <1>5, <2>1
    <3>2. i \in 1 .. n
      BY <1>2, <1>3, <3>1, ExampleCountType
    <3>3. QED
      BY <1>2, <1>3, <3>1, <3>2
  <2>2. Len(train') <= ExampleCount
    <3>1. Len(train') \in Nat
      BY <1>5
    <3>2. QED
      BY <1>2, <1>3, <1>5, <3>1, ExampleCountType
  <2>3. QED
    BY <1>5, <1>6, <2>1, <2>2 DEF TrainInv
<1>8. FullInv'
  <2>1. program' # "generating" /\ full # Missing
    BY <1>1 DEF WriteTrain, Readable
  <2>2. QED
    BY <1>6, <2>1 DEF IInv, FullInv
<1>9. SplitInv'
  <2>1. train_records' = train_records
    BY <1>6 DEF train_records, shuffled_records, train_count
  <2>2. CASE train' = train_records /\ program' = "train written"
    BY <1>1, <1>6, <2>1, <2>2 DEF SplitInv, Readable
  <2>3. CASE program' = "failed"
    BY <2>3 DEF SplitInv
  <2>4. QED
    BY <2>2, <2>3 DEF WriteTrain
<1>10. ControlTypeOK'
  BY <1>2, <1>6 DEF IInv, ControlTypeOK, WriteTrain
<1>11. ConfusionTypeOK'
  BY <1>6 DEF IInv, ConfusionTypeOK
<1>12. HoldoutInv'
  BY <1>6 DEF IInv, HoldoutInv
<1>13. QED
  BY <1>7, <1>8, <1>9, <1>10, <1>11, <1>12 DEF IInv

\* The held-out file gets the back of them, or some of it.
LEMMA WriteHoldoutStep == IInv /\ WriteHoldout => IInv'
<1> SUFFICES ASSUME IInv, WriteHoldout PROVE IInv'
  OBVIOUS
<1> DEFINE n == Len(full)
<1>1. program = "train written" /\ Readable(full) /\ train = train_records
  BY DEF WriteHoldout, IInv, SplitInv
<1>2. /\ n \in 0 .. ExampleCount
      /\ \A i \in 1 .. n : Writes(shuffled_records[i], Schedule[shuffle[n][i]])
      /\ holdout_records \in Seq(Lines)
      /\ Len(holdout_records) = n - Cut(n)
      /\ \A i \in 1 .. n - Cut(n) :
           holdout_records[i] = shuffled_records[Cut(n) + i]
  BY <1>1, SplitLines DEF IInv
<1>3. Cut(n) \in 0 .. n
  BY <1>2, CutBounds, ExampleCountType
<1>4. holdout' \in Broken(holdout_records)
  BY DEF WriteHoldout, Broken
<1>5. /\ holdout' \in Seq(Lines \cup {Torn})
      /\ Len(holdout') <= Len(holdout_records)
      /\ \A i \in DOMAIN holdout' :
           holdout'[i] = Torn
             \/ (i \in 1 .. Len(holdout_records) /\ holdout'[i] = holdout_records[i])
  <2>1. holdout_records \in Seq(Lines)
    BY <1>2
  <2>2. QED
    <3>1. \A file \in Broken(holdout_records) :
            /\ file \in Seq(Lines \cup {Torn})
            /\ Len(file) <= Len(holdout_records)
            /\ \A i \in DOMAIN file :
                 file[i] = Torn \/ ( /\ i \in 1 .. Len(holdout_records)
                                    /\ file[i] = holdout_records[i])
      BY <2>1, BrokenLines
    <3>2. QED
      BY <1>4, <3>1
<1>6. /\ split_from \in [{"train", "holdout"} -> 0 .. ExampleCount]
      /\ split_from' = [split_from EXCEPT !.holdout = n]
      /\ split_from'.holdout = n /\ split_from'.train = split_from.train
      /\ UNCHANGED <<full, train, shuffle, confusion>>
  BY DEF WriteHoldout, IInv, ControlTypeOK
<1>7. HoldoutInv'
  <2>1. ASSUME NEW i \in DOMAIN holdout', holdout'[i] # Torn
        PROVE  /\ Cut(n) + i <= n
               /\ Writes(holdout'[i], Schedule[shuffle[n][Cut(n) + i]])
    <3>1. i \in 1 .. n - Cut(n) /\ holdout'[i] = shuffled_records[Cut(n) + i]
      BY <1>2, <1>5, <2>1
    <3>2. Cut(n) + i \in 1 .. n
      BY <1>2, <1>3, <3>1, ExampleCountType
    <3>3. QED
      BY <1>2, <1>3, <3>1, <3>2
  <2>2. Len(holdout') <= ExampleCount
    <3>1. Len(holdout') \in Nat
      BY <1>5
    <3>2. QED
      BY <1>2, <1>3, <1>5, <3>1, ExampleCountType
  <2>3. QED
    BY <1>5, <1>6, <2>1, <2>2 DEF HoldoutInv
<1>8. FullInv'
  <2>1. program' # "generating" /\ full # Missing
    BY <1>1 DEF WriteHoldout, Readable
  <2>2. QED
    BY <1>6, <2>1 DEF IInv, FullInv
<1>9. SplitInv'
  <2>1. train_records' = train_records /\ holdout_records' = holdout_records
    BY <1>6 DEF train_records, holdout_records, shuffled_records, train_count
  <2>2. CASE holdout' = holdout_records /\ program' = "split"
    BY <1>1, <1>6, <2>1, <2>2 DEF SplitInv, Readable
  <2>3. CASE program' = "failed"
    BY <2>3 DEF SplitInv
  <2>4. QED
    BY <2>2, <2>3 DEF WriteHoldout
<1>10. ControlTypeOK'
  BY <1>2, <1>6 DEF IInv, ControlTypeOK, WriteHoldout
<1>11. ConfusionTypeOK'
  BY <1>6 DEF IInv, ConfusionTypeOK
<1>12. TrainInv'
  BY <1>6 DEF IInv, TrainInv
<1>13. QED
  BY <1>7, <1>8, <1>9, <1>10, <1>11, <1>12 DEF IInv

\* Each of the four counts is of lines of the held-out file.
LEMMA EvaluateStep == IInv /\ Evaluate => IInv'
<1> SUFFICES ASSUME IInv, Evaluate PROVE IInv'
  OBVIOUS
<1>1. holdout \in Seq(Lines \cup {Torn}) /\ Len(holdout) <= ExampleCount
  BY DEF Evaluate, Readable, IInv, HoldoutInv
<1>2. ASSUME NEW T \in SUBSET DOMAIN holdout
      PROVE  Cardinality(T) \in 0 .. ExampleCount
  <2>1. DOMAIN holdout = 1 .. Len(holdout) /\ Len(holdout) \in Nat
    BY <1>1
  <2>2. IsFiniteSet(DOMAIN holdout) /\ Cardinality(DOMAIN holdout) = Len(holdout)
    BY <2>1, FS_Interval
  <2>3. IsFiniteSet(T) /\ Cardinality(T) <= Len(holdout)
    BY <2>2, FS_Subset
  <2>4. Cardinality(T) \in Nat
    BY <2>3, FS_CardinalityType
  <2>5. QED
    BY <1>1, <2>1, <2>3, <2>4, ExampleCountType
<1>3. ConfusionTypeOK'
  <2>1. PICK predicted \in [DOMAIN holdout -> {"NORMAL", "ATTACK"}] :
          LET HowMany(true_label, label) ==
                Cardinality({i \in DOMAIN holdout :
                               /\ TrueLabel(holdout[i]) = true_label
                               /\ predicted[i] = label})
          IN  confusion' = [TP |-> HowMany("ATTACK", "ATTACK"),
                            TN |-> HowMany("NORMAL", "NORMAL"),
                            FP |-> HowMany("NORMAL", "ATTACK"),
                            FN |-> HowMany("ATTACK", "NORMAL")]
    BY DEF Evaluate
  <2> DEFINE HowMany(true_label, label) ==
               Cardinality({i \in DOMAIN holdout :
                              /\ TrueLabel(holdout[i]) = true_label
                              /\ predicted[i] = label})
  <2>2. \A true_label, label : HowMany(true_label, label) \in 0 .. ExampleCount
    BY <1>2
  <2>3. confusion' = [TP |-> HowMany("ATTACK", "ATTACK"),
                      TN |-> HowMany("NORMAL", "NORMAL"),
                      FP |-> HowMany("NORMAL", "ATTACK"),
                      FN |-> HowMany("ATTACK", "NORMAL")]
    BY <2>1
  <2> HIDE DEF HowMany
  <2>4. QED
    BY <2>2, <2>3, ExampleCountType DEF ConfusionTypeOK
<1>4. QED
  BY <1>3, SameFiles DEF Evaluate, files

\* The other steps open or write nothing.
LEMMA OtherSteps ==
  IInv /\ (FailsAtOnce \/ GenerateReturns \/ ReadFull) => IInv'
<1> SUFFICES ASSUME IInv, FailsAtOnce \/ GenerateReturns \/ ReadFull PROVE IInv'
  OBVIOUS
<1>1. ConfusionTypeOK'
  BY NoConfusionType DEF FailsAtOnce, GenerateReturns, ReadFull, IInv
<1>2. QED
  BY <1>1, SameFiles DEF FailsAtOnce, GenerateReturns, ReadFull, files

\* The invariant is inductive.
LEMMA NextInv == IInv /\ [Next]_vars => IInv'
<1> SUFFICES ASSUME IInv, [Next]_vars PROVE IInv'
  OBVIOUS
<1>1. CASE UNCHANGED vars
  BY <1>1 DEF vars, files, IInv, ControlTypeOK, ConfusionTypeOK, FullInv, SplitInv,
       TrainInv, HoldoutInv, Readable, train_records, holdout_records,
       shuffled_records, train_count
<1>2. CASE Next
  BY <1>2, OpenFullStep, WriteExampleStep, GenerateBreaksStep, WriteTrainStep,
     WriteHoldoutStep, EvaluateStep, OtherSteps DEF Next
<1>3. QED
  BY <1>1, <1>2

-----------------------------------------------------------------------------
(* The properties *)

\* Each line of each file is at every moment either torn or the example of a
\* known place of the schedule, whichever programs ran, failed or were killed.
THEOREM IInvCorrect == Spec => []IInv
BY InitInv, NextInv, PTL DEF Spec

\* Each of the three files holds lines and torn lines, no more than there are
\* examples, and each line is of an example that its category can draw; no count
\* of the matrix is more than there are examples.
THEOREM TypeCorrect == Spec => []TypeOK
<1>1. IInv => TypeOK
  BY DEF IInv, TypeOK, ControlTypeOK, ConfusionTypeOK, FullInv, TrainInv, HoldoutInv
<1>2. QED
  BY <1>1, IInvCorrect, PTL

\* After a split each example is in one of the two files, once: they are two
\* parts of one list, and the shuffle reaches every place of what was read.
THEOREM SplitCorrect == Spec => []SplitKeepsRecords
<1>1. ASSUME IInv, program = "split" PROVE SplitKeepsRecords
  <2> DEFINE n == Len(full)
             s == shuffle[n]
  <2>1. Readable(full) /\ train = train_records /\ holdout = holdout_records
    BY <1>1 DEF IInv, SplitInv
  <2>2. /\ n \in 0 .. ExampleCount
        /\ shuffled_records \in [1 .. n -> Lines]
        /\ train \in Seq(Lines) /\ Len(train) = Cut(n)
        /\ \A i \in 1 .. Cut(n) : train[i] = shuffled_records[i]
        /\ holdout \in Seq(Lines) /\ Len(holdout) = n - Cut(n)
        /\ \A i \in 1 .. n - Cut(n) : holdout[i] = shuffled_records[Cut(n) + i]
    BY <1>1, <2>1, SplitLines DEF IInv
  <2>3. Cut(n) \in 0 .. n /\ n \in Nat
    BY <2>2, CutBounds, ExampleCountType
  <2>4. full \in Seq(Lines \cup {Torn}) /\ DOMAIN full = 1 .. n
    BY <1>1, <2>1 DEF IInv, FullInv, Readable
  <2>5. s \in Surjection(1 .. n, 1 .. n)
    BY <1>1, <2>2, DatasetAssumption DEF IInv, ControlTypeOK, Bijection
  <2>6. \A i \in 1 .. n : shuffled_records[i] = full[s[i]]
    BY <2>4 DEF shuffled_records
  <2>7. DOMAIN train = 1 .. Cut(n) /\ DOMAIN holdout = 1 .. n - Cut(n)
    BY <2>2
  <2> HIDE DEF n, s
  <2>8. ToSet(train) \cup ToSet(holdout) \subseteq ToSet(full)
    <3>1. ASSUME NEW i \in 1 .. n PROVE shuffled_records[i] \in ToSet(full)
      BY <2>4, <2>5, <2>6 DEF ToSet, Surjection
    <3>2. \A i \in 1 .. Cut(n) : i \in 1 .. n
      BY <2>3
    <3>3. \A i \in 1 .. n - Cut(n) : Cut(n) + i \in 1 .. n
      BY <2>3
    <3>4. ToSet(train) \subseteq ToSet(full)
      BY <2>2, <2>7, <3>1, <3>2 DEF ToSet
    <3>5. ToSet(holdout) \subseteq ToSet(full)
      BY <2>2, <2>7, <3>1, <3>3 DEF ToSet
    <3>6. QED
      BY <3>4, <3>5
  <2>9. ToSet(full) \subseteq ToSet(train) \cup ToSet(holdout)
    <3>1. SUFFICES ASSUME NEW j \in 1 .. n
                   PROVE  full[j] \in ToSet(train) \cup ToSet(holdout)
      BY <2>4 DEF ToSet
    <3>2. PICK i \in 1 .. n : s[i] = j
      BY <2>5 DEF Surjection
    <3>3. CASE i <= Cut(n)
      <4>1. i \in DOMAIN train /\ train[i] = full[j]
        BY <2>2, <2>3, <2>6, <2>7, <3>2, <3>3
      <4>2. QED
        BY <4>1 DEF ToSet
    <3>4. CASE i > Cut(n)
      <4>1. i - Cut(n) \in 1 .. n - Cut(n) /\ Cut(n) + (i - Cut(n)) = i
        BY <2>3, <3>4
      <4>2. i - Cut(n) \in DOMAIN holdout /\ holdout[i - Cut(n)] = full[j]
        BY <2>2, <2>6, <2>7, <3>2, <4>1
      <4>3. QED
        BY <4>2 DEF ToSet
    <3>5. QED
      BY <2>3, <3>3, <3>4
  <2>10. Len(train) + Len(holdout) = n
    BY <2>2, <2>3
  <2>11. QED
    BY <2>8, <2>9, <2>10 DEF SplitKeepsRecords, n
<1>2. IInv => SplitKeepsRecords
  BY <1>1 DEF SplitKeepsRecords
<1>3. QED
  BY <1>2, IInvCorrect, PTL

\* No source is in both files, as long as both come from as many records: the
\* lines of the two come from different places of one shuffle, those from
\* different places of the schedule, and those have different examples.
THEOREM HoldoutCorrect == Spec => []HoldoutIsNotTrained
<1>1. ASSUME IInv, train # Missing, holdout # Missing,
             split_from.train = split_from.holdout,
             NEW source \in Sources(train) \cap Sources(holdout)
      PROVE  FALSE
  <2> DEFINE n == split_from.train
             s == shuffle[n]
  <2>1. n \in 0 .. ExampleCount /\ n \in Nat
    <3>1. ControlTypeOK
      BY <1>1 DEF IInv
    <3>2. split_from \in [{"train", "holdout"} -> 0 .. ExampleCount]
      BY <3>1 DEF ControlTypeOK
    <3>3. n \in 0 .. ExampleCount
      BY <3>2
    <3>4. QED
      BY <3>3, ExampleCountType
  <2>2. s \in [1 .. n -> 1 .. n] /\ IsInjective(s)
    BY <1>1, <2>1, ShuffleIsInjective DEF IInv, ControlTypeOK
  <2>3. PICK i \in DOMAIN train :
          train[i] # Torn /\ source = <<train[i].category, train[i].index>>
    BY <1>1 DEF Sources, ToSet
  <2>4. PICK j \in DOMAIN holdout :
          holdout[j] # Torn /\ source = <<holdout[j].category, holdout[j].index>>
    BY <1>1 DEF Sources, ToSet
  <2>5. Cut(n) \in 0 .. n
    BY <2>1, CutBounds
  <2>6. i \in 1 .. n /\ i <= Cut(n) /\ Writes(train[i], Schedule[s[i]])
    <3>1. i \in Nat \ {0} /\ i <= Cut(n) /\ Writes(train[i], Schedule[s[i]])
      BY <1>1, <2>3 DEF IInv, TrainInv
    <3>2. QED
      BY <2>1, <2>5, <3>1
  <2> DEFINE k == Cut(n) + j
  <2>7. k \in 1 .. n /\ k > Cut(n) /\ Writes(holdout[j], Schedule[s[k]])
    <3>1. j \in Nat \ {0} /\ k <= n /\ Writes(holdout[j], Schedule[s[k]])
      BY <1>1, <2>4 DEF IInv, HoldoutInv
    <3>2. QED
      BY <2>1, <2>5, <3>1
  <2>8. s[i] # s[k]
    <3>1. i # k
      BY <2>1, <2>5, <2>6, <2>7
    <3>2. QED
      BY <2>2, <2>6, <2>7, <3>1 DEF IsInjective
  <2>9. s[i] \in DOMAIN Schedule /\ s[k] \in DOMAIN Schedule
    <3>1. s[i] \in 1 .. n /\ s[k] \in 1 .. n
      BY <2>2, <2>6, <2>7
    <3>2. DOMAIN Schedule = 1 .. ExampleCount
      BY ScheduleIsInjective DEF ExampleCount
    <3>3. QED
      BY <2>1, <3>1, <3>2, ExampleCountType
  <2>10. Schedule[s[i]] = Schedule[s[k]]
    <3>1. Schedule[s[i]] \in Places(5) /\ Schedule[s[k]] \in Places(5)
      BY <2>9, ScheduleIsInjective
    <3>2. /\ Schedule[s[i]].category = Schedule[s[k]].category
          /\ Schedule[s[i]].index = Schedule[s[k]].index
      BY <2>3, <2>4, <2>6, <2>7 DEF Writes
    <3>3. QED
      BY <3>1, <3>2 DEF Places
  <2>11. QED
    BY <2>8, <2>9, <2>10, ScheduleIsInjective DEF IsInjective
<1>2. IInv => HoldoutIsNotTrained
  BY <1>1 DEF HoldoutIsNotTrained
<1>3. QED
  BY <1>2, IInvCorrect, PTL

-----------------------------------------------------------------------------
(* The evaluation *)

\* Whatever is drawn for it, a bot has at least sixty requests, and these alone
\* weigh as much as the threshold; its fingerprints lift it above, so that neither
\* its failures nor its gaps matter.
LEMMA BotIsNotNormal ==
  ASSUME WINDOW_SECONDS \in 1 .. 60,
         NEW c \in 1 .. 5, categories[c].attack_label,
         NEW record, MayReturn(categories[c], record)
  PROVE  "NORMAL" \notin RecordClassifications(record)
<1>1. c \in {3, 5}
  BY DEF categories, Category
<1>2. /\ categories[c].requests = 60 .. 100
      /\ categories[c].distinct_fingerprint_count \in {2, 60}
  BY <1>1 DEF categories, Category
<1>3. /\ record.request_count \in 60 .. 100
      /\ record.failure_count \in Nat
      /\ record.distinct_fingerprints \in {2, 60}
  <2>1. PICK requests \in 60 .. 100 :
          record \in
            [request_count : {requests}, failure_count : 0 .. requests,
             distinct_fingerprints :
               {Min({categories[c].distinct_fingerprint_count, requests})},
             inter_arrival_times : [1 .. requests - 1 -> categories[c].interval]]
    BY <1>2 DEF MayReturn
  <2>2. \A a, b \in Nat : a <= b => Min({a, b}) = a
    BY DEF Min
  <2>3. Min({categories[c].distinct_fingerprint_count, requests}) \in {2, 60}
    BY <1>2, <2>2
  <2> DEFINE smaller == Min({categories[c].distinct_fingerprint_count, requests})
             gaps == [1 .. requests - 1 -> categories[c].interval]
  <2> HIDE DEF smaller, gaps
  <2>4. record \in [request_count : {requests}, failure_count : 0 .. requests,
                    distinct_fingerprints : {smaller}, inter_arrival_times : gaps]
    BY <2>1 DEF smaller, gaps
  <2>5. /\ record.request_count = requests /\ record.failure_count \in 0 .. requests
        /\ record.distinct_fingerprints = smaller
    BY <2>4
  <2>6. QED
    BY <2>3, <2>5 DEF smaller
<1> DEFINE r == record.request_count
           needed == 6 * (WINDOW_SECONDS * r) - UntimedScore(record)
<1>4. VelocityScore(record) = r * WINDOW_SECONDS
  <2>1. r >= WINDOW_SECONDS /\ r \in Nat
    BY <1>3
  <2>2. QED
    BY <2>1 DEF VelocityScore, clamp_score
<1>5. needed < 0 /\ needed \in Int
  <2> DEFINE extra == 6 * record.failure_count + 3 * record.distinct_fingerprints
  <2>1. extra \in Nat /\ extra >= 1
    BY <1>3
  <2>2. r \in Nat
    BY <1>3
  <2>3. UntimedScore(record) = 6 * (r * WINDOW_SECONDS) + WINDOW_SECONDS * extra
    BY <1>4 DEF UntimedScore
  <2> HIDE DEF extra
  <2>4. WINDOW_SECONDS * extra >= 1 /\ WINDOW_SECONDS * extra \in Nat
    BY <2>1
  <2>5. r * WINDOW_SECONDS = WINDOW_SECONDS * r /\ WINDOW_SECONDS * r \in Nat
    BY <2>2
  <2>6. QED
    BY <2>3, <2>4, <2>5
<1>6. CompareFinalScore(record, 6) = CompareTiming(record, needed)
  <2>1. r # 0
    BY <1>3
  <2>2. QED
    BY <2>1 DEF CompareFinalScore
<1>7. CompareTiming(record, needed) \in {1, -needed}
  <2> HIDE DEF needed
  <2>1. needed <= 0
    BY <1>5
  <2>2. CASE HasTiming(record)
    BY <2>1, <2>2, Zenon DEF CompareTiming
  <2>3. CASE ~HasTiming(record)
    BY <2>3, Zenon DEF CompareTiming
  <2>4. QED
    BY <2>2, <2>3
<1>8. ~(CompareFinalScore(record, 6) <= 0)
  <2> HIDE DEF needed
  <2>1. QED
    BY <1>5, <1>6, <1>7
<1>9. QED
  BY <1>8 DEF RecordClassifications

\* No bot is missed: with a window of at most sixty seconds, the one there is,
\* the evaluation has no false negative on any dataset that the generator can
\* write: every number of requests and failures and every gap of the ranges is
\* allowed for, the file may be whole or cut short, with any number of examples
\* and any seed.
THEOREM AttackCorrect ==
  ASSUME WINDOW_SECONDS \in 1 .. 60
  PROVE  Spec => []AttackIsNeverMissed
<1>1. Init => AttackIsNeverMissed
  BY DEF Init, NoConfusion, AttackIsNeverMissed
<1>2. IInv /\ AttackIsNeverMissed /\ [Next]_vars => AttackIsNeverMissed'
  <2> SUFFICES ASSUME IInv, AttackIsNeverMissed, [Next]_vars
               PROVE  confusion'.FN = 0
    BY DEF AttackIsNeverMissed
  <2>1. CASE confusion' \in {confusion, NoConfusion}
    BY <2>1 DEF AttackIsNeverMissed, NoConfusion
  <2>2. CASE Evaluate
    <3> DEFINE Missed(predicted) ==
                 {i \in DOMAIN holdout : /\ TrueLabel(holdout[i]) = "ATTACK"
                                         /\ predicted[i] = "NORMAL"}
    <3>1. PICK predicted \in [DOMAIN holdout -> {"NORMAL", "ATTACK"}] :
            /\ \A i \in DOMAIN holdout :
                 predicted[i] \in Predictions[holdout[i].category][holdout[i].draw]
            /\ LET HowMany(true_label, label) ==
                     Cardinality({i \in DOMAIN holdout :
                                    /\ TrueLabel(holdout[i]) = true_label
                                    /\ predicted[i] = label})
               IN  confusion' = [TP |-> HowMany("ATTACK", "ATTACK"),
                                 TN |-> HowMany("NORMAL", "NORMAL"),
                                 FP |-> HowMany("NORMAL", "ATTACK"),
                                 FN |-> HowMany("ATTACK", "NORMAL")]
      BY <2>2, Zenon DEF Evaluate
    <3>2. ASSUME NEW i \in DOMAIN holdout, TrueLabel(holdout[i]) = "ATTACK",
                 predicted[i] = "NORMAL"
          PROVE  FALSE
      <4> DEFINE c == holdout[i].category
                 draw == holdout[i].draw
      <4>1. c \in 1 .. 5 /\ draw \in DOMAIN Drawn[c]
        <5>1. holdout \in Seq(Lines \cup {Torn}) /\ holdout[i] # Torn
          BY <2>2, <3>2 DEF Evaluate, Readable, IInv, HoldoutInv, ToSet
        <5>2. holdout[i] \in Lines
          BY <3>2, <5>1
        <5>3. QED
          BY <5>2 DEF Lines
      <4>2. categories[c].attack_label
        BY <3>2 DEF TrueLabel
      <4>3. MayReturn(categories[c], Drawn[c][draw])
        BY <4>1, DatasetAssumption
      <4>4. predicted[i] \in Predictions[c][draw]
        BY <3>1
      <4> HIDE DEF c, draw
      <4>5. PICK classification \in RecordClassifications(Drawn[c][draw]) :
              predicted[i] = predicted_label(classification)
        BY <4>1, <4>4 DEF Predictions
      <4>6. classification # "NORMAL"
        BY <4>1, <4>2, <4>3, <4>5, BotIsNotNormal
      <4>7. QED
        BY <3>2, <4>5, <4>6 DEF predicted_label
    <3>3. Missed(predicted) = {}
      BY <3>2
    <3>4. confusion'.FN = Cardinality(Missed(predicted))
      BY <3>1
    <3>5. QED
      BY <3>3, <3>4, FS_EmptySet
  <2>3. QED
    BY <2>1, <2>2 DEF Next, vars, FailsAtOnce, OpenFull, WriteExample, GenerateReturns,
         GenerateBreaks, ReadFull, WriteTrain, WriteHoldout
<1>3. QED
  BY <1>1, <1>2, IInvCorrect, PTL DEF Spec

=============================================================================
