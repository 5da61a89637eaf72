------------------------------ MODULE Dataset ------------------------------
(***************************************************************************)
(* The three programs that make and use the dataset, run by hand in any    *)
(* order and any number of times, one at a time: the generator in          *)
(* simulator/main.cpp (--mode dataset-gen), scripts/split_dataset.py and   *)
(* scripts/evaluate.py.  They share three files.  Any of them can be       *)
(* killed, and the disk can be full, between any two bytes.                *)
(*                                                                         *)
(* A line of a file is the example it holds, as its category, its index    *)
(* and which of the examples of the category was drawn; a line cut short   *)
(* is Torn.                                                                *)
(***************************************************************************)
EXTENDS Evaluation, FiniteSets

CONSTANTS
  Counts,    \* examples of each category: <<30, 10, 20, 10, 10>> in the code
  Tick,      \* unit of time: so many milliseconds, 1 in the code
  Drawn,     \* for each category, what each draw of the generator makes
  Shuffles,  \* what random.Random(SEED).shuffle() may be for a SEED: for each
             \* length, the place each element comes from
  Missing,   \* a file that does not exist
  Torn       \* a line that is not complete

Milliseconds(from, to) == (from \div Tick) .. (to \div Tick)

\* The table of generate_dataset(), with the ranges and parameters that
\* make_dataset_example() has for each name.
Category(name, attack_label, requests, interval, fingerprints) ==
  [name |-> name, attack_label |-> attack_label, requests |-> requests,
   interval |-> interval, distinct_fingerprint_count |-> fingerprints]

categories ==
  << Category("normal", FALSE, 8 .. 20, Milliseconds(2500, 8000), 1),
     Category("legitimate_high_volume", FALSE, 40 .. 70, Milliseconds(700, 1800), 1),
     Category("card_testing_bot", TRUE, 60 .. 100, Milliseconds(50, 200), 60),
     Category("slow_high_failure", FALSE, 5 .. 12, Milliseconds(8000, 15000), 1),
     Category("regular_low_failure_bot", TRUE, 60 .. 100, Milliseconds(100, 100), 2) >>

\* What make_dataset_example() may return.  The requests and each gap are drawn
\* evenly from their ranges; of the failures, which are binomial, any number can
\* come.
MayReturn(category, example) ==
  \E requests \in category.requests :
    example \in
      [request_count : {requests}, failure_count : 0 .. requests,
       distinct_fingerprints : {Min({category.distinct_fingerprint_count, requests})},
       inter_arrival_times : [1 .. requests - 1 -> category.interval]]

\* Mutant: `int index = 0`.
ScheduleFromZero ==
  LET Of(c) == [i \in 1 .. Counts[c] |-> [category |-> c, index |-> i - 1]]
  IN  Of(1) \o Of(2) \o Of(3) \o Of(4) \o Of(5)

\* The examples in the order in which they are written.
Schedule ==
  LET Of(c) == [i \in 1 .. Counts[c] |-> [category |-> c, index |-> i]]
  IN  Of(1) \o Of(2) \o Of(3) \o Of(4) \o Of(5)

ExampleCount == Len(Schedule)

ASSUME DatasetAssumption ==
  /\ Counts \in [1 .. 5 -> Nat]
  /\ Tick \in Nat \ {0} /\ 50 % Tick = 0
  /\ DOMAIN Drawn = 1 .. 5
  /\ \A c \in 1 .. 5 :
       /\ DOMAIN Drawn[c] # {}
       /\ \A draw \in DOMAIN Drawn[c] : MayReturn(categories[c], Drawn[c][draw])
  /\ \A s \in Shuffles, n \in 0 .. ExampleCount : s[n] \in Bijection(1 .. n, 1 .. n)

Lines ==
  UNION {[category : {c}, index : 1 .. Counts[c], draw : DOMAIN Drawn[c]] : c \in 1 .. 5}

VARIABLES
  program,      \* what runs, or how what ran last has ended
  full, train, holdout,     \* the files of these names in dataset/
  shuffle,      \* what the shuffle is for the SEED of the script
  confusion,    \* printed by the program that ran last, if it is evaluate.py
  split_from    \* history: how many records the split had that wrote each file

files == <<full, train, holdout>>
vars == <<program, files, shuffle, confusion, split_from>>

NoConfusion == [TP |-> 0, TN |-> 0, FP |-> 0, FN |-> 0]

TypeOK ==
  /\ program \in {"none", "generating", "generated", "splitting",
                  "train written", "split", "evaluated", "failed"}
  /\ \A file \in {full, train, holdout} :
       file # Missing => file \in Seq(Lines \cup {Torn}) /\ Len(file) <= ExampleCount
  /\ shuffle \in Shuffles
  /\ confusion \in [{"TP", "TN", "FP", "FN"} -> 0 .. ExampleCount]
  /\ split_from \in [{"train", "holdout"} -> 0 .. ExampleCount]

Init ==
  /\ program = "none"
  /\ full = Missing /\ train = Missing /\ holdout = Missing
  /\ shuffle \in Shuffles
  /\ confusion = NoConfusion
  /\ split_from = [train |-> 0, holdout |-> 0]

Idle == program \notin {"generating", "splitting", "train written"}

\* What is in a file when writing these lines has come to an early end.
Broken(lines) ==
  {lines} \cup
    UNION {{SubSeq(lines, 1, n), Append(SubSeq(lines, 1, n), Torn)} :
             n \in 0 .. Len(lines) - 1}

\* A program finds nothing it can read, or cannot open what it is to write.
FailsAtOnce ==
  /\ program # "generating"
  /\ program' = "failed"
  /\ confusion' = NoConfusion
  /\ UNCHANGED <<files, shuffle, split_from>>

-----------------------------------------------------------------------------
(* generate_dataset() *)

OpenFull ==
  /\ Idle
  /\ program' = "generating"
  /\ full' = <<>>
  /\ confusion' = NoConfusion
  /\ UNCHANGED <<train, holdout, shuffle, split_from>>

WriteExample ==
  /\ program = "generating"
  /\ Len(full) < ExampleCount
  /\ LET next == Schedule[Len(full) + 1]
     IN  \E draw \in DOMAIN Drawn[next.category] :
           full' = Append(full, [category |-> next.category, index |-> next.index,
                                 draw |-> draw])
  /\ UNCHANGED <<program, train, holdout, shuffle, confusion, split_from>>

\* All is written: `return true`, unless it is killed before.
GenerateReturns ==
  /\ program = "generating"
  /\ Len(full) = ExampleCount
  /\ program' \in {"generated", "failed"}
  /\ UNCHANGED <<files, shuffle, confusion, split_from>>

\* Writing ends early.  When the disk is full the stream goes bad and drops
\* what comes after; nobody asks it, and generate_dataset() returns true.
GenerateBreaks ==
  /\ program = "generating"
  /\ Len(full) < ExampleCount
  /\ full' \in {full, Append(full, Torn)}
  /\ program' \in {"generated", "failed"}
  /\ UNCHANGED <<train, holdout, shuffle, confusion, split_from>>

-----------------------------------------------------------------------------
(* split_dataset.py *)

\* json.loads() raises on a torn line.
Readable(file) == file # Missing /\ Torn \notin ToSet(file)

\* Mutant: shuffled without the seed.
ReadAndReseed ==
  /\ Idle
  /\ Readable(full)
  /\ program' = "splitting"
  /\ shuffle' \in Shuffles
  /\ confusion' = NoConfusion
  /\ UNCHANGED <<files, split_from>>

ReadFull ==
  /\ Idle
  /\ Readable(full)
  /\ program' = "splitting"
  /\ confusion' = NoConfusion
  /\ UNCHANGED <<files, shuffle, split_from>>

shuffled_records == [i \in DOMAIN full |-> full[shuffle[Len(full)][i]]]

\* int(original_count * TRAIN_RATIO)
train_count == (Len(full) * 7) \div 10

train_records == SubSeq(shuffled_records, 1, train_count)

\* Mutant: shuffled_records[train_count + 1:].
holdout_short == SubSeq(shuffled_records, train_count + 2, Len(full))

holdout_records == SubSeq(shuffled_records, train_count + 1, Len(full))

WriteTrain ==
  /\ program = "splitting"
  /\ \/ train' = train_records /\ program' = "train written"
     \/ train' \in Broken(train_records) /\ program' = "failed"
  /\ split_from' = [split_from EXCEPT !.train = Len(full)]
  /\ UNCHANGED <<full, holdout, shuffle, confusion>>

WriteHoldout ==
  /\ program = "train written"
  /\ \/ holdout' = holdout_records /\ program' = "split"
     \/ holdout' \in Broken(holdout_records) /\ program' = "failed"
  /\ split_from' = [split_from EXCEPT !.holdout = Len(full)]
  /\ UNCHANGED <<full, train, shuffle, confusion>>

-----------------------------------------------------------------------------
(* evaluate.py *)

\* The labels main() may find for each example.
Predictions ==
  [c \in 1 .. 5 |-> [draw \in DOMAIN Drawn[c] |->
     {predicted_label(classification) :
        classification \in RecordClassifications(Drawn[c][draw])}]]

TrueLabel(line) == IF categories[line.category].attack_label THEN "ATTACK" ELSE "NORMAL"

Evaluate ==
  /\ Idle
  /\ Readable(holdout)
  /\ program' = "evaluated"
  /\ \E predicted \in [DOMAIN holdout -> {"NORMAL", "ATTACK"}] :
       /\ \A i \in DOMAIN holdout :
            predicted[i] \in Predictions[holdout[i].category][holdout[i].draw]
       /\ LET HowMany(true_label, label) ==
                Cardinality({i \in DOMAIN holdout :
                               /\ TrueLabel(holdout[i]) = true_label
                               /\ predicted[i] = label})
          IN  confusion' = [TP |-> HowMany("ATTACK", "ATTACK"),
                            TN |-> HowMany("NORMAL", "NORMAL"),
                            FP |-> HowMany("NORMAL", "ATTACK"),
                            FN |-> HowMany("ATTACK", "NORMAL")]
  /\ UNCHANGED <<files, shuffle, split_from>>

-----------------------------------------------------------------------------
Next ==
  \/ FailsAtOnce
  \/ OpenFull \/ WriteExample \/ GenerateReturns \/ GenerateBreaks
  \/ ReadFull \/ WriteTrain \/ WriteHoldout
  \/ Evaluate

Spec == Init /\ [][Next]_vars

-----------------------------------------------------------------------------
(* What the evaluation is worth *)

Sources(file) ==
  {<<line.category, line.index>> : line \in ToSet(file) \ {Torn}}

\* README.md, Evaluation: "separation from the held-out test set".  No source
\* is in both files, although they are written one after the other, a split can
\* end between the two, and the dataset may have been made anew since: as long
\* as both come from as many records.
HoldoutIsNotTrained ==
  train # Missing /\ holdout # Missing /\ split_from.train = split_from.holdout
    => Sources(train) \cap Sources(holdout) = {}

\* After a split each example is in one of the two files, once.
SplitKeepsRecords ==
  program = "split" =>
    /\ Len(train) + Len(holdout) = Len(full)
    /\ ToSet(train) \cup ToSet(holdout) = ToSet(full)

\* README.md, Evaluation: "zero false negatives".  That is no luck of one
\* dataset: whatever make_dataset_example() draws from its ranges, no bot of the
\* table is found NORMAL.
AttackIsNeverMissed == confusion.FN = 0

=============================================================================
