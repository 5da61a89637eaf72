-------------------------- MODULE RecursionLemmas --------------------------
(***************************************************************************)
(* Induction and recursive functions on the natural numbers, stated of     *)
(* sets and functions in place of operators, so that they can be cited.    *)
(* The proofs about windows, streams and histories rest on them: a         *)
(* recursive function f[k \in 0 .. n] of a module stands for some function *)
(* that satisfies its equation, if there is one.                           *)
(***************************************************************************)
EXTENDS SequenceSelection, SequenceTheorems, WellFoundedInduction, TLAPS

\* A set of natural numbers has a least element.
LEMMA LeastNatural ==
  ASSUME NEW T, T \subseteq Nat, T # {}
  PROVE  \E x \in T : \A y \in T : x <= y
<1>1. PICK R : /\ IsWellFoundedOn(R, Nat)
               /\ \A x, y \in Nat : x < y => <<x, y>> \in R
  <2>1. IsWellFoundedOn(OpToRel(<, Nat), Nat)
    BY NatLessThanWellFounded
  <2>2. \A x, y \in Nat : x < y => <<x, y>> \in OpToRel(<, Nat)
    BY DEF OpToRel
  <2>3. QED
    BY <2>1, <2>2, Zenon
<1>2. PICK x \in T : \A y \in T : ~(<<y, x>> \in R)
  BY <1>1, WFMin
<1>3. \A y \in T : ~(y < x)
  BY <1>1, <1>2
<1>4. QED
  BY <1>3

\* Induction from 0 to n: S holds the numbers for which the claim is true.
LEMMA InductionUpTo ==
  ASSUME NEW n \in Nat, NEW S, 0 \in S,
         \A k \in 1 .. n : k - 1 \in S => k \in S
  PROVE  0 .. n \subseteq S
<1>1. SUFFICES ASSUME (0 .. n) \ S # {} PROVE FALSE
  OBVIOUS
<1>2. PICK m \in (0 .. n) \ S : \A k \in (0 .. n) \ S : m <= k
  <2>1. (0 .. n) \ S \subseteq Nat
    OBVIOUS
  <2>2. QED
    BY <1>1, <2>1, LeastNatural
<1>3. m - 1 \in 0 .. n /\ m - 1 \notin (0 .. n) \ S
  BY <1>2
<1>4. QED
  BY <1>2, <1>3

\* The functions that are `base` at 0 and whose value at k is step[k][x], where x
\* is the value at k - 1.
Recursive(n, S, base, step) ==
  {f \in [0 .. n -> S] :
     f[0] = base /\ \A k \in 1 .. n : f[k] = step[k][f[k - 1]]}

\* There is such a function.
LEMMA RecursionExists ==
  ASSUME NEW n \in Nat, NEW S, NEW base \in S, NEW step \in [1 .. n -> [S -> S]]
  PROVE  Recursive(n, S, base, step) # {}
<1> DEFINE Solves(f, m) == /\ f \in [0 .. m -> S]
                           /\ f[0] = base
                           /\ \A k \in 1 .. m : f[k] = step[k][f[k - 1]]
           Solved == {m \in 0 .. n : \E f : Solves(f, m)}
<1>1. 0 \in Solved
  <2>1. Solves([k \in 0 .. 0 |-> base], 0)
    OBVIOUS
  <2> HIDE DEF Solves
  <2>2. QED
    BY <2>1
<1>2. ASSUME NEW m \in 1 .. n, m - 1 \in Solved PROVE m \in Solved
  <2>1. PICK f : Solves(f, m - 1)
    BY <1>2
  <2> DEFINE g == [k \in 0 .. m |-> IF k = m THEN step[m][f[m - 1]] ELSE f[k]]
  <2>2. step[m] \in [S -> S] /\ f[m - 1] \in S
    BY <2>1
  <2>3. g \in [0 .. m -> S]
    BY <2>1, <2>2
  <2>4. g[0] = base /\ \A k \in 1 .. m : g[k] = step[k][g[k - 1]]
    BY <2>1
  <2>5. Solves(g, m)
    BY <2>3, <2>4
  <2> HIDE DEF Solves, g
  <2>6. QED
    BY <2>5
<1>3. 0 .. n \subseteq Solved
  <2> HIDE DEF Solved
  <2>1. QED
    BY <1>1, <1>2, InductionUpTo
<1>4. PICK f : Solves(f, n)
  BY <1>3
<1>5. QED
  BY <1>4 DEF Recursive

GoOnAlike(f, g, n) ==
  /\ f[0] = g[0]
  /\ \A k \in 1 .. n : f[k - 1] = g[k - 1] => f[k] = g[k]

\* Two functions that start alike and go on alike are alike.
LEMMA RecursionUnique ==
  ASSUME NEW n \in Nat, NEW f, NEW g, GoOnAlike(f, g, n)
  PROVE  \A k \in 0 .. n : f[k] = g[k]
<1> DEFINE Alike == {k \in 0 .. n : f[k] = g[k]}
<1>1. 0 \in Alike /\ \A k \in 1 .. n : k - 1 \in Alike => k \in Alike
  BY DEF GoOnAlike
<1>2. 0 .. n \subseteq Alike
  <2> HIDE DEF Alike
  <2>1. QED
    BY <1>1, InductionUpTo
<1>3. QED
  BY <1>2

-----------------------------------------------------------------------------
(* Selections *)

\* What Selection does at each position.
LEMMA SelectionRecursion ==
  ASSUME NEW E, NEW seq \in Seq(E), NEW positions
  PROVE  /\ Selection(seq, positions) \in [0 .. Len(seq) -> Seq(E)]
         /\ Selection(seq, positions)[0] = <<>>
         /\ \A i \in 1 .. Len(seq) :
              Selection(seq, positions)[i] =
                IF i \in positions THEN Append(Selection(seq, positions)[i - 1], seq[i])
                ELSE Selection(seq, positions)[i - 1]
<1> DEFINE n == Len(seq)
           S == Seq(E)
           Chosen(i) == i \in positions
           step == [i \in 1 .. n |-> [x \in S |->
                      IF Chosen(i) THEN Append(x, seq[i]) ELSE x]]
           Value(f, i) == IF i = 0 THEN <<>>
                          ELSE IF Chosen(i) THEN Append(f[i - 1], seq[i])
                          ELSE f[i - 1]
           Holds(f) == f = [i \in 0 .. n |-> Value(f, i)]
           chosen == CHOOSE f : Holds(f)
<1>1. n \in Nat /\ <<>> \in S
  BY LenProperties, EmptySeq
<1>2. Selection(seq, positions) = chosen
  BY DEF Selection
<1>3. \A i \in 1 .. n, x \in S : Append(x, seq[i]) \in S
  BY ElementOfSeq, AppendProperties
<1> HIDE DEF n, S, Chosen
<1>4. step \in [1 .. n -> [S -> S]]
  BY <1>3
<1>5. PICK f \in [0 .. n -> S] :
        f[0] = <<>> /\ \A i \in 1 .. n : f[i] = step[i][f[i - 1]]
  <2> HIDE DEF step
  <2>1. Recursive(n, S, <<>>, step) # {}
    BY <1>1, <1>4, RecursionExists
  <2>2. QED
    BY <2>1 DEF Recursive
<1>6. \A i \in 1 .. n :
        f[i] = IF Chosen(i) THEN Append(f[i - 1], seq[i]) ELSE f[i - 1]
  <2>1. ASSUME NEW i \in 1 .. n, NEW x \in S
        PROVE  step[i][x] = IF Chosen(i) THEN Append(x, seq[i]) ELSE x
    OBVIOUS
  <2>2. ASSUME NEW i \in 1 .. n PROVE f[i - 1] \in S
    BY <1>1, <1>5
  <2> HIDE DEF step
  <2>3. QED
    BY <1>5, <2>1, <2>2
<1>7. Holds(f)
  <2>1. ASSUME NEW i \in 0 .. n PROVE f[i] = Value(f, i)
    <3>1. CASE i = 0
      BY <1>5, <3>1
    <3>2. CASE i \in 1 .. n
      BY <1>1, <1>6, <3>2
    <3>3. QED
      BY <1>1, <3>1, <3>2
  <2> HIDE DEF Value
  <2>2. QED
    BY <1>5, <2>1
<1>8. Holds(chosen)
  <2> HIDE DEF Holds
  <2>1. QED
    BY <1>7
<1> HIDE DEF chosen
<1>9. DOMAIN chosen = 0 .. n /\ \A i \in 0 .. n : chosen[i] = Value(chosen, i)
  <2> HIDE DEF Value
  <2>1. QED
    BY <1>8
<1>10. /\ chosen[0] = <<>>
       /\ \A i \in 1 .. n :
            chosen[i] = IF Chosen(i) THEN Append(chosen[i - 1], seq[i])
                        ELSE chosen[i - 1]
  <2>1. 0 \in 0 .. n /\ \A i \in 1 .. n : i \in 0 .. n /\ i # 0
    BY <1>1
  <2>2. chosen[0] = Value(chosen, 0)
    BY <1>9, <2>1
  <2>3. ASSUME NEW i \in 1 .. n
        PROVE  chosen[i] = IF Chosen(i) THEN Append(chosen[i - 1], seq[i])
                           ELSE chosen[i - 1]
    <3>1. chosen[i] = Value(chosen, i)
      BY <1>9, <2>1
    <3>2. QED
      BY <2>1, <3>1
  <2>4. QED
    BY <2>2, <2>3
<1>11. \A i \in 0 .. n : chosen[i] = f[i]
  <2>1. chosen[0] = f[0]
    BY <1>5, <1>10
  <2>2. \A i \in 1 .. n : chosen[i - 1] = f[i - 1] => chosen[i] = f[i]
    BY <1>6, <1>10
  <2>3. GoOnAlike(chosen, f, n)
    BY <2>1, <2>2 DEF GoOnAlike
  <2>4. QED
    BY <1>1, <2>3, RecursionUnique
<1>12. chosen \in [0 .. n -> S]
  <2> HIDE DEF Value, Holds
  <2>1. chosen = [i \in 0 .. n |-> chosen[i]]
    BY <1>8 DEF Holds
  <2>2. \A i \in 0 .. n : chosen[i] \in S
    BY <1>5, <1>11
  <2>3. QED
    BY <2>1, <2>2
<1>13. QED
  BY <1>2, <1>10, <1>12 DEF n, S, Chosen

\* What is selected from the first n elements depends on these alone.
LEMMA SelectionPrefix ==
  ASSUME NEW E, NEW s \in Seq(E), NEW t \in Seq(E), NEW P, NEW Q,
         NEW n \in Nat, n <= Len(s), n <= Len(t),
         \A i \in 1 .. n : s[i] = t[i] /\ (i \in P <=> i \in Q)
  PROVE  Selection(s, P)[n] = Selection(t, Q)[n]
<1> DEFINE f == Selection(s, P)
           g == Selection(t, Q)
           InP(i) == i \in P
           InQ(i) == i \in Q
<1>1. n \in Nat /\ Len(s) \in Nat /\ Len(t) \in Nat
  BY LenProperties
<1>2. /\ f[0] = <<>>
      /\ \A i \in 1 .. Len(s) :
           f[i] = IF InP(i) THEN Append(f[i - 1], s[i]) ELSE f[i - 1]
  BY SelectionRecursion
<1>3. /\ g[0] = <<>>
      /\ \A i \in 1 .. Len(t) :
           g[i] = IF InQ(i) THEN Append(g[i - 1], t[i]) ELSE g[i - 1]
  BY SelectionRecursion
<1>4. \A i \in 1 .. n : s[i] = t[i] /\ (InP(i) <=> InQ(i))
  OBVIOUS
<1> HIDE DEF f, g, InP, InQ
<1>5. ASSUME NEW i \in 1 .. n, f[i - 1] = g[i - 1] PROVE f[i] = g[i]
  <2>1. i \in 1 .. Len(s) /\ i \in 1 .. Len(t)
    BY <1>1
  <2>2. f[i] = IF InP(i) THEN Append(f[i - 1], s[i]) ELSE f[i - 1]
    BY <1>2, <2>1
  <2>3. g[i] = IF InQ(i) THEN Append(g[i - 1], t[i]) ELSE g[i - 1]
    BY <1>3, <2>1
  <2>4. QED
    BY <1>4, <1>5, <2>2, <2>3
<1>6. \A i \in 0 .. n : f[i] = g[i]
  <2>1. f[0] = g[0]
    BY <1>2, <1>3
  <2>2. \A i \in 1 .. n : f[i - 1] = g[i - 1] => f[i] = g[i]
    BY <1>5
  <2>3. GoOnAlike(f, g, n)
    BY <2>1, <2>2 DEF GoOnAlike
  <2>4. QED
    BY <1>1, <2>3, RecursionUnique
<1>7. QED
  BY <1>6 DEF f, g

\* A selection of elements of E is a sequence of elements of E.
LEMMA SelectAtType ==
  ASSUME NEW E, NEW seq \in Seq(E), NEW P
  PROVE  SelectAt(seq, P) \in Seq(E)
<1>1. Len(seq) \in 0 .. Len(seq)
  BY LenProperties
<1>2. Selection(seq, P) \in [0 .. Len(seq) -> Seq(E)]
  BY SelectionRecursion
<1>3. QED
  BY <1>1, <1>2 DEF SelectAt

\* Nothing stands in the empty sequence.
LEMMA SelectAtEmpty == ASSUME NEW P PROVE SelectAt(<<>>, P) = <<>>
<1>1. PICK s \in Seq({}) : s = <<>> /\ Len(s) = 0
  BY EmptySeq
<1>2. Selection(s, P)[0] = <<>>
  BY SelectionRecursion
<1>3. QED
  BY <1>1, <1>2 DEF SelectAt

\* An element that is appended is selected last, if at all.
LEMMA SelectAtAppend ==
  ASSUME NEW E, NEW seq \in Seq(E), NEW e \in E, NEW P, NEW Q,
         \A i \in 1 .. Len(seq) : i \in P <=> i \in Q
  PROVE  SelectAt(Append(seq, e), Q) =
           IF Len(seq) + 1 \in Q THEN Append(SelectAt(seq, P), e)
           ELSE SelectAt(seq, P)
<1> DEFINE n == Len(seq)
           longer == Append(seq, e)
<1>1. /\ n \in Nat /\ longer \in Seq(E) /\ Len(longer) = n + 1
      /\ \A i \in 1 .. n : longer[i] = seq[i]
      /\ longer[n + 1] = e
  BY LenProperties, AppendProperties
<1> HIDE DEF n, longer
<1>2. Selection(longer, Q)[n] = Selection(seq, P)[n]
  <2>1. n <= Len(seq) /\ n <= Len(longer)
    BY <1>1 DEF n
  <2>2. \A i \in 1 .. n : seq[i] = longer[i] /\ (i \in P <=> i \in Q)
    BY <1>1 DEF n
  <2>3. QED
    BY <1>1, <2>1, <2>2, SelectionPrefix
<1>3. Selection(longer, Q)[n + 1] =
        IF n + 1 \in Q THEN Append(Selection(longer, Q)[n], e)
        ELSE Selection(longer, Q)[n]
  <2>1. n + 1 \in 1 .. Len(longer) /\ (n + 1) - 1 = n
    BY <1>1
  <2>2. Selection(longer, Q)[n + 1] =
          IF n + 1 \in Q THEN Append(Selection(longer, Q)[(n + 1) - 1], longer[n + 1])
          ELSE Selection(longer, Q)[(n + 1) - 1]
    BY <1>1, <2>1, SelectionRecursion
  <2>3. QED
    BY <1>1, <2>1, <2>2
<1>4. QED
  BY <1>1, <1>2, <1>3 DEF SelectAt, n, longer

\* What is selected is what stands at the positions.
LEMMA SelectAtElements ==
  ASSUME NEW E, NEW seq \in Seq(E), NEW P
  PROVE  /\ \A i \in DOMAIN seq : i \in P =>
              \E j \in DOMAIN SelectAt(seq, P) : SelectAt(seq, P)[j] = seq[i]
         /\ \A j \in DOMAIN SelectAt(seq, P) :
              \E i \in DOMAIN seq : i \in P /\ SelectAt(seq, P)[j] = seq[i]
<1> DEFINE n == Len(seq)
           f == Selection(seq, P)
           InP(i) == i \in P
           Right == {k \in 0 .. n :
                       /\ \A i \in 1 .. k : InP(i) =>
                            \E j \in 1 .. Len(f[k]) : f[k][j] = seq[i]
                       /\ \A j \in 1 .. Len(f[k]) :
                            \E i \in 1 .. k : InP(i) /\ f[k][j] = seq[i]}
<1>1. n \in Nat /\ DOMAIN seq = 1 .. n
  BY LenProperties
<1>2. /\ f \in [0 .. n -> Seq(E)]
      /\ f[0] = <<>>
      /\ \A k \in 1 .. n : f[k] = IF InP(k) THEN Append(f[k - 1], seq[k]) ELSE f[k - 1]
  BY SelectionRecursion
<1>3. \A i \in 1 .. n : seq[i] \in E
  BY ElementOfSeq
<1> HIDE DEF n, f, InP
<1>4. 0 \in Right
  BY <1>1, <1>2
<1>5. ASSUME NEW k \in 1 .. n, k - 1 \in Right PROVE k \in Right
  <2> DEFINE g == f[k - 1]
             h == f[k]
  <2>1. g \in Seq(E) /\ seq[k] \in E /\ k - 1 \in 0 .. n /\ k \in 0 .. n
    BY <1>1, <1>2, <1>3
  <2>2. /\ \A i \in 1 .. k - 1 : InP(i) => \E j \in 1 .. Len(g) : g[j] = seq[i]
        /\ \A j \in 1 .. Len(g) : \E i \in 1 .. k - 1 : InP(i) /\ g[j] = seq[i]
    BY <1>5
  <2>3. \A i \in 1 .. k : i \in 1 .. k - 1 \/ i = k
    OBVIOUS
  <2>4. SUFFICES /\ \A i \in 1 .. k : InP(i) => \E j \in 1 .. Len(h) : h[j] = seq[i]
                 /\ \A j \in 1 .. Len(h) : \E i \in 1 .. k : InP(i) /\ h[j] = seq[i]
    BY <2>1
  <2> HIDE DEF g, h
  <2>5. CASE ~InP(k)
    <3>1. h = g
      BY <1>2, <2>5 DEF g, h
    <3>2. QED
      BY <2>2, <2>3, <2>5, <3>1
  <2>6. CASE InP(k)
    <3>1. /\ Len(h) = Len(g) + 1 /\ Len(g) \in Nat
          /\ \A j \in 1 .. Len(g) : h[j] = g[j]
          /\ h[Len(g) + 1] = seq[k]
      <4> DEFINE x == seq[k]
      <4>1. h = Append(g, x)
        BY <1>2, <2>6 DEF g, h
      <4>2. g \in Seq(E) /\ x \in E
        BY <2>1
      <4> HIDE DEF x
      <4>3. /\ Len(h) = Len(g) + 1 /\ Len(g) \in Nat
            /\ \A j \in 1 .. Len(g) : h[j] = g[j]
            /\ h[Len(g) + 1] = x
        BY <4>1, <4>2, AppendProperties, LenProperties
      <4>4. QED
        BY <4>3 DEF x
    <3>2. ASSUME NEW i \in 1 .. k, InP(i) PROVE \E j \in 1 .. Len(h) : h[j] = seq[i]
      <4>1. CASE i = k
        BY <3>1, <4>1
      <4>2. CASE i \in 1 .. k - 1
        <5>1. PICK j \in 1 .. Len(g) : g[j] = seq[i]
          BY <2>2, <3>2, <4>2
        <5>2. j \in 1 .. Len(h) /\ h[j] = seq[i]
          BY <3>1, <5>1
        <5>3. QED
          BY <5>2
      <4>3. QED
        BY <2>3, <4>1, <4>2
    <3>3. ASSUME NEW j \in 1 .. Len(h) PROVE \E i \in 1 .. k : InP(i) /\ h[j] = seq[i]
      <4>1. CASE j = Len(g) + 1
        BY <2>6, <3>1, <4>1
      <4>2. CASE j \in 1 .. Len(g)
        <5>1. PICK i \in 1 .. k - 1 : InP(i) /\ g[j] = seq[i]
          BY <2>2, <4>2
        <5>2. i \in 1 .. k /\ h[j] = seq[i]
          BY <3>1, <4>2, <5>1
        <5>3. QED
          BY <5>1, <5>2
      <4>3. QED
        BY <3>1, <4>1, <4>2
    <3>4. QED
      BY <3>2, <3>3
  <2>7. QED
    BY <2>5, <2>6
<1>6. n \in Right
  <2>1. 0 .. n \subseteq Right
    <3> HIDE DEF Right
    <3>1. QED
      BY <1>1, <1>4, <1>5, InductionUpTo
  <2>2. n \in 0 .. n
    BY <1>1
  <2> HIDE DEF Right
  <2>3. QED
    BY <2>1, <2>2
<1>7. DOMAIN SelectAt(seq, P) = 1 .. Len(f[n]) /\ SelectAt(seq, P) = f[n]
  BY <1>1, <1>2, LenProperties DEF SelectAt, f, n
<1>8. QED
  BY <1>1, <1>6, <1>7 DEF InP

=============================================================================
