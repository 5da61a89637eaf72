------------------------- MODULE SequenceSelection -------------------------
(***************************************************************************)
(* The part of a sequence that stands at some of its positions.  SelectSeq *)
(* does the same by a test; it is primitive to the proof system, which     *)
(* knows nothing of it, and so this stands in its place.                   *)
(***************************************************************************)
EXTENDS Integers, Sequences

\* For each i, what of the first i elements stands at these positions.
Selection(seq, positions) ==
  LET chosen[i \in 0 .. Len(seq)] ==
        IF i = 0 THEN <<>>
        ELSE IF i \in positions THEN Append(chosen[i - 1], seq[i])
        ELSE chosen[i - 1]
  IN  chosen

SelectAt(seq, positions) == Selection(seq, positions)[Len(seq)]

=============================================================================
