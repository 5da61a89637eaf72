--------------------------- MODULE SlidingWindow ---------------------------
(***************************************************************************)
(* What a source's state is meant to be: the sequence of its observations  *)
(* that are recent, as seen from the observation processed last.  Each new *)
(* observation drops the ones that are more than WindowSize seconds older  *)
(* than itself and joins the end.                                          *)
(*                                                                         *)
(* Observations come in the order of processing, which need not be the     *)
(* order of their timestamps.                                              *)
(***************************************************************************)
EXTENDS SourceState

CONSTANT Observations     \* records with at least a field `timestamp`

VARIABLE window

Init == window = <<>>

Observe(observation) ==
  window' = AddEvent(EvictOlderThan(window, observation.timestamp), observation)

Next == \E observation \in Observations : Observe(observation)

Spec == Init /\ [][Next]_window

=============================================================================
