------------------------- MODULE MCThreadSafeQueue -------------------------
(***************************************************************************)
(* ThreadSafeQueue on a small instance: two producers that push twice, one *)
(* consumer of each overload.                                              *)
(***************************************************************************)
EXTENDS ThreadSafeQueue, TLC
=============================================================================
