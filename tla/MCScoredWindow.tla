--------------------------- MODULE MCScoredWindow ---------------------------
(***************************************************************************)
(* ScoredWindow with a window of three seconds and up to four rows: slower *)
(* than, at and above the one request per second that counts as full       *)
(* velocity.                                                               *)
(***************************************************************************)
EXTENDS ScoredWindow

MCObservations ==
  [timestamp : {0, 1, 3, 4}, payment_failed : BOOLEAN, payment_token : {"tok_a"},
   fingerprint : {"fp_a", "fp_b"}]

=============================================================================
