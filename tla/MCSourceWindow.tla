-------------------------- MODULE MCSourceWindow --------------------------
(***************************************************************************)
(* SourceWindow with five observations whose fields are correlated, so     *)
(* that a row mixed from two of them is none of them.                      *)
(***************************************************************************)
EXTENDS SourceWindow

Observed(timestamp, payment_failed, payment_token, fingerprint) ==
  [timestamp |-> timestamp, payment_failed |-> payment_failed,
   payment_token |-> payment_token, fingerprint |-> fingerprint]

\* Ages below, at and above a window of two seconds, in both directions.
MCObservations ==
  { Observed(0, TRUE, "tok_a", "fp_a"),
    Observed(1, FALSE, "tok_b", "fp_b"),
    Observed(2, TRUE, "tok_c", "fp_b"),
    Observed(3, FALSE, "tok_c", "fp_a"),
    Observed(4, TRUE, "tok_b", "fp_c") }

=============================================================================
