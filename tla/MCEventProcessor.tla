------------------------- MODULE MCEventProcessor -------------------------
(***************************************************************************)
(* EventProcessor on small instances: payments that fail and payments that *)
(* do not, always from the same fingerprint.                               *)
(***************************************************************************)
EXTENDS EventProcessor, TLC

Payment(payment_failed) ==
  [payment_failed |-> payment_failed, fingerprint |-> "fp_a"]

MCPayloads == {Payment(TRUE), Payment(FALSE)}
FailingPayloads == {Payment(TRUE)}
SuccessfulPayloads == {Payment(FALSE)}

\* Workers run the same code, and the code treats all sources alike.
Symmetry == Permutations(Workers) \cup Permutations(Sources)

=============================================================================
