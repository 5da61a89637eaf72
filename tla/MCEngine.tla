------------------------------ MODULE MCEngine ------------------------------
(***************************************************************************)
(* The whole engine with two workers and one client, which sends two       *)
(* failed payments of one source.  The workers may apply them in either    *)
(* order, and a read may cut the stream anywhere.                          *)
(***************************************************************************)
EXTENDS Engine

FailedPayment == [payment_failed |-> TRUE, fingerprint |-> "fp_a"]

MCPayloads == {FailedPayment}

MCEvent(timestamp) ==
  [source_id |-> "src_a", timestamp |-> timestamp, payload |-> FailedPayment]

MCScripts ==
  [c \in Clients |-> <<MCEvent(0), Newline, MCEvent(1), Newline>>]

=============================================================================
