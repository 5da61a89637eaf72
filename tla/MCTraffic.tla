----------------------------- MODULE MCTraffic -----------------------------
(***************************************************************************)
(* A user that sends one event and a bot that sends two, for a second, or  *)
(* one of them alone; and command lines that start neither.                *)
(***************************************************************************)
EXTENDS Traffic

CONSTANTS u1, b1

MCMaxSends == [t \in Threads |-> IF t = b1 THEN 2 ELSE 1]

\* std::stoi() stops at the first character that is no digit.
MCNumbers == [text \in {"0", "1", "1s"} |-> IF text = "0" THEN 0 ELSE 1]

MCArguments ==
  { <<"--mode", "attack", "--duration", "1", "--mode", "mixed">>,
    <<"--duration", "1s", "--mode", "attack">>,
    <<>>,
    <<"--mode", "dataset-gen">>,
    <<"--duration", "0">>,
    <<"--duration", "soon">>,
    <<"--mode">> }

=============================================================================
