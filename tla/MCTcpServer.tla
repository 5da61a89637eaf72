---------------------------- MODULE MCTcpServer ----------------------------
(***************************************************************************)
(* TcpServer with three clients.  One sends a line that is no event and    *)
(* two that are, the last of them never ended; the second an event and an  *)
(* empty line; the third empty lines without end.  A read may return up to *)
(* three symbols, and the backlog has room for one connection.             *)
(***************************************************************************)
EXTENDS TcpServer

CONSTANTS c1, c2, c3

Telemetry == INSTANCE Event

\* JSON objects, told apart by a field nobody asks for.
Line(number, timestamp_kind) ==
  [kind |-> "object",
   fields |-> [source_id |-> "string", event_id |-> "string",
               timestamp |-> timestamp_kind, payment_token |-> "string",
               fingerprint |-> "string", payment_failed |-> "boolean",
               line_number |-> number]]

garbage == Line(0, "string")
e1 == Line(1, "number_unsigned")
e2 == Line(2, "number_integer")
e3 == Line(3, "number_float")

MCBodies == {garbage, e1, e2, e3}

MCEvents == {line \in MCBodies : Telemetry!HasEvent(line)}

MCScripts ==
  [c \in Clients |->
     CASE c = c1 -> <<garbage, Newline, e1, Newline, e2>>
       [] c = c2 -> <<e3, Newline, Newline>>
       [] c = c3 -> <<Newline>>]

=============================================================================
