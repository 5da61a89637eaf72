------------------------------- MODULE Event -------------------------------
(***************************************************************************)
(* edge-engine/include/telemetry/Event.h: the lines that are events.  A    *)
(* line is what json::parse() makes of it, down to the kinds of its        *)
(* values: get<T>() takes some kinds for a type, and throws at others.  A  *)
(* line that is no JSON has the kind "malformed".                          *)
(***************************************************************************)

\* TelemetryEvent: for each field the kinds its type takes.  A fraction is cut
\* off, and a boolean is no number.
FieldKinds ==
  [source_id      |-> {"string"},
   event_id       |-> {"string"},
   timestamp      |-> {"number_integer", "number_unsigned", "number_float"},
   payment_token  |-> {"string"},
   fingerprint    |-> {"string"},
   payment_failed |-> {"boolean"}]

\* parse_line() has an event unless json::parse() or from_json() throws: the line
\* is an object, with each field there and of its type.  What else is there does
\* not matter.
HasEvent(line) ==
  /\ line.kind = "object"
  /\ \A field \in DOMAIN FieldKinds :
       /\ field \in DOMAIN line.fields
       /\ line.fields[field] \in FieldKinds[field]

=============================================================================
