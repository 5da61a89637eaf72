SPECIFICATION Spec
CONSTANTS
  WindowSize = 2
  WINDOW_SECONDS = 2
  Workers = {w1}
  w1 = w1
  Sources = {src_a}
  src_a = src_a
  Payloads <- FailingPayloads
  MaxEvents = 1
  MaxTime = 3
  MaxSkew = 0
  Nobody = Nobody
  NoEvent = NoEvent
INVARIANTS
  EvidenceIsRecent
CHECK_DEADLOCK FALSE
