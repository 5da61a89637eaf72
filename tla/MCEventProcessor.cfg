SPECIFICATION Spec
CONSTANTS
  WindowSize = 2
  WINDOW_SECONDS = 3
  Workers = {w1, w2}
  w1 = w1
  w2 = w2
  Sources = {src_a, src_b}
  src_a = src_a
  src_b = src_b
  Payloads <- SuccessfulPayloads
  MaxEvents = 3
  MaxTime = 1
  MaxSkew = 1
  Nobody = Nobody
  NoEvent = NoEvent
SYMMETRY Symmetry
INVARIANTS
  TypeOK
  EventsAccountedFor
  UpdatesAreSerial
  SnapshotIsOneMoment
CHECK_DEADLOCK FALSE
