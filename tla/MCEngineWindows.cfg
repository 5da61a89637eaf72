SPECIFICATION FairSpec
CONSTANTS
  Workers = {w1, w2}
  w1 = w1
  w2 = w2
  Sources = {"src_a"}
  Payloads <- MCPayloads
  WindowSize = 3
  WINDOW_SECONDS = 3
  MaxEvents = 2
  MaxTime = 1
  MaxSkew = 1
  Nobody = Nobody
  NoEvent = NoEvent
  Clients = {c1}
  c1 = c1
  Garbage = Garbage
  Newline = Newline
  Scripts <- MCScripts
  BufferSize = 2
  Backlog = 1
  Windows = TRUE
  NoClient = NoClient
PROPERTIES
  EngineExits
CHECK_DEADLOCK FALSE
