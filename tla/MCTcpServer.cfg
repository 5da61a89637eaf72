SPECIFICATION FairSpec
CONSTANTS
  c1 = c1
  c2 = c2
  c3 = c3
  Clients = {c1, c2, c3}
  Bodies <- MCBodies
  Events <- MCEvents
  Newline = Newline
  Scripts <- MCScripts
  BufferSize = 3
  Backlog = 1
  Windows = TRUE
  NoClient = NoClient
INVARIANTS
  TypeOK
  LinesBecomeEvents
PROPERTIES
  SentIsRead
  StopLeadsToReturn
CHECK_DEADLOCK FALSE
