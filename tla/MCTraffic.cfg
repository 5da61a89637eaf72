SPECIFICATION Spec
CONSTANTS
  u1 = u1
  b1 = b1
  Users = {u1}
  Bots = {b1}
  Arguments <- MCArguments
  Numbers <- MCNumbers
  MaxTime = 1
  MaxSends <- MCMaxSends
  PayloadSize = 2
  OnWindows = FALSE
  Newline = Newline
  BufferSize = 2
  Backlog = 2
  NoClient = NoClient
INVARIANTS
  TypeOK
  EventNumbersAreUnique
  SourceInOrder
  FalseIsNotPushed
  TrueIsPushed
CHECK_DEADLOCK FALSE
