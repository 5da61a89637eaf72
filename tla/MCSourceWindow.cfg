SPECIFICATION FairSpec
CONSTANTS
  Observations <- MCObservations
  WindowSize = 2
  IntLimit = 64
  MaxRows = 4
  NoCall = NoCall
INVARIANTS
  TypeOK
  RowsAreObservations
  NothingOldBeforeNew
PROPERTIES
  CallReturns
  ImplementsSlidingWindow
CHECK_DEADLOCK FALSE
