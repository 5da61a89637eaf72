SPECIFICATION Spec
CONSTANTS
  Observations <- MCObservations
  WindowSize = 3
  IntLimit = 64
  MaxRows = 4
  NoCall = NoCall
  WINDOW_SECONDS = 3
  FreshFingerprint = "fp_c"
INVARIANTS
  OrderIrrelevant
  FailureNeverCalms
  FingerprintNeverCalms
  RegularityNeverCalms
  BusyCustomerIsNoAttack
  EvaluatedAlike
CHECK_DEADLOCK FALSE
