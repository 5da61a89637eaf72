SPECIFICATION Spec
CONSTANTS
  WINDOW_SECONDS = 60
  Counts <- MCCounts
  Tick = 50
  Drawn <- MCDrawn
  Shuffles <- MCShuffles
  Missing = Missing
  Torn = Torn
INVARIANTS
  TypeOK
  HoldoutIsNotTrained
  SplitKeepsRecords
  AttackIsNeverMissed
