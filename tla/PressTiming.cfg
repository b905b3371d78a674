SPECIFICATION FairSpec
CONSTANTS
  Raw <- ButtonAndCombo
  Rockers = 2
  ReliableCancel = FALSE
  MaxStates = 3
INVARIANTS
  TimersMatchOpenPresses
PROPERTIES
  GesturesSpec
  HeldPressResolves
CHECK_DEADLOCK FALSE
