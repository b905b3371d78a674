SPECIFICATION FairSpec
CONSTANTS
  s1 = s1
  s2 = s2
  Switch <- TwoSwitches
  MaxSaves = 3
INVARIANTS
  IInv
  NothingLost
  RemovedStaysGone
PROPERTIES
  SetupSucceeds
  ReloadsEnd
CHECK_DEADLOCK FALSE
