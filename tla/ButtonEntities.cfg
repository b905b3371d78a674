SPECIFICATION Spec
CONSTANTS
  s1 = s1
  s2 = s2
  Switch <- TwoSwitches
  Status <- EachBit
  Nothing = Nothing
SYMMETRY SwitchSymmetry
INVARIANTS
  TriggersHaveEntities
  AcceptsExactlyPhysical
  TelegramReachesItsButton
PROPERTIES
  OnlyStaleArePruned
CHECK_DEADLOCK FALSE
