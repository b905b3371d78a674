SPECIFICATION Spec
CONSTANTS
  s1 = s1
  s2 = s2
  Switch <- TwoSwitches
  Counter = {0, 1}
  MaxGeneration = 3
  Overtaking = {1}
SYMMETRY SwitchSymmetry
INVARIANTS
  OrderlyReload
  EventsRiseWithinGeneration
PROPERTIES
  StaleMeansRemoved
  ReplayStateNeverFallsBack
CHECK_DEADLOCK FALSE
