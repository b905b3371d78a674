SPECIFICATION Spec
CONSTANTS
  s1 = s1
  s2 = s2
  Switch <- OneSwitch
  Counter = {0, 1}
  MaxGeneration = 2
  Overtaking = {1}
INVARIANTS
  SubentryHasRecord
CHECK_DEADLOCK FALSE
