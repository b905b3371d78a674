SPECIFICATION FairSpec
CONSTANTS
  s1 = s1
  s2 = s2
  Switch <- OneSwitch
  MaxSaves = 1
PROPERTIES
  PurgedMeansRemoved
CHECK_DEADLOCK FALSE
