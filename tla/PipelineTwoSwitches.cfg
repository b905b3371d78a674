SPECIFICATION Spec
CONSTANTS
  s1 = s1
  s2 = s2
  Switch <- TwoSwitches
  Status <- PressOrInvalid
  Counter = {0, 1}
  Wizard = Wizard
  MaxReceived = 2
SYMMETRY SwitchSymmetry
INVARIANTS
  IInv
PROPERTIES
  DiskNeverFallsBack
  GateSpec
CHECK_DEADLOCK FALSE
