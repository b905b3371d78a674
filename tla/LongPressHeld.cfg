SPECIFICATION PressSpec
CONSTANTS
  s1 = s1
  TheSwitch = s1
  Switch <- OneSwitch
  Status <- ReleaseAndPress
  Counter = {0, 1, 2}
  Wizard = Wizard
  MaxReceived = 3
  Rockers = 2
PROPERTIES
  LongPressOnlyWhileHeld
CHECK_DEADLOCK FALSE
