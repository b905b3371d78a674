SPECIFICATION PressFairSpec
CONSTANTS
  s1 = s1
  TheSwitch = s1
  Switch <- OneSwitch
  Status <- WithInvalid
  Counter = {0, 1, 2}
  Wizard = Wizard
  MaxReceived = 3
  Rockers = 2
INVARIANTS
  DurableBeforeEvent
  EventsStrictlyRise
  EachTelegramCountedOnce
  RawHeardIsWhatFired
  ShortPressIsBacked
PROPERTIES
  QueueDrains
CHECK_DEADLOCK FALSE
