SPECIFICATION Spec
CONSTANTS
  none = none
  enocean = enocean
  casambi = casambi
  i1 = i1
  i2 = i2
  u1 = u1
  u2 = u2
  vendor = vendor
  Key <- ThreeKeys
  NO_MANUFACTURER_DATA_KEY = none
  Shown <- OwnFields
  Identifier <- TwoIdentifiers
  Uuid <- ThreeUuids
  ShortUuid <- TwoShort
  MAX_TRACKED_MANUFACTURER_IDS = 2
  MAX_TRACKED_SERVICE_UUIDS = 1
  _RADIO_CENSUS_DISPLAY_LIMIT = 1
  MaxHeard = 3
SYMMETRY Symmetry
INVARIANTS
  CountsAreComplete
  TruncationIsReported
  DevicesCountedNotKept
  SensorIsCurrent
  SensorTellsTruth
