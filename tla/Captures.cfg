SPECIFICATION DetectFairSpec
CONSTANTS
  d1 = d1
  d2 = d2
  w1 = w1
  Device <- TwoDevices
  Wizard <- OneWizard
  None = None
  MINIMUM_DESIGNATION_OBSERVATIONS = 3
  MAX_EVIDENCE_RECORDS = 2
INVARIANTS
  OneCaptureAtATime
  TimersMatchPhases
  HearsAllOnlyForCensus
  DesignatedIsSole
  EvidenceOfDesignated
  DetectionHasWizard
PROPERTIES
  ResultsSurvive
  CommitsWhatWasHeard
  EveryCaptureEnds
  DetectionEnds
