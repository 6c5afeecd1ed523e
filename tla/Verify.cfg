CONSTANTS
  NameOrder <- FiveNames
  Required <- ThreeRequired
  Limit <- FiveLimits
  MeasurementsLimit = 3
  MeasurementLines = 2
  MaxEntries = 5
  MaxSumsLines = 6
  Growable <- OnlyExperiment
  MaxChanges = 2
SPECIFICATION Spec
INVARIANTS
  AcceptedIsDeclared
  QuietVerdictIsExact
  FinalizedIsAccepted
  RetainedWithinLimit
