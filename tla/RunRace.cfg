CONSTANTS
  r1 = r1
  r2 = r2
  i1 = i1
  Runs <- TwoRuns
  RunIds <- OneId
  Plans <- TwoPlans
  MaxFaults = 1
  Foreign = TRUE
SPECIFICATION FairSpec
INVARIANTS
  StagingIsExclusive
  ExitCodeTellsOutcome
PROPERTIES
  ContentNeverReplaced
  ImplementsFairPublication
