CONSTANTS
  r1 = r1
  r2 = r2
  i1 = i1
  Runs <- OneRun
  RunIds <- OneId
  Plans <- FittingPlans
  MaxFaults = 0
  Foreign = TRUE
SPECIFICATION Spec
INVARIANT
  FailureOnTerminalEvent
