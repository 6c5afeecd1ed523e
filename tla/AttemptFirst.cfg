CONSTANTS
  r1 = r1
  r2 = r2
  i1 = i1
  Runs <- OneRun
  RunIds <- OneId
  Plans <- FittingPlans
  MaxFaults = 1
  Foreign = FALSE
SPECIFICATION Spec
INVARIANT
  FinalizingAfterAttemptTerminal
