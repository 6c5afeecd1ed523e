CONSTANTS
  r1 = r1
  r2 = r2
  i1 = i1
  Runs <- OneRun
  RunIds <- OneId
  Plans <- AllPlans
  MaxFaults = 3
  Foreign = TRUE
SPECIFICATION FairSpec
INVARIANTS
  TypeOK
  PublishedIsComplete
  FaultFreeRunIsAccepted
  JournalIsOrdered
  RunJsonBackedByJournal
PROPERTIES
  AttemptNeverRewritten
  RunsEnd
