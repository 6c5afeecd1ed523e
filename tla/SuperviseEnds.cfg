CONSTANTS
  Protocols <- LivenessProtocols
  PipeCapacity = 1
  StderrCapacity = 1
  MaxWritten = 3
  MaxWaitErrors = 2
SPECIFICATION FairSpec
PROPERTIES
  ExecuteReturns
  HelperNeverBlockedForEver
