CONSTANTS
  Protocols <- SmallProtocols
  PipeCapacity = 2
  StderrCapacity = 0
  MaxWritten = 5
  MaxWaitErrors = 1
SPECIFICATION Spec
INVARIANTS
  TypeOK
  SuccessMeansCompleteProtocol
  ConformingHelperIsAccepted
  AccountingNeverMasksFailure
  NoSignalAfterReap
  ChildReapedOnReturn
  ResourcesOnlyFromReap
