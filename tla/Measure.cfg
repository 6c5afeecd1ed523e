CONSTANTS
  U64Max = 99999
  Plans <- SmallPlans
  Unit = 3
  Second = 10
  Page = 4
  RateScale = 20
  MaxNanos = 6
  Overheads <- OverheadSet
  FakeDraws <- Draws
  Rusages <- EdgeRusages
SPECIFICATION Spec
INVARIANTS
  HonestRunIsAccepted
  AggregateBoundsAreTight
  SummaryIsExact
  AccountingIsExact
