SPECIFICATION Spec
CONSTANTS
  MaxReports = 1
  MaxWire = 1
CHECK_DEADLOCK FALSE
INVARIANTS
  NeverStranded
  NewestOnTheWay
  NothingAfterRevocation
PROPERTIES
  AnswersOnlyAdvance
  Converges
  RevocationReachesThePage
