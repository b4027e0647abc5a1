SPECIFICATION AdminSpec
CONSTANTS
  MaxTasks = 2
  Allowances <- Allowed
  MaxEdition = 2
  MaxPage = 1
  MaxRequests = 3
  Providers = {p1, p2}
  Configured = {p1}
  Mine = {m1, m2}
  Theirs = {o1}
  AllRows = all
  Filters = {all, f1}
INVARIANTS
  ProvidersStay
  EditsAreKept
  RowsAnswerTheQuery
PROPERTIES
  OverviewFollows
  ButtonsComeBack
CHECK_DEADLOCK FALSE
