SPECIFICATION FairSpec
CONSTANTS
  auto = auto
  fixed = fixed
  m1 = m1
  m2 = m2
  Order <- MCOrder
  Automatic = {auto}
  Models = {m1, m2}
  Concurrency = 3
  ProviderConcurrency = 2
  DailyLimit = 4
INVARIANTS
  LimitsKept
  SuccessIsComplete
  ConfirmedAreKept
  LateRequestsBounded
PROPERTIES
  RunEnds
