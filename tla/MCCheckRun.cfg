SPECIFICATION FairSpec
CONSTANTS
  scheduler = scheduler
  startup = startup
  handler = handler
  Callers <- MCCallers
  Scoped <- MCScoped
  Timed <- MCTimed
  MaxTasks = 2
  MaxBoots = 3
INVARIANTS
  OneRunAtATime
  NoCheckDuringUpdate
  CleanShutdown
  OpenTasksAccounted
  UsageBookedOnce
PROPERTIES
  SettledTruthfully
  ImplementsService
  TasksSettle
  ShutdownEnds
