SPECIFICATION Spec
CONSTANTS
  scheduler = scheduler
  startup = startup
  handler = handler
  Callers <- MCCallers
  Scoped <- MCScoped
  Timed <- MCTimed
  MaxTasks = 2
  MaxBoots = 2
PROPERTIES
  StopCancels
