SPECIFICATION Spec
CONSTANTS
  FailureThreshold = 2
  RecoveryThreshold = 1
  NotifyOnRecovery = TRUE
  Cooldown = TRUE
  Seen = {"ok", "slow", "error"}
  MaxEdits = 1
  MaxConnections = 1
  Allowances <- FewDisturbances
INVARIANTS
  AlertsHaveEvidence
PROPERTIES
  LastingFaultIsTold
  NoticesAreNotReplayed
