SPECIFICATION AccountsSpec
CONSTANTS
  u1 = u1
  u2 = u2
  c1 = c1
  c2 = c2
  Users = {u1, u2}
  Clients = {c1, c2}
  MaxTokens = 3
  MaxHash = 2
  MaxEdits = 2
  SessionLimit = 1
SYMMETRY Symmetric
CHECK_DEADLOCK FALSE
INVARIANTS
  AnAdministratorRemains
  SessionsAreCurrent
