SPECIFICATION Spec
CONSTANTS
  u1 = u1
  u2 = u2
  page1 = page1
  Users = {u1, u2}
  Clients = {page1}
  Page = page1
  Mine = {u1}
  MaxTokens = 2
  MaxHash = 2
  MaxEdits = 1
  SessionLimit = 1
CHECK_DEADLOCK FALSE
INVARIANTS
  EndedStaysEnded
PROPERTIES
  PageCatchesUp
