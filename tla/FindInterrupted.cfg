SPECIFICATION Spec
CONSTANTS
  g = g
  g2 = g2
  c = c
  gateway = gateway
  shell = shell
  k = k
  NoPlan = NoPlan
  NoId = NoId
  NoKey = NoKey
  Nobody = Nobody
  Procs = {g, c}
  Host <- MCHost
  Operators = {c}
  Settings <- MCFull
  Ids = {1, 2}
  Existing = {1}
  Stampless = {}
  Parent <- MCNoParent
  Keys = {k}
  Plans <- OneStep
  Requests <- CoreRequests
  Faults = {"crash"}
  MaxCalls = 2
  MaxEdits = 0
INVARIANTS
  InterruptedIsRollbackable
CHECK_DEADLOCK FALSE
