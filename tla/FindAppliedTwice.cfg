SPECIFICATION Spec
CONSTANTS
  g = g
  g2 = g2
  c = c
  gateway = gateway
  shell = shell
  k = k
  NoPlan = NoPlan
  NoId = NoId
  NoKey = NoKey
  Nobody = Nobody
  Procs = {g, c}
  Host <- MCHost
  Operators = {c}
  Settings <- MCGated
  Ids = {1, 2}
  Existing = {1}
  Stampless = {}
  Parent <- MCNoParent
  Keys = {k}
  Plans <- OneStep
  Requests <- WithCheck
  Faults = {}
  MaxCalls = 3
  MaxEdits = 0
INVARIANTS
  AtMostOnce
CHECK_DEADLOCK FALSE
