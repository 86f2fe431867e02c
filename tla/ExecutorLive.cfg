SPECIFICATION FairSpec
CONSTANTS
  g = g
  g2 = g2
  c = c
  gateway = gateway
  shell = shell
  k = k
  NoPlan = NoPlan
  NoId = NoId
  NoKey = NoKey
  Nobody = Nobody
  Procs = {g, g2, c}
  Host <- MCHost
  Operators = {c}
  Settings <- MCFull
  Ids = {1, 2}
  Existing = {1}
  Stampless = {}
  Parent <- MCNoParent
  Keys = {k}
  Plans <- OnePlan
  Requests <- EveryTool
  Faults = {"reject", "age", "retention", "store"}
  MaxCalls = 3
  MaxEdits = 0
PROPERTIES
  EveryCallEnds
  NoPlanStaysInFlight
CHECK_DEADLOCK FALSE
