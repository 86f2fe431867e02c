SPECIFICATION Spec
CONSTANTS
  g = g
  g2 = g2
  c = c
  gateway = gateway
  shell = shell
  k = k
  NoPlan = NoPlan
  NoId = NoId
  NoKey = NoKey
  Nobody = Nobody
  Procs = {g, c}
  Host <- MCHost
  Operators = {c}
  Settings <- MCFull
  Ids = {1, 2, 3, 4, 5}
  Existing = {1, 2}
  Stampless = {}
  Parent <- MCNoParent
  Keys = {k}
  Plans <- CorePlans
  Requests <- WithForce
  Faults = {"reject", "crash", "store"}
  MaxCalls = 3
  MaxEdits = 1
INVARIANTS
  TypeOK
  OneRunner
  AtMostOnce
  AppliedIsComplete
  RolledBackRestores
  NoBlindOverwrite
  InverseAtMostOnce
PROPERTIES
  NewestFirst
  ImplementsLifecycle
CHECK_DEADLOCK FALSE
