SPECIFICATION AuditedSpec
CONSTANTS
  g = g
  g2 = g2
  c = c
  gateway = gateway
  shell = shell
  k = k
  NoPlan = NoPlan
  NoId = NoId
  NoKey = NoKey
  Nobody = Nobody
  Procs = {g, c}
  Host <- MCHost
  Operators = {g, c}
  Settings <- MCLinked
  Ids = {1, 2, 3, 4, 5}
  Existing = {1, 2}
  Stampless = {2}
  Parent <- MCParent
  Keys = {k}
  Plans <- FaultPlans
  Requests <- FaultRequests
  Faults = {"reject", "lost", "crash", "age", "store", "audit"}
  MaxCalls = 3
  MaxEdits = 0
SYMMETRY Swap
INVARIANTS
  JournalAccounts
  ConflictsHaveCause
  TrailAgrees
CHECK_DEADLOCK FALSE
