SPECIFICATION CommandsSpec
CONSTANTS
  p1 = p1
  p2 = p2
  i1 = i1
  i2 = i2
  tail = tail
  mid = mid
  NoId = NoId
  Nobody = Nobody
  Procs = {p1, p2}
  Ids = {i1, i2}
  Attempts = 2
  MaxVersions = 3
  Crashes = TRUE
  Fragments = {tail, mid}
  EndsWith <- MCEndsWith
  Contains <- MCContains
  Operators = {p1}
INVARIANTS
  FreshReads
  CreatesNeverCollide
  LastSaveKept
PROPERTIES
  StaysReadable
  ShownIsMeant
CHECK_DEADLOCK FALSE
