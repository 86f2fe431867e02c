SPECIFICATION Spec
CONSTANTS
  update = update
  create = create
  delete = delete
  NoKey = NoKey
  Entries = {1, 2}
  Key <- MCKey
  Skew = 2
  MaxTime = 4
  MaxRollbacks = 2
  MaxForeign = 1
  MaxOffset = 2
INVARIANTS
  OneOwner
  OwnLinked
CHECK_DEADLOCK FALSE
