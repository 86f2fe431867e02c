SPECIFICATION Spec
CONSTANTS
  k = k
  NoId = NoId
  BadId = BadId
  NoKey = NoKey
  BadKey = BadKey
  Ids = {1, 2, 3}
  Existing = {1, 2}
  Stampless = {}
  Keys = {k}
  Submissions <- MCSubmissions
  MaxOperations = 2
  MaxEdits = 1
INVARIANTS
  SavedPlansAreWellFormed
  StalenessShows
  AmbiguityRefused
  RejectionIsComplete
CHECK_DEADLOCK FALSE
