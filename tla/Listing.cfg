SPECIFICATION Spec
CONSTANTS
  Objects = {1, 2, 3, 4, 5}
  PageCap = 2
  MaxEdits = 3
  Statuses = {0, 200, 403, 404, 500}
  Calls <- MCCalls
INVARIANTS
  ListingDriftsWithEdits
  LookupsHoldAtOneMoment
  RequestsAreBounded
  ErrorsAreNotListings
CHECK_DEADLOCK FALSE
