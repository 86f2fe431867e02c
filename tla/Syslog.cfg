SPECIFICATION Spec
CONSTANTS
  NRecords = 3
  Retries = 2
  MaxTroubles = 3
INVARIANTS
  FramesIntact
  LossesHaveCause
  ClosedMeansClosed
CHECK_DEADLOCK FALSE
