SPECIFICATION FairSpec
CONSTANTS
  e1 = e1
  e2 = e2
  Emitters = {e1, e2}
  MaxEvents = 1
  MaxWorkers = 2
  NSinks = 2
  QueueSize = 1
  Retries = 2
INVARIANTS
  FileFirst
  FlushMeansSettled
PROPERTIES
  KeepsPromise
  EveryRecordSettles
  EveryEmitEnds
CHECK_DEADLOCK FALSE
