\* Two fatal errors, one awaited on another loop, in batches of two; the queue may be full, sending fail or raise, the endpoint be missing, the holder be closed.
CONSTANTS
  Fatal = {f1, f2}
  Foreign = {f2}
  Plain = {}
  SessionStart = start
  MaxBatchSize = 2
  MaxQueueSize = 4
  MaxErrors = 1
  MaxRaises = 1
  MaxStops = 1
SPECIFICATION FairSpec
INVARIANTS
  NothingLostOrReordered
  NobodyWaitsInVain
PROPERTY FatalCallsReturn
\* Nobody has to log.
CHECK_DEADLOCK FALSE
