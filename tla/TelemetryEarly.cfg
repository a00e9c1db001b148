\* An event is flushed before it is counted.
CONSTANTS
  Fatal = {f1}
  Foreign = {}
  Plain = {p1}
  SessionStart = start
  MaxBatchSize = 2
  MaxQueueSize = 9
  MaxErrors = 0
  MaxRaises = 0
  MaxStops = 0
SPECIFICATION Spec
INVARIANT DrainedMeansSent
\* Nobody has to log.
CHECK_DEADLOCK FALSE
