\* One chunk of one call fails: the ids of its later chunks get no turn.
CONSTANTS
  Calls = {c1, c2}
  MaxChunks = 2
  MaxRetries = 0
  MaxFailures = 1
  MaxCancels = 0
SPECIFICATION FairSpec
PROPERTY WaitersGetTheirTurn
CHECK_DEADLOCK FALSE
