\* The command delete is given the paths of checkpoints.
SPECIFICATION Spec
CONSTANTS
  MaxCheckpoints = 3
  Batch = 2
  MaxCommands = 2
  MaxOthers = 1
  Processes = {p1, p2}
  MaxPolls = 2
  MaxAttempts = 2
  Keys = {k1, k2}
  MaxCloses = 2
  MaxRetries = 1
  MaxRuns = 2
  MaxTrials = 2
  MaxEdits = 1
  MaxLines = 3
  MaxFiles = 4
  MaxVersions = 2
  MaxFrames = 1
  MaxEpisodes = 2
  MaxDatasets = 2
INVARIANT ExplicitPathsAreDeleted
CHECK_DEADLOCK FALSE
