\* The future that one RPC awaits in the subprocess is cancelled.
CONSTANTS
  Rpcs = {r1}
  Register = reg
  Unregister = unreg
  None = none
  MaxBadPayloads = 0
  MaxSilent = 1
  MaxUnread = 0
  MaxBreaks = 0
SPECIFICATION FairSpec
PROPERTY EveryFutureSettles
CHECK_DEADLOCK FALSE
