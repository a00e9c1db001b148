\* An RPC that cannot be pickled races with a shutdown.
CONSTANTS
  Rpcs = {r1}
  Register = reg
  Unregister = unreg
  None = none
  MaxBadPayloads = 1
  MaxSilent = 0
  MaxUnread = 0
  MaxBreaks = 0
SPECIFICATION Spec
INVARIANT SubmitNeverRaisesInvalidState
CHECK_DEADLOCK FALSE
