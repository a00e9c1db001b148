\* One target, two RPCs through its handle, a bad payload, an RPC that is
\* cancelled in the subprocess, a response that is lost or cannot be read; the
\* process may die, the queue may break.
CONSTANTS
  Rpcs = {r1, r2}
  Register = reg
  Unregister = unreg
  None = none
  MaxBadPayloads = 1
  MaxSilent = 1
  MaxUnread = 1
  MaxBreaks = 1
SPECIFICATION FairSpec
INVARIANTS
  NoFutureLost
  NothingPendingAfterTheEnd
  LiveHandleFindsTarget
PROPERTY OnlySilenceLeavesPending
\* The sidecar may be idle, or shut down.
CHECK_DEADLOCK FALSE
