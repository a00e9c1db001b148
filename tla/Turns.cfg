\* Three calls, with one failure, one retry and one cancellation anywhere.
CONSTANTS
  Calls = {c1, c2, c3}
  MaxChunks = 2
  MaxRetries = 1
  MaxFailures = 1
  MaxCancels = 1
SPECIFICATION FairSpec
INVARIANTS
  OneRequestAtATime
  TurnAssertionsHold
  NoMissedWakeup
  EveryIdHasAnOwner
PROPERTIES
  ImplementsOrderedDispatch
  OnlyLostIdsBlock
\* The calls end, or wait for a turn that never comes (TurnsLost.cfg).
CHECK_DEADLOCK FALSE
