\* Two calls of sample and one of compute_logprobs; tight limits, and one failure, rejection or cancellation.
CONSTANTS
  Calls = {s1, s2, l1}
  Gates = {"outstanding", "count", "profile", "throttled"}
  MaxLimit = 10
  Logprobs = {l1}
  Profile = "auto"
  Servers <- TightOrSilent
  Pending = {1, 3}
  MaxCount = 2
  Sizes = {1, 3}
  MaxSize = 3
  MaxBytes = 2
  None = None
  MaxFailures = 1
SPECIFICATION FairSpec
INVARIANTS
  RecommendationKept
  CounterCountsInside
  NoCallForgotten
PROPERTY EveryRequestEnds
\* All calls may have ended.
CHECK_DEADLOCK FALSE
