\* A combined and a single future, whose answers exceed what is left of the budget; one fault.
CONSTANTS
  p1 = p1
  p2 = p2
  p3 = p3
  combined = combined
  single = single
  Polls = {p1, p2, p3}
  Callers = {combined, single}
  PollsOf <- PollsOfBoth
  SyncCallers = {single}
  Sizes = {2}
  MaxSize = 2
  MaxBytes = 1
  MaxBadRequests = 1
  MaxFaults = 1
SPECIFICATION FairSpec
INVARIANTS
  BytesAccounted
  BudgetKept
PROPERTIES
  ImplementsByteBudget
  EveryPollEnds
  CallersReturn
\* All polls may have ended and all callers returned.
CHECK_DEADLOCK FALSE
