\* Every layer below the public clients, with few calls and one fault of each kind.
CONSTANTS
  Threads = {t1, t2}
  None = None
  MaxBeats = 1
  Samplings = {s1, s2}
  Base = 5
  MaxBase = 1
  Samples = {s1, s2}
  Pools = {h1, h2}
  Profile = "auto"
  MaxRejections = 2
  Handled = {r1, r2, r3}
  MaxConnections = 2
  Timeout = 3
  MaxDelay = 2
  MaxDoublings = 1
  Calls = {c1, c2}
  MaxRetries = 1
  MaxAttempts = 2
  ArchiveTries = 2
  PerClient = 1
  RetryBudget = 1
  MaxUses = 3
  MaxBody = 5
  Flows = {f1, f2}
  MaxCustom = 1
  MaxSteps = 1
SPECIFICATION MCSpec
INVARIANTS
  HoldersAreShared
  NoiseIsProven
  HandlerAccounts
  ClientsNotOverloaded
  OneEffectPerAttempt
  ResponsesAreWhole
  GradientsAreCurrent
PROPERTIES
  PausedIsRemembered
  CallsEnd
\* Calls end.
CHECK_DEADLOCK FALSE
