\* Two calls that never meet at the queue's limit; a retry and its wait.
CONSTANTS
  Calls = {c1, c2}
  Semantic = {c1}
  Lifecycle = {c2}
  NoCall = none
  Cancellable = {c2}
  Expirable = {c1}
  Reports = {"degraded"}
  MaxConcurrent = 1
  Capacity = 1
  MaxRetries = 1
  MaxIds = 3
SPECIFICATION FairSpec
PROPERTIES NoneWaitsInVain ExitReachesCalls
CHECK_DEADLOCK FALSE
