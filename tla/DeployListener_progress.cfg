\* Failing RPC calls, no crash, Redis answers: every message settles.
SPECIFICATION FairSpec
CONSTANTS
  Ids = {a, b}
  Malformed = {}
  Unsupplied = {b}
  Workers = {w1, w2}
  NoMessage = nothing
  maxRetries = 1
  maxAttempts = 2
  Registries = {TRUE, FALSE}
  Networks = {TRUE, FALSE}
  MaxDeliveries = 2
  MaxRpcFaults = 2
  MaxRedisFaults = 0
  MaxCrashes = 0
PROPERTIES EveryMessageSettles ReadyModelsAreAnnounced
CHECK_DEADLOCK FALSE
