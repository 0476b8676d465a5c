\* Two listeners, two models, one malformed, delivered twice, failing calls and a crash.
SPECIFICATION Spec
CONSTANTS
  Ids = {a, b}
  Malformed = {b}
  Unsupplied = {}
  Workers = {w1, w2}
  NoMessage = nothing
  maxRetries = 1
  maxAttempts = 2
  Registries = {TRUE}
  Networks = {TRUE, FALSE}
  MaxDeliveries = 2
  MaxRpcFaults = 2
  MaxRedisFaults = 2
  MaxCrashes = 1
INVARIANTS MessagesAccounted FinishedMeansRegistered AnnouncedOnce
PROPERTIES ImplementsLaunch
SYMMETRY Listeners
CHECK_DEADLOCK FALSE
