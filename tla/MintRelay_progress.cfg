\* Two failing calls, a crash, an empty budget and a pause; a retry that two
\* workers may both promote.
SPECIFICATION FairRelaySpec
CONSTANTS
  m1 = m1  k1 = k1  k2 = k2  c1 = c1  c2 = c2  c3 = c3  w1 = w1  w2 = w2
  Models = {m1}
  Keys = {k1, k2}
  Commitments = {c1, c2}
  NoCommitment = none
  Accounts = {1}
  Requests <- MixedRequests
  SignedBy <- Signers
  Capped = {}
  CapMultiplier = 100
  RateLimit = 1
  Contributors = {}
  LegacyDeltas = {}
  LegacyWeights = {}
  BudgetAmounts = {1}
  Rates = {1}
  MinImprovements = {100}
  MaxRewards = {5}
  MaxSigs = 1
  MaxTime = 2
  MaxGovOps = 2
  Workers = {w1, w2}
  NoWorker = nobody
  NoMessage = nothing
  Carried <- OneSignature
  Root = c1
  InitialBudget = 0
  maxRetries = 1
  budgetMaxRetries = 1
  MaxDeliveries = 1
  MaxFaults = 2
  MaxCrashes = 1
  MaxReplays = 0
PROPERTIES RequestsLeaveTheQueues MintsAreReported
CHECK_DEADLOCK FALSE
