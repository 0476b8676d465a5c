\* Two workers, a failing call (executed or not), a crash, an empty budget, and an operator on
\* the dead letters; a request may be delivered twice.
SPECIFICATION RelaySpec
CONSTANTS
  m1 = m1  k1 = k1  k2 = k2  c1 = c1  c2 = c2  c3 = c3  w1 = w1  w2 = w2
  Models = {m1}
  Keys = {k1, k2}
  Commitments = {c1, c2}
  NoCommitment = none
  Accounts = {1}
  Requests <- ChainedRequests
  SignedBy <- Signers
  Capped = {}
  CapMultiplier = 100
  RateLimit = 1
  Contributors = {}
  LegacyDeltas = {}
  LegacyWeights = {}
  BudgetAmounts = {1}
  Rates = {1}
  MinImprovements = {100}
  MaxRewards = {5}
  MaxSigs = 1
  MaxTime = 1
  MaxGovOps = 1
  Workers = {w1, w2}
  NoWorker = nobody
  NoMessage = nothing
  Carried <- OneSignature
  Root = c1
  InitialBudget = 0
  maxRetries = 1
  budgetMaxRetries = 1
  MaxDeliveries = 2
  MaxFaults = 1
  MaxCrashes = 1
  MaxReplays = 1
INVARIANTS MessagesAccounted DoneMeansResolved MintsAnnouncedOnce
SYMMETRY Workmates
CHECK_DEADLOCK FALSE
