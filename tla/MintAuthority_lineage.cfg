\* Races for the lineage head, reused keys, resets, budgets: one attester, one model.
SPECIFICATION Spec
CONSTANTS
  m1 = m1  k1 = k1  k2 = k2  k3 = k3  c1 = c1  c2 = c2  c3 = c3  w1 = w1
  Models = {m1}
  Keys = {k1, k2, k3}
  Commitments = {c1, c2, c3}
  NoCommitment = none
  Accounts = {1}
  Requests <- LineageRequests
  SignedBy <- OneSigns
  Capped = {}
  CapMultiplier = 100
  RateLimit = 1
  Contributors = {}
  LegacyDeltas = {}
  LegacyWeights = {}
  BudgetAmounts = {2, 3}
  Rates = {1}
  MinImprovements = {100}
  MaxRewards = {5}
  MaxSigs = 1
  MaxTime = 1
  MaxGovOps = 7
INVARIANTS TypeOK KeysResolveOnce LineageRebuildable PaymentsMatchLineage BudgetAccountsForMints
PROPERTIES ImplementsLedger
CHECK_DEADLOCK FALSE
