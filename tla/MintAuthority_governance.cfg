\* Attesters and their threshold, the legacy entrypoints and their shutdown,
\* pausing, model status.
SPECIFICATION Spec
CONSTANTS
  m1 = m1  k1 = k1  k2 = k2  k3 = k3  c1 = c1  c2 = c2  c3 = c3  w1 = w1
  Models = {m1}
  Keys = {k1, k2}
  Commitments = {c1, c2}
  NoCommitment = none
  Accounts = {1, 2}
  Requests <- AttestedRequests
  SignedBy <- PayersSignedTwice
  Capped = {m1}
  CapMultiplier = 3
  RateLimit = 1
  Contributors = {w1}
  LegacyDeltas = {100}
  LegacyWeights = {10000, 5000}
  BudgetAmounts = {1}
  Rates = {1, 2}
  MinImprovements = {100, 200}
  MaxRewards = {1, 5}
  MaxSigs = 2
  MaxTime = 2
  MaxGovOps = 6
INVARIANTS QuorumReachable
PROPERTIES QuorumBehindEveryResolution OnlyAttestedMintsAfterCutover ClosedModelsMintNothing
CHECK_DEADLOCK FALSE
