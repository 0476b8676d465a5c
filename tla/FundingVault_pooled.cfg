\* Two proposals share the vault; cancellations, foreign pools, gifts, rounding.
SPECIFICATION Spec
CONSTANTS
  m1 = m1  m2 = m2
  Models = {m1, m2}
  Users = {u1, u2}
  Amounts = {1, 2}
  Purchases = {5}
  Deadlines = {0}
  MaxCommitted <- Bounds
  MaxGifts = 1
  MaxTime = 1
INVARIANTS VaultSolvent SnapshotExact SharesAccounted DepositorsCanExit
PROPERTIES SweepLeavesNoClaim ImplementsEscrow
CHECK_DEADLOCK FALSE
