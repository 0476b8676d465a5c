\* One model, one trader, a supplier, the vault and the escrow, and the pool.
SPECIFICATION Spec
CONSTANTS
  m1 = m1  u1 = u1
  Models = {m1}
  Users = {u1}
  Supplier = supplier
  Vault = vault
  Escrow = escrow
  Manager = manager
  Pool = pool
  market = m1
  InitialSupply = 4
  SupplierAllocation = 4
  InvestorAllocation = 4
  RewardCapMultiplier = 1
  Policies <- VestingOrNot
  Fees = {1}
  Amounts = {4}
  Rewards = {4}
  MaxAdminOps = 1
  MaxTime = 2
  PRECISION = 1000
  PPM = 1000000
  Threshold = 8
  FlatPrice = 1
  TokenUnit = 1
  Spends = {4, 8, 12, 16}
  Sales = {4}
  Crrs = {500000}
  TradeFees = {1000}
  TradeLimits = {5000}
  IbrDuration = 1
  MaxReserve = 12
  MaxTokens = 8
  MaxSchedules = 2
  MaxGifts = 4
  MaxDonated = 4
  MaxEarned = 8
INVARIANTS TokensAccounted PoolAccounted LargerBuysBringMore
CHECK_DEADLOCK FALSE
