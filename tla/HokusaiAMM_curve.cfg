\* A buy that spends as much beyond the threshold as the threshold is.
SPECIFICATION Spec
CONSTANTS
  m1 = m1  u1 = u1
  Models = {m1}
  Users = {u1}
  Supplier = supplier
  Vault = vault
  Escrow = escrow
  Manager = manager
  Pool = pool
  market = m1
  InitialSupply = 6
  SupplierAllocation = 3
  InvestorAllocation = 30
  RewardCapMultiplier = 1
  Policies <- VestingOrNot
  Fees = {1}
  Amounts = {3}
  Rewards = {5}
  MaxAdminOps = 1
  MaxTime = 0
  PRECISION = 1000
  PPM = 1000000
  Threshold = 10
  FlatPrice = 1
  TokenUnit = 1
  Spends = {20}
  Sales = {3}
  Crrs = {1000000}
  TradeFees = {0}
  TradeLimits = {5000}
  IbrDuration = 0
  MaxReserve = 20
  MaxTokens = 30
  MaxSchedules = 1
  MaxEarned = 0
  MaxGifts = 0
  MaxDonated = 4
PROPERTIES CrossingBuysFollowFormula
CHECK_DEADLOCK FALSE
