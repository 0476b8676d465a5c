SPECIFICATION ServicesSpec
CONSTANTS
  Ids = {1, 2}
  Names = {"1", "01"}
  ParseModelId <- ParseName
  Tokens = {"t1", "t2"}
  Pools = {"p1", "p2"}
  None = "none"
  MaxNextId = 3
  MaxPauseBatch = 2
  RecordModels = {"m1", "m2"}
  Contributors = {"a", "b"}
  Hashes = {"h1", "h2"}
  Earnings = {2}
  MaxContributions = 3
  MaxWhole = 2
  TokenUnit = 10
  MinRate = 10
  MaxRate = 30
  MinBps = 5
  MaxBps = 9
  Values = {1, 2, 7, 25}
  PriceEpoch = 2
  MaxParamClock = 6
  Requests = {r1, r2}
  NoRequest = NoRequest
  MaxRedisFailures = 2
  MaxExpiries = 2
  MaxCrashes = 1
  Readings <- PoolReadings
  Slots = {1, 2}
  NoPoll = NoPoll
  PollsPerTick = 1
  MaxHistory = 4
  ReserveWindow = 2
  AnHour = 2
  PausedLimit = 1
  DropLimit = 50
  PriceLimit = 50
  SupplyLimit = 50
  MinReserve = 2
  ValidReserve = 1
  MaxFees = 1
  MaxTicks = 4
  AlertKeys = {"low", "drop", "whale"}
  TypesOfAlerts = {"state", "event"}
  TypeOf <- AlertType
  Hour = 1
  Day = 2
  MaxPerHour = 2
  MaxPerDay = 3
  DedupWindow = 1
  MaxTime = 3
  MaxRecords = 4
  WatchedPools = {"w1", "w2"}
  Main = "main"
  MaxReadFailures = 1
  Models = {fm1, fm2}
  Costs = {3000}
  MaxCost = 3000
  EpochDurations = {2, 3}
  EffectiveEpochs = {0, 1}
  MaxClock = 3
  ReconciliationPeriods = {1, 2}
  MaxPeriod = 1
  MaxManual = 1
  FeeAmounts = {4}
  CallCounts = {2}
  Withdrawals = {2}
  AccrualRates = {1000, 5000}
  Ceilings = {5000, 10000}
  CostAges = {0, 1}
  MaxCollected = 8
  MaxAdminOps = 2
  Events <- EventNames
  EventOf <- EventTable
  LargeTrade = 3
  TradeWindow = 1
  AlertsKept = 1
  ErrorsKept = 1
  EventsKept = 2
  ErrorLimit = 0
  MaxWatchTime = 3
  BilledModels = {"x", "y"}
  Invoices <- TwoInvoices
  Balances = {1, 5}
  VarianceWarning = 5
  WarnDays = 2
  CriticalDays = 1
  Cycles = {1}
  HistoryKept = 2
  RecentDays = 0
  MaxInvoices = 3
  LastDay = 2
  BeatInterval = 2
  RpcTimeout = 1
  StaleLimit = 1
  StuckLimit = 1
  MaxBeatTime = 5
  MaxBlocks = 2
  MaxOutages = 2
  MaxTaken = 3
INVARIANTS RegistrySound RecordsSound ParamsSound DeploymentsSound ServicesSound FeesAccounted
PROPERTIES StepsSound FeesSplitSoundly
CHECK_DEADLOCK FALSE
