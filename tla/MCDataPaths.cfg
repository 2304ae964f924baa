CONSTANTS
  Quotes <- SixQuotes
  Studies <- FiveStudies
  Holding = 3
  StopLoss = 35
  TakeProfit = 60
  SttChanges <- TaxRises
  Lot = 50
  Dates = {1, 2, 3}
  Archives <- TwoArchives
  Threads = 2
  MaxBuilds = 3
  MaxFaults = 2
  MaxFailures = 2
  Expiries = {0, 1, 2}
  DayLength = 2
  MaxRefused = 1
  MaxTime = 4
  Names = {"listed", "local", "BAJAJ-AUTO"}
  Live = {"listed", "local", "BAJAJ-AUTO"}
  Local = {"local"}
  Plain = {"listed", "local"}
  Lookups = {l1, l2}
  NoThread = NoThread
  MaxEntries = 1
  VerdictTtl = 1
  Horizon = 1
  Tasks = {p1, p2, p3}
  NoTask = NoTask
  MaxPools = 3
  Callers = {t1, t2}
  Backoff = 2
  MaxClients = 2
  LastSecond = 3
  Periods <- FivePeriods
  Histories <- TwoHistories
  NaN = NaN
  FirstDay = 4
  MaxDay = 6
  Widest = 4
  Lookback = 2
  Kept = 2
  Enough = 2
  Wings = 2
  Shapes <- TwoShapes
  ChainTtl = 2
  PriceTtl = 1
  PricedTtl = 2
  HistoryTtl = 2
  HvTtl = 2
  Patience = 1
  Lag = 2
  MaxClock = 3
  Runners = {r1, r2}
  Scripts = {0, 1, 2}
  MaxRuns = 4
SPECIFICATION PathsSpec
INVARIANTS
  PathsTypeOK
  BooksAreHonest
  BridgeAgrees
  FaultsExplainGaps
  MarketIsTold
  VerdictsAreSound
  ClientsAreKept
  ExportIsHonest
  AnswersAreOfNow
  MigrationsAreSound
PROPERTIES
  StudyIsOneBuild
CHECK_DEADLOCK FALSE
