CONSTANTS
  Tasks = {t1, t2}
  HashTtl = 4
  PricedTtl = 8
  TaskTime = 1
  PricingTime = 1
  MaxRetries = 2
  MaxVersion = 2
  MaxFailures = 1
  Workers = {w1, w2}
  Interval = 5
  Ttl = 4
  Period = 1
  Delay = 1
  MaxBurnt = 1
  ChannelLists <- ListsOfThree
  MaxAttempts = 3
  Symbols = {s1, s2}
  NoSymbol = NoSymbol
  MaxTime = 2
  MaxLoads = 3
  MaxInFlight = 1
  MaxSwitches = 3
  MaxDrops = 3
  Adapters = {1, 2}
  Calls = {1, 2}
  AdapterOf <- OwnAdapter
  TokenLife = 6
  Margin = 2
  LoginDelay = 1
  LastSecond = 7
SPECIFICATION ServicesSpec
SYMMETRY Interchangeable
INVARIANTS
  ServicesTypeOK
  ChainIsTimely
  ViewersAreServed
  DeliveryIsHonest
  ScreenFollowsChoice
  CachedTokenIsLive
PROPERTIES
  OneDispatchPerSlot
  PriceMovesForward
  LoginsAreSpaced
CHECK_DEADLOCK FALSE
