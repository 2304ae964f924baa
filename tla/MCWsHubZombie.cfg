CONSTANTS
  Clients = {c1}
  Symbol <- OneSymbol
  Symbols = {s1}
  Users = {u1}
  Nobody = Nobody
  Payloads <- MarketData
  QueueSize = 1
  MaxDropped = 1
  MaxPerSymbol = 1
  MaxConnections = 1
  MaxSymbols = 1
  MaxMessages = 1
  MaxAuths = 0
  MaxErrors = 0
SPECIFICATION FairSpec
PROPERTY
  CleanedUpAfterSender
CHECK_DEADLOCK FALSE
