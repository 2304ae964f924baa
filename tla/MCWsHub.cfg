CONSTANTS
  Clients = {c1, c2}
  Symbol <- OneSymbol
  Symbols = {s1}
  Users = {u1}
  Nobody = Nobody
  Payloads <- MarketData
  QueueSize = 1
  MaxDropped = 1
  MaxPerSymbol = 2
  MaxConnections = 2
  MaxSymbols = 1
  MaxMessages = 3
  MaxAuths = 0
  MaxErrors = 1
SPECIFICATION Spec
SYMMETRY SameClients
INVARIANTS
  TypeOK
  InOrder
  TasksFollowViewers
CHECK_DEADLOCK FALSE
