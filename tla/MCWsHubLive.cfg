CONSTANTS
  Clients = {c1, c2}
  Symbol <- OneSymbol
  Symbols = {s1}
  Users = {u1}
  Nobody = Nobody
  Payloads <- AllMessages
  QueueSize = 1
  MaxDropped = 1
  MaxPerSymbol = 2
  MaxConnections = 2
  MaxSymbols = 1
  MaxMessages = 1
  MaxAuths = 1
  MaxErrors = 0
SPECIFICATION FairSpec
INVARIANT
  NoAlertToStranger
PROPERTY
  PushedEventually
CHECK_DEADLOCK FALSE
