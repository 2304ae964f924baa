CONSTANTS
  Requests = {r1, r2, r3}
  NoRequest = NoRequest
  MaxFaults = 2
  Clients = {c1, c2}
  Nobody = Nobody
  MaxProxyFaults = 1
SPECIFICATION RequestsSpec
INVARIANTS
  RequestsTypeOK
  FailuresHaveReasons
PROPERTIES
  NoForeignRelease
  EveryoneIsAnswered
CHECK_DEADLOCK FALSE
