CONSTANTS
  Messages = {m1, m2}
  Consumers = {c1, c2}
  MaxRetries = 1
  BatchSize = 2
  ClaimCount = 1
  MaxLen = 10
  Budget <- ConsumerFaults
SPECIFICATION Spec
SYMMETRY SameConsumers
INVARIANTS
  TypeOK
  NoSilentLoss
  DeadLetterAfterAllRetries
  DuplicatesNeedFaults
CHECK_DEADLOCK FALSE
