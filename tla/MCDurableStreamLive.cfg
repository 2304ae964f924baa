CONSTANTS
  Messages = {m1}
  Consumers = {c1, c2}
  MaxRetries = 1
  BatchSize = 2
  ClaimCount = 1
  MaxLen = 1
  Budget <- AllFaults
SPECIFICATION FairSpec
PROPERTIES
  ImplementsAtLeastOnce
  EventuallySettled
CHECK_DEADLOCK FALSE
