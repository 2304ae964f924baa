CONSTANTS
  Messages = {m1}
  Consumers = {c1}
  MaxRetries = 1
  BatchSize = 1
  ClaimCount = 1
  MaxLen = 10
  Budget <- OneWipe
SPECIFICATION FairSpec
PROPERTY
  SettledAfterRestart
CHECK_DEADLOCK FALSE
