CONSTANTS
  Tasks = {t1, t2}
  HashTtl = 4
  PricedTtl = 8
  TaskTime = 1
  PricingTime = 1
  MaxRetries = 2
  MaxVersion = 1
  MaxFailures = 1
SPECIFICATION Spec
SYMMETRY SameTasks
INVARIANT
  NeverStale
CHECK_DEADLOCK FALSE
