CONSTANTS
  Rules = {r1}
  Condition <- IvCondition
  Threshold <- IvThreshold
  Cooldown <- OneSecond
  Evaluators = {e1, e2}
  Snapshots <- IvSnapshots
  NoValue = NoValue
  MaxRetries = 1
  MaxEvents = 3
  MaxTime = 2
  MaxFaults = 1
SPECIFICATION Spec
SYMMETRY SameEvaluators
INVARIANTS
  TypeOK
  AlertsFollowTransitions
  CooldownRespected
  StateIsLastVerdict
CHECK_DEADLOCK FALSE
