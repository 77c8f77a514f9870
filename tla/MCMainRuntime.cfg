SPECIFICATION Spec
CONSTANTS
  Procs = {p1}
  Tasks <- MCTasks
  Plans <- MCPlans
  Values = {1, 2}
  MaxRetries = 1
  MaxHops = 3
  Exclusive = TRUE
  MaxCrashes = 1
  MaxAudit = 9
CHECK_DEADLOCK FALSE
INVARIANTS
  DispatchBudget
  CheckpointReadable
PROPERTIES
  RecordedNotRedispatched
