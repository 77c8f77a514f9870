SPECIFICATION FairSpec
CONSTANTS
  Procs = {p1, p2}
  Tasks <- MCTasks
  Plans <- MCChain
  Values = {}
  MaxRetries = 0
  MaxHops = 3
  Exclusive = FALSE
  MaxCrashes = 1
  MaxAudit = 1
CHECK_DEADLOCK FALSE
INVARIANTS
  AuditCovers
  KeysClosed
PROPERTIES
  StepsRunOut
  EveryExecutionReturns
