SPECIFICATION FairSpec
CONSTANTS
  Procs = {p1}
  BarLen = 2
  BarsPerDay = 1
  Weekend = {}
  Lookback = 1
  TickLookback = 1
  MaxAttempts = 2
  Ranges <- LongRange
  Exclusive = TRUE
  Horizon = 4
  MaxRevisions = 0
  MaxCalls = 2
  MaxCrashes = 1
CHECK_DEADLOCK FALSE
INVARIANTS
  CursorArchived
  GapsReported
  BackfillComplete
PROPERTIES
  CallsRunOut
  CallsReturn
