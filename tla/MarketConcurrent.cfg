SPECIFICATION Spec
SYMMETRY Sym
CONSTANTS
  Procs = {p1, p2}
  BarLen = 2
  BarsPerDay = 3
  Weekend = {}
  Lookback = 1
  TickLookback = 1
  MaxAttempts = 1
  Ranges <- ShortRange
  Exclusive = FALSE
  Horizon = 3
  MaxRevisions = 1
  MaxCalls = 2
  MaxCrashes = 1
CHECK_DEADLOCK FALSE
INVARIANTS
  CursorCovered
