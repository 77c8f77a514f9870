SPECIFICATION FredFairSpec
CONSTANTS
    Series <- TwoSeries
    Unknown = "unknown"
    MaxRetries = 2
    Threshold = 2
    Reset = 1
    TTL = 2
    DayLen = 1
    StaleDays = 0
INVARIANTS FailuresSpaced
PROPERTIES SourceComesBack
CHECK_DEADLOCK FALSE
