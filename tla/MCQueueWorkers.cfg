SPECIFICATION FairWorkersSpec
CONSTANTS
    j1 = j1
    j2 = j2
    t1 = t1
    w1 = w1
    w2 = w2
    c1 = c1
    NoKey = NoKey
    AnyType = AnyType
    Procs = {w1, w2, c1}
    Workers = {w1, w2}
    JobIds = {j1, j2}
    Types = {t1}
    Filters = {AnyType}
    Keys = {}
    Checkpoints = {}
    Requests <- MCRequests
    LeaseSeconds = 1
    CircuitThreshold = 2
    MaxClock = 2
    MaxDeadLetters = 2
    LateWorkers = {}
    CancelHeld = FALSE
    MaxCrashes = 1
    LastSubmit = 0
CHECK_DEADLOCK FALSE
INVARIANTS
    LeaseExclusive
    RetryBudget
PROPERTIES
    CheckpointForward
    ImplementsLifecycle
    EveryJobEnds
