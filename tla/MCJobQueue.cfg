SPECIFICATION Spec
CONSTANTS
    j1 = j1
    j2 = j2
    k1 = k1
    t1 = t1
    p1 = p1
    p2 = p2
    NoKey = NoKey
    AnyType = AnyType
    Procs = {p1, p2}
    JobIds = {j1, j2}
    Types = {t1}
    Filters = {AnyType}
    Keys = {k1}
    Checkpoints = {1}
    Requests <- MCRequests
    LeaseSeconds = 1
    CircuitThreshold = 2
    MaxClock = 2
    MaxDeadLetters = 2
SYMMETRY ProcSymmetry
CHECK_DEADLOCK FALSE
INVARIANTS
    TableConsistent
PROPERTIES
    LiveLeaseNotHandedOut
