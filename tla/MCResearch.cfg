SPECIFICATION Spec
CONSTANTS
    Process = {p1, p2}
    Agent = {a1, a2}
    NoReviewer = NoReviewer
    Experiment = {e1}
    MaxCandidates = 2
    MaxCalls = 5
    MaxFaults = 1
SYMMETRY Symmetry
INVARIANTS HistoryIsPath ReleaseGated CandidateIdsUnique
PROPERTIES AcknowledgedKept
CHECK_DEADLOCK FALSE
