SPECIFICATION Spec
CONSTANTS
    Process = {p, q}
    AgentIds <- MCAgentIds
    MAIN = "main"
    Coder = "coder"
    Publisher = "publisher"
    NoSelfApproval = {"coder"}
    ReviewChain <- MCChain
    Occurs <- MCOccurs
    Histories <- MCHistories
    Malformed = Malformed
    None = None
    Tasks <- MCTasks
    QueryTask <- MCQueryTask
    MaxStarts = 3
    MaxPlans = 1
    MaxHandEdits = 1
SYMMETRY Symmetry
INVARIANTS ReadyCoherent ReadyComplete RoutingSound
CHECK_DEADLOCK FALSE
