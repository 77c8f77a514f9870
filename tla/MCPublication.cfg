SPECIFICATION Spec
CONSTANTS
    Procs = {p, q}
    Setups = {s}
    Scores = {0, 5, 7, 9}
    OtherTypes = {"SYSTEM_RECOVERED"}
    Candidate = 6
    Confirmed = 8
    Invalidation = 4
    Freshness = 1
    Window = 2
    InvalidationExpiry = 1
    Cooldown = 2
    MaxClock = 2
    MaxEvents = 2
    MaxFaults = 1
SYMMETRY Sym
INVARIANTS OncePerCooldown PostedFresh
PROPERTIES DuplicateJustified
CHECK_DEADLOCK FALSE
