SPECIFICATION Spec
CONSTANTS
    Procs = {p, q}
    Items = {a, b}
    Genesis = Genesis
    MaxAppends = 3
    MaxFaults = 2
SYMMETRY Sym
INVARIANTS ChainIntact AckedPresent ManifestPrefix BackupSound
PROPERTIES AppendOnly
CHECK_DEADLOCK FALSE
