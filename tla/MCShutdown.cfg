SPECIFICATION FairSpec
CONSTANTS
    Main = Main
    Workers = {w1, w2}
    Callbacks = {c1, c2}
    Failing = {c2}
    Nobody = Nobody
    MaxSignals = 2
    MaxTriggers = 2
INVARIANTS CallbacksOnce NoOtherDeadlock
PROPERTIES ShutdownCompletes
CHECK_DEADLOCK FALSE
