SPECIFICATION Spec
CONSTANTS
    c1 = c1
    c2 = c2
    k1 = k1
    k2 = k2
    None = None
    Stop = Stop
    Calls = {c1, c2}
    Opening = {c1}
    Closers = {k1, k2}
INVARIANTS
    OneOwner
PROPERTIES
    CancelledNeverRuns
    NoLeak
    EveryCallEnds
    WorkerStops
CHECK_DEADLOCK FALSE
