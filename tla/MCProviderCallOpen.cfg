SPECIFICATION Spec
CONSTANTS
    c1 = c1
    c2 = c2
    Calls = {c1, c2}
    FailureThreshold = 2
    ResetAfter = 1
    Interval = 1
    MaxTime = 4
SYMMETRY Symmetry
INVARIANT
    OpenBlocksBeforeCredential
