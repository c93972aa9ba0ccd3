CONSTANTS
    t1 = t1
    t2 = t2
    Threads = {t1, t2}
    Sizes = {2}
    WordSize = 8
    InitialCounts = {7}
    MaxCalls = 3
SYMMETRY Symmetric
SPECIFICATION Spec
INVARIANT
    SnapshotWithinWindow
