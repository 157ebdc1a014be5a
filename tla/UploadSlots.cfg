SPECIFICATION Spec
CONSTANTS
    f1 = f1
    f2 = f2
    f3 = f3
    Files = {f1, f2, f3}
    Blobs = {f3}
    Imports = {}
    MaxConcurrency = 2
    MaxRateRetries = 1
    MaxRetries = 1
    Faults = {"delete"}
INVARIANT TypeOK
INVARIANT SlotsHaveWorkers
INVARIANT WorkersWithinCap
INVARIANT NothingMadeTwice
SYMMETRY Symmetry
CHECK_DEADLOCK FALSE
