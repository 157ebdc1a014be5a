SPECIFICATION FairSpec
CONSTANTS
    f1 = f1
    f2 = f2
    m1 = m1
    Files = {f1, f2}
    Blobs = {f2}
    Imports = {m1}
    MaxConcurrency = 2
    MaxRateRetries = 1
    MaxRetries = 1
    Faults = {}
INVARIANT DoneIsSaved
 
 
CHECK_DEADLOCK FALSE
