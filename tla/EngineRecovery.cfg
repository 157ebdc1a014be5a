SPECIFICATION FairSpec
CONSTANTS
    q1 = q1
    q2 = q2
    q3 = q3
    Requests = {q1, q2, q3}
    PoolSize = 2
    MaxPending = 2
    Faults = {"drop", "detach"}
INVARIANT NoForeignSecret
PROPERTIES EngineRecovers CallersAreAnswered
CHECK_DEADLOCK FALSE
