SPECIFICATION Spec
CONSTANTS
    q1 = q1
    q2 = q2
    q3 = q3
    q4 = q4
    Requests = {q1, q2, q3, q4}
    PoolSize = 2
    MaxPending = 2
    Faults = {"drop"}
SYMMETRY Symmetry
CHECK_DEADLOCK FALSE
INVARIANTS EngineIsWhole OneOperationPerInstance
 
