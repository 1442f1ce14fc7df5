SPECIFICATION Spec
CONSTANTS
    a1 = a1
    a2 = a2
    Address = {a1}
    MaxHeight = 2
    Relevant <- MCRelevant
    Conn = {c1, c2}
    Client = {k1, k2}
    Batch = 2
    MaxSubmits = 3
    RescheduleLimit = 2
    Word = 8
    RpcMayFail = FALSE
    SubmitMayFail = TRUE
    MaxRequests = 1
    MaxLate = 1
    MaxLosses = 0
    NoTask = NoTask
SYMMETRY Symmetry
INVARIANTS
    ScanCompleteMeansComplete
CHECK_DEADLOCK FALSE
