SPECIFICATION FairSpec
CONSTANTS
    a1 = a1
    a2 = a2
    Address = {a1, a2}
    MaxHeight = 2
    Relevant <- MCRelevant
    Conn = {c1}
    Client = {k1}
    Batch = 1
    MaxSubmits = 3
    RescheduleLimit = 2
    Word = 8
    RpcMayFail = TRUE
    SubmitMayFail = TRUE
    MaxRequests = 2
    MaxLate = 0
    MaxLosses = 1
    NoTask = NoTask
INVARIANTS
    BlockConservation
PROPERTIES
    QueuedIsScanned
    ScanIsSubmitted
CHECK_DEADLOCK FALSE
