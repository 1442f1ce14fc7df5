SPECIFICATION Spec
CONSTANTS
    Checkpoint = 4
    Batch = 3
    MaxTip = 7
    MaxFailures = 2
INVARIANTS TypeOK OnlyGapsKill
CHECK_DEADLOCK FALSE
