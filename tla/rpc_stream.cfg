SPECIFICATION FairSpec
CONSTANTS
    MaxData = 3
    End <- MCEnd
    BufferSize = 5
INVARIANTS Unmangled OkIsWhole ErrorHasCause
PROPERTY Answered
CHECK_DEADLOCK FALSE
