SPECIFICATION FairSpec
CONSTANTS
    MaxMessage = 3
    End <- MCEnd
    Boundary = 6
    Window = 3
    SendMayTimeOut = TRUE
    MayBreak = TRUE
INVARIANTS TypeOK InOrder
PROPERTIES Delivered IsChannel
CHECK_DEADLOCK FALSE
