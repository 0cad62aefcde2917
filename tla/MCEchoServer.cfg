CONSTANTS
    CtrlMax = 2
    Ext16Limit = 4
    Ext63Limit = 5
    OutOfMemory = FALSE
    OBufSize = 1
    Frames <- MCFrames
    MaxFrames = 3
    max_recv_msg_length = 2
SPECIFICATION EchoFairSpec
INVARIANTS EchoFaithful EchoAccepted CleanExit ErrorFresh
PROPERTIES KeepsContract ClosingEnds
CHECK_DEADLOCK FALSE
