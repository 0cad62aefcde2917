CONSTANTS
    CtrlMax = 4
    OutOfMemory = FALSE
    Frames <- CloseFrames
    MaxFrames = 3
    Server = TRUE
    Configs <- Buffered
    max_recv_msg_length = 4
    AppStatus = {1000}
SPECIFICATION Spec
INVARIANT ValidCloseAccepted
CHECK_DEADLOCK FALSE
