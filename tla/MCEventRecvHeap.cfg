CONSTANTS
    CtrlMax = 3
    OutOfMemory = FALSE
    Frames <- AllFrames
    MaxFrames = 3
    Server = TRUE
    Configs <- Buffered
    max_recv_msg_length = 3
    AppStatus = {1000}
SPECIFICATION Spec
INVARIANT HeapSound
CHECK_DEADLOCK FALSE
