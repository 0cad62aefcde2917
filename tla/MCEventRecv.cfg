CONSTANTS
    CtrlMax = 3
    OutOfMemory = TRUE
    Frames <- AllFrames
    MaxFrames = 3
    Server = TRUE
    Configs <- AllConfigs
    max_recv_msg_length = 3
    AppStatus = {1000}
SPECIFICATION Spec
INVARIANTS DeliveredAsSent TextVerdict FramingVerdict SizeVerdict
           FrameCallbacksOnce FailureAnswered BufferInBounds PongForPing
           CloseReceivedHonest
CHECK_DEADLOCK FALSE
