CONSTANTS
    CtrlMax = 3
    Ext16Limit = 5
    Ext63Limit = 6
    OutOfMemory = FALSE
    Server = FALSE
    OBufSize = 2
    LazyEof = FALSE
    AppOpcodes <- DataPingAndClose
    AppStatus = {0, 1000}
    MaxMsgs = 2
    MaxLen = 3
SPECIFICATION FairSpec
INVARIANTS DataArrivesIntact QueuedCloseIsLast
PROPERTIES CloseIsSent QueueDrains
CHECK_DEADLOCK FALSE
