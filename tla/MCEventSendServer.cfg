CONSTANTS
    CtrlMax = 2
    Ext16Limit = 4
    Ext63Limit = 5
    OutOfMemory = TRUE
    Server = TRUE
    OBufSize = 1
    LazyEof = FALSE
    AppOpcodes <- DataAndPing
    AppStatus = {0, 1000}
    MaxMsgs = 3
    MaxLen = 2
SPECIFICATION Spec
INVARIANTS TypeOK LayersInSync CloseIsLast CloseNotLost CountInv
           DataArrivesIntact ControlInOrder GettersHonest
PROPERTY OnlyCloseBegins
CHECK_DEADLOCK FALSE
