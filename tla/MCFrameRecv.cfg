CONSTANTS
    CtrlMax = 2
    Radix = 2
    IBufSize = 8
    Frames <- MCFrames
    Heads <- MCHeads
    Keys <- MCKeys
    MaxFrames = 2
SPECIFICATION Spec
INVARIANTS NeverStuck ProtoVerdict
PROPERTY ImplementsSource
CHECK_DEADLOCK FALSE
