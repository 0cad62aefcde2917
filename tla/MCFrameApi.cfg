\* Payloads of 0..6 bytes: up to 2 bytes have the short length form and may be
\* a control frame's, 3 and 4 the 16-bit form, 5 the 64-bit form, 6 is refused.
\* 5 payload bytes make the mask key wrap.
CONSTANTS
    CtrlMax = 2
    Ext16Limit = 5
    Ext63Limit = 6
    AppOpcodes <- MCAppOpcodes
    MaxFrames = 2
    MaxPayload = 6
SPECIFICATION Spec
INVARIANTS FramesExact KeysAligned
CHECK_DEADLOCK FALSE
