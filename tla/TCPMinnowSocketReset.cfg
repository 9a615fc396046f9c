SPECIFICATION Spec
CONSTANTS
    Mod32 = 32
    Mod64 = 128
    MaxWindow = 2
    ISN = 30
    InitialRTO = 1
    MaxPayload = 2
    SendCapacity = 1
    RecvCapacity = 2
    PipeSize = 1
    CopyCapacity = 2
    Typed = 0
    RemoteTotal = 2
    RemoteWindow = 1
    MayReset = TRUE
    MayAbort = FALSE
INVARIANT NeverKilled
CHECK_DEADLOCK FALSE
