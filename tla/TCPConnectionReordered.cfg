SPECIFICATION Spec
CONSTANTS
    Mod32 = 16
    Mod64 = 64
    MaxWindow = 2
    InitialRTO = 1
    MaxPayload = 1
    SendCapacity = 1
    RecvCapacity = 1
    ClientISN = 13
    ServerISN = 5
    ClientTotal = 1
    ServerTotal = 0
    MaxFaults = 2
    Reordering = TRUE
    MaxRetx = 1
INVARIANT LeavesWhenDone
CHECK_DEADLOCK FALSE
