SPECIFICATION Spec
CONSTANTS
    Mod32 = 16
    Mod64 = 64
    MaxWindow = 2
    InitialRTO = 1
    MaxPayload = 2
    SendCapacity = 2
    RecvCapacity = 2
    ClientISN = 13
    ServerISN = 5
    ClientTotal = 2
    ServerTotal = 1
    MaxFaults = 1
    Reordering = TRUE
    MaxRetx = 1
INVARIANTS AckedIsAssembled NoneLeavesEarly
PROPERTIES ImplementsPipes EverythingArrives
CHECK_DEADLOCK FALSE
