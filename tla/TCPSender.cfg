SPECIFICATION Spec
CONSTANTS
    Mod32 = 16
    Mod64 = 64
    ISN = 14
    InitialRTO = 2
    MaxPayload = 2
    Capacity = 3
    Total = 3
    Windows = {0, 3}
    Quanta = {1, 2}
    MaxRetx = 2
    MaxAcks = 2
    Owners = {"socket","any"}
    BareField = 12
INVARIANTS TimerRunsIffInFlight NothingForgotten SegmentsCarryStream WindowRespected RetransmitsSomething BackoffConsistent
CHECK_DEADLOCK FALSE
