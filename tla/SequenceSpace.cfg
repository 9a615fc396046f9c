SPECIFICATION SpaceSpec
CONSTANTS
    Mod32 = 8
    Mod64 = 40
    Zeros = {0, 3, 7}
    MaxSeqno = 39
INVARIANTS RoundTrip Nearest
CHECK_DEADLOCK FALSE
