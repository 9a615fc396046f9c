SPECIFICATION Spec
CONSTANTS
    Capacity = 5
    Total = 8
    Mod64 = 64
INVARIANTS TypeOK StoredBytes Separated ClosedWhenComplete
PROPERTIES PushesNextBytes ImplementsReassembly
CHECK_DEADLOCK FALSE
