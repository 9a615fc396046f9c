SPECIFICATION Spec
CONSTANTS
    IPs = {a, b}
    Ethernets = {e1}
    OwnIP = OwnIP
    OwnEthernet = OwnEthernet
    Broadcast = Broadcast
    None = None
    MappingTTL = 3
    RequestPeriod = 1
    Quanta = {1, 2}
    MaxDatagrams = 3
    MaxFrames = 3
INVARIANTS TypeOK KnownHopsHaveNoQueue WaitingWasRequested EachOnceInOrder MappingsExpire ErasesOnce
PROPERTIES RequestsAreSpaced MappingsLast
CHECK_DEADLOCK FALSE
