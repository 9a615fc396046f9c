SPECIFICATION Spec
CONSTANTS
    IPs = {a, b}
    Ethernets = {e1}
    OwnIP = OwnIP
    OwnEthernet = OwnEthernet
    Broadcast = Broadcast
    None = None
    MappingTTL = 3
    RequestPeriod = 1
    Quanta = {1, 2}
    MaxDatagrams = 1
    MaxFrames = 2
PROPERTY MappingsAlwaysLast
CHECK_DEADLOCK FALSE
