SPECIFICATION Spec
CONSTANTS
    None = None
    Links = {"tun", "tap", "memory"}
    Segments <- SomeSegments
    TCPOptions <- MSSOption
    IPOptions <- IPZeroOption
    OwnMAC <- Eth1
    PeerMAC <- Eth2
    OwnIP <- IP1
    PeerIP <- IP2
    Changes = {1, 128, 255}
    MaxPadding = 3
INVARIANTS TypeOK NoEmptyFront ArrivesIntact HarmIsNoticed
CHECK_DEADLOCK FALSE
