SPECIFICATION AdapterSpec
CONSTANTS
    Devices = {"tun", "tap", "router"}
    OwnIP = host
    OwnEthernet = host_eth
    NextHop = gateway
    NextHopEthernet = gateway_eth
    IPs = {gateway}
    Ethernets = {gateway_eth}
    Uplink = uplink
    UplinkEthernet = uplink_eth
    Provider = provider
    ProviderEthernet = provider_eth
    Broadcast = broadcast
    None = None
    MappingTTL = 4
    RequestPeriod = 1
    AdapterQuanta = {1}
    LoopTick = 1
    Peers <- ThreePeers
    near = near
    far = far
    Port = 1
    OtherPort = 2
    OtherIP = other
    DeviceSize = 1
    MaxSegments = 2
    MaxFromInternet = 1
INVARIANT OnePeer
PROPERTIES ImplementsPipe ReachesRouter
CHECK_DEADLOCK FALSE
