--------------------------- MODULE EthernetAdapter ---------------------------
(***************************************************************************)
(* What is below a TCPMinnowSocket: a TCPOverIPv4Adapter on a TUN device,  *)
(* made lossy by LossyFdAdapter; one on a TAP device, with a               *)
(* NetworkInterface (util/tuntap_adapter.cc); or the one of                *)
(* apps/endtoend.cc, which is that of the TAP device with a pair of        *)
(* datagram sockets in its place, at whose other end the network thread    *)
(* runs a Router between the host and the Internet.                        *)
(*                                                                         *)
(* The adapter belongs to the TCP thread. Its write to the device may      *)
(* block: send_pending is then under way, and the thread does nothing else.*)
(***************************************************************************)
EXTENDS NetworkInterfaceOps, TCPOverIPOps

CONSTANTS
    Devices,         \* "tun", "tap" and "router"
    NextHop, NextHopEthernet,    \* the default gateway, or the router
    Uplink, UplinkEthernet,      \* the router's interface to the Internet
    Provider, ProviderEthernet,  \* whom it hears from there
    Peers, Port, OtherPort, OtherIP,   \* endpoints and addresses in datagrams
    AdapterQuanta,   \* the milliseconds between two ticks of the TCP thread
    LoopTick,        \* what the network thread ticks the router by, 10 ms
    DeviceSize,      \* bound: the frames a device or socket keeps
    MaxSegments,     \* bound: the segments the connection sends
    MaxFromInternet  \* bound: the frames that arrive from the Internet

VARIABLES
    device, cfg, iface,   \* the adapter: its configuration and its interface
    toNet, fromNet,       \* what the device keeps in each direction
    ports,                \* the router's AsyncNetworkInterfaces
    out,                  \* router_to_host and router_to_internet
    internet,             \* the frames from the Internet not read yet
    written, arrived,     \* history: segments sent, and taken in at the next hop
    talks,                \* history: the conversations of all segments in and out
    arrivals              \* history: how many frames the Internet has sent

adapter == <<device, cfg, iface, toNet, fromNet>>
router == <<ports, out, internet, arrivals>>
adapterVars == <<adapter, router, written, arrived, talks>>

Listening == [source |-> [ip |-> None, port |-> Port], destination |-> None, listening |-> TRUE]
ConnectedTo(p) ==
    [source |-> [ip |-> OwnIP, port |-> Port], destination |-> p, listening |-> FALSE]

\* The two interfaces of the router.
HostSide == INSTANCE NetworkInterfaceOps
                WITH IPs <- {OwnIP}, Ethernets <- {OwnEthernet},
                     OwnIP <- NextHop, OwnEthernet <- NextHopEthernet
InternetSide == INSTANCE NetworkInterfaceOps
                    WITH IPs <- {Provider}, Ethernets <- {ProviderEthernet},
                         OwnIP <- Uplink, OwnEthernet <- UplinkEthernet

AdapterInit ==
    /\ device \in Devices
    /\ cfg \in {Listening} \cup {ConnectedTo(p) : p \in Peers}
    /\ iface = NewInterface
    /\ toNet = <<>> /\ fromNet = <<>>
    /\ ports = [host |-> HostSide!NewInterface, internet |-> InternetSide!NewInterface]
    /\ out = [host |-> <<>>, internet |-> <<>>]
    /\ internet = <<>> /\ arrivals = 0
    /\ written = 0 /\ arrived = 0 /\ talks = {}

Undefined == iface.undefined \/ ports.host.undefined \/ ports.internet.undefined

\* The TCP thread is not in send_pending.
Idle == ~Undefined /\ iface.ethernet_q = <<>>

Conversation(local, remote) == <<local.ip, local.port, remote.ip, remote.port>>

\* A datagram on a TUN device has no Ethernet header.
Bare(d) == DatagramFrame(None, d)

-----------------------------------------------------------------------------
\* The TCP thread

Write ==
    /\ Idle /\ ~cfg.listening /\ written < MaxSegments
    /\ IF device = "tun"
       THEN /\ Len(toNet) < DeviceSize
            /\ toNet' = Append(toNet, Bare(Wrapped(cfg, written)))
            /\ UNCHANGED iface
       ELSE iface' = Sent(iface, NextHop, Wrapped(cfg, written)) /\ UNCHANGED toNet
    /\ written' = written + 1
    /\ talks' = talks \cup {Conversation(cfg.source, cfg.destination)}
    /\ UNCHANGED <<device, cfg, fromNet, router, arrived>>

SendPending ==
    /\ ~Undefined /\ iface.ethernet_q # <<>> /\ Len(toNet) < DeviceSize
    /\ toNet' = Append(toNet, Head(iface.ethernet_q))
    /\ iface' = Popped(iface)
    /\ UNCHANGED <<device, cfg, fromNet, router, written, arrived, talks>>

\* A segment is given to the TCPPeer, unless a LossyFdAdapter drops it.
Return(d) == \/ /\ Accepts(cfg, d)
                /\ talks' = talks \cup {Conversation(d.dst, d.src)}
             \/ /\ ~Accepts(cfg, d) \/ device = "tun"
                /\ UNCHANGED talks

Read ==
    /\ Idle /\ fromNet # <<>>
    /\ fromNet' = Tail(fromNet)
    /\ LET f == Head(fromNet)
       IN  /\ iface' = IF device = "tun" THEN iface ELSE Received(iface, f)
           /\ IF f.type = "IPv4" /\ (device = "tun" \/ IsForUs(f))
              THEN cfg' = Unwrapped(cfg, f.datagram) /\ Return(f.datagram)
              ELSE UNCHANGED <<cfg, talks>>
    /\ UNCHANGED <<device, toNet, router, written, arrived>>

AdapterTick(ms) ==
    /\ Idle /\ device # "tun"
    /\ iface' = Ticked(iface, ms)
    /\ UNCHANGED <<device, cfg, toNet, fromNet, router, written, arrived, talks>>

-----------------------------------------------------------------------------
\* The network behind a TUN or TAP device

Datagrams == [src : Peers, dst : [ip : {OwnIP, OtherIP}, port : {Port, OtherPort}],
              tcp : BOOLEAN, SYN : BOOLEAN, RST : BOOLEAN]

ARPFrames(ip, eth, dsts, targets) ==
    [type : {"ARP"}, dst : dsts \cup {Broadcast}, request : BOOLEAN,
     sender : {[ip |-> ip, eth |-> eth]}, target : targets]

Incoming ==
    IF device = "tun" THEN {Bare(d) : d \in Datagrams}
    ELSE {DatagramFrame(OwnEthernet, d) : d \in Datagrams}
         \cup ARPFrames(NextHop, NextHopEthernet, {OwnEthernet}, {OwnIP, OtherIP})

LinkSends ==
    /\ device # "router" /\ ~Undefined /\ fromNet = <<>>
    /\ \E f \in Incoming : fromNet' = <<f>>
    /\ UNCHANGED <<device, cfg, iface, toNet, router, written, arrived, talks>>

IsDatagram(f) == f.type = "IPv4"

LinkTakes ==
    /\ device # "router" /\ ~Undefined /\ toNet # <<>>
    /\ toNet' = Tail(toNet)
    /\ arrived' = IF IsDatagram(Head(toNet)) THEN arrived + 1 ELSE arrived
    /\ UNCHANGED <<device, cfg, iface, fromNet, router, written, talks>>

-----------------------------------------------------------------------------
\* The network thread of endtoend: each time round its loop it serves the first
\* rule that is ready, ticks both interfaces and takes their frames.

NetworkReady ==
    {rule \in 1 .. 4 :
        CASE rule = 1 -> toNet # <<>>
          [] rule = 2 -> out.host # <<>> /\ Len(fromNet) < DeviceSize
          [] rule = 3 -> out.internet # <<>>
          [] rule = 4 -> internet # <<>>}

Serves(rule) == /\ device = "router" /\ ~Undefined
                /\ rule \in NetworkReady /\ \A r \in NetworkReady : rule <= r
Serves0 == device = "router" /\ ~Undefined /\ NetworkReady = {}

\* The rest of the loop, after a rule that has left h, i and o.
Around(h, i, o) ==
    LET host == HostSide!Ticked(h, LoopTick)
        wan == InternetSide!Ticked(i, LoopTick)
    IN  /\ ports' = [host |-> [host EXCEPT !.ethernet_q = <<>>],
                     internet |-> [wan EXCEPT !.ethernet_q = <<>>]]
        /\ out' = [host |-> o.host \o host.ethernet_q, internet |-> o.internet \o wan.ethernet_q]

\* recv_frame of an AsyncNetworkInterface keeps a datagram for route, which
\* takes it from there and does nothing with it.
FromHost ==
    /\ Serves(1)
    /\ toNet' = Tail(toNet)
    /\ arrived' = IF IsDatagram(Head(toNet)) /\ HostSide!IsForUs(Head(toNet)) THEN arrived + 1
                  ELSE arrived
    /\ Around(HostSide!Received(ports.host, Head(toNet)), ports.internet, out)
    /\ UNCHANGED <<device, cfg, iface, fromNet, internet, arrivals, written, talks>>

ToHost ==
    /\ Serves(2)
    /\ fromNet' = Append(fromNet, Head(out.host))
    /\ Around(ports.host, ports.internet, [out EXCEPT !.host = Tail(@)])
    /\ UNCHANGED <<device, cfg, iface, toNet, internet, arrivals, written, arrived, talks>>

ToInternet ==
    /\ Serves(3)
    /\ Around(ports.host, ports.internet, [out EXCEPT !.internet = Tail(@)])
    /\ UNCHANGED <<adapter, internet, arrivals, written, arrived, talks>>

FromInternet ==
    /\ Serves(4)
    /\ internet' = Tail(internet)
    /\ Around(ports.host, InternetSide!Received(ports.internet, Head(internet)), out)
    /\ UNCHANGED <<adapter, arrivals, written, arrived, talks>>

LoopTimeout ==
    /\ Serves0
    /\ Around(ports.host, ports.internet, out)
    /\ UNCHANGED <<adapter, internet, arrivals, written, arrived, talks>>

InternetSends ==
    /\ device = "router" /\ ~Undefined /\ arrivals < MaxFromInternet
    /\ \E f \in ARPFrames(Provider, ProviderEthernet, {UplinkEthernet}, {Uplink}) :
          internet' = Append(internet, f)
    /\ arrivals' = arrivals + 1
    /\ UNCHANGED <<adapter, ports, out, written, arrived, talks>>

Network == FromHost \/ ToHost \/ ToInternet \/ FromInternet \/ LoopTimeout

AdapterNext == \/ Write \/ SendPending \/ Read
               \/ \E ms \in AdapterQuanta : AdapterTick(ms)
               \/ LinkSends \/ LinkTakes
               \/ Network \/ InternetSends

(***************************************************************************)
(* The event loop of the TCP thread serves what is ready, and the network  *)
(* thread goes on; the TCP thread need not write, and time need not pass.  *)
(***************************************************************************)
Fairness == WF_adapterVars(SendPending) /\ WF_adapterVars(Read) /\ WF_adapterVars(Network)

AdapterSpec == AdapterInit /\ [][AdapterNext]_adapterVars /\ Fairness

-----------------------------------------------------------------------------

(***************************************************************************)
(* OnePeer: all segments that an adapter hands over and all that it sends  *)
(* are of one connection, whatever else reaches the device, and although a *)
(* listening adapter does not know its peer in advance.                    *)
(***************************************************************************)
OnePeer == Cardinality(talks) <= 1

(***************************************************************************)
(* ImplementsPipe: from the adapter to the next hop segments go through a  *)
(* pipe: through ARP, send_pending and the device they arrive once each    *)
(* and in the order in which the connection sent them.                     *)
(***************************************************************************)
Numbers(frames) ==
    LET datagrams == SelectSeq(frames, IsDatagram)
    IN  [k \in DOMAIN datagrams |-> datagrams[k].datagram.n]

Underway == Numbers(toNet \o iface.ethernet_q)
            \o [k \in DOMAIN iface.datagram_qs[NextHop] |-> iface.datagram_qs[NextHop][k].n]

Pipe == INSTANCE BoundedPipe
            WITH Capacity <- MaxSegments, content <- Underway, delivered <- arrived,
                 closed <- FALSE, failed <- FALSE
ImplementsPipe == Pipe!Spec

(***************************************************************************)
(* ReachesRouter: in endtoend every segment the connection sends gets to   *)
(* the router in the end: the one it waits for, that of the router's       *)
(* Ethernet address, is always answered. Once a dead iterator has been     *)
(* erased nothing is promised.                                             *)
(***************************************************************************)
ReachesRouter ==
    \A n \in 1 .. MaxSegments :
        (device = "router" /\ written >= n) ~> (arrived >= n \/ Undefined)
=============================================================================
