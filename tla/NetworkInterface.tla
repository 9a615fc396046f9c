-------------------------- MODULE NetworkInterface --------------------------
(***************************************************************************)
(* A NetworkInterface on a link with other hosts: its owner sends          *)
(* datagrams, ticks it and takes its frames, and the other hosts send ARP  *)
(* requests and replies whenever they like.                                *)
(***************************************************************************)
EXTENDS NetworkInterfaceOps

CONSTANTS
    Quanta,         \* the milliseconds between two ticks
    MaxDatagrams,   \* bound: the datagrams sent
    MaxFrames       \* bound: ethernet_q_ when another call is made

ASSUME NetworkInterfaceAssumption ==
    /\ InterfaceAssumption
    /\ Quanta \subseteq Nat \ {0}
    /\ MaxDatagrams \in Nat /\ MaxFrames \in Nat

VARIABLES
    ip_eth_map, time_entries, datagram_qs, arp_request_times, ethernet_q, undefined,
    hop,        \* history: the next hop of each datagram, in order
    released,   \* history: datagrams handed out by maybe_send
    heard,      \* history: ms since the last ARP message of a host
    requested,  \* history: ms since the last ARP request for a host
    spaced      \* history: were no two ARP messages received in one millisecond,
                \* and none from a host whose mapping still lasts?

vars == <<ip_eth_map, time_entries, datagram_qs, arp_request_times, ethernet_q,
          undefined, hop, released, heard, requested, spaced>>

\* The interface as it is, and a step in which it becomes n.
Interface ==
    [ip_eth_map |-> ip_eth_map, time_entries |-> time_entries, datagram_qs |-> datagram_qs,
     arp_request_times |-> arp_request_times, ethernet_q |-> ethernet_q,
     undefined |-> undefined]

Becomes(n) == /\ ip_eth_map' = n.ip_eth_map
              /\ time_entries' = n.time_entries
              /\ datagram_qs' = n.datagram_qs
              /\ arp_request_times' = n.arp_request_times
              /\ ethernet_q' = n.ethernet_q
              /\ undefined' = n.undefined

LongAgo == MappingTTL

Init == /\ ip_eth_map = NewInterface.ip_eth_map
        /\ time_entries = NewInterface.time_entries
        /\ datagram_qs = NewInterface.datagram_qs
        /\ arp_request_times = NewInterface.arp_request_times
        /\ ethernet_q = NewInterface.ethernet_q
        /\ undefined = NewInterface.undefined
        /\ hop = <<>> /\ released = {}
        /\ heard = [ip \in IPs |-> LongAgo]
        /\ requested = [ip \in IPs |-> LongAgo]
        /\ spaced = TRUE

Ready == ~undefined /\ Len(ethernet_q) < MaxFrames

SendDatagram(ip) ==
    /\ Ready /\ Len(hop) < MaxDatagrams
    /\ hop' = Append(hop, ip)
    /\ Becomes(Sent(Interface, ip, Len(hop) + 1))
    /\ requested' = IF ip_eth_map[ip] = None /\ MayRequest(Interface, ip)
                    THEN [requested EXCEPT ![ip] = 0] ELSE requested
    /\ UNCHANGED <<released, heard, spaced>>

\* recv_frame of an ARP message of host ip, a request or a reply, to this
\* interface or to all.
ARPFrame(ip, eth, dst, request, target) ==
    [type |-> "ARP", dst |-> dst, request |-> request,
     sender |-> [ip |-> ip, eth |-> eth], target |-> target]

ReceiveARP(ip, eth, dst, request, target) ==
    /\ Ready
    /\ Becomes(Received(Interface, ARPFrame(ip, eth, dst, request, target)))
    /\ heard' = [heard EXCEPT ![ip] = 0]
    /\ spaced' = (spaced /\ heard[ip] >= MappingTTL /\ \A other \in IPs : heard[other] > 0)
    /\ UNCHANGED <<hop, released, requested>>

\* recv_frame of a frame for someone else, or of a datagram.
ReceiveOther ==
    /\ Ready
    /\ \E ip \in IPs, eth \in Ethernets :
          \/ Becomes(Received(Interface, ARPFrame(ip, eth, eth, TRUE, ip)))
          \/ Becomes(Received(Interface, DatagramFrame(OwnEthernet, 0)))
    /\ UNCHANGED <<hop, released, heard, requested, spaced>>

Tick(ms) ==
    /\ ~undefined
    /\ Becomes(Ticked(Interface, ms))
    /\ heard' = [ip \in IPs |-> Later(heard[ip], LongAgo, ms)]
    /\ requested' = [ip \in IPs |-> Later(requested[ip], LongAgo, ms)]
    /\ UNCHANGED <<hop, released, spaced>>

MaybeSend ==
    /\ ~undefined /\ ethernet_q # <<>>
    /\ Becomes(Popped(Interface))
    /\ released' = IF Head(ethernet_q).type = "IPv4"
                   THEN released \cup {Head(ethernet_q).datagram} ELSE released
    /\ UNCHANGED <<hop, heard, requested, spaced>>

Next == \/ \E ip \in IPs : SendDatagram(ip)
        \/ \E ip \in IPs, eth \in Ethernets, dst \in {OwnEthernet, Broadcast},
              request \in BOOLEAN, target \in IPs \cup {OwnIP} :
                 ReceiveARP(ip, eth, dst, request, target)
        \/ ReceiveOther
        \/ \E ms \in Quanta : Tick(ms)
        \/ MaybeSend

Spec == Init /\ [][Next]_vars

-----------------------------------------------------------------------------

Entries == [left : 1 .. MappingTTL, ip : IPs, live : BOOLEAN]

Frames == [type : {"IPv4"}, dst : Ethernets, datagram : Nat]
          \cup [type : {"ARP"}, dst : Ethernets \cup {Broadcast},
                request : BOOLEAN, sender : {Own}, target : IPs]

TypeOK ==
    /\ ip_eth_map \in [IPs -> Ethernets \cup {None}]
    /\ time_entries \subseteq Entries
    /\ datagram_qs \in [IPs -> Seq(Nat)]
    /\ arp_request_times \in [IPs -> Nat \cup {None}]
    /\ ethernet_q \in Seq(Frames)
    /\ undefined \in BOOLEAN
    /\ hop \in Seq(IPs) /\ released \subseteq Nat
    /\ heard \in [IPs -> Nat] /\ requested \in [IPs -> Nat] /\ spaced \in BOOLEAN

(***************************************************************************)
(* KnownHopsHaveNoQueue: no datagram waits for a host whose address is     *)
(* known. Nothing but an ARP message empties a queue, so it would be stuck *)
(* there, overtaken by every datagram sent after it.                       *)
(***************************************************************************)
KnownHopsHaveNoQueue == \A ip \in IPs : ip_eth_map[ip] # None => datagram_qs[ip] = <<>>

(***************************************************************************)
(* WaitingWasRequested: datagrams wait only for a host that has been asked *)
(* for its address, by a request on record.                                *)
(***************************************************************************)
WaitingWasRequested ==
    \A ip \in IPs : datagram_qs[ip] # <<>> => arp_request_times[ip] # None

\* Where in ethernet_q the datagrams for a host are.
FramesFor(ip) ==
    {k \in DOMAIN ethernet_q : ethernet_q[k].type = "IPv4" /\ hop[ethernet_q[k].datagram] = ip}

(***************************************************************************)
(* EachOnceInOrder: the datagrams given to send_datagram for a host and    *)
(* not handed out by maybe_send are all held, once each and in order:      *)
(* first those in frames, then those waiting; and all handed out precede   *)
(* them.                                                                   *)
(***************************************************************************)
EachOnceInOrder ==
    \A ip \in IPs :
        LET framed(k) == ethernet_q[k].datagram
            waiting == datagram_qs[ip]
            given == {d \in DOMAIN hop : hop[d] = ip}
        IN  /\ {framed(k) : k \in FramesFor(ip)} \cup {waiting[k] : k \in DOMAIN waiting}
                  = given \ released
            /\ \A j, k \in FramesFor(ip) : j < k => framed(j) < framed(k)
            /\ \A j, k \in DOMAIN waiting : j < k => waiting[j] < waiting[k]
            /\ \A j \in FramesFor(ip), k \in DOMAIN waiting : framed(j) < waiting[k]
            /\ \A d \in given \cap released, e \in given \ released : d < e

(***************************************************************************)
(* RequestsAreSpaced: two ARP requests for a host are more than the period *)
(* apart ("don't send another ARP request for IP address within 5 seconds  *)
(* of prev. one", network_interface.hh), although the record of a request  *)
(* is dropped when the host answers.                                       *)
(***************************************************************************)
RequestsAreSpaced ==
    [][\A ip \in IPs : ethernet_q' = Append(ethernet_q, RequestFrame(ip))
                          => requested[ip] > RequestPeriod]_vars

(***************************************************************************)
(* MappingsExpire: a mapping is learned "for 30 seconds"                   *)
(* (labs/networkinterface): a host not heard of for so long is forgotten,  *)
(* as long as ARP messages are spaced.                                     *)
(***************************************************************************)
MappingsExpire ==
    spaced => \A ip \in IPs : ip_eth_map[ip] # None => heard[ip] < MappingTTL

(***************************************************************************)
(* MappingsLast: "active mappings last 30 seconds" (tests/                 *)
(* net_interface.cc): a host is forgotten no earlier than that after it    *)
(* was last heard of, as long as ARP messages are spaced.                  *)
(***************************************************************************)
Forgets(ip) == ip_eth_map[ip] # None /\ ip_eth_map'[ip] = None

MappingsLast ==
    [][\A ip \in IPs : spaced /\ Forgets(ip) => heard'[ip] >= MappingTTL]_vars

(***************************************************************************)
(* MappingsAlwaysLast: the same however close ARP messages come.           *)
(***************************************************************************)
MappingsAlwaysLast == [][\A ip \in IPs : Forgets(ip) => heard'[ip] >= MappingTTL]_vars

(***************************************************************************)
(* ErasesOnce: as long as ARP messages are spaced, no time entry outlives  *)
(* the mapping it is to erase.                                             *)
(***************************************************************************)
ErasesOnce == spaced => ~undefined /\ \A e \in time_entries : e.live
=============================================================================
