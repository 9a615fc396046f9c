------------------------ MODULE NetworkInterfaceOps -------------------------
(***************************************************************************)
(* The NetworkInterface of src/src/network_interface.{hh,cc} as a record   *)
(* and one operator for each of its methods.                               *)
(*                                                                         *)
(* Time is kept relative to time_alive_: an entry of time_entries_ knows   *)
(* how long it still has, a request how long ago it was. A time entry      *)
(* holds an iterator into ip_eth_map_; "live" says that the node it points *)
(* to still exists. Erasing through a dead iterator is undefined, and the  *)
(* model goes no further.                                                  *)
(***************************************************************************)
EXTENDS Integers, Sequences, FiniteSets

CONSTANTS
    IPs,            \* the other hosts of the link, as next hops
    Ethernets,      \* the Ethernet addresses they use
    OwnIP,          \* ip_address_
    OwnEthernet,    \* ethernet_address_
    Broadcast,      \* ETHERNET_BROADCAST
    None,           \* an absent key of a map
    MappingTTL,     \* 30000 ms
    RequestPeriod   \* 5000 ms

ASSUME InterfaceAssumption ==
    /\ OwnIP \notin IPs /\ OwnEthernet \notin Ethernets
    /\ Broadcast \notin Ethernets /\ None \notin Ethernets \cup Nat
    /\ MappingTTL \in Nat /\ RequestPeriod \in Nat /\ RequestPeriod < MappingTTL

Own == [ip |-> OwnIP, eth |-> OwnEthernet]

NewInterface ==
    [ip_eth_map |-> [ip \in IPs |-> None],           \* [IPs -> Ethernets or None]
     time_entries |-> {},                            \* [left, ip, live], one for each left
     datagram_qs |-> [ip \in IPs |-> <<>>],          \* [IPs -> queue of datagrams]
     arp_request_times |-> [ip \in IPs |-> None],    \* [IPs -> ms since, or None]
     ethernet_q |-> <<>>,                            \* frames for maybe_send
     undefined |-> FALSE]                            \* a dead iterator was erased

DatagramFrame(eth, d) == [type |-> "IPv4", dst |-> eth, datagram |-> d]
RequestFrame(ip) ==
    [type |-> "ARP", dst |-> Broadcast, request |-> TRUE, sender |-> Own, target |-> ip]
ReplyFrame(eth, ip) ==
    [type |-> "ARP", dst |-> eth, request |-> FALSE, sender |-> Own, target |-> ip]

\* Faults: a request is made each time; only an old request is repeated.
RequestAlways(n, ip) == TRUE
RequestAgain(n, ip) ==
    n.arp_request_times[ip] # None /\ n.arp_request_times[ip] > RequestPeriod

MayRequest(n, ip) == \/ n.arp_request_times[ip] = None
                     \/ n.arp_request_times[ip] > RequestPeriod

\* send_datagram
Sent(n, ip, d) ==
    IF n.ip_eth_map[ip] # None
    THEN [n EXCEPT !.ethernet_q = Append(@, DatagramFrame(n.ip_eth_map[ip], d))]
    ELSE IF MayRequest(n, ip)
    THEN [n EXCEPT !.datagram_qs[ip] = Append(@, d),
                   !.ethernet_q = Append(@, RequestFrame(ip)),
                   !.arp_request_times[ip] = 0]
    ELSE [n EXCEPT !.datagram_qs[ip] = Append(@, d)]

\* Fault: the wrong one of the two periods.
RememberBriefly(entries, ip) ==
    entries \cup {[left |-> RequestPeriod, ip |-> ip, live |-> TRUE]}

\* std::set::insert: entries are compared by expiration time alone, and one
\* that compares equal to a member is not inserted.
Remember(entries, ip) ==
    IF \E e \in entries : e.left = MappingTTL
    THEN entries
    ELSE entries \cup {[left |-> MappingTTL, ip |-> ip, live |-> TRUE]}

\* Fault: the queue is not cleared.
QueuesKept(n, ip) == n.datagram_qs

QueuesReleased(n, ip) == [n.datagram_qs EXCEPT ![ip] = <<>>]

Waiting(n, ip, eth) ==
    [k \in DOMAIN n.datagram_qs[ip] |-> DatagramFrame(eth, n.datagram_qs[ip][k])]

\* Fault: a broadcast request is taken for somebody else's.
AnswerDirect(f) ==
    IF f.request /\ f.target = OwnIP /\ f.dst = OwnEthernet
    THEN <<ReplyFrame(f.sender.eth, f.sender.ip)>> ELSE <<>>

Answer(f) ==
    IF f.request /\ f.target = OwnIP THEN <<ReplyFrame(f.sender.eth, f.sender.ip)>> ELSE <<>>

IsForUs(f) == f.dst \in {OwnEthernet, Broadcast}

\* recv_frame. A datagram is returned; an ARP message teaches the sender's
\* address and releases what waits for it, and a request for the own address is
\* answered.
Received(n, f) ==
    IF ~IsForUs(f) \/ f.type # "ARP" THEN n
    ELSE [n EXCEPT !.ip_eth_map[f.sender.ip] = f.sender.eth,
                   !.time_entries = Remember(@, f.sender.ip),
                   !.ethernet_q = @ \o Waiting(n, f.sender.ip, f.sender.eth) \o Answer(f),
                   !.datagram_qs = QueuesReleased(n, f.sender.ip),
                   !.arp_request_times[f.sender.ip] = None]

Later(age, limit, ms) == IF age + ms < limit THEN age + ms ELSE limit

\* Faults: an entry expires late; an expired entry is not erased.
ExpiredLate(n, ms) == {e \in n.time_entries : e.left < ms}
AllEntries(n, ms) == n.time_entries

Expired(n, ms) == {e \in n.time_entries : e.left <= ms}
Unexpired(n, ms) == {e \in n.time_entries : e.left > ms}

\* Entries expire in the order of their times, each erasing the map's node it
\* points to; one whose node is gone, from before or by an earlier one, is dead.
ErasesDead(expired) == \/ \E e \in expired : ~e.live
                       \/ \E e, f \in expired : e # f /\ e.ip = f.ip

Forgetting(n, ms, ips) ==
    [n EXCEPT !.ip_eth_map = [ip \in IPs |-> IF ip \in ips THEN None ELSE @[ip]],
              !.time_entries = {[left |-> e.left - ms, ip |-> e.ip,
                                 live |-> e.live /\ e.ip \notin ips] : e \in Unexpired(n, ms)}]

RequestsAged(n, ms) ==
    [n EXCEPT !.arp_request_times =
        [ip \in IPs |-> IF @[ip] = None THEN None ELSE Later(@[ip], RequestPeriod + 1, ms)]]

\* tick
Ticked(n, ms) ==
    IF ErasesDead(Expired(n, ms))
    THEN [RequestsAged(n, ms) EXCEPT !.undefined = TRUE]
    ELSE Forgetting(RequestsAged(n, ms), ms, {e.ip : e \in Expired(n, ms)})

\* maybe_send, which returns the first frame
Popped(n) == [n EXCEPT !.ethernet_q = Tail(@)]
=============================================================================
