----------------------- MODULE NetworkInterfaceProofs -----------------------
(***************************************************************************)
(* Proofs about NetworkInterface, for every set of hosts and all times:    *)
(* nothing waits for a known host, what waits was asked for, and requests  *)
(* are spaced. The last holds although the record of a request goes when   *)
(* the host answers: a mapping then lives long enough, which is what the   *)
(* conjunct LiveEntriesAreRecent says of the entries that may end it.      *)
(*                                                                         *)
(* And about EthernetAdapter, for any addresses and ports, any number of   *)
(* datagrams and any kind of device: an adapter talks to one peer only,    *)
(* whatever reaches its device.                                            *)
(***************************************************************************)
EXTENDS NetworkInterface, EthernetAdapter, SequenceTheorems, FiniteSetTheorems, TLAPS

LiveEntriesHaveMapping ==
    \A e \in time_entries : e.live => ip_eth_map[e.ip] # None

LiveEntriesAreRecent ==
    \A e \in time_entries : e.live => e.left + requested[e.ip] >= MappingTTL

RecordsAreExact ==
    \A ip \in IPs : arp_request_times[ip] # None
        => arp_request_times[ip] = IF requested[ip] <= RequestPeriod THEN requested[ip]
                                   ELSE RequestPeriod + 1

UnrecordedIsOld ==
    \A ip \in IPs : arp_request_times[ip] = None /\ ip_eth_map[ip] = None
        => requested[ip] > RequestPeriod

Inv == /\ TypeOK
       /\ KnownHopsHaveNoQueue /\ WaitingWasRequested
       /\ LiveEntriesHaveMapping /\ LiveEntriesAreRecent
       /\ RecordsAreExact /\ UnrecordedIsOld

Properties == /\ KnownHopsHaveNoQueue /\ WaitingWasRequested
              /\ LiveEntriesHaveMapping /\ LiveEntriesAreRecent
              /\ RecordsAreExact /\ UnrecordedIsOld

LEMMA InitInv == Init => Inv
<1>1. SUFFICES ASSUME Init PROVE Inv
  OBVIOUS
<1>2. <<>> \in Seq(Nat) /\ <<>> \in Seq(Frames) /\ <<>> \in Seq(IPs)
  OBVIOUS
<1>3. TypeOK
  BY <1>1, <1>2, NetworkInterfaceAssumption, InterfaceAssumption DEF Init, NewInterface, TypeOK, LongAgo
<1>4. Properties
  BY <1>1, NetworkInterfaceAssumption, InterfaceAssumption
     DEF Init, NewInterface, Properties, KnownHopsHaveNoQueue, WaitingWasRequested,
         LiveEntriesHaveMapping, LiveEntriesAreRecent, RecordsAreExact, UnrecordedIsOld,
         LongAgo
<1>5. QED
  BY <1>3, <1>4 DEF Inv, Properties


LEMMA FramesAreFrames ==
    ASSUME NEW ip \in IPs, NEW eth \in Ethernets, NEW d \in Nat
    PROVE  /\ DatagramFrame(eth, d) \in Frames
           /\ RequestFrame(ip) \in Frames
           /\ ReplyFrame(eth, ip) \in Frames
           /\ DatagramFrame(eth, d) # RequestFrame(ip)
BY DEF DatagramFrame, RequestFrame, ReplyFrame, Frames

-----------------------------------------------------------------------------

LEMMA SendDatagramStep ==
    ASSUME NEW ip \in IPs, SendDatagram(ip)
    PROVE  /\ hop' = Append(hop, ip)
           /\ ip_eth_map[ip] # None =>
                /\ ethernet_q' = Append(ethernet_q, DatagramFrame(ip_eth_map[ip], Len(hop) + 1))
                /\ UNCHANGED <<datagram_qs, arp_request_times, requested>>
           /\ ip_eth_map[ip] = None =>
                /\ datagram_qs' = [datagram_qs EXCEPT ![ip] = Append(@, Len(hop) + 1)]
                /\ MayRequest(Interface, ip) =>
                     /\ ethernet_q' = Append(ethernet_q, RequestFrame(ip))
                     /\ arp_request_times' = [arp_request_times EXCEPT ![ip] = 0]
                     /\ requested' = [requested EXCEPT ![ip] = 0]
                /\ ~MayRequest(Interface, ip) =>
                     UNCHANGED <<ethernet_q, arp_request_times, requested>>
           /\ UNCHANGED <<ip_eth_map, time_entries, undefined, released, heard, spaced>>
BY DEF SendDatagram, Becomes, Sent, Interface

\* What ReceiveARP appends: datagrams for the sender and perhaps a reply.
Freed(ip, eth) == Waiting(Interface, ip, eth)
Reply(ip, eth, request, target) ==
    IF request /\ target = OwnIP THEN <<ReplyFrame(eth, ip)>> ELSE <<>>

LEMMA ReceiveARPStep ==
    ASSUME NEW ip \in IPs, NEW eth, NEW dst \in {OwnEthernet, Broadcast}, NEW request, NEW target,
           ReceiveARP(ip, eth, dst, request, target)
    PROVE  /\ ip_eth_map' = [ip_eth_map EXCEPT ![ip] = eth]
           /\ time_entries' = Remember(time_entries, ip)
           /\ ethernet_q' = ethernet_q \o Freed(ip, eth) \o Reply(ip, eth, request, target)
           /\ datagram_qs' = [datagram_qs EXCEPT ![ip] = <<>>]
           /\ arp_request_times' = [arp_request_times EXCEPT ![ip] = None]
           /\ heard' = [heard EXCEPT ![ip] = 0]
           /\ spaced' \in BOOLEAN
           /\ UNCHANGED <<undefined, hop, released, requested>>
BY DEF ReceiveARP, Becomes, Received, IsForUs, ARPFrame, Interface, QueuesReleased, Answer, Freed, Reply

LEMMA TickStep ==
    ASSUME NEW ms, Tick(ms)
    PROVE  /\ heard' = [ip \in IPs |-> Later(heard[ip], LongAgo, ms)]
           /\ requested' = [ip \in IPs |-> Later(requested[ip], LongAgo, ms)]
           /\ arp_request_times' =
                 [ip \in IPs |-> IF arp_request_times[ip] = None THEN None
                                 ELSE Later(arp_request_times[ip], RequestPeriod + 1, ms)]
           /\ ErasesDead(Expired(Interface, ms)) =>
                 undefined' = TRUE /\ UNCHANGED <<ip_eth_map, time_entries>>
           /\ UNCHANGED <<datagram_qs, ethernet_q, hop, released, spaced>>
<1>1. CASE ErasesDead(Expired(Interface, ms))
  BY <1>1 DEF Tick, Becomes, Ticked, RequestsAged, Interface
<1>2. CASE ~ErasesDead(Expired(Interface, ms))
  BY <1>2 DEF Tick, Ticked, Becomes, Forgetting, RequestsAged, Interface
<1>3. QED
  BY <1>1, <1>2

LEMMA MaybeSendStep ==
    ASSUME MaybeSend
    PROVE  /\ ethernet_q # <<>>
           /\ ethernet_q' = Tail(ethernet_q)
           /\ released' = IF Head(ethernet_q).type = "IPv4"
                          THEN released \cup {Head(ethernet_q).datagram} ELSE released
           /\ UNCHANGED <<ip_eth_map, time_entries, datagram_qs, arp_request_times,
                          undefined, hop, heard, requested, spaced>>
BY DEF MaybeSend, Becomes, Popped, Interface

LEMMA ReceiveOtherStep ==
    ASSUME ReceiveOther
    PROVE  UNCHANGED vars
BY InterfaceAssumption DEF ReceiveOther, Becomes, Received, IsForUs, ARPFrame, DatagramFrame, Interface, vars

-----------------------------------------------------------------------------

LEMMA SendDatagramInv ==
    ASSUME Inv, NEW ip \in IPs, SendDatagram(ip)
    PROVE  Inv'
<1>. DEFINE d == Len(hop) + 1
<1>1. d \in Nat
  BY DEF Inv, TypeOK
<1>2. /\ hop' \in Seq(IPs)
      /\ UNCHANGED <<ip_eth_map, time_entries, undefined, released, heard, spaced>>
  <2>1. /\ hop' = Append(hop, ip)
        /\ UNCHANGED <<ip_eth_map, time_entries, undefined, released, heard, spaced>>
    BY SendDatagramStep
  <2>2. QED
    BY <2>1, AppendProperties DEF Inv, TypeOK
<1>3. CASE ip_eth_map[ip] # None
  <2>1. /\ ethernet_q' = Append(ethernet_q, DatagramFrame(ip_eth_map[ip], d))
        /\ UNCHANGED <<datagram_qs, arp_request_times, requested>>
    BY <1>3, SendDatagramStep
  <2>2. ip_eth_map[ip] \in Ethernets
    BY <1>3 DEF Inv, TypeOK
  <2>3. ethernet_q' \in Seq(Frames)
    BY <1>1, <2>1, <2>2, FramesAreFrames, AppendProperties DEF Inv, TypeOK
  <2>4. TypeOK'
    BY <1>2, <2>1, <2>3 DEF Inv, TypeOK, Entries
  <2>5. Properties'
    BY <1>2, <2>1
       DEF Inv, Properties, KnownHopsHaveNoQueue, WaitingWasRequested,
           LiveEntriesHaveMapping, LiveEntriesAreRecent, RecordsAreExact, UnrecordedIsOld
  <2>6. QED
    BY <2>4, <2>5 DEF Inv, Properties
<1>4. CASE ip_eth_map[ip] = None
  <2>1. datagram_qs' = [datagram_qs EXCEPT ![ip] = Append(datagram_qs[ip], d)]
    BY <1>4, SendDatagramStep
  <2>2. datagram_qs' \in [IPs -> Seq(Nat)]
    <3>1. Append(datagram_qs[ip], d) \in Seq(Nat)
      BY <1>1, AppendProperties DEF Inv, TypeOK
    <3>2. QED
      BY <2>1, <3>1 DEF Inv, TypeOK
  <2>3. \A i \in IPs : i # ip => datagram_qs'[i] = datagram_qs[i]
    BY <2>1 DEF Inv, TypeOK
  <2>4. CASE MayRequest(Interface, ip)
    <3>1. /\ ethernet_q' = Append(ethernet_q, RequestFrame(ip))
          /\ arp_request_times' = [arp_request_times EXCEPT ![ip] = 0]
          /\ requested' = [requested EXCEPT ![ip] = 0]
      BY <1>4, <2>4, SendDatagramStep
    <3>2. ethernet_q' \in Seq(Frames)
      <4>1. RequestFrame(ip) \in Frames
        BY DEF RequestFrame, Frames
      <4>2. QED
        BY <3>1, <4>1, AppendProperties DEF Inv, TypeOK
    <3>3. TypeOK'
      BY <1>2, <2>2, <3>1, <3>2 DEF Inv, TypeOK, Entries
    <3>4. KnownHopsHaveNoQueue' /\ WaitingWasRequested'
      BY <1>2, <1>4, <2>3, <3>1, NetworkInterfaceAssumption, InterfaceAssumption
         DEF Inv, TypeOK, KnownHopsHaveNoQueue, WaitingWasRequested
    <3>5. LiveEntriesHaveMapping' /\ LiveEntriesAreRecent'
      BY <1>2, <1>4, <3>1
         DEF Inv, TypeOK, Entries, LiveEntriesHaveMapping, LiveEntriesAreRecent
    <3>6. RecordsAreExact' /\ UnrecordedIsOld'
      BY <1>2, <3>1, NetworkInterfaceAssumption, InterfaceAssumption
         DEF Inv, TypeOK, RecordsAreExact, UnrecordedIsOld
    <3>7. QED
      BY <3>3, <3>4, <3>5, <3>6 DEF Inv
  <2>5. CASE ~MayRequest(Interface, ip)
    <3>1. UNCHANGED <<ethernet_q, arp_request_times, requested>>
      BY <1>4, <2>5, SendDatagramStep
    <3>2. TypeOK'
      BY <1>2, <2>2, <3>1 DEF Inv, TypeOK, Entries
    <3>3. Properties'
      BY <1>2, <1>4, <2>3, <2>5, <3>1
         DEF Inv, Properties, MayRequest, Interface, KnownHopsHaveNoQueue, WaitingWasRequested,
             LiveEntriesHaveMapping, LiveEntriesAreRecent, RecordsAreExact, UnrecordedIsOld
    <3>4. QED
      BY <3>2, <3>3 DEF Inv, Properties
  <2>6. QED
    BY <2>4, <2>5
<1>5. QED
  BY <1>3, <1>4

LEMMA AppendedFrames ==
    ASSUME TypeOK, NEW ip \in IPs, NEW eth \in Ethernets, NEW request, NEW target
    PROVE  /\ Freed(ip, eth) \in Seq(Frames)
           /\ Reply(ip, eth, request, target) \in Seq(Frames)
           /\ \A k \in DOMAIN Freed(ip, eth) : Freed(ip, eth)[k].type = "IPv4"
<1>. DEFINE q == datagram_qs[ip]
<1>1. q \in Seq(Nat)
  BY DEF TypeOK
<1>2. Len(q) \in Nat /\ DOMAIN q = 1 .. Len(q) /\ \A k \in 1 .. Len(q) : q[k] \in Nat
  BY <1>1
<1>3. Freed(ip, eth) = [k \in 1 .. Len(q) |-> DatagramFrame(eth, q[k])]
  BY <1>2 DEF Freed, Waiting, Interface
<1>. HIDE DEF q
<1>4. \A k \in 1 .. Len(q) : DatagramFrame(eth, q[k]) \in Frames
                             /\ DatagramFrame(eth, q[k]).type = "IPv4"
  BY <1>2 DEF DatagramFrame, Frames
<1>5. Freed(ip, eth) \in Seq(Frames)
  BY <1>2, <1>3, <1>4
<1>6. \A k \in DOMAIN Freed(ip, eth) : Freed(ip, eth)[k].type = "IPv4"
  BY <1>3, <1>4
<1>7. Reply(ip, eth, request, target) \in Seq(Frames)
  <2>1. ReplyFrame(eth, ip) \in Frames
    BY DEF ReplyFrame, Frames
  <2>2. QED
    BY <2>1 DEF Reply
<1>8. QED
  BY <1>5, <1>6, <1>7

LEMMA ReceiveARPInv ==
    ASSUME Inv, NEW ip \in IPs, NEW eth \in Ethernets, NEW dst \in {OwnEthernet, Broadcast},
           NEW request, NEW target, ReceiveARP(ip, eth, dst, request, target)
    PROVE  Inv'
<1>1. /\ ip_eth_map' = [ip_eth_map EXCEPT ![ip] = eth]
      /\ time_entries' = Remember(time_entries, ip)
      /\ ethernet_q' = ethernet_q \o Freed(ip, eth) \o Reply(ip, eth, request, target)
      /\ datagram_qs' = [datagram_qs EXCEPT ![ip] = <<>>]
      /\ arp_request_times' = [arp_request_times EXCEPT ![ip] = None]
      /\ heard' = [heard EXCEPT ![ip] = 0]
      /\ spaced' \in BOOLEAN
      /\ UNCHANGED <<undefined, hop, released, requested>>
  BY ReceiveARPStep
<1>2. ethernet_q' \in Seq(Frames)
  <2>1. ethernet_q \o Freed(ip, eth) \in Seq(Frames)
    BY AppendedFrames, ConcatProperties DEF Inv, TypeOK
  <2>2. QED
    BY <1>1, <2>1, AppendedFrames, ConcatProperties DEF Inv
<1>3. time_entries' \subseteq time_entries
                       \cup {[left |-> MappingTTL, ip |-> ip, live |-> TRUE]}
  BY <1>1 DEF Remember
<1>4. [left |-> MappingTTL, ip |-> ip, live |-> TRUE] \in Entries
  BY NetworkInterfaceAssumption, InterfaceAssumption DEF Entries
<1>5. TypeOK'
  <2>1. datagram_qs' \in [IPs -> Seq(Nat)]
    BY <1>1 DEF Inv, TypeOK
  <2>2. QED
    BY <1>1, <1>2, <1>3, <1>4, <2>1 DEF Inv, TypeOK
<1>6. KnownHopsHaveNoQueue' /\ WaitingWasRequested'
  BY <1>1 DEF Inv, TypeOK, KnownHopsHaveNoQueue, WaitingWasRequested
<1>7. LiveEntriesHaveMapping'
  BY <1>1, <1>3, NetworkInterfaceAssumption, InterfaceAssumption
     DEF Inv, TypeOK, Entries, LiveEntriesHaveMapping
<1>8. LiveEntriesAreRecent'
  <2>1. SUFFICES ASSUME NEW x \in time_entries', x.live
                 PROVE  x.left + requested[x.ip] >= MappingTTL
    BY <1>1 DEF LiveEntriesAreRecent
  <2>2. CASE x \in time_entries
    BY <2>1, <2>2 DEF Inv, LiveEntriesAreRecent
  <2>3. CASE x = [left |-> MappingTTL, ip |-> ip, live |-> TRUE]
    BY <2>3, NetworkInterfaceAssumption, InterfaceAssumption DEF Inv, TypeOK
  <2>4. QED
    BY <1>3, <2>1, <2>2, <2>3
<1>9. RecordsAreExact' /\ UnrecordedIsOld'
  BY <1>1, NetworkInterfaceAssumption, InterfaceAssumption
     DEF Inv, TypeOK, RecordsAreExact, UnrecordedIsOld
<1>10. QED
  BY <1>5, <1>6, <1>7, <1>8, <1>9 DEF Inv

LEMMA TickInv ==
    ASSUME Inv, NEW ms \in Quanta, Tick(ms)
    PROVE  Inv'
<1>. DEFINE expired == {e \in time_entries : e.left <= ms}
            forgotten == {e.ip : e \in expired}
            bad == \/ \E e \in expired : ~e.live
                   \/ \E e, f \in expired : e # f /\ e.ip = f.ip
<1>1. ms \in Nat /\ ms > 0
  BY NetworkInterfaceAssumption, InterfaceAssumption
<1>2. /\ heard' = [ip \in IPs |-> Later(heard[ip], LongAgo, ms)]
      /\ requested' = [ip \in IPs |-> Later(requested[ip], LongAgo, ms)]
      /\ arp_request_times' =
            [ip \in IPs |-> IF arp_request_times[ip] = None THEN None
                            ELSE Later(arp_request_times[ip], RequestPeriod + 1, ms)]
      /\ UNCHANGED <<datagram_qs, ethernet_q, hop, released, spaced>>
  BY TickStep
<1>3. /\ heard' \in [IPs -> Nat] /\ requested' \in [IPs -> Nat]
      /\ arp_request_times' \in [IPs -> Nat \cup {None}]
  BY <1>1, <1>2, NetworkInterfaceAssumption, InterfaceAssumption DEF Inv, TypeOK, Later, LongAgo
<1>4. \A ip \in IPs : arp_request_times'[ip] = None <=> arp_request_times[ip] = None
  BY <1>1, <1>2, NetworkInterfaceAssumption, InterfaceAssumption DEF Inv, TypeOK, Later
<1>5. \A ip \in IPs : requested'[ip] = Later(requested[ip], MappingTTL, ms)
  BY <1>2 DEF LongAgo
<1>6. WaitingWasRequested'
  BY <1>2, <1>4 DEF Inv, WaitingWasRequested
<1>7. RecordsAreExact'
  <2>1. SUFFICES ASSUME NEW ip \in IPs, arp_request_times'[ip] # None
                 PROVE  arp_request_times'[ip]
                          = IF requested'[ip] <= RequestPeriod THEN requested'[ip]
                            ELSE RequestPeriod + 1
    BY DEF RecordsAreExact
  <2>2. /\ arp_request_times[ip] \in Nat /\ requested[ip] \in Nat
        /\ arp_request_times[ip] = IF requested[ip] <= RequestPeriod THEN requested[ip]
                                   ELSE RequestPeriod + 1
    BY <1>4, <2>1 DEF Inv, TypeOK, RecordsAreExact
  <2>3. /\ requested'[ip] = Later(requested[ip], MappingTTL, ms)
        /\ arp_request_times'[ip] = Later(arp_request_times[ip], RequestPeriod + 1, ms)
    BY <1>2, <1>4, <1>5, <2>1
  <2>. HIDE DEF expired, forgotten, bad
  <2>4. CASE requested[ip] > RequestPeriod
    BY <1>1, <2>2, <2>3, <2>4, NetworkInterfaceAssumption, InterfaceAssumption DEF Later
  <2>5. CASE ~(requested[ip] > RequestPeriod)
    BY <1>1, <2>2, <2>3, <2>5, NetworkInterfaceAssumption, InterfaceAssumption DEF Later
  <2>6. QED
    BY <2>4, <2>5
<1>8. CASE bad
  <2>1. undefined' = TRUE /\ UNCHANGED <<ip_eth_map, time_entries>>
    BY <1>8, TickStep DEF ErasesDead, Expired, Interface
  <2>2. TypeOK'
    BY <1>2, <1>3, <2>1 DEF Inv, TypeOK, Entries
  <2>3. KnownHopsHaveNoQueue' /\ LiveEntriesHaveMapping'
    BY <1>2, <2>1 DEF Inv, KnownHopsHaveNoQueue, LiveEntriesHaveMapping
  <2>4. LiveEntriesAreRecent'
    <3>1. SUFFICES ASSUME NEW e \in time_entries, e.live
                   PROVE  e.left + requested'[e.ip] >= MappingTTL
      BY <2>1 DEF LiveEntriesAreRecent
    <3>2. e.left \in Nat /\ e.ip \in IPs /\ requested[e.ip] \in Nat
          /\ e.left + requested[e.ip] >= MappingTTL
      BY <3>1 DEF Inv, TypeOK, Entries, LiveEntriesAreRecent
    <3>3. requested'[e.ip] = Later(requested[e.ip], MappingTTL, ms)
      BY <1>5, <3>2
    <3>. HIDE DEF expired, forgotten, bad
    <3>4. QED
      BY <1>1, <3>2, <3>3, NetworkInterfaceAssumption, InterfaceAssumption DEF Later
  <2>5. UnrecordedIsOld'
    <3>1. SUFFICES ASSUME NEW ip \in IPs, arp_request_times'[ip] = None,
                          ip_eth_map'[ip] = None
                   PROVE  requested'[ip] > RequestPeriod
      BY DEF UnrecordedIsOld
    <3>2. requested[ip] > RequestPeriod /\ requested[ip] \in Nat
      BY <1>4, <2>1, <3>1 DEF Inv, TypeOK, UnrecordedIsOld
    <3>3. requested'[ip] = Later(requested[ip], MappingTTL, ms)
      BY <1>5, <3>1
    <3>. HIDE DEF expired, forgotten, bad
    <3>4. QED
      BY <1>1, <3>2, <3>3, NetworkInterfaceAssumption, InterfaceAssumption DEF Later
  <2>6. QED
    BY <1>6, <1>7, <2>2, <2>3, <2>4, <2>5 DEF Inv
<1>9. CASE ~bad
  <2>1. /\ ip_eth_map' = [ip \in IPs |-> IF ip \in forgotten THEN None ELSE ip_eth_map[ip]]
        /\ time_entries' = {[left |-> e.left - ms, ip |-> e.ip,
                             live |-> e.live /\ e.ip \notin forgotten] :
                                 e \in Unexpired(Interface, ms)}
        /\ UNCHANGED undefined
    <3>1. expired = Expired(Interface, ms)
      BY DEF Expired, Interface
    <3>2. ~ErasesDead(Expired(Interface, ms))
      BY <1>9, <3>1 DEF ErasesDead
    <3>. HIDE DEF expired, bad
    <3>3. forgotten = {e.ip : e \in Expired(Interface, ms)}
      BY <3>1
    <3>. HIDE DEF forgotten
    <3>4. Becomes(Forgetting(RequestsAged(Interface, ms), ms, forgotten))
      BY <3>2, <3>3 DEF Tick, Ticked
    <3>5. Unexpired(RequestsAged(Interface, ms), ms) = Unexpired(Interface, ms)
      BY DEF Unexpired, RequestsAged, Interface
    <3>6. QED
      BY <3>4, <3>5 DEF Becomes, Forgetting, RequestsAged, Interface
  <2>2. \A ip \in forgotten : \E e \in expired : e.live /\ e.ip = ip
    BY <1>9
  <2>3. \A x \in time_entries' : \E e \in time_entries :
            /\ e.left > ms /\ x.left = e.left - ms /\ x.ip = e.ip
            /\ x.live => e.live /\ e.ip \notin forgotten
            /\ x \in Entries
    <3>1. TAKE x \in time_entries'
    <3>2. PICK e \in Unexpired(Interface, ms) :
              x = [left |-> e.left - ms, ip |-> e.ip,
                   live |-> e.live /\ e.ip \notin forgotten]
      BY <2>1
    <3>3. e \in time_entries /\ e \in Entries /\ e.left > ms
      BY <1>1, <3>2 DEF Inv, TypeOK, Unexpired, Interface
    <3>. HIDE DEF forgotten, expired
    <3>4. x \in Entries
      <4>1. e.left - ms \in 1 .. MappingTTL /\ e.ip \in IPs
        BY <1>1, <3>3, NetworkInterfaceAssumption, InterfaceAssumption DEF Entries
      <4>2. (e.live /\ e.ip \notin forgotten) \in BOOLEAN
        OBVIOUS
      <4>3. QED
        BY <3>2, <4>1, <4>2 DEF Entries
    <3>5. x.left = e.left - ms /\ x.ip = e.ip
          /\ (x.live => e.live /\ e.ip \notin forgotten)
      BY <3>2, <3>3 DEF Entries
    <3>6. QED
      BY <3>2, <3>3, <3>4, <3>5
  <2>4. \A ip \in forgotten \cap IPs : requested'[ip] = MappingTTL
    <3>1. TAKE ip \in forgotten \cap IPs
    <3>2. PICK e \in expired : e.live /\ e.ip = ip
      BY <2>2
    <3>3. e.left \in Nat /\ e.left <= ms /\ e.left + requested[ip] >= MappingTTL
      BY <3>2 DEF Inv, TypeOK, Entries, LiveEntriesAreRecent
    <3>. HIDE DEF forgotten, expired
    <3>4. QED
      BY <1>1, <1>5, <3>3, NetworkInterfaceAssumption, InterfaceAssumption DEF Inv, TypeOK, Later
  <2>. HIDE DEF forgotten, expired, bad
  <2>5. TypeOK'
    <3>1. ip_eth_map' \in [IPs -> Ethernets \cup {None}]
      BY <2>1 DEF Inv, TypeOK
    <3>2. time_entries' \subseteq Entries
      BY <2>3
    <3>3. QED
      BY <1>2, <1>3, <2>1, <3>1, <3>2 DEF Inv, TypeOK
  <2>6. KnownHopsHaveNoQueue'
    BY <1>2, <2>1 DEF Inv, KnownHopsHaveNoQueue
  <2>7. LiveEntriesHaveMapping'
    <3>1. SUFFICES ASSUME NEW x \in time_entries', x.live
                   PROVE  ip_eth_map'[x.ip] # None
      BY DEF LiveEntriesHaveMapping
    <3>2. PICK e \in time_entries : x.ip = e.ip /\ e.live /\ e.ip \notin forgotten
      BY <2>3, <3>1
    <3>3. e.ip \in IPs /\ ip_eth_map[e.ip] # None
      BY <3>2 DEF Inv, TypeOK, Entries, LiveEntriesHaveMapping
    <3>4. QED
      BY <2>1, <3>2, <3>3
  <2>8. LiveEntriesAreRecent'
    <3>1. SUFFICES ASSUME NEW x \in time_entries', x.live
                   PROVE  x.left + requested'[x.ip] >= MappingTTL
      BY DEF LiveEntriesAreRecent
    <3>2. PICK e \in time_entries :
              e.left > ms /\ x.left = e.left - ms /\ x.ip = e.ip /\ e.live
      BY <2>3, <3>1
    <3>3. e.left \in Nat /\ e.ip \in IPs /\ e.left + requested[e.ip] >= MappingTTL
          /\ requested[e.ip] \in Nat
      BY <3>2 DEF Inv, TypeOK, Entries, LiveEntriesAreRecent
    <3>4. QED
      BY <1>1, <1>5, <3>2, <3>3, NetworkInterfaceAssumption, InterfaceAssumption DEF Later
  <2>9. UnrecordedIsOld'
    <3>1. SUFFICES ASSUME NEW ip \in IPs, arp_request_times'[ip] = None,
                          ip_eth_map'[ip] = None
                   PROVE  requested'[ip] > RequestPeriod
      BY DEF UnrecordedIsOld
    <3>2. CASE ip \in forgotten
      BY <2>4, <3>2, NetworkInterfaceAssumption, InterfaceAssumption
    <3>3. CASE ip \notin forgotten
      <4>1. requested[ip] > RequestPeriod /\ requested[ip] \in Nat
        BY <1>4, <2>1, <3>1, <3>3 DEF Inv, TypeOK, UnrecordedIsOld
      <4>2. QED
        BY <1>1, <1>5, <4>1, NetworkInterfaceAssumption, InterfaceAssumption DEF Later
    <3>4. QED
      BY <3>2, <3>3
  <2>10. QED
    BY <1>6, <1>7, <2>5, <2>6, <2>7, <2>8, <2>9 DEF Inv
<1>10. QED
  BY <1>8, <1>9

LEMMA MaybeSendInv ==
    ASSUME Inv, MaybeSend
    PROVE  Inv'
<1>1. ethernet_q \in Seq(Frames) /\ ethernet_q # <<>>
  BY MaybeSendStep DEF Inv, TypeOK
<1>2. Head(ethernet_q) \in Frames /\ Tail(ethernet_q) \in Seq(Frames)
  BY <1>1
<1>3. ethernet_q' = Tail(ethernet_q)
      /\ UNCHANGED <<ip_eth_map, time_entries, datagram_qs, arp_request_times,
                     undefined, hop, heard, requested, spaced>>
  BY MaybeSendStep
<1>4. released' \subseteq Nat
  <2>1. Head(ethernet_q).type = "IPv4" => Head(ethernet_q).datagram \in Nat
    BY <1>2 DEF Frames
  <2>2. QED
    BY <2>1, MaybeSendStep DEF Inv, TypeOK
<1>5. TypeOK'
  BY <1>2, <1>3, <1>4 DEF Inv, TypeOK
<1>6. Properties'
  BY <1>3 DEF Inv, Properties, KnownHopsHaveNoQueue, WaitingWasRequested,
     LiveEntriesHaveMapping, LiveEntriesAreRecent, RecordsAreExact, UnrecordedIsOld
<1>7. QED
  BY <1>5, <1>6 DEF Inv, Properties

LEMMA UnchangedInv ==
    ASSUME Inv, UNCHANGED vars
    PROVE  Inv'
BY DEF Inv, vars, TypeOK, KnownHopsHaveNoQueue, WaitingWasRequested,
       LiveEntriesHaveMapping, LiveEntriesAreRecent, RecordsAreExact, UnrecordedIsOld

LEMMA InvInvariance == Inv /\ [Next]_vars => Inv'
<1>1. SUFFICES ASSUME Inv, [Next]_vars PROVE Inv'
  OBVIOUS
<1>2. CASE \E ip \in IPs : SendDatagram(ip)
  BY <1>1, <1>2, SendDatagramInv
<1>3. CASE \E ip \in IPs, eth \in Ethernets, dst \in {OwnEthernet, Broadcast},
              request \in BOOLEAN, target \in IPs \cup {OwnIP} :
                 ReceiveARP(ip, eth, dst, request, target)
  BY <1>1, <1>3, ReceiveARPInv
<1>4. CASE ReceiveOther \/ UNCHANGED vars
  BY <1>1, <1>4, UnchangedInv, ReceiveOtherStep
<1>5. CASE \E ms \in Quanta : Tick(ms)
  BY <1>1, <1>5, TickInv
<1>6. CASE MaybeSend
  BY <1>1, <1>6, MaybeSendInv
<1>7. QED
  BY <1>1, <1>2, <1>3, <1>4, <1>5, <1>6 DEF Next

LEMMA Invariance == Spec => []Inv
<1>1. QED
  BY InitInv, InvInvariance, PTL DEF Spec

-----------------------------------------------------------------------------

(***************************************************************************)
(* TypeCorrect: the maps and queues of network_interface.hh hold what      *)
(* their types say; in particular frames are either datagrams for a        *)
(* learned address or ARP messages.                                        *)
(***************************************************************************)
THEOREM TypeCorrect == Spec => []TypeOK
<1>1. Inv => TypeOK
  BY DEF Inv
<1>2. QED
  BY <1>1, Invariance, PTL

(***************************************************************************)
(* NoQueueForKnownHops: recv_frame and send_datagram never leave a         *)
(* datagram queued for a host whose Ethernet address is in the map.        *)
(***************************************************************************)
THEOREM NoQueueForKnownHops == Spec => []KnownHopsHaveNoQueue
<1>1. Inv => KnownHopsHaveNoQueue
  BY DEF Inv
<1>2. QED
  BY <1>1, Invariance, PTL

(***************************************************************************)
(* WaitsOnlyForRequested: send_datagram queues only for a host with a      *)
(* request in arp_request_times_.                                          *)
(***************************************************************************)
THEOREM WaitsOnlyForRequested == Spec => []WaitingWasRequested
<1>1. Inv => WaitingWasRequested
  BY DEF Inv
<1>2. QED
  BY <1>1, Invariance, PTL
\* A frame is appended in only one way.
LEMMA SameAppend ==
    ASSUME NEW q \in Seq(Frames), NEW f \in Frames, NEW g \in Frames,
           Append(q, f) = Append(q, g)
    PROVE  f = g
<1>1. Append(q, f)[Len(q) + 1] = f /\ Append(q, g)[Len(q) + 1] = g
  BY AppendProperties
<1>2. QED
  BY <1>1

LEMMA RequestIsDue ==
    ASSUME Inv, [Next]_vars, NEW ip \in IPs,
           ethernet_q' = Append(ethernet_q, RequestFrame(ip))
    PROVE  requested[ip] > RequestPeriod
<1>. DEFINE f == RequestFrame(ip)
<1>1. /\ ethernet_q \in Seq(Frames) /\ f \in Frames
      /\ f.type = "ARP" /\ f.request = TRUE /\ f.target = ip
  BY DEF Inv, TypeOK, Frames, RequestFrame
<1>2. Len(ethernet_q) \in Nat /\ Len(ethernet_q') = Len(ethernet_q) + 1
      /\ ethernet_q'[Len(ethernet_q) + 1] = f
  BY <1>1, AppendProperties, LenProperties
<1>3. ASSUME NEW i \in IPs, SendDatagram(i) PROVE requested[ip] > RequestPeriod
  <2>1. CASE ip_eth_map[i] # None
    <3>1. DatagramFrame(ip_eth_map[i], Len(hop) + 1) \in Frames
          /\ DatagramFrame(ip_eth_map[i], Len(hop) + 1).type = "IPv4"
      BY <2>1 DEF Inv, TypeOK, Frames, DatagramFrame
    <3>2. ethernet_q' = Append(ethernet_q, DatagramFrame(ip_eth_map[i], Len(hop) + 1))
      BY <1>3, <2>1, SendDatagramStep
    <3>. HIDE DEF f
    <3>3. DatagramFrame(ip_eth_map[i], Len(hop) + 1) = f
      BY <1>1, <3>1, <3>2, SameAppend DEF f
    <3>4. QED
      BY <1>1, <3>1, <3>3
  <2>2. CASE ip_eth_map[i] = None /\ MayRequest(Interface, i)
    <3>1. ethernet_q' = Append(ethernet_q, RequestFrame(i))
      BY <1>3, <2>2, SendDatagramStep
    <3>2. RequestFrame(i) \in Frames /\ RequestFrame(i).target = i
      BY DEF RequestFrame, Frames
    <3>3. RequestFrame(i) = f
      BY <1>1, <3>1, <3>2, SameAppend
    <3>4. i = ip
      BY <1>1, <3>2, <3>3
    <3>5. CASE arp_request_times[ip] = None
      BY <2>2, <3>4, <3>5 DEF Inv, UnrecordedIsOld
    <3>6. CASE arp_request_times[ip] # None /\ arp_request_times[ip] > RequestPeriod
      <4>1. requested[ip] \in Nat
        BY DEF Inv, TypeOK
      <4>2. QED
        BY <3>6, <4>1, NetworkInterfaceAssumption, InterfaceAssumption DEF Inv, RecordsAreExact
    <3>7. QED
      BY <2>2, <3>4, <3>5, <3>6 DEF MayRequest, Interface
  <2>3. CASE ip_eth_map[i] = None /\ ~MayRequest(Interface, i)
    <3>1. ethernet_q' = ethernet_q
      BY <1>3, <2>3, SendDatagramStep
    <3>2. QED
      BY <1>2, <3>1
  <2>4. QED
    BY <2>1, <2>2, <2>3
<1>4. ASSUME NEW i \in IPs, NEW eth \in Ethernets, NEW dst \in {OwnEthernet, Broadcast},
             NEW request \in BOOLEAN, NEW target, ReceiveARP(i, eth, dst, request, target)
      PROVE  FALSE
  <2>. DEFINE w == Freed(i, eth)
              r == Reply(i, eth, request, target)
              q == ethernet_q
  <2>1. q' = (q \o w) \o r
    BY <1>4, ReceiveARPStep
  <2>2. /\ w \in Seq(Frames) /\ r \in Seq(Frames)
        /\ \A k \in DOMAIN w : w[k].type = "IPv4"
    BY AppendedFrames DEF Inv
  <2>3. r = <<>> \/ (Len(r) = 1 /\ r[1].request = FALSE)
    BY DEF Reply, ReplyFrame
  <2>. HIDE DEF w, r, q, f
  <2>4. q \in Seq(Frames) /\ Len(q') = Len(q) + 1 /\ q'[Len(q) + 1] = f
    BY <1>1, <1>2 DEF q
  <2>5. /\ Len(q) \in Nat /\ Len(w) \in Nat /\ Len(r) \in Nat
        /\ DOMAIN w = 1 .. Len(w) /\ q \o w \in Seq(Frames)
        /\ Len(q \o w) = Len(q) + Len(w) /\ Len(q') = Len(q) + Len(w) + Len(r)
    BY <2>1, <2>2, <2>4, ConcatProperties, LenProperties
  <2>6. CASE r = <<>>
    <3>1. Len(w) = 1 /\ q' = q \o w
      BY <2>1, <2>4, <2>5, <2>6, ConcatEmptySeq
    <3>2. q'[Len(q) + 1] = w[1] /\ 1 \in DOMAIN w
      BY <2>2, <2>4, <2>5, <3>1, ConcatProperties
    <3>3. QED
      BY <1>1, <2>2, <2>4, <3>2
  <2>7. CASE Len(r) = 1 /\ r[1].request = FALSE
    <3>1. Len(w) = 0 /\ Len(q \o w) = Len(q)
      BY <2>4, <2>5, <2>7
    <3>2. q'[Len(q) + 1] = r[1]
      BY <2>1, <2>2, <2>5, <2>7, <3>1, ConcatProperties
    <3>3. QED
      BY <1>1, <2>4, <2>7, <3>2
  <2>8. QED
    BY <2>3, <2>6, <2>7
<1>5. CASE MaybeSend
  <2>1. ethernet_q' = Tail(ethernet_q) /\ ethernet_q # <<>>
    BY <1>5, MaybeSendStep
  <2>2. Len(Tail(ethernet_q)) = Len(ethernet_q) - 1
    BY <1>1, <2>1
  <2>3. QED
    BY <1>2, <2>1, <2>2
<1>6. CASE ReceiveOther \/ (\E ms \in Quanta : Tick(ms)) \/ UNCHANGED vars
  <2>1. ethernet_q' = ethernet_q
    BY <1>6, ReceiveOtherStep, TickStep DEF vars
  <2>2. QED
    BY <1>2, <2>1
<1>7. QED
  BY <1>3, <1>4, <1>5, <1>6 DEF Next

(***************************************************************************)
(* RequestsSpaced: send_datagram never broadcasts two ARP requests for one *)
(* host within the period, even though recv_frame erases the record of the *)
(* first one when the host answers.                                        *)
(***************************************************************************)
THEOREM RequestsSpaced == Spec => RequestsAreSpaced
<1>1. Inv /\ [Next]_vars =>
        [\A ip \in IPs : ethernet_q' = Append(ethernet_q, RequestFrame(ip))
                           => requested[ip] > RequestPeriod]_vars
  BY RequestIsDue
<1>2. QED
  BY <1>1, Invariance, PTL DEF Spec, RequestsAreSpaced

-----------------------------------------------------------------------------
(* How long mappings last, as long as ARP messages are spaced.             *)

\* An entry is exactly as old as the last message of its host, and every mapping
\* has one. So no two entries are of one host, and the iterators are good.
Exact(e) == e.live /\ e.left + heard[e.ip] = MappingTTL

TimesAreExact ==
    spaced => /\ ~undefined
              /\ \A e \in time_entries : Exact(e)
              /\ \A ip \in IPs : ip_eth_map[ip] # None =>
                     \E e \in time_entries : e.ip = ip

\* The entry of a host is told by the host.
LEMMA OneEntryEach ==
    ASSUME TypeOK, NEW e \in time_entries, NEW f \in time_entries,
           Exact(e), Exact(f), e.ip = f.ip
    PROVE  e = f
<1>1. e \in Entries /\ f \in Entries /\ heard[e.ip] \in Nat
  BY DEF TypeOK, Entries
<1>2. e.left = f.left /\ e.live = f.live
  BY <1>1, InterfaceAssumption DEF Exact, Entries
<1>. QED BY <1>1, <1>2 DEF Entries

LEMMA InitExact == Init => TimesAreExact
BY DEF Init, NewInterface, TimesAreExact

LEMMA ReceiveARPExact ==
    ASSUME TypeOK, TimesAreExact, NEW ip \in IPs, NEW eth, NEW dst \in {OwnEthernet, Broadcast},
           NEW request, NEW target, ReceiveARP(ip, eth, dst, request, target)
    PROVE  TimesAreExact'
<1>. SUFFICES ASSUME spaced'
              PROVE  /\ ~undefined'
                     /\ \A e \in time_entries' : Exact(e)'
                     /\ \A i \in IPs : ip_eth_map'[i] # None => \E e \in time_entries' : e.ip = i
  BY DEF TimesAreExact
<1>. DEFINE new == [left |-> MappingTTL, ip |-> ip, live |-> TRUE]
<1>1. spaced /\ heard[ip] >= MappingTTL /\ \A other \in IPs : heard[other] > 0
  BY DEF ReceiveARP
<1>2. /\ ip_eth_map' = [ip_eth_map EXCEPT ![ip] = eth]
      /\ time_entries' = Remember(time_entries, ip)
      /\ ethernet_q' = ethernet_q \o Freed(ip, eth) \o Reply(ip, eth, request, target)
      /\ datagram_qs' = [datagram_qs EXCEPT ![ip] = <<>>]
      /\ arp_request_times' = [arp_request_times EXCEPT ![ip] = None]
      /\ heard' = [heard EXCEPT ![ip] = 0]
      /\ spaced' \in BOOLEAN
      /\ UNCHANGED <<undefined, hop, released, requested>>
  BY ReceiveARPStep
<1>3. \A e \in time_entries : e.left \in 1 .. MappingTTL /\ e.ip \in IPs /\ heard[e.ip] \in Nat
                               /\ e.live /\ e.left + heard[e.ip] = MappingTTL
  BY <1>1 DEF TypeOK, Entries, TimesAreExact, Exact
<1>4. \A e \in time_entries : e.left # MappingTTL /\ e.ip # ip
  BY <1>1, <1>3, InterfaceAssumption
<1>5. time_entries' = time_entries \cup {new}
  BY <1>2, <1>4 DEF Remember
<1>6. ~undefined'
  BY <1>1, <1>2 DEF TimesAreExact
<1>7. heard'[ip] = 0 /\ \A i \in IPs : i # ip => heard'[i] = heard[i]
  BY <1>2 DEF TypeOK
<1>8. \A e \in time_entries' : Exact(e)'
  <2>. SUFFICES ASSUME NEW e \in time_entries'
                PROVE  e.live /\ e.left + heard'[e.ip] = MappingTTL
    BY DEF Exact
  <2>1. CASE e \in time_entries
    BY <1>3, <1>4, <1>7, <2>1
  <2>2. CASE e = new
    BY <1>7, <2>2, InterfaceAssumption
  <2>. QED BY <1>5, <2>1, <2>2
<1>9. ASSUME NEW i \in IPs, ip_eth_map'[i] # None PROVE \E e \in time_entries' : e.ip = i
  <2>1. CASE i = ip
    <3>1. new \in time_entries' /\ new.ip = ip
      BY <1>5
    <3>. QED BY <2>1, <3>1
  <2>2. CASE i # ip
    <3>1. ip_eth_map[i] # None
      BY <1>2, <1>9, <2>2 DEF TypeOK
    <3>. QED BY <1>1, <1>5, <3>1 DEF TimesAreExact
  <2>. QED BY <2>1, <2>2
<1>. QED BY <1>6, <1>8, <1>9

\* While messages are spaced a tick erases through no dead iterator.
LEMMA TickErases ==
    ASSUME TypeOK, TimesAreExact, spaced, NEW ms \in Quanta, Tick(ms)
    PROVE  LET forgotten == {e.ip : e \in Expired(Interface, ms)}
           IN  /\ ip_eth_map' = [ip \in IPs |-> IF ip \in forgotten THEN None ELSE ip_eth_map[ip]]
               /\ time_entries' = {[left |-> e.left - ms, ip |-> e.ip,
                                    live |-> e.live /\ e.ip \notin forgotten] :
                                        e \in Unexpired(Interface, ms)}
               /\ ~undefined'
<1>. DEFINE forgotten == {e.ip : e \in Expired(Interface, ms)}
<1>1. \A e \in Expired(Interface, ms) : e \in time_entries /\ Exact(e)
  BY DEF Expired, Interface, TimesAreExact
<1>2. ~ErasesDead(Expired(Interface, ms))
  BY <1>1, OneEntryEach DEF ErasesDead, Exact
<1>3. Becomes(Forgetting(RequestsAged(Interface, ms), ms, forgotten))
  BY <1>2 DEF Tick, Ticked
<1>4. Unexpired(RequestsAged(Interface, ms), ms) = Unexpired(Interface, ms)
  BY DEF Unexpired, RequestsAged, Interface
<1>5. ~undefined
  BY DEF TimesAreExact
<1>. HIDE DEF forgotten
<1>6. /\ ip_eth_map' = [ip \in IPs |-> IF ip \in forgotten THEN None ELSE ip_eth_map[ip]]
      /\ time_entries' = {[left |-> e.left - ms, ip |-> e.ip,
                           live |-> e.live /\ e.ip \notin forgotten] :
                               e \in Unexpired(Interface, ms)}
      /\ ~undefined'
  BY <1>3, <1>4, <1>5 DEF Becomes, Forgetting, RequestsAged, Interface
<1>. QED BY <1>6 DEF forgotten

LEMMA TickExact ==
    ASSUME TypeOK, TimesAreExact, spaced, NEW ms \in Quanta, Tick(ms)
    PROVE  /\ TimesAreExact'
           /\ \A ip \in IPs : Forgets(ip) => heard'[ip] >= MappingTTL
<1>. DEFINE forgotten == {e.ip : e \in Expired(Interface, ms)}
            aged(e) == [left |-> e.left - ms, ip |-> e.ip, live |-> e.live /\ e.ip \notin forgotten]
<1>1. /\ ip_eth_map' = [ip \in IPs |-> IF ip \in forgotten THEN None ELSE ip_eth_map[ip]]
      /\ time_entries' = {aged(e) : e \in Unexpired(Interface, ms)}
      /\ ~undefined'
  BY TickErases
<1>2. ms \in Nat /\ \A ip \in IPs : heard'[ip] = Later(heard[ip], MappingTTL, ms)
  BY TickStep, NetworkInterfaceAssumption DEF LongAgo
<1>3. \A e \in time_entries : e.left \in 1 .. MappingTTL /\ e.ip \in IPs /\ heard[e.ip] \in Nat
                               /\ e.live /\ e.left + heard[e.ip] = MappingTTL
  BY DEF TypeOK, Entries, TimesAreExact, Exact
<1>4. \A ip \in forgotten : heard'[ip] >= MappingTTL
  <2>1. SUFFICES ASSUME NEW e \in time_entries, e.left <= ms PROVE heard'[e.ip] >= MappingTTL
    BY DEF Expired, Interface
  <2>2. heard'[e.ip] = Later(heard[e.ip], MappingTTL, ms)
    BY <1>2, <1>3
  <2>. HIDE DEF forgotten
  <2>. QED BY <1>2, <1>3, <2>1, <2>2, InterfaceAssumption DEF Later
<1>5. \A e \in Unexpired(Interface, ms) : e \in time_entries /\ e.left > ms /\ e.ip \notin forgotten
  <2>. SUFFICES ASSUME NEW e \in Unexpired(Interface, ms), NEW f \in Expired(Interface, ms), e.ip = f.ip
                PROVE  FALSE
    BY DEF Unexpired, Interface
  <2>1. e \in time_entries /\ e.left > ms /\ f \in time_entries /\ f.left <= ms
    BY DEF Unexpired, Expired, Interface
  <2>2. Exact(e) /\ Exact(f)
    BY <2>1 DEF TimesAreExact
  <2>3. e = f
    BY <2>1, <2>2, OneEntryEach
  <2>. QED BY <1>2, <1>3, <2>1, <2>3
<1>. HIDE DEF forgotten
<1>6. \A x \in time_entries' : Exact(x)'
  <2>. SUFFICES ASSUME NEW x \in time_entries'
                PROVE  x.live /\ x.left + heard'[x.ip] = MappingTTL
    BY DEF Exact
  <2>1. PICK e \in Unexpired(Interface, ms) : x = aged(e)
    BY <1>1
  <2>2. x.live /\ x.left = e.left - ms /\ x.ip = e.ip /\ e \in time_entries /\ e.left > ms
    BY <1>3, <1>5, <2>1
  <2>3. heard'[e.ip] = Later(heard[e.ip], MappingTTL, ms)
    BY <1>2, <1>3, <2>2
  <2>. QED BY <1>2, <1>3, <2>2, <2>3, InterfaceAssumption DEF Later
<1>7. ASSUME NEW ip \in IPs, ip_eth_map'[ip] # None PROVE \E x \in time_entries' : x.ip = ip
  <2>1. ip \notin forgotten /\ ip_eth_map[ip] # None
    BY <1>1, <1>7
  <2>2. PICK e \in time_entries : e.ip = ip
    BY <2>1 DEF TimesAreExact
  <2>3. e \in Unexpired(Interface, ms)
    <3>1. CASE e.left <= ms
      <4>1. e \in Expired(Interface, ms)
        BY <3>1 DEF Expired, Interface
      <4>. QED BY <2>1, <2>2, <4>1 DEF forgotten
    <3>2. CASE e.left > ms
      BY <3>2 DEF Unexpired, Interface
    <3>. QED BY <1>2, <1>3, <3>1, <3>2
  <2>4. aged(e) \in time_entries' /\ aged(e).ip = ip
    BY <1>1, <2>2, <2>3
  <2>. QED BY <2>4
<1>8. \A ip \in IPs : Forgets(ip) => heard'[ip] >= MappingTTL
  BY <1>1, <1>4 DEF Forgets
<1>. QED BY <1>1, <1>6, <1>7, <1>8 DEF TimesAreExact

LEMMA ExactStep ==
    Inv /\ TimesAreExact /\ [Next]_vars =>
        TimesAreExact' /\ \A ip \in IPs : spaced /\ Forgets(ip) => heard'[ip] >= MappingTTL
<1>. SUFFICES ASSUME Inv, TimesAreExact, [Next]_vars
              PROVE  /\ TimesAreExact'
                     /\ \A ip \in IPs : spaced /\ Forgets(ip) => heard'[ip] >= MappingTTL
  OBVIOUS
<1>0. TypeOK
  BY DEF Inv
<1>1. CASE UNCHANGED <<ip_eth_map, time_entries, undefined, heard, spaced>>
  BY <1>1 DEF TimesAreExact, Exact, Forgets
<1>2. CASE (\E ip \in IPs : SendDatagram(ip)) \/ MaybeSend \/ ReceiveOther \/ UNCHANGED vars
  BY <1>1, <1>2, SendDatagramStep, MaybeSendStep, ReceiveOtherStep DEF vars
<1>3. ASSUME NEW ip \in IPs, NEW eth \in Ethernets, NEW dst \in {OwnEthernet, Broadcast},
             NEW request \in BOOLEAN, NEW target \in IPs \cup {OwnIP},
             ReceiveARP(ip, eth, dst, request, target)
      PROVE  /\ TimesAreExact'
             /\ \A i \in IPs : spaced /\ Forgets(i) => heard'[i] >= MappingTTL
  <2>1. TimesAreExact'
    BY <1>0, <1>3, ReceiveARPExact
  <2>2. ip_eth_map' = [ip_eth_map EXCEPT ![ip] = eth] /\ eth # None
    BY <1>3, ReceiveARPStep, InterfaceAssumption
  <2>3. \A i \in IPs : ~Forgets(i)
    BY <1>0, <2>2 DEF Forgets, TypeOK
  <2>. QED BY <2>1, <2>3
<1>4. ASSUME NEW ms \in Quanta, Tick(ms)
      PROVE  /\ TimesAreExact'
             /\ \A i \in IPs : spaced /\ Forgets(i) => heard'[i] >= MappingTTL
  <2>1. CASE spaced
    BY <1>0, <1>4, <2>1, TickExact
  <2>2. CASE ~spaced
    BY <1>4, <2>2, TickStep DEF TimesAreExact
  <2>. QED BY <2>1, <2>2
<1>. QED BY <1>1, <1>2, <1>3, <1>4 DEF Next

LEMMA AlwaysExact == Spec => [](Inv /\ TimesAreExact)
BY Invariance, InitExact, ExactStep, PTL DEF Spec

(***************************************************************************)
(* ErasesThroughLiveIterators: as long as ARP messages are spaced, tick    *)
(* never erases through an iterator whose node is gone                     *)
(* (network_interface.cc:126).                                             *)
(***************************************************************************)
THEOREM ErasesThroughLiveIterators == Spec => []ErasesOnce
<1>1. TimesAreExact => ErasesOnce
  BY DEF TimesAreExact, ErasesOnce, Exact
<1>. QED BY <1>1, AlwaysExact, PTL

(***************************************************************************)
(* MappingsForgotten: then a mapping is gone when its host has not been    *)
(* heard of for 30 s.                                                      *)
(***************************************************************************)
THEOREM MappingsForgotten == Spec => []MappingsExpire
<1>1. Inv /\ TimesAreExact => MappingsExpire
  <2>. SUFFICES ASSUME Inv, TimesAreExact, spaced, NEW ip \in IPs, ip_eth_map[ip] # None
                PROVE  heard[ip] < MappingTTL
    BY DEF MappingsExpire
  <2>1. PICK e \in time_entries : e.ip = ip /\ e.left + heard[ip] = MappingTTL
    BY DEF TimesAreExact, Exact
  <2>2. e.left \in 1 .. MappingTTL /\ heard[ip] \in Nat
    BY <2>1 DEF Inv, TypeOK, Entries
  <2>. QED BY <2>1, <2>2, InterfaceAssumption
<1>. QED BY <1>1, AlwaysExact, PTL

(***************************************************************************)
(* MappingsKept: and it is there until then.                               *)
(***************************************************************************)
THEOREM MappingsKept == Spec => MappingsLast
<1>1. Inv /\ TimesAreExact /\ [Next]_vars =>
        [\A ip \in IPs : spaced /\ Forgets(ip) => heard'[ip] >= MappingTTL]_vars
  BY ExactStep
<1>. QED BY <1>1, AlwaysExact, PTL DEF Spec, MappingsLast
-----------------------------------------------------------------------------
(* Each datagram once and in order *)

\* The frames of f for host i, the datagrams h gives for it, and what
\* EachOnceInOrder says of them, of the queue w and of the released r.
At(f, h, i) == {k \in DOMAIN f : f[k].type = "IPv4" /\ h[f[k].datagram] = i}
Given(h, i) == {d \in DOMAIN h : h[d] = i}

Held(f, h, w, r, i) ==
    /\ {f[k].datagram : k \in At(f, h, i)} \cup {w[k] : k \in DOMAIN w} = Given(h, i) \ r
    /\ \A j, k \in At(f, h, i) : j < k => f[j].datagram < f[k].datagram
    /\ \A j, k \in DOMAIN w : j < k => w[j] < w[k]
    /\ \A j \in At(f, h, i), k \in DOMAIN w : f[j].datagram < w[k]
    /\ \A d \in Given(h, i) \cap r, e \in Given(h, i) \ r : d < e

\* Frames hold only datagrams that were given.
Known(f, h) == \A k \in DOMAIN f : f[k].type = "IPv4" => f[k].datagram \in DOMAIN h

LEMMA HeldIsOrder == EachOnceInOrder <=> \A ip \in IPs : Held(ethernet_q, hop, datagram_qs[ip], released, ip)
BY DEF EachOnceInOrder, FramesFor, At, Given, Held

\* Frames that are appended, and where they are then.
LEMMA AtConcat ==
    ASSUME NEW f \in Seq(Frames), NEW g \in Seq(Frames), NEW h, NEW i
    PROVE  /\ f \o g \in Seq(Frames)
           /\ At(f \o g, h, i) = At(f, h, i) \cup {Len(f) + k : k \in At(g, h, i)}
           /\ \A k \in DOMAIN f : (f \o g)[k] = f[k]
           /\ \A k \in DOMAIN g : (f \o g)[Len(f) + k] = g[k]
<1>. DEFINE c == f \o g
<1>1. /\ DOMAIN f = 1 .. Len(f) /\ DOMAIN g = 1 .. Len(g) /\ Len(f) \in Nat /\ Len(g) \in Nat
  OBVIOUS
<1>2. /\ c \in Seq(Frames) /\ Len(c) = Len(f) + Len(g)
      /\ \A k \in 1 .. Len(f) + Len(g) : c[k] = IF k <= Len(f) THEN f[k] ELSE g[k - Len(f)]
  BY ConcatProperties
<1>3. DOMAIN c = 1 .. Len(f) + Len(g)
  BY <1>2
<1>. HIDE DEF c
<1>4. \A k \in 1 .. Len(f) : c[k] = f[k]
  BY <1>1, <1>2
<1>5. \A k \in 1 .. Len(g) : c[Len(f) + k] = g[k]
  <2>. TAKE k \in 1 .. Len(g)
  <2>. DEFINE l == Len(f) + k
  <2>1. l \in 1 .. Len(f) + Len(g) /\ ~(l <= Len(f)) /\ l - Len(f) = k
    BY <1>1
  <2>. HIDE DEF l
  <2>2. c[l] = g[k]
    BY <1>2, <2>1
  <2>. QED BY <2>2 DEF l
<1>6. At(c, h, i) = At(f, h, i) \cup {Len(f) + k : k \in At(g, h, i)}
  <2>1. ASSUME NEW x \in At(c, h, i)
        PROVE  x \in At(f, h, i) \cup {Len(f) + k : k \in At(g, h, i)}
    <3>1. x \in 1 .. Len(f) + Len(g) /\ c[x].type = "IPv4" /\ h[c[x].datagram] = i
      BY <1>3 DEF At
    <3>2. CASE x <= Len(f)
      <4>1. x \in 1 .. Len(f)
        BY <1>1, <3>1, <3>2
      <4>. QED BY <1>1, <1>4, <3>1, <4>1 DEF At
    <3>3. CASE ~(x <= Len(f))
      <4>. DEFINE k == x - Len(f)
      <4>1. k \in 1 .. Len(g) /\ x = Len(f) + k
        BY <1>1, <3>1, <3>3
      <4>. HIDE DEF k
      <4>2. k \in At(g, h, i)
        BY <1>1, <1>5, <3>1, <4>1 DEF At
      <4>. QED BY <4>1, <4>2
    <3>. QED BY <3>2, <3>3
  <2>2. ASSUME NEW x \in At(f, h, i) PROVE x \in At(c, h, i)
    <3>1. x \in 1 .. Len(f) /\ x \in 1 .. Len(f) + Len(g)
      BY <1>1 DEF At
    <3>. QED BY <1>3, <1>4, <3>1 DEF At
  <2>3. ASSUME NEW k \in At(g, h, i) PROVE Len(f) + k \in At(c, h, i)
    <3>1. k \in 1 .. Len(g) /\ Len(f) + k \in 1 .. Len(f) + Len(g)
      BY <1>1 DEF At
    <3>2. c[Len(f) + k] = g[k]
      BY <1>5, <3>1
    <3>. QED BY <1>3, <3>1, <3>2 DEF At
  <2>. QED BY <2>1, <2>2, <2>3
<1>. QED BY <1>1, <1>2, <1>4, <1>5, <1>6 DEF c

\* The datagrams given so far are where they were after another is given.
LEMMA AtLater ==
    ASSUME NEW f, NEW h \in Seq(IPs), NEW i, NEW ip \in IPs, Known(f, h)
    PROVE  At(f, Append(h, ip), i) = At(f, h, i)
<1>1. \A d \in DOMAIN h : Append(h, ip)[d] = h[d]
  BY AppendProperties
<1>. QED BY <1>1 DEF At, Known

\* Nothing for host i is appended.
LEMMA HeldDespiteOthers ==
    ASSUME NEW f \in Seq(Frames), NEW g \in Seq(Frames), NEW h, NEW i,
           At(g, h, i) = {}, NEW w, NEW r, Held(f, h, w, r, i)
    PROVE  Held(f \o g, h, w, r, i)
<1>. DEFINE c == f \o g
<1>1. At(c, h, i) = At(f, h, i) /\ \A k \in At(f, h, i) : c[k] = f[k]
  <2>1. At(c, h, i) = At(f, h, i) \cup {Len(f) + k : k \in At(g, h, i)}
    BY AtConcat
  <2>2. \A k \in DOMAIN f : c[k] = f[k]
    BY AtConcat
  <2>. HIDE DEF c
  <2>. QED BY <2>1, <2>2 DEF At
<1>. HIDE DEF c
<1>2. {c[k].datagram : k \in At(c, h, i)} = {f[k].datagram : k \in At(f, h, i)}
  BY <1>1
<1>3. Held(c, h, w, r, i)
  BY <1>1, <1>2 DEF Held
<1>. QED BY <1>3 DEF c

\* A datagram for another host is given.
LEMMA HeldDespiteGiven ==
    ASSUME NEW f, NEW h \in Seq(IPs), NEW i, NEW ip \in IPs, i # ip, Known(f, h),
           NEW w, NEW r, Held(f, h, w, r, i)
    PROVE  Held(f, Append(h, ip), w, r, i)
<1>1. At(f, Append(h, ip), i) = At(f, h, i)
  BY AtLater
<1>2. Given(Append(h, ip), i) = Given(h, i)
  <2>1. /\ DOMAIN h = 1 .. Len(h) /\ Len(h) \in Nat
        /\ DOMAIN Append(h, ip) = 1 .. Len(h) + 1
        /\ \A d \in 1 .. Len(h) : Append(h, ip)[d] = h[d]
        /\ Append(h, ip)[Len(h) + 1] = ip
    BY AppendProperties
  <2>. QED BY <2>1 DEF Given
<1>. QED BY <1>1, <1>2 DEF Held

LEMMA GivenNext ==
    ASSUME NEW h \in Seq(IPs), NEW ip \in IPs
    PROVE  /\ Given(Append(h, ip), ip) = Given(h, ip) \cup {Len(h) + 1}
           /\ DOMAIN Append(h, ip) = DOMAIN h \cup {Len(h) + 1}
           /\ Append(h, ip)[Len(h) + 1] = ip
           /\ \A d \in DOMAIN h : d \in Nat /\ d < Len(h) + 1
<1>1. /\ DOMAIN h = 1 .. Len(h) /\ Len(h) \in Nat
      /\ DOMAIN Append(h, ip) = 1 .. Len(h) + 1
      /\ \A d \in 1 .. Len(h) : Append(h, ip)[d] = h[d]
      /\ Append(h, ip)[Len(h) + 1] = ip
  BY AppendProperties
<1>. QED BY <1>1 DEF Given

\* A datagram for a known host: it becomes the last frame.
LEMMA HeldInFrame ==
    ASSUME NEW f \in Seq(Frames), NEW h \in Seq(IPs), NEW ip \in IPs, Known(f, h),
           NEW r, r \subseteq DOMAIN h, Held(f, h, <<>>, r, ip), NEW x \in Frames,
           x.type = "IPv4", x.datagram = Len(h) + 1
    PROVE  Held(f \o <<x>>, Append(h, ip), <<>>, r, ip)
<1>. DEFINE d == Len(h) + 1
            H == Append(h, ip)
            g == <<x>>
            c == f \o g
            l == Len(f) + 1
            A == At(f, h, ip)
<1>1. /\ Given(H, ip) = Given(h, ip) \cup {d} /\ H[d] = ip
      /\ \A e \in DOMAIN h : e \in Nat /\ e < d
  BY GivenNext
<1>2. d \in Nat /\ d \notin DOMAIN h /\ Given(h, ip) \subseteq DOMAIN h
  BY <1>1 DEF Given
<1>3. g \in Seq(Frames) /\ Len(g) = 1 /\ DOMAIN g = {1} /\ g[1] = x
  OBVIOUS
<1>4. At(g, H, ip) = {1}
  BY <1>1, <1>3 DEF At
<1>5. At(f, H, ip) = A
  BY AtLater
<1>6. At(c, H, ip) = A \cup {l} /\ (\A k \in A : c[k] = f[k]) /\ c[l] = x
  <2>. HIDE DEF g, H, c
  <2>1. /\ At(f \o g, H, ip) = At(f, H, ip) \cup {Len(f) + k : k \in At(g, H, ip)}
        /\ \A k \in DOMAIN f : (f \o g)[k] = f[k]
        /\ \A k \in DOMAIN g : (f \o g)[Len(f) + k] = g[k]
    BY <1>3, AtConcat
  <2>2. {Len(f) + k : k \in At(g, H, ip)} = {l}
    BY <1>4
  <2>3. (f \o g)[l] = x
    BY <1>3, <2>1
  <2>. QED BY <1>5, <2>1, <2>2, <2>3 DEF c, At
<1>7. \A k \in A : k \in Nat /\ k < l /\ f[k].datagram \in DOMAIN h
  <2>1. DOMAIN f = 1 .. Len(f) /\ Len(f) \in Nat
    OBVIOUS
  <2>. QED BY <2>1 DEF At, Known
<1>8. /\ {f[k].datagram : k \in A} \cup {<<>>[k] : k \in DOMAIN <<>>} = Given(h, ip) \ r
      /\ \A j, k \in A : j < k => f[j].datagram < f[k].datagram
      /\ \A e \in Given(h, ip) \cap r, o \in Given(h, ip) \ r : e < o
  BY DEF Held
<1>9. l \in Nat
  OBVIOUS
<1>10. x.datagram = d
  OBVIOUS
<1>. HIDE DEF d, H, g, c, l, A
<1>11. {c[k].datagram : k \in At(c, H, ip)} \cup {<<>>[k] : k \in DOMAIN <<>>} = Given(H, ip) \ r
  <2>1. {c[k].datagram : k \in At(c, H, ip)} = {f[k].datagram : k \in A} \cup {d}
    BY <1>6, <1>10
  <2>2. Given(H, ip) \ r = (Given(h, ip) \ r) \cup {d}
    BY <1>1, <1>2
  <2>. QED BY <1>8, <2>1, <2>2
<1>12. \A j, k \in At(c, H, ip) : j < k => c[j].datagram < c[k].datagram
  <2>. SUFFICES ASSUME NEW j \in At(c, H, ip), NEW k \in At(c, H, ip), j < k
                PROVE  c[j].datagram < c[k].datagram
    OBVIOUS
  <2>1. j \in A
    <3>1. CASE j = l
      <4>1. k \in A
        BY <1>6, <1>9, <3>1
      <4>. QED BY <1>7, <1>9, <3>1, <4>1
    <3>. QED BY <1>6, <3>1
  <2>2. CASE k \in A
    BY <1>6, <1>8, <2>1, <2>2
  <2>3. CASE k = l
    <3>1. f[j].datagram < d
      BY <1>1, <1>7, <2>1
    <3>. QED BY <1>6, <1>10, <2>1, <2>3, <3>1
  <2>. QED BY <1>6, <2>2, <2>3
<1>13. \A e \in Given(H, ip) \cap r, o \in Given(H, ip) \ r : e < o
  <2>. SUFFICES ASSUME NEW e \in Given(H, ip) \cap r, NEW o \in Given(H, ip) \ r PROVE e < o
    OBVIOUS
  <2>1. e \in Given(h, ip) \cap r /\ e \in DOMAIN h
    BY <1>1, <1>2
  <2>2. CASE o = d
    BY <1>1, <2>1, <2>2
  <2>3. CASE o # d
    BY <1>1, <1>8, <2>1, <2>3
  <2>. QED BY <2>2, <2>3
<1>14. Held(c, H, <<>>, r, ip)
  <2>1. DOMAIN <<>> = {}
    OBVIOUS
  <2>. QED BY <1>11, <1>12, <1>13, <2>1 DEF Held
<1>. QED BY <1>14 DEF c, g, H

\* A datagram for an unknown host: it waits last.
LEMMA HeldWaiting ==
    ASSUME NEW f \in Seq(Frames), NEW h \in Seq(IPs), NEW ip \in IPs, Known(f, h),
           NEW r, r \subseteq DOMAIN h, NEW w \in Seq(Nat), Held(f, h, w, r, ip)
    PROVE  Held(f, Append(h, ip), Append(w, Len(h) + 1), r, ip)
<1>. DEFINE d == Len(h) + 1
            H == Append(h, ip)
            v == Append(w, d)
            l == Len(w) + 1
            A == At(f, h, ip)
<1>1. /\ Given(H, ip) = Given(h, ip) \cup {d}
      /\ \A e \in DOMAIN h : e \in Nat /\ e < d
  BY GivenNext
<1>2. d \in Nat /\ d \notin DOMAIN h /\ Given(h, ip) \subseteq DOMAIN h
  BY <1>1 DEF Given
<1>3. At(f, H, ip) = A
  BY AtLater
<1>4. /\ DOMAIN w = 1 .. Len(w) /\ Len(w) \in Nat /\ l \in Nat
      /\ DOMAIN v = (1 .. Len(w)) \cup {l} /\ v[l] = d
      /\ \A k \in 1 .. Len(w) : v[k] = w[k]
  <2>. HIDE DEF d
  <2>1. DOMAIN w = 1 .. Len(w) /\ Len(w) \in Nat
    OBVIOUS
  <2>2. /\ DOMAIN v = 1 .. Len(w) + 1 /\ v[Len(w) + 1] = d
        /\ \A k \in 1 .. Len(w) : v[k] = w[k]
    BY <1>2, AppendProperties
  <2>. QED BY <2>1, <2>2
<1>5. /\ {f[k].datagram : k \in A} \cup {w[k] : k \in DOMAIN w} = Given(h, ip) \ r
      /\ \A j, k \in A : j < k => f[j].datagram < f[k].datagram
      /\ \A j, k \in DOMAIN w : j < k => w[j] < w[k]
      /\ \A j \in A, k \in DOMAIN w : f[j].datagram < w[k]
      /\ \A e \in Given(h, ip) \cap r, o \in Given(h, ip) \ r : e < o
  BY DEF Held
<1>. HIDE DEF d, H, v, l, A
<1>6. {f[k].datagram : k \in A} \cup {v[k] : k \in DOMAIN v} = Given(H, ip) \ r
  <2>1. {v[k] : k \in DOMAIN v} = {w[k] : k \in DOMAIN w} \cup {d}
    BY <1>4
  <2>2. Given(H, ip) \ r = (Given(h, ip) \ r) \cup {d}
    BY <1>1, <1>2
  <2>. QED BY <1>5, <2>1, <2>2
<1>7. (\A k \in DOMAIN w : w[k] < d) /\ (\A k \in A : f[k].datagram < d)
  BY <1>1, <1>2, <1>5
<1>8. \A j, k \in DOMAIN v : j < k => v[j] < v[k]
  <2>. SUFFICES ASSUME NEW j \in DOMAIN v, NEW k \in DOMAIN v, j < k PROVE v[j] < v[k]
    OBVIOUS
  <2>1. j \in DOMAIN w
    <3>1. j = l => k \in 1 .. Len(w)
      BY <1>4
    <3>. QED BY <1>4, <3>1 DEF l
  <2>2. CASE k \in DOMAIN w
    BY <1>4, <1>5, <2>1, <2>2
  <2>3. CASE k = l
    BY <1>4, <1>7, <2>1, <2>3
  <2>. QED BY <1>4, <2>2, <2>3
<1>9. \A j \in A, k \in DOMAIN v : f[j].datagram < v[k]
  <2>. SUFFICES ASSUME NEW j \in A, NEW k \in DOMAIN v PROVE f[j].datagram < v[k]
    OBVIOUS
  <2>1. CASE k \in DOMAIN w
    BY <1>4, <1>5, <2>1
  <2>2. CASE k = l
    BY <1>4, <1>7, <2>2
  <2>. QED BY <1>4, <2>1, <2>2
<1>10. \A e \in Given(H, ip) \cap r, o \in Given(H, ip) \ r : e < o
  <2>. SUFFICES ASSUME NEW e \in Given(H, ip) \cap r, NEW o \in Given(H, ip) \ r PROVE e < o
    OBVIOUS
  <2>1. e \in Given(h, ip) \cap r /\ e \in DOMAIN h
    BY <1>1, <1>2
  <2>2. CASE o = d
    BY <1>1, <2>1, <2>2
  <2>3. CASE o # d
    BY <1>1, <1>5, <2>1, <2>3
  <2>. QED BY <2>2, <2>3
<1>11. Held(f, H, v, r, ip)
  BY <1>3, <1>5, <1>6, <1>8, <1>9, <1>10 DEF Held
<1>. QED BY <1>11 DEF H, v, d

\* The datagrams that waited become frames.
LEMMA HeldReleased ==
    ASSUME NEW f \in Seq(Frames), NEW g \in Seq(Frames), NEW h, NEW i, NEW w \in Seq(Nat),
           NEW r, Held(f, h, w, r, i), DOMAIN g = DOMAIN w,
           \A k \in DOMAIN w : g[k].type = "IPv4" /\ g[k].datagram = w[k]
    PROVE  Held(f \o g, h, <<>>, r, i)
<1>. DEFINE c == f \o g
            A == At(f, h, i)
            B == {Len(f) + k : k \in DOMAIN w}
<1>1. /\ {f[k].datagram : k \in A} \cup {w[k] : k \in DOMAIN w} = Given(h, i) \ r
      /\ \A j, k \in A : j < k => f[j].datagram < f[k].datagram
      /\ \A j, k \in DOMAIN w : j < k => w[j] < w[k]
      /\ \A j \in A, k \in DOMAIN w : f[j].datagram < w[k]
      /\ \A d \in Given(h, i) \cap r, e \in Given(h, i) \ r : d < e
  BY DEF Held
<1>2. DOMAIN w = 1 .. Len(w) /\ Len(w) \in Nat /\ DOMAIN f = 1 .. Len(f) /\ Len(f) \in Nat
  OBVIOUS
<1>3. At(g, h, i) = DOMAIN w
  <2>1. \A k \in DOMAIN w : w[k] \in Given(h, i)
    BY <1>1
  <2>. QED BY <2>1 DEF At, Given
<1>4. At(c, h, i) = A \cup B /\ (\A k \in A : c[k] = f[k]) /\ \A k \in DOMAIN w : c[Len(f) + k].datagram = w[k]
  <2>1. /\ At(c, h, i) = At(f, h, i) \cup {Len(f) + k : k \in At(g, h, i)}
        /\ \A k \in DOMAIN f : c[k] = f[k]
        /\ \A k \in DOMAIN g : c[Len(f) + k] = g[k]
    BY AtConcat
  <2>. HIDE DEF c
  <2>. QED BY <1>3, <2>1 DEF At
<1>. HIDE DEF c
<1>5. \A k \in A : k \in Nat /\ k <= Len(f)
  BY <1>2 DEF At
<1>. HIDE DEF A
<1>6. {c[k].datagram : k \in A \cup B} = {f[k].datagram : k \in A} \cup {w[k] : k \in DOMAIN w}
  <2>1. {c[k].datagram : k \in A \cup B} = {c[k].datagram : k \in A} \cup {c[k].datagram : k \in B}
    OBVIOUS
  <2>2. {c[k].datagram : k \in A} = {f[k].datagram : k \in A}
    BY <1>4
  <2>3. {c[k].datagram : k \in B} = {c[Len(f) + k].datagram : k \in DOMAIN w}
    OBVIOUS
  <2>4. {c[Len(f) + k].datagram : k \in DOMAIN w} = {w[k] : k \in DOMAIN w}
    <3>. DEFINE D(k) == c[Len(f) + k].datagram
    <3>1. \A k \in DOMAIN w : D(k) = w[k]
      BY <1>4
    <3>. HIDE DEF D
    <3>2. {D(k) : k \in DOMAIN w} = {w[k] : k \in DOMAIN w}
      BY <3>1
    <3>. QED BY <3>2 DEF D
  <2>. QED BY <2>1, <2>2, <2>3, <2>4
<1>7. \A x, y \in A \cup B : x < y => c[x].datagram < c[y].datagram
  <2>. SUFFICES ASSUME NEW x \in A \cup B, NEW y \in A \cup B, x < y
                PROVE  c[x].datagram < c[y].datagram
    OBVIOUS
  <2>1. CASE x \in A /\ y \in A
    BY <1>1, <1>4, <2>1
  <2>2. CASE x \in A /\ y \in B
    <3>1. PICK k \in DOMAIN w : y = Len(f) + k
      BY <2>2
    <3>. QED BY <1>1, <1>4, <2>2, <3>1
  <2>3. CASE x \in B /\ y \in A
    <3>1. PICK k \in DOMAIN w : x = Len(f) + k
      BY <2>3
    <3>. QED BY <1>2, <1>5, <2>3, <3>1
  <2>4. CASE x \in B /\ y \in B
    <3>1. PICK k \in DOMAIN w : x = Len(f) + k
      BY <2>4
    <3>2. PICK l \in DOMAIN w : y = Len(f) + l
      BY <2>4
    <3>3. k < l
      BY <1>2, <3>1, <3>2
    <3>4. w[k] < w[l]
      BY <1>1, <3>3
    <3>. QED BY <1>4, <3>1, <3>2, <3>4
  <2>. QED BY <2>1, <2>2, <2>3, <2>4
<1>8. DOMAIN <<>> = {}
  OBVIOUS
<1>9. Held(c, h, <<>>, r, i)
  <2>. HIDE DEF B
  <2>. QED BY <1>1, <1>4, <1>6, <1>7, <1>8 DEF Held
<1>. QED BY <1>9 DEF c

\* The first frame leaves.
LEMMA HeldPopped ==
    ASSUME NEW f \in Seq(Frames), f # <<>>, NEW h \in Seq(IPs), NEW i, NEW w, NEW r,
           Known(f, h), Held(f, h, w, r, i)
    PROVE  Held(Tail(f), h, w,
                IF Head(f).type = "IPv4" THEN r \cup {Head(f).datagram} ELSE r, i)
<1>. DEFINE t == Tail(f)
            x == f[1]
            R == IF x.type = "IPv4" THEN r \cup {x.datagram} ELSE r
            A == At(f, h, i)
            B == At(t, h, i)
<1>1. /\ {f[k].datagram : k \in A} \cup {w[k] : k \in DOMAIN w} = Given(h, i) \ r
      /\ \A j, k \in A : j < k => f[j].datagram < f[k].datagram
      /\ \A j, k \in DOMAIN w : j < k => w[j] < w[k]
      /\ \A j \in A, k \in DOMAIN w : f[j].datagram < w[k]
      /\ \A d \in Given(h, i) \cap r, e \in Given(h, i) \ r : d < e
  BY DEF Held
<1>2. /\ Head(f) = x /\ Len(f) \in Nat /\ Len(f) > 0
      /\ DOMAIN f = 1 .. Len(f) /\ DOMAIN t = 1 .. Len(f) - 1
      /\ \A k \in 1 .. Len(f) - 1 : t[k] = f[k + 1]
  BY HeadTailProperties, EmptySeq
<1>3. x.type = "IPv4" => x.datagram \in DOMAIN h
  BY <1>2 DEF Known
<1>. HIDE DEF t, x
<1>4. /\ \A k \in B : k \in Nat /\ k + 1 \in A /\ t[k] = f[k + 1]
      /\ \A j \in A : j = 1 \/ \E k \in B : j = k + 1
  <2>1. ASSUME NEW k \in B PROVE k \in Nat /\ k + 1 \in A /\ t[k] = f[k + 1]
    <3>1. k \in 1 .. Len(f) - 1 /\ t[k].type = "IPv4" /\ h[t[k].datagram] = i
      BY <1>2 DEF At
    <3>2. k \in Nat /\ k + 1 \in 1 .. Len(f) /\ t[k] = f[k + 1]
      BY <1>2, <3>1
    <3>. QED BY <1>2, <3>1, <3>2 DEF At
  <2>2. ASSUME NEW j \in A, j # 1 PROVE \E k \in B : j = k + 1
    <3>1. j \in 1 .. Len(f) /\ f[j].type = "IPv4" /\ h[f[j].datagram] = i
      BY <1>2 DEF At
    <3>. DEFINE k == j - 1
    <3>2. k \in 1 .. Len(f) - 1 /\ j = k + 1
      BY <1>2, <2>2, <3>1
    <3>. HIDE DEF k
    <3>3. k \in B
      BY <1>2, <3>1, <3>2 DEF At
    <3>. QED BY <3>2, <3>3
  <2>. QED BY <2>1, <2>2
<1>5. 1 \in A <=> x.type = "IPv4" /\ h[x.datagram] = i
  BY <1>2 DEF At, x
<1>. HIDE DEF A, B
<1>6. \A j, k \in B : j < k => t[j].datagram < t[k].datagram
  <2>. SUFFICES ASSUME NEW j \in B, NEW k \in B, j < k PROVE t[j].datagram < t[k].datagram
    OBVIOUS
  <2>1. /\ j \in Nat /\ j + 1 \in A /\ t[j] = f[j + 1]
        /\ k \in Nat /\ k + 1 \in A /\ t[k] = f[k + 1]
    BY <1>4
  <2>2. j + 1 < k + 1
    BY <2>1
  <2>. QED BY <1>1, <2>1, <2>2
<1>7. \A j \in B, k \in DOMAIN w : t[j].datagram < w[k]
  BY <1>1, <1>4
<1>. DEFINE S == {t[k].datagram : k \in B} \cup {w[k] : k \in DOMAIN w}
<1>8. Given(h, i) \ R = S /\ \A d \in Given(h, i) \cap R, e \in S : d < e
  <2>1. CASE 1 \in A
    <3>. DEFINE d == x.datagram
    <3>1. x = f[1] /\ R = r \cup {d} /\ d \in Given(h, i)
      BY <1>3, <1>5, <2>1 DEF x, Given
    <3>2. d = f[1].datagram
      BY <3>1
    <3>9. d \in Nat
      <4>1. DOMAIN h = 1 .. Len(h)
        OBVIOUS
      <4>. QED BY <3>1, <4>1 DEF Given
    <3>. HIDE DEF d
    <3>3. {f[k].datagram : k \in A} = {d} \cup {t[k].datagram : k \in B}
      BY <1>4, <2>1, <3>2
    <3>4. \A e \in S : d < e /\ d # e
      <4>1. ASSUME NEW k \in B PROVE d < t[k].datagram /\ d # t[k].datagram
        <5>1. k \in Nat /\ k + 1 \in A /\ t[k] = f[k + 1] /\ 1 < k + 1
          <6>1. k \in DOMAIN t /\ k \in Nat
            BY <1>4 DEF B, At
          <6>2. 1 < k + 1
            BY <1>2, <6>1
          <6>. QED BY <1>4, <6>2
        <5>2. f[1].datagram < f[k + 1].datagram
          BY <1>1, <2>1, <5>1
        <5>3. d < t[k].datagram
          BY <3>2, <5>1, <5>2
        <5>. QED BY <3>9, <5>3
      <4>2. ASSUME NEW k \in DOMAIN w PROVE d < w[k] /\ d # w[k]
        <5>1. d < w[k]
          BY <1>1, <2>1, <3>2
        <5>. QED BY <3>9, <5>1
      <4>. QED BY <4>1, <4>2
    <3>5. Given(h, i) \ r = {d} \cup S
      BY <1>1, <3>3
    <3>6. Given(h, i) \ R = S
      <4>. HIDE DEF S, R
      <4>. QED BY <3>1, <3>4, <3>5
    <3>7. \A e \in S : e \in Given(h, i) \ r
      BY <3>5
    <3>8. \A b \in Given(h, i) \cap R, e \in S : b < e
      <4>. HIDE DEF S, R
      <4>. QED BY <1>1, <3>1, <3>4, <3>7
    <3>. QED BY <3>6, <3>8
  <2>2. CASE 1 \notin A
    <3>1. Given(h, i) \ R = Given(h, i) \ r /\ Given(h, i) \cap R = Given(h, i) \cap r
      BY <1>5, <2>2 DEF Given
    <3>2. {f[k].datagram : k \in A} = {t[k].datagram : k \in B}
      BY <1>4, <2>2
    <3>3. Given(h, i) \ r = S
      BY <1>1, <3>2
    <3>. HIDE DEF S, R
    <3>. QED BY <1>1, <3>1, <3>3
  <2>. QED BY <2>1, <2>2
<1>. HIDE DEF R
<1>9. Held(t, h, w, R, i)
  BY <1>1, <1>6, <1>7, <1>8 DEF Held, B
<1>. QED BY <1>2, <1>9 DEF t, R

OrderInv ==
    /\ \A i \in IPs : Held(ethernet_q, hop, datagram_qs[i], released, i)
    /\ Known(ethernet_q, hop)
    /\ released \subseteq DOMAIN hop

LEMMA InitOrder == Init => OrderInv
<1>. SUFFICES ASSUME Init PROVE OrderInv
  OBVIOUS
<1>1. /\ ethernet_q = <<>> /\ hop = <<>> /\ released = {}
      /\ \A i \in IPs : datagram_qs[i] = <<>>
  BY DEF Init, NewInterface
<1>2. DOMAIN <<>> = {}
  OBVIOUS
<1>. QED BY <1>1, <1>2 DEF OrderInv, Held, At, Given, Known

\* The frames after one is appended are still frames of given datagrams.
LEMMA KnownLonger ==
    ASSUME NEW f \in Seq(Frames), NEW g \in Seq(Frames), NEW h, Known(f, h), Known(g, h)
    PROVE  Known(f \o g, h)
<1>. DEFINE c == f \o g
<1>1. /\ DOMAIN f = 1 .. Len(f) /\ DOMAIN g = 1 .. Len(g) /\ Len(f) \in Nat /\ Len(g) \in Nat
  OBVIOUS
<1>2. /\ Len(c) = Len(f) + Len(g) /\ c \in Seq(Frames)
      /\ \A k \in 1 .. Len(f) + Len(g) : c[k] = IF k <= Len(f) THEN f[k] ELSE g[k - Len(f)]
  BY ConcatProperties
<1>3. DOMAIN c = 1 .. Len(f) + Len(g)
  BY <1>2
<1>. HIDE DEF c
<1>4. \A k \in DOMAIN c : (k \in DOMAIN f /\ c[k] = f[k])
                          \/ (k - Len(f) \in DOMAIN g /\ c[k] = g[k - Len(f)])
  BY <1>1, <1>2, <1>3
<1>5. Known(c, h)
  BY <1>4 DEF Known
<1>. QED BY <1>5 DEF c

LEMMA SendDatagramOrder ==
    ASSUME Inv, OrderInv, NEW ip \in IPs, SendDatagram(ip)
    PROVE  OrderInv'
<1>. DEFINE f == ethernet_q
            d == Len(hop) + 1
            h == Append(hop, ip)
<1>1. hop' = h /\ released' = released
  BY SendDatagramStep
<1>2. /\ f \in Seq(Frames) /\ hop \in Seq(IPs) /\ \A i \in IPs : datagram_qs[i] \in Seq(Nat)
      /\ DOMAIN datagram_qs = IPs
  BY DEF Inv, TypeOK
<1>3. /\ \A i \in IPs : Held(f, hop, datagram_qs[i], released, i)
      /\ Known(f, hop) /\ released \subseteq DOMAIN hop
  BY DEF OrderInv
<1>4. /\ DOMAIN h = DOMAIN hop \cup {d} /\ h[d] = ip /\ d \in Nat
      /\ \A e \in DOMAIN hop : e \in Nat /\ e < d
  <2>1. d \in Nat
    BY <1>2
  <2>. QED BY <1>2, <2>1, GivenNext
<1>5. released' \subseteq DOMAIN hop' /\ Known(f, h)
  BY <1>1, <1>3, <1>4 DEF Known
<1>6. \A i \in IPs : i # ip => Held(f, h, datagram_qs[i], released, i)
  <2>. TAKE i \in IPs
  <2>. HAVE i # ip
  <2>1. Held(f, hop, datagram_qs[i], released, i)
    BY <1>3
  <2>. QED BY <1>2, <1>3, <2>1, HeldDespiteGiven
<1>7. CASE ip_eth_map[ip] # None
  <2>. DEFINE x == DatagramFrame(ip_eth_map[ip], d)
  <2>1. f' = Append(f, x) /\ datagram_qs' = datagram_qs
    BY <1>7, SendDatagramStep
  <2>2. x \in Frames
    <3>1. ip_eth_map[ip] \in Ethernets
      BY <1>7 DEF Inv, TypeOK
    <3>. QED BY <1>4, <3>1, FramesAreFrames
  <2>3. x.type = "IPv4" /\ x.datagram = d
    BY DEF DatagramFrame
  <2>4. datagram_qs[ip] = <<>>
    BY <1>7 DEF Inv, KnownHopsHaveNoQueue
  <2>. HIDE DEF x, d, h
  <2>5. <<x>> \in Seq(Frames) /\ DOMAIN <<x>> = {1} /\ <<x>>[1] = x
    BY <2>2
  <2>6. f' = f \o <<x>>
    BY <1>2, <2>1, <2>2, AppendIsConcat
  <2>7. Known(<<x>>, h)
    BY <1>4, <2>3, <2>5 DEF Known
  <2>8. Known(f \o <<x>>, h)
    BY <1>2, <1>5, <2>5, <2>7, KnownLonger
  <2>9. Held(f \o <<x>>, h, <<>>, released, ip)
    <3>1. Held(f, hop, <<>>, released, ip)
      BY <1>3, <2>4
    <3>. QED BY <1>2, <1>3, <2>2, <2>3, <3>1, HeldInFrame DEF h, d
  <2>10. \A i \in IPs : i # ip => Held(f \o <<x>>, h, datagram_qs[i], released, i)
    <3>. TAKE i \in IPs
    <3>. HAVE i # ip
    <3>1. Held(f, h, datagram_qs[i], released, i)
      BY <1>6
    <3>2. At(<<x>>, h, i) = {}
      BY <1>4, <2>3, <2>5 DEF At
    <3>. QED BY <1>2, <2>5, <3>1, <3>2, HeldDespiteOthers
  <2>11. \A i \in IPs : Held(f', hop', datagram_qs'[i], released', i)
    BY <1>1, <2>1, <2>4, <2>6, <2>9, <2>10
  <2>12. Known(f', hop')
    BY <1>1, <2>6, <2>8
  <2>. QED BY <1>5, <2>11, <2>12 DEF OrderInv
<1>8. CASE ip_eth_map[ip] = None
  <2>1. datagram_qs' = [datagram_qs EXCEPT ![ip] = Append(@, d)]
    BY <1>8, SendDatagramStep
  <2>2. /\ datagram_qs'[ip] = Append(datagram_qs[ip], d)
        /\ \A i \in IPs : i # ip => datagram_qs'[i] = datagram_qs[i]
    BY <1>2, <2>1
  <2>3. Held(f, h, datagram_qs'[ip], released, ip)
    <3>1. Held(f, hop, datagram_qs[ip], released, ip)
      BY <1>3
    <3>2. Held(f, h, Append(datagram_qs[ip], d), released, ip)
      BY <1>2, <1>3, <3>1, HeldWaiting
    <3>. QED BY <2>2, <3>2
  <2>4. \A i \in IPs : Held(f, h, datagram_qs'[i], released, i)
    BY <1>6, <2>2, <2>3
  <2>5. CASE f' = f
    BY <1>1, <1>5, <2>4, <2>5 DEF OrderInv
  <2>6. CASE f' = Append(f, RequestFrame(ip))
    <3>. DEFINE x == RequestFrame(ip)
    <3>1. x \in Frames /\ x.type = "ARP"
      BY DEF RequestFrame, Frames
    <3>. HIDE DEF x, h
    <3>2. <<x>> \in Seq(Frames) /\ DOMAIN <<x>> = {1} /\ <<x>>[1] = x
      BY <3>1
    <3>3. f' = f \o <<x>>
      BY <1>2, <2>6, <3>1, AppendIsConcat DEF x
    <3>4. Known(<<x>>, h) /\ \A i \in IPs : At(<<x>>, h, i) = {}
      BY <3>1, <3>2 DEF Known, At
    <3>5. Known(f \o <<x>>, h)
      BY <1>2, <1>5, <3>2, <3>4, KnownLonger
    <3>6. \A i \in IPs : Held(f \o <<x>>, h, datagram_qs'[i], released, i)
      <4>. TAKE i \in IPs
      <4>1. Held(f, h, datagram_qs'[i], released, i) /\ At(<<x>>, h, i) = {}
        BY <2>4, <3>4
      <4>. QED BY <1>2, <3>2, <4>1, HeldDespiteOthers
    <3>. QED BY <1>1, <1>5, <3>3, <3>5, <3>6 DEF OrderInv
  <2>7. f' = f \/ f' = Append(f, RequestFrame(ip))
    BY <1>8, SendDatagramStep
  <2>. QED BY <2>5, <2>6, <2>7
<1>. QED BY <1>7, <1>8

LEMMA ReceiveARPOrder ==
    ASSUME Inv, OrderInv, NEW ip \in IPs, NEW eth \in Ethernets,
           NEW dst \in {OwnEthernet, Broadcast}, NEW request, NEW target,
           ReceiveARP(ip, eth, dst, request, target)
    PROVE  OrderInv'
<1>. DEFINE f == ethernet_q
            w == datagram_qs[ip]
            g == Freed(ip, eth)
            a == Reply(ip, eth, request, target)
            q == f \o g
<1>1. /\ ethernet_q' = q \o a
      /\ datagram_qs' = [datagram_qs EXCEPT ![ip] = <<>>]
      /\ hop' = hop /\ released' = released
  <2>1. /\ ethernet_q' = ethernet_q \o Freed(ip, eth) \o Reply(ip, eth, request, target)
        /\ datagram_qs' = [datagram_qs EXCEPT ![ip] = <<>>]
        /\ UNCHANGED <<undefined, hop, released, requested>>
    BY ReceiveARPStep
  <2>. QED BY <2>1
<1>2. /\ f \in Seq(Frames) /\ hop \in Seq(IPs) /\ w \in Seq(Nat)
      /\ datagram_qs'[ip] = <<>>
      /\ \A i \in IPs : i # ip => datagram_qs'[i] = datagram_qs[i]
  BY <1>1 DEF Inv, TypeOK
<1>3. /\ \A i \in IPs : Held(f, hop, datagram_qs[i], released, i)
      /\ Known(f, hop) /\ released \subseteq DOMAIN hop
  BY DEF OrderInv
<1>4. g \in Seq(Frames) /\ a \in Seq(Frames)
  BY AppendedFrames DEF Inv
<1>5. DOMAIN g = DOMAIN w /\ \A k \in DOMAIN w : g[k].type = "IPv4" /\ g[k].datagram = w[k]
  BY <1>2 DEF Freed, Waiting, Interface, DatagramFrame
<1>6. \A k \in DOMAIN a : a[k].type = "ARP"
  <2>1. CASE a = <<>>
    BY <2>1
  <2>2. CASE a = <<ReplyFrame(eth, ip)>>
    BY <2>2 DEF ReplyFrame
  <2>. QED BY <2>1, <2>2 DEF Reply
<1>7. \A k \in DOMAIN w : w[k] \in DOMAIN hop /\ hop[w[k]] = ip
  <2>1. {w[k] : k \in DOMAIN w} \subseteq Given(hop, ip)
    BY <1>3 DEF Held
  <2>. QED BY <2>1 DEF Given
<1>. HIDE DEF g, a, w
<1>8. q \in Seq(Frames)
  BY <1>2, <1>4, ConcatProperties
<1>9. Known(q \o a, hop)
  <2>1. Known(g, hop) /\ Known(a, hop)
    BY <1>5, <1>6, <1>7 DEF Known
  <2>2. Known(f \o g, hop)
    BY <1>2, <1>3, <1>4, <2>1, KnownLonger
  <2>. HIDE DEF q
  <2>. QED BY <1>4, <1>8, <2>1, <2>2, KnownLonger DEF q
<1>10. \A i \in IPs : Held(q, hop, datagram_qs'[i], released, i)
  <2>. TAKE i \in IPs
  <2>1. CASE i = ip
    <3>1. Held(f, hop, w, released, ip)
      BY <1>3 DEF w
    <3>2. Held(f \o g, hop, <<>>, released, ip)
      BY <1>2, <1>4, <1>5, <3>1, HeldReleased
    <3>. QED BY <1>2, <2>1, <3>2
  <2>2. CASE i # ip
    <3>1. Held(f, hop, datagram_qs[i], released, i)
      BY <1>3
    <3>2. At(g, hop, i) = {}
      BY <1>5, <1>7, <2>2 DEF At
    <3>3. Held(f \o g, hop, datagram_qs[i], released, i)
      BY <1>2, <1>4, <3>1, <3>2, HeldDespiteOthers
    <3>. QED BY <1>2, <2>2, <3>3
  <2>. QED BY <2>1, <2>2
<1>. HIDE DEF q
<1>11. \A i \in IPs : Held(q \o a, hop, datagram_qs'[i], released, i)
  <2>. TAKE i \in IPs
  <2>1. At(a, hop, i) = {}
    BY <1>6 DEF At
  <2>2. Held(q, hop, datagram_qs'[i], released, i)
    BY <1>10
  <2>. QED BY <1>4, <1>8, <2>1, <2>2, HeldDespiteOthers
<1>. QED BY <1>1, <1>3, <1>9, <1>11 DEF OrderInv

LEMMA MaybeSendOrder ==
    ASSUME Inv, OrderInv, MaybeSend
    PROVE  OrderInv'
<1>. DEFINE f == ethernet_q
            R == IF Head(f).type = "IPv4" THEN released \cup {Head(f).datagram} ELSE released
<1>1. /\ f # <<>> /\ f' = Tail(f) /\ released' = R
      /\ hop' = hop /\ datagram_qs' = datagram_qs
  BY MaybeSendStep
<1>2. f \in Seq(Frames) /\ hop \in Seq(IPs)
  BY DEF Inv, TypeOK
<1>3. /\ \A i \in IPs : Held(f, hop, datagram_qs[i], released, i)
      /\ Known(f, hop) /\ released \subseteq DOMAIN hop
  BY DEF OrderInv
<1>4. /\ Head(f) = f[1] /\ 1 \in DOMAIN f
      /\ \A k \in DOMAIN Tail(f) : k + 1 \in DOMAIN f /\ Tail(f)[k] = f[k + 1]
  <2>1. /\ Len(f) \in Nat /\ Len(f) > 0 /\ Head(f) = f[1]
        /\ DOMAIN f = 1 .. Len(f) /\ DOMAIN Tail(f) = 1 .. Len(f) - 1
        /\ \A k \in 1 .. Len(f) - 1 : Tail(f)[k] = f[k + 1]
    BY <1>1, <1>2, HeadTailProperties, EmptySeq
  <2>. QED BY <2>1
<1>5. Known(f', hop) /\ R \subseteq DOMAIN hop
  BY <1>1, <1>3, <1>4 DEF Known
<1>6. \A i \in IPs : Held(Tail(f), hop, datagram_qs[i], R, i)
  <2>. TAKE i \in IPs
  <2>1. Held(f, hop, datagram_qs[i], released, i)
    BY <1>3
  <2>. QED BY <1>1, <1>2, <1>3, <2>1, HeldPopped
<1>. HIDE DEF R
<1>. QED BY <1>1, <1>5, <1>6 DEF OrderInv

LEMMA OrderStep == Inv /\ OrderInv /\ [Next]_vars => OrderInv'
<1>. SUFFICES ASSUME Inv, OrderInv, [Next]_vars PROVE OrderInv'
  OBVIOUS
<1>1. ASSUME NEW ip \in IPs, SendDatagram(ip) PROVE OrderInv'
  BY <1>1, SendDatagramOrder
<1>2. ASSUME NEW ip \in IPs, NEW eth \in Ethernets, NEW dst \in {OwnEthernet, Broadcast},
             NEW request \in BOOLEAN, NEW target \in IPs \cup {OwnIP},
             ReceiveARP(ip, eth, dst, request, target)
      PROVE  OrderInv'
  BY <1>2, ReceiveARPOrder
<1>3. CASE ReceiveOther \/ UNCHANGED vars
  BY <1>3, ReceiveOtherStep DEF OrderInv, vars
<1>4. ASSUME NEW ms \in Quanta, Tick(ms) PROVE OrderInv'
  BY <1>4, TickStep DEF OrderInv
<1>5. CASE MaybeSend
  BY <1>5, MaybeSendOrder
<1>. QED BY <1>1, <1>2, <1>3, <1>4, <1>5 DEF Next

(***************************************************************************)
(* NothingLostOrReordered: every datagram given to send_datagram is, until *)
(* maybe_send hands it out, in a frame or in the queue of its next hop,    *)
(* once, and the datagrams for a host leave in the order they were given:  *)
(* those for a host whose address is being asked for cannot be overtaken   *)
(* (network_interface.cc:38, 88). OrderInv says the same of any frames,    *)
(* queue and released datagrams, so that one lemma each tells what a frame *)
(* more, a datagram more, a queue released and a frame less do to it.      *)
(***************************************************************************)
THEOREM NothingLostOrReordered == Spec => []EachOnceInOrder
<1>1. OrderInv => EachOnceInOrder
  BY HeldIsOrder DEF OrderInv
<1>. QED BY <1>1, Invariance, InitOrder, OrderStep, PTL DEF Spec

-----------------------------------------------------------------------------
(* The adapter *)

\* The conversation the adapter is configured for.
OwnConversation == Conversation(cfg.source, cfg.destination)

(***************************************************************************)
(* The invariant: a listening adapter has talked to nobody, and any other  *)
(* has talked in its own conversation only. OnePeer alone is not           *)
(* inductive: it does not say that the one peer is the configured one.     *)
(***************************************************************************)
Locked == /\ cfg.listening => talks = {}
          /\ ~cfg.listening => talks \subseteq {OwnConversation}

\* At the start nobody has talked.
LEMMA InitLocked == AdapterInit => Locked
BY DEF AdapterInit, Locked

\* A datagram that a connected adapter accepts is of its own conversation: all
\* four of its addresses and ports are compared.
LEMMA ConnectedAccepts ==
    ASSUME NEW c, NEW d, ~c.listening, Accepts(c, d)
    PROVE  Conversation(d.dst, d.src) = Conversation(c.source, c.destination)
BY DEF Accepts, Related, Unwrapped, Conversation

\* What a listening adapter accepts is of the conversation it is locked to by it.
LEMMA ListeningAccepts ==
    ASSUME NEW c, NEW d, c.listening, Accepts(c, d)
    PROVE  /\ ~Unwrapped(c, d).listening
           /\ Conversation(d.dst, d.src) =
                  Conversation(Unwrapped(c, d).source, Unwrapped(c, d).destination)
BY DEF Accepts, Related, Unwrapped, Conversation

\* An adapter that is connected keeps its configuration.
LEMMA ConnectedStays == ASSUME NEW c, NEW d, ~c.listening PROVE Unwrapped(c, d) = c
BY DEF Unwrapped

\* Every step keeps the invariant; only Write and Read touch what it is about.
LEMMA StepLocked == Locked /\ [AdapterNext]_adapterVars => Locked'
<1>. SUFFICES ASSUME Locked, [AdapterNext]_adapterVars PROVE Locked'
  OBVIOUS
<1>1. CASE UNCHANGED <<cfg, talks>>
  BY <1>1 DEF Locked, OwnConversation
<1>2. CASE Write
  <2>1. ~cfg.listening /\ cfg' = cfg /\ talks' = talks \cup {OwnConversation}
    BY <1>2 DEF Write, OwnConversation
  <2>. QED BY <2>1 DEF Locked, OwnConversation
<1>3. CASE Read
  <2>. DEFINE d == Head(fromNet).datagram
  <2>1. CASE cfg' = Unwrapped(cfg, d) /\ Accepts(cfg, d)
             /\ talks' = talks \cup {Conversation(d.dst, d.src)}
    <3>1. CASE cfg.listening
      <4>1. talks' = {Conversation(d.dst, d.src)}
        BY <2>1, <3>1 DEF Locked
      <4>2. ~cfg'.listening /\ Conversation(d.dst, d.src) = OwnConversation'
        BY <2>1, <3>1, ListeningAccepts DEF OwnConversation
      <4>. QED BY <4>1, <4>2 DEF Locked
    <3>2. CASE ~cfg.listening
      <4>1. cfg' = cfg
        BY <2>1, <3>2, ConnectedStays
      <4>2. Conversation(d.dst, d.src) = OwnConversation
        BY <2>1, <3>2, ConnectedAccepts DEF OwnConversation
      <4>. QED BY <2>1, <3>2, <4>1, <4>2 DEF Locked, OwnConversation
    <3>. QED BY <3>1, <3>2
  <2>2. CASE cfg' = Unwrapped(cfg, d) /\ talks' = talks
    <3>1. CASE cfg.listening
      BY <2>2, <3>1 DEF Locked
    <3>2. CASE ~cfg.listening
      BY <2>2, <3>2, ConnectedStays DEF Locked, OwnConversation
    <3>. QED BY <3>1, <3>2
  <2>. QED BY <1>1, <1>3, <2>1, <2>2 DEF Read, Return
<1>4. CASE SendPending \/ (\E ms \in AdapterQuanta : AdapterTick(ms)) \/ LinkSends \/ LinkTakes
  BY <1>1, <1>4 DEF SendPending, AdapterTick, LinkSends, LinkTakes
<1>5. CASE Network \/ InternetSends
  BY <1>1, <1>5 DEF Network, FromHost, ToHost, ToInternet, FromInternet, LoopTimeout,
                    InternetSends, adapter
<1>6. CASE UNCHANGED adapterVars
  BY <1>1, <1>6 DEF adapterVars, adapter
<1>. QED BY <1>2, <1>3, <1>4, <1>5, <1>6 DEF AdapterNext

\* In either case there is at most one conversation.
LEMMA LockedIsOnePeer == Locked => OnePeer
<1>. SUFFICES ASSUME Locked PROVE Cardinality(talks) <= 1
  BY DEF OnePeer
<1>1. PICK x : talks \subseteq {x}
  BY DEF Locked
<1>2. IsFiniteSet({x}) /\ Cardinality({x}) = 1
  BY FS_Singleton
<1>3. Cardinality(talks) <= Cardinality({x})
  BY <1>1, <1>2, FS_Subset
<1>. QED BY <1>2, <1>3

(***************************************************************************)
(* OneConversation: an adapter, listening or connected, hands over and     *)
(* sends segments of one connection only (tcp_over_ip.cc:57).              *)
(***************************************************************************)
THEOREM OneConversation == AdapterSpec => []OnePeer
<1>1. AdapterSpec => []Locked
  BY InitLocked, StepLocked, PTL DEF AdapterSpec
<1>. QED BY <1>1, LockedIsOnePeer, PTL
=============================================================================
