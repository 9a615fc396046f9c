---------------------------- MODULE WireFormatOps ----------------------------
(***************************************************************************)
(* How Ethernet frames, ARP messages, IPv4 datagrams and TCP segments are  *)
(* written to the wire and read from it: serialize and parse of            *)
(* src/util/{ethernet_header,arp_message,ipv4_header,tcp_segment}.cc.      *)
(***************************************************************************)
EXTENDS ParserOps

CONSTANT None   \* an absent ackno

Ones(n) == [k \in 1 .. n |-> 1]
SetError(p, when) == [p EXCEPT !.error = @ \/ when]

-----------------------------------------------------------------------------
\* Ethernet: destination and source byte by byte, then the type.

TypeIPv4 == <<8, 0>>
TypeARP == <<8, 6>>

EthernetWidths == Ones(12) \o <<2>>
SerializeFrame(f) ==
    Output(PutBuffers(PutIntegers(NewSerializer, <<f.dst, f.src, f.type>>), f.payload))
ParseFrame(p) ==
    LET r == Integers(p, EthernetWidths)
    IN  [parser |-> r.parser, type |-> Last(r.values), payload |-> AllRemaining(r.parser)]

\* ARP: hardware and protocol type, the sizes of their addresses, the opcode
\* (1 request, 2 reply); then Ethernet and IP address of sender and target.
ARPWidths == <<2, 2, 1, 1, 2>>
ARPAddressWidths == Ones(6) \o <<4>> \o Ones(6) \o <<4>>
Supported(head) ==
    /\ SubSeq(head, 1, 4) = <<Two(1), TypeIPv4, <<6>>, <<4>>>>
    /\ head[5] \in {Two(1), Two(2)}
SerializeARP(head, addresses) == Output(PutIntegers(NewSerializer, head \o addresses))
ParseARP(p) ==
    LET head == Integers(p, ARPWidths)
        rest == Integers(head.parser, ARPAddressWidths)
    IN  IF ~Supported(head.values)
        THEN [parser |-> SetError(head.parser, TRUE), message |-> None]
        ELSE [parser |-> rest.parser, message |-> FlattenSeq(head.values \o rest.values)]

-----------------------------------------------------------------------------
\* IPv4. frag has the flags df and mf and the fragment offset, 15 bits.

DefaultHeader == [ver |-> 4, hlen |-> 5, tos |-> <<0>>, len |-> 0, id |-> Two(0),
                  frag |-> 16384, ttl |-> <<128>>, proto |-> <<6>>, cksum |-> 0,
                  src |-> <<0, 0, 0, 0>>, dst |-> <<0, 0, 0, 0>>]

IPv4Widths == <<1, 1, 2, 2, 2, 1, 1, 2, 4, 4>>
IPv4Integers(h) ==
    << <<h.ver * 16 + (h.hlen % 16)>>, h.tos, Two(h.len), h.id, Two(h.frag), h.ttl, h.proto,
       Two(h.cksum), h.src, h.dst >>

IPv4Checksum(h) ==
    Value(AddBuffers(NewChecksum(0),
                     Output(PutIntegers(NewSerializer, IPv4Integers([h EXCEPT !.cksum = 0])))))

SerializeDatagram(d) ==
    Output(PutBuffers(PutIntegers(NewSerializer, IPv4Integers(d.header)), d.payload))

IPv4Fields(v) ==
    [ver |-> v[1][1] \div 16, hlen |-> v[1][1] % 16, tos |-> v[2], len |-> Number(v[3]),
     id |-> v[4], frag |-> Number(v[5]) % 32768, ttl |-> v[6], proto |-> v[7],
     cksum |-> Number(v[8]), src |-> v[9], dst |-> v[10]]

\* Fault: the checksum is computed after the given one has been replaced.
ChecksumTrusted(h) == TRUE

ChecksumHolds(h) == IPv4Checksum(h) = h.cksum

ParseDatagram(p) ==
    LET r == Integers(p, IPv4Widths)
        h == IPv4Fields(r.values)
        q == SetError(r.parser, h.ver # 4 \/ h.hlen < 5)
        end == IF q.error THEN q
               ELSE SetError(RemovePrefix(q, h.hlen * 4 - 20), ~ChecksumHolds(h))
    IN  [parser |-> end, header |-> h, payload |-> AllRemaining(end)]

PayloadLength(h) == (h.len - 4 * h.hlen) % 65536

Halves(address) == Number(SubSeq(address, 1, 2)) + Number(SubSeq(address, 3, 4))

\* Fault: the length of the datagram, not of the segment.
PseudoOfDatagram(h) == Halves(h.src) + Halves(h.dst) + Number(h.proto) + h.len

PseudoChecksum(h) == Halves(h.src) + Halves(h.dst) + Number(h.proto) + PayloadLength(h)

-----------------------------------------------------------------------------
\* TCP

Flag(b, value) == IF b THEN value ELSE 0
HasFlag(octet, value) == (octet \div value) % 2 = 1

TCPWidths == <<2, 2, 4, 4, 1, 1, 2, 2, 2>>
TCPIntegers(s) ==
    << s.src_port, s.dst_port, s.seqno,
       IF s.ackno = None THEN <<0, 0, 0, 0>> ELSE s.ackno,
       <<80>>,
       <<Flag(s.ackno # None, 16) + Flag(s.reset, 4) + Flag(s.SYN, 2) + Flag(s.FIN, 1)>>,
       s.window_size, Two(s.cksum), Two(0) >>

SerializeSegment(s) ==
    Output(PutBuffer(PutIntegers(NewSerializer, TCPIntegers(s)), s.payload))

SegmentChecksum(s, pseudo) ==
    Value(AddBuffers(NewChecksum(pseudo), SerializeSegment([s EXCEPT !.cksum = 0])))

TCPFields(v, payload) ==
    LET flags == v[6][1]
    IN  [src_port |-> v[1], dst_port |-> v[2], seqno |-> v[3],
         ackno |-> IF HasFlag(flags, 16) THEN v[4] ELSE None,
         reset |-> HasFlag(flags, 4), SYN |-> HasFlag(flags, 2), FIN |-> HasFlag(flags, 1),
         window_size |-> v[7], cksum |-> Number(v[8]), payload |-> FlattenSeq(payload)]

\* A data offset below 5 takes everything with it: the difference is unsigned.
OptionBytes(offset, p) == IF offset < 5 THEN p.size ELSE offset * 4 - 20

ParseSegment(p, pseudo) ==
    IF Value(AddBytes(NewChecksum(pseudo), FlattenSeq(AllRemaining(p)))) # 0
    THEN [parser |-> SetError(p, TRUE), segment |-> None]
    ELSE LET r == Integers(p, TCPWidths)
             offset == r.values[5][1] \div 16
             q == SetError(RemovePrefix(r.parser, OptionBytes(offset, r.parser)), offset < 5)
         IN  [parser |-> q, segment |-> TCPFields(r.values, AllRemaining(q))]

\* wrap_tcp_in_ip, for a segment that has its ports
WrapInIP(s, src, dst) ==
    LET header == [DefaultHeader EXCEPT !.src = src, !.dst = dst,
                                        !.len = 5 * 4 + 20 + Len(s.payload)]
        segment == [s EXCEPT !.cksum = SegmentChecksum(s, PseudoChecksum(header))]
    IN  [header |-> [header EXCEPT !.cksum = IPv4Checksum(header)],
         payload |-> SerializeSegment(segment)]
=============================================================================
