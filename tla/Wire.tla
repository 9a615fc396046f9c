-------------------------------- MODULE Wire --------------------------------
(***************************************************************************)
(* A TCP segment or an ARP message from serialize at one host to parse at  *)
(* the other: wrapped by wrap_tcp_in_ip, or by a foreign implementation    *)
(* that uses options; over a TUN device (IPv4 datagrams), a TAP device     *)
(* (Ethernet frames), or in memory, where the parser gets the very buffers *)
(* of the Serializer. On the way a byte of the datagram may be changed,    *)
(* the end may be cut off, or zeros be added, as Ethernet does to short    *)
(* frames.                                                                 *)
(***************************************************************************)
EXTENDS WireFormatOps, FiniteSetsExt

CONSTANTS
    Links,       \* of "tun", "tap" and "memory"
    Segments,    \* the TCP segments sent
    TCPOptions, IPOptions,   \* what a foreign host puts into its headers
    OwnMAC, PeerMAC, OwnIP, PeerIP,
    Changes,     \* bound: what a damaged byte is increased by
    MaxPadding   \* bound: the zeros added to a frame

VARIABLES
    link, message,    \* what is sent, and over what
    stage,            \* how far it is
    wire,             \* the buffers on their way
    harm,             \* history: "none", "changed", "cut" or "padded"
    parser,           \* the Parser of the layer being read
    header,           \* the IPv4 header read, for the layer above
    got               \* the segment or message that was parsed

vars == <<link, message, stage, wire, harm, parser, header, got>>

\* A request of PeerIP for OwnIP, as its integers.
Request == [head |-> <<Two(1), TypeIPv4, <<6>>, <<4>>, Two(1)>>,
            addresses |-> <<PeerMAC, PeerIP, [k \in 1 .. 6 |-> 0], OwnIP>>]

Own(s) == [kind |-> "own", segment |-> s]
Foreign(s, topts, iopts) ==
    [kind |-> "foreign", segment |-> s, tcpOptions |-> topts, ipOptions |-> iopts]

Init == /\ link \in Links
        /\ message \in {[kind |-> "ARP"]} \cup {Own(s) : s \in Segments}
                       \cup {Foreign(s, t, i) : s \in Segments, t \in TCPOptions, i \in IPOptions}
        /\ ~(link = "tun" /\ message.kind = "ARP")
        /\ ~(link = "memory" /\ message.kind = "foreign")
        /\ stage = "sending" /\ harm = "none"
        /\ wire = <<>> /\ parser = NewParser(<<>>) /\ header = None /\ got = None

-----------------------------------------------------------------------------
\* What RFC 791 and RFC 9293 make a foreign host send.

Words(bytes) ==
    MapThenSumSet(LAMBDA k : IF k % 2 = 1 THEN bytes[k] * 256 ELSE bytes[k], DOMAIN bytes)
Complement(bytes) == 65535 - (((Words(bytes) - 1) % 65535) + 1)

ForeignSegment(m, cksum) ==
    LET i == [TCPIntegers([m.segment EXCEPT !.cksum = cksum]) EXCEPT
                 ![5] = <<(5 + (Len(m.tcpOptions) \div 4)) * 16>>]
    IN  FlattenSeq(i) \o m.tcpOptions \o m.segment.payload

ForeignHeader(m, length, cksum) ==
    LET hlen == 5 + (Len(m.ipOptions) \div 4)
    IN  FlattenSeq(IPv4Integers([DefaultHeader EXCEPT
            !.src = PeerIP, !.dst = OwnIP, !.hlen = hlen, !.len = 4 * hlen + length,
            !.cksum = cksum])) \o m.ipOptions

ForeignDatagram(m) ==
    LET length == Len(ForeignSegment(m, 0))
        pseudo == PeerIP \o OwnIP \o <<0, 6>> \o Two(length)
        segment == ForeignSegment(m, Complement(pseudo \o ForeignSegment(m, 0)))
    IN  <<ForeignHeader(m, length, Complement(ForeignHeader(m, length, 0))) \o segment>>

-----------------------------------------------------------------------------

Payload == CASE message.kind = "ARP" -> SerializeARP(Request.head, Request.addresses)
             [] message.kind = "own" ->
                  SerializeDatagram(WrapInIP(message.segment, PeerIP, OwnIP))
             [] message.kind = "foreign" -> ForeignDatagram(message)

PayloadType == IF message.kind = "ARP" THEN TypeARP ELSE TypeIPv4

Send ==
    /\ stage = "sending" /\ stage' = "wire"
    /\ wire' = IF link = "tap"
               THEN SerializeFrame([dst |-> OwnMAC, src |-> PeerMAC,
                                    type |-> PayloadType, payload |-> Payload])
               ELSE Payload
    /\ UNCHANGED <<link, message, harm, parser, header, got>>

Bytes == FlattenSeq(wire)
DatagramStart == IF link = "tap" THEN 14 ELSE 0

Harmed(kind, bytes) ==
    /\ stage = "wire" /\ link # "memory" /\ harm = "none"
    /\ harm' = kind /\ wire' = <<bytes>>
    /\ UNCHANGED <<link, message, stage, parser, header, got>>

Change(k, by) ==
    /\ message.kind # "ARP" /\ k > DatagramStart
    /\ Harmed("changed", [Bytes EXCEPT ![k] = (@ + by) % 256])
Cut(n) == Harmed("cut", SubSeq(Bytes, 1, n))
Pad(n) == Harmed("padded", Bytes \o [k \in 1 .. n |-> 0])

\* What the readers of the devices read at once: their first buffers.
Sizes == IF link = "tun" THEN <<20>> ELSE <<14, 20>>

ReadDevice ==
    /\ stage = "wire"
    /\ IF link = "tap"
       THEN stage' = "frame" /\ parser' = NewParser(Readv(Bytes, Sizes))
       ELSE /\ stage' = IF message.kind = "ARP" THEN "ARP" ELSE "datagram"
            /\ parser' = NewParser(IF link = "memory" THEN wire ELSE Readv(Bytes, Sizes))
    /\ UNCHANGED <<link, message, wire, harm, header, got>>

Drops(p) == stage' = "dropped" /\ parser' = p /\ UNCHANGED <<header, got>>

ReadFrame ==
    /\ stage = "frame" /\ ~parser.undefined
    /\ \E f \in {ParseFrame(parser)} :
          \/ f.parser.error /\ Drops(f.parser)
          \/ /\ ~f.parser.error
             /\ parser' = NewParser(f.payload)
             /\ \/ f.type = TypeIPv4 /\ stage' = "datagram"
                \/ f.type = TypeARP /\ stage' = "ARP"
             /\ UNCHANGED <<header, got>>
    /\ UNCHANGED <<link, message, wire, harm>>

ReadARP ==
    /\ stage = "ARP" /\ ~parser.undefined
    /\ \E a \in {ParseARP(parser)} :
          \/ a.parser.error /\ Drops(a.parser)
          \/ /\ ~a.parser.error
             /\ stage' = "delivered" /\ got' = a.message /\ parser' = a.parser
             /\ UNCHANGED header
    /\ UNCHANGED <<link, message, wire, harm>>

ReadDatagram ==
    /\ stage = "datagram" /\ ~parser.undefined
    /\ \E d \in {ParseDatagram(parser)} :
          \/ d.parser.error /\ Drops(d.parser)
          \/ /\ ~d.parser.error
             /\ stage' = "segment" /\ parser' = NewParser(d.payload) /\ header' = d.header
             /\ UNCHANGED got
    /\ UNCHANGED <<link, message, wire, harm>>

ReadSegment ==
    /\ stage = "segment" /\ ~parser.undefined
    /\ \E s \in {ParseSegment(parser, PseudoChecksum(header))} :
          \/ s.parser.error /\ Drops(s.parser)
          \/ /\ ~s.parser.error
             /\ stage' = "delivered" /\ got' = s.segment /\ parser' = s.parser
             /\ UNCHANGED header
    /\ UNCHANGED <<link, message, wire, harm>>

Next == \/ Send
        \/ \E k \in DOMAIN Bytes, by \in Changes : Change(k, by)
        \/ \E n \in 0 .. Len(Bytes) - 1 : Cut(n)
        \/ \E n \in 1 .. MaxPadding : Pad(n)
        \/ ReadDevice \/ ReadFrame \/ ReadARP \/ ReadDatagram \/ ReadSegment

Spec == Init /\ [][Next]_vars

-----------------------------------------------------------------------------

\* The buffers hold bytes, and size_ is how many of them are left.
TypeOK ==
    /\ \A k \in DOMAIN wire : \A i \in DOMAIN wire[k] : wire[k][i] \in Byte
    /\ parser.size = Len(Left(parser))

(***************************************************************************)
(* NoEmptyFront: however a packet is cut into buffers, and however short   *)
(* it is, no integer is read from an empty buffer, where front() is        *)
(* undefined: not after readv, and not in what a Serializer leaves, which  *)
(* has an empty buffer after each one it was given.                        *)
(***************************************************************************)
NoEmptyFront == ~parser.undefined

\* A message as the peer's parser should see it, but for the checksum.
Expected == IF message.kind = "ARP" THEN FlattenSeq(Request.head \o Request.addresses)
            ELSE [message.segment EXCEPT !.cksum = 0]
Seen == IF message.kind = "ARP" THEN got ELSE [got EXCEPT !.cksum = 0]

\* IP options are skipped, but the checksum is computed without them.
OptionsIgnored == message.kind = "foreign" => \A k \in DOMAIN message.ipOptions :
                                                message.ipOptions[k] = 0

(***************************************************************************)
(* ArrivesIntact: a message that nothing has happened to is delivered with *)
(* all its fields and its payload, over each link, from this program and   *)
(* from one that uses TCP options; with IP options, if their sum is zero.  *)
(***************************************************************************)
ArrivesIntact ==
    /\ stage = "delivered" /\ harm = "none" => Seen = Expected
    /\ stage = "dropped" /\ harm = "none" => ~OptionsIgnored

AllZero(s) == \A k \in DOMAIN s : s[k] = 0
SameButZeros(a, b) == \/ IsPrefix(a, b) /\ AllZero(SubSeq(b, Len(a) + 1, Len(b)))
                      \/ IsPrefix(b, a) /\ AllZero(SubSeq(a, Len(b) + 1, Len(a)))

(***************************************************************************)
(* HarmIsNoticed: a message that was harmed is dropped, or it is delivered *)
(* with the headers that were sent. Its payload is what was sent, if a     *)
(* byte was changed (one that is not read, as the reserved flag of IPv4);  *)
(* after a cut or padding it may differ by zeros at its end: they do not   *)
(* count in a checksum, and parse does not look at the length in the IPv4  *)
(* header.                                                                 *)
(***************************************************************************)
HarmIsNoticed ==
    stage = "delivered" /\ harm # "none" =>
        IF message.kind = "ARP" THEN Seen = Expected
        ELSE /\ header = ParseDatagram(NewParser(Payload)).header
             /\ [Seen EXCEPT !.payload = <<>>] = [Expected EXCEPT !.payload = <<>>]
             /\ SameButZeros(Seen.payload, Expected.payload)
             /\ harm = "changed" => Seen.payload = Expected.payload
=============================================================================
