----------------------------- MODULE TCPPeerOps ------------------------------
(***************************************************************************)
(* The TCPPeer of src/util/tcp_peer.hh: a TCPSender with the outbound      *)
(* stream and a TCPReceiver with the Reassembler and the inbound stream,   *)
(* as one record, and collect_segments of TCPMinnowSocket, which calls     *)
(* maybe_send until it has nothing more.                                   *)
(***************************************************************************)
EXTENDS TCPReceiverOps, TCPSenderOps

CONSTANTS SendCapacity, RecvCapacity    \* of TCPConfig

ASSUME PeerAssumption == {MaxWindow, SendCapacity, RecvCapacity} \subseteq Nat \ {0}

NewPeer(isn) ==
    [sender |-> NewSender(isn), outbound |-> NewByteStream(SendCapacity),
     receiver |-> NewReceiver, reassembler |-> NewReassembler(RecvCapacity),
     inbound |-> NewByteStream(RecvCapacity), need_send |-> FALSE]

HasAckno(p) == p.receiver.syn_recv

SequenceNumbersInFlight(p) ==
    FoldLeft(LAMBDA sum, m : sum + SequenceLength(m), 0, Outstanding(p.sender))

\* Fault: what is still unacknowledged is forgotten.
ActiveOnStreams(p) == ~p.inbound.error /\ (~IsFinished(p.outbound) \/ ~p.inbound.closed)

Active(p) ==
    /\ ~p.inbound.error
    /\ ~IsFinished(p.outbound) \/ ~p.inbound.closed \/ Outstanding(p.sender) # <<>>

Pushed(p, r) == [p EXCEPT !.sender = r.s, !.outbound = r.stream]
PeerPush(p) == Pushed(p, SenderPush(p.sender, p.outbound))

-----------------------------------------------------------------------------

\* A segment off the wire: seqno, SYN, payload, FIN, window, RST, and the ACK
\* flag with its field. The sender takes the field whether the flag is set or
\* not: receive dereferences the optional, whose storage the parser has filled.
PeerAcceptsAck(p, seg) == SenderReceive(p.sender, seg.ackno, seg.window)

\* A segment that takes numbers is answered, and one that repeats the number
\* before the next one, a keep-alive.
NeedsReply(p, seg, ours) ==
    \/ p.need_send
    \/ SequenceLength(seg) > 0
    \/ ours.has /\ Add32(seg.seqno, 1) = ours.ackno

\* r is what the receiver makes of the segment.
Accepted(p, seg, r) ==
    [p EXCEPT !.sender = PeerAcceptsAck(p, seg),
              !.need_send = NeedsReply(p, seg, ReceiverSend(p.receiver, p.inbound)),
              !.receiver = r.rcv, !.reassembler = r.rea, !.inbound = r.in]

PeerReceive(p, seg) ==
    IF seg.RST \/ p.inbound.error
    THEN [p EXCEPT !.inbound = WriterSetError(@)]
    ELSE Accepted(p, seg, ReceiverReceive(p.receiver, p.reassembler, p.inbound, seg))

PeerTick(p, ms) == [p EXCEPT !.sender = SenderTick(@, ms)]

-----------------------------------------------------------------------------

\* The segment of a sender's message m and a receiver's message r.
Segment(p, m, r) ==
    [seqno |-> m.seqno, SYN |-> m.SYN, payload |-> m.payload, FIN |-> m.FIN,
     ACK |-> r.has, ackno |-> r.ackno, window |-> r.window,
     RST |-> p.outbound.error \/ p.inbound.error]

\* What the calls of maybe_send return before they return nothing: the segment
\* to be repeated, those waiting, or if there is neither an empty reply.
MessagesToSend(p) ==
    IF NothingToSend(p.sender) /\ p.need_send
    THEN <<SendEmptyMessage(p.sender)>>
    ELSE (IF p.sender.retransmit THEN <<Head(p.sender.in_flight)>> ELSE <<>>) \o p.sender.pushed

\* Fault: the timer is not started.
AllSentUntimed(p) ==
    [p EXCEPT !.need_send = FALSE, !.sender.retransmit = FALSE,
              !.sender.in_flight = @ \o p.sender.pushed, !.sender.pushed = <<>>]

\* The peer they leave.
AllSent(p) ==
    [p EXCEPT !.need_send = FALSE,
              !.sender.retransmit = FALSE,
              !.sender.in_flight = @ \o p.sender.pushed,
              !.sender.pushed = <<>>,
              !.sender.timer = IF @.running \/ p.sender.pushed = <<>> THEN @
                               ELSE Started(p.sender.rto)]

\* The segments of the messages of p, all with the receiver's message r.
InSegments(p, messages, r) == [k \in DOMAIN messages |-> Segment(p, messages[k], r)]

SendAll(p) ==
    [p |-> AllSent(p),
     out |-> InSegments(p, MessagesToSend(p), ReceiverSend(p.receiver, p.inbound))]

\* collect_segments calls maybe_send until it returns nothing; the stream is
\* pushed to the sender once the other end has been heard of.
CollectSegments(p) == SendAll(IF HasAckno(p) THEN PeerPush(p) ELSE p)
=============================================================================
