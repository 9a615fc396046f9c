--------------------------- MODULE TCPReceiverOps ----------------------------
(***************************************************************************)
(* The TCPReceiver of src/src/tcp_receiver.cc: it turns the numbers of     *)
(* incoming segments into stream indices for the Reassembler, and reports  *)
(* how far the stream has been assembled.                                  *)
(***************************************************************************)
EXTENDS ReassemblerOps, WrappingIntegers

CONSTANT MaxWindow   \* UINT16_MAX, the largest window a segment can carry

NewReceiver == [syn_recv |-> FALSE, fin_recv |-> FALSE, isn |-> 0]

\* A later SYN does not move the zero point.
NoteSYN(rcv, m) ==
    IF m.SYN /\ ~rcv.syn_recv THEN [rcv EXCEPT !.syn_recv = TRUE, !.isn = m.seqno] ELSE rcv

\* The index of the first payload byte. That of a bare repeat of the SYN's
\* number, a keep-alive, wraps to 2^64 - 1.
StreamIndex(rcv, in, m) ==
    Sub64(Unwrap(Add32(m.seqno, Bit(m.SYN)), rcv.isn, in.pushed), 1)

\* What is assembled of a message once the SYN has been seen.
Assembled(rcv, m, r) == [rcv |-> [rcv EXCEPT !.fin_recv = @ \/ m.FIN], rea |-> r.rea, in |-> r.out]

\* receive, with the Reassembler and the inbound stream it is handed.
ReceiverReceive(rcv, rea, in, m) ==
    IF rcv.syn_recv \/ m.SYN
    THEN Assembled(NoteSYN(rcv, m), m,
                   InsertSubstring(rea, in, StreamIndex(NoteSYN(rcv, m), in, m), m.payload, m.FIN))
    ELSE [rcv |-> rcv, rea |-> rea, in |-> in]

\* Fault: a FIN is acknowledged as soon as it is seen.
NextNumberAtFIN(rcv, in) == in.pushed + 1 + Bit(rcv.fin_recv)

\* The number after all that has been assembled, SYN and FIN included.
NextNumber(rcv, in) == in.pushed + 1 + Bit(rcv.fin_recv /\ in.closed)

\* send. Without a SYN there is no ackno: has is the optional's flag.
ReceiverSend(rcv, in) ==
    [has |-> rcv.syn_recv,
     ackno |-> IF rcv.syn_recv THEN Wrap(NextNumber(rcv, in), rcv.isn) ELSE 0,
     window |-> MinOf(AvailableCapacity(in), MaxWindow)]
=============================================================================
