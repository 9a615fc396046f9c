------------------------------ MODULE TCPSender ------------------------------
(***************************************************************************)
(* A TCPSender between the application that fills its outbound stream, the *)
(* owner that calls push, maybe_send and tick, and a peer whose            *)
(* acknowledgments may be lost and repeated. The peer is honest: it        *)
(* acknowledges only what was sent, in order, and never takes back window  *)
(* it has offered.                                                         *)
(*                                                                         *)
(* The owner "socket" calls as TCPMinnowSocket does: it sends the SYN      *)
(* before there is data, and after each call it drains maybe_send (the     *)
(* while loop of collect_segments); no acknowledgment overtakes another.   *)
(* The owner "any" calls in any order, acknowledgments may be overtaken,   *)
(* and segments without the ACK flag arrive.                               *)
(***************************************************************************)
EXTENDS TCPSenderOps

CONSTANTS
    ISN,          \* the initial sequence number, a raw value
    Capacity,     \* of the outbound stream
    Total,        \* bound: the bytes the application writes
    Windows,      \* the window sizes the peer may advertise
    Quanta,       \* the milliseconds between two ticks
    MaxRetx,      \* bound: consecutive retransmissions explored
    MaxAcks,      \* bound: acknowledgments in the network at once
    Owners,       \* "socket", "any" or both
    BareField     \* the raw ackno field of segments without the ACK flag

ASSUME TCPSenderAssumption ==
    /\ ISN \in Raw /\ Capacity \in Nat /\ Total \in Nat
    /\ Windows \subseteq Nat /\ Quanta \subseteq Nat
    /\ MaxRetx \in Nat /\ MaxAcks \in Nat
    /\ Owners \subseteq {"socket", "any"} /\ BareField \in Raw
    /\ 2 * (Total + 2) < Mod32          \* no more than half a lap is sent

VARIABLES
    owner,    \* who makes the calls
    s,        \* the TCPSender
    stream,   \* the outbound ByteStream
    hung,     \* push was called and does not return
    sent,     \* history: all numbers below this one have been transmitted
    peer,     \* the last acknowledgment the peer made: [ackno, window]
    acks,     \* acknowledgments in the network
    best,     \* history: the highest ackno delivered
    edge      \* history: the highest right edge of a window delivered

vars == <<owner, s, stream, hung, sent, peer, acks, best, edge>>

environment == <<owner, peer, acks>>
history == <<sent, best, edge>>

\* A window of 0 lets one byte through, as a probe.
RightEdge(a) == a.ackno + MaxOf(a.window, 1)

Init == /\ owner \in Owners
        /\ s = NewSender(ISN) /\ stream = NewByteStream(Capacity) /\ hung = FALSE
        /\ sent = 0 /\ best = 0 /\ edge = 1
        /\ peer = [ackno |-> 0, window |-> 1] /\ acks = {}

\* The owner may make another call.
MayCall == ~hung /\ (owner = "socket" => NothingToSend(s))

Write == /\ MayCall
         /\ owner = "socket" => s.syn_sent
         /\ ~stream.closed
         /\ \E n \in 1 .. MinOf(Total - stream.pushed, AvailableCapacity(stream)) :
               stream' = WriterPush(stream, [i \in 1 .. n |-> stream.pushed + i - 1])
         /\ UNCHANGED <<s, hung, environment, history>>

Close == /\ MayCall
         /\ owner = "socket" => s.syn_sent
         /\ ~stream.closed
         /\ stream' = WriterClose(stream)
         /\ UNCHANGED <<s, hung, environment, history>>

CallPush ==
    /\ MayCall
    /\ IF PushReturns(s, stream)
       THEN LET r == SenderPush(s, stream)
            IN  s' = r.s /\ stream' = r.stream /\ UNCHANGED hung
       ELSE hung' = TRUE /\ UNCHANGED <<s, stream>>
    /\ UNCHANGED <<environment, history>>

End(m) == Absolute(s, m.seqno) + SequenceLength(m)

MaybeSend == /\ ~hung /\ ~NothingToSend(s) /\ MaybeSendDefined(s)
             /\ s' = AfterSend(s)
             /\ sent' = MaxOf(sent, End(ToSend(s)))
             /\ UNCHANGED <<stream, hung, environment, best, edge>>

CallTick == /\ MayCall
            /\ \E ms \in Quanta :
                  /\ s.retransmissions < MaxRetx \/ ~IsExpired(Elapse(s.timer, ms))
                  /\ s' = SenderTick(s, ms)
            /\ UNCHANGED <<stream, hung, environment, history>>

\* The peer acknowledges something between the last time and what was sent.
MakeAck == /\ ~hung /\ sent > 0
           /\ Cardinality(acks) < MaxAcks
           /\ \E a \in [ackno : MaxOf(peer.ackno, 1) .. sent, window : Windows] :
                 /\ a.ackno + a.window >= peer.ackno + peer.window
                 /\ peer' = a
                 /\ acks' = acks \cup {a}
           /\ UNCHANGED <<owner, s, stream, hung, history>>

\* An acknowledgment stays in the network after delivery: it may come again.
DeliverAck == /\ MayCall
              /\ \E a \in acks :
                    /\ owner = "socket" => a.ackno >= best /\ RightEdge(a) >= edge
                    /\ s' = SenderReceive(s, Wrap(a.ackno, ISN), a.window)
                    /\ best' = MaxOf(best, a.ackno)
                    /\ edge' = MaxOf(edge, RightEdge(a))
              /\ UNCHANGED <<stream, hung, environment, sent>>

DropAck == /\ \E a \in acks : acks' = acks \ {a}
           /\ UNCHANGED <<owner, s, stream, hung, peer, history>>

\* An acknowledgment of a number that was never made.
ReceiveImpossibleAck ==
    /\ MayCall
    /\ \E w \in Windows : s' = SenderReceive(s, Wrap(s.absolute_seqno + 1, ISN), w)
    /\ UNCHANGED <<stream, hung, environment, history>>

\* A segment without the ACK flag: receive dereferences the empty optional and
\* finds what the parser left in its storage, the field of the wire.
ReceiveWithoutAck ==
    /\ MayCall /\ owner = "any"
    /\ \E w \in Windows : s' = SenderReceive(s, BareField, w)
    /\ UNCHANGED <<stream, hung, environment, history>>

Next == \/ Write \/ Close
        \/ CallPush \/ MaybeSend \/ CallTick
        \/ DeliverAck \/ ReceiveImpossibleAck \/ ReceiveWithoutAck
        \/ MakeAck \/ DropAck

Spec == Init /\ [][Next]_vars

-----------------------------------------------------------------------------

(***************************************************************************)
(* TimerRunsIffInFlight: the retransmission timer runs exactly while       *)
(* something sent is unacknowledged. If it stopped too early, a lost       *)
(* segment would never be sent again and the connection would stall.       *)
(***************************************************************************)
TimerRunsIffInFlight == s.timer.running <=> s.in_flight # <<>>

(***************************************************************************)
(* NothingForgotten: every number handed out and not acknowledged is in a  *)
(* queue from which it can be sent (again), whatever acknowledgments were  *)
(* lost, partial, repeated or late.                                        *)
(***************************************************************************)
NothingForgotten ==
    \A n \in best .. s.absolute_seqno - 1 :
        \E k \in DOMAIN Outstanding(s) :
            LET m == Outstanding(s)[k]
            IN  Absolute(s, m.seqno) <= n /\ n < End(m)

(***************************************************************************)
(* SegmentsCarryStream: a segment at number n carries the bytes of the     *)
(* stream from n - 1 on; SYN occupies number 0 and nothing else does, FIN  *)
(* follows the last byte of a closed stream and nothing follows it.        *)
(***************************************************************************)
SegmentsCarryStream ==
    \A k \in DOMAIN Outstanding(s) :
        LET m == Outstanding(s)[k]
            first == Absolute(s, m.seqno)
        IN  /\ m.SYN <=> first = 0
            /\ Len(m.payload) <= MaxPayload
            /\ \A i \in DOMAIN m.payload : m.payload[i] = first + Bit(m.SYN) + i - 2
            /\ m.FIN => IsFinished(stream) /\ End(m) = s.absolute_seqno
                        /\ End(m) = stream.pushed + 2

(***************************************************************************)
(* WindowRespected: nothing is sent beyond the furthest right edge that a  *)
(* delivered acknowledgment has offered, unless one has been overtaken.    *)
(* push computes the room left by a 64-bit subtraction that wraps if the   *)
(* window were overrun.                                                    *)
(***************************************************************************)
WindowRespected == owner = "socket" => s.absolute_seqno <= edge

(***************************************************************************)
(* RetransmitsSomething: when a retransmission is due there is a segment   *)
(* to retransmit; maybe_send takes the front of the queue unchecked. The   *)
(* socket calls it before an acknowledgment can empty the queue.           *)
(***************************************************************************)
RetransmitsSomething == owner = "socket" => MaybeSendDefined(s)

PowerOfTwo[n \in Nat] == IF n = 0 THEN 1 ELSE 2 * PowerOfTwo[n - 1]

(***************************************************************************)
(* BackoffConsistent: the timeout is the initial one unless something was  *)
(* retransmitted since the last progress, never more than doubled for each *)
(* of those times, and the timer never waits longer than it.               *)
(***************************************************************************)
BackoffConsistent ==
    /\ InitialRTO <= s.rto /\ s.rto <= InitialRTO * PowerOfTwo[s.retransmissions]
    /\ s.timer.running => s.timer.left <= s.rto
=============================================================================
