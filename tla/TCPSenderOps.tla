---------------------------- MODULE TCPSenderOps -----------------------------
(***************************************************************************)
(* The TCPSender of src/src/tcp_sender.{hh,cc} and the Timer it owns, as a *)
(* record and an operator for each member function. Absolute time and the  *)
(* time stamps of segments are not kept: the timer knows how long it still *)
(* has to run, which is all that is_expired asks.                          *)
(***************************************************************************)
EXTENDS ByteStreamOps, WrappingIntegers

CONSTANTS
    InitialRTO,   \* initial_RTO_ms_
    MaxPayload    \* TCPConfig::MAX_PAYLOAD_SIZE

ASSUME SenderAssumption ==
    /\ InitialRTO \in Nat /\ InitialRTO > 0
    /\ MaxPayload \in Nat /\ MaxPayload > 0

\* TCPSenderMessage::sequence_length
SequenceLength(m) == Bit(m.SYN) + Len(m.payload) + Bit(m.FIN)

\* Timer
Stopped == [running |-> FALSE, left |-> 0]
Started(timeout) == [running |-> TRUE, left |-> timeout]
IsExpired(t) == t.running /\ t.left = 0
Elapse(t, ms) == [t EXCEPT !.left = IF @ > ms THEN @ - ms ELSE 0]

\* The constructor.
NewSender(isn) ==
    [isn |-> isn, rto |-> InitialRTO, timer |-> Stopped, ackno |-> isn, window_size |-> 1,
     pushed |-> <<>>, in_flight |-> <<>>, retransmissions |-> 0,
     syn_sent |-> FALSE, fin_sent |-> FALSE, absolute_seqno |-> 0,
     retransmit |-> FALSE, dont_back_off |-> FALSE]

\* Every number off the wire is unwrapped near the next number to be sent.
Absolute(s, raw) == Unwrap(raw, s.isn, s.absolute_seqno)

Outstanding(s) == s.in_flight \o s.pushed

-----------------------------------------------------------------------------
(* push *)

\* Fault: what is in flight does not count against the window.
RoomOfWindow(s) == s.window_size

\* total_bytes_to_push, in 64 bits: with an ackno below the window it wraps.
Room(s) == Sub64(s.window_size, Sub64(s.absolute_seqno, Absolute(s, s.ackno)))

PushBudget(s) == IF s.syn_sent THEN Room(s) ELSE Sub64(Room(s), 1)

\* The loop goes on while segment.SYN is set and bytes are buffered, budget or
\* not: a first push with more bytes than budget does not return.
PushReturns(s, stream) == s.syn_sent \/ stream.size <= PushBudget(s)

\* Fault: the sequence number is not advanced from segment to segment.
SegmentStartStuck(s, k) == s.absolute_seqno

SegmentStart(s, k) == s.absolute_seqno + (k - 1) * MaxPayload

\* What the loop makes of n buffered bytes: full segments and a last one. The
\* segment is declared outside the loop, so SYN stays set in all of them.
Segments(s, bytes, fin) ==
    LET syn == ~s.syn_sent
        n == Len(bytes)
        count == IF n = 0 THEN 1 ELSE (n + MaxPayload - 1) \div MaxPayload
    IN  [k \in 1 .. count |->
            [seqno |-> Wrap(SegmentStart(s, k), s.isn),
             SYN |-> syn,
             payload |-> SubSeq(bytes, (k - 1) * MaxPayload + 1, MinOf(k * MaxPayload, n)),
             FIN |-> fin /\ k = count]]

SenderPush(s, stream) ==
    LET budget == PushBudget(s)
        n == MinOf(budget, stream.size)
        rest == ReaderPop(stream, n)
        fin == /\ ~s.fin_sent
               /\ IsFinished(rest)
               /\ budget > n \/ ~s.syn_sent
        made == n > 0 \/ fin \/ ~s.syn_sent
    IN  IF s.syn_sent /\ budget = 0
        THEN [s |-> s, stream |-> stream]
        ELSE [s |-> [s EXCEPT
                        !.syn_sent = TRUE,
                        !.fin_sent = @ \/ fin,
                        !.absolute_seqno = @ + Bit(~s.syn_sent) + n + Bit(fin),
                        !.pushed = IF made THEN @ \o Segments(s, ReadBytes(stream, n), fin)
                                   ELSE @],
              stream |-> rest]

-----------------------------------------------------------------------------
(* maybe_send: what it returns and what it leaves behind *)

\* b_retransmit_ with nothing in flight takes front() of an empty deque.
MaybeSendDefined(s) == s.retransmit => s.in_flight # <<>>

\* Fault: a retransmission that is due is overlooked.
NothingPushed(s) == s.pushed = <<>>

NothingToSend(s) == ~s.retransmit /\ s.pushed = <<>>

ToSend(s) == IF s.retransmit THEN Head(s.in_flight) ELSE Head(s.pushed)

\* Fault: the timer is not started.
AfterSendUntimed(s) ==
    IF s.retransmit
    THEN [s EXCEPT !.retransmit = FALSE]
    ELSE [s EXCEPT !.pushed = Tail(@), !.in_flight = Append(@, Head(s.pushed))]

AfterSend(s) ==
    IF s.retransmit
    THEN [s EXCEPT !.retransmit = FALSE]
    ELSE [s EXCEPT !.pushed = Tail(@),
                   !.in_flight = Append(@, Head(s.pushed)),
                   !.timer = IF @.running THEN @ ELSE Started(s.rto)]

SendEmptyMessage(s) ==
    [seqno |-> Wrap(s.absolute_seqno, s.isn), SYN |-> FALSE, payload |-> <<>>, FIN |-> FALSE]

-----------------------------------------------------------------------------
(* receive *)

\* Fault: a segment acknowledged in part is given up.
UnacknowledgedStarts(s, raw) ==
    SelectSeq(s.in_flight, LAMBDA m : Absolute(s, m.seqno) >= Absolute(s, raw))

\* The segments left once the fully acknowledged ones at the front are popped.
Unacknowledged(s, raw) ==
    LET kept == {k \in DOMAIN s.in_flight :
                    Absolute(s, s.in_flight[k].seqno) + SequenceLength(s.in_flight[k])
                        > Absolute(s, raw)}
    IN  IF kept = {} THEN <<>> ELSE SubSeq(s.in_flight, Min(kept), Len(s.in_flight))

\* Fault: progress does not reset the timeout.
TimeoutKept(s, new) == s.rto

TimeoutAfterAck(s, new) == IF new THEN InitialRTO ELSE s.rto

\* The ackno is taken over even if it is older than the last one.
SenderReceive(s, raw, window) ==
    LET left == Unacknowledged(s, raw)
        new == Absolute(s, s.ackno) < Absolute(s, raw)
        timer == IF left = <<>> THEN Stopped
                 ELSE IF new THEN Started(InitialRTO) ELSE s.timer
    IN  IF Absolute(s, raw) > s.absolute_seqno
        THEN s
        ELSE [s EXCEPT !.ackno = raw,
                       !.window_size = IF window > 0 THEN window ELSE 1,
                       !.dont_back_off = (window = 0),
                       !.in_flight = left,
                       !.timer = timer,
                       !.rto = TimeoutAfterAck(s, new),
                       !.retransmissions = IF new THEN 0 ELSE @]

-----------------------------------------------------------------------------
(* tick. window_size_ is never 0, so the test of it always succeeds. *)

SenderTick(s, ms) ==
    LET t == Elapse(s.timer, ms)
        rto == IF s.dont_back_off THEN s.rto ELSE 2 * s.rto
    IN  IF ~IsExpired(t)
        THEN [s EXCEPT !.timer = t]
        ELSE [s EXCEPT !.retransmit = @ \/ s.in_flight # <<>>,
                       !.rto = rto,
                       !.retransmissions = @ + 1,
                       !.timer = Started(rto)]
=============================================================================
