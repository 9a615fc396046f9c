--------------------------- MODULE TCPSenderProofs ---------------------------
(***************************************************************************)
(* Proofs about TCPSender, for every modulus, window and timeout. For      *)
(* every owner, whatever the order of the calls and of the                 *)
(* acknowledgments, the retransmission timer runs exactly while something  *)
(* is in flight. For the owner TCPMinnowSocket, a retransmission that is   *)
(* due has a segment, no window is overrun, and nothing unacknowledged is  *)
(* dropped.                                                                *)
(*                                                                         *)
(* And about SequenceSpace, from the lemmas on Wrap and Unwrap that the    *)
(* sender's window also rests on.                                          *)
(***************************************************************************)
EXTENDS TCPSender, SequenceSpace, TCPPeerLemmas

SenderFields ==
    {"isn", "rto", "timer", "ackno", "window_size", "pushed", "in_flight", "retransmissions",
     "syn_sent", "fin_sent", "absolute_seqno", "retransmit", "dont_back_off"}

\* What of its shape the timer's correctness rests on.
SenderShape ==
    /\ DOMAIN s = SenderFields
    /\ s = [f \in SenderFields |-> s[f]]
    /\ s.isn = ISN
    /\ IsSequence(s.in_flight)
    /\ s.timer \in [running : BOOLEAN, left : Nat]
    /\ s.rto \in Nat

TimerInv == SenderShape /\ TimerRunsIffInFlight

\* What is left in flight after an acknowledgment is a suffix of what was.
LEMMA UnacknowledgedIsSuffix ==
    ASSUME IsSequence(s.in_flight), NEW raw
    PROVE  /\ IsSequence(Unacknowledged(s, raw))
           /\ Unacknowledged(s, raw) # <<>> => s.in_flight # <<>>
<1>. DEFINE q == s.in_flight
            T == {q[k] : k \in DOMAIN q}
            kept == {k \in DOMAIN q :
                        Absolute(s, q[k].seqno) + SequenceLength(q[k]) > Absolute(s, raw)}
<1>1. q \in Seq(T)
  BY DEF IsSequence
<1>2. Unacknowledged(s, raw) = IF kept = {} THEN <<>> ELSE SubSeq(q, Min(kept), Len(q))
  BY DEF Unacknowledged
<1>3. kept \in SUBSET (1 .. Len(q)) /\ Len(q) \in Nat
  <2>. HIDE DEF T
  <2>1. DOMAIN q = 1 .. Len(q) /\ Len(q) \in Nat
    BY <1>1
  <2>. QED BY <2>1
<1>. HIDE DEF q, T, kept
<1>4. CASE kept = {}
  <2>1. Unacknowledged(s, raw) \in Seq(T) /\ Unacknowledged(s, raw) = <<>>
    BY <1>2, <1>4
  <2>2. QED
    BY <2>1, SeqIsSequence
<1>5. CASE kept # {}
  <2>1. Min(kept) \in 1 .. Len(q)
    <3>1. kept \in SUBSET Nat
      BY <1>3
    <3>2. Min(kept) \in kept
      BY <1>5, <3>1, SmallestOf
    <3>3. QED
      BY <1>3, <3>2
  <2>2. SubSeq(q, Min(kept), Len(q)) \in Seq(T) /\ q # <<>>
    BY <1>1, <1>3, <2>1
  <2>3. QED
    BY <1>2, <1>5, <2>2, SeqIsSequence DEF q
<1>6. QED
  BY <1>4, <1>5

-----------------------------------------------------------------------------

LEMMA NewSenderTimer == Init => TimerInv
<1>1. SUFFICES ASSUME Init PROVE TimerInv
  OBVIOUS
<1>2. s = NewSender(ISN)
  BY <1>1 DEF Init
<1>3. s.in_flight = <<>> /\ s.timer = Stopped /\ s.rto = InitialRTO
      /\ DOMAIN s = SenderFields /\ s = [f \in SenderFields |-> s[f]] /\ s.isn = ISN
  BY <1>2 DEF NewSender, SenderFields
<1>4. <<>> \in Seq({})
  OBVIOUS
<1>5. IsSequence(s.in_flight)
  BY <1>3, <1>4, SeqIsSequence
<1>6. QED
  BY <1>3, <1>5, SenderAssumption
     DEF TimerInv, SenderShape, TimerRunsIffInFlight, Stopped

\* A step that leaves the timer, the timeout and the queue in flight alone.
LEMMA TimerUntouched ==
    ASSUME TimerInv,
           DOMAIN s' = SenderFields, s' = [f \in SenderFields |-> s'[f]], s'.isn = ISN,
           s'.in_flight = s.in_flight, s'.timer = s.timer, s'.rto = s.rto
    PROVE  TimerInv'
BY DEF TimerInv, SenderShape, TimerRunsIffInFlight

LEMMA PushTimer ==
    ASSUME TimerInv, CallPush
    PROVE  TimerInv'
<1>1. CASE s' = s
  BY <1>1, TimerUntouched DEF TimerInv, SenderShape
<1>2. CASE s' = SenderPush(s, stream).s
  <2>1. /\ DOMAIN s' = SenderFields /\ s' = [f \in SenderFields |-> s'[f]] /\ s'.isn = ISN
        /\ s'.in_flight = s.in_flight /\ s'.timer = s.timer /\ s'.rto = s.rto
    BY <1>2 DEF SenderPush, TimerInv, SenderShape, SenderFields
  <2>2. QED
    BY <2>1, TimerUntouched
<1>3. QED
  BY <1>1, <1>2 DEF CallPush

LEMMA MaybeSendTimer ==
    ASSUME TimerInv, MaybeSend
    PROVE  TimerInv'
<1>1. s' = AfterSend(s)
  BY DEF MaybeSend
<1>2. CASE s.retransmit
  <2>1. /\ DOMAIN s' = SenderFields /\ s' = [f \in SenderFields |-> s'[f]] /\ s'.isn = ISN
        /\ s'.in_flight = s.in_flight /\ s'.timer = s.timer /\ s'.rto = s.rto
    BY <1>1, <1>2 DEF AfterSend, TimerInv, SenderShape, SenderFields
  <2>2. QED
    BY <2>1, TimerUntouched
<1>3. CASE ~s.retransmit
  <2>1. /\ DOMAIN s' = SenderFields /\ s' = [f \in SenderFields |-> s'[f]] /\ s'.isn = ISN
        /\ s'.in_flight = Append(s.in_flight, Head(s.pushed))
        /\ s'.timer = IF s.timer.running THEN s.timer ELSE Started(s.rto)
        /\ s'.rto = s.rto
    BY <1>1, <1>3 DEF AfterSend, TimerInv, SenderShape, SenderFields
  <2>2. IsSequence(s'.in_flight) /\ s'.in_flight # <<>>
    BY <2>1, AppendIsSequence DEF TimerInv, SenderShape
  <2>3. s'.timer \in [running : BOOLEAN, left : Nat] /\ s'.timer.running
    BY <2>1 DEF TimerInv, SenderShape, Started
  <2>4. QED
    BY <2>1, <2>2, <2>3 DEF TimerInv, SenderShape, TimerRunsIffInFlight
<1>4. QED
  BY <1>2, <1>3

LEMMA TickTimer ==
    ASSUME TimerInv, CallTick
    PROVE  TimerInv'
<1>1. PICK ms \in Nat : s' = SenderTick(s, ms)
  BY TCPSenderAssumption DEF CallTick
<1>. DEFINE t == Elapse(s.timer, ms)
            rto == IF s.dont_back_off THEN s.rto ELSE 2 * s.rto
<1>2. t \in [running : BOOLEAN, left : Nat] /\ t.running = s.timer.running
  BY DEF Elapse, TimerInv, SenderShape
<1>3. rto \in Nat
  BY DEF TimerInv, SenderShape
<1>4. SenderTick(s, ms) = IF ~IsExpired(t)
        THEN [s EXCEPT !.timer = t]
        ELSE [s EXCEPT !.retransmit = @ \/ s.in_flight # <<>>, !.rto = rto,
                       !.retransmissions = @ + 1, !.timer = Started(rto)]
  BY DEF SenderTick
<1>. HIDE DEF t, rto
<1>5. CASE ~IsExpired(t)
  <2>1. /\ DOMAIN s' = SenderFields /\ s' = [f \in SenderFields |-> s'[f]] /\ s'.isn = ISN
        /\ s'.in_flight = s.in_flight /\ s'.timer = t /\ s'.rto = s.rto
    BY <1>1, <1>4, <1>5 DEF TimerInv, SenderShape, SenderFields
  <2>2. QED
    BY <1>2, <2>1 DEF TimerInv, SenderShape, TimerRunsIffInFlight
<1>6. CASE IsExpired(t)
  <2>1. /\ DOMAIN s' = SenderFields /\ s' = [f \in SenderFields |-> s'[f]] /\ s'.isn = ISN
        /\ s'.in_flight = s.in_flight /\ s'.timer = Started(rto) /\ s'.rto = rto
    BY <1>1, <1>4, <1>6 DEF TimerInv, SenderShape, SenderFields
  <2>2. s.timer.running /\ Started(rto) \in [running : BOOLEAN, left : Nat]
        /\ Started(rto).running
    BY <1>2, <1>3, <1>6 DEF IsExpired, Started
  <2>3. QED
    BY <1>3, <2>1, <2>2 DEF TimerInv, SenderShape, TimerRunsIffInFlight
<1>7. QED
  BY <1>5, <1>6

\* Receiving any ackno and window at all.
LEMMA ReceiveTimer ==
    ASSUME TimerInv, NEW raw, NEW window, s' = SenderReceive(s, raw, window)
    PROVE  TimerInv'
<1>. DEFINE left == Unacknowledged(s, raw)
            new == Absolute(s, s.ackno) < Absolute(s, raw)
            timer == IF left = <<>> THEN Stopped
                     ELSE IF new THEN Started(InitialRTO) ELSE s.timer
<1>1. CASE Absolute(s, raw) > s.absolute_seqno
  <2>1. s' = s
    BY <1>1 DEF SenderReceive
  <2>2. QED
    BY <2>1, TimerUntouched DEF TimerInv, SenderShape
<1>2. CASE ~(Absolute(s, raw) > s.absolute_seqno)
  <2>1. IsSequence(left) /\ (left # <<>> => s.in_flight # <<>>)
    BY UnacknowledgedIsSuffix DEF TimerInv, SenderShape
  <2>2. timer \in [running : BOOLEAN, left : Nat] /\ (timer.running <=> left # <<>>)
    <3>. HIDE DEF left, new
    <3>. QED BY <2>1, SenderAssumption
             DEF TimerInv, SenderShape, TimerRunsIffInFlight, Started, Stopped
  <2>3. SenderReceive(s, raw, window)
          = [s EXCEPT !.ackno = raw,
                      !.window_size = IF window > 0 THEN window ELSE 1,
                      !.dont_back_off = (window = 0),
                      !.in_flight = left, !.timer = timer,
                      !.rto = TimeoutAfterAck(s, new),
                      !.retransmissions = IF new THEN 0 ELSE @]
    BY <1>2 DEF SenderReceive
  <2>. HIDE DEF left, timer, new
  <2>4. /\ DOMAIN s' = SenderFields /\ s' = [f \in SenderFields |-> s'[f]] /\ s'.isn = ISN
        /\ s'.in_flight = left /\ s'.timer = timer
        /\ s'.rto = IF new THEN InitialRTO ELSE s.rto
    BY <2>3 DEF TimerInv, SenderShape, SenderFields, TimeoutAfterAck
  <2>5. s'.rto \in Nat
    BY <2>4, SenderAssumption DEF TimerInv, SenderShape
  <2>6. QED
    BY <2>1, <2>2, <2>4, <2>5 DEF TimerInv, SenderShape, TimerRunsIffInFlight
<1>3. QED
  BY <1>1, <1>2

LEMMA TimerInvariance == TimerInv /\ [Next]_vars => TimerInv'
<1>1. SUFFICES ASSUME TimerInv, [Next]_vars PROVE TimerInv'
  OBVIOUS
<1>2. CASE CallPush
  BY <1>1, <1>2, PushTimer
<1>3. CASE MaybeSend
  BY <1>1, <1>3, MaybeSendTimer
<1>4. CASE CallTick
  BY <1>1, <1>4, TickTimer
<1>5. CASE DeliverAck \/ ReceiveImpossibleAck \/ ReceiveWithoutAck
  <2>1. PICK raw, window : s' = SenderReceive(s, raw, window)
    BY <1>5 DEF DeliverAck, ReceiveImpossibleAck, ReceiveWithoutAck
  <2>2. QED
    BY <1>1, <2>1, ReceiveTimer
<1>6. CASE Write \/ Close \/ MakeAck \/ DropAck \/ UNCHANGED vars
  <2>1. s' = s
    BY <1>6 DEF Write, Close, MakeAck, DropAck, vars
  <2>2. QED
    BY <1>1, <2>1, TimerUntouched DEF TimerInv, SenderShape
<1>7. QED
  BY <1>1, <1>2, <1>3, <1>4, <1>5, <1>6 DEF Next

(***************************************************************************)
(* TimerTracksFlight: the retransmission timer of tcp_sender.cc runs       *)
(* exactly while a segment is in flight, for every owner, in whatever      *)
(* order acknowledgments and ticks come.                                   *)
(***************************************************************************)
THEOREM TimerTracksFlight == Spec => []TimerRunsIffInFlight
<1>1. Init => TimerInv
  BY NewSenderTimer
<1>2. TimerInv /\ [Next]_vars => TimerInv'
  BY TimerInvariance
<1>3. TimerInv => TimerRunsIffInFlight
  BY DEF TimerInv
<1>4. QED
  BY <1>1, <1>2, <1>3, PTL DEF Spec

-----------------------------------------------------------------------------
(* A retransmission that is due has a segment. *)

\* A step that takes nothing out of flight and sets retransmit only with
\* something in flight.
LEMMA RetransmitKept ==
    ASSUME RetransmitsSomething, owner' = owner,
           s.in_flight # <<>> => s'.in_flight # <<>>,
           s'.retransmit => s.retransmit \/ s'.in_flight # <<>>
    PROVE  RetransmitsSomething'
BY DEF RetransmitsSomething, MaybeSendDefined

\* A step that leaves no retransmission due.
LEMMA RetransmitDone ==
    ASSUME owner' = "socket" => ~s'.retransmit
    PROVE  RetransmitsSomething'
BY DEF RetransmitsSomething, MaybeSendDefined

LEMMA RetransmitInvariance ==
    TimerInv /\ RetransmitsSomething /\ [Next]_vars => RetransmitsSomething'
<1>1. SUFFICES ASSUME TimerInv, RetransmitsSomething, [Next]_vars PROVE RetransmitsSomething'
  OBVIOUS
<1>. USE <1>1
<1>2. owner' = owner
  BY DEF Next, vars, environment, Write, Close, CallPush, MaybeSend, CallTick, DeliverAck,
         ReceiveImpossibleAck, ReceiveWithoutAck, MakeAck, DropAck
<1>3. CASE CallPush
  <2>1. s' = s \/ s' = SenderPush(s, stream).s
    BY <1>3 DEF CallPush
  <2>2. s'.in_flight = s.in_flight /\ s'.retransmit = s.retransmit
    BY <2>1 DEF SenderPush, TimerInv, SenderShape, SenderFields
  <2>. QED BY <1>2, <2>2, RetransmitKept
<1>4. CASE MaybeSend
  <2>1. s' = AfterSend(s)
    BY <1>4 DEF MaybeSend
  <2>2. CASE s.retransmit
    <3>1. ~s'.retransmit
      BY <2>1, <2>2 DEF AfterSend, TimerInv, SenderShape, SenderFields
    <3>. QED BY <3>1, RetransmitDone
  <2>3. CASE ~s.retransmit
    <3>1. s'.in_flight = Append(s.in_flight, Head(s.pushed))
      BY <2>1, <2>3 DEF AfterSend, TimerInv, SenderShape, SenderFields
    <3>2. s'.in_flight # <<>>
      BY <3>1, AppendIsSequence DEF TimerInv, SenderShape
    <3>. QED BY <1>2, <3>2, RetransmitKept
  <2>. QED BY <2>2, <2>3
<1>5. CASE CallTick
  <2>1. PICK ms \in Nat : s' = SenderTick(s, ms)
    BY <1>5, TCPSenderAssumption DEF CallTick
  <2>2. s'.in_flight = s.in_flight /\ (s'.retransmit => s.retransmit \/ s.in_flight # <<>>)
    BY <2>1 DEF SenderTick, TimerInv, SenderShape, SenderFields
  <2>. QED BY <1>2, <2>2, RetransmitKept
<1>6. CASE DeliverAck \/ ReceiveImpossibleAck \/ ReceiveWithoutAck
  <2>1. PICK raw, window : s' = SenderReceive(s, raw, window)
    BY <1>6 DEF DeliverAck, ReceiveImpossibleAck, ReceiveWithoutAck
  <2>2. s'.retransmit = s.retransmit
    BY <2>1 DEF SenderReceive, TimerInv, SenderShape, SenderFields
  <2>3. owner = "socket" => ~s.retransmit
    BY <1>6 DEF DeliverAck, ReceiveImpossibleAck, ReceiveWithoutAck, MayCall, NothingToSend
  <2>. QED BY <1>2, <2>2, <2>3, RetransmitDone
<1>7. CASE Write \/ Close \/ MakeAck \/ DropAck \/ UNCHANGED vars
  <2>1. s' = s
    BY <1>7 DEF Write, Close, MakeAck, DropAck, vars
  <2>. QED BY <1>2, <2>1, RetransmitKept
<1>. QED BY <1>3, <1>4, <1>5, <1>6, <1>7 DEF Next

(***************************************************************************)
(* NeverRetransmitsNothing: under TCPMinnowSocket, which drains maybe_send *)
(* before it calls anything else, maybe_send never takes the front of an   *)
(* empty queue (tcp_sender.cc:41).                                         *)
(***************************************************************************)
THEOREM NeverRetransmitsNothing == Spec => []RetransmitsSomething
<1>1. Init => RetransmitsSomething
  BY DEF Init, NewSender, RetransmitsSomething, MaybeSendDefined
<1>2. Spec => []TimerInv
  BY NewSenderTimer, TimerInvariance, PTL DEF Spec
<1>. QED BY <1>1, <1>2, RetransmitInvariance, PTL DEF Spec
-----------------------------------------------------------------------------
(* Flow control and the queues under TCPMinnowSocket. *)

\* A number that is at most one beyond the next to be sent comes back whole.
LEMMA AbsoluteOfWrap ==
    ASSUME NEW n \in Nat, s.isn = ISN, s.absolute_seqno \in Nat, s.absolute_seqno <= Total + 2,
           n <= s.absolute_seqno + 1
    PROVE  Absolute(s, Wrap(n, ISN)) = n
<1>. DEFINE c == s.absolute_seqno
<1>1. Total \in Nat /\ 2 * (Total + 2) < Mod32 /\ ISN \in Raw
  BY TCPSenderAssumption
<1>2. c \in Nat /\ 2 * c < Mod32 /\ n < Mod32
  BY <1>1, Modulus
<1>3. Wrap(n, ISN) \in Raw /\ RawOffset(Wrap(n, ISN), ISN) = n
  BY <1>1, <1>2, WrapIsRaw, OffsetOfWrap
<1>. HIDE DEF c
<1>4. Unwrap(Wrap(n, ISN), ISN, c) = n
  BY <1>1, <1>2, <1>3, UnwrapInHalf
<1>. QED BY <1>4 DEF Absolute, c

-----------------------------------------------------------------------------

(***************************************************************************)
(* The invariant under the socket. FlowNumbers is what flow control rests  *)
(* on: the ackno on record is the highest delivered, and the edge of the   *)
(* window is the window on record beyond it, so that the unsigned          *)
(* difference in push is the room that is left. QueuesCover is what        *)
(* retransmission rests on. They need each other: acknowledgments are of   *)
(* numbers sent, and those are of segments that end by absolute_seqno.     *)
(***************************************************************************)
FlowNumbers ==
    /\ SoundStream(stream) /\ stream.pushed <= Total
    /\ s.syn_sent \in BOOLEAN /\ s.fin_sent \in BOOLEAN
    /\ s.isn = ISN
    /\ s.absolute_seqno = stream.popped + Bit(s.syn_sent) + Bit(s.fin_sent)
    /\ ~s.syn_sent => stream.pushed = 0 /\ ~stream.closed /\ ~s.fin_sent
    /\ s.window_size \in Nat /\ s.window_size > 0
    /\ best \in Nat /\ best <= s.absolute_seqno /\ s.ackno = Wrap(best, ISN)
    /\ edge = best + s.window_size /\ s.absolute_seqno <= edge

AcksAreOfSent ==
    /\ sent \in Nat /\ sent <= s.absolute_seqno
    /\ peer.ackno \in Nat
    /\ \A a \in acks : a.ackno \in Nat /\ a.ackno <= sent /\ a.window \in Nat

Queues == Queued(s.in_flight) \cup Queued(s.pushed)

QueuesCover ==
    /\ IsSequence(s.pushed)
    /\ \A m \in Queues : EndsBy(ISN, m, s.absolute_seqno)
    /\ \A x \in Nat : best <= x /\ x < s.absolute_seqno => \E m \in Queues : Covers(ISN, m, x)

FlowInv == owner = "socket" => FlowNumbers /\ AcksAreOfSent /\ QueuesCover

\* The numbers stay within half a lap.
LEMMA NumbersBounded ==
    ASSUME FlowNumbers
    PROVE  s.isn = ISN /\ s.absolute_seqno \in Nat /\ s.absolute_seqno <= Total + 2
<1>1. /\ stream.popped \in Nat /\ stream.pushed \in Nat
      /\ stream.popped <= stream.pushed /\ stream.pushed <= Total
  BY DEF FlowNumbers, SoundStream
<1>2. Total \in Nat
  BY TCPSenderAssumption
<1>3. s.absolute_seqno = stream.popped + Bit(s.syn_sent) + Bit(s.fin_sent) /\ s.isn = ISN
  BY DEF FlowNumbers
<1>4. Bit(s.syn_sent) \in {0, 1} /\ Bit(s.fin_sent) \in {0, 1}
  BY BitValues
<1>. QED BY <1>1, <1>2, <1>3, <1>4

LEMMA InitFlow == Init => FlowInv
<1>. SUFFICES ASSUME Init PROVE FlowNumbers /\ AcksAreOfSent /\ QueuesCover
  BY DEF FlowInv
<1>1. SoundStream(stream) /\ stream.pushed = 0 /\ stream.popped = 0 /\ stream.size = 0
      /\ ~stream.closed
  BY NewIsSound, TCPSenderAssumption DEF Init, NewByteStream
<1>2. /\ s.syn_sent = FALSE /\ s.fin_sent = FALSE /\ s.absolute_seqno = 0
      /\ s.isn = ISN /\ s.window_size = 1 /\ s.ackno = ISN /\ s.pushed = <<>> /\ s.in_flight = <<>>
      /\ best = 0 /\ edge = 1 /\ sent = 0 /\ peer.ackno = 0 /\ acks = {}
  BY DEF Init, NewSender
<1>3. Wrap(0, ISN) = ISN
  <2>1. 0 % Mod32 = 0 /\ ISN \in 0 .. Mod32 - 1
    BY ModuliAssumption, TCPSenderAssumption DEF Raw
  <2>. QED BY <2>1, ModuliAssumption DEF Wrap, Add32
<1>4. FlowNumbers
  <2>1. Bit(s.syn_sent) = 0 /\ Bit(s.fin_sent) = 0
    BY <1>2, BitValues
  <2>2. /\ stream.pushed <= Total
        /\ s.absolute_seqno = stream.popped + Bit(s.syn_sent) + Bit(s.fin_sent)
        /\ s.window_size \in Nat /\ s.window_size > 0
        /\ best \in Nat /\ best <= s.absolute_seqno /\ s.ackno = Wrap(best, ISN)
        /\ edge = best + s.window_size /\ s.absolute_seqno <= edge
    <3>. HIDE DEF Bit
    <3>. QED BY <1>1, <1>2, <1>3, <2>1, TCPSenderAssumption
  <2>3. s.syn_sent \in BOOLEAN /\ s.fin_sent \in BOOLEAN /\ ~s.fin_sent
    BY <1>2
  <2>. QED BY <1>1, <1>2, <2>2, <2>3 DEF FlowNumbers
<1>5. AcksAreOfSent
  BY <1>2 DEF AcksAreOfSent
<1>6. QueuesCover
  <2>1. <<>> \in Seq({})
    OBVIOUS
  <2>2. IsSequence(s.pushed)
    BY <1>2, <2>1, SeqIsSequence
  <2>3. Queues = {}
    <3>1. DOMAIN s.pushed = {} /\ DOMAIN s.in_flight = {}
      BY <1>2
    <3>. QED BY <3>1 DEF Queues, Queued
  <2>4. \A x \in Nat : ~(best <= x /\ x < s.absolute_seqno)
    BY <1>2
  <2>. QED BY <2>2, <2>3, <2>4 DEF QueuesCover
<1>. QED BY <1>4, <1>5, <1>6

\* A step that leaves the sender's numbers and queues alone.
LEMMA QueuesUntouched ==
    ASSUME QueuesCover, s'.pushed = s.pushed, s'.in_flight = s.in_flight,
           s'.absolute_seqno = s.absolute_seqno, best' = best
    PROVE  QueuesCover'
BY DEF QueuesCover, Queues

LEMMA WriteFlow ==
    ASSUME FlowNumbers, AcksAreOfSent, QueuesCover, owner = "socket", Write
    PROVE  FlowNumbers' /\ AcksAreOfSent' /\ QueuesCover'
<1>1. PICK n \in 1 .. MinOf(Total - stream.pushed, AvailableCapacity(stream)) :
          stream' = WriterPush(stream, [i \in 1 .. n |-> stream.pushed + i - 1])
  BY DEF Write
<1>2. s.syn_sent /\ UNCHANGED <<s, hung, owner, peer, acks, sent, best, edge>>
  BY DEF Write, environment, history
<1>3. /\ stream.pushed \in Nat /\ stream.capacity \in Nat /\ stream.size \in Nat
      /\ stream.popped \in Nat /\ Total \in Nat /\ stream.pushed <= Total
  BY TCPSenderAssumption DEF FlowNumbers, SoundStream
<1>4. n \in Nat /\ n <= Total - stream.pushed
  BY <1>3 DEF MinOf, AvailableCapacity
<1>. DEFINE data == [i \in 1 .. n |-> stream.pushed + i - 1]
<1>5. data \in Seq(Int) /\ Len(data) = n
  BY <1>3, <1>4
<1>6. stream' = WriterPush(stream, data)
  BY <1>1
<1>. HIDE DEF data
<1>7. /\ SoundStream(stream') /\ stream'.popped = stream.popped /\ stream'.closed = stream.closed
      /\ stream'.pushed = stream.pushed + MinOf(stream.capacity - stream.size, n)
  BY <1>5, <1>6, PushIsSound DEF FlowNumbers
<1>8. stream'.pushed <= Total
  BY <1>3, <1>4, <1>7 DEF MinOf
<1>9. FlowNumbers'
  BY <1>2, <1>7, <1>8 DEF FlowNumbers
<1>10. AcksAreOfSent'
  BY <1>2 DEF AcksAreOfSent
<1>. QED BY <1>2, <1>9, <1>10, QueuesUntouched

LEMMA CloseFlow ==
    ASSUME FlowNumbers, AcksAreOfSent, QueuesCover, owner = "socket", Close
    PROVE  FlowNumbers' /\ AcksAreOfSent' /\ QueuesCover'
<1>1. /\ s.syn_sent /\ UNCHANGED <<s, hung, owner, peer, acks, sent, best, edge>>
      /\ stream' = WriterClose(stream)
  BY DEF Close, environment, history
<1>2. SoundStream(stream') /\ stream'.popped = stream.popped /\ stream'.pushed = stream.pushed
  BY <1>1, CloseIsSound DEF FlowNumbers, StreamFields
<1>3. FlowNumbers'
  BY <1>1, <1>2 DEF FlowNumbers
<1>4. AcksAreOfSent'
  BY <1>1 DEF AcksAreOfSent
<1>. QED BY <1>1, <1>3, <1>4, QueuesUntouched

-----------------------------------------------------------------------------
(* push *)

\* The room that push computes is what is left to the edge of the window.
LEMMA RoomToEdge ==
    ASSUME FlowNumbers
    PROVE  /\ Room(s) = edge - s.absolute_seqno
           /\ PushBudget(s) \in Nat
           /\ s.syn_sent => PushBudget(s) = edge - s.absolute_seqno
           /\ ~s.syn_sent => PushBudget(s) = edge - s.absolute_seqno - 1
<1>1. s.absolute_seqno \in Nat /\ s.absolute_seqno <= Total + 2 /\ s.isn = ISN
  BY NumbersBounded
<1>2. Absolute(s, s.ackno) = best
  <2>1. best \in Nat /\ best <= s.absolute_seqno + 1 /\ s.ackno = Wrap(best, ISN)
    BY <1>1 DEF FlowNumbers
  <2>2. Absolute(s, Wrap(best, ISN)) = best
    BY <1>1, <2>1, AbsoluteOfWrap
  <2>. QED BY <2>1, <2>2
<1>3. Room(s) = edge - s.absolute_seqno
  BY <1>1, <1>2 DEF Room, Sub64, FlowNumbers
<1>4. ~s.syn_sent => s.absolute_seqno = 0
  <2>1. ASSUME ~s.syn_sent PROVE s.absolute_seqno = 0
    <3>1. Bit(s.syn_sent) = 0 /\ Bit(s.fin_sent) = 0
      BY <2>1, BitValues DEF FlowNumbers
    <3>2. stream.popped = 0
      BY <2>1 DEF FlowNumbers, SoundStream
    <3>3. s.absolute_seqno = stream.popped + Bit(s.syn_sent) + Bit(s.fin_sent)
      BY DEF FlowNumbers
    <3>. QED BY <3>1, <3>2, <3>3
  <2>. QED BY <2>1
<1>5. edge \in Nat /\ edge >= 1 /\ edge - s.absolute_seqno \in Nat
  BY <1>1 DEF FlowNumbers
<1>6. PushBudget(s) = IF s.syn_sent THEN edge - s.absolute_seqno
                      ELSE Sub64(edge - s.absolute_seqno, 1)
  BY <1>3 DEF PushBudget
<1>7. CASE s.syn_sent
  BY <1>3, <1>5, <1>6, <1>7
<1>8. CASE ~s.syn_sent
  <2>1. PushBudget(s) = Sub64(edge - s.absolute_seqno, 1)
    BY <1>6, <1>8
  <2>2. Sub64(edge - s.absolute_seqno, 1) = edge - s.absolute_seqno - 1
    BY <1>1, <1>4, <1>5, <1>8 DEF Sub64
  <2>. QED BY <1>1, <1>3, <1>4, <1>5, <1>8, <2>1, <2>2
<1>. QED BY <1>7, <1>8

-----------------------------------------------------------------------------

\* The parts of the invariant depend on these only.
LEMMA FlowUntouched ==
    ASSUME FlowNumbers, AcksAreOfSent, QueuesCover,
           s'.isn = s.isn, s'.syn_sent = s.syn_sent, s'.fin_sent = s.fin_sent, s'.ackno = s.ackno,
           s'.absolute_seqno = s.absolute_seqno, s'.window_size = s.window_size,
           s'.pushed = s.pushed, s'.in_flight = s.in_flight,
           UNCHANGED <<stream, sent, best, edge, peer, acks>>
    PROVE  FlowNumbers' /\ AcksAreOfSent' /\ QueuesCover'
<1>1. FlowNumbers'
  BY DEF FlowNumbers
<1>2. AcksAreOfSent'
  BY DEF AcksAreOfSent
<1>. QED BY <1>1, <1>2, QueuesUntouched

LEMMA PushFlow ==
    ASSUME TimerInv, FlowNumbers, AcksAreOfSent, QueuesCover, CallPush
    PROVE  FlowNumbers' /\ AcksAreOfSent' /\ QueuesCover'
<1>. DEFINE budget == PushBudget(s)
            n == MinOf(budget, stream.size)
            rest == ReaderPop(stream, n)
            fin == ~s.fin_sent /\ IsFinished(rest) /\ (budget > n \/ ~s.syn_sent)
            made == n > 0 \/ fin \/ ~s.syn_sent
            a == s.absolute_seqno
            len == NumbersOf(s, n, fin)
<1>1. UNCHANGED <<owner, peer, acks, sent, best, edge>>
  BY DEF CallPush, environment, history
<1>2. CASE s' = s /\ stream' = stream
  BY <1>1, <1>2, FlowUntouched
<1>3. CASE /\ s' = [s EXCEPT !.syn_sent = TRUE,
                        !.fin_sent = @ \/ fin,
                        !.absolute_seqno = @ + Bit(~s.syn_sent) + n + Bit(fin),
                        !.pushed = IF made THEN @ \o Segments(s, ReadBytes(stream, n), fin)
                                   ELSE @]
           /\ stream' = rest
  <2>1. /\ budget \in Nat
        /\ s.syn_sent => budget = edge - a
        /\ ~s.syn_sent => budget = edge - a - 1
    BY RoomToEdge
  <2>2. a \in Nat /\ a <= edge /\ edge \in Nat
    BY NumbersBounded DEF FlowNumbers
  <2>3. SoundStream(stream) /\ stream.size \in Nat /\ stream.popped \in Nat /\ stream.pushed \in Nat
        /\ stream.size = stream.pushed - stream.popped
    BY DEF FlowNumbers, SoundStream
  <2>. HIDE DEF budget
  <2>4. n \in Nat /\ n <= stream.size /\ n <= budget
    BY <2>1, <2>3 DEF MinOf
  <2>5. ~s.syn_sent => n = 0
    BY <2>3, <2>4 DEF FlowNumbers
  <2>6. MinOf(n, stream.size) = n
    BY <2>3, <2>4 DEF MinOf
  <2>. HIDE DEF n
  <2>7. /\ SoundStream(rest)
        /\ \A f \in StreamFields \ {"size", "popped", "q"} : rest[f] = stream[f]
        /\ rest.popped = stream.popped + n
    BY <2>3, <2>4, <2>6, PopIsSound
  <2>8. rest.closed = stream.closed /\ rest.pushed = stream.pushed
    BY <2>7 DEF StreamFields
  <2>9. fin \in BOOLEAN /\ (fin => ~s.fin_sent /\ rest.closed)
        /\ (fin /\ s.syn_sent => budget > n)
    BY DEF IsFinished
  <2>. HIDE DEF rest, fin
  <2>10. fin => s.syn_sent
    BY <2>8, <2>9 DEF FlowNumbers
  <2>11. len \in Nat /\ a + len <= edge
    <3>1. CASE s.syn_sent
      <4>1. Bit(~s.syn_sent) = 0
        BY <3>1, BitValues
      <4>2. CASE fin
        <5>1. Bit(fin) = 1 /\ budget > n
          BY <2>9, <3>1, <4>2, BitValues
        <5>. QED BY <2>1, <2>2, <2>4, <3>1, <4>1, <5>1 DEF NumbersOf
      <4>3. CASE ~fin
        <5>1. Bit(fin) = 0
          BY <4>3, BitValues
        <5>. QED BY <2>1, <2>2, <2>4, <3>1, <4>1, <5>1 DEF NumbersOf
      <4>. QED BY <4>2, <4>3
    <3>2. CASE ~s.syn_sent
      <4>1. Bit(~s.syn_sent) = 1 /\ Bit(fin) = 0 /\ n = 0
        BY <2>5, <2>10, <3>2, BitValues
      <4>. QED BY <2>1, <2>2, <3>2, <4>1 DEF NumbersOf
    <3>. QED BY <3>1, <3>2
  <2>12. /\ s'.isn = s.isn /\ s'.syn_sent = TRUE /\ s'.fin_sent = (s.fin_sent \/ fin)
         /\ s'.absolute_seqno = a + Bit(~s.syn_sent) + n + Bit(fin)
         /\ s'.pushed = IF made THEN s.pushed \o Made(s, stream, n, fin) ELSE s.pushed
         /\ s'.in_flight = s.in_flight /\ s'.window_size = s.window_size
         /\ s'.ackno = s.ackno
    BY <1>3 DEF TimerInv, SenderShape, SenderFields, Made
  <2>13. s'.absolute_seqno = a + len
    <3>1. Bit(~s.syn_sent) \in {0, 1} /\ Bit(fin) \in {0, 1}
      BY BitValues
    <3>. QED BY <2>2, <2>4, <2>12, <3>1 DEF NumbersOf
  <2>. HIDE DEF len
  <2>14. s'.absolute_seqno = stream'.popped + Bit(s'.syn_sent) + Bit(s'.fin_sent)
    <3>1. Bit(s'.syn_sent) = Bit(s.syn_sent) + Bit(~s.syn_sent) /\ Bit(s'.syn_sent) = 1
      <4>1. Bit(s'.syn_sent) = 1
        BY <2>12, BitValues
      <4>2. Bit(s.syn_sent) + Bit(~s.syn_sent) = 1
        <5>1. CASE s.syn_sent
          <6>1. Bit(s.syn_sent) = 1 /\ Bit(~s.syn_sent) = 0
            BY <5>1, BitValues
          <6>. QED BY <6>1
        <5>2. CASE ~s.syn_sent
          <6>1. Bit(s.syn_sent) = 0 /\ Bit(~s.syn_sent) = 1
            BY <5>2, BitValues
          <6>. QED BY <6>1
        <5>. QED BY <5>1, <5>2
      <4>. QED BY <4>1, <4>2
    <3>2. Bit(s'.fin_sent) = Bit(s.fin_sent) + Bit(fin)
      <4>1. CASE fin
        <5>1. Bit(s'.fin_sent) = 1 /\ Bit(s.fin_sent) = 0 /\ Bit(fin) = 1
          BY <2>9, <2>12, <4>1, BitValues
        <5>. QED BY <5>1
      <4>2. CASE ~fin
        <5>1. Bit(fin) = 0
          BY <4>2, BitValues
        <5>2. Bit(s'.fin_sent) = Bit(s.fin_sent)
          BY <2>12, <4>2 DEF Bit
        <5>3. Bit(s.fin_sent) \in {0, 1}
          BY BitValues
        <5>. QED BY <5>1, <5>2, <5>3
      <4>. QED BY <4>1, <4>2
    <3>3. a = stream.popped + Bit(s.syn_sent) + Bit(s.fin_sent)
      BY DEF FlowNumbers
    <3>4. stream'.popped = stream.popped + n
      BY <1>3, <2>7
    <3>5. /\ Bit(~s.syn_sent) \in {0, 1} /\ Bit(fin) \in {0, 1}
          /\ Bit(s.syn_sent) \in {0, 1} /\ Bit(s.fin_sent) \in {0, 1}
      BY BitValues
    <3>. QED BY <2>3, <2>4, <2>12, <3>1, <3>2, <3>3, <3>4, <3>5
  <2>15. FlowNumbers'
    <3>1. SoundStream(stream') /\ stream'.pushed <= Total
      BY <1>3, <2>7, <2>8 DEF FlowNumbers
    <3>2. s'.syn_sent \in BOOLEAN /\ s'.fin_sent \in BOOLEAN
      BY <2>9, <2>12 DEF FlowNumbers
    <3>3. /\ s'.window_size \in Nat /\ s'.window_size > 0
          /\ best' \in Nat /\ best' <= s'.absolute_seqno /\ s'.ackno = Wrap(best', ISN)
          /\ edge' = best' + s'.window_size /\ s'.absolute_seqno <= edge'
      BY <1>1, <2>2, <2>11, <2>12, <2>13 DEF FlowNumbers
    <3>. QED BY <2>12, <2>14, <3>1, <3>2, <3>3 DEF FlowNumbers
  <2>16. AcksAreOfSent'
    BY <1>1, <2>2, <2>11, <2>13 DEF AcksAreOfSent
  <2>17. QueuesCover'
    <3>1. /\ IsSequence(Made(s, stream, n, fin))
          /\ \A m \in Queued(Made(s, stream, n, fin)) : EndsBy(ISN, m, a + len)
          /\ s.syn_sent \/ n = 0 =>
                 \A x \in Nat : a <= x /\ x < a + len
                     => \E m \in Queued(Made(s, stream, n, fin)) : Covers(ISN, m, x)
      BY <2>2, <2>3, <2>4, <2>9, SegmentsMade DEF FlowNumbers, len
    <3>2. \A m \in Queues : EndsBy(ISN, m, a + len)
      <4>1. a + len \in Nat /\ a <= a + len
        BY <2>2, <2>11
      <4>. QED BY <2>2, <4>1, EndsByLater DEF QueuesCover
    <3>3. CASE made
      <4>1. IsSequence(s'.pushed) /\ Queues' = Queues \cup Queued(Made(s, stream, n, fin))
        BY <2>12, <3>1, <3>3, QueuedOfConcat DEF QueuesCover, Queues
      <4>2. \A m \in Queues' : EndsBy(ISN, m, a + len)
        BY <3>1, <3>2, <4>1
      <4>3. \A x \in Nat : best <= x /\ x < a + len => \E m \in Queues' : Covers(ISN, m, x)
        <5>1. TAKE x \in Nat
        <5>2. CASE best <= x /\ x < a
          BY <4>1, <5>2 DEF QueuesCover
        <5>3. CASE a <= x /\ x < a + len
          BY <2>5, <3>1, <4>1, <5>3
        <5>. QED BY <2>2, <2>11, <5>2, <5>3
      <4>. QED BY <1>1, <2>13, <4>1, <4>2, <4>3 DEF QueuesCover
    <3>4. CASE ~made
      <4>1. s'.pushed = s.pushed
        BY <2>12, <3>4
      <4>2. n = 0 /\ ~fin /\ s.syn_sent
        BY <2>4, <3>4
      <4>3. Bit(fin) = 0 /\ Bit(~s.syn_sent) = 0
        BY <4>2, BitValues
      <4>4. len = 0
        BY <4>2, <4>3 DEF len, NumbersOf
      <4>5. s'.absolute_seqno = a
        BY <2>2, <2>13, <4>4
      <4>. QED BY <1>1, <2>12, <4>1, <4>5, QueuesUntouched
    <3>. QED BY <3>3, <3>4
  <2>. QED BY <2>15, <2>16, <2>17
<1>4. QED
  <2>1. /\ (s' = s /\ stream' = stream)
           \/ (s' = SenderPush(s, stream).s /\ stream' = SenderPush(s, stream).stream)
    BY DEF CallPush
  <2>2. SenderPush(s, stream)
          = IF s.syn_sent /\ budget = 0
            THEN [s |-> s, stream |-> stream]
            ELSE [s |-> [s EXCEPT !.syn_sent = TRUE,
                           !.fin_sent = @ \/ fin,
                           !.absolute_seqno = @ + Bit(~s.syn_sent) + n + Bit(fin),
                           !.pushed = IF made THEN @ \o Segments(s, ReadBytes(stream, n), fin)
                                      ELSE @],
                  stream |-> rest]
    BY DEF SenderPush
  <2>. HIDE DEF budget, n, rest, fin, made
  <2>. QED BY <1>2, <1>3, <2>1, <2>2

-----------------------------------------------------------------------------
(* maybe_send, tick and the acknowledgments *)

\* Where a segment stands, as the sender computes it.
LEMMA PlaceOf ==
    ASSUME FlowNumbers, NEW m, NEW n \in Nat, StandsAt(ISN, m, n), n <= s.absolute_seqno
    PROVE  Absolute(s, m.seqno) = n
<1>1. s.absolute_seqno \in Nat /\ s.absolute_seqno <= Total + 2 /\ s.isn = ISN
  BY NumbersBounded
<1>2. n <= s.absolute_seqno + 1
  BY <1>1
<1>. QED BY <1>1, <1>2, AbsoluteOfWrap DEF StandsAt

\* What maybe_send returns is queued, and is queued afterwards.
LEMMA SentStaysQueued ==
    ASSUME TimerInv, IsSequence(s.pushed), MaybeSend
    PROVE  /\ ToSend(s) \in Queues /\ Queues' = Queues /\ IsSequence(s'.pushed)
           /\ s'.isn = s.isn /\ s'.syn_sent = s.syn_sent
           /\ s'.fin_sent = s.fin_sent /\ s'.ackno = s.ackno
           /\ s'.absolute_seqno = s.absolute_seqno /\ s'.window_size = s.window_size
<1>. DEFINE flying == IF s.retransmit THEN s.in_flight ELSE Append(s.in_flight, Head(s.pushed))
            waiting == IF s.retransmit THEN s.pushed ELSE Tail(s.pushed)
<1>1. s' = AfterSend(s)
  BY DEF MaybeSend
<1>2. /\ s'.isn = s.isn /\ s'.syn_sent = s.syn_sent
      /\ s'.fin_sent = s.fin_sent /\ s'.ackno = s.ackno
      /\ s'.absolute_seqno = s.absolute_seqno /\ s'.window_size = s.window_size
      /\ s'.in_flight = flying /\ s'.pushed = waiting
  BY <1>1 DEF AfterSend, TimerInv, SenderShape, SenderFields
<1>3. IsSequence(s.in_flight) /\ IsSequence(s.pushed)
  BY DEF TimerInv, SenderShape
<1>4. /\ ToSend(s) \in Queues /\ IsSequence(waiting)
      /\ Queued(flying) \cup Queued(waiting) = Queues
  <2>1. CASE s.retransmit
    <3>1. s.in_flight # <<>>
      BY <2>1 DEF MaybeSend, MaybeSendDefined
    <3>2. Queued(s.in_flight) = Queued(Tail(s.in_flight)) \cup {Head(s.in_flight)}
      BY <1>3, <3>1, QueuedOfTail
    <3>. QED BY <1>3, <2>1, <3>2 DEF Queues, ToSend
  <2>2. CASE ~s.retransmit
    <3>1. s.pushed # <<>>
      BY <2>2 DEF MaybeSend, NothingToSend
    <3>2. /\ IsSequence(Tail(s.pushed))
          /\ Queued(s.pushed) = Queued(Tail(s.pushed)) \cup {Head(s.pushed)}
      BY <1>3, <3>1, QueuedOfTail
    <3>3. Queued(Append(s.in_flight, Head(s.pushed))) = Queued(s.in_flight) \cup {Head(s.pushed)}
      BY <1>3, QueuedOfAppend
    <3>. QED BY <2>2, <3>2, <3>3 DEF Queues, ToSend
  <2>. QED BY <2>1, <2>2
<1>. HIDE DEF flying, waiting
<1>5. Queues' = Queues
  BY <1>2, <1>4 DEF Queues
<1>. QED BY <1>2, <1>4, <1>5

LEMMA MaybeSendFlow ==
    ASSUME TimerInv, FlowNumbers, AcksAreOfSent, QueuesCover, MaybeSend
    PROVE  FlowNumbers' /\ AcksAreOfSent' /\ QueuesCover'
<1>. DEFINE m == ToSend(s)
<1>1. /\ UNCHANGED <<stream, owner, peer, acks, best, edge>>
      /\ sent' = MaxOf(sent, End(m))
  BY DEF MaybeSend, environment
<1>2. /\ s'.isn = s.isn /\ s'.syn_sent = s.syn_sent
      /\ s'.fin_sent = s.fin_sent /\ s'.ackno = s.ackno
      /\ s'.absolute_seqno = s.absolute_seqno /\ s'.window_size = s.window_size
      /\ m \in Queues /\ Queues' = Queues /\ IsSequence(s'.pushed)
  BY SentStaysQueued DEF QueuesCover
<1>. HIDE DEF m
<1>5. sent' \in Nat /\ sent <= sent' /\ sent' <= s.absolute_seqno
  <2>1. SequenceLength(m) \in Nat /\ EndsBy(ISN, m, s.absolute_seqno)
    BY <1>2 DEF QueuesCover, EndsBy
  <2>2. PICK n \in Nat : StandsAt(ISN, m, n) /\ n + SequenceLength(m) <= s.absolute_seqno
    BY <2>1 DEF EndsBy
  <2>3. s.absolute_seqno \in Nat
    BY NumbersBounded
  <2>4. Absolute(s, m.seqno) = n
    BY <2>1, <2>2, <2>3, PlaceOf
  <2>5. End(m) = n + SequenceLength(m)
    BY <2>4 DEF End
  <2>. QED BY <1>1, <2>1, <2>2, <2>3, <2>5 DEF MaxOf, AcksAreOfSent
<1>6. FlowNumbers'
  BY <1>1, <1>2 DEF FlowNumbers
<1>7. AcksAreOfSent'
  <2>1. \A a \in acks : a.ackno \in Nat /\ a.ackno <= sent' /\ a.window \in Nat
    BY <1>5 DEF AcksAreOfSent
  <2>. QED BY <1>1, <1>2, <1>5, <2>1 DEF AcksAreOfSent
<1>8. QueuesCover'
  BY <1>1, <1>2 DEF QueuesCover
<1>. QED BY <1>6, <1>7, <1>8

LEMMA TickFlow ==
    ASSUME TimerInv, FlowNumbers, AcksAreOfSent, QueuesCover, CallTick
    PROVE  FlowNumbers' /\ AcksAreOfSent' /\ QueuesCover'
<1>1. PICK ms : s' = SenderTick(s, ms)
  BY DEF CallTick
<1>2. UNCHANGED <<stream, sent, best, edge, peer, acks>>
  BY DEF CallTick, environment, history
<1>3. /\ s'.isn = s.isn /\ s'.syn_sent = s.syn_sent
      /\ s'.fin_sent = s.fin_sent /\ s'.ackno = s.ackno
      /\ s'.absolute_seqno = s.absolute_seqno /\ s'.window_size = s.window_size
      /\ s'.pushed = s.pushed /\ s'.in_flight = s.in_flight
  BY <1>1 DEF SenderTick, TimerInv, SenderShape, SenderFields
<1>. QED BY <1>2, <1>3, FlowUntouched

\* The peer makes acknowledgments of what was sent, the network loses some.
LEMMA NetworkFlow ==
    ASSUME FlowNumbers, AcksAreOfSent, QueuesCover, MakeAck \/ DropAck
    PROVE  FlowNumbers' /\ AcksAreOfSent' /\ QueuesCover'
<1>1. UNCHANGED <<s, stream, sent, best, edge>>
  BY DEF MakeAck, DropAck, history
<1>2. FlowNumbers' /\ QueuesCover'
  BY <1>1, QueuesUntouched DEF FlowNumbers
<1>3. AcksAreOfSent'
  <2>1. CASE MakeAck
    <3>1. PICK a \in [ackno : MaxOf(peer.ackno, 1) .. sent, window : Windows] :
              peer' = a /\ acks' = acks \cup {a}
      BY <2>1 DEF MakeAck
    <3>2. MaxOf(peer.ackno, 1) \in Nat /\ sent \in Nat
      BY DEF MaxOf, AcksAreOfSent
    <3>3. a.ackno \in MaxOf(peer.ackno, 1) .. sent /\ a.window \in Windows
      OBVIOUS
    <3>4. a.ackno \in Nat /\ a.ackno <= sent /\ a.window \in Nat
      <4>1. \A low \in Nat : \A x \in low .. sent : x \in Nat /\ x <= sent
        BY <3>2
      <4>2. a.ackno \in Nat /\ a.ackno <= sent
        BY <3>2, <3>3, <4>1
      <4>. QED BY <3>3, <4>2, TCPSenderAssumption
    <3>. QED BY <1>1, <3>1, <3>4 DEF AcksAreOfSent
  <2>2. CASE DropAck
    BY <1>1, <2>2 DEF DropAck, AcksAreOfSent
  <2>. QED BY <2>1, <2>2
<1>. QED BY <1>2, <1>3

LEMMA DeliverFlow ==
    ASSUME TimerInv, FlowNumbers, AcksAreOfSent, QueuesCover, owner = "socket", DeliverAck
    PROVE  FlowNumbers' /\ AcksAreOfSent' /\ QueuesCover'
<1>1. PICK a \in acks : /\ a.ackno >= best /\ RightEdge(a) >= edge
                        /\ s' = SenderReceive(s, Wrap(a.ackno, ISN), a.window)
                        /\ best' = MaxOf(best, a.ackno) /\ edge' = MaxOf(edge, RightEdge(a))
  BY DEF DeliverAck
<1>2. UNCHANGED <<stream, peer, acks, sent>>
  BY DEF DeliverAck, environment
<1>. DEFINE raw == Wrap(a.ackno, ISN)
            left == Unacknowledged(s, raw)
            window == IF a.window > 0 THEN a.window ELSE 1
<1>3. /\ s.absolute_seqno \in Nat /\ s.absolute_seqno <= Total + 2 /\ s.isn = ISN
      /\ a.ackno \in Nat /\ a.ackno <= s.absolute_seqno /\ a.window \in Nat
      /\ best \in Nat
  BY <1>1, NumbersBounded DEF AcksAreOfSent, FlowNumbers
<1>4. Absolute(s, raw) = a.ackno
  <2>1. a.ackno <= s.absolute_seqno + 1
    BY <1>3
  <2>. QED BY <1>3, <2>1, AbsoluteOfWrap
<1>5. ~(Absolute(s, raw) > s.absolute_seqno)
  BY <1>3, <1>4
<1>6. /\ s'.isn = s.isn /\ s'.syn_sent = s.syn_sent
      /\ s'.fin_sent = s.fin_sent /\ s'.ackno = raw
      /\ s'.absolute_seqno = s.absolute_seqno /\ s'.window_size = window
      /\ s'.in_flight = left /\ s'.pushed = s.pushed
  <2>. HIDE DEF raw
  <2>. QED BY <1>1, <1>5 DEF SenderReceive, TimerInv, SenderShape, SenderFields, raw
<1>7. window \in Nat /\ window > 0 /\ RightEdge(a) = a.ackno + window
  BY <1>3 DEF RightEdge, MaxOf
<1>. HIDE DEF window
<1>8. best' = a.ackno /\ edge' = RightEdge(a) /\ edge' >= edge
  BY <1>1, <1>3, <1>7 DEF MaxOf, FlowNumbers
<1>9. FlowNumbers'
  <2>1. s.absolute_seqno <= edge'
    BY <1>1, <1>3, <1>7, <1>8 DEF FlowNumbers
  <2>2. /\ s'.window_size \in Nat /\ s'.window_size > 0
        /\ best' \in Nat /\ best' <= s'.absolute_seqno /\ s'.ackno = Wrap(best', ISN)
        /\ edge' = best' + s'.window_size /\ s'.absolute_seqno <= edge'
    BY <1>3, <1>6, <1>7, <1>8, <2>1
  <2>. QED BY <1>2, <1>6, <2>2 DEF FlowNumbers
<1>10. AcksAreOfSent'
  BY <1>2, <1>6 DEF AcksAreOfSent
<1>11. QueuesCover'
  <2>1. /\ Queued(left) \subseteq Queued(s.in_flight)
        /\ \A m \in Queued(s.in_flight) :
               Absolute(s, m.seqno) + SequenceLength(m) > Absolute(s, raw)
                   => m \in Queued(left)
    BY QueuedUnacknowledged DEF TimerInv, SenderShape
  <2>. HIDE DEF left
  <2>2. Queues' = Queued(left) \cup Queued(s.pushed)
    BY <1>6 DEF Queues
  <2>3. \A m \in Queues' : EndsBy(ISN, m, s'.absolute_seqno)
    BY <1>6, <2>1, <2>2 DEF QueuesCover, Queues
  <2>4. ASSUME NEW x \in Nat, best' <= x, x < s'.absolute_seqno
        PROVE  \E m \in Queues' : Covers(ISN, m, x)
    <3>1. best <= x /\ x < s.absolute_seqno /\ a.ackno <= x
      BY <1>1, <1>3, <1>6, <1>8, <2>4
    <3>2. PICK m \in Queues : Covers(ISN, m, x)
      BY <3>1 DEF QueuesCover
    <3>3. CASE m \in Queued(s.pushed)
      BY <2>2, <3>2, <3>3
    <3>4. CASE m \in Queued(s.in_flight)
      <4>1. PICK n \in Nat : StandsAt(ISN, m, n) /\ n <= x /\ x < n + SequenceLength(m)
        BY <3>2 DEF Covers
      <4>2. Absolute(s, m.seqno) = n
        <5>1. n <= s.absolute_seqno
          BY <1>3, <3>1, <4>1
        <5>. QED BY <4>1, <5>1, PlaceOf
      <4>3. SequenceLength(m) \in Nat
        BY DEF QueuesCover, EndsBy
      <4>4. n + SequenceLength(m) > a.ackno
        BY <1>3, <3>1, <4>1, <4>3
      <4>5. Absolute(s, m.seqno) + SequenceLength(m) > Absolute(s, raw)
        BY <1>4, <4>2, <4>4
      <4>6. m \in Queued(left)
        BY <2>1, <3>4, <4>5
      <4>. QED BY <2>2, <3>2, <4>6
    <3>. QED BY <3>3, <3>4 DEF Queues
  <2>. QED BY <1>6, <2>3, <2>4 DEF QueuesCover
<1>. QED BY <1>9, <1>10, <1>11

\* An ackno beyond all numbers made changes nothing.
LEMMA ImpossibleFlow ==
    ASSUME FlowNumbers, AcksAreOfSent, QueuesCover, ReceiveImpossibleAck
    PROVE  FlowNumbers' /\ AcksAreOfSent' /\ QueuesCover'
<1>1. PICK w : s' = SenderReceive(s, Wrap(s.absolute_seqno + 1, ISN), w)
  BY DEF ReceiveImpossibleAck
<1>2. UNCHANGED <<stream, sent, best, edge, peer, acks>>
  BY DEF ReceiveImpossibleAck, environment, history
<1>. DEFINE n == s.absolute_seqno + 1
<1>3. /\ s.absolute_seqno \in Nat /\ s.absolute_seqno <= Total + 2 /\ s.isn = ISN
      /\ n \in Nat /\ n <= s.absolute_seqno + 1 /\ n > s.absolute_seqno
  BY NumbersBounded
<1>. HIDE DEF n
<1>4. Absolute(s, Wrap(n, ISN)) > s.absolute_seqno
  BY <1>3, AbsoluteOfWrap
<1>5. s' = s
  BY <1>1, <1>4 DEF SenderReceive, n
<1>. QED BY <1>2, <1>5, FlowUntouched

LEMMA FlowInvariance == TimerInv /\ FlowInv /\ [Next]_vars => FlowInv'
<1>. SUFFICES ASSUME TimerInv, FlowInv, [Next]_vars PROVE FlowInv'
  OBVIOUS
<1>1. owner' = owner
  BY DEF Next, vars, environment, Write, Close, CallPush, MaybeSend, CallTick, DeliverAck,
         ReceiveImpossibleAck, ReceiveWithoutAck, MakeAck, DropAck
<1>2. SUFFICES ASSUME owner = "socket", FlowNumbers, AcksAreOfSent, QueuesCover
               PROVE  FlowNumbers' /\ AcksAreOfSent' /\ QueuesCover'
  BY <1>1 DEF FlowInv
<1>3. CASE Write
  BY <1>2, <1>3, WriteFlow
<1>4. CASE Close
  BY <1>2, <1>4, CloseFlow
<1>5. CASE CallPush
  BY <1>2, <1>5, PushFlow
<1>6. CASE MaybeSend
  BY <1>2, <1>6, MaybeSendFlow
<1>7. CASE CallTick
  BY <1>2, <1>7, TickFlow
<1>8. CASE MakeAck \/ DropAck
  BY <1>2, <1>8, NetworkFlow
<1>9. CASE DeliverAck
  BY <1>2, <1>9, DeliverFlow
<1>10. CASE ReceiveImpossibleAck
  BY <1>2, <1>10, ImpossibleFlow
<1>11. CASE ReceiveWithoutAck
  BY <1>2, <1>11 DEF ReceiveWithoutAck
<1>12. CASE UNCHANGED vars
  BY <1>2, <1>12, FlowUntouched DEF vars, environment, history
<1>. QED BY <1>3, <1>4, <1>5, <1>6, <1>7, <1>8, <1>9, <1>10, <1>11, <1>12 DEF Next

\* The invariant of both proofs that follow.
LEMMA FlowHolds == Spec => [](TimerInv /\ FlowInv)
BY NewSenderTimer, TimerInvariance, InitFlow, FlowInvariance, PTL DEF Spec

(***************************************************************************)
(* WindowIsRespected: whatever windows the peer offers and withdraws not,  *)
(* push (tcp_sender.cc:52) makes no segment that ends beyond the furthest  *)
(* right edge delivered; its unsigned subtractions never wrap.             *)
(***************************************************************************)
THEOREM WindowIsRespected == Spec => []WindowRespected
<1>1. FlowInv => WindowRespected
  BY DEF FlowInv, FlowNumbers, WindowRespected
<1>. QED BY <1>1, FlowHolds, PTL

(***************************************************************************)
(* NothingIsForgotten: under TCPMinnowSocket every number handed out and   *)
(* not yet acknowledged stays in one of the two queues of tcp_sender.cc,   *)
(* through partial, repeated and lost acknowledgments and retransmissions. *)
(***************************************************************************)
THEOREM NothingIsForgotten == Spec => [](owner = "socket" => NothingForgotten)
<1>1. TimerInv /\ FlowInv => (owner = "socket" => NothingForgotten)
  <2>. SUFFICES ASSUME TimerInv, FlowNumbers, QueuesCover PROVE NothingForgotten
    BY DEF FlowInv
  <2>1. Queued(Outstanding(s)) = Queues
    BY QueuedOfConcat DEF Outstanding, Queues, TimerInv, SenderShape, QueuesCover
  <2>2. s.absolute_seqno \in Nat /\ best \in Nat
    BY NumbersBounded DEF FlowNumbers
  <2>3. ASSUME NEW x \in best .. s.absolute_seqno - 1
        PROVE  \E k \in DOMAIN Outstanding(s) :
                   LET m == Outstanding(s)[k]
                   IN  Absolute(s, m.seqno) <= x /\ x < End(m)
    <3>1. x \in Nat /\ best <= x /\ x < s.absolute_seqno
      BY <2>2
    <3>2. PICK m \in Queues : Covers(ISN, m, x)
      BY <3>1 DEF QueuesCover
    <3>3. PICK n \in Nat : StandsAt(ISN, m, n) /\ n <= x /\ x < n + SequenceLength(m)
      BY <3>2 DEF Covers
    <3>4. Absolute(s, m.seqno) = n
      <4>1. n <= s.absolute_seqno
        BY <2>2, <3>1, <3>3
      <4>. QED BY <3>3, <4>1, PlaceOf
    <3>5. Absolute(s, m.seqno) <= x /\ x < End(m)
      BY <3>3, <3>4 DEF End
    <3>6. PICK k \in DOMAIN Outstanding(s) : m = Outstanding(s)[k]
      BY <2>1 DEF Queued
    <3>. QED BY <3>5, <3>6
  <2>. QED BY <2>3 DEF NothingForgotten
<1>. QED BY <1>1, FlowHolds, PTL
-----------------------------------------------------------------------------
(* What the segments carry under TCPMinnowSocket *)

(***************************************************************************)
(* A segment made when the numbers below a, the FIN among them if fin,     *)
(* have been handed out: SYN is number 0, byte b of the stream is number   *)
(* b + 1, and FIN is the last number of all.                               *)
(***************************************************************************)
Carries(m, a, fin) ==
    \E n \in Nat :
        /\ StandsAt(ISN, m, n)
        /\ SequenceLength(m) \in Nat /\ n + SequenceLength(m) <= a
        /\ m.SYN <=> n = 0
        /\ \E l \in 0 .. MaxPayload : m.payload = Run(n + Bit(m.SYN) - 1, l)
        /\ m.FIN => fin /\ n + SequenceLength(m) = a

CarryInv ==
    /\ Numbered(stream)
    /\ s.fin_sent => IsFinished(stream)
    /\ \A m \in Queues : Carries(m, s.absolute_seqno, s.fin_sent)

SocketCarries == owner = "socket" => CarryInv

\* Until the FIN is made, a segment stays right when further numbers are.
LEMMA CarriesLater ==
    ASSUME NEW m, NEW a \in Nat, NEW b \in Nat, a <= b, Carries(m, a, FALSE), NEW fin
    PROVE  Carries(m, b, fin)
BY DEF Carries

LEMMA SegmentCarries ==
    ASSUME FlowNumbers, Numbered(stream), NEW n \in Nat, n <= stream.size,
           NEW fin \in BOOLEAN, NEW k \in 1 .. CountOf(n),
           s.syn_sent \/ n = 0, ~s.fin_sent
    PROVE  Carries(Made(s, stream, n, fin)[k], s.absolute_seqno + NumbersOf(s, n, fin), fin)
<1>. DEFINE m == Made(s, stream, n, fin)[k]
            a == s.absolute_seqno
            p == StartOf(k)
            e == LastOf(k, n)
            x == a + p
            b == a + NumbersOf(s, n, fin)
<1>1. /\ SoundStream(stream) /\ s.syn_sent \in BOOLEAN /\ s.isn = ISN /\ a \in Nat
      /\ stream.popped \in Nat /\ stream.size \in Nat
  BY NumbersBounded DEF FlowNumbers, SoundStream
<1>2. /\ StandsAt(ISN, m, a + p) /\ p \in Nat /\ p <= e /\ e \in Nat /\ e <= n
      /\ k = CountOf(n) => e = n
      /\ SequenceLength(m) = Bit(~s.syn_sent) + (e - p) + Bit(fin /\ k = CountOf(n))
  BY <1>1, SegmentMade
<1>3. SegmentParts(s, stream, n, fin, k)
  BY <1>1, SegmentHasParts
<1>4. /\ m.SYN = ~s.syn_sent /\ m.FIN = (fin /\ k = CountOf(n))
      /\ m.payload = SubSeq(ReadBytes(stream, n), p + 1, e)
  BY <1>3 DEF SegmentParts
<1>5. e - p \in 0 .. MaxPayload
  <2>1. MaxPayload \in Nat /\ MaxPayload > 0
    BY SenderAssumption
  <2>2. CountOf(n) \in Nat
    BY <2>1 DEF CountOf
  <2>3. k * MaxPayload = p + MaxPayload
    BY <2>2, Pieces DEF CountOf, StartOf
  <2>. HIDE DEF p
  <2>4. e <= p + MaxPayload
    BY <1>2, <2>1, <2>3 DEF LastOf, MinOf
  <2>. HIDE DEF e
  <2>. QED BY <1>2, <2>1, <2>4
<1>6. m.payload = Run(stream.popped + p, e - p)
  <2>1. ReadBytes(stream, n) = Run(stream.popped, n)
    BY <1>1, ReadNumbered
  <2>. DEFINE q == stream.popped
  <2>2. q \in Int
    BY <1>1
  <2>. HIDE DEF p, e, q
  <2>3. SubSeq(Run(q, n), p + 1, e) = Run(q + p, e - p)
    BY <1>2, <2>2, RunsCut
  <2>4. m.payload = SubSeq(Run(q, n), p + 1, e)
    BY <1>4, <2>1 DEF q
  <2>. QED BY <2>3, <2>4 DEF q
<1>. HIDE DEF m, p, e
<1>7. a = stream.popped + Bit(s.syn_sent)
  <2>1. Bit(s.fin_sent) = 0 /\ Bit(s.syn_sent) \in {0, 1}
    BY BitValues
  <2>2. a = stream.popped + Bit(s.syn_sent) + Bit(s.fin_sent)
    BY DEF FlowNumbers
  <2>. HIDE DEF a
  <2>. QED BY <1>1, <2>1, <2>2
<1>8. (m.SYN <=> x = 0) /\ stream.popped + p = x + Bit(m.SYN) - 1
  <2>1. CASE s.syn_sent
    <3>1. Bit(s.syn_sent) = 1 /\ Bit(m.SYN) = 0
      BY <1>4, <2>1, BitValues
    <3>. HIDE DEF a
    <3>2. a >= 1 /\ stream.popped = a - 1
      BY <1>1, <1>7, <3>1
    <3>3. x # 0 /\ stream.popped + p = x + 0 - 1
      BY <1>1, <1>2, <3>2
    <3>4. m.SYN <=> x = 0
      BY <1>4, <2>1, <3>3
    <3>. QED BY <3>1, <3>3, <3>4
  <2>2. CASE ~s.syn_sent
    <3>1. Bit(s.syn_sent) = 0 /\ Bit(m.SYN) = 1
      BY <1>4, <2>2, BitValues
    <3>2. stream.popped = 0 /\ n = 0
      BY <2>2 DEF FlowNumbers, SoundStream
    <3>. HIDE DEF a
    <3>3. a = 0 /\ p = 0
      BY <1>1, <1>2, <1>7, <3>1, <3>2
    <3>4. x = 0 /\ stream.popped + p = x + 1 - 1
      BY <3>2, <3>3
    <3>5. m.SYN <=> x = 0
      BY <1>4, <2>2, <3>4
    <3>. QED BY <3>1, <3>4, <3>5
  <2>. QED BY <2>1, <2>2
<1>9. /\ SequenceLength(m) \in Nat /\ x + SequenceLength(m) <= b
      /\ m.FIN => fin /\ x + SequenceLength(m) = b
  <2>. DEFINE f == Bit(fin /\ k = CountOf(n))
              g == Bit(fin)
              y == Bit(~s.syn_sent)
              l == SequenceLength(m)
  <2>1. /\ f \in {0, 1} /\ g \in {0, 1} /\ y \in {0, 1} /\ f <= g
        /\ fin /\ k = CountOf(n) => f = g
    <3>1. f \in {0, 1} /\ g \in {0, 1} /\ y \in {0, 1}
      BY BitValues
    <3>2. CASE fin
      <4>1. g = 1 /\ (k = CountOf(n) => f = 1)
        BY <3>2, BitValues
      <4>. QED BY <3>1, <4>1
    <3>3. CASE ~fin
      <4>1. g = 0 /\ f = 0
        BY <3>3, BitValues
      <4>. QED BY <3>1, <3>3, <4>1
    <3>. QED BY <3>2, <3>3
  <2>2. l = y + (e - p) + f /\ b = a + (y + n + g)
    BY <1>2 DEF NumbersOf
  <2>. HIDE DEF f, g, y, l, a, b
  <2>3. l \in Nat /\ x + l <= b
    BY <1>1, <1>2, <2>1, <2>2
  <2>4. m.FIN => fin /\ x + l = b
    <3>. SUFFICES ASSUME m.FIN PROVE fin /\ x + l = b
      OBVIOUS
    <3>1. fin /\ k = CountOf(n)
      BY <1>4
    <3>2. f = g /\ e = n
      BY <1>2, <2>1, <3>1
    <3>. QED BY <1>1, <1>2, <2>1, <2>2, <3>1, <3>2
  <2>. QED BY <2>3, <2>4 DEF l
<1>10. x \in Nat /\ StandsAt(ISN, m, x)
  BY <1>1, <1>2
<1>11. m.payload = Run(x + Bit(m.SYN) - 1, e - p)
  BY <1>6, <1>8
<1>. HIDE DEF x, b
<1>12. Carries(m, b, fin)
  BY <1>5, <1>8, <1>9, <1>10, <1>11 DEF Carries
<1>. QED BY <1>12 DEF m, b

\* A step that leaves alone what the segments are and what they carry.
LEMMA CarryUntouched ==
    ASSUME CarryInv, Queues' \subseteq Queues, Numbered(stream'),
           s'.absolute_seqno = s.absolute_seqno, s'.fin_sent = s.fin_sent,
           s.fin_sent => IsFinished(stream')
    PROVE  CarryInv'
BY DEF CarryInv

LEMMA InitCarry == Init => SocketCarries
<1>. SUFFICES ASSUME Init PROVE CarryInv
  BY DEF SocketCarries
<1>1. Numbered(stream)
  BY NewIsNumbered, TCPSenderAssumption DEF Init
<1>2. s.fin_sent = FALSE /\ s.pushed = <<>> /\ s.in_flight = <<>>
  BY DEF Init, NewSender
<1>3. Queues = {}
  BY <1>2 DEF Queues, Queued
<1>. QED BY <1>1, <1>2, <1>3 DEF CarryInv

LEMMA WriteCarries ==
    ASSUME FlowNumbers, CarryInv, Write
    PROVE  CarryInv'
<1>1. PICK n \in 1 .. MinOf(Total - stream.pushed, AvailableCapacity(stream)) :
          stream' = WriterPush(stream, [i \in 1 .. n |-> stream.pushed + i - 1])
  BY DEF Write
<1>2. s' = s /\ ~stream.closed
  BY DEF Write
<1>. DEFINE data == Run(stream.pushed, n)
            m == MinOf(stream.capacity - stream.size, n)
<1>3. n \in Nat /\ SoundStream(stream) /\ Numbered(stream)
  BY TCPSenderAssumption DEF FlowNumbers, SoundStream, CarryInv, MinOf, AvailableCapacity
<1>4. data = Run(stream.pushed, n) /\ m = MinOf(stream.capacity - stream.size, n)
  OBVIOUS
<1>5. stream' = WriterPush(stream, data)
  BY <1>1 DEF Run
<1>. HIDE DEF data, m
<1>6. Numbered(stream')
  BY <1>3, <1>4, <1>5, PushNumbered
<1>7. ~s.fin_sent
  BY <1>2 DEF CarryInv, IsFinished
<1>. QED BY <1>2, <1>6, <1>7, CarryUntouched DEF Queues

LEMMA CloseCarries ==
    ASSUME FlowNumbers, CarryInv, Close
    PROVE  CarryInv'
<1>1. s' = s /\ stream' = WriterClose(stream) /\ ~stream.closed
  BY DEF Close
<1>2. /\ stream'.q = stream.q /\ stream'.size = stream.size
      /\ stream'.popped = stream.popped
  BY <1>1, CloseIsSound DEF FlowNumbers, StreamFields
<1>3. Numbered(stream')
  BY <1>2, SameNumbered DEF CarryInv
<1>4. ~s.fin_sent
  BY <1>1 DEF CarryInv, IsFinished
<1>. QED BY <1>1, <1>3, <1>4, CarryUntouched DEF Queues

LEMMA PushCarries ==
    ASSUME TimerInv, FlowNumbers, QueuesCover, CarryInv, CallPush
    PROVE  CarryInv'
<1>. DEFINE budget == PushBudget(s)
            n == MinOf(budget, stream.size)
            rest == ReaderPop(stream, n)
            fin == ~s.fin_sent /\ IsFinished(rest) /\ (budget > n \/ ~s.syn_sent)
            made == n > 0 \/ fin \/ ~s.syn_sent
            a == s.absolute_seqno
            len == NumbersOf(s, n, fin)
<1>1. CASE s' = s /\ stream' = stream
  BY <1>1, CarryUntouched DEF CarryInv, Queues
<1>2. CASE /\ s' = [s EXCEPT !.syn_sent = TRUE,
                        !.fin_sent = @ \/ fin,
                        !.absolute_seqno = @ + Bit(~s.syn_sent) + n + Bit(fin),
                        !.pushed = IF made THEN @ \o Segments(s, ReadBytes(stream, n), fin)
                                   ELSE @]
           /\ stream' = rest
  <2>1. /\ a \in Nat /\ budget \in Nat /\ SoundStream(stream) /\ Numbered(stream)
        /\ stream.size \in Nat
    BY NumbersBounded, RoomToEdge DEF FlowNumbers, SoundStream, CarryInv
  <2>. HIDE DEF budget
  <2>2. /\ n \in Nat /\ n <= stream.size /\ n = MinOf(n, stream.size)
        /\ stream.size = 0 => n = 0
    BY <2>1 DEF MinOf
  <2>3. ~s.syn_sent => n = 0
    BY <2>1, <2>2 DEF FlowNumbers, SoundStream
  <2>. HIDE DEF n
  <2>4. Numbered(rest)
    BY <2>1, <2>2, PopNumbered
  <2>5. rest.closed = stream.closed /\ rest.size = stream.size - n
    <3>1. /\ \A f \in StreamFields \ {"size", "popped", "q"} : rest[f] = stream[f]
          /\ rest.size = stream.size - MinOf(n, stream.size)
      BY <2>1, <2>2, PopIsSound
    <3>. QED BY <2>2, <3>1 DEF StreamFields
  <2>6. fin \in BOOLEAN /\ (fin => ~s.fin_sent /\ IsFinished(rest))
    BY DEF IsFinished
  <2>. HIDE DEF rest, fin
  <2>7. /\ s'.fin_sent = (s.fin_sent \/ fin)
        /\ s'.absolute_seqno = a + Bit(~s.syn_sent) + n + Bit(fin)
        /\ s'.pushed = IF made THEN s.pushed \o Made(s, stream, n, fin) ELSE s.pushed
        /\ s'.in_flight = s.in_flight
    BY <1>2 DEF TimerInv, SenderShape, SenderFields, Made
  <2>8. /\ Bit(~s.syn_sent) \in {0, 1} /\ Bit(fin) \in {0, 1} /\ len \in Nat
        /\ s'.absolute_seqno = a + len
    <3>1. Bit(~s.syn_sent) \in {0, 1} /\ Bit(fin) \in {0, 1}
      BY BitValues
    <3>. QED BY <2>1, <2>2, <2>7, <3>1 DEF NumbersOf
  <2>9. CASE s.fin_sent
    <3>1. IsFinished(stream) /\ n = 0 /\ s.syn_sent /\ ~fin
      BY <2>2, <2>6, <2>9 DEF CarryInv, IsFinished, FlowNumbers
    <3>2. ~made /\ Bit(~s.syn_sent) = 0 /\ Bit(fin) = 0
      <4>1. ~(n > 0)
        BY <3>1
      <4>2. ~made
        BY <3>1, <4>1
      <4>3. Bit(~s.syn_sent) = 0 /\ Bit(fin) = 0
        BY <3>1, BitValues
      <4>. QED BY <4>2, <4>3
    <3>3. s'.pushed = s.pushed /\ s'.absolute_seqno = a
      BY <2>1, <2>7, <3>1, <3>2
    <3>4. s'.fin_sent = s.fin_sent /\ Queues' = Queues
      BY <2>6, <2>7, <2>9, <3>1, <3>3 DEF Queues, FlowNumbers
    <3>5. IsFinished(stream')
      BY <1>2, <2>1, <2>5, <3>1 DEF IsFinished
    <3>. QED BY <1>2, <2>4, <3>3, <3>4, <3>5, CarryUntouched
  <2>10. CASE ~s.fin_sent
    <3>1. s'.fin_sent = fin
      BY <2>6, <2>7, <2>10
    <3>. DEFINE b == a + len
    <3>2. b \in Nat /\ a <= b /\ s'.absolute_seqno = b
      BY <2>1, <2>8
    <3>3. \A m \in Queues : Carries(m, b, fin)
      <4>. SUFFICES ASSUME NEW m \in Queues PROVE Carries(m, b, fin)
        OBVIOUS
      <4>. HIDE DEF b, a
      <4>1. Carries(m, a, FALSE)
        BY <2>10 DEF CarryInv, FlowNumbers, a
      <4>. QED BY <2>1, <3>2, <4>1, CarriesLater
    <3>4. \A m \in Queued(Made(s, stream, n, fin)) : Carries(m, b, fin)
      <4>1. DOMAIN Made(s, stream, n, fin) = 1 .. CountOf(n)
        <5>1. Len(ReadBytes(stream, n)) = n
          BY <2>1, <2>2, ReadLength
        <5>. QED BY <5>1 DEF Made, Segments, CountOf
      <4>2. \A k \in 1 .. CountOf(n) : Carries(Made(s, stream, n, fin)[k], b, fin)
        BY <2>1, <2>2, <2>3, <2>6, <2>10, SegmentCarries
      <4>. QED BY <4>1, <4>2 DEF Queued
    <3>5. Queues' \subseteq Queues \cup Queued(Made(s, stream, n, fin))
      <4>1. IsSequence(Made(s, stream, n, fin)) /\ IsSequence(s.pushed)
        BY <2>1, <2>2, <2>6, SegmentsMade DEF FlowNumbers, QueuesCover
      <4>2. Queued(s.pushed \o Made(s, stream, n, fin))
                = Queued(s.pushed) \cup Queued(Made(s, stream, n, fin))
        BY <4>1, QueuedOfConcat
      <4>. QED BY <2>7, <4>2 DEF Queues
    <3>6. s'.fin_sent => IsFinished(stream')
      BY <1>2, <2>6, <3>1
    <3>. HIDE DEF b
    <3>7. \A m \in Queues' : Carries(m, s'.absolute_seqno, s'.fin_sent)
      BY <3>1, <3>2, <3>3, <3>4, <3>5
    <3>. QED BY <1>2, <2>4, <3>6, <3>7 DEF CarryInv
  <2>. QED BY <2>9, <2>10
<1>. QED
  <2>1. /\ (s' = s /\ stream' = stream)
           \/ (s' = SenderPush(s, stream).s /\ stream' = SenderPush(s, stream).stream)
    BY DEF CallPush
  <2>2. SenderPush(s, stream)
          = IF s.syn_sent /\ budget = 0
            THEN [s |-> s, stream |-> stream]
            ELSE [s |-> [s EXCEPT !.syn_sent = TRUE,
                           !.fin_sent = @ \/ fin,
                           !.absolute_seqno = @ + Bit(~s.syn_sent) + n + Bit(fin),
                           !.pushed = IF made THEN @ \o Segments(s, ReadBytes(stream, n), fin)
                                      ELSE @],
                  stream |-> rest]
    BY DEF SenderPush
  <2>. HIDE DEF budget, n, rest, fin, made
  <2>. QED BY <1>1, <1>2, <2>1, <2>2

\* What an acknowledgment leaves in flight was in flight.
LEMMA ReceiveCarries ==
    ASSUME TimerInv, CarryInv, stream' = stream,
           NEW raw, NEW window, s' = SenderReceive(s, raw, window)
    PROVE  CarryInv'
<1>. DEFINE left == Unacknowledged(s, raw)
<1>1. Queued(left) \subseteq Queued(s.in_flight)
  BY QueuedUnacknowledged DEF TimerInv, SenderShape
<1>. HIDE DEF left
<1>2. /\ s'.absolute_seqno = s.absolute_seqno /\ s'.fin_sent = s.fin_sent
      /\ s'.pushed = s.pushed /\ (s'.in_flight = s.in_flight \/ s'.in_flight = left)
  BY DEF SenderReceive, TimerInv, SenderShape, SenderFields, left
<1>3. Queues' \subseteq Queues
  BY <1>1, <1>2 DEF Queues
<1>. QED BY <1>2, <1>3, CarryUntouched DEF CarryInv

LEMMA CarryInvariance == TimerInv /\ FlowInv /\ SocketCarries /\ [Next]_vars => SocketCarries'
<1>. SUFFICES ASSUME TimerInv, FlowInv, SocketCarries, [Next]_vars PROVE SocketCarries'
  OBVIOUS
<1>1. owner' = owner
  BY DEF Next, vars, environment, Write, Close, CallPush, MaybeSend, CallTick, DeliverAck,
         ReceiveImpossibleAck, ReceiveWithoutAck, MakeAck, DropAck
<1>. SUFFICES ASSUME owner = "socket", FlowNumbers, QueuesCover, CarryInv PROVE CarryInv'
  BY <1>1 DEF FlowInv, SocketCarries
<1>2. CASE Write
  BY <1>2, WriteCarries
<1>3. CASE Close
  BY <1>3, CloseCarries
<1>4. CASE CallPush
  BY <1>4, PushCarries
<1>5. CASE MaybeSend
  <2>1. /\ Queues' = Queues /\ s'.absolute_seqno = s.absolute_seqno
        /\ s'.fin_sent = s.fin_sent /\ stream' = stream
    BY <1>5, SentStaysQueued DEF MaybeSend, QueuesCover
  <2>. QED BY <2>1, CarryUntouched DEF CarryInv
<1>6. CASE CallTick
  <2>1. PICK ms : s' = SenderTick(s, ms)
    BY <1>6 DEF CallTick
  <2>2. /\ s'.fin_sent = s.fin_sent /\ s'.absolute_seqno = s.absolute_seqno
        /\ s'.pushed = s.pushed /\ s'.in_flight = s.in_flight /\ stream' = stream
    BY <1>6, <2>1 DEF CallTick, SenderTick, TimerInv, SenderShape, SenderFields
  <2>. QED BY <2>2, CarryUntouched DEF CarryInv, Queues
<1>7. CASE DeliverAck \/ ReceiveImpossibleAck \/ ReceiveWithoutAck
  <2>1. PICK raw, window : s' = SenderReceive(s, raw, window)
    BY <1>7 DEF DeliverAck, ReceiveImpossibleAck, ReceiveWithoutAck
  <2>2. stream' = stream
    BY <1>7 DEF DeliverAck, ReceiveImpossibleAck, ReceiveWithoutAck
  <2>. QED BY <2>1, <2>2, ReceiveCarries
<1>8. CASE MakeAck \/ DropAck \/ UNCHANGED vars
  <2>1. s' = s /\ stream' = stream
    BY <1>8 DEF MakeAck, DropAck, vars
  <2>. QED BY <2>1, CarryUntouched DEF CarryInv, Queues
<1>. QED BY <1>2, <1>3, <1>4, <1>5, <1>6, <1>7, <1>8 DEF Next

(***************************************************************************)
(* SegmentsAreOfTheStream: under TCPMinnowSocket, whatever is queued by    *)
(* TCPSender::push, kept for retransmission included, is the stream's: the *)
(* payload of a segment at number n is the bytes from n - 1 on, as they    *)
(* were written, SYN is number 0 and FIN the one after the last byte. The  *)
(* cuts that push makes in the chunks of the stream lose, repeat and       *)
(* reorder nothing.                                                        *)
(***************************************************************************)
THEOREM SegmentsAreOfTheStream == Spec => [](owner = "socket" => SegmentsCarryStream)
<1>1. TimerInv /\ FlowInv /\ SocketCarries => (owner = "socket" => SegmentsCarryStream)
  <2>. SUFFICES ASSUME TimerInv, FlowNumbers, QueuesCover, CarryInv PROVE SegmentsCarryStream
    BY DEF FlowInv, SocketCarries
  <2>1. Queued(Outstanding(s)) = Queues
    BY QueuedOfConcat DEF Outstanding, Queues, TimerInv, SenderShape, QueuesCover
  <2>2. s.absolute_seqno \in Nat
    BY NumbersBounded
  <2>3. ASSUME NEW m \in Queues
        PROVE  /\ m.SYN <=> Absolute(s, m.seqno) = 0
               /\ Len(m.payload) <= MaxPayload
               /\ \A i \in DOMAIN m.payload :
                      m.payload[i] = Absolute(s, m.seqno) + Bit(m.SYN) + i - 2
               /\ m.FIN => IsFinished(stream) /\ End(m) = s.absolute_seqno
                           /\ End(m) = stream.pushed + 2
    <3>. DEFINE first == Absolute(s, m.seqno)
                z == Bit(m.SYN)
    <3>1. PICK n \in Nat :
              /\ StandsAt(ISN, m, n)
              /\ SequenceLength(m) \in Nat /\ n + SequenceLength(m) <= s.absolute_seqno
              /\ m.SYN <=> n = 0
              /\ \E l \in 0 .. MaxPayload : m.payload = Run(n + z - 1, l)
              /\ m.FIN => s.fin_sent /\ n + SequenceLength(m) = s.absolute_seqno
      BY DEF CarryInv, Carries
    <3>2. n <= s.absolute_seqno
      BY <2>2, <3>1
    <3>3. first = n
      BY <3>1, <3>2, PlaceOf
    <3>4. PICK l \in 0 .. MaxPayload : m.payload = Run(n + z - 1, l)
      BY <3>1
    <3>5. l \in Nat /\ l <= MaxPayload /\ z \in {0, 1}
      BY SenderAssumption, BitValues
    <3>. HIDE DEF z, first
    <3>6. /\ Len(m.payload) = l /\ DOMAIN m.payload = 1 .. l
          /\ \A i \in 1 .. l : m.payload[i] = first + z + i - 2
      BY <3>3, <3>4, <3>5 DEF Run
    <3>7. ASSUME m.FIN
          PROVE  IsFinished(stream) /\ End(m) = s.absolute_seqno /\ End(m) = stream.pushed + 2
      <4>1. s.fin_sent /\ n + SequenceLength(m) = s.absolute_seqno
        BY <3>1, <3>7
      <4>2. IsFinished(stream) /\ s.syn_sent
        BY <4>1 DEF CarryInv, FlowNumbers
      <4>3. Bit(s.syn_sent) = 1 /\ Bit(s.fin_sent) = 1
        BY <4>1, <4>2, BitValues
      <4>4. s.absolute_seqno = stream.popped + 1 + 1
        BY <4>3 DEF FlowNumbers
      <4>5. stream.pushed = stream.popped /\ stream.popped \in Nat
        BY <4>2 DEF FlowNumbers, SoundStream, IsFinished
      <4>6. End(m) = n + SequenceLength(m)
        BY <3>3 DEF End, first
      <4>. QED BY <4>1, <4>2, <4>4, <4>5, <4>6
    <3>8. m.SYN <=> first = 0
      BY <3>1, <3>3
    <3>. QED BY <3>5, <3>6, <3>7, <3>8 DEF first, z
  <2>4. \A k \in DOMAIN Outstanding(s) : Outstanding(s)[k] \in Queues
    BY <2>1 DEF Queued
  <2>. QED BY <2>3, <2>4 DEF SegmentsCarryStream
<1>2. Spec => [](TimerInv /\ FlowInv /\ SocketCarries)
  BY FlowHolds, InitCarry, CarryInvariance, PTL DEF Spec
<1>. QED BY <1>1, <1>2, PTL
-----------------------------------------------------------------------------
(* The backoff *)

LEMMA Powers ==
    /\ PowerOfTwo[0] = 1
    /\ \A n \in Nat : PowerOfTwo[n] \in Nat /\ PowerOfTwo[n + 1] = 2 * PowerOfTwo[n]
<1>. DEFINE step == [x \in Nat \X Nat |-> 2 * x[2]]
            Doubles(f) == f = [n \in Nat |-> IF n = 0 THEN 1 ELSE 2 * f[n - 1]]
<1>1. step \in [Nat \X Nat -> Nat] /\ 1 \in Nat
  OBVIOUS
<1>2. \A i \in Nat, v \in Nat : step[<<i, v>>] = 2 * v
  OBVIOUS
<1>. HIDE DEF step
<1>3. PICK f : UnfoldsForever(f, Nat, 1, step)
  BY <1>1, RecursionExists
<1>4. /\ f \in [Nat -> Nat] /\ f[0] = 1
      /\ \A i \in Nat : f[i + 1] = 2 * f[i]
  <2>1. f \in [Nat -> Nat] /\ f[0] = 1
    BY <1>3 DEF UnfoldsForever
  <2>2. ASSUME NEW i \in Nat PROVE f[i + 1] = 2 * f[i]
    <3>1. f[i + 1] = step[<<i + 1, f[i]>>]
      BY <1>3 DEF UnfoldsForever
    <3>2. i + 1 \in Nat /\ f[i] \in Nat
      BY <2>1
    <3>. DEFINE j == i + 1
    <3>3. step[<<j, f[i]>>] = 2 * f[i]
      <4>. HIDE DEF j
      <4>. QED BY <1>2, <3>2 DEF j
    <3>. QED BY <3>1, <3>3
  <2>. QED BY <2>1, <2>2
<1>5. Doubles(f)
  <2>1. ASSUME NEW n \in Nat PROVE f[n] = IF n = 0 THEN 1 ELSE 2 * f[n - 1]
    <3>1. CASE n = 0
      BY <1>4, <3>1
    <3>2. CASE n # 0
      <4>1. n - 1 \in Nat /\ (n - 1) + 1 = n
        BY <3>2
      <4>2. f[(n - 1) + 1] = 2 * f[n - 1]
        BY <1>4, <4>1
      <4>. QED BY <3>2, <4>1, <4>2
    <3>. QED BY <3>1, <3>2
  <2>. QED BY <1>4, <2>1
<1>6. PowerOfTwo = CHOOSE g : Doubles(g)
  BY DEF PowerOfTwo
<1>. HIDE DEF Doubles
<1>7. Doubles(PowerOfTwo)
  BY <1>5, <1>6
<1>8. \A n \in Nat : PowerOfTwo[n] = IF n = 0 THEN 1 ELSE 2 * PowerOfTwo[n - 1]
  BY <1>7 DEF Doubles
<1>9. \A n \in Nat : PowerOfTwo[n + 1] = 2 * PowerOfTwo[n]
  <2>. TAKE n \in Nat
  <2>1. n + 1 \in Nat /\ n + 1 # 0 /\ (n + 1) - 1 = n
    OBVIOUS
  <2>. QED BY <1>8, <2>1
<1>10. \A n \in Nat : PowerOfTwo[n] \in Nat
  <2>. DEFINE S == {n \in Nat : ~(PowerOfTwo[n] \in Nat)}
              m == Min(S)
  <2>. SUFFICES ASSUME S # {} PROVE FALSE
    OBVIOUS
  <2>1. m \in Nat /\ ~(PowerOfTwo[m] \in Nat) /\ \A n \in Nat : n < m => PowerOfTwo[n] \in Nat
    <3>1. S \in SUBSET Nat
      OBVIOUS
    <3>. HIDE DEF S
    <3>2. m \in S /\ \A n \in S : m <= n
      BY <3>1, SmallestOf
    <3>. HIDE DEF m
    <3>. QED BY <3>2 DEF S
  <2>. HIDE DEF m
  <2>2. CASE m = 0
    BY <1>8, <2>1, <2>2
  <2>3. CASE m # 0
    <3>1. m - 1 \in Nat /\ m - 1 < m
      BY <2>1, <2>3
    <3>2. PowerOfTwo[m] = 2 * PowerOfTwo[m - 1] /\ PowerOfTwo[m - 1] \in Nat
      BY <1>8, <2>1, <2>3, <3>1
    <3>. QED BY <2>1, <3>2
  <2>. QED BY <2>2, <2>3
<1>11. PowerOfTwo[0] = 1
  BY <1>8
<1>. QED BY <1>9, <1>10, <1>11

(***************************************************************************)
(* Counted makes BackoffConsistent inductive: a tick doubles the timeout   *)
(* only as it counts a retransmission, and an acknowledgment that makes    *)
(* progress takes both back.                                               *)
(***************************************************************************)
Counted == s.retransmissions \in Nat /\ BackoffConsistent

\* A step that changes neither the timeout nor the count, and starts the
\* timer with the timeout if at all.
LEMMA BackoffKept ==
    ASSUME TimerInv, Counted, s'.rto = s.rto, s'.retransmissions = s.retransmissions,
           s'.timer = s.timer \/ s'.timer = Started(s.rto) \/ s'.timer = Stopped
    PROVE  Counted'
BY DEF Counted, BackoffConsistent, Started, Stopped, TimerInv, SenderShape

LEMMA BackoffInvariance == TimerInv /\ Counted /\ [Next]_vars => Counted'
<1>. SUFFICES ASSUME TimerInv, Counted, [Next]_vars PROVE Counted'
  OBVIOUS
<1>1. CASE CallPush
  <2>1. s' = s \/ s' = SenderPush(s, stream).s
    BY <1>1 DEF CallPush
  <2>2. s'.rto = s.rto /\ s'.retransmissions = s.retransmissions /\ s'.timer = s.timer
    BY <2>1 DEF SenderPush, TimerInv, SenderShape, SenderFields
  <2>. QED BY <2>2, BackoffKept
<1>2. CASE MaybeSend
  <2>1. s' = AfterSend(s)
    BY <1>2 DEF MaybeSend
  <2>2. /\ s'.rto = s.rto /\ s'.retransmissions = s.retransmissions
        /\ s'.timer = s.timer \/ s'.timer = Started(s.rto)
    BY <2>1 DEF AfterSend, TimerInv, SenderShape, SenderFields
  <2>. QED BY <2>2, BackoffKept
<1>3. CASE CallTick
  <2>1. PICK ms \in Nat : s' = SenderTick(s, ms)
    BY <1>3, TCPSenderAssumption DEF CallTick
  <2>. DEFINE t == Elapse(s.timer, ms)
              rto == IF s.dont_back_off THEN s.rto ELSE 2 * s.rto
  <2>2. /\ t \in [running : BOOLEAN, left : Nat] /\ t.running = s.timer.running
        /\ t.left <= s.timer.left
    BY DEF Elapse, TimerInv, SenderShape
  <2>3. rto \in Nat /\ s.rto \in Nat /\ s.rto <= rto /\ rto <= 2 * s.rto
    BY DEF TimerInv, SenderShape
  <2>4. SenderTick(s, ms) = IF ~IsExpired(t)
          THEN [s EXCEPT !.timer = t]
          ELSE [s EXCEPT !.retransmit = @ \/ s.in_flight # <<>>, !.rto = rto,
                         !.retransmissions = @ + 1, !.timer = Started(rto)]
    BY DEF SenderTick
  <2>. HIDE DEF t, rto
  <2>5. CASE ~IsExpired(t)
    <3>1. s'.rto = s.rto /\ s'.retransmissions = s.retransmissions /\ s'.timer = t
      BY <2>1, <2>4, <2>5 DEF TimerInv, SenderShape, SenderFields
    <3>2. s.timer.left \in Nat
      BY DEF TimerInv, SenderShape
    <3>3. s'.timer.running => s'.timer.left <= s'.rto
      BY <2>2, <2>3, <3>1, <3>2 DEF Counted, BackoffConsistent
    <3>. QED BY <3>1, <3>3 DEF Counted, BackoffConsistent
  <2>6. CASE IsExpired(t)
    <3>1. s'.rto = rto /\ s'.retransmissions = s.retransmissions + 1 /\ s'.timer = Started(rto)
      BY <2>1, <2>4, <2>6 DEF TimerInv, SenderShape, SenderFields
    <3>. DEFINE p == PowerOfTwo[s.retransmissions]
                q == PowerOfTwo[s.retransmissions + 1]
    <3>2. p \in Nat /\ q = 2 * p
      BY Powers DEF Counted
    <3>3. s.rto <= InitialRTO * p /\ InitialRTO <= s.rto
      BY DEF Counted, BackoffConsistent
    <3>. HIDE DEF p, q
    <3>4. InitialRTO * q = 2 * (InitialRTO * p) /\ InitialRTO * p \in Nat
      BY <3>2, SenderAssumption
    <3>5. InitialRTO <= rto /\ rto <= InitialRTO * q
      BY <2>3, <3>3, <3>4, SenderAssumption
    <3>6. s'.retransmissions \in Nat /\ InitialRTO <= s'.rto
          /\ s'.rto <= InitialRTO * PowerOfTwo[s'.retransmissions]
      BY <3>1, <3>5 DEF Counted, q
    <3>7. s'.timer.left <= s'.rto
      BY <2>3, <3>1 DEF Started
    <3>. QED BY <3>6, <3>7 DEF Counted, BackoffConsistent
  <2>. QED BY <2>5, <2>6
<1>4. CASE DeliverAck \/ ReceiveImpossibleAck \/ ReceiveWithoutAck
  <2>1. PICK raw, window : s' = SenderReceive(s, raw, window)
    BY <1>4 DEF DeliverAck, ReceiveImpossibleAck, ReceiveWithoutAck
  <2>. DEFINE new == Absolute(s, s.ackno) < Absolute(s, raw)
              left == Unacknowledged(s, raw)
  <2>2. CASE s' = s
    BY <2>2, BackoffKept
  <2>3. CASE s' # s
    <3>1. SenderReceive(s, raw, window)
            = [s EXCEPT !.ackno = raw,
                        !.window_size = IF window > 0 THEN window ELSE 1,
                        !.dont_back_off = (window = 0),
                        !.in_flight = left,
                        !.timer = IF left = <<>> THEN Stopped
                                  ELSE IF new THEN Started(InitialRTO) ELSE s.timer,
                        !.rto = TimeoutAfterAck(s, new),
                        !.retransmissions = IF new THEN 0 ELSE @]
      BY <2>1, <2>3 DEF SenderReceive
    <3>. HIDE DEF new, left
    <3>2. /\ s'.rto = IF new THEN InitialRTO ELSE s.rto
          /\ s'.retransmissions = IF new THEN 0 ELSE s.retransmissions
          /\ s'.timer = IF left = <<>> THEN Stopped
                        ELSE IF new THEN Started(InitialRTO) ELSE s.timer
      BY <2>1, <3>1 DEF TimerInv, SenderShape, SenderFields, TimeoutAfterAck
    <3>3. CASE new
      <4>1. s'.rto = InitialRTO /\ s'.retransmissions = 0
            /\ (s'.timer = Stopped \/ s'.timer = Started(InitialRTO))
        BY <3>2, <3>3
      <4>2. InitialRTO * PowerOfTwo[0] = InitialRTO
        BY Powers, SenderAssumption
      <4>3. s'.timer.running => s'.timer.left <= s'.rto
        BY <4>1, SenderAssumption DEF Started, Stopped
      <4>. QED BY <4>1, <4>2, <4>3, SenderAssumption DEF Counted, BackoffConsistent
    <3>4. CASE ~new
      BY <3>2, <3>4, BackoffKept
    <3>. QED BY <3>3, <3>4
  <2>. QED BY <2>2, <2>3
<1>5. CASE Write \/ Close \/ MakeAck \/ DropAck \/ UNCHANGED vars
  <2>1. s' = s
    BY <1>5 DEF Write, Close, MakeAck, DropAck, vars
  <2>. QED BY <2>1, BackoffKept
<1>. QED BY <1>1, <1>2, <1>3, <1>4, <1>5 DEF Next

(***************************************************************************)
(* BacksOffAsCounted: for every owner and every order of ticks and         *)
(* acknowledgments, the timeout of tcp_sender.cc is at least the initial   *)
(* one and at most doubled for each consecutive retransmission counted     *)
(* (consecutive_retransmissions), and the timer never has longer to run.   *)
(***************************************************************************)
THEOREM BacksOffAsCounted == Spec => []BackoffConsistent
<1>1. Init => Counted
  <2>. SUFFICES ASSUME Init PROVE Counted
    OBVIOUS
  <2>1. s.rto = InitialRTO /\ s.retransmissions = 0 /\ s.timer = Stopped
    BY DEF Init, NewSender
  <2>2. InitialRTO * PowerOfTwo[0] = InitialRTO
    BY Powers, SenderAssumption
  <2>. QED BY <2>1, <2>2, SenderAssumption DEF Counted, BackoffConsistent, Stopped
<1>2. Counted => BackoffConsistent
  BY DEF Counted
<1>. QED BY <1>1, <1>2, NewSenderTimer, TimerInvariance, BackoffInvariance, PTL DEF Spec

-----------------------------------------------------------------------------
(* The sequence space *)

\* The state variables hold values of their machine types in every state.
THEOREM SequenceSpaceType == SpaceSpec => []TypeOK
<1>1. SpaceInit => TypeOK
  BY ModuliAssumption, Mod64Assumption, SequenceSpaceAssumption DEF SpaceInit, TypeOK, U64
<1>2. TypeOK /\ [SpaceNext]_spaceVars => TypeOK'
  BY ModuliAssumption, Mod64Assumption, SequenceSpaceAssumption
  DEF TypeOK, SpaceNext, Advance, AdvanceCheckpoint, spaceVars, U64
<1>. QED BY <1>1, <1>2, PTL DEF SpaceSpec

(***************************************************************************)
(* Every state of the sequence space satisfies RoundTrip: a seqno or ackno *)
(* less than half a lap from the receiving end's checkpoint arrives as the *)
(* number that was sent.                                                   *)
(***************************************************************************)
THEOREM SequenceSpaceRoundTrip == SpaceSpec => []RoundTrip
<1>1. TypeOK => RoundTrip
  BY UnwrapWrap DEF TypeOK, RoundTrip, Received
<1>. QED BY <1>1, SequenceSpaceType, PTL

(***************************************************************************)
(* Every state of the sequence space satisfies Nearest: however far the    *)
(* two ends are apart, what is received is the number with the raw value   *)
(* that was sent which lies nearest to the receiving end's checkpoint.     *)
(***************************************************************************)
THEOREM SequenceSpaceNearest == SpaceSpec => []Nearest
<1>1. TypeOK => Nearest
  BY UnwrapNearest DEF TypeOK, Nearest, Received
<1>. QED BY <1>1, SequenceSpaceType, PTL
=============================================================================
