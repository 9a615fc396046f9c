------------------------ MODULE TCPConnectionProofs --------------------------
(***************************************************************************)
(* Proofs that in module TCPConnection what an end believes acknowledged   *)
(* has been assembled by the other, that none leaves before both streams   *)
(* are done, and that each direction is a pipe, for any number of bytes,   *)
(* of faults and of segments on their way, and any size of the buffers.    *)
(***************************************************************************)
EXTENDS TCPConnection, TCPPeerLemmas

\* The client's first segment has no ACK flag, and an ackno field of 0 that the
\* server's sender takes for an acknowledgment all the same (TCPPeerOps). It is
\* ignored unless 0 is one of the numbers that the server will use.
BareFieldIsIgnored == RawOffset(0, ServerISN) \notin 1 .. ServerTotal + 2

-----------------------------------------------------------------------------
(* The inductive invariant *)

\* The number at which a segment of end e stands.
Place(e, m) == RawOffset(m.seqno, Isn(e))

\* It carries what end e writes; SYN comes alone.
InStream(e, m) ==
    /\ m.SYN => Place(e, m) = 0 /\ m.payload = <<>> /\ ~m.FIN
    /\ Fits(Total(e), (Place(e, m) + Bit(m.SYN)) - 1, m.payload, m.FIN)

Own(e) == {m \in Messages : InStream(e, m)}

SegmentsFrom(e) ==
    {m \in [seqno : Raw, SYN : BOOLEAN, payload : Seq(Int), FIN : BOOLEAN,
            ACK : BOOLEAN, ackno : Raw, window : Nat, RST : {FALSE}] :
        InStream(e, m) /\ (~m.ACK => e = Client /\ m.ackno = 0)}

\* Nothing is written before SYN has been sent.
Untouched(s, out) ==
    ~s.fin_sent /\ out.pushed = 0 /\ ~out.closed /\ s.in_flight = <<>> /\ s.pushed = <<>>

\* The sending side of end e: its queues hold segments of its stream, and FIN
\* is sent at the end of the stream only.
Sending(e, s, out) ==
    /\ s \in Senders /\ out \in Streams /\ Counts(s, out, Total(e))
    /\ s.isn = Isn(e)
    /\ s.in_flight \in Seq(Own(e)) /\ s.pushed \in Seq(Own(e))
    /\ s.window_size >= 1
    /\ ~s.syn_sent => Untouched(s, out)
    /\ out.closed => out.pushed = Total(e)
    /\ ~out.error
    /\ s.fin_sent => IsFinished(out)
    /\ \A m \in Queued(s.in_flight) \cup Queued(s.pushed) : m.FIN => s.fin_sent

\* The receiving side: what is complete has been seen from its SYN to its FIN.
Receiving(p) ==
    /\ ~p.inbound.error
    /\ p.inbound.closed => p.receiver.syn_recv /\ p.reassembler.last_received

Sound(e, p) ==
    /\ p \in Peers(Total(e), Isn(Other(e)), Total(Other(e)))
    /\ Sending(e, p.sender, p.outbound)
    /\ Receiving(p)

\* A peer that has just collected its segments.
Settled(p) ==
    /\ ~p.sender.retransmit /\ p.sender.pushed = <<>> /\ ~p.need_send
    /\ HasAckno(p) => p.sender.syn_sent

PeerInv(e) == Sound(e, peer[e]) /\ Settled(peer[e]) /\ (started[e] => peer[e].sender.syn_sent)

\* What p reports as the next number it needs, and what segment m tells end e
\* has been acknowledged to it.
Reported(p) == IF p.receiver.syn_recv THEN NextNumber(p.receiver, p.inbound) ELSE 0
AckIn(e, m) == IF m.ACK THEN RawOffset(m.ackno, Isn(e)) ELSE 0

\* The segments on their way to end e say nothing the other end has not sent
\* and has not assembled.
WireInv(e) ==
    /\ net[e] \in Seq(SegmentsFrom(Other(e)))
    /\ \A m \in Queued(net[e]) : /\ AckIn(e, m) <= Reported(peer[Other(e)])
                                 /\ m.FIN => peer[Other(e)].sender.fin_sent

\* What end e takes for acknowledged.
AckedBy(e, p) == RawOffset(p.sender.ackno, Isn(e))

AckInv(e) ==
    /\ AckedBy(e, peer[e]) <= Reported(peer[Other(e)])
    /\ AckedBy(e, peer[e]) <= peer[e].sender.absolute_seqno
    /\ peer[e].reassembler.last_received => peer[Other(e)].sender.fin_sent

\* Until the server hears the client's SYN, there is nothing else to hear.
Opening ==
    /\ peer[Client].sender.syn_sent
    /\ ~HasAckno(peer[Server]) =>
          /\ ~peer[Server].sender.syn_sent /\ net[Client] = <<>>
          /\ ~started[Client] /\ ~started[Server]
          /\ ~HasAckno(peer[Client])
          /\ Len(peer[Client].sender.in_flight) = 1 /\ peer[Client].sender.in_flight[1].SYN
          /\ \A m \in Queued(net[Server]) : m.SYN

\* Every number not yet acknowledged is in a segment of the queues, and if all
\* is written and FIN waits for room, something is in them.
Includes(e, m, n) == Place(e, m) <= n /\ n < Place(e, m) + SequenceLength(m)

Held(e, p) ==
    \A n \in Nat : AckedBy(e, p) <= n /\ n < p.sender.absolute_seqno =>
        \E m \in Queued(p.sender.in_flight) \cup Queued(p.sender.pushed) : Includes(e, m, n)

FinComes(p) ==
    HasAckno(p) /\ IsFinished(p.outbound) /\ ~p.sender.fin_sent => Outstanding(p.sender) # <<>>

\* Segments to end e in the order of what they acknowledge, none of it less than a.
Ascends(e, q, a) ==
    /\ \A i, j \in DOMAIN q : i <= j => AckIn(e, q[i]) <= AckIn(e, q[j])
    /\ \A m \in Queued(q) : a <= AckIn(e, m)

InOrder(e) == Ascends(e, net[e], AckedBy(e, peer[e]))

Orderly(e) == ~overtaken => InOrder(e) /\ Held(e, peer[e]) /\ FinComes(peer[e])

Shape ==
    /\ peer = [e \in Ends |-> peer[e]] /\ net = [e \in Ends |-> net[e]]
    /\ started \in [Ends -> BOOLEAN] /\ overtaken \in BOOLEAN

Inv == /\ Shape /\ Opening
       /\ \A e \in Ends : PeerInv(e) /\ WireInv(e) /\ AckInv(e) /\ Orderly(e)

-----------------------------------------------------------------------------
(* Ends and numbers *)

LEMMA EndFacts ==
    ASSUME NEW e \in Ends
    PROVE  /\ Other(e) \in Ends /\ Other(e) # e /\ Other(Other(e)) = e
           /\ Isn(e) \in Raw /\ Total(e) \in Nat
           /\ 2 * (Total(e) + 2) < Mod32 /\ Total(e) + 2 < Mod64 /\ Total(e) + 2 < Mod32
           /\ Mod32 \in Nat /\ Mod64 \in Nat
<1>1. Client # Server
  BY DEF Client, Server
<1>. QED BY <1>1, ConnectionAssumption, Modulus DEF Ends, Other, Isn, Total

\* The numbers of end e stay below half a lap, so its sender reads every raw
\* number as its place in the first.
LEMMA NumbersOfEnd ==
    ASSUME NEW e \in Ends, NEW s \in Senders, NEW out \in Streams, Counts(s, out, Total(e)),
           s.isn = Isn(e)
    PROVE  /\ s.absolute_seqno \in Nat /\ s.absolute_seqno <= Total(e) + 2
           /\ s.absolute_seqno = Bit(s.syn_sent) + out.popped + Bit(s.fin_sent)
           /\ out.popped \in Nat /\ out.pushed \in Nat /\ out.popped <= out.pushed
           /\ out.pushed <= Total(e)
           /\ \A raw \in Raw : Absolute(s, raw) = RawOffset(raw, Isn(e))
<1>1. /\ out.popped \in Nat /\ out.pushed \in Nat /\ out.popped <= out.pushed
      /\ out.pushed <= Total(e) /\ s.absolute_seqno \in Nat
      /\ s.absolute_seqno = Bit(s.syn_sent) + out.popped + Bit(s.fin_sent)
  BY DEF Streams, Senders, Counts
<1>2. Bit(s.syn_sent) \in {0, 1} /\ Bit(s.fin_sent) \in {0, 1}
  BY BitValues
<1>3. s.absolute_seqno <= Total(e) + 2 /\ 2 * s.absolute_seqno < Mod32
  BY <1>1, <1>2, EndFacts
<1>4. ASSUME NEW raw \in Raw PROVE Absolute(s, raw) = RawOffset(raw, Isn(e))
  <2>. DEFINE c == s.absolute_seqno
  <2>1. c \in Nat /\ 2 * c < Mod32 /\ Isn(e) \in Raw
    BY <1>1, <1>3, EndFacts
  <2>. HIDE DEF c
  <2>2. Unwrap(raw, Isn(e), c) = RawOffset(raw, Isn(e))
    BY <2>1, UnwrapInHalf
  <2>. QED BY <2>2 DEF Absolute, c
<1>. QED BY <1>1, <1>3, <1>4

\* A segment that stands at n has its place there.
LEMMA PlaceOfWrap ==
    ASSUME NEW e \in Ends, NEW n \in Nat, n <= Total(e) + 2, NEW m, StandsAt(Isn(e), m, n)
    PROVE  Place(e, m) = n
<1>1. n < Mod32 /\ Isn(e) \in Raw
  BY EndFacts
<1>. QED BY <1>1, OffsetOfWrap DEF StandsAt, Place

-----------------------------------------------------------------------------
(* push *)

\* The segments that push makes of n bytes are of the stream of end e.
LEMMA MadeInStream ==
    ASSUME NEW e \in Ends, NEW s, NEW out, Sending(e, s, out), ~s.fin_sent,
           NEW n \in Nat, n <= out.size, NEW fin \in BOOLEAN, fin => out.closed /\ n = out.size,
           NEW made, made = Made(s, out, n, fin)
    PROVE  made \in Seq(Own(e)) /\ \A m \in Queued(made) : m.FIN => fin
<1>1. /\ s \in Senders /\ out \in Streams /\ Counts(s, out, Total(e)) /\ s.isn = Isn(e)
      /\ s.syn_sent \in BOOLEAN /\ s.absolute_seqno \in Nat
  BY DEF Sending, Senders
<1>2. /\ s.absolute_seqno = Bit(s.syn_sent) + out.popped
      /\ out.popped \in Nat /\ out.pushed \in Nat /\ out.pushed <= Total(e)
      /\ out.size = out.pushed - out.popped /\ out.size \in Nat
  <2>1. Bit(s.fin_sent) = 0 /\ Bit(s.syn_sent) \in {0, 1}
    BY BitValues
  <2>. QED BY <1>1, <2>1, NumbersOfEnd DEF Streams
<1>3. SoundStream(out)
  BY <1>1, StreamIsSound
<1>4. made \in Seq(Messages)
  <2>1. ReadBytes(out, n) \in Seq(Int)
    BY <1>1, BytesRead
  <2>. QED BY <1>1, <2>1, SegmentsType DEF Made
<1>5. ~s.syn_sent => n = 0 /\ ~fin
  <2>1. ~s.syn_sent => out.pushed = 0 /\ ~out.closed
    BY DEF Sending, Untouched
  <2>. QED BY <1>2, <2>1
<1>6. CountOf(n) \in Nat /\ DOMAIN made = 1 .. CountOf(n) /\ Len(made) = CountOf(n)
  <2>1. Len(ReadBytes(out, n)) = n
    BY <1>3, ReadLength
  <2>2. DOMAIN made = 1 .. CountOf(n)
    BY <2>1 DEF Made, Segments, CountOf
  <2>3. CountOf(n) \in Nat
    BY SenderAssumption DEF CountOf
  <2>. HIDE DEF Made
  <2>4. DOMAIN made = 1 .. Len(made) /\ Len(made) \in Nat
    BY <1>4
  <2>. QED BY <2>2, <2>3, <2>4
<1>7. ASSUME NEW k \in 1 .. CountOf(n)
      PROVE  made[k] \in Own(e) /\ (made[k].FIN => fin)
  <2>. DEFINE m == made[k]
              first == StartOf(k)
              last == LastOf(k, n)
  <2>1. /\ StandsAt(s.isn, m, s.absolute_seqno + first)
        /\ first \in Nat /\ first <= last /\ last \in Nat /\ last <= n
        /\ k = CountOf(n) => last = n
    BY <1>1, <1>3, SegmentMade
  <2>2. /\ m.SYN = ~s.syn_sent /\ m.payload = SubSeq(ReadBytes(out, n), first + 1, last)
        /\ m.FIN = (fin /\ k = CountOf(n))
    BY <1>3, SegmentHasParts DEF SegmentParts
  <2>3. m \in Messages
    BY <1>4, <1>6
  <2>4. Len(m.payload) = last - first
    <3>1. ReadBytes(out, n) \in Seq(Int) /\ Len(ReadBytes(out, n)) = n
      BY <1>1, <1>3, BytesRead, ReadLength
    <3>. DEFINE bytes == ReadBytes(out, n)
    <3>. HIDE DEF first, last, m, bytes
    <3>2. bytes \in Seq(Int) /\ Len(bytes) = n /\ m.payload = SubSeq(bytes, first + 1, last)
      BY <2>2, <3>1 DEF bytes
    <3>. QED BY <2>1, <3>2
  <2>. HIDE DEF first, last, m
  <2>5. Bit(m.SYN) = 1 - Bit(s.syn_sent) /\ Bit(s.syn_sent) \in {0, 1}
    <3>1. CASE s.syn_sent
      <4>1. Bit(s.syn_sent) = 1 /\ Bit(m.SYN) = 0
        BY <2>2, <3>1, BitValues
      <4>. QED BY <4>1
    <3>2. CASE ~s.syn_sent
      <4>1. Bit(s.syn_sent) = 0 /\ Bit(m.SYN) = 1
        BY <2>2, <3>2, BitValues
      <4>. QED BY <4>1
    <3>. QED BY <3>1, <3>2
  <2>6. Place(e, m) = s.absolute_seqno + first
    <3>. DEFINE a == s.absolute_seqno + first
    <3>1. a \in Nat /\ a <= Total(e) + 2 /\ StandsAt(Isn(e), m, a)
      BY <1>1, <1>2, <2>1, <2>5, EndFacts
    <3>. HIDE DEF a
    <3>2. Place(e, m) = a
      BY <3>1, PlaceOfWrap
    <3>. QED BY <3>2 DEF a
  <2>7. (Place(e, m) + Bit(m.SYN)) - 1 = out.popped + first
    BY <1>2, <2>1, <2>5, <2>6
  <2>. DEFINE index == out.popped + first
  <2>8. Fits(Total(e), index, m.payload, m.FIN)
    <3>1. index \in 0 .. Total(e) + 1 /\ index + Len(m.payload) <= Total(e)
      <4>1. Total(e) \in Nat
        BY EndFacts
      <4>2. /\ first \in Nat /\ last \in Nat /\ first <= last /\ last <= n
            /\ Len(m.payload) = last - first
        BY <2>1, <2>4
      <4>3. index \in Nat /\ index <= Total(e)
        BY <1>2, <4>1, <4>2
      <4>4. index + Len(m.payload) <= Total(e)
        BY <1>2, <4>1, <4>2
      <4>. QED BY <4>1, <4>3, <4>4
    <3>2. m.FIN => index + Len(m.payload) = Total(e)
      <4>1. m.FIN => fin /\ last = n
        BY <2>1, <2>2
      <4>2. fin => n = out.size /\ out.pushed = Total(e)
        BY DEF Sending
      <4>. QED BY <1>2, <2>1, <2>4, <4>1, <4>2
    <3>3. m.payload \in Seq(Int) /\ m.FIN \in BOOLEAN
      BY <2>3 DEF Messages
    <3>. HIDE DEF index
    <3>. QED BY <3>1, <3>2, <3>3 DEF Fits
  <2>9. m.SYN => Place(e, m) = 0 /\ m.payload = <<>> /\ ~m.FIN
    <3>1. SUFFICES ASSUME ~s.syn_sent PROVE Place(e, m) = 0 /\ m.payload = <<>> /\ ~m.FIN
      BY <2>2
    <3>2. n = 0 /\ ~fin /\ out.pushed = 0 /\ Bit(s.syn_sent) = 0
      BY <1>5, <3>1, BitValues DEF Sending, Untouched
    <3>3. out.popped = 0 /\ first = 0 /\ last = 0
      BY <1>2, <2>1, <3>2
    <3>4. Place(e, m) = 0 /\ Len(m.payload) = 0
      BY <1>2, <2>4, <2>6, <3>2, <3>3
    <3>5. m.payload = <<>>
      BY <2>3, <3>4, EmptySeq DEF Messages
    <3>. QED BY <2>2, <3>2, <3>4, <3>5
  <2>. HIDE DEF index
  <2>10. m \in Own(e)
    BY <2>3, <2>7, <2>8, <2>9 DEF Own, InStream, index
  <2>. QED BY <2>2, <2>10 DEF m
<1>8. made \in Seq(Own(e))
  <2>1. made \in [1 .. CountOf(n) -> Own(e)]
    <3>1. made = [k \in 1 .. CountOf(n) |-> made[k]]
      BY <1>4, <1>6
    <3>. QED BY <1>7, <3>1
  <2>. QED BY <1>6, <2>1
<1>. QED BY <1>6, <1>7, <1>8 DEF Queued

\* What push does to the sending side of end e.
Pushes(e, s, r) ==
    /\ Sending(e, r.s, r.stream)
    /\ r.s.syn_sent
    /\ s.fin_sent => r.s.fin_sent
    /\ r.s.ackno = s.ackno /\ r.s.in_flight = s.in_flight
    /\ s.absolute_seqno <= r.s.absolute_seqno
    /\ Queued(s.pushed) \subseteq Queued(r.s.pushed)
    /\ \A x \in Nat : s.absolute_seqno <= x /\ x < r.s.absolute_seqno =>
           \E m \in Queued(r.s.pushed) : Includes(e, m, x)
    /\ IsFinished(r.stream) /\ ~r.s.fin_sent =>
           r.s.pushed # <<>> \/ ~(RawOffset(s.ackno, Isn(e)) = s.absolute_seqno)

\* With nothing unacknowledged the window has room.
LEMMA RoomIsLeft ==
    ASSUME NEW e \in Ends, NEW s, NEW out, Sending(e, s, out),
           RawOffset(s.ackno, Isn(e)) = s.absolute_seqno
    PROVE  s.syn_sent => PushBudget(s) # 0
<1>1. /\ s \in Senders /\ out \in Streams /\ Counts(s, out, Total(e)) /\ s.isn = Isn(e)
      /\ s.ackno \in Raw /\ s.window_size >= 1
  BY DEF Sending, Senders
<1>2. Absolute(s, s.ackno) = s.absolute_seqno /\ s.absolute_seqno \in Nat
  BY <1>1, NumbersOfEnd
<1>3. Sub64(s.absolute_seqno, s.absolute_seqno) = 0
  BY <1>2 DEF Sub64
<1>4. Sub64(s.window_size, 0) = s.window_size /\ s.window_size \in Nat
  BY <1>1 DEF Sub64, Senders
<1>5. Room(s) = s.window_size
  BY <1>2, <1>3, <1>4 DEF Room
<1>. QED BY <1>1, <1>4, <1>5 DEF PushBudget

LEMMA SenderPushIsSound ==
    ASSUME NEW e \in Ends, NEW s, NEW out, Sending(e, s, out),
           NEW r, r = SenderPush(s, out)
    PROVE  Pushes(e, s, r)
<1>. DEFINE budget == PushBudget(s)
            n == MinOf(budget, out.size)
            rest == ReaderPop(out, n)
            fin == /\ ~s.fin_sent
                   /\ IsFinished(rest)
                   /\ budget > n \/ ~s.syn_sent
            made == n > 0 \/ fin \/ ~s.syn_sent
            new == Made(s, out, n, fin)
<1>1. /\ s \in Senders /\ out \in Streams /\ Counts(s, out, Total(e)) /\ s.isn = Isn(e)
      /\ s.syn_sent \in BOOLEAN /\ s.fin_sent \in BOOLEAN /\ s.absolute_seqno \in Nat
      /\ s.pushed \in Seq(Messages) /\ s.in_flight \in Seq(Messages)
  BY DEF Sending, Senders
<1>2. /\ r.s \in Senders /\ r.stream \in Streams /\ Counts(r.s, r.stream, Total(e))
      /\ r.s.absolute_seqno \in Nat
      /\ r.stream.closed = out.closed /\ r.stream.pushed = out.pushed
  <2>1. Total(e) \in Nat /\ Total(e) + 2 < Mod64
    BY EndFacts
  <2>. DEFINE total == Total(e)
  <2>2. total \in Nat /\ total + 2 < Mod64
    BY <2>1
  <2>. HIDE DEF total
  <2>3. Counts(s, out, total)
    BY <1>1 DEF total
  <2>4. /\ r.s \in Senders /\ r.stream \in Streams /\ Counts(r.s, r.stream, total)
        /\ r.stream.closed = out.closed /\ r.stream.pushed = out.pushed
    BY <1>1, <2>2, <2>3, SenderPushes
  <2>. QED BY <2>4 DEF total, Senders
<1>3. /\ budget \in Nat /\ out.size \in Nat /\ n \in Nat /\ n <= out.size /\ n <= budget
      /\ n = budget \/ n = out.size
  <2>1. Total(e) \in Nat /\ Total(e) + 2 < Mod64
    BY EndFacts
  <2>2. budget \in Nat
    BY <1>1, <2>1, BudgetIsNat
  <2>. QED BY <1>1, <2>2 DEF Streams, MinOf
<1>. HIDE DEF budget, n
<1>4. /\ rest.popped = out.popped + n /\ rest.size = out.size - n
      /\ rest.closed = out.closed /\ rest.error = out.error /\ rest.pushed = out.pushed
  <2>1. MinOf(n, out.size) = n
    BY <1>3 DEF MinOf
  <2>2. /\ rest.popped = out.popped + n /\ rest.size = out.size - n
        /\ \A f \in {"capacity", "pushed", "closed", "error"} : rest[f] = out[f]
    <3>1. /\ ReaderPop(out, n).popped = out.popped + MinOf(n, out.size)
          /\ ReaderPop(out, n).size = out.size - MinOf(n, out.size)
          /\ \A f \in {"capacity", "pushed", "closed", "error"} : ReaderPop(out, n)[f] = out[f]
      BY <1>1, <1>3, PopStream
    <3>. QED BY <2>1, <3>1
  <2>. HIDE DEF rest
  <2>. QED BY <2>2
<1>5. CASE s.syn_sent /\ budget = 0
  <2>1. r = [s |-> s, stream |-> out]
    BY <1>5 DEF SenderPush, budget
  <2>2. RawOffset(s.ackno, Isn(e)) # s.absolute_seqno
    BY <1>5, RoomIsLeft DEF budget
  <2>. QED BY <1>1, <1>5, <2>1, <2>2 DEF Pushes
<1>6. CASE ~(s.syn_sent /\ budget = 0)
  <2>. DEFINE q == IF made THEN s.pushed \o new ELSE s.pushed
              t == [s EXCEPT !.syn_sent = TRUE, !.fin_sent = s.fin_sent \/ fin,
                             !.absolute_seqno = s.absolute_seqno + Bit(~s.syn_sent) + n + Bit(fin),
                             !.pushed = q]
  <2>1. r = [s |-> t, stream |-> rest]
    BY <1>1, <1>6 DEF SenderPush, Made, budget, n, Senders
  <2>2. fin \in BOOLEAN /\ (fin => ~s.fin_sent /\ IsFinished(rest))
    BY <1>1
  <2>3. fin => out.closed /\ n = out.size
    <3>1. fin => rest.closed /\ rest.size = 0
      BY <2>2 DEF IsFinished
    <3>. QED BY <1>3, <1>4, <3>1
  <2>4. made => ~s.fin_sent
    <3>1. s.fin_sent => out.size = 0
      BY DEF Sending, IsFinished
    <3>2. s.fin_sent => s.syn_sent
      BY DEF Sending, Untouched
    <3>. QED BY <1>3, <2>2, <3>1, <3>2
  <2>. HIDE DEF fin
  <2>5. made => new \in Seq(Own(e)) /\ \A m \in Queued(new) : m.FIN => fin
    BY <1>3, <2>2, <2>3, <2>4, MadeInStream
  <2>. HIDE DEF made, new, rest
  <2>6. /\ t.syn_sent /\ t.fin_sent = (s.fin_sent \/ fin)
        /\ t.absolute_seqno = s.absolute_seqno + Bit(~s.syn_sent) + n + Bit(fin)
        /\ t.pushed = q /\ t.in_flight = s.in_flight /\ t.ackno = s.ackno
        /\ t.isn = s.isn /\ t.window_size = s.window_size
    <3>1. /\ DOMAIN s = DOMAIN t
          /\ {"isn", "ackno", "window_size", "pushed", "in_flight", "syn_sent", "fin_sent",
              "absolute_seqno"} \subseteq DOMAIN s
      BY <1>1 DEF Senders
    <3>. HIDE DEF q
    <3>. QED BY <3>1
  <2>7. IsSequence(s.pushed) /\ (made => IsSequence(new))
    BY <1>1, <2>5, SeqIsSequence
  <2>8. /\ Queued(q) = IF made THEN Queued(s.pushed) \cup Queued(new) ELSE Queued(s.pushed)
        /\ q \in Seq(Own(e))
    <3>1. s.pushed \in Seq(Own(e))
      BY DEF Sending
    <3>2. CASE made
      <4>1. s.pushed \o new \in Seq(Own(e))
        BY <2>5, <3>1, <3>2, ConcatProperties
      <4>. QED BY <2>7, <3>2, <4>1, QueuedOfConcat
    <3>. QED BY <3>1, <3>2
  <2>. HIDE DEF t, q
  <2>9. s.fin_sent \/ fin => IsFinished(rest)
    <3>1. s.fin_sent => out.closed /\ out.size = 0
      BY DEF Sending, IsFinished
    <3>2. s.fin_sent => rest.closed /\ rest.size = 0
      BY <1>3, <1>4, <3>1
    <3>. QED BY <2>2, <3>2 DEF IsFinished
  <2>10. Sending(e, t, rest)
    <3>1. t \in Senders /\ rest \in Streams /\ Counts(t, rest, Total(e))
      BY <1>2, <2>1
    <3>2. \A m \in Queued(t.in_flight) \cup Queued(t.pushed) : m.FIN => t.fin_sent
      <4>1. \A m \in Queued(s.in_flight) \cup Queued(s.pushed) : m.FIN => s.fin_sent
        BY DEF Sending
      <4>. QED BY <2>5, <2>6, <2>8, <4>1
    <3>. QED BY <1>4, <2>6, <2>8, <2>9, <3>1, <3>2 DEF Sending
  <2>11. \A x \in Nat : s.absolute_seqno <= x /\ x < t.absolute_seqno =>
             \E m \in Queued(t.pushed) : Includes(e, m, x)
    <3>1. SUFFICES ASSUME NEW x \in Nat, s.absolute_seqno <= x, x < t.absolute_seqno
                   PROVE  \E m \in Queued(t.pushed) : Includes(e, m, x)
      OBVIOUS
    <3>2. s.syn_sent \/ n = 0
      <4>1. ~s.syn_sent => out.pushed = 0
        BY DEF Sending, Untouched
      <4>2. out.pushed = 0 => out.size = 0
        BY <1>1 DEF Streams
      <4>. QED BY <1>3, <4>1, <4>2
    <3>3. made
      <4>1. CASE ~made
        <5>1. n = 0 /\ ~fin /\ s.syn_sent
          BY <1>3, <4>1 DEF made
        <5>2. Bit(~s.syn_sent) = 0 /\ Bit(fin) = 0
          BY <5>1, BitValues
        <5>. QED BY <1>1, <2>6, <3>1, <5>1, <5>2
      <4>. QED BY <4>1
    <3>4. PICK m \in Queued(new) : Covers(s.isn, m, x)
      <4>1. SoundStream(out)
        BY <1>1, StreamIsSound
      <4>2. x < s.absolute_seqno + NumbersOf(s, n, fin)
        <5>1. Bit(~s.syn_sent) \in Nat /\ Bit(fin) \in Nat
          BY BitValues
        <5>. QED BY <1>1, <1>3, <2>6, <3>1, <5>1 DEF NumbersOf
      <4>. QED BY <1>1, <1>3, <2>2, <3>1, <3>2, <4>1, <4>2, SegmentsMade DEF new
    <3>5. Includes(e, m, x)
      <4>1. PICK k \in Nat : StandsAt(Isn(e), m, k) /\ k <= x /\ x < k + SequenceLength(m)
        BY <1>1, <3>4 DEF Covers
      <4>2. t.absolute_seqno \in Nat /\ t.absolute_seqno <= Total(e) + 2
        <5>1. t.isn = Isn(e) /\ t \in Senders /\ rest \in Streams /\ Counts(t, rest, Total(e))
          BY <2>10 DEF Sending
        <5>. QED BY <5>1, NumbersOfEnd
      <4>3. k <= Total(e) + 2
        <5>1. Total(e) \in Nat
          BY EndFacts
        <5>. QED BY <3>1, <4>1, <4>2, <5>1
      <4>4. Place(e, m) = k
        BY <4>1, <4>3, PlaceOfWrap
      <4>. QED BY <4>1, <4>4 DEF Includes
    <3>. QED BY <2>6, <2>8, <3>3, <3>4, <3>5
  <2>12. s.absolute_seqno <= t.absolute_seqno
    <3>1. Bit(~s.syn_sent) \in Nat /\ Bit(fin) \in Nat
      BY BitValues
    <3>. QED BY <1>1, <1>3, <2>6, <3>1
  <2>13. IsFinished(rest) /\ ~t.fin_sent => t.pushed # <<>>
    <3>1. SUFFICES ASSUME IsFinished(rest), ~t.fin_sent PROVE t.pushed # <<>>
      OBVIOUS
    <3>2. ~s.fin_sent /\ ~fin
      BY <2>6, <3>1
    <3>3. s.syn_sent /\ ~(budget > n)
      BY <3>1, <3>2 DEF fin, rest
    <3>4. n > 0
      BY <1>3, <1>6, <3>3
    <3>5. made
      BY <3>4 DEF made
    <3>6. new # <<>>
      <4>1. Len(ReadBytes(out, n)) = n
        BY <1>1, <1>3, StreamIsSound, ReadLength
      <4>2. DOMAIN new = 1 .. CountOf(n)
        BY <4>1 DEF new, Made, Segments, CountOf
      <4>3. CountOf(n) >= 1 /\ CountOf(n) \in Nat
        <5>1. CountOf(n) \in Nat
          BY <1>3, SenderAssumption DEF CountOf
        <5>2. CountOf(n) >= 1
          BY <1>3, <5>1, Pieces DEF CountOf
        <5>. QED BY <5>1, <5>2
      <4>4. 1 \in DOMAIN new
        BY <4>2, <4>3
      <4>. QED BY <4>4
    <3>7. \E m : m \in Queued(new)
      <4>1. new \in Seq(Own(e))
        BY <2>5, <3>5
      <4>2. 1 \in DOMAIN new
        BY <3>6, <4>1
      <4>. QED BY <4>2 DEF Queued
    <3>8. \E m : m \in Queued(t.pushed)
      BY <2>6, <2>8, <3>5, <3>7
    <3>. QED BY <3>8 DEF Queued
  <2>14. Queued(s.pushed) \subseteq Queued(t.pushed)
    BY <2>6, <2>8
  <2>15. s.fin_sent => t.fin_sent
    BY <2>6
  <2>16. r.s = t /\ r.stream = rest
    BY <2>1
  <2>. QED BY <2>6, <2>10, <2>11, <2>12, <2>13, <2>14, <2>15, <2>16 DEF Pushes
<1>. QED BY <1>5, <1>6

-----------------------------------------------------------------------------
(* collect_segments *)

LEMMA SoundFacts ==
    ASSUME NEW e \in Ends, NEW p, Sound(e, p)
    PROVE  /\ p \in Peers(Total(e), Isn(Other(e)), Total(Other(e)))
           /\ p.sender \in Senders /\ p.outbound \in Streams
           /\ Counts(p.sender, p.outbound, Total(e)) /\ p.sender.isn = Isn(e)
           /\ p.receiver \in Receivers(Isn(Other(e))) /\ p.inbound \in Inbounds(Total(Other(e)))
           /\ p.sender.absolute_seqno \in Nat /\ p.sender.ackno \in Raw
           /\ p.sender.in_flight \in Seq(Own(e)) /\ p.sender.pushed \in Seq(Own(e))
           /\ IsSequence(p.sender.in_flight) /\ IsSequence(p.sender.pushed)
<1>1. /\ p \in Peers(Total(e), Isn(Other(e)), Total(Other(e)))
      /\ Sending(e, p.sender, p.outbound)
  BY DEF Sound
<1>2. p.sender \in Senders /\ p.sender.in_flight \in Seq(Own(e)) /\ p.sender.pushed \in Seq(Own(e))
  BY <1>1 DEF Sending
<1>3. IsSequence(p.sender.in_flight) /\ IsSequence(p.sender.pushed)
  BY <1>2, SeqIsSequence
<1>. QED BY <1>1, <1>2, <1>3 DEF Sending, Peers, Senders

\* The constants of a peer's type are within their bounds.
LEMMA PeerConstants ==
    ASSUME NEW e \in Ends
    PROVE  /\ Total(e) \in Nat /\ Total(e) + 2 < Mod64
           /\ Isn(Other(e)) \in Raw /\ Total(Other(e)) \in Nat
           /\ 2 * (Total(Other(e)) + 2) < Mod32
BY EndFacts

LEMMA PeerPushIsSound ==
    ASSUME NEW e \in Ends, NEW p, Sound(e, p), NEW q, q = PeerPush(p)
    PROVE  /\ Sound(e, q) /\ OnlySends(p, q) /\ q.need_send = p.need_send
           /\ q.sender.retransmit = p.sender.retransmit
           /\ Pushes(e, p.sender, [s |-> q.sender, stream |-> q.outbound])
<1>. DEFINE r == SenderPush(p.sender, p.outbound)
<1>1. Sending(e, p.sender, p.outbound)
  BY DEF Sound
<1>2. Pushes(e, p.sender, r)
  BY <1>1, SenderPushIsSound
<1>3. /\ q \in Peers(Total(e), Isn(Other(e)), Total(Other(e))) /\ OnlySends(p, q)
      /\ q.sender.retransmit = p.sender.retransmit
  BY SoundFacts, PeerConstants, PeerPushes
<1>4. r = [s |-> r.s, stream |-> r.stream]
  BY DEF SenderPush
<1>5. q = [p EXCEPT !.sender = r.s, !.outbound = r.stream]
  BY DEF PeerPush, Pushed
<1>. HIDE DEF r
<1>6. q.sender = r.s /\ q.outbound = r.stream /\ q.need_send = p.need_send
  BY <1>5, SoundFacts DEF Peers
<1>7. Receiving(q)
  BY <1>3 DEF Sound, Receiving, OnlySends
<1>8. Pushes(e, p.sender, [s |-> q.sender, stream |-> q.outbound])
  BY <1>2, <1>4, <1>6
<1>9. Sending(e, q.sender, q.outbound)
  BY <1>2, <1>6 DEF Pushes
<1>. QED BY <1>3, <1>6, <1>7, <1>8, <1>9 DEF Sound

\* What maybe_send returns is of the stream of end e.
LEMMA MessagesAreOwn ==
    ASSUME NEW e \in Ends, NEW p, Sound(e, p), p.need_send => p.sender.syn_sent
    PROVE  /\ MessagesToSend(p) \in Seq(Own(e))
           /\ \A m \in Queued(MessagesToSend(p)) : m.FIN => p.sender.fin_sent
<1>. DEFINE s == p.sender
            again == IF s.retransmit THEN <<Head(s.in_flight)>> ELSE <<>>
            empty == SendEmptyMessage(s)
<1>1. /\ s \in Senders /\ s.in_flight \in Seq(Own(e)) /\ s.pushed \in Seq(Own(e))
      /\ IsSequence(s.in_flight) /\ IsSequence(s.pushed)
      /\ s.retransmit => s.in_flight # <<>>
      /\ \A m \in Queued(s.in_flight) \cup Queued(s.pushed) : m.FIN => s.fin_sent
  BY SoundFacts DEF Sound, Sending, Senders
<1>2. p.need_send => empty \in Own(e) /\ ~empty.FIN
  <2>1. SUFFICES ASSUME s.syn_sent PROVE empty \in Own(e) /\ ~empty.FIN
    OBVIOUS
  <2>2. /\ s.absolute_seqno \in Nat /\ s.absolute_seqno <= Total(e) + 2
        /\ s.absolute_seqno >= 1 /\ s.isn = Isn(e) /\ Total(e) \in Nat
    <3>1. Bit(s.syn_sent) = 1 /\ Bit(s.fin_sent) \in {0, 1}
      BY <2>1, BitValues
    <3>2. /\ s.absolute_seqno \in Nat /\ s.absolute_seqno <= Total(e) + 2
          /\ s.absolute_seqno = Bit(s.syn_sent) + p.outbound.popped + Bit(s.fin_sent)
          /\ p.outbound.popped \in Nat /\ s.isn = Isn(e)
      BY SoundFacts, NumbersOfEnd
    <3>. QED BY <3>1, <3>2, EndFacts
  <2>. DEFINE a == s.absolute_seqno
  <2>3. empty = [seqno |-> Wrap(a, Isn(e)), SYN |-> FALSE, payload |-> <<>>, FIN |-> FALSE]
    BY <2>2 DEF SendEmptyMessage
  <2>4. a \in Nat /\ a <= Total(e) + 2 /\ a >= 1 /\ Total(e) \in Nat
    BY <2>2
  <2>. HIDE DEF a, empty
  <2>5. Place(e, empty) = a /\ Wrap(a, Isn(e)) \in Raw
    <3>1. Isn(e) \in Raw
      BY EndFacts
    <3>2. StandsAt(Isn(e), empty, a)
      BY <2>3 DEF StandsAt
    <3>. QED BY <2>4, <3>1, <3>2, PlaceOfWrap, WrapIsRaw
  <2>6. <<>> \in Seq(Int)
    BY EmptySeq
  <2>. DEFINE none == <<>>   first == (a + 0) - 1
  <2>7. none \in Seq(Int) /\ first \in 0 .. Total(e) + 1
    BY <2>4, <2>6
  <2>8. Fits(Total(e), first, none, FALSE)
    BY <2>7 DEF Fits
  <2>9. Bit(empty.SYN) = 0
    BY <2>3, BitValues
  <2>10. Fits(Total(e), (Place(e, empty) + Bit(empty.SYN)) - 1, empty.payload, empty.FIN)
    BY <2>3, <2>5, <2>8, <2>9
  <2>11. empty \in Messages
    BY <2>3, <2>5, <2>6 DEF Messages
  <2>. QED BY <2>3, <2>10, <2>11 DEF Own, InStream
<1>. HIDE DEF s, empty
<1>3. s.retransmit => Head(s.in_flight) \in Queued(s.in_flight) /\ Head(s.in_flight) \in Own(e)
  BY <1>1 DEF Queued
<1>4. again \in Seq(Own(e)) /\ Queued(again) \subseteq Queued(s.in_flight)
  <2>1. CASE s.retransmit
    <3>. DEFINE h == Head(s.in_flight)
    <3>1. h \in Own(e) /\ h \in Queued(s.in_flight)
      BY <1>3, <2>1
    <3>. HIDE DEF h
    <3>2. <<h>> \in Seq(Own(e)) /\ Queued(<<h>>) = {h}
      BY <3>1 DEF Queued
    <3>3. again = <<h>>
      BY <2>1 DEF h
    <3>. HIDE DEF again
    <3>. QED BY <3>1, <3>2, <3>3
  <2>2. CASE ~s.retransmit
    <3>1. again = <<>>
      BY <2>2
    <3>. HIDE DEF again
    <3>. QED BY <3>1, EmptySeq DEF Queued
  <2>. QED BY <2>1, <2>2
<1>. HIDE DEF again
<1>5. /\ again \o s.pushed \in Seq(Own(e))
      /\ Queued(again \o s.pushed) \subseteq Queued(s.in_flight) \cup Queued(s.pushed)
  <2>1. IsSequence(again)
    BY <1>4, SeqIsSequence
  <2>. QED BY <1>1, <1>4, <2>1, QueuedOfConcat, ConcatProperties
<1>6. p.need_send => <<empty>> \in Seq(Own(e)) /\ Queued(<<empty>>) = {empty}
  BY <1>2 DEF Queued
<1>7. \/ p.need_send /\ MessagesToSend(p) = <<empty>>
      \/ MessagesToSend(p) = again \o s.pushed
  BY DEF MessagesToSend, s, again, empty
<1>8. CASE p.need_send /\ MessagesToSend(p) = <<empty>>
  BY <1>2, <1>6, <1>8
<1>9. CASE MessagesToSend(p) = again \o s.pushed
  BY <1>1, <1>5, <1>9 DEF s
<1>. QED BY <1>7, <1>8, <1>9

\* A peer that has sent all it had.
Sends(e, p, q) ==
    /\ Sound(e, q) /\ OnlySends(p, q) /\ q.outbound = p.outbound
    /\ ~q.need_send /\ ~q.sender.retransmit /\ q.sender.pushed = <<>>
    /\ q.sender.in_flight = p.sender.in_flight \o p.sender.pushed
    /\ Queued(q.sender.in_flight) = Queued(p.sender.in_flight) \cup Queued(p.sender.pushed)
    /\ q.sender.syn_sent = p.sender.syn_sent /\ q.sender.fin_sent = p.sender.fin_sent
    /\ q.sender.ackno = p.sender.ackno
    /\ q.sender.absolute_seqno = p.sender.absolute_seqno

LEMMA AllSentIsSound ==
    ASSUME NEW e \in Ends, NEW p, Sound(e, p), NEW q, q = AllSent(p)
    PROVE  Sends(e, p, q)
<1>. DEFINE s == p.sender
            t == q.sender
            flight == s.in_flight \o s.pushed
            timer == IF s.timer.running \/ s.pushed = <<>> THEN s.timer ELSE Started(s.rto)
<1>1. /\ q \in Peers(Total(e), Isn(Other(e)), Total(Other(e))) /\ OnlySends(p, q)
      /\ ~q.sender.retransmit
  BY SoundFacts, PeerConstants, SentAll
<1>2. /\ p \in Peers(Total(e), Isn(Other(e)), Total(Other(e))) /\ s \in Senders
      /\ s.in_flight \in Seq(Own(e)) /\ s.pushed \in Seq(Own(e))
      /\ IsSequence(s.in_flight) /\ IsSequence(s.pushed)
  BY SoundFacts
<1>3. flight \in Seq(Own(e)) /\ Queued(flight) = Queued(s.in_flight) \cup Queued(s.pushed)
  BY <1>2, QueuedOfConcat, ConcatProperties
<1>4. /\ q.outbound = p.outbound /\ ~q.need_send /\ t.in_flight = flight /\ t.pushed = <<>>
      /\ t.isn = s.isn /\ t.ackno = s.ackno /\ t.window_size = s.window_size
      /\ t.syn_sent = s.syn_sent /\ t.fin_sent = s.fin_sent /\ t.absolute_seqno = s.absolute_seqno
  <2>1. /\ DOMAIN p = {"sender", "outbound", "receiver", "reassembler", "inbound", "need_send"}
        /\ DOMAIN p.sender = {"isn", "rto", "timer", "ackno", "window_size", "pushed", "in_flight",
               "retransmissions", "syn_sent", "fin_sent", "absolute_seqno", "retransmit",
               "dont_back_off"}
    BY <1>2 DEF Peers, Senders
  <2>. DEFINE new == [s EXCEPT !.retransmit = FALSE, !.in_flight = flight, !.pushed = <<>>,
                               !.timer = timer]
  <2>2. q = [p EXCEPT !.need_send = FALSE, !.sender = new]
    <3>. HIDE DEF timer, flight
    <3>1. q = [p EXCEPT !.need_send = FALSE,
                        !.sender.retransmit = FALSE,
                        !.sender.in_flight = flight,
                        !.sender.pushed = <<>>,
                        !.sender.timer = timer]
      BY <2>1 DEF AllSent, flight, timer
    <3>. QED BY <2>1, <3>1
  <2>. HIDE DEF flight, timer
  <2>3. /\ new.in_flight = flight /\ new.pushed = <<>>
        /\ new.isn = s.isn /\ new.ackno = s.ackno /\ new.window_size = s.window_size
        /\ new.syn_sent = s.syn_sent /\ new.fin_sent = s.fin_sent
        /\ new.absolute_seqno = s.absolute_seqno
    BY <2>1
  <2>. HIDE DEF new
  <2>4. q.outbound = p.outbound /\ ~q.need_send /\ q.sender = new
    BY <2>1, <2>2
  <2>. QED BY <2>3, <2>4
<1>. HIDE DEF s, t, flight
<1>5. Sending(e, t, q.outbound)
  <2>1. Sending(e, s, p.outbound)
    BY DEF Sound, s
  <2>2. t \in Senders /\ q.outbound \in Streams /\ Counts(t, q.outbound, Total(e))
    BY <1>1 DEF Peers, t
  <2>3. Queued(t.pushed) = {} /\ t.pushed \in Seq(Own(e))
    BY <1>4, EmptySeq DEF Queued
  <2>4. ~t.syn_sent => Untouched(t, q.outbound)
    <3>1. SUFFICES ASSUME ~s.syn_sent PROVE Untouched(t, q.outbound)
      BY <1>4
    <3>2. Untouched(s, p.outbound)
      BY <2>1, <3>1 DEF Sending
    <3>3. flight = <<>>
      BY <3>2 DEF Untouched, flight
    <3>. QED BY <1>4, <3>2, <3>3 DEF Untouched
  <2>5. \A m \in Queued(t.in_flight) \cup Queued(t.pushed) : m.FIN => t.fin_sent
    BY <1>3, <1>4, <2>1, <2>3 DEF Sending
  <2>. QED BY <1>3, <1>4, <2>1, <2>2, <2>3, <2>4, <2>5 DEF Sending
<1>6. Receiving(q)
  BY <1>1 DEF Sound, Receiving, OnlySends
<1>. QED BY <1>1, <1>3, <1>4, <1>5, <1>6 DEF Sends, Sound, s, t, flight

\* The segments of messages of end e, with what its receiver reports.
LEMMA SegmentsAreOwn ==
    ASSUME NEW e \in Ends, NEW p, Sound(e, p), NEW messages \in Seq(Own(e)),
           \A m \in Queued(messages) : m.FIN => p.sender.fin_sent,
           messages # <<>> /\ ~HasAckno(p) => e = Client,
           NEW out, out = InSegments(p, messages, ReceiverSend(p.receiver, p.inbound))
    PROVE  /\ out \in Seq(SegmentsFrom(e))
           /\ Len(out) = Len(messages)
           /\ \A k \in DOMAIN out : out[k].SYN = messages[k].SYN
           /\ \A m \in Queued(out) : /\ AckIn(Other(e), m) = Reported(p)
                                     /\ m.FIN => p.sender.fin_sent
<1>. DEFINE r == ReceiverSend(p.receiver, p.inbound)
            zero == Isn(Other(e))
            total == Total(Other(e))
            rst == p.outbound.error \/ p.inbound.error
            Sent(k) == Segment(p, messages[k], r)
<1>1. /\ r.has = p.receiver.syn_recv /\ r.has \in BOOLEAN /\ r.ackno \in Raw /\ r.window \in Nat
      /\ ~r.has => r.ackno = 0
      /\ r.has => RawOffset(r.ackno, zero) = NextNumber(p.receiver, p.inbound)
  <2>1. /\ zero \in Raw /\ total \in Nat /\ 2 * (total + 2) < Mod32
        /\ p.receiver \in Receivers(zero) /\ p.inbound \in Inbounds(total)
    BY SoundFacts, PeerConstants
  <2>. HIDE DEF zero, total
  <2>. QED BY <2>1, ReceiverAnswers
<1>. HIDE DEF r
<1>2. rst = FALSE
  BY DEF Sound, Sending, Receiving
<1>3. ASSUME NEW k \in 1 .. Len(messages)
      PROVE  /\ Sent(k) \in SegmentsFrom(e)
             /\ Sent(k).SYN = messages[k].SYN
             /\ AckIn(Other(e), Sent(k)) = Reported(p)
             /\ Sent(k).FIN => p.sender.fin_sent
  <2>. DEFINE m == messages[k]
  <2>1. m \in Own(e) /\ m \in Queued(messages) /\ messages # <<>>
    BY DEF Queued
  <2>2. m \in Messages /\ InStream(e, m) /\ (m.FIN => p.sender.fin_sent)
    BY <2>1 DEF Own
  <2>3. Sent(k) = [seqno |-> m.seqno, SYN |-> m.SYN, payload |-> m.payload, FIN |-> m.FIN,
                   ACK |-> r.has, ackno |-> r.ackno, window |-> r.window, RST |-> FALSE]
    <3>1. Sent(k) = [seqno |-> m.seqno, SYN |-> m.SYN, payload |-> m.payload, FIN |-> m.FIN,
                     ACK |-> r.has, ackno |-> r.ackno, window |-> r.window, RST |-> rst]
      BY DEF Segment
    <3>. HIDE DEF rst, Sent, m
    <3>. QED BY <1>2, <3>1
  <2>. DEFINE seg == Sent(k)
  <2>4. /\ seg.seqno = m.seqno /\ seg.SYN = m.SYN /\ seg.payload = m.payload /\ seg.FIN = m.FIN
        /\ seg.ACK = r.has /\ seg.ackno = r.ackno /\ seg.window = r.window
    <3>. HIDE DEF m, rst, Sent
    <3>. QED BY <2>3
  <2>. HIDE DEF m, rst
  <2>5. InStream(e, seg)
    BY <2>2, <2>4 DEF InStream, Place
  <2>6. seg \in [seqno : Raw, SYN : BOOLEAN, payload : Seq(Int), FIN : BOOLEAN,
                 ACK : BOOLEAN, ackno : Raw, window : Nat, RST : {FALSE}]
    <3>. HIDE DEF Sent
    <3>. QED BY <1>1, <2>2, <2>3 DEF Messages
  <2>. HIDE DEF Sent
  <2>7. ~seg.ACK => e = Client /\ seg.ackno = 0
    BY <1>1, <2>1, <2>4 DEF HasAckno
  <2>8. seg \in SegmentsFrom(e)
    BY <2>5, <2>6, <2>7 DEF SegmentsFrom
  <2>9. AckIn(Other(e), seg) = Reported(p)
    BY <1>1, <2>4 DEF AckIn, Reported, zero
  <2>. QED BY <2>2, <2>4, <2>8, <2>9 DEF m
<1>4. out = [k \in 1 .. Len(messages) |-> Sent(k)] /\ Len(messages) \in Nat
  BY DEF InSegments, r
<1>. HIDE DEF Sent
<1>5. out \in [1 .. Len(messages) -> SegmentsFrom(e)]
  BY <1>3, <1>4
<1>6. out \in Seq(SegmentsFrom(e)) /\ Len(out) = Len(messages) /\ DOMAIN out = 1 .. Len(messages)
  BY <1>4, <1>5
<1>. QED BY <1>3, <1>4, <1>6 DEF Queued

\* What collect_segments makes of a peer of end e.
Collects(e, p, c) ==
    /\ Sound(e, c.p) /\ Settled(c.p)
    /\ OnlySends(p, c.p)
    /\ p.sender.syn_sent => c.p.sender.syn_sent
    /\ p.sender.fin_sent => c.p.sender.fin_sent
    /\ AckedBy(e, c.p) = AckedBy(e, p)
    /\ p.sender.absolute_seqno <= c.p.sender.absolute_seqno
    /\ c.out \in Seq(SegmentsFrom(e))
    /\ \A m \in Queued(c.out) : /\ AckIn(Other(e), m) = Reported(c.p)
                                /\ m.FIN => c.p.sender.fin_sent
    /\ Held(e, p) => Held(e, c.p)
    /\ Held(e, p) /\ AckedBy(e, p) <= p.sender.absolute_seqno => FinComes(c.p)

LEMMA CollectIsSound ==
    ASSUME NEW e \in Ends, NEW p, Sound(e, p),
           p.need_send => HasAckno(p) \/ p.sender.syn_sent,
           ~HasAckno(p) => e = Client \/ MessagesToSend(p) = <<>>,
           NEW c, c = CollectSegments(p)
    PROVE  Collects(e, p, c)
<1>. DEFINE q == IF HasAckno(p) THEN PeerPush(p) ELSE p
            a == AllSent(q)
            sent == MessagesToSend(q)
            out == InSegments(q, sent, ReceiverSend(q.receiver, q.inbound))
            pushes == [s |-> q.sender, stream |-> q.outbound]
<1>1. /\ Sound(e, q) /\ OnlySends(p, q) /\ q.need_send = p.need_send
      /\ HasAckno(p) => Pushes(e, p.sender, pushes)
      /\ ~HasAckno(p) => q = p
  BY PeerPushIsSound DEF OnlySends
<1>. HIDE DEF q
<1>2. HasAckno(q) = HasAckno(p) /\ Reported(q) = Reported(p)
  BY <1>1 DEF OnlySends, HasAckno, Reported
<1>3. /\ p.sender.syn_sent => q.sender.syn_sent
      /\ p.sender.fin_sent => q.sender.fin_sent
      /\ q.sender.ackno = p.sender.ackno /\ q.sender.in_flight = p.sender.in_flight
      /\ p.sender.absolute_seqno <= q.sender.absolute_seqno
      /\ Queued(p.sender.pushed) \subseteq Queued(q.sender.pushed)
      /\ HasAckno(q) => q.sender.syn_sent
  <2>1. CASE HasAckno(p)
    BY <1>1, <2>1 DEF Pushes
  <2>2. CASE ~HasAckno(p)
    <3>1. p.sender.absolute_seqno \in Nat
      BY SoundFacts
    <3>. QED BY <1>1, <1>2, <2>2, <3>1
  <2>. QED BY <2>1, <2>2
<1>4. q.need_send => q.sender.syn_sent
  BY <1>1, <1>2, <1>3
<1>5. Sends(e, q, a)
  BY <1>1, AllSentIsSound
<1>6. sent \in Seq(Own(e)) /\ \A m \in Queued(sent) : m.FIN => q.sender.fin_sent
  BY <1>1, <1>4, MessagesAreOwn
<1>7. sent # <<>> /\ ~HasAckno(q) => e = Client
  BY <1>1, <1>2
<1>. HIDE DEF sent
<1>8. /\ out \in Seq(SegmentsFrom(e))
      /\ \A m \in Queued(out) : AckIn(Other(e), m) = Reported(q) /\ (m.FIN => q.sender.fin_sent)
  BY <1>1, <1>6, <1>7, SegmentsAreOwn
<1>9. c = [p |-> a, out |-> out]
  BY DEF CollectSegments, SendAll, q, sent
<1>. HIDE DEF a, out
<1>10. c.p = a /\ c.out = out
  BY <1>9
<1>11. HasAckno(a) = HasAckno(q) /\ Reported(a) = Reported(q)
  BY <1>5 DEF Sends, OnlySends, HasAckno, Reported
<1>12. OnlySends(p, a)
  BY <1>1, <1>5 DEF Sends, OnlySends
<1>13. AckedBy(e, a) = AckedBy(e, p)
  BY <1>3, <1>5 DEF Sends, AckedBy
<1>14. Held(e, p) => Held(e, a)
  <2>1. SUFFICES ASSUME Held(e, p), NEW n \in Nat, AckedBy(e, a) <= n, n < a.sender.absolute_seqno
                 PROVE  \E m \in Queued(a.sender.in_flight) \cup Queued(a.sender.pushed) :
                            Includes(e, m, n)
    BY DEF Held
  <2>2. CASE n < p.sender.absolute_seqno
    <3>1. PICK m \in Queued(p.sender.in_flight) \cup Queued(p.sender.pushed) : Includes(e, m, n)
      BY <1>13, <2>1, <2>2 DEF Held
    <3>. QED BY <1>3, <1>5, <3>1 DEF Sends
  <2>3. CASE ~(n < p.sender.absolute_seqno)
    <3>1. p.sender.absolute_seqno \in Nat
      BY SoundFacts
    <3>2. p.sender.absolute_seqno <= n /\ n < q.sender.absolute_seqno
      BY <1>5, <2>1, <2>3, <3>1 DEF Sends
    <3>3. HasAckno(p)
      BY <1>1, <2>3, <3>2
    <3>4. \E m \in Queued(q.sender.pushed) : Includes(e, m, n)
      BY <1>1, <3>2, <3>3 DEF Pushes
    <3>. QED BY <1>5, <3>4 DEF Sends
  <2>. QED BY <2>2, <2>3
<1>15. Held(e, p) /\ AckedBy(e, p) <= p.sender.absolute_seqno => FinComes(a)
  <2>1. SUFFICES ASSUME Held(e, p), AckedBy(e, p) <= p.sender.absolute_seqno,
                        HasAckno(a), IsFinished(a.outbound), ~a.sender.fin_sent
                 PROVE  Outstanding(a.sender) # <<>>
    BY DEF FinComes
  <2>2. q.sender.pushed # <<>> \/ ~(AckedBy(e, p) = p.sender.absolute_seqno)
    BY <1>1, <1>2, <1>5, <1>11, <2>1 DEF Sends, Pushes, AckedBy
  <2>3. \E m : m \in Queued(a.sender.in_flight)
    <3>1. CASE q.sender.pushed # <<>>
      <4>1. q.sender.pushed \in Seq(Own(e))
        BY <1>1, SoundFacts
      <4>2. 1 \in DOMAIN q.sender.pushed
        BY <3>1, <4>1
      <4>3. \E m : m \in Queued(q.sender.pushed)
        BY <4>2 DEF Queued
      <4>. QED BY <1>5, <4>3 DEF Sends
    <3>2. CASE ~(AckedBy(e, p) = p.sender.absolute_seqno)
      <4>1. p.sender.absolute_seqno \in Nat /\ AckedBy(e, p) \in Nat
        <5>1. p.sender.ackno \in Raw /\ Isn(e) \in Raw
          BY SoundFacts, EndFacts
        <5>2. AckedBy(e, p) \in Raw
          BY <5>1, OffsetIsRaw DEF AckedBy
        <5>. QED BY <5>2, SoundFacts, Modulus DEF Raw
      <4>2. AckedBy(e, p) < p.sender.absolute_seqno /\ AckedBy(e, p) <= AckedBy(e, p)
        BY <2>1, <3>2, <4>1
      <4>3. PICK m \in Queued(p.sender.in_flight) \cup Queued(p.sender.pushed) :
                Includes(e, m, AckedBy(e, p))
        BY <2>1, <4>1, <4>2 DEF Held
      <4>. QED BY <1>3, <1>5, <4>3 DEF Sends
    <3>. QED BY <2>2, <3>1, <3>2
  <2>4. a.sender.in_flight # <<>>
    BY <2>3 DEF Queued
  <2>5. Outstanding(a.sender) = a.sender.in_flight
    <3>1. a.sender.in_flight \in Seq(Own(e)) /\ a.sender.pushed = <<>>
      BY <1>5, SoundFacts DEF Sends
    <3>. QED BY <3>1 DEF Outstanding
  <2>. QED BY <2>4, <2>5
<1>16. Settled(a)
  BY <1>3, <1>5, <1>11 DEF Sends, Settled
<1>17. /\ p.sender.syn_sent => a.sender.syn_sent
       /\ p.sender.fin_sent => a.sender.fin_sent
       /\ p.sender.absolute_seqno <= a.sender.absolute_seqno
  BY <1>3, <1>5 DEF Sends
<1>. QED BY <1>5, <1>8, <1>10, <1>11, <1>12, <1>13, <1>14, <1>15, <1>16, <1>17 DEF Sends, Collects

-----------------------------------------------------------------------------
(* What the network does to a sequence of segments *)

LEMMA SeqOfQueued ==
    ASSUME NEW T, NEW q \in Seq(T), NEW U, Queued(q) \subseteq U
    PROVE  q \in Seq(U)
<1>1. \A k \in 1 .. Len(q) : q[k] \in U
  BY DEF Queued
<1>2. q \in [1 .. Len(q) -> U] /\ Len(q) \in Nat
  BY <1>1
<1>. QED BY <1>2

LEMMA NonemptyHasFirst ==
    ASSUME NEW T, NEW q \in Seq(T)
    PROVE  q # <<>> <=> \E m : m \in Queued(q)
<1>1. q # <<>> => 1 \in DOMAIN q
  OBVIOUS
<1>. QED BY <1>1 DEF Queued

LEMMA QueuedOfRemoved ==
    ASSUME NEW T, NEW q \in Seq(T), NEW k \in 1 .. Len(q)
    PROVE  /\ RemoveAt(q, k) \in Seq(T) /\ Queued(RemoveAt(q, k)) \subseteq Queued(q)
           /\ k = 1 => RemoveAt(q, k) = Tail(q)
<1>. DEFINE front == SubSeq(q, 1, k - 1)
            back == SubSeq(q, k + 1, Len(q))
<1>1. /\ front \in Seq(T) /\ Len(front) = k - 1
      /\ \A i \in 1 .. k - 1 : front[i] = q[i]
  OBVIOUS
<1>2. /\ back \in Seq(T) /\ Len(back) = Len(q) - k
      /\ \A i \in 1 .. Len(q) - k : back[i] = q[k + i]
  OBVIOUS
<1>3. RemoveAt(q, k) = front \o back
  BY DEF RemoveAt
<1>. HIDE DEF front, back
<1>4. IsSequence(front) /\ IsSequence(back)
  BY <1>1, <1>2, SeqIsSequence
<1>5. Queued(front) \subseteq Queued(q)
  BY <1>1 DEF Queued
<1>6. Queued(back) \subseteq Queued(q)
  <2>1. \A i \in 1 .. Len(q) - k : k + i \in 1 .. Len(q)
    OBVIOUS
  <2>2. DOMAIN back = 1 .. Len(q) - k /\ DOMAIN q = 1 .. Len(q)
    BY <1>2
  <2>3. ASSUME NEW i \in DOMAIN back PROVE back[i] \in Queued(q)
    <3>1. back[i] = q[k + i] /\ k + i \in DOMAIN q
      BY <1>2, <2>1, <2>2
    <3>. QED BY <3>1 DEF Queued
  <2>. QED BY <2>3 DEF Queued
<1>7. k = 1 => front \o back = Tail(q)
  <2>1. SUFFICES ASSUME k = 1 PROVE front \o back = Tail(q)
    OBVIOUS
  <2>2. front = <<>>
    BY <1>1, <2>1
  <2>3. back = Tail(q)
    BY <1>2, <2>1 DEF back
  <2>. QED BY <1>2, <2>2, <2>3
<1>. QED BY <1>1, <1>2, <1>3, <1>4, <1>5, <1>6, <1>7, QueuedOfConcat, ConcatProperties

LEMMA AckInIsNat ==
    ASSUME NEW e \in Ends, NEW m \in SegmentsFrom(Other(e))
    PROVE  AckIn(e, m) \in Nat
<1>1. m.ackno \in Raw /\ Isn(e) \in Raw
  BY EndFacts DEF SegmentsFrom
<1>2. RawOffset(m.ackno, Isn(e)) \in Raw
  BY <1>1, OffsetIsRaw
<1>. QED BY <1>2, Modulus DEF AckIn, Raw

LEMMA AscendsTail ==
    ASSUME NEW e \in Ends, NEW q \in Seq(SegmentsFrom(Other(e))), q # <<>>, NEW a, Ascends(e, q, a)
    PROVE  /\ Ascends(e, Tail(q), a) /\ Ascends(e, Tail(q), AckIn(e, q[1]))
           /\ Tail(q) \in Seq(SegmentsFrom(Other(e))) /\ Queued(Tail(q)) \subseteq Queued(q)
<1>1. /\ Tail(q) \in Seq(SegmentsFrom(Other(e))) /\ Len(Tail(q)) = Len(q) - 1
      /\ \A i \in 1 .. Len(q) - 1 : Tail(q)[i] = q[i + 1] /\ i + 1 \in DOMAIN q
      /\ 1 \in DOMAIN q
  OBVIOUS
<1>2. DOMAIN Tail(q) = 1 .. Len(q) - 1 /\ Len(q) \in Nat
  BY <1>1
<1>3. Queued(Tail(q)) \subseteq Queued(q)
  BY <1>1, <1>2 DEF Queued
<1>4. \A i, j \in DOMAIN Tail(q) : i <= j => AckIn(e, Tail(q)[i]) <= AckIn(e, Tail(q)[j])
  <2>1. SUFFICES ASSUME NEW i \in DOMAIN Tail(q), NEW j \in DOMAIN Tail(q), i <= j
                 PROVE  AckIn(e, Tail(q)[i]) <= AckIn(e, Tail(q)[j])
    OBVIOUS
  <2>2. i + 1 \in DOMAIN q /\ j + 1 \in DOMAIN q /\ i + 1 <= j + 1
    BY <1>1, <1>2, <2>1
  <2>3. AckIn(e, q[i + 1]) <= AckIn(e, q[j + 1])
    BY <2>2 DEF Ascends
  <2>. QED BY <1>1, <1>2, <2>3
<1>5. \A m \in Queued(Tail(q)) : AckIn(e, q[1]) <= AckIn(e, m)
  <2>1. SUFFICES ASSUME NEW i \in DOMAIN Tail(q) PROVE AckIn(e, q[1]) <= AckIn(e, Tail(q)[i])
    BY DEF Queued
  <2>2. i + 1 \in DOMAIN q /\ 1 \in DOMAIN q /\ 1 <= i + 1
    BY <1>1, <1>2
  <2>3. AckIn(e, q[1]) <= AckIn(e, q[i + 1])
    BY <2>2 DEF Ascends
  <2>. QED BY <1>1, <1>2, <2>3
<1>. QED BY <1>1, <1>3, <1>4, <1>5 DEF Ascends

\* The network repeats the first.
LEMMA AscendsRepeated ==
    ASSUME NEW e \in Ends, NEW q \in Seq(SegmentsFrom(Other(e))), q # <<>>,
           NEW r, r = <<Head(q)>> \o q
    PROVE  /\ r \in Seq(SegmentsFrom(Other(e))) /\ Queued(r) = Queued(q)
           /\ \A a : Ascends(e, q, a) => Ascends(e, r, a)
<1>. DEFINE T == SegmentsFrom(Other(e))
            h == Head(q)
            one == <<h>>
<1>1. h \in T /\ h \in Queued(q) /\ h = q[1] /\ 1 \in DOMAIN q
  BY DEF Queued
<1>. HIDE DEF T, h
<1>2. q \in Seq(T)
  BY DEF T
<1>3. one \in Seq(T) /\ Len(one) = 1 /\ one[1] = h /\ Queued(one) = {h} /\ r = one \o q
  BY <1>1 DEF Queued, h
<1>. HIDE DEF one
<1>4. r \in Seq(T) /\ Queued(r) = Queued(q)
  <2>1. IsSequence(one) /\ IsSequence(q)
    BY <1>2, <1>3, SeqIsSequence
  <2>2. Queued(one \o q) = Queued(one) \cup Queued(q)
    BY <2>1, QueuedOfConcat
  <2>3. one \o q \in Seq(T)
    BY <1>2, <1>3, ConcatProperties
  <2>. QED BY <1>1, <1>3, <2>2, <2>3
<1>5. /\ DOMAIN r = 1 .. Len(q) + 1 /\ Len(q) \in Nat /\ DOMAIN q = 1 .. Len(q)
      /\ r[1] = h
      /\ \A i \in 2 .. Len(q) + 1 : r[i] = q[i - 1]
  BY <1>2, <1>3, ConcatProperties
<1>6. ASSUME NEW a, Ascends(e, q, a) PROVE Ascends(e, r, a)
  <2>1. ASSUME NEW i \in DOMAIN r, NEW j \in DOMAIN r, i <= j
        PROVE  AckIn(e, r[i]) <= AckIn(e, r[j])
    <3>. DEFINE x == IF i = 1 THEN 1 ELSE i - 1
                y == IF j = 1 THEN 1 ELSE j - 1
    <3>1. x \in DOMAIN q /\ y \in DOMAIN q /\ x <= y
      BY <1>1, <1>5, <2>1
    <3>2. r[i] = q[x] /\ r[j] = q[y]
      BY <1>1, <1>5, <2>1
    <3>. HIDE DEF x, y
    <3>3. AckIn(e, q[x]) <= AckIn(e, q[y])
      BY <1>6, <3>1 DEF Ascends
    <3>. QED BY <3>2, <3>3
  <2>. QED BY <1>4, <1>6, <2>1 DEF Ascends
<1>. QED BY <1>4, <1>6 DEF T

\* The other end sends more, with what it reports now.
LEMMA AscendsWithMore ==
    ASSUME NEW e \in Ends, NEW q \in Seq(SegmentsFrom(Other(e))), NEW a \in Nat, Ascends(e, q, a),
           NEW out \in Seq(SegmentsFrom(Other(e))), NEW n \in Nat, a <= n,
           \A m \in Queued(q) : AckIn(e, m) <= n, \A m \in Queued(out) : AckIn(e, m) = n
    PROVE  Ascends(e, q \o out, a)
<1>. DEFINE r == q \o out
<1>1. IsSequence(q) /\ IsSequence(out)
  BY SeqIsSequence
<1>2. Queued(r) = Queued(q) \cup Queued(out)
  BY <1>1, QueuedOfConcat
<1>3. /\ Len(q) \in Nat /\ Len(out) \in Nat /\ DOMAIN r = 1 .. Len(q) + Len(out)
      /\ \A i \in 1 .. Len(q) : r[i] = q[i] /\ i \in DOMAIN q
      /\ \A i \in Len(q) + 1 .. Len(q) + Len(out) :
              r[i] = out[i - Len(q)] /\ i - Len(q) \in DOMAIN out
  OBVIOUS
<1>. HIDE DEF r
<1>4. \A i \in 1 .. Len(q) : r[i] \in Queued(q)
  BY <1>3 DEF Queued
<1>5. \A i \in Len(q) + 1 .. Len(q) + Len(out) : r[i] \in Queued(out)
  BY <1>3 DEF Queued
<1>6. \A i, j \in DOMAIN r : i <= j => AckIn(e, r[i]) <= AckIn(e, r[j])
  <2>1. SUFFICES ASSUME NEW i \in DOMAIN r, NEW j \in DOMAIN r, i <= j
                 PROVE  AckIn(e, r[i]) <= AckIn(e, r[j])
    OBVIOUS
  <2>2. CASE j <= Len(q)
    <3>1. i \in DOMAIN q /\ j \in DOMAIN q /\ r[i] = q[i] /\ r[j] = q[j]
      BY <1>3, <2>1, <2>2
    <3>. QED BY <2>1, <3>1 DEF Ascends
  <2>3. CASE ~(j <= Len(q))
    <3>1. AckIn(e, r[j]) = n
      <4>1. j \in Len(q) + 1 .. Len(q) + Len(out)
        BY <1>3, <2>3
      <4>. QED BY <1>5, <4>1
    <3>2. AckIn(e, r[i]) <= n
      <4>1. CASE i <= Len(q)
        <5>1. i \in 1 .. Len(q)
          BY <1>3, <4>1
        <5>. QED BY <1>4, <5>1
      <4>2. CASE ~(i <= Len(q))
        <5>1. i \in Len(q) + 1 .. Len(q) + Len(out)
          BY <1>3, <4>2
        <5>2. AckIn(e, r[i]) = n
          BY <1>5, <5>1
        <5>. QED BY <5>2
      <4>. QED BY <4>1, <4>2
    <3>. QED BY <3>1, <3>2
  <2>. QED BY <2>2, <2>3
<1>7. \A m \in Queued(r) : a <= AckIn(e, m)
  BY <1>2 DEF Ascends
<1>. QED BY <1>6, <1>7 DEF Ascends, r

-----------------------------------------------------------------------------
(* A step of an end *)

\* The cap on retransmissions touches the timer only.
LEMMA CappedIsSound ==
    ASSUME NEW e \in Ends, NEW p, NEW c, Collects(e, p, c), NEW q, q = Capped(c.p)
    PROVE  Collects(e, p, [p |-> q, out |-> c.out]) /\ q.sender.in_flight = c.p.sender.in_flight
<1>. DEFINE s == c.p.sender
            t == [s EXCEPT !.retransmissions = 0, !.rto = InitialRTO,
                           !.timer = [s.timer EXCEPT !.left = InitialRTO]]
<1>1. /\ Sound(e, c.p) /\ c.p \in Peers(Total(e), Isn(Other(e)), Total(Other(e)))
      /\ s \in Senders /\ Counts(s, c.p.outbound, Total(e))
  BY SoundFacts DEF Collects
<1>2. /\ DOMAIN c.p = {"sender", "outbound", "receiver", "reassembler", "inbound", "need_send"}
      /\ DOMAIN s = {"isn", "rto", "timer", "ackno", "window_size", "pushed", "in_flight",
             "retransmissions", "syn_sent", "fin_sent", "absolute_seqno", "retransmit",
             "dont_back_off"}
      /\ s.timer \in [running : BOOLEAN, left : Nat]
  BY <1>1 DEF Peers, Senders
<1>3. CASE q = c.p
  <2>1. [p |-> q, out |-> c.out].p = c.p /\ [p |-> q, out |-> c.out].out = c.out
    BY <1>3
  <2>. QED BY <1>3, <2>1 DEF Collects
<1>4. CASE q = [c.p EXCEPT !.sender = t]
  <2>1. /\ t.isn = s.isn /\ t.ackno = s.ackno /\ t.window_size = s.window_size
        /\ t.pushed = s.pushed /\ t.in_flight = s.in_flight
        /\ t.syn_sent = s.syn_sent /\ t.fin_sent = s.fin_sent
        /\ t.absolute_seqno = s.absolute_seqno /\ t.retransmit = s.retransmit
    BY <1>2
  <2>2. t \in Senders
    <3>. DEFINE timer == [s.timer EXCEPT !.left = InitialRTO]
    <3>1. timer \in [running : BOOLEAN, left : Nat] /\ InitialRTO \in Nat
      BY <1>2, SenderAssumption
    <3>2. t = [s EXCEPT !.retransmissions = 0, !.rto = InitialRTO, !.timer = timer]
      OBVIOUS
    <3>. HIDE DEF timer, t
    <3>. QED BY <1>1, <3>1, <3>2 DEF Senders
  <2>. HIDE DEF t
  <2>3. /\ q.sender = t /\ q.outbound = c.p.outbound /\ q.receiver = c.p.receiver
        /\ q.reassembler = c.p.reassembler /\ q.inbound = c.p.inbound
        /\ q.need_send = c.p.need_send
    BY <1>2, <1>4
  <2>4. Counts(t, q.outbound, Total(e))
    BY <1>1, <2>1, <2>3 DEF Counts
  <2>5. q \in Peers(Total(e), Isn(Other(e)), Total(Other(e)))
    BY <1>1, <1>4, <2>2, <2>3, <2>4 DEF Peers
  <2>6. Sending(e, t, q.outbound)
    BY <1>1, <2>1, <2>2, <2>3, <2>4 DEF Sound, Sending, Untouched
  <2>7. Sound(e, q)
    BY <1>1, <2>3, <2>5, <2>6 DEF Sound, Receiving
  <2>8. Settled(q) /\ OnlySends(p, q)
    BY <2>1, <2>3 DEF Collects, Settled, HasAckno, OnlySends
  <2>9. AckedBy(e, q) = AckedBy(e, c.p) /\ Reported(q) = Reported(c.p)
    BY <2>1, <2>3 DEF AckedBy, Reported
  <2>10. (Held(e, c.p) => Held(e, q)) /\ (FinComes(c.p) => FinComes(q))
    BY <2>1, <2>3, <2>9 DEF Held, FinComes, HasAckno, Outstanding
  <2>. DEFINE d == [p |-> q, out |-> c.out]
  <2>11. d.p = q /\ d.out = c.out
    OBVIOUS
  <2>. HIDE DEF d
  <2>12. Collects(e, p, d)
    BY <2>1, <2>3, <2>7, <2>8, <2>9, <2>10, <2>11 DEF Collects
  <2>. QED BY <2>1, <2>3, <2>12 DEF d
<1>5. q = c.p \/ q = [c.p EXCEPT !.sender = t]
  <2>1. [c.p EXCEPT !.sender.retransmissions = 0, !.sender.rto = InitialRTO,
                    !.sender.timer.left = InitialRTO] = [c.p EXCEPT !.sender = t]
    BY <1>2
  <2>. QED BY <2>1 DEF Capped
<1>. QED BY <1>3, <1>4, <1>5

\* A peer with nothing to answer or to push, and what it does.
Quiet(p) == ~HasAckno(p) /\ ~p.need_send /\ p.sender.pushed = <<>>

LEMMA QuietCollects ==
    ASSUME NEW e \in Ends, NEW p, Sound(e, p), Quiet(p), NEW c, c = CollectSegments(p)
    PROVE  /\ c.p.sender.in_flight = p.sender.in_flight
           /\ c.p.sender.syn_sent = p.sender.syn_sent
           /\ p.sender.in_flight = <<>> => MessagesToSend(p) = <<>> /\ c.out = <<>>
           /\ (\A m \in Queued(p.sender.in_flight) : m.SYN) => \A m \in Queued(c.out) : m.SYN
<1>. DEFINE s == p.sender
            a == AllSent(p)
            sent == MessagesToSend(p)
            r == ReceiverSend(p.receiver, p.inbound)
            out == InSegments(p, sent, r)
<1>1. c = [p |-> a, out |-> out]
  BY DEF CollectSegments, SendAll, Quiet
<1>2. Sends(e, p, a)
  BY AllSentIsSound
<1>. HIDE DEF a
<1>3. /\ s.in_flight \in Seq(Own(e)) /\ s.pushed = <<>>
      /\ s.retransmit => s.in_flight # <<>>
  BY SoundFacts DEF Quiet, Senders
<1>4. a.sender.in_flight = s.in_flight /\ a.sender.syn_sent = s.syn_sent
  <2>1. s.in_flight \o s.pushed = s.in_flight
    BY <1>3
  <2>. QED BY <1>2, <2>1 DEF Sends
<1>5. sent = IF s.retransmit THEN <<Head(s.in_flight)>> ELSE <<>>
  <2>1. sent = (IF s.retransmit THEN <<Head(s.in_flight)>> ELSE <<>>) \o <<>>
    BY <1>3 DEF MessagesToSend, Quiet
  <2>. QED BY <2>1
<1>. HIDE DEF sent, r
<1>6. DOMAIN out = DOMAIN sent /\ \A k \in DOMAIN sent : out[k].SYN = sent[k].SYN
  BY DEF InSegments, Segment
<1>7. s.in_flight = <<>> => sent = <<>> /\ out = <<>>
  <2>1. s.in_flight = <<>> => sent = <<>>
    BY <1>3, <1>5
  <2>2. sent = <<>> => out = <<>>
    BY DEF InSegments
  <2>. QED BY <2>1, <2>2
<1>8. ASSUME \A m \in Queued(s.in_flight) : m.SYN, NEW k \in DOMAIN out PROVE out[k].SYN
  <2>1. k \in DOMAIN sent /\ out[k].SYN = sent[k].SYN
    BY <1>6
  <2>2. CASE s.retransmit
    <3>1. Head(s.in_flight) \in Queued(s.in_flight)
      BY <1>3, <2>2 DEF Queued
    <3>2. sent[k] = Head(s.in_flight)
      BY <1>5, <2>1, <2>2
    <3>. QED BY <1>8, <2>1, <3>1, <3>2
  <2>3. CASE ~s.retransmit
    BY <1>5, <2>1, <2>3
  <2>. QED BY <2>2, <2>3
<1>. HIDE DEF out
<1>9. c.p = a /\ c.out = out
  BY <1>1
<1>. QED BY <1>4, <1>7, <1>8, <1>9 DEF Queued, sent

\* The numbers of a single SYN.
LEMMA OneInFlight ==
    ASSUME NEW p, p.sender.pushed = <<>>, NEW m, p.sender.in_flight = <<m>>,
           m.SYN, m.payload = <<>>, ~m.FIN
    PROVE  SequenceNumbersInFlight(p) = 1
<1>. DEFINE q == <<m>>
            iter == [S \in SUBSET {1} |-> IF S = {} THEN 0 ELSE 0 + SequenceLength(m)]
<1>1. SequenceLength(m) = 1
  <2>1. Bit(m.SYN) = 1 /\ Bit(m.FIN) = 0
    BY BitValues
  <2>2. Len(m.payload) = 0
    OBVIOUS
  <2>. DEFINE syn == Bit(m.SYN)   fin == Bit(m.FIN)
  <2>3. SequenceLength(m) = syn + Len(m.payload) + fin
    BY DEF SequenceLength
  <2>4. syn = 1 /\ fin = 0
    BY <2>1
  <2>. HIDE DEF syn, fin
  <2>. QED BY <2>2, <2>3, <2>4
<1>2. Outstanding(p.sender) = q
  BY DEF Outstanding
<1>3. DOMAIN q = {1} /\ q[1] = m
  OBVIOUS
<1>4. Max({1}) = 1
  BY DEF Max
<1>5. FoldLeft(LAMBDA sum, x : sum + SequenceLength(x), 0, q) = 1
  <2>. DEFINE F == CHOOSE f : f = [S \in SUBSET {1} |->
                       IF S = {} THEN 0 ELSE f[S \ {Max(S)}] + SequenceLength(q[Max(S)])]
  <2>1. \E f : f = [S \in SUBSET {1} |->
                       IF S = {} THEN 0 ELSE f[S \ {Max(S)}] + SequenceLength(q[Max(S)])]
    <3>1. iter = [S \in SUBSET {1} |->
                       IF S = {} THEN 0 ELSE iter[S \ {Max(S)}] + SequenceLength(q[Max(S)])]
      <4>1. SUFFICES ASSUME NEW S \in SUBSET {1}, S # {}
                     PROVE  iter[S] = iter[S \ {Max(S)}] + SequenceLength(q[Max(S)])
        OBVIOUS
      <4>2. S = {1}
        BY <4>1
      <4>. QED BY <1>3, <1>4, <4>2
    <3>. QED BY <3>1
  <2>2. F = [S \in SUBSET {1} |->
                       IF S = {} THEN 0 ELSE F[S \ {Max(S)}] + SequenceLength(q[Max(S)])]
    BY <2>1
  <2>. HIDE DEF F
  <2>3. F[{}] = 0 /\ F[{1}] = F[{1} \ {Max({1})}] + SequenceLength(q[Max({1})])
    BY <2>2
  <2>4. F[{1}] = 1
    <3>1. {1} \ {1} = {}
      OBVIOUS
    <3>2. F[{1} \ {Max({1})}] = 0
      BY <1>4, <2>3, <3>1
    <3>3. SequenceLength(q[Max({1})]) = 1
      BY <1>1, <1>3, <1>4
    <3>. QED BY <2>3, <3>2, <3>3
  <2>. QED BY <1>3, <2>4 DEF FoldLeft, MapThenFoldSet, F
<1>. QED BY <1>2, <1>5 DEF SequenceNumbersInFlight

-----------------------------------------------------------------------------
(* Steps *)

\* End e takes segment k off the network, or none if k is 0, and its handler
\* makes p of its peer.
Handled(e, k, p) ==
    /\ Sound(e, p)
    /\ p.need_send => HasAckno(p) \/ p.sender.syn_sent
    /\ HasAckno(peer[e]) => HasAckno(p)
    /\ Reported(peer[e]) <= Reported(p)
    /\ peer[e].sender.syn_sent => p.sender.syn_sent
    /\ peer[e].sender.fin_sent => p.sender.fin_sent
    /\ AckedBy(e, p) <= Reported(peer[Other(e)])
    /\ AckedBy(e, p) <= p.sender.absolute_seqno
    /\ p.reassembler.last_received => peer[Other(e)].sender.fin_sent
    /\ ~HasAckno(peer[Server]) =>
           \/ /\ Quiet(p) /\ p.sender.in_flight = peer[e].sender.in_flight
              /\ p.sender.syn_sent = peer[e].sender.syn_sent
           \/ e = Server /\ HasAckno(p)

\* If no segment overtakes another.
HandledInOrder(e, k, p) ==
    /\ k <= 1
    /\ Held(e, p)
    /\ \/ AckedBy(e, p) = AckedBy(e, peer[e])
       \/ k = 1 /\ AckedBy(e, p) = AckIn(e, net[e][1])

LEMMA ReportedIsNat ==
    ASSUME NEW e \in Ends, NEW p, Sound(e, p)
    PROVE  Reported(p) \in Nat /\ AckedBy(e, p) \in Nat
<1>. DEFINE zero == Isn(Other(e))   total == Total(Other(e))
<1>1. /\ zero \in Raw /\ total \in Nat /\ 2 * (total + 2) < Mod32
      /\ p.receiver \in Receivers(zero) /\ p.inbound \in Inbounds(total)
  BY SoundFacts, PeerConstants
<1>. HIDE DEF zero, total
<1>2. NextNumber(p.receiver, p.inbound) \in 1 .. total + 2
  BY <1>1, ReceiverAnswers
<1>3. Reported(p) \in Nat
  BY <1>1, <1>2 DEF Reported
<1>4. p.sender.ackno \in Raw /\ Isn(e) \in Raw
  BY SoundFacts, EndFacts
<1>5. AckedBy(e, p) \in Raw
  BY <1>4, OffsetIsRaw DEF AckedBy
<1>. QED BY <1>3, <1>5, Modulus DEF Raw

\* The step that a handler begins: end e comes to q, sending out.
Moves(e, k, p, q, out) ==
    /\ peer' = [peer EXCEPT ![e] = q] /\ peer'[e] = q /\ peer'[Other(e)] = peer[Other(e)]
    /\ started'[Other(e)] = started[Other(e)]
    /\ started' \in [Ends -> BOOLEAN]
    /\ started'[e] =>
           started[e] \/ IF e = Client THEN ~(SequenceNumbersInFlight(q) = 1) ELSE HasAckno(q)
    /\ net' = [f \in Ends |-> net'[f]]
    /\ net'[e] = <<>> \/ net'[e] = IF k = 0 THEN net[e] ELSE RemoveAt(net[e], k)
    /\ net'[Other(e)] = <<>> \/ net'[Other(e)] = net[Other(e)] \o out
    /\ Collects(e, p, [p |-> q, out |-> out])
    /\ Quiet(p) => /\ q.sender.in_flight = p.sender.in_flight
                   /\ q.sender.syn_sent = p.sender.syn_sent
                   /\ p.sender.in_flight = <<>> => out = <<>>
                   /\ (\A m \in Queued(p.sender.in_flight) : m.SYN) => \A m \in Queued(out) : m.SYN

\* Only the client sends before it has heard of the other end.
LEMMA HandledSends ==
    ASSUME Inv, NEW e \in Ends, NEW k, NEW p, Handled(e, k, p)
    PROVE  ~HasAckno(p) => e = Client \/ MessagesToSend(p) = <<>>
<1>1. SUFFICES ASSUME ~HasAckno(p), e = Server PROVE MessagesToSend(p) = <<>>
  BY DEF Ends
<1>2. ~HasAckno(peer[Server])
  BY <1>1 DEF Handled
<1>3. /\ Quiet(p) /\ p.sender.in_flight = peer[Server].sender.in_flight
      /\ ~peer[Server].sender.syn_sent
  BY <1>1, <1>2 DEF Handled, Inv, Opening
<1>4. Sending(Server, peer[Server].sender, peer[Server].outbound)
  BY <1>1 DEF Inv, PeerInv, Sound
<1>5. p.sender.in_flight = <<>>
  BY <1>3, <1>4 DEF Sending, Untouched
<1>6. Sound(e, p)
  BY DEF Handled
<1>. QED BY <1>3, <1>5, <1>6, QuietCollects

LEMMA HandlersMove ==
    ASSUME Inv, NEW e \in Ends, NEW k \in Nat, NEW p, Handled(e, k, p), GoesOn(e, k, p)
    PROVE  Moves(e, k, p, Capped(CollectSegments(p).p), CollectSegments(p).out)
<1>. DEFINE c == CollectSegments(p)
            q == Capped(c.p)
            o == Other(e)
<1>1. /\ peer' = [peer EXCEPT ![e] = q]
      /\ started' = [started EXCEPT ![e] = started[e] \/ Connected(e, c.p)]
      /\ net' = [net EXCEPT
                   ![e] = IF ~Active(c.p) THEN <<>>
                          ELSE IF k = 0 THEN net[e] ELSE RemoveAt(net[e], k),
                   ![o] = IF Running(o) THEN net[o] \o c.out ELSE <<>>]
  <2>1. \E d \in {CollectSegments(p)} :
            /\ peer' = [peer EXCEPT ![e] = Capped(d.p)]
            /\ started' = [started EXCEPT ![e] = started[e] \/ Connected(e, d.p)]
            /\ net' = [net EXCEPT
                         ![e] = IF ~Active(d.p) THEN <<>>
                                ELSE IF k = 0 THEN net[e] ELSE RemoveAt(net[e], k),
                         ![o] = IF Running(o) THEN net[o] \o d.out ELSE <<>>]
    BY EndFacts DEF GoesOn, Inv, Shape
  <2>. QED BY <2>1
<1>2. /\ o \in Ends /\ o # e
      /\ peer = [f \in Ends |-> peer[f]] /\ net = [f \in Ends |-> net[f]]
      /\ started \in [Ends -> BOOLEAN]
  BY EndFacts DEF Inv, Shape
<1>3. Sound(e, p) /\ (p.need_send => HasAckno(p) \/ p.sender.syn_sent)
  BY DEF Handled
<1>4. ~HasAckno(p) => e = Client \/ MessagesToSend(p) = <<>>
  BY HandledSends
<1>5. Collects(e, p, c)
  BY <1>3, <1>4, CollectIsSound
<1>6. Quiet(p) =>
          /\ c.p.sender.in_flight = p.sender.in_flight
          /\ c.p.sender.syn_sent = p.sender.syn_sent
          /\ p.sender.in_flight = <<>> => c.out = <<>>
          /\ (\A m \in Queued(p.sender.in_flight) : m.SYN) => \A m \in Queued(c.out) : m.SYN
  BY <1>3, QuietCollects
<1>. HIDE DEF c
<1>7. Collects(e, p, [p |-> q, out |-> c.out]) /\ q.sender.in_flight = c.p.sender.in_flight
  BY <1>5, CappedIsSound
<1>8. /\ q.sender.pushed = c.p.sender.pushed /\ q.sender.syn_sent = c.p.sender.syn_sent
      /\ HasAckno(q) = HasAckno(c.p)
  <2>1. c.p \in Peers(Total(e), Isn(Other(e)), Total(Other(e))) /\ c.p.sender \in Senders
    BY <1>5, SoundFacts DEF Collects
  <2>. DEFINE s == c.p.sender
              t == [s EXCEPT !.retransmissions = 0, !.rto = InitialRTO, !.timer.left = InitialRTO]
  <2>2. q = c.p \/ q = [c.p EXCEPT !.sender = t]
    BY <2>1 DEF Capped, Peers, Senders
  <2>3. t.pushed = s.pushed /\ t.syn_sent = s.syn_sent
    BY <2>1 DEF Senders
  <2>. HIDE DEF q, t
  <2>4. CASE q = c.p
    BY <2>4
  <2>5. CASE q = [c.p EXCEPT !.sender = t]
    <3>1. q.sender = t /\ q.receiver = c.p.receiver
      BY <2>1, <2>5 DEF Peers
    <3>. QED BY <2>3, <3>1 DEF HasAckno
  <2>. QED BY <2>2, <2>4, <2>5
<1>. HIDE DEF q, o
<1>9. started'[e] =>
          started[e] \/ IF e = Client THEN ~(SequenceNumbersInFlight(q) = 1) ELSE HasAckno(q)
  <2>1. started'[e] => started[e] \/ Connected(e, c.p)
    BY <1>1, <1>2
  <2>2. SequenceNumbersInFlight(c.p) = SequenceNumbersInFlight(q)
    BY <1>7, <1>8 DEF SequenceNumbersInFlight, Outstanding
  <2>. QED BY <1>8, <2>1, <2>2 DEF Connected
<1>10. started' \in [Ends -> BOOLEAN]
  <2>1. (started[e] \/ Connected(e, c.p)) \in BOOLEAN
    BY <1>2 DEF Connected
  <2>. DEFINE b == started[e] \/ Connected(e, c.p)
  <2>2. b \in BOOLEAN /\ started' = [started EXCEPT ![e] = b]
    BY <1>1, <2>1
  <2>. HIDE DEF b
  <2>. QED BY <1>2, <2>2
<1>11. started'[o] = started[o] /\ peer'[e] = q /\ peer'[o] = peer[o]
  BY <1>1, <1>2
<1>12. /\ net' = [f \in Ends |-> net'[f]]
       /\ net'[e] = <<>> \/ net'[e] = IF k = 0 THEN net[e] ELSE RemoveAt(net[e], k)
       /\ net'[o] = <<>> \/ net'[o] = net[o] \o c.out
  <2>. DEFINE x == IF ~Active(c.p) THEN <<>> ELSE IF k = 0 THEN net[e] ELSE RemoveAt(net[e], k)
              y == IF Running(o) THEN net[o] \o c.out ELSE <<>>
  <2>1. net' = [net EXCEPT ![e] = x, ![o] = y]
    BY <1>1
  <2>2. x = <<>> \/ x = IF k = 0 THEN net[e] ELSE RemoveAt(net[e], k)
    OBVIOUS
  <2>3. y = <<>> \/ y = net[o] \o c.out
    OBVIOUS
  <2>. HIDE DEF x, y
  <2>4. net' = [f \in Ends |-> net'[f]] /\ net'[e] = x /\ net'[o] = y
    BY <1>2, <2>1
  <2>. QED BY <2>2, <2>3, <2>4
<1>13. Moves(e, k, p, q, c.out)
  BY <1>1, <1>6, <1>7, <1>8, <1>9, <1>10, <1>11, <1>12 DEF Moves, o
<1>. QED BY <1>13 DEF q, c

\* The facts about such a step that the parts of the invariant need.
Moved(e, p, q, out) ==
    /\ Sound(e, q) /\ Settled(q)
    /\ q.reassembler = p.reassembler
    /\ HasAckno(q) = HasAckno(p) /\ Reported(q) = Reported(p)
    /\ p.sender.syn_sent => q.sender.syn_sent
    /\ p.sender.fin_sent => q.sender.fin_sent
    /\ AckedBy(e, q) = AckedBy(e, p)
    /\ p.sender.absolute_seqno <= q.sender.absolute_seqno
    /\ q.sender.absolute_seqno \in Nat /\ p.sender.absolute_seqno \in Nat
    /\ out \in Seq(SegmentsFrom(e))
    /\ \A m \in Queued(out) : /\ AckIn(Other(e), m) = Reported(q)
                              /\ m.FIN => q.sender.fin_sent
    /\ Held(e, p) => Held(e, q) /\ FinComes(q)
    /\ Reported(q) \in Nat /\ Reported(p) \in Nat /\ Reported(peer[e]) \in Nat
    /\ AckedBy(e, p) \in Nat /\ AckedBy(Other(e), peer[Other(e)]) \in Nat
    /\ net'[e] \in Seq(SegmentsFrom(Other(e))) /\ Queued(net'[e]) \subseteq Queued(net[e])
    /\ net'[Other(e)] \in Seq(SegmentsFrom(e))
    /\ Queued(net'[Other(e)]) \subseteq Queued(net[Other(e)]) \cup Queued(out)

LEMMA MoveFacts ==
    ASSUME Inv, NEW e \in Ends, NEW k \in Nat, NEW p, Handled(e, k, p),
           k # 0 => k \in 1 .. Len(net[e]), NEW q, NEW out, Moves(e, k, p, q, out)
    PROVE  Moved(e, p, q, out)
<1>. DEFINE o == Other(e)   d == [p |-> q, out |-> out]
<1>1. o \in Ends /\ Other(o) = e
  BY EndFacts
<1>2. Collects(e, p, d) /\ d.p = q /\ d.out = out
  BY DEF Moves
<1>. HIDE DEF d
<1>3. Sound(e, p) /\ AckedBy(e, p) <= p.sender.absolute_seqno
  BY DEF Handled
<1>4. /\ Sound(e, q) /\ Settled(q) /\ OnlySends(p, q)
      /\ p.sender.syn_sent => q.sender.syn_sent
      /\ p.sender.fin_sent => q.sender.fin_sent
      /\ AckedBy(e, q) = AckedBy(e, p)
      /\ p.sender.absolute_seqno <= q.sender.absolute_seqno
      /\ out \in Seq(SegmentsFrom(e))
      /\ \A m \in Queued(out) : AckIn(Other(e), m) = Reported(q) /\ (m.FIN => q.sender.fin_sent)
      /\ Held(e, p) => Held(e, q) /\ FinComes(q)
  BY <1>2, <1>3 DEF Collects
<1>5. q.reassembler = p.reassembler /\ HasAckno(q) = HasAckno(p) /\ Reported(q) = Reported(p)
  BY <1>4 DEF OnlySends, HasAckno, Reported
<1>6. q.sender.absolute_seqno \in Nat /\ p.sender.absolute_seqno \in Nat
  BY <1>3, <1>4, SoundFacts
<1>7. Sound(e, peer[e]) /\ Sound(o, peer[o])
  BY <1>1 DEF Inv, PeerInv
<1>8. /\ Reported(q) \in Nat /\ Reported(p) \in Nat /\ Reported(peer[e]) \in Nat
      /\ AckedBy(e, p) \in Nat /\ AckedBy(o, peer[o]) \in Nat
  BY <1>1, <1>3, <1>4, <1>7, ReportedIsNat
<1>9. net[e] \in Seq(SegmentsFrom(o)) /\ net[o] \in Seq(SegmentsFrom(e))
  BY <1>1 DEF Inv, WireInv
<1>10. net'[e] \in Seq(SegmentsFrom(o)) /\ Queued(net'[e]) \subseteq Queued(net[e])
  <2>1. net'[e] = <<>> \/ net'[e] = IF k = 0 THEN net[e] ELSE RemoveAt(net[e], k)
    BY DEF Moves
  <2>2. CASE net'[e] = <<>>
    BY <2>2, EmptySeq DEF Queued
  <2>3. CASE net'[e] = IF k = 0 THEN net[e] ELSE RemoveAt(net[e], k)
    <3>1. CASE k = 0
      BY <1>9, <2>3, <3>1
    <3>2. CASE k # 0
      <4>1. k \in 1 .. Len(net[e])
        BY <3>2
      <4>2. /\ RemoveAt(net[e], k) \in Seq(SegmentsFrom(o))
            /\ Queued(RemoveAt(net[e], k)) \subseteq Queued(net[e])
        BY <1>9, <4>1, QueuedOfRemoved
      <4>. QED BY <2>3, <3>2, <4>2
    <3>. QED BY <3>1, <3>2
  <2>. QED BY <2>1, <2>2, <2>3
<1>11. /\ net'[o] \in Seq(SegmentsFrom(e))
       /\ Queued(net'[o]) \subseteq Queued(net[o]) \cup Queued(out)
  <2>1. net'[o] = <<>> \/ net'[o] = net[o] \o out
    BY DEF Moves
  <2>2. CASE net'[o] = <<>>
    BY <2>2, EmptySeq DEF Queued
  <2>3. CASE net'[o] = net[o] \o out
    <3>1. IsSequence(net[o]) /\ IsSequence(out)
      BY <1>4, <1>9, SeqIsSequence
    <3>. QED BY <1>4, <1>9, <2>3, <3>1, QueuedOfConcat, ConcatProperties
  <2>. QED BY <2>1, <2>2, <2>3
<1>. QED BY <1>4, <1>5, <1>6, <1>8, <1>10, <1>11 DEF Moved, o

\* The end that moves keeps its part, and so does the other.
LEMMA MovedKeepsBounds ==
    ASSUME Inv, NEW e \in Ends, NEW k \in Nat, NEW p, Handled(e, k, p),
           k # 0 => k \in 1 .. Len(net[e]), NEW q, NEW out, Moves(e, k, p, q, out)
    PROVE  \A f \in Ends : PeerInv(f)' /\ WireInv(f)' /\ AckInv(f)'
<1>. DEFINE o == Other(e)
<1>1. o \in Ends /\ Other(o) = e /\ \A f \in Ends : f = e \/ f = o
  BY EndFacts DEF Ends, Other
<1>2. /\ peer'[e] = q /\ peer'[o] = peer[o] /\ started'[o] = started[o]
      /\ started'[e] =>
           started[e] \/ IF e = Client THEN ~(SequenceNumbersInFlight(q) = 1) ELSE HasAckno(q)
  BY DEF Moves
<1>3. /\ PeerInv(e) /\ WireInv(e) /\ AckInv(e) /\ PeerInv(o) /\ WireInv(o) /\ AckInv(o)
      /\ peer[Client].sender.syn_sent
  BY <1>1 DEF Inv, Opening
<1>4. /\ HasAckno(peer[e]) => HasAckno(p)
      /\ Reported(peer[e]) <= Reported(p)
      /\ peer[e].sender.syn_sent => p.sender.syn_sent
      /\ peer[e].sender.fin_sent => p.sender.fin_sent
      /\ AckedBy(e, p) <= Reported(peer[o])
      /\ AckedBy(e, p) <= p.sender.absolute_seqno
      /\ p.reassembler.last_received => peer[o].sender.fin_sent
  BY DEF Handled
<1>5. Moved(e, p, q, out)
  BY MoveFacts
<1>6. /\ Sound(e, q) /\ Settled(q)
      /\ q.reassembler = p.reassembler
      /\ HasAckno(q) = HasAckno(p) /\ Reported(q) = Reported(p)
      /\ p.sender.syn_sent => q.sender.syn_sent
      /\ p.sender.fin_sent => q.sender.fin_sent
      /\ AckedBy(e, q) = AckedBy(e, p)
      /\ p.sender.absolute_seqno <= q.sender.absolute_seqno
      /\ q.sender.absolute_seqno \in Nat /\ p.sender.absolute_seqno \in Nat
      /\ \A m \in Queued(out) : AckIn(o, m) = Reported(q) /\ (m.FIN => q.sender.fin_sent)
      /\ Reported(q) \in Nat /\ Reported(p) \in Nat /\ Reported(peer[e]) \in Nat
      /\ AckedBy(e, p) \in Nat /\ AckedBy(o, peer[o]) \in Nat
      /\ net'[e] \in Seq(SegmentsFrom(o)) /\ Queued(net'[e]) \subseteq Queued(net[e])
      /\ net'[o] \in Seq(SegmentsFrom(e))
      /\ Queued(net'[o]) \subseteq Queued(net[o]) \cup Queued(out)
  BY <1>5 DEF Moved
<1>. HIDE DEF o
<1>7. PeerInv(e)'
  <2>1. ASSUME started'[e] PROVE q.sender.syn_sent
    <3>1. CASE started[e]
      BY <1>3, <1>4, <1>6, <3>1 DEF PeerInv
    <3>2. CASE e = Client
      BY <1>3, <1>4, <1>6, <3>2
    <3>3. CASE e # Client /\ HasAckno(q)
      BY <1>6, <3>3 DEF Settled
    <3>. QED BY <1>2, <2>1, <3>1, <3>2, <3>3
  <2>. QED BY <1>2, <1>6, <2>1 DEF PeerInv
<1>8. PeerInv(o)'
  BY <1>2, <1>3 DEF PeerInv
<1>9. WireInv(e)'
  <2>1. /\ net'[e] \in Seq(SegmentsFrom(o))
        /\ \A m \in Queued(net'[e]) : /\ AckIn(e, m) <= Reported(peer[o])
                                      /\ m.FIN => peer[o].sender.fin_sent
    BY <1>3, <1>6 DEF WireInv, o
  <2>. QED BY <1>2, <2>1 DEF WireInv, o
<1>10. WireInv(o)'
  <2>1. ASSUME NEW m \in Queued(net'[o])
        PROVE  AckIn(o, m) <= Reported(q) /\ (m.FIN => q.sender.fin_sent)
    <3>1. CASE m \in Queued(net[o])
      <4>1. AckIn(o, m) <= Reported(peer[e]) /\ (m.FIN => peer[e].sender.fin_sent)
        BY <1>1, <1>3, <3>1 DEF WireInv
      <4>2. AckIn(o, m) \in Nat
        <5>1. m \in SegmentsFrom(Other(o))
          BY <1>3, <3>1 DEF WireInv, Queued
        <5>. QED BY <1>1, <5>1, AckInIsNat
      <4>3. AckIn(o, m) <= Reported(q)
        BY <1>4, <1>6, <4>1, <4>2
      <4>. QED BY <1>4, <1>6, <4>1, <4>3
    <3>2. CASE m \in Queued(out)
      BY <1>6, <3>2
    <3>. QED BY <1>6, <3>1, <3>2
  <2>. QED BY <1>1, <1>2, <1>6, <2>1 DEF WireInv
<1>11. AckInv(e)'
  <2>1. AckedBy(e, q) <= Reported(peer[o]) /\ AckedBy(e, q) <= q.sender.absolute_seqno
    BY <1>4, <1>6
  <2>. QED BY <1>2, <1>4, <1>6, <2>1 DEF AckInv, o
<1>12. AckInv(o)'
  <2>1. AckedBy(o, peer[o]) <= Reported(q)
    BY <1>1, <1>3, <1>4, <1>6 DEF AckInv
  <2>2. peer[o].reassembler.last_received => q.sender.fin_sent
    BY <1>1, <1>3, <1>4, <1>6 DEF AckInv
  <2>. QED BY <1>1, <1>2, <1>3, <2>1, <2>2 DEF AckInv
<1>. QED BY <1>1, <1>7, <1>8, <1>9, <1>10, <1>11, <1>12

LEMMA MovedKeepsOrder ==
    ASSUME Inv, NEW e \in Ends, NEW k \in Nat, NEW p, Handled(e, k, p),
           ~overtaken' => ~overtaken /\ HandledInOrder(e, k, p),
           k # 0 => k \in 1 .. Len(net[e]), NEW q, NEW out, Moves(e, k, p, q, out)
    PROVE  \A f \in Ends : Orderly(f)'
<1>. DEFINE o == Other(e)   a == AckedBy(e, peer[e])   b == AckedBy(o, peer[o])
<1>1. o \in Ends /\ Other(o) = e /\ \A f \in Ends : f = e \/ f = o
  BY EndFacts DEF Ends, Other
<1>2. SUFFICES ASSUME ~overtaken'
               PROVE  /\ InOrder(e)' /\ Held(e, q) /\ FinComes(q)
                      /\ InOrder(o)' /\ Held(o, peer[o]) /\ FinComes(peer[o])
  <2>1. peer'[e] = q /\ peer'[o] = peer[o]
    BY DEF Moves
  <2>. HIDE DEF o
  <2>2. /\ ~overtaken' => InOrder(e)' /\ Held(e, peer'[e]) /\ FinComes(peer'[e])
        /\ ~overtaken' => InOrder(o)' /\ Held(o, peer'[o]) /\ FinComes(peer'[o])
    BY <1>2, <2>1
  <2>3. Orderly(e)' /\ Orderly(o)'
    BY <2>2 DEF Orderly
  <2>. QED BY <1>1, <2>3
<1>3. /\ HandledInOrder(e, k, p)
      /\ InOrder(e) /\ InOrder(o) /\ Held(o, peer[o]) /\ FinComes(peer[o])
  BY <1>1, <1>2 DEF Inv, Orderly
<1>4. Moved(e, p, q, out)
  BY MoveFacts
<1>5. /\ peer'[e] = q /\ peer'[o] = peer[o]
      /\ net'[e] = <<>> \/ net'[e] = IF k = 0 THEN net[e] ELSE RemoveAt(net[e], k)
      /\ net'[o] = <<>> \/ net'[o] = net[o] \o out
  BY DEF Moves
<1>6. /\ net[e] \in Seq(SegmentsFrom(o)) /\ net[o] \in Seq(SegmentsFrom(e))
      /\ \A m \in Queued(net[o]) : AckIn(o, m) <= Reported(peer[e])
      /\ b <= Reported(peer[e])
  BY <1>1 DEF Inv, WireInv, AckInv
<1>7. Reported(peer[e]) <= Reported(p)
  BY DEF Handled
<1>8. Held(e, q) /\ FinComes(q)
  BY <1>3, <1>4 DEF HandledInOrder, Moved
<1>9. \A f, n : Ascends(f, <<>>, n)
  BY DEF Ascends, Queued
<1>10. InOrder(e)'
  <2>1. Ascends(e, net[e], a)
    BY <1>3 DEF InOrder
  <2>2. AckedBy(e, q) = AckedBy(e, p)
    BY <1>4 DEF Moved
  <2>3. Ascends(e, net'[e], AckedBy(e, q))
    <3>1. CASE net'[e] = <<>>
      BY <1>9, <3>1
    <3>2. CASE net'[e] = net[e] /\ k = 0
      BY <1>3, <2>1, <2>2, <3>2 DEF HandledInOrder
    <3>3. CASE net'[e] = RemoveAt(net[e], k) /\ k # 0
      <4>1. k = 1 /\ k \in 1 .. Len(net[e]) /\ net[e] # <<>>
        BY <1>3, <1>6, <3>3 DEF HandledInOrder
      <4>2. net'[e] = Tail(net[e])
        BY <1>6, <3>3, <4>1, QueuedOfRemoved
      <4>3. Ascends(e, Tail(net[e]), a) /\ Ascends(e, Tail(net[e]), AckIn(e, net[e][1]))
        BY <1>6, <2>1, <4>1, AscendsTail
      <4>4. AckedBy(e, q) = a \/ AckedBy(e, q) = AckIn(e, net[e][1])
        BY <1>3, <2>2 DEF HandledInOrder
      <4>. QED BY <4>2, <4>3, <4>4
    <3>. QED BY <1>5, <3>1, <3>2, <3>3
  <2>. QED BY <1>5, <2>3 DEF InOrder
<1>11. InOrder(o)'
  <2>1. Ascends(o, net[o], b)
    BY <1>3 DEF InOrder
  <2>2. /\ out \in Seq(SegmentsFrom(Other(o)))
        /\ \A m \in Queued(out) : AckIn(o, m) = Reported(q)
        /\ Reported(q) = Reported(p) /\ Reported(q) \in Nat /\ Reported(peer[e]) \in Nat /\ b \in Nat
    BY <1>1, <1>4 DEF Moved
  <2>3. \A m \in Queued(net[o]) : AckIn(o, m) \in Nat
    <3>1. \A m \in Queued(net[o]) : m \in SegmentsFrom(Other(o))
      BY <1>1, <1>6 DEF Queued
    <3>. QED BY <1>1, <3>1, AckInIsNat
  <2>4. \A m \in Queued(net[o]) : AckIn(o, m) <= Reported(q)
    BY <1>6, <1>7, <2>2, <2>3
  <2>5. b <= Reported(q)
    BY <1>6, <1>7, <2>2
  <2>. HIDE DEF o, b
  <2>6. net[o] \in Seq(SegmentsFrom(Other(o)))
    BY <1>1, <1>6
  <2>. DEFINE n == Reported(q)
  <2>7. /\ n \in Nat /\ b <= n
        /\ \A m \in Queued(net[o]) : AckIn(o, m) <= n
        /\ \A m \in Queued(out) : AckIn(o, m) = n
    BY <2>2, <2>4, <2>5
  <2>. HIDE DEF n
  <2>8. Ascends(o, net[o] \o out, b)
    BY <1>1, <2>1, <2>2, <2>6, <2>7, AscendsWithMore
  <2>9. Ascends(o, net'[o], b)
    BY <1>1, <1>5, <1>9, <2>8
  <2>. QED BY <1>5, <2>9 DEF InOrder, b
<1>. QED BY <1>3, <1>8, <1>10, <1>11

LEMMA MovedKeepsOpening ==
    ASSUME Inv, NEW e \in Ends, NEW k \in Nat, NEW p, Handled(e, k, p),
           k # 0 => k \in 1 .. Len(net[e]), NEW q, NEW out, Moves(e, k, p, q, out)
    PROVE  Opening'
<1>1. /\ Moved(e, p, q, out)
      /\ peer'[e] = q /\ peer'[Other(e)] = peer[Other(e)] /\ started'[Other(e)] = started[Other(e)]
      /\ started'[e] =>
           started[e] \/ IF e = Client THEN ~(SequenceNumbersInFlight(q) = 1) ELSE HasAckno(q)
      /\ net'[e] = <<>> \/ net'[e] = IF k = 0 THEN net[e] ELSE RemoveAt(net[e], k)
      /\ net'[Other(e)] = <<>> \/ net'[Other(e)] = net[Other(e)] \o out
      /\ Quiet(p) =>
             /\ q.sender.in_flight = p.sender.in_flight /\ q.sender.syn_sent = p.sender.syn_sent
             /\ p.sender.in_flight = <<>> => out = <<>>
             /\ (\A m \in Queued(p.sender.in_flight) : m.SYN) => \A m \in Queued(out) : m.SYN
  BY MoveFacts DEF Moves
<1>2. /\ Sound(e, q) /\ Settled(q) /\ HasAckno(q) = HasAckno(p)
      /\ p.sender.syn_sent => q.sender.syn_sent
      /\ Queued(net'[e]) \subseteq Queued(net[e])
      /\ Queued(net'[Other(e)]) \subseteq Queued(net[Other(e)]) \cup Queued(out)
  BY <1>1 DEF Moved
<1>3. /\ HasAckno(peer[e]) => HasAckno(p)
      /\ peer[e].sender.syn_sent => p.sender.syn_sent
      /\ ~HasAckno(peer[Server]) =>
             \/ /\ Quiet(p) /\ p.sender.in_flight = peer[e].sender.in_flight
                /\ p.sender.syn_sent = peer[e].sender.syn_sent
             \/ e = Server /\ HasAckno(p)
  BY DEF Handled
<1>4. Opening
  BY DEF Inv
<1>5. Client # Server /\ Other(Client) = Server /\ Other(Server) = Client /\ e \in {Client, Server}
  BY DEF Client, Server, Ends, Other
<1>6. peer'[Client].sender.syn_sent
  BY <1>1, <1>2, <1>3, <1>4, <1>5 DEF Opening
<1>7. SUFFICES ASSUME ~HasAckno(peer'[Server])
               PROVE  /\ ~peer'[Server].sender.syn_sent /\ net'[Client] = <<>>
                      /\ ~started'[Client] /\ ~started'[Server]
                      /\ ~HasAckno(peer'[Client])
                      /\ Len(peer'[Client].sender.in_flight) = 1
                      /\ peer'[Client].sender.in_flight[1].SYN
                      /\ \A m \in Queued(net'[Server]) : m.SYN
  <2>1. ~HasAckno(peer'[Server]) =>
          /\ ~peer'[Server].sender.syn_sent /\ net'[Client] = <<>>
          /\ ~started'[Client] /\ ~started'[Server]
          /\ ~HasAckno(peer'[Client])
          /\ Len(peer'[Client].sender.in_flight) = 1
          /\ peer'[Client].sender.in_flight[1].SYN
          /\ \A m \in Queued(net'[Server]) : m.SYN
    BY <1>7
  <2>. QED BY <1>6, <2>1 DEF Opening
<1>8. ~HasAckno(peer[Server])
  BY <1>1, <1>2, <1>3, <1>5, <1>7
<1>9. /\ ~peer[Server].sender.syn_sent /\ net[Client] = <<>>
      /\ ~started[Client] /\ ~started[Server]
      /\ ~HasAckno(peer[Client])
      /\ Len(peer[Client].sender.in_flight) = 1 /\ peer[Client].sender.in_flight[1].SYN
      /\ \A m \in Queued(net[Server]) : m.SYN
  BY <1>4, <1>8 DEF Opening
<1>10. /\ Quiet(p) /\ p.sender.in_flight = peer[e].sender.in_flight
       /\ p.sender.syn_sent = peer[e].sender.syn_sent
       /\ ~HasAckno(q)
  BY <1>1, <1>2, <1>3, <1>5, <1>7, <1>8 DEF Quiet
<1>11. CASE e = Client
  <2>1. /\ q.sender.in_flight = peer[Client].sender.in_flight
        /\ peer'[Client] = q /\ peer'[Server] = peer[Server]
    BY <1>1, <1>5, <1>10, <1>11
  <2>. DEFINE flight == q.sender.in_flight
              m == flight[1]
  <2>2. flight \in Seq(Own(Client)) /\ Len(flight) = 1 /\ m.SYN
    BY <1>2, <1>9, <1>11, <2>1, SoundFacts DEF Ends
  <2>3. m \in Own(Client) /\ flight = <<m>> /\ Queued(flight) = {m}
    BY <2>2 DEF Queued
  <2>4. m.payload = <<>> /\ ~m.FIN
    BY <2>2, <2>3 DEF Own, InStream
  <2>5. SequenceNumbersInFlight(q) = 1
    <3>1. q.sender.pushed = <<>>
      BY <1>2 DEF Settled
    <3>. QED BY <2>2, <2>3, <2>4, <3>1, OneInFlight
  <2>6. k = 0
    <3>1. k \notin 1 .. Len(net[e])
      BY <1>9, <1>11
    <3>. QED BY <3>1
  <2>7. net'[Client] = <<>>
    BY <1>1, <1>9, <1>11, <2>6
  <2>8. \A x \in Queued(net'[Server]) : x.SYN
    <3>1. \A x \in Queued(p.sender.in_flight) : x.SYN
      BY <1>10, <1>11, <2>1, <2>2, <2>3
    <3>2. \A x \in Queued(out) : x.SYN
      BY <1>1, <1>10, <3>1
    <3>. QED BY <1>2, <1>5, <1>9, <1>11, <3>2
  <2>9. ~started'[Client] /\ ~started'[Server]
    BY <1>1, <1>5, <1>9, <1>11, <2>5
  <2>. QED BY <1>9, <1>10, <2>1, <2>2, <2>7, <2>8, <2>9
<1>12. CASE e = Server
  <2>1. peer'[Server] = q /\ peer'[Client] = peer[Client]
    BY <1>1, <1>5, <1>12
  <2>2. q.sender.in_flight = <<>> /\ ~q.sender.syn_sent /\ p.sender.in_flight = <<>>
    <3>1. ~q.sender.syn_sent /\ q.sender.in_flight = p.sender.in_flight
      BY <1>1, <1>9, <1>10, <1>12
    <3>. QED BY <1>2, <3>1 DEF Sound, Sending, Untouched
  <2>3. net'[Client] = <<>>
    <3>1. out = <<>> /\ net[Client] \o <<>> = <<>>
      BY <1>1, <1>9, <1>10, <2>2
    <3>. QED BY <1>1, <1>5, <1>9, <1>12, <3>1
  <2>4. ~started'[Client] /\ ~started'[Server]
    BY <1>1, <1>5, <1>9, <1>10, <1>12
  <2>5. \A x \in Queued(net'[Server]) : x.SYN
    BY <1>2, <1>9, <1>12
  <2>. QED BY <1>9, <2>1, <2>2, <2>3, <2>4, <2>5
<1>. QED BY <1>5, <1>11, <1>12

\* What a handler does keeps the invariant, whatever is then sent.
LEMMA GoesOnIsSound ==
    ASSUME Inv, NEW e \in Ends, NEW k \in Nat, k # 0 => k \in 1 .. Len(net[e]),
           NEW p, Handled(e, k, p), overtaken' \in BOOLEAN,
           ~overtaken' => ~overtaken /\ HandledInOrder(e, k, p), GoesOn(e, k, p)
    PROVE  Inv'
<1>. DEFINE q == Capped(CollectSegments(p).p)   out == CollectSegments(p).out
<1>1. Moves(e, k, p, q, out)
  BY HandlersMove
<1>. HIDE DEF q, out
<1>2. \A f \in Ends : PeerInv(f)' /\ WireInv(f)' /\ AckInv(f)'
  BY <1>1, MovedKeepsBounds
<1>3. \A f \in Ends : Orderly(f)'
  BY <1>1, MovedKeepsOrder
<1>4. Opening'
  BY <1>1, MovedKeepsOpening
<1>5. Shape'
  <2>1. peer = [f \in Ends |-> peer[f]]
    BY DEF Inv, Shape
  <2>2. peer' = [f \in Ends |-> peer'[f]]
    BY <1>1, <2>1 DEF Moves
  <2>. QED BY <1>1, <2>2 DEF Shape, Moves
<1>. QED BY <1>2, <1>3, <1>4, <1>5 DEF Inv

-----------------------------------------------------------------------------
(* The handlers that hear nothing from the other end *)

LEMMA InvFacts ==
    ASSUME Inv, NEW e \in Ends
    PROVE  /\ Sound(e, peer[e]) /\ Settled(peer[e])
           /\ started[e] => peer[e].sender.syn_sent
           /\ AckedBy(e, peer[e]) <= Reported(peer[Other(e)])
           /\ AckedBy(e, peer[e]) <= peer[e].sender.absolute_seqno
           /\ peer[e].reassembler.last_received => peer[Other(e)].sender.fin_sent
           /\ ~overtaken => Held(e, peer[e])
           /\ ~HasAckno(peer[Server]) => ~started[e]
           /\ AckedBy(e, peer[e]) \in Nat /\ Reported(peer[e]) \in Nat
           /\ peer[e].sender.absolute_seqno \in Nat
<1>1. PeerInv(e) /\ AckInv(e) /\ Orderly(e)
  BY DEF Inv
<1>2. ~HasAckno(peer[Server]) => ~started[e]
  BY DEF Inv, Opening, Ends
<1>3. Sound(e, peer[e])
  BY <1>1 DEF PeerInv
<1>4. AckedBy(e, peer[e]) \in Nat /\ Reported(peer[e]) \in Nat
  BY <1>3, ReportedIsNat
<1>5. peer[e].sender.absolute_seqno \in Nat
  BY <1>3, SoundFacts
<1>. QED BY <1>1, <1>2, <1>4, <1>5 DEF PeerInv, AckInv, Orderly

\* What p keeps of peer r: its acknowledgments, and all that it has received.
Keeps(e, r, p) ==
    /\ p.need_send = r.need_send
    /\ p.receiver = r.receiver /\ p.reassembler = r.reassembler
    /\ p.inbound.pushed = r.inbound.pushed /\ p.inbound.closed = r.inbound.closed
    /\ r.sender.syn_sent => p.sender.syn_sent
    /\ r.sender.fin_sent => p.sender.fin_sent
    /\ p.sender.ackno = r.sender.ackno
    /\ r.sender.absolute_seqno <= p.sender.absolute_seqno /\ p.sender.absolute_seqno \in Nat
    /\ Held(e, r) => Held(e, p)

LEMMA KeepingIsHandled ==
    ASSUME Inv, NEW e \in Ends, NEW p, Sound(e, p), Keeps(e, peer[e], p),
           HasAckno(peer[Server]) \/ /\ p.sender.in_flight = peer[e].sender.in_flight
                                     /\ p.sender.syn_sent = peer[e].sender.syn_sent
                                     /\ p.sender.pushed = peer[e].sender.pushed
    PROVE  Handled(e, 0, p) /\ (~overtaken => HandledInOrder(e, 0, p))
<1>1. /\ AckedBy(e, p) = AckedBy(e, peer[e]) /\ Reported(p) = Reported(peer[e])
      /\ HasAckno(p) = HasAckno(peer[e])
  BY DEF Keeps, AckedBy, Reported, NextNumber, HasAckno
<1>2. ~HasAckno(peer[Server]) => ~HasAckno(peer[e])
  BY DEF Inv, Opening, Ends
<1>3. ~p.need_send /\ peer[e].sender.pushed = <<>>
  BY InvFacts DEF Settled, Keeps
<1>4. AckedBy(e, p) <= p.sender.absolute_seqno /\ Reported(peer[e]) <= Reported(p)
  BY <1>1, InvFacts DEF Keeps
<1>5. ~HasAckno(peer[Server]) =>
          /\ Quiet(p) /\ p.sender.in_flight = peer[e].sender.in_flight
          /\ p.sender.syn_sent = peer[e].sender.syn_sent
  BY <1>1, <1>2, <1>3 DEF Quiet
<1>6. Handled(e, 0, p)
  BY <1>1, <1>3, <1>4, <1>5, InvFacts DEF Handled, Keeps
<1>7. ~overtaken => HandledInOrder(e, 0, p)
  BY <1>1, InvFacts DEF HandledInOrder, Keeps
<1>. QED BY <1>6, <1>7

LEMMA HeldWhenPushed ==
    ASSUME NEW e \in Ends, NEW p, Sound(e, p), NEW q, q.sender.absolute_seqno \in Nat,
           Pushes(e, p.sender, [s |-> q.sender, stream |-> q.outbound]), Held(e, p)
    PROVE  Held(e, q)
<1>. DEFINE r == [s |-> q.sender, stream |-> q.outbound]
<1>1. Pushes(e, p.sender, r) /\ r.s = q.sender
  OBVIOUS
<1>. HIDE DEF r
<1>2. /\ q.sender.ackno = p.sender.ackno /\ q.sender.in_flight = p.sender.in_flight
      /\ Queued(p.sender.pushed) \subseteq Queued(q.sender.pushed)
      /\ \A x \in Nat : p.sender.absolute_seqno <= x /\ x < q.sender.absolute_seqno =>
             \E m \in Queued(q.sender.pushed) : Includes(e, m, x)
  BY <1>1 DEF Pushes
<1>3. SUFFICES ASSUME NEW n \in Nat, AckedBy(e, q) <= n, n < q.sender.absolute_seqno
               PROVE  \E m \in Queued(q.sender.in_flight) \cup Queued(q.sender.pushed) :
                          Includes(e, m, n)
  BY DEF Held
<1>4. AckedBy(e, p) = AckedBy(e, q)
  BY <1>2 DEF AckedBy
<1>5. CASE n < p.sender.absolute_seqno
  <2>1. PICK m \in Queued(p.sender.in_flight) \cup Queued(p.sender.pushed) : Includes(e, m, n)
    BY <1>3, <1>4, <1>5 DEF Held
  <2>. QED BY <1>2, <2>1
<1>6. CASE ~(n < p.sender.absolute_seqno)
  <2>1. p.sender.absolute_seqno \in Nat
    BY SoundFacts
  <2>2. p.sender.absolute_seqno <= n
    BY <1>6, <2>1
  <2>. QED BY <1>2, <1>3, <2>2
<1>. QED BY <1>5, <1>6

\* The application has changed the outbound stream.
LEMMA WrittenIsSound ==
    ASSUME Inv, NEW e \in Ends, started[e], ~peer[e].outbound.closed,
           NEW out \in Streams, ~out.error, out.popped = peer[e].outbound.popped,
           out.pushed <= Total(e), out.closed => out.pushed = Total(e),
           NEW r, r = peer[e], NEW w, w = [r EXCEPT !.outbound = out]
    PROVE  /\ Sound(e, w) /\ w.sender = r.sender /\ w.outbound = out /\ w.receiver = r.receiver
           /\ w.reassembler = r.reassembler /\ w.inbound = r.inbound /\ w.need_send = r.need_send
<1>1. /\ Sound(e, r) /\ r.sender.syn_sent
      /\ r \in Peers(Total(e), Isn(Other(e)), Total(Other(e)))
      /\ Sending(e, r.sender, r.outbound)
  BY InvFacts, SoundFacts DEF Sound
<1>2. /\ w.sender = r.sender /\ w.outbound = out /\ w.receiver = r.receiver
      /\ w.reassembler = r.reassembler /\ w.inbound = r.inbound /\ w.need_send = r.need_send
  BY <1>1 DEF Peers
<1>3. Counts(r.sender, out, Total(e))
  <2>1. Counts(r.sender, r.outbound, Total(e)) /\ r.outbound.popped = out.popped
    BY <1>1 DEF Sending
  <2>. QED BY <2>1 DEF Counts
<1>4. w \in Peers(Total(e), Isn(Other(e)), Total(Other(e)))
  BY <1>1, <1>2, <1>3 DEF Peers
<1>5. Sending(e, r.sender, out)
  <2>1. ~r.sender.fin_sent
    BY <1>1 DEF Sending, IsFinished
  <2>. QED BY <1>1, <1>3, <2>1 DEF Sending
<1>. QED BY <1>1, <1>2, <1>4, <1>5 DEF Sound, Receiving

\* And it is pushed.
LEMMA WritingIsHandled ==
    ASSUME Inv, NEW e \in Ends, started[e], ~peer[e].outbound.closed,
           NEW out \in Streams, ~out.error, out.popped = peer[e].outbound.popped,
           out.pushed <= Total(e), out.closed => out.pushed = Total(e),
           NEW p, p = PeerPush([peer[e] EXCEPT !.outbound = out])
    PROVE  Handled(e, 0, p) /\ (~overtaken => HandledInOrder(e, 0, p))
<1>. DEFINE r == peer[e]   w == [r EXCEPT !.outbound = out]
<1>1. HasAckno(peer[Server])
  BY InvFacts
<1>2. /\ Sound(e, w) /\ w.sender = r.sender /\ w.outbound = out /\ w.receiver = r.receiver
      /\ w.reassembler = r.reassembler /\ w.inbound = r.inbound /\ w.need_send = r.need_send
  BY WrittenIsSound
<1>. HIDE DEF r, w
<1>. DEFINE moved == [s |-> p.sender, stream |-> p.outbound]
<1>3. /\ Sound(e, p) /\ OnlySends(w, p) /\ p.need_send = w.need_send
      /\ Pushes(e, w.sender, moved)
  <2>1. p = PeerPush(w)
    BY DEF w, r
  <2>2. /\ Sound(e, p) /\ OnlySends(w, p) /\ p.need_send = w.need_send
        /\ p.sender.retransmit = w.sender.retransmit
        /\ Pushes(e, w.sender, [s |-> p.sender, stream |-> p.outbound])
    BY <1>2, <2>1, PeerPushIsSound
  <2>. QED BY <2>2
<1>4. moved.s = p.sender /\ moved.stream = p.outbound
  OBVIOUS
<1>5. p.sender.absolute_seqno \in Nat
  BY <1>3, SoundFacts
<1>6. Held(e, r) => Held(e, p)
  <2>1. Held(e, r) => Held(e, w)
    BY <1>2 DEF Held, AckedBy
  <2>. QED BY <1>2, <1>3, <1>5, <2>1, HeldWhenPushed
<1>. HIDE DEF moved
<1>7. Keeps(e, r, p)
  BY <1>2, <1>3, <1>4, <1>5, <1>6 DEF Keeps, Pushes, OnlySends
<1>. QED BY <1>1, <1>3, <1>7, KeepingIsHandled DEF r

LEMMA WriteIsSound ==
    ASSUME Inv, NEW e \in Ends, Write(e)
    PROVE  Inv'
<1>. DEFINE out == peer[e].outbound   free == AvailableCapacity(out)
<1>1. /\ started[e] /\ ~out.closed /\ overtaken' = overtaken
      /\ \E n \in 1 .. MinOf(Total(e) - out.pushed, free) :
            GoesOn(e, 0, PeerPush([peer[e] EXCEPT
                                      !.outbound = WriterPush(out, [i \in 1 .. n |-> out.pushed + i - 1])]))
  BY DEF Write
<1>2. PICK n \in 1 .. MinOf(Total(e) - out.pushed, free) :
          GoesOn(e, 0, PeerPush([peer[e] EXCEPT
                                    !.outbound = WriterPush(out, [i \in 1 .. n |-> out.pushed + i - 1])]))
  BY <1>1
<1>3. /\ out \in Streams /\ ~out.error
      /\ out.pushed \in Nat /\ out.pushed <= Total(e) /\ Total(e) \in Nat
      /\ out.size \in Nat /\ out.capacity \in Nat /\ out.size <= out.capacity
  <2>1. Sound(e, peer[e])
    BY InvFacts
  <2>2. out \in Streams /\ ~out.error /\ Counts(peer[e].sender, out, Total(e))
    BY <2>1 DEF Sound, Sending
  <2>. QED BY <2>2, EndFacts DEF Streams, Counts
<1>4. n \in Nat /\ n <= Total(e) - out.pushed /\ n <= out.capacity - out.size
  BY <1>3 DEF MinOf, AvailableCapacity
<1>. DEFINE bytes == [i \in 1 .. n |-> out.pushed + i - 1]
            w == WriterPush(out, bytes)
<1>. HIDE DEF out, free
<1>5. bytes \in Seq(Int) /\ Len(bytes) = n
  <2>1. bytes \in [1 .. n -> Int]
    BY <1>3
  <2>. QED BY <1>4, <2>1
<1>. HIDE DEF bytes
<1>6. /\ w \in Streams /\ w.pushed = out.pushed + MinOf(out.capacity - out.size, Len(bytes))
      /\ w.popped = out.popped /\ w.closed = out.closed /\ w.error = out.error
  BY <1>3, <1>5, PushStream
<1>. HIDE DEF w
<1>7. w.pushed <= Total(e)
  BY <1>3, <1>4, <1>5, <1>6 DEF MinOf
<1>. DEFINE p == PeerPush([peer[e] EXCEPT !.outbound = w])
<1>8. Handled(e, 0, p) /\ (~overtaken => HandledInOrder(e, 0, p))
  BY <1>1, <1>3, <1>6, <1>7, WritingIsHandled DEF out
<1>9. GoesOn(e, 0, p)
  BY <1>2 DEF w, bytes
<1>. HIDE DEF p
<1>10. overtaken' \in BOOLEAN
  BY <1>1 DEF Inv, Shape
<1>. QED BY <1>1, <1>8, <1>9, <1>10, GoesOnIsSound

LEMMA ShutdownIsSound ==
    ASSUME Inv, NEW e \in Ends, Shutdown(e)
    PROVE  Inv'
<1>. DEFINE out == peer[e].outbound   w == WriterClose(out)
            p == PeerPush([peer[e] EXCEPT !.outbound = w])
<1>1. /\ started[e] /\ ~out.closed /\ out.pushed = Total(e) /\ overtaken' = overtaken
      /\ GoesOn(e, 0, p)
  BY DEF Shutdown
<1>2. out \in Streams /\ ~out.error
  BY InvFacts DEF Sound, Sending
<1>3. /\ w \in Streams /\ w.closed /\ w.pushed = out.pushed /\ w.popped = out.popped
      /\ w.error = out.error
  BY <1>2, CloseStream
<1>4. Total(e) \in Nat
  BY EndFacts
<1>. HIDE DEF w
<1>5. Handled(e, 0, p) /\ (~overtaken => HandledInOrder(e, 0, p))
  BY <1>1, <1>2, <1>3, <1>4, WritingIsHandled
<1>. HIDE DEF p
<1>6. overtaken' \in BOOLEAN
  BY <1>1 DEF Inv, Shape
<1>. QED BY <1>1, <1>5, <1>6, GoesOnIsSound

\* The application has read n bytes.
LEMMA ReadingIsHandled ==
    ASSUME Inv, NEW e \in Ends, NEW n \in Nat, NEW in, in = peer[e].inbound,
           NEW p, p = [peer[e] EXCEPT !.inbound = ReaderPop(in, n)]
    PROVE  Handled(e, 0, p) /\ (~overtaken => HandledInOrder(e, 0, p))
<1>. DEFINE r == peer[e]
<1>1. /\ Sound(e, r) /\ r \in Peers(Total(e), Isn(Other(e)), Total(Other(e)))
      /\ in \in Inbounds(Total(Other(e))) /\ in \in Streams /\ in = r.inbound
  BY InvFacts, SoundFacts DEF Inbounds
<1>. DEFINE new == ReaderPop(in, n)
<1>2. p = [r EXCEPT !.inbound = new]
  OBVIOUS
<1>. HIDE DEF r
<1>3. /\ new \in Streams /\ new.pushed = in.pushed /\ new.closed = in.closed /\ new.error = in.error
      /\ new.capacity = in.capacity
  BY <1>1, PopStream
<1>. HIDE DEF new
<1>4. new \in Inbounds(Total(Other(e)))
  BY <1>1, <1>3 DEF Inbounds
<1>5. /\ p.sender = r.sender /\ p.outbound = r.outbound /\ p.receiver = r.receiver
      /\ p.reassembler = r.reassembler /\ p.inbound = new /\ p.need_send = r.need_send
  BY <1>1, <1>2 DEF Peers
<1>6. Sound(e, p)
  <2>1. p \in Peers(Total(e), Isn(Other(e)), Total(Other(e)))
    BY <1>1, <1>2, <1>4, <1>5 DEF Peers
  <2>. QED BY <1>1, <1>3, <1>5, <2>1 DEF Sound, Receiving
<1>7. Keeps(e, r, p)
  <2>1. p.sender.absolute_seqno \in Nat
    BY <1>6, SoundFacts
  <2>. QED BY <1>1, <1>3, <1>5, <2>1 DEF Keeps, Held, AckedBy
<1>. QED BY <1>5, <1>6, <1>7, KeepingIsHandled DEF r

LEMMA ReadIsSound ==
    ASSUME Inv, NEW e \in Ends, Read(e)
    PROVE  Inv'
<1>. DEFINE in == peer[e].inbound
<1>1. overtaken' = overtaken
      /\ \E n \in 1 .. Len(Peek(in)) : GoesOn(e, 0, [peer[e] EXCEPT !.inbound = ReaderPop(in, n)])
  BY DEF Read
<1>2. PICK n \in 1 .. Len(Peek(in)) : GoesOn(e, 0, [peer[e] EXCEPT !.inbound = ReaderPop(in, n)])
  BY <1>1
<1>. DEFINE p == [peer[e] EXCEPT !.inbound = ReaderPop(in, n)]
<1>3. n \in Nat
  OBVIOUS
<1>4. Handled(e, 0, p) /\ (~overtaken => HandledInOrder(e, 0, p))
  BY <1>3, ReadingIsHandled
<1>5. GoesOn(e, 0, p)
  BY <1>2
<1>. HIDE DEF p
<1>6. overtaken' \in BOOLEAN
  BY <1>1 DEF Inv, Shape
<1>. QED BY <1>1, <1>4, <1>5, <1>6, GoesOnIsSound

\* tick touches nothing but the timer and what it decides.
LEMMA TickIsSound ==
    ASSUME NEW e \in Ends, NEW r, Sound(e, r), NEW ms \in Nat, NEW p, p = PeerTick(r, ms)
    PROVE  /\ Sound(e, p) /\ Keeps(e, r, p)
           /\ p.sender.in_flight = r.sender.in_flight
           /\ p.sender.syn_sent = r.sender.syn_sent
           /\ p.sender.pushed = r.sender.pushed
<1>. DEFINE s == r.sender   t == SenderTick(s, ms)
<1>1. /\ r \in Peers(Total(e), Isn(Other(e)), Total(Other(e))) /\ s \in Senders
      /\ Sending(e, s, r.outbound) /\ Receiving(r)
  BY SoundFacts DEF Sound
<1>2. /\ t.isn = s.isn /\ t.ackno = s.ackno /\ t.window_size = s.window_size
      /\ t.pushed = s.pushed /\ t.in_flight = s.in_flight
      /\ t.syn_sent = s.syn_sent /\ t.fin_sent = s.fin_sent
      /\ t.absolute_seqno = s.absolute_seqno
  <2>. DEFINE timer == Elapse(s.timer, ms)
              again == s.retransmit \/ s.in_flight # <<>>
              rto == IF s.dont_back_off THEN s.rto ELSE 2 * s.rto
              count == s.retransmissions + 1
              start == Started(rto)
  <2>1. t = [s EXCEPT !.timer = timer]
        \/ t = [s EXCEPT !.retransmit = again, !.rto = rto,
                         !.retransmissions = count, !.timer = start]
    <3>1. t = IF ~IsExpired(timer) THEN [s EXCEPT !.timer = timer]
              ELSE [s EXCEPT !.retransmit = again, !.rto = rto,
                             !.retransmissions = count, !.timer = start]
      <4>1. {"retransmit", "retransmissions"} \subseteq DOMAIN s
        BY <1>1 DEF Senders
      <4>. QED BY <4>1 DEF SenderTick
    <3>. HIDE DEF t, timer, again, rto, count, start
    <3>. QED BY <3>1
  <2>. HIDE DEF t, timer, again, rto, count, start
  <2>2. DOMAIN s = {"isn", "rto", "timer", "ackno", "window_size", "pushed", "in_flight",
             "retransmissions", "syn_sent", "fin_sent", "absolute_seqno", "retransmit",
             "dont_back_off"}
    BY <1>1 DEF Senders
  <2>. HIDE DEF s
  <2>. QED BY <2>1, <2>2
<1>3. /\ p \in Peers(Total(e), Isn(Other(e)), Total(Other(e))) /\ OnlySends(r, p)
  BY <1>1, PeerConstants, PeerTicks
<1>4. p.sender = t /\ p.outbound = r.outbound /\ p.need_send = r.need_send
  BY <1>1 DEF PeerTick, Peers
<1>. HIDE DEF t, s
<1>5. t \in Senders /\ Counts(t, r.outbound, Total(e))
  BY <1>3, <1>4 DEF Peers
<1>6. Sending(e, t, r.outbound)
  BY <1>1, <1>2, <1>5 DEF Sending, Untouched
<1>7. Sound(e, p)
  BY <1>1, <1>3, <1>4, <1>6 DEF Sound, Receiving, OnlySends
<1>8. Keeps(e, r, p)
  <2>1. p.sender.absolute_seqno \in Nat
    BY <1>7, SoundFacts
  <2>2. Held(e, r) => Held(e, p)
    BY <1>2, <1>4 DEF Held, AckedBy, s
  <2>. QED BY <1>2, <1>3, <1>4, <2>1, <2>2 DEF Keeps, OnlySends, s
<1>. QED BY <1>2, <1>4, <1>7, <1>8 DEF s

LEMMA TimeoutIsSound ==
    ASSUME Inv, NEW e \in Ends, Timeout(e)
    PROVE  Inv'
<1>. DEFINE ms == peer[e].sender.timer.left   p == PeerTick(peer[e], ms)
<1>1. overtaken' = overtaken /\ GoesOn(e, 0, p)
  BY DEF Timeout
<1>2. Sound(e, peer[e])
  BY InvFacts
<1>3. ms \in Nat
  <2>1. peer[e].sender \in Senders
    BY <1>2, SoundFacts
  <2>. QED BY <2>1 DEF Senders
<1>. HIDE DEF p, ms
<1>4. /\ Sound(e, p) /\ Keeps(e, peer[e], p)
      /\ p.sender.in_flight = peer[e].sender.in_flight
      /\ p.sender.syn_sent = peer[e].sender.syn_sent
      /\ p.sender.pushed = peer[e].sender.pushed
  BY <1>2, <1>3, TickIsSound DEF p
<1>5. Handled(e, 0, p) /\ (~overtaken => HandledInOrder(e, 0, p))
  BY <1>4, KeepingIsHandled
<1>6. overtaken' \in BOOLEAN
  BY <1>1 DEF Inv, Shape
<1>. QED BY <1>1, <1>5, <1>6, GoesOnIsSound

-----------------------------------------------------------------------------
(* A segment arrives *)

LEMMA SenderReceiveIsSound ==
    ASSUME NEW e \in Ends, NEW s, NEW out, Sending(e, s, out), ~s.retransmit,
           NEW raw \in Raw, NEW window \in Nat, NEW r, r = SenderReceive(s, raw, window)
    PROVE  /\ Sending(e, r, out)
           /\ r.syn_sent = s.syn_sent /\ r.fin_sent = s.fin_sent
           /\ r.absolute_seqno = s.absolute_seqno /\ r.pushed = s.pushed
           /\ \/ r = s
              \/ /\ r.ackno = raw /\ r.in_flight = Unacknowledged(s, raw)
                 /\ RawOffset(raw, Isn(e)) <= s.absolute_seqno
<1>. DEFINE left == Unacknowledged(s, raw)
            new == Absolute(s, s.ackno) < Absolute(s, raw)
            timer == IF left = <<>> THEN Stopped
                     ELSE IF new THEN Started(InitialRTO) ELSE s.timer
            room == IF window > 0 THEN window ELSE 1
            rto == TimeoutAfterAck(s, new)
            count == IF new THEN 0 ELSE s.retransmissions
            none == (window = 0)
            t == [s EXCEPT !.ackno = raw, !.window_size = room, !.dont_back_off = none,
                           !.in_flight = left, !.timer = timer, !.rto = rto,
                           !.retransmissions = count]
<1>1. /\ s \in Senders /\ out \in Streams /\ Counts(s, out, Total(e)) /\ s.isn = Isn(e)
      /\ s.in_flight \in Seq(Own(e)) /\ IsSequence(s.in_flight)
  <2>1. /\ s \in Senders /\ out \in Streams /\ Counts(s, out, Total(e)) /\ s.isn = Isn(e)
        /\ s.in_flight \in Seq(Own(e))
    BY DEF Sending
  <2>. QED BY <2>1, SeqIsSequence
<1>2. DOMAIN s = {"isn", "rto", "timer", "ackno", "window_size", "pushed", "in_flight",
             "retransmissions", "syn_sent", "fin_sent", "absolute_seqno", "retransmit",
             "dont_back_off"}
  BY <1>1 DEF Senders
<1>3. r = IF Absolute(s, raw) > s.absolute_seqno THEN s ELSE t
  BY <1>2 DEF SenderReceive
<1>4. CASE Absolute(s, raw) > s.absolute_seqno
  <2>1. r = s
    BY <1>3, <1>4
  <2>. QED BY <2>1
<1>5. CASE ~(Absolute(s, raw) > s.absolute_seqno)
  <2>1. r = t
    BY <1>3, <1>5
  <2>2. r \in Senders /\ Counts(r, out, Total(e))
    <3>. DEFINE total == Total(e)
    <3>1. total \in Nat /\ total + 2 < Mod64
      BY EndFacts
    <3>2. Counts(s, out, total)
      BY <1>1
    <3>. HIDE DEF total
    <3>3. r \in Senders /\ ~r.retransmit /\ Counts(r, out, total)
      BY <1>1, <3>1, <3>2, SenderReceives
    <3>. QED BY <3>3 DEF total
  <2>3. left \in Seq(Own(e)) /\ Queued(left) \subseteq Queued(s.in_flight)
    <3>1. Queued(left) \subseteq Queued(s.in_flight)
      BY <1>1, QueuedUnacknowledged
    <3>2. Queued(s.in_flight) \subseteq Own(e)
      BY <1>1 DEF Queued
    <3>3. left \in Seq(Messages)
      BY <1>1, LeftInFlight
    <3>. HIDE DEF left
    <3>. QED BY <3>1, <3>2, <3>3, SeqOfQueued
  <2>4. room >= 1
    OBVIOUS
  <2>. HIDE DEF left, timer, room, rto, count, none
  <2>5. /\ t.isn = s.isn /\ t.ackno = raw /\ t.window_size = room
        /\ t.pushed = s.pushed /\ t.in_flight = left
        /\ t.syn_sent = s.syn_sent /\ t.fin_sent = s.fin_sent
        /\ t.absolute_seqno = s.absolute_seqno
    BY <1>2
  <2>. HIDE DEF t
  <2>6. ~t.syn_sent => Untouched(t, out)
    <3>1. SUFFICES ASSUME ~s.syn_sent PROVE Untouched(t, out)
      BY <2>5
    <3>2. Untouched(s, out)
      BY <3>1 DEF Sending
    <3>3. Queued(left) = {}
      BY <2>3, <3>2 DEF Untouched, Queued
    <3>4. left = <<>>
      BY <2>3, <3>3, NonemptyHasFirst
    <3>. QED BY <2>5, <3>2, <3>4 DEF Untouched
  <2>7. \A m \in Queued(t.in_flight) \cup Queued(t.pushed) : m.FIN => t.fin_sent
    BY <2>3, <2>5 DEF Sending
  <2>8. t.pushed \in Seq(Own(e)) /\ (out.closed => out.pushed = Total(e)) /\ ~out.error
        /\ (t.fin_sent => IsFinished(out))
    BY <2>5 DEF Sending
  <2>9. Sending(e, t, out)
    BY <1>1, <2>1, <2>2, <2>3, <2>4, <2>5, <2>6, <2>7, <2>8 DEF Sending
  <2>10. RawOffset(raw, Isn(e)) <= s.absolute_seqno
    <3>1. Absolute(s, raw) = RawOffset(raw, Isn(e)) /\ s.absolute_seqno \in Nat
      BY <1>1, NumbersOfEnd
    <3>2. RawOffset(raw, Isn(e)) \in Nat
      BY EndFacts, OffsetIsRaw, Modulus DEF Raw
    <3>. QED BY <1>5, <3>1, <3>2
  <2>. QED BY <2>1, <2>5, <2>9, <2>10 DEF left
<1>. QED BY <1>4, <1>5

\* A segment acknowledged in part stays in the queue.
LEMMA HeldWhenAcknowledged ==
    ASSUME NEW e \in Ends, NEW p, Sound(e, p), Held(e, p), NEW raw \in Raw,
           AckedBy(e, p) <= RawOffset(raw, Isn(e)),
           NEW q, q.sender.ackno = raw, q.sender.in_flight = Unacknowledged(p.sender, raw),
           q.sender.pushed = p.sender.pushed,
           q.sender.absolute_seqno = p.sender.absolute_seqno
    PROVE  Held(e, q)
<1>. DEFINE s == p.sender   a == RawOffset(raw, Isn(e))
<1>1. /\ s \in Senders /\ Counts(s, p.outbound, Total(e)) /\ p.outbound \in Streams /\ s.isn = Isn(e)
      /\ IsSequence(s.in_flight) /\ s.in_flight \in Seq(Own(e)) /\ s.pushed \in Seq(Own(e))
      /\ AckedBy(e, p) \in Nat
  BY SoundFacts, ReportedIsNat
<1>2. \A x \in Raw : Absolute(s, x) = RawOffset(x, Isn(e))
  BY <1>1, NumbersOfEnd
<1>3. a \in Nat
  BY EndFacts, OffsetIsRaw, Modulus DEF Raw
<1>4. SUFFICES ASSUME NEW n \in Nat, a <= n, n < s.absolute_seqno
               PROVE  \E m \in Queued(q.sender.in_flight) \cup Queued(q.sender.pushed) :
                          Includes(e, m, n)
  BY DEF Held, AckedBy
<1>5. PICK m \in Queued(s.in_flight) \cup Queued(s.pushed) : Includes(e, m, n)
  <2>1. AckedBy(e, p) <= n
    BY <1>1, <1>3, <1>4
  <2>. QED BY <1>4, <2>1 DEF Held
<1>6. CASE m \in Queued(s.in_flight)
  <2>1. m \in Messages
    BY <1>1, <1>6 DEF Queued, Own
  <2>2. Absolute(s, m.seqno) = Place(e, m) /\ Place(e, m) \in Nat /\ SequenceLength(m) \in Nat
    <3>1. m.seqno \in Raw /\ m.payload \in Seq(Int)
      BY <2>1 DEF Messages
    <3>2. Bit(m.SYN) \in Nat /\ Bit(m.FIN) \in Nat
      <4>1. Bit(m.SYN) \in {0, 1} /\ Bit(m.FIN) \in {0, 1}
        BY BitValues
      <4>. QED BY <4>1
    <3>3. Len(m.payload) \in Nat
      BY <3>1
    <3>4. SequenceLength(m) \in Nat
      BY <3>2, <3>3 DEF SequenceLength
    <3>5. Place(e, m) \in Nat
      <4>1. Place(e, m) \in Raw
        BY <3>1, EndFacts, OffsetIsRaw DEF Place
      <4>. QED BY <4>1, Modulus DEF Raw
    <3>. QED BY <1>2, <3>1, <3>4, <3>5 DEF Place
  <2>3. Absolute(s, m.seqno) + SequenceLength(m) > Absolute(s, raw)
    <3>1. Absolute(s, raw) = a
      BY <1>2
    <3>2. Place(e, m) + SequenceLength(m) > a
      BY <1>3, <1>4, <1>5, <2>2 DEF Includes
    <3>. QED BY <2>2, <3>1, <3>2
  <2>4. m \in Queued(Unacknowledged(s, raw))
    BY <1>1, <1>6, <2>3, QueuedUnacknowledged
  <2>. QED BY <1>5, <2>4
<1>7. CASE m \in Queued(s.pushed)
  BY <1>5, <1>7
<1>. QED BY <1>5, <1>6, <1>7

\* What a peer makes of a segment from the other end.
Hears(e, p, m, q) ==
    /\ Sound(e, q)
    /\ HasAckno(q) = (HasAckno(p) \/ m.SYN)
    /\ Reported(p) <= Reported(q)
    /\ q.sender.syn_sent = p.sender.syn_sent /\ q.sender.fin_sent = p.sender.fin_sent
    /\ q.sender.absolute_seqno = p.sender.absolute_seqno /\ q.sender.pushed = p.sender.pushed
    /\ q.reassembler.last_received => p.reassembler.last_received \/ m.FIN
    /\ \/ q.sender = p.sender
       \/ /\ q.sender.ackno = m.ackno /\ q.sender.in_flight = Unacknowledged(p.sender, m.ackno)
          /\ RawOffset(m.ackno, Isn(e)) <= p.sender.absolute_seqno

LEMMA HearingIsSound ==
    ASSUME NEW e \in Ends, NEW p, Sound(e, p), ~p.sender.retransmit,
           NEW m \in SegmentsFrom(Other(e)), NEW q, q = PeerReceive(p, m)
    PROVE  Hears(e, p, m, q)
<1>. DEFINE zero == Isn(Other(e))   total == Total(Other(e))
            side == ReceivingSide(q)
<1>1. /\ m \in [seqno : Raw, SYN : BOOLEAN, payload : Seq(Int), FIN : BOOLEAN,
                ACK : BOOLEAN, ackno : Raw, window : Nat, RST : {FALSE}]
      /\ InStream(Other(e), m)
  BY DEF SegmentsFrom
<1>2. m \in IncomingSegments(zero, total) /\ ~m.RST /\ m.ackno \in Raw /\ m.window \in Nat
  BY <1>1 DEF IncomingSegments, InStream, Place
<1>3. /\ p \in Peers(Total(e), zero, total) /\ Sending(e, p.sender, p.outbound)
      /\ ~p.inbound.error
      /\ p.inbound.closed => p.receiver.syn_recv /\ p.reassembler.last_received
      /\ p.receiver \in Receivers(zero) /\ p.inbound \in Inbounds(total)
  BY SoundFacts DEF Sound, Receiving
<1>4. /\ Total(e) \in Nat /\ Total(e) + 2 < Mod64
      /\ zero \in Raw /\ total \in Nat /\ 2 * (total + 2) < Mod32
  BY PeerConstants
<1>. DEFINE sent == Total(e)
<1>5. p \in Peers(sent, zero, total) /\ sent \in Nat /\ sent + 2 < Mod64
  BY <1>3, <1>4
<1>. HIDE DEF zero, total, sent
<1>6. /\ q \in Peers(sent, zero, total) /\ Receives(p, q) /\ ~q.sender.retransmit
      /\ q.sender = SenderReceive(p.sender, m.ackno, m.window)
      /\ Takes(total, p.receiver, p.reassembler, p.inbound, m, side)
  BY <1>2, <1>3, <1>4, <1>5, PeerReceives
<1>7. side.rcv = q.receiver /\ side.rea = q.reassembler /\ side.in = q.inbound
  BY DEF ReceivingSide
<1>. HIDE DEF side
<1>8. /\ q.receiver.syn_recv = (p.receiver.syn_recv \/ m.SYN)
      /\ Grows(total, p.inbound, q.inbound)
      /\ p.receiver.fin_recv => q.receiver.fin_recv
      /\ q.reassembler.last_received => p.reassembler.last_received \/ m.FIN
      /\ p.reassembler.last_received => q.reassembler.last_received
      /\ q.inbound.closed => p.inbound.closed \/ q.reassembler.last_received
      /\ ~q.receiver.syn_recv => q.inbound = p.inbound
  BY <1>6, <1>7 DEF Takes
<1>9. /\ Sending(e, q.sender, p.outbound)
      /\ q.sender.syn_sent = p.sender.syn_sent /\ q.sender.fin_sent = p.sender.fin_sent
      /\ q.sender.absolute_seqno = p.sender.absolute_seqno /\ q.sender.pushed = p.sender.pushed
      /\ \/ q.sender = p.sender
         \/ /\ q.sender.ackno = m.ackno /\ q.sender.in_flight = Unacknowledged(p.sender, m.ackno)
            /\ RawOffset(m.ackno, Isn(e)) <= p.sender.absolute_seqno
  BY <1>2, <1>3, <1>6, SenderReceiveIsSound
<1>10. Receiving(q)
  <2>1. ~q.inbound.error
    BY <1>3, <1>8 DEF Grows
  <2>2. q.inbound.closed => q.reassembler.last_received
    BY <1>3, <1>8
  <2>3. q.inbound.closed => q.receiver.syn_recv
    BY <1>3, <1>8
  <2>. QED BY <2>1, <2>2, <2>3 DEF Receiving
<1>11. Sound(e, q)
  <2>1. q.outbound = p.outbound
    BY <1>6 DEF Receives
  <2>2. q \in Peers(Total(e), Isn(Other(e)), Total(Other(e)))
    BY <1>6 DEF sent, zero, total
  <2>. QED BY <1>9, <1>10, <2>1, <2>2 DEF Sound
<1>12. Reported(p) <= Reported(q)
  <2>1. Reported(q) \in Nat
    BY <1>11, ReportedIsNat
  <2>2. CASE ~p.receiver.syn_recv
    BY <2>1, <2>2 DEF Reported
  <2>3. CASE p.receiver.syn_recv
    <3>1. q.receiver.syn_recv
      BY <1>8, <2>3
    <3>2. /\ q.inbound.pushed >= p.inbound.pushed
          /\ q.inbound.pushed \in Nat /\ p.inbound.pushed \in Nat
      <4>1. q.inbound \in Inbounds(total) /\ q.inbound.pushed >= p.inbound.pushed
        BY <1>8 DEF Grows
      <4>. QED BY <1>3, <4>1 DEF Inbounds, Streams
    <3>. DEFINE x == Bit(p.receiver.fin_recv /\ p.inbound.closed)
                y == Bit(q.receiver.fin_recv /\ q.inbound.closed)
    <3>3. x \in {0, 1} /\ y \in {0, 1}
      BY BitValues
    <3>4. x = 0 \/ y = 1
      <4>1. CASE p.receiver.fin_recv /\ p.inbound.closed
        <5>1. q.receiver.fin_recv /\ q.inbound.closed
          BY <1>8, <4>1 DEF Grows
        <5>. QED BY <5>1, BitValues
      <4>2. CASE ~(p.receiver.fin_recv /\ p.inbound.closed)
        BY <4>2, BitValues
      <4>. QED BY <4>1, <4>2
    <3>5. Reported(p) = p.inbound.pushed + 1 + x /\ Reported(q) = q.inbound.pushed + 1 + y
      BY <2>3, <3>1 DEF Reported, NextNumber
    <3>. HIDE DEF x, y
    <3>. QED BY <3>2, <3>3, <3>4, <3>5
  <2>. QED BY <2>2, <2>3
<1>13. HasAckno(q) = (HasAckno(p) \/ m.SYN)
  BY <1>8 DEF HasAckno
<1>. QED BY <1>8, <1>9, <1>11, <1>12, <1>13 DEF Hears

\* The ackno field is of what the other end has assembled, even without the ACK
\* flag, when it is ignored or says nothing.
LEMMA FieldIsReported ==
    ASSUME Inv, BareFieldIsIgnored, NEW e \in Ends, NEW m \in Queued(net[e]),
           RawOffset(m.ackno, Isn(e)) <= peer[e].sender.absolute_seqno
    PROVE  RawOffset(m.ackno, Isn(e)) = AckIn(e, m)
<1>1. m \in SegmentsFrom(Other(e))
  BY DEF Inv, WireInv, Queued
<1>2. CASE m.ACK
  BY <1>2 DEF AckIn
<1>3. CASE ~m.ACK
  <2>1. Other(e) = Client /\ m.ackno = 0
    BY <1>1, <1>3 DEF SegmentsFrom
  <2>2. e = Server
    BY <2>1, EndFacts DEF Ends
  <2>. DEFINE a == RawOffset(0, ServerISN)
  <2>3. Isn(e) = ServerISN /\ Total(e) = ServerTotal
    BY <2>2, EndFacts DEF Isn, Total, Client, Server
  <2>4. RawOffset(m.ackno, Isn(e)) = a
    BY <2>1, <2>3
  <2>5. a \in Nat
    <3>1. 0 \in Raw /\ ServerISN \in Raw
      BY ConnectionAssumption, Modulus DEF Raw
    <3>2. a \in Raw
      BY <3>1, OffsetIsRaw
    <3>. QED BY <3>2, Modulus DEF Raw
  <2>6. a <= ServerTotal + 2
    <3>1. /\ peer[e].sender \in Senders /\ peer[e].outbound \in Streams
          /\ Counts(peer[e].sender, peer[e].outbound, Total(e)) /\ peer[e].sender.isn = Isn(e)
      BY InvFacts, SoundFacts
    <3>2. peer[e].sender.absolute_seqno \in Nat /\ peer[e].sender.absolute_seqno <= Total(e) + 2
      BY <3>1, NumbersOfEnd
    <3>3. Total(e) \in Nat
      BY EndFacts
    <3>. HIDE DEF a
    <3>. QED BY <2>3, <2>4, <2>5, <3>2, <3>3
  <2>7. a \notin 1 .. ServerTotal + 2
    BY DEF BareFieldIsIgnored
  <2>. HIDE DEF a
  <2>8. a = 0
    BY <2>5, <2>6, <2>7, ConnectionAssumption
  <2>. QED BY <1>3, <2>4, <2>8 DEF AckIn
<1>. QED BY <1>2, <1>3

LEMMA ReceivingIsHandled ==
    ASSUME Inv, BareFieldIsIgnored, NEW e \in Ends, NEW k \in 1 .. Len(net[e]),
           NEW p, p = PeerReceive(peer[e], net[e][k])
    PROVE  Handled(e, k, p) /\ (~overtaken /\ k = 1 => HandledInOrder(e, k, p))
<1>. DEFINE r == peer[e]   m == net[e][k]   o == Other(e)
<1>1. /\ Sound(e, r) /\ Settled(r) /\ m \in Queued(net[e]) /\ m \in SegmentsFrom(o)
      /\ AckIn(e, m) <= Reported(peer[o]) /\ (m.FIN => peer[o].sender.fin_sent)
      /\ m.ackno \in Raw
  <2>1. /\ net[e] \in Seq(SegmentsFrom(o))
        /\ \A x \in Queued(net[e]) : /\ AckIn(e, x) <= Reported(peer[o])
                                     /\ x.FIN => peer[o].sender.fin_sent
    BY DEF Inv, WireInv
  <2>2. m \in Queued(net[e]) /\ m \in SegmentsFrom(o)
    BY <2>1 DEF Queued
  <2>3. m.ackno \in Raw
    BY <2>2 DEF SegmentsFrom
  <2>. QED BY <2>1, <2>2, <2>3, InvFacts
<1>2. Hears(e, r, m, p)
  <2>1. ~r.sender.retransmit
    BY <1>1 DEF Settled
  <2>. HIDE DEF r, m
  <2>2. p = PeerReceive(r, m)
    BY DEF r, m
  <2>. QED BY <1>1, <2>1, <2>2, HearingIsSound
<1>3. /\ Sound(e, p)
      /\ HasAckno(p) = (HasAckno(r) \/ m.SYN)
      /\ Reported(r) <= Reported(p)
      /\ p.sender.syn_sent = r.sender.syn_sent /\ p.sender.fin_sent = r.sender.fin_sent
      /\ p.sender.absolute_seqno = r.sender.absolute_seqno /\ p.sender.pushed = r.sender.pushed
      /\ p.reassembler.last_received => r.reassembler.last_received \/ m.FIN
      /\ \/ p.sender = r.sender
         \/ /\ p.sender.ackno = m.ackno /\ p.sender.in_flight = Unacknowledged(r.sender, m.ackno)
            /\ RawOffset(m.ackno, Isn(e)) <= r.sender.absolute_seqno
  BY <1>2 DEF Hears
<1>4. \/ p.sender = r.sender /\ AckedBy(e, p) = AckedBy(e, r)
      \/ /\ AckedBy(e, p) = AckIn(e, m)
         /\ p.sender.ackno = m.ackno /\ p.sender.in_flight = Unacknowledged(r.sender, m.ackno)
         /\ AckIn(e, m) <= r.sender.absolute_seqno /\ RawOffset(m.ackno, Isn(e)) = AckIn(e, m)
  <2>1. CASE p.sender = r.sender
    BY <2>1 DEF AckedBy
  <2>2. CASE /\ p.sender.ackno = m.ackno /\ p.sender.in_flight = Unacknowledged(r.sender, m.ackno)
             /\ RawOffset(m.ackno, Isn(e)) <= r.sender.absolute_seqno
    <3>1. RawOffset(m.ackno, Isn(e)) = AckIn(e, m)
      BY <1>1, <2>2, FieldIsReported
    <3>. QED BY <2>2, <3>1 DEF AckedBy
  <2>. QED BY <1>3, <2>1, <2>2
<1>5. /\ AckedBy(e, p) <= Reported(peer[o])
      /\ AckedBy(e, p) <= p.sender.absolute_seqno
  BY <1>1, <1>3, <1>4, InvFacts
<1>6. ~HasAckno(peer[Server]) => e = Server /\ HasAckno(p)
  <2>1. SUFFICES ASSUME ~HasAckno(peer[Server]) PROVE e = Server /\ HasAckno(p)
    OBVIOUS
  <2>2. net[Client] = <<>> /\ \A x \in Queued(net[Server]) : x.SYN
    BY <2>1 DEF Inv, Opening
  <2>3. e = Server
    BY <2>2 DEF Ends
  <2>4. m.SYN
    BY <1>1, <2>2, <2>3
  <2>. QED BY <1>3, <2>3, <2>4
<1>7. HasAckno(p) \/ p.sender.syn_sent
  <2>1. CASE e = Client
    BY <1>3, <2>1 DEF Inv, Opening
  <2>2. CASE e = Server
    BY <1>3, <1>6, <2>2
  <2>. QED BY <2>1, <2>2 DEF Ends
<1>8. p.reassembler.last_received => peer[o].sender.fin_sent
  BY <1>1, <1>3, InvFacts
<1>9. Handled(e, k, p)
  BY <1>3, <1>5, <1>6, <1>7, <1>8 DEF Handled
<1>10. ASSUME ~overtaken, k = 1 PROVE HandledInOrder(e, k, p)
  <2>1. Held(e, r) /\ InOrder(e)
    BY <1>10 DEF Inv, Orderly
  <2>2. AckedBy(e, r) <= AckIn(e, m)
    BY <1>1, <2>1 DEF InOrder, Ascends
  <2>3. Held(e, p)
    <3>1. CASE p.sender = r.sender
      BY <2>1, <3>1 DEF Held, AckedBy
    <3>2. CASE /\ p.sender.ackno = m.ackno /\ p.sender.in_flight = Unacknowledged(r.sender, m.ackno)
               /\ RawOffset(m.ackno, Isn(e)) = AckIn(e, m)
      <4>1. AckedBy(e, r) <= RawOffset(m.ackno, Isn(e))
        BY <2>2, <3>2
      <4>. HIDE DEF r, m
      <4>. QED BY <1>1, <1>3, <2>1, <3>2, <4>1, HeldWhenAcknowledged
    <3>. QED BY <1>4, <3>1, <3>2
  <2>4. AckedBy(e, p) = AckedBy(e, r) \/ AckedBy(e, p) = AckIn(e, net[e][1])
    BY <1>4, <1>10
  <2>. QED BY <1>10, <2>3, <2>4 DEF HandledInOrder
<1>. QED BY <1>9, <1>10

LEMMA ArriveIsSound ==
    ASSUME Inv, BareFieldIsIgnored, NEW e \in Ends, Arrive(e)
    PROVE  Inv'
<1>1. net[e] # <<>> /\ GoesOn(e, 1, PeerReceive(peer[e], net[e][1])) /\ overtaken' = overtaken
  BY DEF Arrive, Receive
<1>2. 1 \in 1 .. Len(net[e])
  <2>1. net[e] \in Seq(SegmentsFrom(Other(e)))
    BY DEF Inv, WireInv
  <2>. QED BY <1>1, <2>1
<1>. DEFINE p == PeerReceive(peer[e], net[e][1])
<1>3. Handled(e, 1, p) /\ (~overtaken => HandledInOrder(e, 1, p))
  BY <1>2, ReceivingIsHandled
<1>. HIDE DEF p
<1>4. overtaken' \in BOOLEAN
  BY <1>1 DEF Inv, Shape
<1>5. GoesOn(e, 1, p)
  BY <1>1 DEF p
<1>. QED BY <1>1, <1>2, <1>3, <1>4, <1>5, GoesOnIsSound

LEMMA OvertakeIsSound ==
    ASSUME Inv, BareFieldIsIgnored, NEW e \in Ends, Overtake(e)
    PROVE  Inv'
<1>1. overtaken' = TRUE /\ \E k \in 2 .. Len(net[e]) : GoesOn(e, k, PeerReceive(peer[e], net[e][k]))
  BY DEF Overtake, Receive
<1>2. PICK k \in 2 .. Len(net[e]) : GoesOn(e, k, PeerReceive(peer[e], net[e][k]))
  BY <1>1
<1>3. k \in Nat /\ k \in 1 .. Len(net[e])
  OBVIOUS
<1>. DEFINE p == PeerReceive(peer[e], net[e][k])
<1>4. Handled(e, k, p)
  BY <1>3, ReceivingIsHandled
<1>5. GoesOn(e, k, p)
  BY <1>2
<1>. HIDE DEF p
<1>. QED BY <1>1, <1>3, <1>4, <1>5, GoesOnIsSound

-----------------------------------------------------------------------------
(* Faults of the network *)

LEMMA NetworkKeepsInv ==
    ASSUME Inv, NEW e \in Ends, UNCHANGED <<peer, started, overtaken>>,
           NEW r \in Seq(SegmentsFrom(Other(e))), Queued(r) \subseteq Queued(net[e]),
           \A a : Ascends(e, net[e], a) => Ascends(e, r, a),
           net' = [net EXCEPT ![e] = r]
    PROVE  Inv'
<1>. DEFINE o == Other(e)
<1>1. o \in Ends /\ Other(o) = e /\ o # e /\ \A f \in Ends : f = e \/ f = o
  BY EndFacts DEF Ends, Other
<1>2. net = [f \in Ends |-> net[f]] /\ peer' = peer /\ started' = started /\ overtaken' = overtaken
  BY DEF Inv, Shape
<1>3. net'[e] = r /\ net'[o] = net[o] /\ net' = [f \in Ends |-> net'[f]]
  BY <1>1, <1>2
<1>4. /\ \A f \in Ends : /\ net'[f] \in Seq(SegmentsFrom(Other(f)))
                         /\ Queued(net'[f]) \subseteq Queued(net[f])
                         /\ \A a : Ascends(f, net[f], a) => Ascends(f, net'[f], a)
  <2>1. net[o] \in Seq(SegmentsFrom(Other(o)))
    BY <1>1 DEF Inv, WireInv
  <2>. QED BY <1>1, <1>3, <2>1
<1>5. Shape'
  BY <1>2, <1>3 DEF Inv, Shape
<1>6. ASSUME NEW f \in Ends PROVE PeerInv(f)' /\ WireInv(f)' /\ AckInv(f)' /\ Orderly(f)'
  <2>1. PeerInv(f) /\ WireInv(f) /\ AckInv(f) /\ Orderly(f)
    BY DEF Inv
  <2>2. PeerInv(f)' /\ AckInv(f)'
    BY <1>2, <2>1 DEF PeerInv, AckInv
  <2>3. WireInv(f)'
    BY <1>2, <1>4, <2>1 DEF WireInv
  <2>4. Orderly(f)'
    BY <1>2, <1>4, <2>1 DEF Orderly, InOrder
  <2>. QED BY <2>2, <2>3, <2>4
<1>7. Opening'
  <2>1. net[Client] = <<>> => net'[Client] = <<>>
    <3>1. SUFFICES ASSUME net[Client] = <<>> PROVE net'[Client] = <<>>
      OBVIOUS
    <3>2. Client \in Ends
      BY DEF Ends
    <3>3. Queued(net'[Client]) = {} /\ net'[Client] \in Seq(SegmentsFrom(Other(Client)))
      BY <1>4, <3>1, <3>2 DEF Queued
    <3>. QED BY <3>3, NonemptyHasFirst
  <2>2. Queued(net'[Server]) \subseteq Queued(net[Server])
    BY <1>4 DEF Ends
  <2>. QED BY <1>2, <2>1, <2>2 DEF Inv, Opening
<1>. QED BY <1>5, <1>6, <1>7 DEF Inv

LEMMA LoseIsSound ==
    ASSUME Inv, NEW e \in Ends, Lose(e)
    PROVE  Inv'
<1>1. /\ net[e] # <<>> /\ UNCHANGED <<peer, started, overtaken>>
      /\ net' = [net EXCEPT ![e] = Tail(net[e])]
  BY DEF Lose
<1>2. net[e] \in Seq(SegmentsFrom(Other(e)))
  BY DEF Inv, WireInv
<1>3. Tail(net[e]) \in Seq(SegmentsFrom(Other(e))) /\ Queued(Tail(net[e])) \subseteq Queued(net[e])
  <2>1. 1 \in 1 .. Len(net[e])
    BY <1>1, <1>2
  <2>2. RemoveAt(net[e], 1) = Tail(net[e])
    BY <1>2, <2>1, QueuedOfRemoved
  <2>. QED BY <1>2, <2>1, <2>2, QueuedOfRemoved
<1>4. \A a : Ascends(e, net[e], a) => Ascends(e, Tail(net[e]), a)
  BY <1>1, <1>2, AscendsTail
<1>. QED BY <1>1, <1>3, <1>4, NetworkKeepsInv

LEMMA RepeatIsSound ==
    ASSUME Inv, NEW e \in Ends, Repeat(e)
    PROVE  Inv'
<1>. DEFINE r == <<Head(net[e])>> \o net[e]
<1>1. /\ net[e] # <<>> /\ UNCHANGED <<peer, started, overtaken>>
      /\ net' = [net EXCEPT ![e] = r]
  BY DEF Repeat
<1>2. net[e] \in Seq(SegmentsFrom(Other(e)))
  BY DEF Inv, WireInv
<1>3. /\ r \in Seq(SegmentsFrom(Other(e))) /\ Queued(r) = Queued(net[e])
      /\ \A a : Ascends(e, net[e], a) => Ascends(e, r, a)
  BY <1>1, <1>2, AscendsRepeated
<1>. HIDE DEF r
<1>. QED BY <1>1, <1>3, NetworkKeepsInv

LEMMA StutterIsSound ==
    ASSUME Inv, UNCHANGED vars
    PROVE  Inv'
<1>1. peer' = peer /\ net' = net /\ started' = started /\ overtaken' = overtaken
  BY DEF vars
<1>2. Shape' /\ Opening'
  BY <1>1 DEF Inv, Shape, Opening
<1>3. ASSUME NEW f \in Ends PROVE PeerInv(f)' /\ WireInv(f)' /\ AckInv(f)' /\ Orderly(f)'
  BY <1>1 DEF Inv, PeerInv, WireInv, AckInv, Orderly, InOrder
<1>. QED BY <1>2, <1>3 DEF Inv

LEMMA NextKeepsInv ==
    ASSUME BareFieldIsIgnored, Inv, [Next]_vars
    PROVE  Inv'
<1>1. CASE Next
  <2>1. PICK e \in Ends : \/ Write(e) \/ Shutdown(e) \/ Read(e)
                          \/ Timeout(e) \/ Arrive(e)
                          \/ Overtake(e) \/ Lose(e) \/ Repeat(e)
    BY <1>1 DEF Next
  <2>. QED BY <2>1, WriteIsSound, ShutdownIsSound, ReadIsSound, TimeoutIsSound, ArriveIsSound,
              OvertakeIsSound, LoseIsSound, RepeatIsSound
<1>2. CASE UNCHANGED vars
  BY <1>2, StutterIsSound
<1>. QED BY <1>1, <1>2

-----------------------------------------------------------------------------
(* The beginning *)

LEMMA NewPeerIsSound ==
    ASSUME NEW e \in Ends, NEW p, p = NewPeer(Isn(e))
    PROVE  /\ Sound(e, p) /\ Settled(p) /\ Quiet(p)
           /\ ~p.sender.syn_sent /\ p.sender.in_flight = <<>> /\ p.outbound.size = 0
           /\ ~p.outbound.closed /\ p.inbound.pushed = 0 /\ ~p.reassembler.last_received
           /\ AckedBy(e, p) = 0 /\ Reported(p) = 0 /\ p.sender.absolute_seqno = 0
           /\ Held(e, p) /\ FinComes(p)
<1>. DEFINE s == NewSender(Isn(e))   out == NewByteStream(SendCapacity)
            zero == Isn(Other(e))   total == Total(Other(e))   sent == Total(e)
<1>1. /\ sent \in Nat /\ sent + 2 < Mod64
      /\ zero \in Raw /\ total \in Nat /\ 2 * (total + 2) < Mod32 /\ Isn(e) \in Raw
  BY PeerConstants, EndFacts
<1>. HIDE DEF zero, total, sent
<1>2. p \in Peers(sent, zero, total) /\ ~p.sender.retransmit
  BY <1>1, NewPeerType
<1>3. /\ p.sender = s /\ p.outbound = out /\ ~p.need_send /\ p.receiver = NewReceiver
      /\ p.reassembler = NewReassembler(RecvCapacity) /\ p.inbound = NewByteStream(RecvCapacity)
  BY DEF NewPeer
<1>4. /\ s.isn = Isn(e) /\ s.ackno = Isn(e) /\ s.window_size = 1 /\ s.pushed = <<>>
      /\ s.in_flight = <<>> /\ ~s.syn_sent /\ ~s.fin_sent /\ s.absolute_seqno = 0
      /\ ~s.retransmit
  BY DEF NewSender
<1>5. out.pushed = 0 /\ ~out.closed /\ ~out.error /\ out.size = 0
  BY DEF NewByteStream
<1>6. p.inbound.pushed = 0 /\ ~p.inbound.closed /\ ~p.inbound.error
  BY <1>3 DEF NewByteStream
<1>7. ~p.receiver.syn_recv /\ ~p.reassembler.last_received
  BY <1>3 DEF NewReceiver, NewReassembler
<1>. HIDE DEF s, out
<1>8. Sending(e, s, out)
  <2>1. s \in Senders /\ out \in Streams /\ Counts(s, out, Total(e))
    BY <1>2, <1>3 DEF Peers, sent
  <2>2. s.in_flight \in Seq(Own(e)) /\ s.pushed \in Seq(Own(e))
    BY <1>4, EmptySeq
  <2>3. Queued(s.in_flight) = {} /\ Queued(s.pushed) = {}
    BY <1>4 DEF Queued
  <2>. QED BY <1>4, <1>5, <2>1, <2>2, <2>3 DEF Sending, Untouched
<1>9. Sound(e, p)
  BY <1>2, <1>3, <1>6, <1>8 DEF Sound, Receiving, zero, total, sent
<1>10. Settled(p) /\ Quiet(p) /\ Reported(p) = 0 /\ FinComes(p)
  BY <1>3, <1>4, <1>7 DEF Settled, Quiet, Reported, HasAckno, FinComes
<1>11. AckedBy(e, p) = 0
  <2>1. RawOffset(Isn(e), Isn(e)) = 0
    BY <1>1, Modulus DEF RawOffset, Raw
  <2>. QED BY <1>3, <1>4, <2>1 DEF AckedBy
<1>12. Held(e, p)
  BY <1>3, <1>4 DEF Held
<1>. QED BY <1>3, <1>4, <1>5, <1>6, <1>7, <1>9, <1>10, <1>11, <1>12

\* connect: the client pushes a SYN, and sends it.
LEMMA ConnectSends ==
    ASSUME NEW c, c = CollectSegments(PeerPush(NewPeer(ClientISN)))
    PROVE  /\ Sound(Client, c.p) /\ Settled(c.p) /\ ~HasAckno(c.p) /\ c.p.sender.syn_sent
           /\ ~c.p.reassembler.last_received
           /\ AckedBy(Client, c.p) = 0 /\ Reported(c.p) = 0
           /\ Held(Client, c.p)
           /\ Len(c.p.sender.in_flight) = 1 /\ c.p.sender.in_flight[1].SYN
           /\ c.out \in Seq(SegmentsFrom(Client))
           /\ \A m \in Queued(c.out) :
                  m.SYN /\ AckIn(Server, m) = 0 /\ (m.FIN => c.p.sender.fin_sent)
<1>. DEFINE n == NewPeer(ClientISN)   p == PeerPush(n)   s == n.sender   out == n.outbound
            r == SenderPush(s, out)   made == Made(s, out, 0, FALSE)
<1>1. Client \in Ends /\ Isn(Client) = ClientISN /\ Other(Client) = Server
  BY DEF Ends, Isn, Other
<1>2. /\ Sound(Client, n) /\ Quiet(n)
      /\ ~s.syn_sent /\ s.in_flight = <<>> /\ out.size = 0
      /\ ~out.closed /\ ~n.reassembler.last_received
      /\ AckedBy(Client, n) = 0 /\ Reported(n) = 0 /\ s.absolute_seqno = 0
      /\ Held(Client, n)
  BY <1>1, NewPeerIsSound
<1>. HIDE DEF n
<1>3. /\ Sound(Client, p) /\ OnlySends(n, p) /\ p.need_send = n.need_send
      /\ p.sender.retransmit = s.retransmit
      /\ Pushes(Client, s, [s |-> p.sender, stream |-> p.outbound])
  BY <1>1, <1>2, PeerPushIsSound
<1>4. p.sender = r.s /\ s.pushed = <<>>
  BY <1>1, <1>2, SoundFacts DEF PeerPush, Pushed, Peers, Quiet
<1>5. p.sender.pushed = made
  <2>1. s \in Senders /\ out \in Streams /\ Counts(s, out, Total(Client))
    BY <1>1, <1>2, SoundFacts
  <2>2. PushBudget(s) \in Nat
    <3>. DEFINE total == Total(Client)
    <3>1. total \in Nat /\ total + 2 < Mod64 /\ Counts(s, out, total)
      BY <1>1, <2>1, EndFacts
    <3>. HIDE DEF total
    <3>. QED BY <2>1, <3>1, BudgetIsNat
  <2>3. MinOf(PushBudget(s), out.size) = 0
    BY <1>2, <2>2 DEF MinOf
  <2>4. ~ReaderPop(out, 0).closed
    BY <1>2, <2>1, PopStream
  <2>5. IsFinished(ReaderPop(out, 0)) = FALSE
    BY <2>4 DEF IsFinished
  <2>. DEFINE t == [s EXCEPT !.syn_sent = TRUE,
                             !.fin_sent = s.fin_sent \/ FALSE,
                             !.absolute_seqno = s.absolute_seqno + Bit(~s.syn_sent) + 0 + Bit(FALSE),
                             !.pushed = s.pushed \o made]
  <2>6. r.s = t
    <3>1. DOMAIN s = {"isn", "rto", "timer", "ackno", "window_size", "pushed", "in_flight",
             "retransmissions", "syn_sent", "fin_sent", "absolute_seqno", "retransmit",
             "dont_back_off"}
      BY <2>1 DEF Senders
    <3>. HIDE DEF s, out
    <3>. QED BY <1>2, <2>3, <2>5, <3>1 DEF SenderPush, Made
  <2>7. t.pushed = s.pushed \o made
    <3>1. "pushed" \in DOMAIN s
      BY <2>1 DEF Senders
    <3>. HIDE DEF made
    <3>. QED BY <3>1
  <2>8. made \in Seq(Messages)
    <3>1. ReadBytes(out, 0) \in Seq(Int)
      BY <2>1, BytesRead
    <3>. QED BY <2>1, <3>1, SegmentsType DEF Made
  <2>. HIDE DEF made, t
  <2>9. s.pushed \o made = made
    BY <1>4, <2>8
  <2>. QED BY <1>4, <2>6, <2>7, <2>9
<1>6. Len(made) = 1 /\ made[1].SYN
  <2>1. s \in Senders /\ out \in Streams /\ SoundStream(out)
    BY <1>1, <1>2, SoundFacts, StreamIsSound
  <2>2. CountOf(0) = 1
    BY DEF CountOf
  <2>3. Len(ReadBytes(out, 0)) = 0
    BY <1>2, <2>1, ReadLength
  <2>4. DOMAIN made = 1 .. 1 /\ made[1].SYN = ~s.syn_sent
    BY <2>3 DEF Made, Segments
  <2>5. made \in Seq(Messages)
    <3>1. ReadBytes(out, 0) \in Seq(Int)
      BY <2>1, BytesRead
    <3>. QED BY <2>1, <3>1, SegmentsType DEF Made
  <2>. HIDE DEF made
  <2>6. Len(made) = 1
    <3>1. DOMAIN made = 1 .. Len(made) /\ Len(made) \in Nat
      BY <2>5
    <3>2. 1 \in 1 .. Len(made) /\ ~(2 \in 1 .. Len(made))
      BY <2>4, <3>1
    <3>. QED BY <3>1, <3>2
  <2>. QED BY <1>2, <2>4, <2>6
<1>. DEFINE pushes == [s |-> p.sender, stream |-> p.outbound]
<1>. HIDE DEF p, s, out, r, made
<1>7. /\ ~HasAckno(p) /\ ~p.need_send /\ ~p.reassembler.last_received /\ Reported(p) = 0
  BY <1>2, <1>3 DEF OnlySends, HasAckno, Quiet, Reported
<1>8. p.sender.syn_sent /\ AckedBy(Client, p) = 0 /\ p.sender.in_flight = <<>>
  <2>1. pushes.s = p.sender /\ Pushes(Client, s, pushes)
    BY <1>3
  <2>. HIDE DEF pushes
  <2>2. p.sender.syn_sent /\ p.sender.ackno = s.ackno /\ p.sender.in_flight = s.in_flight
    BY <2>1 DEF Pushes
  <2>. QED BY <1>2, <2>2 DEF AckedBy, s
<1>9. Held(Client, p)
  <2>1. p.sender.absolute_seqno \in Nat
    BY <1>1, <1>3, SoundFacts
  <2>. QED BY <1>1, <1>2, <1>3, <2>1, HeldWhenPushed DEF s
<1>10. Collects(Client, p, c)
  <2>1. c = CollectSegments(p)
    BY DEF p, n
  <2>. QED BY <1>1, <1>3, <1>7, <2>1, CollectIsSound
<1>11. c = [p |-> AllSent(p),
            out |-> InSegments(p, MessagesToSend(p), ReceiverSend(p.receiver, p.inbound))]
  BY <1>7 DEF CollectSegments, SendAll, p, n
<1>12. Sends(Client, p, AllSent(p))
  BY <1>1, <1>3, AllSentIsSound
<1>13. p.sender.pushed \in Seq(Own(Client)) /\ ~s.retransmit
  <2>1. s \in Senders /\ p.sender.pushed \in Seq(Own(Client))
    BY <1>1, <1>2, <1>3, SoundFacts DEF s
  <2>. QED BY <1>2, <2>1 DEF Senders
<1>14. c.p.sender.in_flight = made
  <2>1. AllSent(p).sender.in_flight = p.sender.in_flight \o p.sender.pushed
    BY <1>12 DEF Sends
  <2>2. p.sender.in_flight \o p.sender.pushed = p.sender.pushed
    BY <1>8, <1>13
  <2>. QED BY <1>5, <1>11, <2>1, <2>2
<1>15. MessagesToSend(p) = made
  <2>1. ~p.sender.retransmit
    BY <1>3, <1>13
  <2>2. <<>> \o p.sender.pushed = p.sender.pushed
    BY <1>13
  <2>. QED BY <1>5, <1>7, <2>1, <2>2 DEF MessagesToSend
<1>16. \A m \in Queued(c.out) : m.SYN
  <2>. DEFINE reply == ReceiverSend(p.receiver, p.inbound)
  <2>1. c.out = InSegments(p, made, reply)
    BY <1>11, <1>15
  <2>. HIDE DEF reply
  <2>2. DOMAIN c.out = DOMAIN made /\ \A k \in DOMAIN made : c.out[k].SYN = made[k].SYN
    BY <2>1 DEF InSegments, Segment
  <2>3. DOMAIN made = {1}
    <3>1. made \in Seq(Own(Client))
      BY <1>5, <1>13
    <3>. QED BY <1>6, <3>1
  <2>. QED BY <1>6, <2>2, <2>3 DEF Queued
<1>17. /\ Sound(Client, c.p) /\ Settled(c.p) /\ c.p.sender.syn_sent
       /\ ~c.p.reassembler.last_received /\ ~HasAckno(c.p) /\ Reported(c.p) = 0
       /\ AckedBy(Client, c.p) = 0 /\ Held(Client, c.p)
       /\ c.out \in Seq(SegmentsFrom(Client))
       /\ \A m \in Queued(c.out) :
               AckIn(Other(Client), m) = Reported(c.p) /\ (m.FIN => c.p.sender.fin_sent)
  BY <1>7, <1>8, <1>9, <1>10 DEF Collects, OnlySends, HasAckno, Reported
<1>. QED BY <1>1, <1>6, <1>14, <1>16, <1>17

LEMMA InitIsSound ==
    ASSUME Init
    PROVE  Inv
<1>1. PICK c \in {CollectSegments(PeerPush(NewPeer(ClientISN)))} :
          /\ peer = [e \in Ends |-> IF e = Client THEN c.p ELSE NewPeer(Isn(e))]
          /\ started = [e \in Ends |-> FALSE]
          /\ net = [e \in Ends |-> IF e = Server THEN c.out ELSE <<>>]
          /\ overtaken = FALSE
  BY DEF Init
<1>2. /\ Client \in Ends /\ Server \in Ends /\ Client # Server
      /\ Other(Client) = Server /\ Other(Server) = Client /\ Ends = {Client, Server}
  BY DEF Ends, Other, Client, Server
<1>3. /\ Sound(Client, c.p) /\ Settled(c.p) /\ ~HasAckno(c.p) /\ c.p.sender.syn_sent
      /\ ~c.p.reassembler.last_received
      /\ AckedBy(Client, c.p) = 0 /\ Reported(c.p) = 0
      /\ Held(Client, c.p)
      /\ Len(c.p.sender.in_flight) = 1 /\ c.p.sender.in_flight[1].SYN
      /\ c.out \in Seq(SegmentsFrom(Client))
      /\ \A m \in Queued(c.out) :
             m.SYN /\ AckIn(Server, m) = 0 /\ (m.FIN => c.p.sender.fin_sent)
  BY <1>1, ConnectSends
<1>. DEFINE n == NewPeer(Isn(Server))
<1>4. /\ Sound(Server, n) /\ Settled(n) /\ Quiet(n)
      /\ ~n.sender.syn_sent /\ ~n.reassembler.last_received
      /\ AckedBy(Server, n) = 0 /\ Reported(n) = 0 /\ n.sender.absolute_seqno = 0
      /\ Held(Server, n) /\ FinComes(n)
  BY <1>2, NewPeerIsSound
<1>. HIDE DEF n
<1>5. /\ peer[Client] = c.p /\ peer[Server] = n
      /\ net[Client] = <<>> /\ net[Server] = c.out
      /\ ~started[Client] /\ ~started[Server] /\ ~overtaken
  BY <1>1, <1>2 DEF n
<1>6. Shape
  BY <1>1 DEF Shape
<1>7. c.p.sender.absolute_seqno \in Nat
  BY <1>2, <1>3, SoundFacts
<1>8. Opening
  BY <1>3, <1>4, <1>5 DEF Opening, Quiet
<1>9. PeerInv(Client) /\ PeerInv(Server)
  BY <1>3, <1>4, <1>5 DEF PeerInv
<1>10. WireInv(Client) /\ WireInv(Server)
  <2>1. net[Client] \in Seq(SegmentsFrom(Server)) /\ Queued(net[Client]) = {}
    BY <1>5, EmptySeq DEF Queued
  <2>. QED BY <1>2, <1>3, <1>5, <2>1 DEF WireInv
<1>11. AckInv(Client) /\ AckInv(Server)
  BY <1>2, <1>3, <1>4, <1>5, <1>7 DEF AckInv
<1>12. Orderly(Client) /\ Orderly(Server)
  <2>1. InOrder(Client)
    BY <1>5 DEF InOrder, Ascends, Queued
  <2>2. InOrder(Server)
    <3>1. \A i \in DOMAIN c.out : AckIn(Server, c.out[i]) = 0
      BY <1>3 DEF Queued
    <3>2. \A m \in Queued(c.out) : AckIn(Server, m) = 0
      BY <1>3
    <3>. QED BY <1>4, <1>5, <3>1, <3>2 DEF InOrder, Ascends
  <2>3. FinComes(c.p)
    BY <1>3 DEF FinComes
  <2>. QED BY <1>3, <1>4, <1>5, <2>1, <2>2, <2>3 DEF Orderly
<1>. QED BY <1>2, <1>6, <1>8, <1>9, <1>10, <1>11, <1>12 DEF Inv

-----------------------------------------------------------------------------
(* The theorems *)

LEMMA InvGivesAcked ==
    ASSUME Inv
    PROVE  AckedIsAssembled
<1>1. SUFFICES ASSUME NEW e \in Ends
               PROVE  /\ Acked(e) <= AssembledOf(e)
                      /\ peer[Other(e)].receiver.syn_recv => peer[Other(e)].receiver.isn = Isn(e)
  BY DEF AckedIsAssembled
<1>. DEFINE o == Other(e)   p == peer[e]   q == peer[o]
<1>2. o \in Ends /\ Other(o) = e
  BY EndFacts
<1>3. Sound(e, p) /\ Sound(o, q) /\ AckedBy(e, p) <= Reported(q)
  BY <1>2, InvFacts
<1>4. Acked(e) = AckedBy(e, p)
  <2>1. /\ p.sender \in Senders /\ p.outbound \in Streams /\ Counts(p.sender, p.outbound, Total(e))
        /\ p.sender.isn = Isn(e) /\ p.sender.ackno \in Raw
    BY <1>3, SoundFacts
  <2>2. Absolute(p.sender, p.sender.ackno) = RawOffset(p.sender.ackno, Isn(e))
    BY <2>1, NumbersOfEnd
  <2>. QED BY <2>2 DEF Acked, AckedBy
<1>5. q.receiver \in Receivers(Isn(e)) /\ q.inbound \in Inbounds(Total(e))
  BY <1>2, <1>3, SoundFacts
<1>6. Reported(q) <= AssembledOf(e)
  <2>1. AssembledOf(e) = IF q.receiver.syn_recv THEN 1 + q.inbound.pushed + Bit(q.inbound.closed)
                         ELSE 0
    BY DEF AssembledOf
  <2>. HIDE DEF q
  <2>2. q.inbound.pushed \in Nat
    BY <1>5 DEF Inbounds, Streams
  <2>. DEFINE x == Bit(q.receiver.fin_recv /\ q.inbound.closed)
              y == Bit(q.inbound.closed)
  <2>3. x \in {0, 1} /\ y \in {0, 1}
    BY BitValues
  <2>4. x <= y
    <3>1. CASE q.inbound.closed
      <4>1. y = 1
        BY <3>1, BitValues
      <4>. QED BY <2>3, <4>1
    <3>2. CASE ~q.inbound.closed
      <4>1. x = 0
        BY <3>2, BitValues
      <4>. QED BY <2>3, <4>1
    <3>. QED BY <3>1, <3>2
  <2>5. Reported(q) = IF q.receiver.syn_recv THEN q.inbound.pushed + 1 + x ELSE 0
    BY DEF Reported, NextNumber
  <2>6. AssembledOf(e) = IF q.receiver.syn_recv THEN 1 + q.inbound.pushed + y ELSE 0
    BY <2>1
  <2>. HIDE DEF x, y
  <2>. QED BY <2>2, <2>3, <2>4, <2>5, <2>6
<1>7. Acked(e) \in Nat /\ Reported(q) \in Nat
  BY <1>2, <1>3, <1>4, ReportedIsNat
<1>8. AssembledOf(e) \in Nat
  <2>1. q.inbound.pushed \in Nat
    BY <1>5 DEF Inbounds, Streams
  <2>2. Bit(q.inbound.closed) \in {0, 1}
    BY BitValues
  <2>. DEFINE y == Bit(q.inbound.closed)
  <2>3. AssembledOf(e) = IF q.receiver.syn_recv THEN 1 + q.inbound.pushed + y ELSE 0
    BY DEF AssembledOf
  <2>4. y \in {0, 1}
    BY <2>2
  <2>. HIDE DEF y, q
  <2>. QED BY <2>1, <2>3, <2>4
<1>9. Acked(e) <= AssembledOf(e)
  BY <1>3, <1>4, <1>6, <1>7, <1>8
<1>10. q.receiver.syn_recv => q.receiver.isn = Isn(e)
  BY <1>5 DEF Receivers
<1>. QED BY <1>9, <1>10

\* A closed inbound stream is the whole stream of the other end.
LEMMA ClosedIsWhole ==
    ASSUME Inv, NEW e \in Ends, peer[e].inbound.closed
    PROVE  /\ peer[e].inbound.pushed = Total(Other(e))
           /\ peer[Other(e)].outbound.pushed = Total(Other(e))
<1>. DEFINE o == Other(e)
<1>1. o \in Ends
  BY EndFacts
<1>2. Sound(e, peer[e]) /\ Sound(o, peer[o])
  BY <1>1, InvFacts
<1>3. peer[e].inbound.pushed = Total(o)
  <2>1. peer[e].inbound \in Inbounds(Total(o))
    BY <1>2, SoundFacts
  <2>. QED BY <2>1 DEF Inbounds
<1>4. peer[o].sender.fin_sent
  BY <1>2, InvFacts DEF Sound, Receiving
<1>5. peer[o].outbound.pushed = Total(o)
  BY <1>2, <1>4 DEF Sound, Sending, IsFinished
<1>. QED BY <1>3, <1>5

\* An end that is done, with nothing in flight, has had all acknowledged.
LEMMA DoneIsAcknowledged ==
    ASSUME Inv, ~overtaken, NEW e \in Ends, ~Running(e)
    PROVE  /\ peer[e].inbound.closed /\ peer[e].outbound.pushed = Total(e)
           /\ AckedBy(e, peer[e]) >= Total(e) + 2
<1>. DEFINE p == peer[e]   s == p.sender
<1>1. Sound(e, p) /\ Settled(p) /\ Held(e, p) /\ FinComes(p)
  BY InvFacts DEF Inv, Orderly
<1>2. Sending(e, s, p.outbound) /\ Receiving(p)
  BY <1>1 DEF Sound
<1>3. IsFinished(p.outbound) /\ p.inbound.closed /\ Outstanding(s) = <<>>
  BY <1>2 DEF Running, Active, Receiving
<1>4. p.outbound.closed /\ p.outbound.size = 0 /\ p.outbound.pushed = Total(e)
  BY <1>2, <1>3 DEF IsFinished, Sending
<1>5. Queued(s.in_flight) = {} /\ Queued(s.pushed) = {}
  <2>1. s.pushed = <<>> /\ s.in_flight \in Seq(Own(e))
    BY <1>1, SoundFacts DEF Settled
  <2>2. s.in_flight \o s.pushed = s.in_flight
    BY <2>1
  <2>3. s.in_flight = <<>>
    BY <1>3, <2>2 DEF Outstanding
  <2>. QED BY <2>1, <2>3 DEF Queued
<1>6. s.fin_sent /\ s.syn_sent
  <2>1. HasAckno(p)
    BY <1>2, <1>3 DEF Receiving, HasAckno
  <2>. QED BY <1>1, <1>3, <2>1 DEF FinComes, Settled
<1>7. s.absolute_seqno = Total(e) + 2 /\ Total(e) \in Nat
  <2>1. /\ s \in Senders /\ p.outbound \in Streams
        /\ Counts(s, p.outbound, Total(e)) /\ s.isn = Isn(e)
    BY <1>1, SoundFacts
  <2>2. Bit(s.syn_sent) = 1 /\ Bit(s.fin_sent) = 1
    BY <1>6, BitValues
  <2>3. s.absolute_seqno = 1 + p.outbound.popped + 1 /\ p.outbound.popped \in Nat
    <3>1. s.absolute_seqno = Bit(s.syn_sent) + p.outbound.popped + Bit(s.fin_sent)
          /\ p.outbound.popped \in Nat
      BY <2>1, NumbersOfEnd
    <3>. QED BY <2>2, <3>1
  <2>4. p.outbound.popped = Total(e)
    BY <1>4, <2>1 DEF Streams
  <2>. QED BY <2>3, <2>4
<1>8. AckedBy(e, p) \in Nat
  BY <1>1, ReportedIsNat
<1>9. ~(AckedBy(e, p) < Total(e) + 2)
  <2>1. SUFFICES ASSUME AckedBy(e, p) < Total(e) + 2 PROVE FALSE
    OBVIOUS
  <2>. DEFINE n == Total(e) + 1
  <2>2. n \in Nat /\ AckedBy(e, p) <= n /\ n < s.absolute_seqno
    BY <1>7, <1>8, <2>1
  <2>. HIDE DEF n
  <2>3. \E m \in Queued(s.in_flight) \cup Queued(s.pushed) : Includes(e, m, n)
    BY <1>1, <2>2 DEF Held
  <2>. QED BY <1>5, <2>3
<1>. QED BY <1>3, <1>4, <1>7, <1>8, <1>9

LEMMA InvGivesNoneLeaves ==
    ASSUME Inv
    PROVE  NoneLeavesEarly
<1>1. SUFFICES ASSUME NEW e \in Ends, ~Running(e), ~overtaken
               PROVE  BothStreamsDone
  BY DEF NoneLeavesEarly
<1>. DEFINE o == Other(e)   q == peer[o]
<1>2. o \in Ends /\ Other(o) = e /\ \A f \in Ends : f = e \/ f = o
  BY EndFacts DEF Ends, Other
<1>3. /\ peer[e].inbound.closed /\ peer[e].outbound.pushed = Total(e)
      /\ AckedBy(e, peer[e]) >= Total(e) + 2
  BY <1>1, DoneIsAcknowledged
<1>4. peer[e].inbound.pushed = Total(o) /\ q.outbound.pushed = Total(o)
  BY <1>3, ClosedIsWhole
<1>5. q.inbound.pushed = Total(e) /\ q.inbound.closed
  <2>1. Reported(q) >= Total(e) + 2 /\ Total(e) \in Nat
    <3>1. AckedBy(e, peer[e]) \in Nat /\ Reported(q) \in Nat /\ AckedBy(e, peer[e]) <= Reported(q)
      BY <1>2, InvFacts
    <3>2. Total(e) \in Nat
      BY EndFacts
    <3>. QED BY <1>3, <3>1, <3>2
  <2>2. q.inbound.pushed \in Nat /\ q.inbound.pushed <= Total(e)
    <3>1. q.inbound \in Inbounds(Total(e))
      BY <1>2, InvFacts, SoundFacts
    <3>. QED BY <3>1 DEF Inbounds, Streams
  <2>. DEFINE x == Bit(q.receiver.fin_recv /\ q.inbound.closed)
  <2>3. x \in {0, 1} /\ (~q.inbound.closed => x = 0)
    BY BitValues
  <2>4. Reported(q) = 0 \/ Reported(q) = q.inbound.pushed + 1 + x
    BY DEF Reported, NextNumber
  <2>. HIDE DEF x, q
  <2>5. x = 1 /\ q.inbound.pushed = Total(e)
    BY <2>1, <2>2, <2>3, <2>4
  <2>. QED BY <2>3, <2>5
<1>. QED BY <1>2, <1>3, <1>4, <1>5 DEF BothStreamsDone

\* Unless a segment that has no ACK flag is taken for an acknowledgment, the
\* parts of the inductive invariant hold whatever is lost, repeated, delayed or
\* overtaken: what is acknowledged, on its way or believed, has been assembled,
\* and in order of sending nothing is forgotten before it has been.
THEOREM ConnectionInvariant ==
    ASSUME BareFieldIsIgnored
    PROVE  Spec => []Inv
<1>1. Init => Inv
  BY InitIsSound
<1>2. Inv /\ [Next]_vars => Inv'
  BY NextKeepsInv
<1>. QED BY <1>1, <1>2, PTL DEF Spec

\* What an end believes acknowledged, and so forgets, has been assembled by the
\* other, SYN and FIN included: receive, push and tick of TCPSender against
\* receive and send of TCPReceiver, over a network that loses, repeats, delays
\* and reorders.
THEOREM AcknowledgedIsAssembled ==
    ASSUME BareFieldIsIgnored
    PROVE  Spec => []AckedIsAssembled
<1>1. Inv => AckedIsAssembled
  BY InvGivesAcked
<1>. QED BY <1>1, ConnectionInvariant, PTL

\* Unless a segment has been overtaken, active() of TCPPeer becomes false only
\* when both streams have arrived whole and closed.
THEOREM NoEndLeavesEarly ==
    ASSUME BareFieldIsIgnored
    PROVE  Spec => []NoneLeavesEarly
<1>1. Inv => NoneLeavesEarly
  BY InvGivesNoneLeaves
<1>. QED BY <1>1, ConnectionInvariant, PTL

-----------------------------------------------------------------------------
(* The bytes *)

\* The stream index at which the payload of a segment of end e belongs.
FirstOf(e, m) == (Place(e, m) + Bit(m.SYN)) - 1

\* Segment m carries bytes that belong where it stands, among the first n that
\* end e has written.
Carries(e, m, n) ==
    /\ m.payload = Run(FirstOf(e, m), Len(m.payload))
    /\ m.payload # <<>> => FirstOf(e, m) + Len(m.payload) <= n

\* The outbound stream and the queues of end e hold what it has written.
Laden(e, s, out) ==
    /\ Numbered(out)
    /\ \A m \in Queued(s.in_flight) \cup Queued(s.pushed) : Carries(e, m, out.pushed)

\* What a peer has received is of the first n bytes the other end has written.
Filled(p, n) == Numbered(p.inbound) /\ Reassembling(RecvCapacity, n, p.reassembler, p.inbound)

DataInv ==
    \A e \in Ends :
        /\ Laden(e, peer[e].sender, peer[e].outbound)
        /\ Filled(peer[e], peer[Other(e)].outbound.pushed)
        /\ \A m \in Queued(net[Other(e)]) : Carries(e, m, peer[e].outbound.pushed)

\* The same numbers at the same place, and more written.
LEMMA CarriesLater ==
    ASSUME NEW e, NEW m, NEW n \in Nat, Carries(e, m, n), NEW r, r.seqno = m.seqno, r.SYN = m.SYN,
           r.payload = m.payload, FirstOf(e, m) \in Int, Len(m.payload) \in Nat,
           NEW k \in Nat, n <= k
    PROVE  Carries(e, r, k)
<1>. DEFINE a == FirstOf(e, m)   l == Len(m.payload)
<1>1. FirstOf(e, r) = a /\ Len(r.payload) = l
  BY DEF FirstOf, Place
<1>2. a \in Int /\ l \in Nat
  OBVIOUS
<1>3. r.payload = Run(a, l) /\ (r.payload # <<>> => a + l <= n)
  BY DEF Carries
<1>. HIDE DEF a, l
<1>. QED BY <1>1, <1>2, <1>3 DEF Carries

LEMMA FirstIsInt ==
    ASSUME NEW e \in Ends, NEW m, m \in Own(e) \/ m \in SegmentsFrom(e)
    PROVE  FirstOf(e, m) \in Nat /\ Len(m.payload) \in Nat
<1>1. Fits(Total(e), FirstOf(e, m), m.payload, m.FIN)
  BY DEF Own, SegmentsFrom, InStream, FirstOf
<1>. DEFINE a == FirstOf(e, m)
<1>2. Fits(Total(e), a, m.payload, m.FIN) /\ Total(e) \in Nat
  BY <1>1, EndFacts
<1>. HIDE DEF a
<1>3. a \in Nat /\ Len(m.payload) \in Nat
  BY <1>2 DEF Fits
<1>. QED BY <1>3 DEF a

\* What push makes of n bytes are these bytes, each at its place.
LEMMA MadeCarries ==
    ASSUME NEW e \in Ends, NEW s, NEW out, Sending(e, s, out), Laden(e, s, out), ~s.fin_sent,
           NEW n \in Nat, n <= out.size, NEW fin \in BOOLEAN, fin => out.closed /\ n = out.size,
           NEW made, made = Made(s, out, n, fin)
    PROVE  \A m \in Queued(made) : Carries(e, m, out.pushed)
<1>1. /\ s \in Senders /\ out \in Streams /\ Counts(s, out, Total(e)) /\ s.isn = Isn(e)
      /\ s.syn_sent \in BOOLEAN /\ s.absolute_seqno \in Nat
  BY DEF Sending, Senders
<1>2. /\ s.absolute_seqno = Bit(s.syn_sent) + out.popped
      /\ out.popped \in Nat /\ out.pushed \in Nat /\ out.pushed <= Total(e)
      /\ out.size = out.pushed - out.popped /\ out.size \in Nat
  <2>1. Bit(s.fin_sent) = 0 /\ Bit(s.syn_sent) \in {0, 1}
    BY BitValues
  <2>. QED BY <1>1, <2>1, NumbersOfEnd DEF Streams
<1>3. SoundStream(out) /\ Numbered(out)
  BY <1>1, StreamIsSound DEF Laden
<1>4. made \in Seq(Own(e))
  BY MadeInStream
<1>5. ReadBytes(out, n) = Run(out.popped, n)
  BY <1>3, ReadNumbered
<1>6. DOMAIN made = 1 .. CountOf(n)
  <2>1. Len(ReadBytes(out, n)) = n
    BY <1>3, ReadLength
  <2>. QED BY <2>1 DEF Made, Segments, CountOf
<1>7. ASSUME NEW k \in 1 .. CountOf(n) PROVE Carries(e, made[k], out.pushed)
  <2>. DEFINE m == made[k]
              first == StartOf(k)
              last == LastOf(k, n)
              len == last - first
              at == out.popped + first
  <2>1. /\ StandsAt(s.isn, m, s.absolute_seqno + first)
        /\ first \in Nat /\ first <= last /\ last \in Nat /\ last <= n
    BY <1>1, <1>3, SegmentMade
  <2>2. m.SYN = ~s.syn_sent /\ m.payload = SubSeq(ReadBytes(out, n), first + 1, last)
    BY <1>3, SegmentHasParts DEF SegmentParts
  <2>. HIDE DEF first, last, m
  <2>3. Bit(m.SYN) = 1 - Bit(s.syn_sent) /\ Bit(s.syn_sent) \in {0, 1}
    <3>1. CASE s.syn_sent
      <4>1. Bit(s.syn_sent) = 1 /\ Bit(m.SYN) = 0
        BY <2>2, <3>1, BitValues
      <4>. QED BY <4>1
    <3>2. CASE ~s.syn_sent
      <4>1. Bit(s.syn_sent) = 0 /\ Bit(m.SYN) = 1
        BY <2>2, <3>2, BitValues
      <4>. QED BY <4>1
    <3>. QED BY <3>1, <3>2
  <2>4. Place(e, m) = s.absolute_seqno + first
    <3>. DEFINE a == s.absolute_seqno + first
    <3>1. a \in Nat /\ a <= Total(e) + 2 /\ StandsAt(Isn(e), m, a)
      BY <1>1, <1>2, <2>1, <2>3, EndFacts
    <3>. HIDE DEF a
    <3>2. Place(e, m) = a
      BY <3>1, PlaceOfWrap
    <3>. QED BY <3>2 DEF a
  <2>5. FirstOf(e, m) = at
    BY <1>2, <2>1, <2>3, <2>4 DEF FirstOf
  <2>6. at \in Nat /\ len \in Nat /\ at + len <= out.pushed
    BY <1>2, <2>1
  <2>7. m.payload = Run(at, len)
    <3>. DEFINE b == out.popped
    <3>1. b \in Int /\ at = b + first
      BY <1>2
    <3>2. m.payload = SubSeq(Run(b, n), first + 1, last)
      BY <1>5, <2>2
    <3>. HIDE DEF b, at
    <3>3. SubSeq(Run(b, n), first + 1, last) = Run(b + first, last - first)
      BY <2>1, <3>1, RunsCut
    <3>. QED BY <3>1, <3>2, <3>3
  <2>. HIDE DEF at, len
  <2>8. Len(m.payload) = len
    BY <2>6, <2>7, RunType
  <2>. QED BY <2>5, <2>6, <2>7, <2>8 DEF Carries, m
<1>. QED BY <1>6, <1>7 DEF Queued

\* push takes bytes from the front of the outbound stream to its queue.
LEMMA PushKeepsLaden ==
    ASSUME NEW e \in Ends, NEW s, NEW out, Sending(e, s, out), Laden(e, s, out),
           NEW r, r = SenderPush(s, out)
    PROVE  /\ Laden(e, r.s, r.stream) /\ r.stream.pushed = out.pushed
           /\ r.stream.closed = out.closed
<1>. DEFINE budget == PushBudget(s)
            n == MinOf(budget, out.size)
            rest == ReaderPop(out, n)
            fin == /\ ~s.fin_sent
                   /\ IsFinished(rest)
                   /\ budget > n \/ ~s.syn_sent
            made == n > 0 \/ fin \/ ~s.syn_sent
            new == Made(s, out, n, fin)
<1>1. /\ s \in Senders /\ out \in Streams /\ Counts(s, out, Total(e)) /\ s.isn = Isn(e)
      /\ s.syn_sent \in BOOLEAN /\ s.fin_sent \in BOOLEAN /\ s.absolute_seqno \in Nat
      /\ s.pushed \in Seq(Messages) /\ s.in_flight \in Seq(Messages) /\ SoundStream(out)
  BY StreamIsSound DEF Sending, Senders
<1>2. /\ budget \in Nat /\ out.size \in Nat /\ n \in Nat /\ n <= out.size
  <2>1. Total(e) \in Nat /\ Total(e) + 2 < Mod64
    BY EndFacts
  <2>2. budget \in Nat
    BY <1>1, <2>1, BudgetIsNat
  <2>. QED BY <1>1, <2>2 DEF Streams, MinOf
<1>. HIDE DEF budget, n
<1>3. CASE s.syn_sent /\ budget = 0
  <2>1. r = [s |-> s, stream |-> out]
    BY <1>3 DEF SenderPush, budget
  <2>. QED BY <2>1
<1>4. CASE ~(s.syn_sent /\ budget = 0)
  <2>. DEFINE q == IF made THEN s.pushed \o new ELSE s.pushed
              t == [s EXCEPT !.syn_sent = TRUE, !.fin_sent = s.fin_sent \/ fin,
                             !.absolute_seqno = s.absolute_seqno + Bit(~s.syn_sent) + n + Bit(fin),
                             !.pushed = q]
  <2>1. r = [s |-> t, stream |-> rest]
    BY <1>1, <1>4 DEF SenderPush, Made, budget, n, Senders
  <2>2. /\ Numbered(rest) /\ rest.size = out.size - n
        /\ rest.closed = out.closed /\ rest.pushed = out.pushed
    <3>1. /\ ReaderPop(out, n).size = out.size - MinOf(n, out.size)
          /\ \A f \in {"pushed", "closed"} : ReaderPop(out, n)[f] = out[f]
      BY <1>1, <1>2, PopStream
    <3>2. MinOf(n, out.size) = n
      BY <1>2 DEF MinOf
    <3>3. Numbered(rest)
      BY <1>1, <1>2, PopNumbered DEF Laden
    <3>. QED BY <3>1, <3>2, <3>3
  <2>3. fin \in BOOLEAN /\ (fin => out.closed /\ n = out.size)
    <3>1. fin => rest.closed /\ rest.size = 0
      BY DEF IsFinished
    <3>. QED BY <1>1, <1>2, <2>2, <3>1
  <2>4. made => ~s.fin_sent
    <3>1. s.fin_sent => out.size = 0
      BY DEF Sending, IsFinished
    <3>2. s.fin_sent => s.syn_sent
      BY DEF Sending, Untouched
    <3>. QED BY <1>2, <2>3, <3>1, <3>2
  <2>. HIDE DEF fin
  <2>5. made => IsSequence(new) /\ \A m \in Queued(new) : Carries(e, m, out.pushed)
    <3>1. made => new \in Seq(Own(e))
      BY <1>2, <2>3, <2>4, MadeInStream
    <3>. QED BY <1>2, <2>3, <2>4, <3>1, MadeCarries, SeqIsSequence
  <2>. HIDE DEF made, new, rest
  <2>6. t.pushed = q /\ t.in_flight = s.in_flight
    <3>1. DOMAIN s = DOMAIN t /\ {"pushed", "in_flight"} \subseteq DOMAIN s
      BY <1>1 DEF Senders
    <3>. HIDE DEF q
    <3>. QED BY <3>1
  <2>7. Queued(q) = IF made THEN Queued(s.pushed) \cup Queued(new) ELSE Queued(s.pushed)
    <3>1. IsSequence(s.pushed)
      BY <1>1, SeqIsSequence
    <3>2. CASE made
      BY <2>5, <3>1, <3>2, QueuedOfConcat
    <3>. QED BY <3>2
  <2>. HIDE DEF t, q
  <2>8. r.s = t /\ r.stream = rest
    BY <2>1
  <2>. QED BY <2>2, <2>5, <2>6, <2>7, <2>8 DEF Laden
<1>. QED BY <1>3, <1>4

\* What maybe_send returns carries bytes that have been written.
LEMMA ToSendCarries ==
    ASSUME NEW e \in Ends, NEW p, Sound(e, p), Laden(e, p.sender, p.outbound),
           NEW m \in Queued(MessagesToSend(p))
    PROVE  Carries(e, m, p.outbound.pushed)
<1>. DEFINE s == p.sender
            again == IF s.retransmit THEN <<Head(s.in_flight)>> ELSE <<>>
            empty == SendEmptyMessage(s)
<1>1. /\ s.in_flight \in Seq(Own(e)) /\ s.pushed \in Seq(Own(e))
      /\ IsSequence(s.in_flight) /\ IsSequence(s.pushed)
      /\ s.retransmit => s.in_flight # <<>>
  BY SoundFacts DEF Senders
<1>2. \A x \in Queued(s.in_flight) \cup Queued(s.pushed) : Carries(e, x, p.outbound.pushed)
  BY DEF Laden
<1>3. Carries(e, empty, p.outbound.pushed)
  <2>1. empty.payload = <<>>
    BY DEF SendEmptyMessage
  <2>2. Run(FirstOf(e, empty), 0) = <<>> /\ Len(<<>>) = 0
    BY DEF Run
  <2>. QED BY <2>1, <2>2 DEF Carries
<1>. HIDE DEF s, empty
<1>4. IsSequence(again) /\ Queued(again) \subseteq Queued(s.in_flight)
  <2>1. CASE s.retransmit
    <3>. DEFINE h == Head(s.in_flight)
    <3>1. h \in Queued(s.in_flight)
      BY <1>1, <2>1 DEF Queued
    <3>. HIDE DEF h
    <3>2. <<h>> \in Seq({h}) /\ Queued(<<h>>) = {h}
      BY DEF Queued
    <3>3. again = <<h>>
      BY <2>1 DEF h
    <3>. HIDE DEF again
    <3>. QED BY <3>1, <3>2, <3>3, SeqIsSequence
  <2>2. CASE ~s.retransmit
    <3>1. again = <<>>
      BY <2>2
    <3>2. <<>> \in Seq({}) /\ Queued(<<>>) = {}
      BY DEF Queued
    <3>. HIDE DEF again
    <3>. QED BY <3>1, <3>2, SeqIsSequence
  <2>. QED BY <2>1, <2>2
<1>. HIDE DEF again
<1>5. Queued(again \o s.pushed) \subseteq Queued(s.in_flight) \cup Queued(s.pushed)
  BY <1>1, <1>4, QueuedOfConcat
<1>6. Queued(<<empty>>) = {empty}
  BY DEF Queued
<1>7. MessagesToSend(p) = <<empty>> \/ MessagesToSend(p) = again \o s.pushed
  BY DEF MessagesToSend, s, again, empty
<1>. QED BY <1>2, <1>3, <1>5, <1>6, <1>7

\* The segments of messages carry what the messages carry.
LEMMA SegmentsCarry ==
    ASSUME NEW e \in Ends, NEW p, NEW messages \in Seq(Own(e)), NEW r, NEW n \in Nat,
           \A m \in Queued(messages) : Carries(e, m, n),
           NEW x \in Queued(InSegments(p, messages, r))
    PROVE  Carries(e, x, n)
<1>1. PICK k \in DOMAIN messages : x = Segment(p, messages[k], r)
  BY DEF Queued, InSegments
<1>. DEFINE m == messages[k]
<1>2. m \in Own(e) /\ Carries(e, m, n)
  BY DEF Queued
<1>3. x.seqno = m.seqno /\ x.SYN = m.SYN /\ x.payload = m.payload
  BY <1>1 DEF Segment
<1>. HIDE DEF m
<1>4. FirstOf(e, m) \in Int /\ Len(m.payload) \in Nat
  BY <1>2, FirstIsInt
<1>. QED BY <1>2, <1>3, <1>4, CarriesLater

\* push of the whole peer.
LEMMA PeerPushKeepsLaden ==
    ASSUME NEW e \in Ends, NEW p, Sound(e, p), Laden(e, p.sender, p.outbound),
           NEW q, q = PeerPush(p)
    PROVE  /\ Laden(e, q.sender, q.outbound) /\ q.outbound.pushed = p.outbound.pushed
           /\ q.outbound.closed = p.outbound.closed
<1>. DEFINE x == SenderPush(p.sender, p.outbound)
<1>1. q.sender = x.s /\ q.outbound = x.stream
  <2>1. DOMAIN p = {"sender", "outbound", "receiver", "reassembler", "inbound", "need_send"}
    BY SoundFacts DEF Peers
  <2>. HIDE DEF x
  <2>2. q = [p EXCEPT !.sender = x.s, !.outbound = x.stream]
    BY DEF PeerPush, Pushed, x
  <2>. QED BY <2>1, <2>2
<1>2. Sending(e, p.sender, p.outbound)
  BY DEF Sound
<1>3. Laden(e, x.s, x.stream) /\ x.stream.pushed = p.outbound.pushed
      /\ x.stream.closed = p.outbound.closed
  BY <1>2, PushKeepsLaden
<1>. HIDE DEF x
<1>. QED BY <1>1, <1>3

\* What end e has sent, coming to q, carries bytes it had written as p; nothing
\* else of the streams is touched.
Delivers(e, p, q, out) ==
    /\ Laden(e, q.sender, q.outbound)
    /\ q.outbound.pushed = p.outbound.pushed /\ q.outbound.closed = p.outbound.closed
    /\ q.inbound = p.inbound /\ q.reassembler = p.reassembler
    /\ \A m \in Queued(out) : Carries(e, m, p.outbound.pushed)

LEMMA CollectDelivers ==
    ASSUME NEW e \in Ends, NEW p, Sound(e, p), Laden(e, p.sender, p.outbound),
           p.need_send => HasAckno(p) \/ p.sender.syn_sent,
           NEW c, c = CollectSegments(p)
    PROVE  Delivers(e, p, c.p, c.out)
<1>. DEFINE q == IF HasAckno(p) THEN PeerPush(p) ELSE p
            a == AllSent(q)
            sent == MessagesToSend(q)
            r == ReceiverSend(q.receiver, q.inbound)
            out == InSegments(q, sent, r)
<1>1. /\ Sound(e, q) /\ OnlySends(p, q) /\ q.need_send = p.need_send
      /\ p.sender.syn_sent \/ HasAckno(p) => q.sender.syn_sent
      /\ Laden(e, q.sender, q.outbound) /\ q.outbound.pushed = p.outbound.pushed
      /\ q.outbound.closed = p.outbound.closed
  <2>1. CASE HasAckno(p)
    <3>. DEFINE pushes == [s |-> q.sender, stream |-> q.outbound]
    <3>1. q = PeerPush(p)
      BY <2>1
    <3>2. /\ Sound(e, q) /\ OnlySends(p, q) /\ q.need_send = p.need_send
          /\ Pushes(e, p.sender, pushes)
      BY <3>1, PeerPushIsSound
    <3>3. /\ Laden(e, q.sender, q.outbound) /\ q.outbound.pushed = p.outbound.pushed
          /\ q.outbound.closed = p.outbound.closed
      BY <3>1, PeerPushKeepsLaden
    <3>4. pushes.s = q.sender
      OBVIOUS
    <3>. HIDE DEF q, pushes
    <3>5. q.sender.syn_sent
      BY <3>2, <3>4 DEF Pushes
    <3>. QED BY <3>2, <3>3, <3>5
  <2>2. CASE ~HasAckno(p)
    BY <2>2 DEF OnlySends
  <2>. QED BY <2>1, <2>2
<1>2. c = [p |-> a, out |-> out]
  BY DEF CollectSegments, SendAll
<1>. HIDE DEF q
<1>3. Sends(e, q, a)
  BY <1>1, AllSentIsSound
<1>4. Laden(e, a.sender, a.outbound)
  <2>1. Queued(a.sender.pushed) = {}
    BY <1>3 DEF Sends, Queued
  <2>. QED BY <1>1, <1>3, <2>1 DEF Sends, Laden
<1>5. HasAckno(q) = HasAckno(p)
  BY <1>1 DEF OnlySends, HasAckno
<1>6. sent \in Seq(Own(e)) /\ \A m \in Queued(sent) : Carries(e, m, q.outbound.pushed)
  BY <1>1, <1>5, MessagesAreOwn, ToSendCarries
<1>7. q.outbound.pushed \in Nat
  BY <1>1, SoundFacts DEF Streams
<1>. HIDE DEF sent, r
<1>8. \A m \in Queued(out) : Carries(e, m, p.outbound.pushed)
  BY <1>1, <1>6, <1>7, SegmentsCarry
<1>. HIDE DEF a, out
<1>9. c.p = a /\ c.out = out
  BY <1>2
<1>. QED BY <1>1, <1>3, <1>4, <1>8, <1>9 DEF Delivers, Sends, OnlySends

LEMMA CappedDelivers ==
    ASSUME NEW e \in Ends, NEW p, NEW c, Sound(e, c.p), Delivers(e, p, c.p, c.out),
           NEW q, q = Capped(c.p)
    PROVE  Delivers(e, p, q, c.out)
<1>. DEFINE s == c.p.sender
            timer == [s.timer EXCEPT !.left = InitialRTO]
            t == [s EXCEPT !.retransmissions = 0, !.rto = InitialRTO, !.timer = timer]
<1>1. /\ DOMAIN c.p = {"sender", "outbound", "receiver", "reassembler", "inbound", "need_send"}
      /\ DOMAIN s = {"isn", "rto", "timer", "ackno", "window_size", "pushed", "in_flight",
             "retransmissions", "syn_sent", "fin_sent", "absolute_seqno", "retransmit",
             "dont_back_off"}
  BY SoundFacts DEF Peers, Senders
<1>2. q = c.p \/ q = [c.p EXCEPT !.sender = t]
  <2>1. [c.p EXCEPT !.sender.retransmissions = 0, !.sender.rto = InitialRTO,
                    !.sender.timer.left = InitialRTO] = [c.p EXCEPT !.sender = t]
    BY <1>1
  <2>. QED BY <2>1 DEF Capped
<1>3. t.pushed = s.pushed /\ t.in_flight = s.in_flight
  BY <1>1
<1>. HIDE DEF t
<1>4. /\ q.sender.pushed = s.pushed /\ q.sender.in_flight = s.in_flight
      /\ q.outbound = c.p.outbound /\ q.inbound = c.p.inbound /\ q.reassembler = c.p.reassembler
  BY <1>1, <1>2, <1>3
<1>. QED BY <1>4 DEF Delivers, Laden

-----------------------------------------------------------------------------
(* Steps and the bytes *)

\* What the handler that makes p of the peer of end e does to the streams, once
\* the end has gone on: what it sends changes neither what it has written nor
\* what it has received.
Flows(e, p) ==
    /\ peer'[e].outbound.pushed = p.outbound.pushed
    /\ peer'[e].outbound.closed = p.outbound.closed
    /\ peer'[e].inbound = p.inbound
    /\ peer'[Other(e)] = peer[Other(e)]

\* What it has to see to before.
Handles(e, p) ==
    /\ Laden(e, p.sender, p.outbound)
    /\ Filled(p, peer[Other(e)].outbound.pushed)
    /\ peer[e].outbound.pushed <= p.outbound.pushed

LEMMA GoesOnKeepsData ==
    ASSUME Inv, DataInv, NEW e \in Ends, NEW k \in Nat, k # 0 => k \in 1 .. Len(net[e]),
           NEW p, Handled(e, k, p), Handles(e, p), GoesOn(e, k, p)
    PROVE  DataInv' /\ Flows(e, p)
<1>. DEFINE o == Other(e)
            c == CollectSegments(p)
            q == Capped(c.p)
            out == c.out
            n == p.outbound.pushed
<1>1. o \in Ends /\ Other(o) = e /\ o # e /\ \A f \in Ends : f = e \/ f = o
  BY EndFacts DEF Ends, Other
<1>2. Sound(e, p) /\ (p.need_send => HasAckno(p) \/ p.sender.syn_sent)
  BY DEF Handled
<1>3. Collects(e, p, c)
  BY <1>2, HandledSends, CollectIsSound
<1>4. Delivers(e, p, c.p, out)
  BY <1>2, CollectDelivers DEF Handles
<1>5. Moves(e, k, p, q, out)
  BY HandlersMove
<1>6. Delivers(e, p, q, out)
  <2>1. Sound(e, c.p)
    BY <1>3 DEF Collects
  <2>. HIDE DEF c
  <2>. QED BY <1>4, <2>1, CappedDelivers
<1>. HIDE DEF c, q, out
<1>7. Moved(e, p, q, out)
  BY <1>5, MoveFacts
<1>8. peer'[e] = q /\ peer'[o] = peer[o]
  BY <1>5 DEF Moves
<1>9. /\ Laden(e, q.sender, q.outbound) /\ q.outbound.pushed = n
      /\ q.outbound.closed = p.outbound.closed
      /\ q.inbound = p.inbound /\ q.reassembler = p.reassembler
      /\ \A m \in Queued(out) : Carries(e, m, n)
  BY <1>6 DEF Delivers
<1>10. Flows(e, p)
  BY <1>8, <1>9 DEF Flows
<1>11. /\ n \in Nat /\ peer[e].outbound.pushed \in Nat /\ peer[e].outbound.pushed <= n
       /\ peer[o].inbound \in Inbounds(Total(e))
  <2>1. Sound(e, peer[e]) /\ Sound(o, peer[o])
    BY <1>1, InvFacts
  <2>. QED BY <1>1, <1>2, <2>1, SoundFacts DEF Streams, Handles
<1>12. \A m \in Queued(net'[o]) : Carries(e, m, n)
  <2>1. SUFFICES ASSUME NEW m \in Queued(net[o]) PROVE Carries(e, m, n)
    BY <1>7, <1>9 DEF Moved
  <2>2. Carries(e, m, peer[e].outbound.pushed)
    BY DEF DataInv
  <2>3. m \in SegmentsFrom(e)
    <3>1. net[o] \in Seq(SegmentsFrom(Other(o)))
      BY <1>1 DEF Inv, WireInv
    <3>. QED BY <1>1, <3>1 DEF Queued
  <2>4. FirstOf(e, m) \in Int /\ Len(m.payload) \in Nat
    BY <2>3, FirstIsInt
  <2>. QED BY <1>11, <2>2, <2>4, CarriesLater
<1>13. \A m \in Queued(net'[e]) : Carries(o, m, peer[o].outbound.pushed)
  <2>1. \A m \in Queued(net[e]) : Carries(o, m, peer[o].outbound.pushed)
    BY <1>1 DEF DataInv
  <2>. QED BY <1>7, <2>1 DEF Moved
<1>14. Filled(peer[o], n)
  <2>. DEFINE in == peer[o].inbound   r == peer[o].reassembler   f == in.pushed + 1
  <2>1. Numbered(in) /\ Buffering(RecvCapacity, peer[e].outbound.pushed, r, in, f)
    BY <1>1 DEF DataInv, Filled, Reassembling
  <2>2. SoundStream(in) /\ in.popped >= in.popped
    <3>1. in \in Streams
      BY <1>11 DEF Inbounds
    <3>. QED BY <3>1, StreamIsSound DEF Streams
  <2>. HIDE DEF in, r, f
  <2>3. RecvCapacity \in Nat /\ RecvCapacity > 0
    BY PeerAssumption
  <2>4. Buffering(RecvCapacity, n, r, in, f)
    BY <1>11, <2>1, <2>2, <2>3, ReassemblingLater
  <2>. QED BY <2>1, <2>4 DEF Filled, Reassembling, in, r, f
<1>15. Filled(q, peer[o].outbound.pushed)
  BY <1>9 DEF Handles, Filled
<1>16. Laden(o, peer[o].sender, peer[o].outbound)
  BY <1>1 DEF DataInv
<1>. HIDE DEF n
<1>17. DataInv'
  <2>1. SUFFICES ASSUME NEW f \in Ends
                 PROVE  /\ Laden(f, peer'[f].sender, peer'[f].outbound)
                        /\ Filled(peer'[f], peer'[Other(f)].outbound.pushed)
                        /\ \A m \in Queued(net'[Other(f)]) : Carries(f, m, peer'[f].outbound.pushed)
    BY DEF DataInv
  <2>2. CASE f = e
    BY <1>8, <1>9, <1>12, <1>15, <2>2 DEF o
  <2>3. CASE f = o
    BY <1>1, <1>8, <1>9, <1>13, <1>14, <1>16, <2>3
  <2>. QED BY <1>1, <2>2, <2>3
<1>. QED BY <1>10, <1>17

\* The bytes of a segment go to the Reassembler, and what it completes to the
\* inbound stream.
LEMMA ReceivingFills ==
    ASSUME NEW e \in Ends, NEW p, Sound(e, p), ~p.sender.retransmit,
           NEW n \in Nat, Filled(p, n),
           NEW m \in SegmentsFrom(Other(e)), Carries(Other(e), m, n),
           NEW q, q = PeerReceive(p, m)
    PROVE  Filled(q, n) /\ q.inbound.popped = p.inbound.popped /\ q.outbound = p.outbound
<1>. DEFINE o == Other(e)   zero == Isn(o)   total == Total(o)
            got == ReceiverReceive(p.receiver, p.reassembler, p.inbound, m)
            noted == NoteSYN(p.receiver, m)
            first == FirstOf(o, m)
            len == Len(m.payload)
            r == p.reassembler
            in == p.inbound
            a == InsertSubstring(r, in, first, Run(first, len), m.FIN)
<1>1. /\ m \in [seqno : Raw, SYN : BOOLEAN, payload : Seq(Int), FIN : BOOLEAN,
                ACK : BOOLEAN, ackno : Raw, window : Nat, RST : {FALSE}]
      /\ InStream(o, m) /\ m.FIN \in BOOLEAN
  BY DEF SegmentsFrom
<1>2. m \in IncomingSegments(zero, total) /\ ~m.RST
  BY <1>1 DEF IncomingSegments, InStream, Place
<1>3. /\ p \in Peers(Total(e), zero, total) /\ ~p.inbound.error
      /\ p.receiver \in Receivers(zero) /\ p.inbound \in Inbounds(total)
  BY SoundFacts DEF Sound, Receiving
<1>4. /\ o \in Ends /\ zero \in Raw /\ total \in Nat /\ 2 * (total + 2) < Mod32
      /\ total + 2 < Mod64
  BY EndFacts, PeerConstants
<1>5. q.reassembler = got.rea /\ q.inbound = got.in /\ q.outbound = p.outbound
  <2>. DEFINE s == SenderReceive(p.sender, m.ackno, m.window)
              need == NeedsReply(p, m, ReceiverSend(p.receiver, p.inbound))
  <2>1. q = [p EXCEPT !.sender = s, !.need_send = need, !.receiver = got.rcv,
                      !.reassembler = got.rea, !.inbound = got.in]
    BY <1>2, <1>3 DEF PeerReceive, Accepted, PeerAcceptsAck, Peers
  <2>. HIDE DEF s, need, got
  <2>. QED BY <1>3, <2>1 DEF Peers
<1>6. first \in Nat /\ len \in Nat /\ m.payload = Run(first, len) /\ (len > 0 => first + len <= n)
  <2>1. first \in Nat /\ len \in Nat
    BY <1>4, FirstIsInt
  <2>2. m.payload = Run(first, len) /\ (m.payload # <<>> => first + len <= n)
    BY DEF Carries
  <2>3. len > 0 => m.payload # <<>>
    BY <2>1
  <2>. HIDE DEF first, len
  <2>. QED BY <2>1, <2>2, <2>3
<1>7. first + len < Mod64
  <2>1. Fits(total, first, m.payload, m.FIN)
    BY <1>1 DEF InStream, FirstOf
  <2>. HIDE DEF first, len, total
  <2>2. first <= total + 1 /\ (m.payload # <<>> => first + len <= total)
    BY <2>1 DEF Fits, len
  <2>3. m.payload = <<>> => len = 0
    BY DEF len
  <2>. QED BY <1>4, <1>6, <2>2, <2>3, Modulus
<1>8. Numbered(in) /\ Reassembling(RecvCapacity, n, r, in) /\ SoundStream(in)
  <2>1. in \in Streams
    BY <1>3 DEF Inbounds
  <2>. QED BY <2>1, StreamIsSound DEF Filled
<1>9. CASE ~(p.receiver.syn_recv \/ m.SYN)
  <2>1. got.rea = r /\ got.in = in
    BY <1>9 DEF ReceiverReceive
  <2>. HIDE DEF got, r, in
  <2>. QED BY <1>5, <1>8, <2>1 DEF Filled, in
<1>10. CASE p.receiver.syn_recv \/ m.SYN
  <2>1. StreamIndex(noted, in, m) = first
    <3>1. StreamIndex(noted, in, m) = (RawOffset(m.seqno, zero) + Bit(m.SYN)) - 1
      <4>. HIDE DEF zero, total
      <4>. QED BY <1>2, <1>3, <1>4, <1>10, IndexOfSegment
    <3>. QED BY <3>1 DEF FirstOf, Place
  <2>2. got.rea = a.rea /\ got.in = a.out
    <3>. HIDE DEF first
    <3>1. got = Assembled(noted, m, InsertSubstring(r, in, first, m.payload, m.FIN))
      BY <1>10, <2>1 DEF ReceiverReceive
    <3>2. got = Assembled(noted, m, a)
      BY <1>6, <3>1
    <3>. HIDE DEF a, got
    <3>. QED BY <3>2 DEF Assembled
  <2>. HIDE DEF first, len, r, in, got
  <2>3. RecvCapacity \in Nat /\ RecvCapacity > 0
    BY PeerAssumption
  <2>4. Inserted(RecvCapacity, n, r, in, first, len, m.FIN, a)
    BY <1>1, <1>6, <1>7, <1>8, <2>3, InsertStep
  <2>. HIDE DEF a
  <2>5. /\ Reassembling(RecvCapacity, n, a.rea, a.out) /\ Delivered(in, a.out)
        /\ a.out.popped = in.popped
    BY <2>4 DEF Inserted, Delivered
  <2>6. Numbered(a.out)
    <3>1. SoundStream(a.out)
      BY <2>5 DEF Reassembling, Buffering
    <3>. QED BY <1>8, <2>5, <3>1, DeliveredNumbered
  <2>. QED BY <1>5, <2>2, <2>5, <2>6 DEF Filled, in
<1>. QED BY <1>9, <1>10

-----------------------------------------------------------------------------
(* What the applications see: of the stream that end f writes, how much    *)
(* has been written, whether that was all, and how much has been read.     *)

Written(f) == peer[f].outbound.pushed
Ended(f) == peer[f].outbound.closed
Taken(f) == peer[Other(f)].inbound.popped

WritesMore(f) ==
    /\ ~Ended(f)
    /\ \E n \in 1 .. Total(f) - Written(f) : Written(f)' = Written(f) + n
    /\ Ended(f)' = Ended(f) /\ Taken(f)' = Taken(f)

EndsNow(f) == Ended(f)' = TRUE /\ Written(f)' = Written(f) /\ Taken(f)' = Taken(f)

TakesMore(f) ==
    /\ \E n \in 1 .. Written(f) - Taken(f) : Taken(f)' = Taken(f) + n
    /\ Written(f)' = Written(f) /\ Ended(f)' = Ended(f)

StaysSo(f) == Written(f)' = Written(f) /\ Ended(f)' = Ended(f) /\ Taken(f)' = Taken(f)

StreamStep(f) == WritesMore(f) \/ EndsNow(f) \/ TakesMore(f) \/ StaysSo(f)

\* The application of end e has written to its outbound stream, or closed it.
LEMMA WritingKeepsData ==
    ASSUME Inv, DataInv, NEW e \in Ends, started[e], ~peer[e].outbound.closed,
           NEW out \in Streams, ~out.error, out.popped = peer[e].outbound.popped,
           out.pushed <= Total(e), out.closed => out.pushed = Total(e),
           Numbered(out), peer[e].outbound.pushed <= out.pushed,
           NEW p, p = PeerPush([peer[e] EXCEPT !.outbound = out]), GoesOn(e, 0, p)
    PROVE  /\ DataInv' /\ StaysSo(Other(e))
           /\ Written(e)' = out.pushed /\ Ended(e)' = out.closed /\ Taken(e)' = Taken(e)
<1>. DEFINE o == Other(e)   r == peer[e]   w == [r EXCEPT !.outbound = out]
<1>1. /\ o \in Ends /\ Other(o) = e
      /\ Laden(e, r.sender, r.outbound) /\ Filled(r, peer[o].outbound.pushed)
  BY EndFacts DEF DataInv
<1>2. /\ Sound(e, w) /\ w.sender = r.sender /\ w.outbound = out /\ w.receiver = r.receiver
      /\ w.reassembler = r.reassembler /\ w.inbound = r.inbound /\ w.need_send = r.need_send
  BY WrittenIsSound
<1>3. p = PeerPush(w)
  OBVIOUS
<1>4. Sound(e, r)
  BY InvFacts
<1>. HIDE DEF w
<1>5. Laden(e, w.sender, w.outbound)
  <2>1. SUFFICES ASSUME NEW m \in Queued(r.sender.in_flight) \cup Queued(r.sender.pushed)
                 PROVE  Carries(e, m, out.pushed)
    BY <1>2 DEF Laden
  <2>2. Carries(e, m, r.outbound.pushed)
    BY <1>1 DEF Laden
  <2>3. m \in Own(e)
    <3>1. r.sender.in_flight \in Seq(Own(e)) /\ r.sender.pushed \in Seq(Own(e))
      BY <1>4, SoundFacts
    <3>. QED BY <3>1 DEF Queued
  <2>4. FirstOf(e, m) \in Int /\ Len(m.payload) \in Nat
    BY <2>3, FirstIsInt
  <2>5. r.outbound.pushed \in Nat /\ out.pushed \in Nat
    BY <1>4, SoundFacts DEF Streams
  <2>. QED BY <2>2, <2>4, <2>5, CarriesLater
<1>6. Sound(e, p) /\ OnlySends(w, p)
  BY <1>2, <1>3, PeerPushIsSound
<1>7. /\ Laden(e, p.sender, p.outbound) /\ p.outbound.pushed = out.pushed
      /\ p.outbound.closed = out.closed
      /\ p.inbound = r.inbound /\ p.reassembler = r.reassembler
  BY <1>2, <1>3, <1>5, <1>6, PeerPushKeepsLaden DEF OnlySends
<1>8. Handles(e, p)
  BY <1>1, <1>7 DEF Handles, Filled
<1>9. Handled(e, 0, p)
  BY WritingIsHandled
<1>. HIDE DEF r
<1>10. DataInv' /\ Flows(e, p)
  BY <1>8, <1>9, GoesOnKeepsData
<1>. QED BY <1>1, <1>7, <1>10 DEF Flows, StaysSo, Written, Ended, Taken, r

LEMMA WriteKeepsData ==
    ASSUME Inv, DataInv, NEW e \in Ends, Write(e)
    PROVE  DataInv' /\ \A f \in Ends : StreamStep(f)
<1>. DEFINE out == peer[e].outbound   free == AvailableCapacity(out)
<1>1. /\ started[e] /\ ~out.closed
      /\ \E n \in 1 .. MinOf(Total(e) - out.pushed, free) :
            GoesOn(e, 0, PeerPush([peer[e] EXCEPT
                                      !.outbound = WriterPush(out, [i \in 1 .. n |-> out.pushed + i - 1])]))
  BY DEF Write
<1>2. PICK n \in 1 .. MinOf(Total(e) - out.pushed, free) :
          GoesOn(e, 0, PeerPush([peer[e] EXCEPT
                                    !.outbound = WriterPush(out, [i \in 1 .. n |-> out.pushed + i - 1])]))
  BY <1>1
<1>3. /\ out \in Streams /\ ~out.error /\ Numbered(out)
      /\ out.pushed \in Nat /\ out.pushed <= Total(e) /\ Total(e) \in Nat
      /\ out.size \in Nat /\ out.capacity \in Nat /\ out.size <= out.capacity
  <2>1. Sound(e, peer[e])
    BY InvFacts
  <2>2. out \in Streams /\ ~out.error /\ Counts(peer[e].sender, out, Total(e))
    BY <2>1 DEF Sound, Sending
  <2>. QED BY <2>2, EndFacts DEF Streams, Counts, DataInv, Laden
<1>4. n \in Nat /\ n > 0 /\ n <= Total(e) - out.pushed /\ n <= out.capacity - out.size
  BY <1>3 DEF MinOf, AvailableCapacity
<1>. DEFINE bytes == [i \in 1 .. n |-> out.pushed + i - 1]
            w == WriterPush(out, bytes)
            p == PeerPush([peer[e] EXCEPT !.outbound = w])
<1>5. GoesOn(e, 0, p)
  BY <1>2
<1>. HIDE DEF out, free
<1>6. bytes = Run(out.pushed, n) /\ bytes \in Seq(Int) /\ Len(bytes) = n
  <2>1. bytes = Run(out.pushed, n)
    BY DEF Run
  <2>2. out.pushed \in Int /\ n \in Nat
    BY <1>3, <1>4
  <2>. HIDE DEF bytes
  <2>. QED BY <2>1, <2>2, RunType
<1>. HIDE DEF bytes
<1>7. /\ w \in Streams /\ w.pushed = out.pushed + MinOf(out.capacity - out.size, Len(bytes))
      /\ w.popped = out.popped /\ w.closed = out.closed /\ w.error = out.error
  BY <1>3, <1>6, PushStream
<1>8. Numbered(w)
  <2>1. SoundStream(out)
    BY <1>3, StreamIsSound
  <2>. QED BY <1>3, <1>4, <1>6, <2>1, PushNumbered
<1>. HIDE DEF w
<1>9. w.pushed = out.pushed + n /\ w.pushed <= Total(e)
  BY <1>3, <1>4, <1>6, <1>7 DEF MinOf
<1>. HIDE DEF p
<1>10. /\ DataInv' /\ StaysSo(Other(e))
       /\ Written(e)' = w.pushed /\ Ended(e)' = w.closed /\ Taken(e)' = Taken(e)
  <2>1. /\ ~peer[e].outbound.closed /\ w.popped = peer[e].outbound.popped
        /\ peer[e].outbound.pushed <= w.pushed
    BY <1>1, <1>3, <1>4, <1>7, <1>9 DEF out
  <2>2. p = PeerPush([peer[e] EXCEPT !.outbound = w])
    BY DEF p
  <2>. QED BY <1>1, <1>3, <1>5, <1>7, <1>8, <1>9, <2>1, <2>2, WritingKeepsData
<1>11. WritesMore(e)
  <2>1. Written(e) = out.pushed /\ Ended(e) = out.closed
    BY DEF Written, Ended, out
  <2>2. n \in 1 .. Total(e) - Written(e)
    BY <1>3, <1>4, <2>1
  <2>. QED BY <1>1, <1>7, <1>9, <1>10, <2>1, <2>2 DEF WritesMore
<1>12. \A f \in Ends : f = e \/ f = Other(e)
  BY DEF Ends, Other
<1>. QED BY <1>10, <1>11, <1>12 DEF StreamStep

LEMMA ShutdownKeepsData ==
    ASSUME Inv, DataInv, NEW e \in Ends, Shutdown(e)
    PROVE  DataInv' /\ \A f \in Ends : StreamStep(f)
<1>. DEFINE out == peer[e].outbound   w == WriterClose(out)
            p == PeerPush([peer[e] EXCEPT !.outbound = w])
<1>1. started[e] /\ ~out.closed /\ out.pushed = Total(e) /\ GoesOn(e, 0, p)
  BY DEF Shutdown
<1>2. out \in Streams /\ ~out.error /\ Numbered(out) /\ out.pushed \in Nat
  BY InvFacts DEF Sound, Sending, DataInv, Laden, Streams
<1>3. /\ w \in Streams /\ w.closed /\ w.pushed = out.pushed /\ w.popped = out.popped
      /\ w.error = out.error /\ w.q = out.q /\ w.size = out.size
  BY <1>2, CloseStream
<1>4. Total(e) \in Nat
  BY EndFacts
<1>. HIDE DEF w
<1>5. Numbered(w)
  BY <1>2, <1>3, SameNumbered
<1>6. w.closed = TRUE
  BY <1>3 DEF Streams
<1>7. /\ DataInv' /\ StaysSo(Other(e))
      /\ Written(e)' = w.pushed /\ Ended(e)' = w.closed /\ Taken(e)' = Taken(e)
  <2>. HIDE DEF p
  <2>1. p = PeerPush([peer[e] EXCEPT !.outbound = w])
    BY DEF p
  <2>2. /\ ~peer[e].outbound.closed /\ w.popped = peer[e].outbound.popped
        /\ peer[e].outbound.pushed <= w.pushed /\ w.pushed <= Total(e)
        /\ ~w.error /\ w.pushed = Total(e) /\ w \in Streams /\ started[e]
    BY <1>1, <1>2, <1>3, <1>4
  <2>3. GoesOn(e, 0, p)
    BY <1>1
  <2>. HIDE DEF out
  <2>. QED BY <1>5, <2>1, <2>2, <2>3, WritingKeepsData
<1>8. EndsNow(e)
  BY <1>3, <1>6, <1>7 DEF EndsNow, Written
<1>9. \A f \in Ends : f = e \/ f = Other(e)
  BY DEF Ends, Other
<1>. QED BY <1>7, <1>8, <1>9 DEF StreamStep

LEMMA ReadKeepsData ==
    ASSUME Inv, DataInv, NEW e \in Ends, Read(e)
    PROVE  DataInv' /\ \A f \in Ends : StreamStep(f)
<1>. DEFINE o == Other(e)   r == peer[e]   in == r.inbound
<1>1. \E n \in 1 .. Len(Peek(in)) : GoesOn(e, 0, [r EXCEPT !.inbound = ReaderPop(in, n)])
  BY DEF Read
<1>2. PICK n \in 1 .. Len(Peek(in)) : GoesOn(e, 0, [r EXCEPT !.inbound = ReaderPop(in, n)])
  BY <1>1
<1>3. /\ o \in Ends /\ Other(o) = e /\ \A f \in Ends : f = e \/ f = o
      /\ r \in Peers(Total(e), Isn(Other(e)), Total(Other(e)))
      /\ in \in Streams /\ n \in Nat /\ n > 0
      /\ Laden(e, r.sender, r.outbound) /\ Filled(r, peer[o].outbound.pushed)
  BY EndFacts, InvFacts, SoundFacts DEF Ends, Other, DataInv, Inbounds
<1>. DEFINE new == ReaderPop(in, n)   p == [r EXCEPT !.inbound = new]
<1>4. /\ p.sender = r.sender /\ p.outbound = r.outbound /\ p.reassembler = r.reassembler
      /\ p.inbound = new
  <2>. HIDE DEF new, r
  <2>. QED BY <1>3 DEF Peers
<1>5. GoesOn(e, 0, p)
  BY <1>2
<1>6. Handled(e, 0, p)
  BY <1>2, <1>3, ReadingIsHandled
<1>7. /\ n <= in.size /\ in.size = in.pushed - in.popped
      /\ in.popped \in Nat /\ in.pushed \in Nat /\ in.size \in Nat
  <2>1. Len(Peek(in)) <= in.size /\ Peek(in) \in Seq(Int)
    BY <1>3, PeekStream
  <2>. HIDE DEF in
  <2>. QED BY <1>3, <2>1 DEF Streams
<1>8. /\ new \in Streams /\ new.pushed = in.pushed /\ new.capacity = in.capacity
      /\ new.popped = in.popped + n
  <2>. HIDE DEF in
  <2>1. MinOf(n, in.size) = n
    BY <1>3, <1>7 DEF MinOf
  <2>2. /\ ReaderPop(in, n) \in Streams
        /\ ReaderPop(in, n).popped = in.popped + MinOf(n, in.size)
        /\ \A f \in {"capacity", "pushed", "closed", "error"} : ReaderPop(in, n)[f] = in[f]
    BY <1>3, PopStream
  <2>. QED BY <2>1, <2>2
<1>9. Filled(p, peer[o].outbound.pushed)
  <2>. DEFINE rea == r.reassembler   floor == in.pushed + 1   limit == peer[o].outbound.pushed
  <2>1. Numbered(in) /\ Buffering(RecvCapacity, limit, rea, in, floor) /\ SoundStream(in)
    BY <1>3, StreamIsSound DEF Filled, Reassembling
  <2>2. limit \in Nat /\ RecvCapacity \in Nat /\ RecvCapacity > 0
    <3>1. peer[o].outbound \in Streams
      BY <1>3, InvFacts, SoundFacts
    <3>. QED BY <3>1, PeerAssumption DEF Streams
  <2>3. new.popped >= in.popped
    BY <1>3, <1>7, <1>8
  <2>. HIDE DEF in, rea, limit
  <2>4. Numbered(new)
    BY <1>3, <2>1, PopNumbered
  <2>. HIDE DEF new, floor
  <2>5. SoundStream(new)
    BY <1>8, StreamIsSound
  <2>6. Buffering(RecvCapacity, limit, rea, new, floor)
    BY <1>8, <2>1, <2>2, <2>3, <2>5, ReassemblingLater
  <2>7. Reassembling(RecvCapacity, limit, rea, new)
    BY <1>8, <2>6 DEF Reassembling, floor
  <2>. HIDE DEF p
  <2>. QED BY <1>4, <2>4, <2>7 DEF Filled, rea, limit
<1>10. Handles(e, p)
  <2>1. peer[e].outbound.pushed <= p.outbound.pushed
    <3>1. peer[e].outbound \in Streams
      BY InvFacts, SoundFacts
    <3>. QED BY <1>4, <3>1 DEF Streams
  <2>. HIDE DEF p
  <2>. QED BY <1>3, <1>4, <1>9, <2>1 DEF Handles
<1>. HIDE DEF p, new
<1>11. DataInv' /\ Flows(e, p)
  BY <1>5, <1>6, <1>10, GoesOnKeepsData
<1>12. in.pushed <= Written(o)
  BY <1>3 DEF Filled, Reassembling, Buffering, Written
<1>13. TakesMore(o)
  <2>1. Taken(o) = in.popped /\ Taken(o)' = in.popped + n
    BY <1>3, <1>4, <1>8, <1>11 DEF Taken, Flows
  <2>2. Written(o)' = Written(o) /\ Ended(o)' = Ended(o)
    BY <1>11 DEF Flows, Written, Ended
  <2>3. Written(o) \in Nat
    BY <1>3, InvFacts, SoundFacts DEF Written, Streams
  <2>4. n \in 1 .. Written(o) - Taken(o)
    <3>. HIDE DEF in, o
    <3>. QED BY <1>3, <1>7, <1>12, <2>1, <2>3
  <2>. QED BY <2>1, <2>2, <2>4 DEF TakesMore
<1>14. StaysSo(e)
  BY <1>4, <1>11 DEF StaysSo, Flows, Written, Ended, Taken
<1>. QED BY <1>3, <1>11, <1>13, <1>14 DEF StreamStep

\* A handler that leaves to the applications what is theirs.
LEMMA HandlingKeepsData ==
    ASSUME Inv, DataInv, NEW e \in Ends, NEW k \in Nat, k # 0 => k \in 1 .. Len(net[e]),
           NEW p, Handled(e, k, p),
           Queued(p.sender.in_flight) \subseteq Queued(peer[e].sender.in_flight),
           p.sender.pushed = peer[e].sender.pushed, p.outbound = peer[e].outbound,
           Filled(p, peer[Other(e)].outbound.pushed), p.inbound.popped = peer[e].inbound.popped,
           GoesOn(e, k, p)
    PROVE  DataInv' /\ \A f \in Ends : StreamStep(f)
<1>1. Laden(e, p.sender, p.outbound)
  BY DEF DataInv, Laden
<1>2. Handles(e, p)
  <2>1. peer[e].outbound \in Streams
    BY InvFacts, SoundFacts
  <2>. QED BY <1>1, <2>1 DEF Handles, Streams
<1>3. DataInv' /\ Flows(e, p)
  BY <1>2, GoesOnKeepsData
<1>4. Other(Other(e)) = e /\ \A f \in Ends : f = e \/ f = Other(e)
  BY EndFacts DEF Ends, Other
<1>5. StaysSo(e) /\ StaysSo(Other(e))
  BY <1>3, <1>4 DEF StaysSo, Flows, Written, Ended, Taken
<1>. QED BY <1>3, <1>4, <1>5 DEF StreamStep

LEMMA TimeoutKeepsData ==
    ASSUME Inv, DataInv, NEW e \in Ends, Timeout(e)
    PROVE  DataInv' /\ \A f \in Ends : StreamStep(f)
<1>. DEFINE r == peer[e]   ms == r.sender.timer.left   p == PeerTick(r, ms)
<1>1. GoesOn(e, 0, p)
  BY DEF Timeout
<1>2. /\ Sound(e, r) /\ r \in Peers(Total(e), Isn(Other(e)), Total(Other(e)))
      /\ r.sender \in Senders
  BY InvFacts, SoundFacts
<1>3. ms \in Nat
  BY <1>2 DEF Senders
<1>4. p.outbound = r.outbound /\ p.inbound = r.inbound /\ p.reassembler = r.reassembler
  <2>. HIDE DEF r, ms
  <2>. QED BY <1>2 DEF PeerTick, Peers
<1>. HIDE DEF p, ms
<1>5. /\ Sound(e, p) /\ Keeps(e, r, p)
      /\ p.sender.in_flight = r.sender.in_flight
      /\ p.sender.syn_sent = r.sender.syn_sent
      /\ p.sender.pushed = r.sender.pushed
  BY <1>2, <1>3, TickIsSound DEF p
<1>6. Handled(e, 0, p)
  BY <1>5, KeepingIsHandled
<1>7. Filled(p, peer[Other(e)].outbound.pushed)
  BY <1>4 DEF DataInv, Filled
<1>. QED BY <1>1, <1>4, <1>5, <1>6, <1>7, HandlingKeepsData

LEMMA ReceivingKeepsData ==
    ASSUME Inv, DataInv, BareFieldIsIgnored, NEW e \in Ends, NEW k \in 1 .. Len(net[e]),
           Receive(e, k)
    PROVE  DataInv' /\ \A f \in Ends : StreamStep(f)
<1>. DEFINE r == peer[e]   m == net[e][k]   o == Other(e)   n == peer[o].outbound.pushed
            p == PeerReceive(r, m)
<1>1. GoesOn(e, k, p) /\ k \in Nat /\ k # 0
  BY DEF Receive
<1>2. Handled(e, k, p)
  BY ReceivingIsHandled
<1>3. /\ o \in Ends /\ Other(o) = e
      /\ Sound(e, r) /\ ~r.sender.retransmit /\ n \in Nat
      /\ m \in Queued(net[e]) /\ m \in SegmentsFrom(o)
  <2>1. o \in Ends /\ Other(o) = e
    BY EndFacts
  <2>2. n \in Nat
    BY <2>1, InvFacts, SoundFacts DEF Streams
  <2>3. net[e] \in Seq(SegmentsFrom(o))
    BY DEF Inv, WireInv
  <2>4. m \in Queued(net[e]) /\ m \in SegmentsFrom(o)
    BY <2>3 DEF Queued
  <2>. QED BY <2>1, <2>2, <2>4, InvFacts DEF Settled
<1>4. Filled(r, n) /\ Carries(o, m, n)
  BY <1>3 DEF DataInv
<1>5. Hears(e, r, m, p)
  <2>. HIDE DEF r, m
  <2>. QED BY <1>3, HearingIsSound
<1>6. Filled(p, n) /\ p.inbound.popped = r.inbound.popped /\ p.outbound = r.outbound
  <2>. HIDE DEF r, m, n
  <2>. QED BY <1>3, <1>4, ReceivingFills
<1>. HIDE DEF p
<1>7. /\ p.sender.pushed = r.sender.pushed
      /\ Queued(p.sender.in_flight) \subseteq Queued(r.sender.in_flight)
  <2>1. IsSequence(r.sender.in_flight)
    BY <1>3, SoundFacts
  <2>2. Queued(Unacknowledged(r.sender, m.ackno)) \subseteq Queued(r.sender.in_flight)
    BY <2>1, QueuedUnacknowledged
  <2>. QED BY <1>5, <2>2 DEF Hears
<1>. QED BY <1>1, <1>2, <1>6, <1>7, HandlingKeepsData

LEMMA NetworkKeepsData ==
    ASSUME Inv, DataInv, peer' = peer, \A f \in Ends : Queued(net'[f]) \subseteq Queued(net[f])
    PROVE  DataInv' /\ \A f \in Ends : StreamStep(f)
<1>1. \A f \in Ends : Other(f) \in Ends
  BY EndFacts
<1>2. DataInv'
  BY <1>1 DEF DataInv
<1>. QED BY <1>2 DEF StreamStep, StaysSo, Written, Ended, Taken

LEMMA NextKeepsData ==
    ASSUME Inv, DataInv, BareFieldIsIgnored, [Next]_vars
    PROVE  DataInv' /\ \A f \in Ends : StreamStep(f)
<1>1. CASE UNCHANGED vars
  BY <1>1, NetworkKeepsData DEF vars
<1>2. CASE Next
  <2>1. PICK e \in Ends : \/ Write(e) \/ Shutdown(e) \/ Read(e)
                          \/ Timeout(e) \/ Arrive(e)
                          \/ Overtake(e) \/ Lose(e) \/ Repeat(e)
    BY <1>2 DEF Next
  <2>2. net[e] \in Seq(SegmentsFrom(Other(e))) /\ net = [f \in Ends |-> net[f]]
    BY DEF Inv, WireInv, Shape
  <2>3. CASE Arrive(e)
    <3>1. 1 \in 1 .. Len(net[e])
      BY <2>2, <2>3 DEF Arrive
    <3>. QED BY <2>3, <3>1, ReceivingKeepsData DEF Arrive
  <2>4. CASE Overtake(e)
    <3>1. PICK k \in 2 .. Len(net[e]) : Receive(e, k)
      BY <2>4 DEF Overtake
    <3>2. k \in 1 .. Len(net[e])
      OBVIOUS
    <3>. QED BY <3>1, <3>2, ReceivingKeepsData
  <2>5. CASE Lose(e)
    <3>1. net[e] # <<>> /\ peer' = peer /\ net' = [net EXCEPT ![e] = Tail(net[e])]
      BY <2>5 DEF Lose
    <3>2. Queued(Tail(net[e])) \subseteq Queued(net[e])
      <4>1. IsSequence(net[e])
        BY <2>2, SeqIsSequence
      <4>. QED BY <3>1, <4>1, QueuedOfTail
    <3>3. \A f \in Ends : Queued(net'[f]) \subseteq Queued(net[f])
      BY <2>2, <3>1, <3>2
    <3>. QED BY <3>1, <3>3, NetworkKeepsData
  <2>6. CASE Repeat(e)
    <3>. DEFINE r == <<Head(net[e])>> \o net[e]
    <3>1. net[e] # <<>> /\ peer' = peer /\ net' = [net EXCEPT ![e] = r]
      BY <2>6 DEF Repeat
    <3>2. Queued(r) = Queued(net[e])
      BY <2>2, <3>1, AscendsRepeated
    <3>. HIDE DEF r
    <3>3. \A f \in Ends : Queued(net'[f]) \subseteq Queued(net[f])
      BY <2>2, <3>1, <3>2
    <3>. QED BY <3>1, <3>3, NetworkKeepsData
  <2>. QED BY <2>1, <2>3, <2>4, <2>5, <2>6, WriteKeepsData, ShutdownKeepsData, ReadKeepsData,
              TimeoutKeepsData
<1>. QED BY <1>1, <1>2

\* The whole stream an end has before it at the start: nothing.
LEMMA NewPeerIsFilled ==
    ASSUME NEW p, p.inbound = NewByteStream(RecvCapacity), p.reassembler = NewReassembler(RecvCapacity)
    PROVE  Filled(p, 0)
<1>. DEFINE in == p.inbound   rea == p.reassembler
<1>1. RecvCapacity \in Nat /\ RecvCapacity > 0
  BY PeerAssumption
<1>2. SoundStream(in) /\ in.capacity = RecvCapacity /\ in.pushed = 0 /\ Numbered(in)
  BY <1>1, NewIsSound, NewIsNumbered DEF NewByteStream
<1>3. rea \in Reassemblers(RecvCapacity, 0) /\ rea.intervals = {}
  BY <1>1 DEF NewReassembler, NewBuffer, Reassemblers
<1>4. Gapped({}) /\ Covered({}) = {}
  BY DEF Gapped, Covered
<1>. HIDE DEF in, rea
<1>5. Reassembling(RecvCapacity, 0, rea, in)
  BY <1>1, <1>2, <1>3, <1>4 DEF Reassembling, Buffering
<1>. QED BY <1>2, <1>5 DEF Filled, in, rea

LEMMA NewPeerIsLaden ==
    ASSUME NEW e \in Ends, NEW p, p = NewPeer(Isn(e))
    PROVE  /\ Sound(e, p) /\ Laden(e, p.sender, p.outbound) /\ Filled(p, 0)
           /\ ~p.need_send /\ p.outbound.pushed = 0 /\ p.outbound.closed = FALSE /\ p.inbound.popped = 0
<1>1. /\ p.sender.in_flight = <<>> /\ p.sender.pushed = <<>> /\ ~p.need_send
      /\ p.outbound = NewByteStream(SendCapacity)
      /\ p.inbound = NewByteStream(RecvCapacity) /\ p.reassembler = NewReassembler(RecvCapacity)
  BY DEF NewPeer, NewSender
<1>2. Sound(e, p)
  BY NewPeerIsSound
<1>3. Numbered(p.outbound)
  BY <1>1, PeerAssumption, NewIsNumbered
<1>4. p.outbound.pushed = 0 /\ p.outbound.closed = FALSE /\ p.inbound.popped = 0
  BY <1>1 DEF NewByteStream
<1>5. Queued(p.sender.in_flight) = {} /\ Queued(p.sender.pushed) = {}
  BY <1>1 DEF Queued
<1>6. Filled(p, 0)
  BY <1>1, NewPeerIsFilled
<1>. QED BY <1>1, <1>2, <1>3, <1>4, <1>5, <1>6 DEF Laden

LEMMA InitHasData ==
    ASSUME Init
    PROVE  /\ DataInv
           /\ \A f \in Ends : Written(f) = 0 /\ Ended(f) = FALSE /\ Taken(f) = 0
<1>1. PICK c \in {CollectSegments(PeerPush(NewPeer(ClientISN)))} :
          /\ peer = [e \in Ends |-> IF e = Client THEN c.p ELSE NewPeer(Isn(e))]
          /\ net = [e \in Ends |-> IF e = Server THEN c.out ELSE <<>>]
  BY DEF Init
<1>2. /\ Client \in Ends /\ Server \in Ends /\ Client # Server /\ Isn(Client) = ClientISN
      /\ Other(Client) = Server /\ Other(Server) = Client /\ Ends = {Client, Server}
  BY DEF Ends, Other, Client, Server, Isn
<1>. DEFINE n == NewPeer(Isn(Server))
            p == NewPeer(Isn(Client))
            q == PeerPush(p)
<1>3. /\ Sound(Server, n) /\ Laden(Server, n.sender, n.outbound) /\ Filled(n, 0)
      /\ n.outbound.pushed = 0 /\ n.outbound.closed = FALSE /\ n.inbound.popped = 0
  BY <1>2, NewPeerIsLaden
<1>4. /\ Sound(Client, p) /\ Laden(Client, p.sender, p.outbound) /\ Filled(p, 0)
      /\ ~p.need_send /\ p.outbound.pushed = 0 /\ p.outbound.closed = FALSE /\ p.inbound.popped = 0
  BY <1>2, NewPeerIsLaden
<1>. HIDE DEF n, p
<1>5. /\ Sound(Client, q) /\ OnlySends(p, q) /\ q.need_send = p.need_send
      /\ Laden(Client, q.sender, q.outbound) /\ q.outbound.pushed = p.outbound.pushed
      /\ q.outbound.closed = p.outbound.closed
  <2>1. q = PeerPush(p) /\ Client \in Ends
    BY <1>2
  <2>. HIDE DEF q
  <2>2. Sound(Client, q) /\ OnlySends(p, q) /\ q.need_send = p.need_send
    BY <1>4, <2>1, PeerPushIsSound
  <2>3. /\ Laden(Client, q.sender, q.outbound) /\ q.outbound.pushed = p.outbound.pushed
        /\ q.outbound.closed = p.outbound.closed
    BY <1>4, <2>1, PeerPushKeepsLaden
  <2>. QED BY <2>2, <2>3
<1>6. c = CollectSegments(q)
  BY <1>1, <1>2 DEF p
<1>. HIDE DEF q
<1>7. Delivers(Client, q, c.p, c.out)
  BY <1>2, <1>4, <1>5, <1>6, CollectDelivers
<1>8. /\ peer[Client] = c.p /\ peer[Server] = n /\ net[Client] = <<>> /\ net[Server] = c.out
  BY <1>1, <1>2 DEF n
<1>9. /\ Laden(Client, c.p.sender, c.p.outbound) /\ c.p.outbound.pushed = 0 /\ c.p.outbound.closed = FALSE
      /\ \A m \in Queued(c.out) : Carries(Client, m, 0)
  BY <1>4, <1>5, <1>7 DEF Delivers
<1>10. c.p.inbound = p.inbound /\ c.p.reassembler = p.reassembler
  BY <1>5, <1>7 DEF Delivers, OnlySends
<1>11. Filled(c.p, 0) /\ c.p.inbound.popped = 0
  BY <1>4, <1>10 DEF Filled
<1>12. Queued(net[Client]) = {}
  BY <1>8 DEF Queued
<1>13. DataInv
  BY <1>2, <1>3, <1>8, <1>9, <1>11, <1>12 DEF DataInv
<1>. QED BY <1>2, <1>3, <1>8, <1>9, <1>11, <1>13 DEF Written, Ended, Taken

-----------------------------------------------------------------------------
(* The pipes *)

\* What is in the pipe of end f is the numbers from those taken to those written.
Holds(f) ==
    /\ Taken(f) \in Nat /\ Written(f) \in Nat /\ Taken(f) <= Written(f) /\ Written(f) <= Total(f)
    /\ Content(f) = Run(Taken(f), Written(f) - Taken(f))

\* What the reader's stream holds, and after it all that has not come in.
LEMMA Undelivered ==
    ASSUME NEW in, SoundStream(in), Numbered(in), NEW w \in Nat, in.pushed <= w
    PROVE  /\ in.popped \in Nat /\ in.popped <= w
           /\ FlattenSeq(in.q) \o [i \in 1 .. w - in.pushed |-> in.pushed + i - 1]
                = Run(in.popped, w - in.popped)
<1>. DEFINE a == in.popped   b == in.pushed   k == in.size   m == w - b   l == w - a
<1>1. /\ a \in Nat /\ b \in Nat /\ k \in Nat /\ m \in Nat /\ l \in Nat
      /\ b = a + k /\ l = k + m /\ a <= w
  BY DEF SoundStream
<1>2. FlattenSeq(in.q) = Run(a, k)
  BY DEF Numbered
<1>3. [i \in 1 .. m |-> b + i - 1] = Run(b, m)
  BY DEF Run
<1>. HIDE DEF a, b, k, m, l
<1>4. Run(a, k) \o Run(a + k, m) = Run(a, k + m)
  <2>1. a \in Int /\ k \in Nat /\ m \in Nat
    BY <1>1
  <2>. QED BY <2>1, RunsJoin
<1>5. FlattenSeq(in.q) \o [i \in 1 .. m |-> b + i - 1] = Run(a, l)
  BY <1>1, <1>2, <1>3, <1>4
<1>. QED BY <1>1, <1>5 DEF a, b, m, l

LEMMA ContentIsRun ==
    ASSUME Inv, DataInv, NEW f \in Ends
    PROVE  Holds(f)
<1>. DEFINE in == peer[Other(f)].inbound   w == peer[f].outbound.pushed
<1>1. Other(f) \in Ends /\ Other(Other(f)) = f
  BY EndFacts
<1>2. Filled(peer[Other(f)], w)
  BY <1>1 DEF DataInv
<1>3. w \in Nat /\ w <= Total(f)
  <2>1. /\ peer[f].outbound \in Streams /\ Counts(peer[f].sender, peer[f].outbound, Total(f))
        /\ peer[f].sender \in Senders
    BY InvFacts, SoundFacts
  <2>. QED BY <2>1, NumbersOfEnd, InvFacts, SoundFacts
<1>4. SoundStream(in) /\ Numbered(in) /\ in.pushed <= w
  BY <1>2 DEF Filled, Reassembling, Buffering
<1>5. Content(f) = FlattenSeq(in.q) \o [i \in 1 .. w - in.pushed |-> in.pushed + i - 1]
  BY DEF Content
<1>6. Taken(f) = in.popped /\ Written(f) = w
  BY DEF Taken, Written
<1>. HIDE DEF in, w
<1>7. /\ in.popped \in Nat /\ in.popped <= w
      /\ FlattenSeq(in.q) \o [i \in 1 .. w - in.pushed |-> in.pushed + i - 1]
           = Run(in.popped, w - in.popped)
  BY <1>3, <1>4, Undelivered
<1>. QED BY <1>3, <1>5, <1>6, <1>7 DEF Holds

\* What the pipe from f makes of such a step.
PipeWrite(f) ==
    /\ ~Ended(f)
    /\ \E n \in 1 .. Total(f) - Len(Content(f)) :
           Content(f)' = Content(f) \o [i \in 1 .. n |-> Taken(f) + Len(Content(f)) + i - 1]
    /\ Taken(f)' = Taken(f) /\ Ended(f)' = Ended(f)

PipeRead(f) ==
    /\ \E n \in 1 .. Len(Content(f)) :
           /\ Content(f)' = SubSeq(Content(f), n + 1, Len(Content(f)))
           /\ Taken(f)' = Taken(f) + n
    /\ Ended(f)' = Ended(f)

PipeClose(f) == Ended(f)' = TRUE /\ Content(f)' = Content(f) /\ Taken(f)' = Taken(f)

PipeStays(f) == Ended(f)' = Ended(f) /\ Content(f)' = Content(f) /\ Taken(f)' = Taken(f)

\* Content d is content c with n bytes after it, or without the first n, when t
\* have been taken before.
Extended(c, d, t, n) == d = c \o [i \in 1 .. n |-> t + Len(c) + i - 1]
Shortened(c, d, n) == d = SubSeq(c, n + 1, Len(c))

LEMMA WritesAreRuns ==
    ASSUME NEW t \in Int, NEW k \in Nat, NEW n \in Nat, NEW l, l = k + n,
           NEW c, c = Run(t, k), NEW d, d = Run(t, l)
    PROVE  Extended(c, d, t, n)
<1>1. Len(c) = k
  BY RunType
<1>2. [i \in 1 .. n |-> t + Len(c) + i - 1] = Run(t + k, n)
  BY <1>1 DEF Run
<1>3. Run(t, k) \o Run(t + k, n) = Run(t, k + n)
  BY RunsJoin
<1>. QED BY <1>2, <1>3 DEF Extended

LEMMA ReadsAreCuts ==
    ASSUME NEW t \in Int, NEW k \in Nat, NEW n \in Nat, n <= k, NEW u, u = t + n, NEW l, l = k - n,
           NEW c, c = Run(t, k), NEW d, d = Run(u, l)
    PROVE  Shortened(c, d, n)
<1>1. Len(c) = k
  BY RunType
<1>2. SubSeq(Run(t, k), n + 1, k) = Run(t + n, k - n)
  <2>1. k <= k
    OBVIOUS
  <2>. QED BY <2>1, RunsCut
<1>. QED BY <1>1, <1>2 DEF Shortened

LEMMA StepsThroughPipe ==
    ASSUME NEW f \in Ends, Holds(f), Holds(f)', StreamStep(f)
    PROVE  PipeWrite(f) \/ PipeRead(f) \/ PipeClose(f) \/ PipeStays(f)
<1>. DEFINE t == Taken(f)   w == Written(f)   c == Content(f)
            u == Taken(f)'   v == Written(f)'   d == Content(f)'
<1>1. /\ t \in Nat /\ w \in Nat /\ t <= w /\ w <= Total(f) /\ c = Run(t, w - t)
      /\ u \in Nat /\ v \in Nat /\ u <= v /\ v <= Total(f) /\ d = Run(u, v - u)
      /\ Total(f) \in Nat
  BY EndFacts DEF Holds
<1>2. Len(c) = w - t
  <2>. DEFINE k == w - t
  <2>. HIDE DEF t, w, c, u, v, d
  <2>1. t \in Int /\ k \in Nat /\ c = Run(t, k)
    BY <1>1
  <2>. HIDE DEF k
  <2>2. Len(c) = k
    BY <2>1, RunType
  <2>. QED BY <2>2 DEF k
<1>3. CASE WritesMore(f)
  <2>1. PICK n \in 1 .. Total(f) - w : v = w + n
    BY <1>3 DEF WritesMore
  <2>2. u = t /\ ~Ended(f) /\ Ended(f)' = Ended(f)
    BY <1>3 DEF WritesMore
  <2>. HIDE DEF t, w, c, u, v, d
  <2>3. Extended(c, d, t, n)
    <3>. DEFINE k == w - t   l == v - u
    <3>1. t \in Int /\ k \in Nat /\ n \in Nat /\ l = k + n /\ c = Run(t, k) /\ d = Run(t, l)
      BY <1>1, <2>1, <2>2
    <3>. HIDE DEF k, l
    <3>. QED BY <3>1, WritesAreRuns
  <2>4. n \in 1 .. Total(f) - Len(c)
    BY <1>1, <1>2, <2>1
  <2>. QED BY <2>2, <2>3, <2>4 DEF PipeWrite, Extended, t, c, u, d
<1>4. CASE TakesMore(f)
  <2>1. PICK n \in 1 .. w - t : u = t + n
    BY <1>4 DEF TakesMore
  <2>2. v = w /\ Ended(f)' = Ended(f)
    BY <1>4 DEF TakesMore
  <2>. HIDE DEF t, w, c, u, v, d
  <2>3. Shortened(c, d, n)
    <3>. DEFINE k == w - t   l == v - u
    <3>1. /\ t \in Int /\ k \in Nat /\ n \in Nat /\ n <= k /\ l = k - n
          /\ c = Run(t, k) /\ d = Run(u, l)
      BY <1>1, <2>1, <2>2
    <3>. HIDE DEF k, l
    <3>. QED BY <2>1, <3>1, ReadsAreCuts
  <2>4. n \in 1 .. Len(c)
    BY <1>1, <1>2, <2>1
  <2>. QED BY <2>1, <2>2, <2>3, <2>4 DEF PipeRead, Shortened, t, c, u, d
<1>5. CASE EndsNow(f)
  <2>1. u = t /\ v = w /\ Ended(f)' = TRUE
    BY <1>5 DEF EndsNow
  <2>. HIDE DEF t, w, c, u, v, d
  <2>2. d = c
    BY <1>1, <2>1
  <2>. QED BY <2>1, <2>2 DEF PipeClose, t, c, u, d
<1>6. CASE StaysSo(f)
  <2>1. u = t /\ v = w /\ Ended(f)' = Ended(f)
    BY <1>6 DEF StaysSo
  <2>. HIDE DEF t, w, c, u, v, d
  <2>2. d = c
    BY <1>1, <2>1
  <2>. QED BY <2>1, <2>2 DEF PipeStays, t, c, u, d
<1>. QED BY <1>3, <1>4, <1>5, <1>6 DEF StreamStep

LEMMA UpstreamSteps ==
    ASSUME PipeWrite(Client) \/ PipeRead(Client) \/ PipeClose(Client) \/ PipeStays(Client)
    PROVE  [Upstream!Next]_Upstream!vars
<1>1. Other(Client) = Server /\ Total(Client) = ClientTotal
  BY DEF Other, Total
<1>2. CASE PipeWrite(Client)
  <2>1. Upstream!Write
    BY <1>1, <1>2 DEF PipeWrite, Taken, Ended, Upstream!Write
  <2>. QED BY <2>1 DEF Upstream!Next
<1>3. CASE PipeRead(Client)
  <2>1. Upstream!Read
    BY <1>1, <1>3 DEF PipeRead, Taken, Ended, Upstream!Read
  <2>. QED BY <2>1 DEF Upstream!Next
<1>4. CASE PipeClose(Client)
  <2>1. Upstream!Close
    BY <1>1, <1>4 DEF PipeClose, Taken, Ended, Upstream!Close
  <2>. QED BY <2>1 DEF Upstream!Next
<1>5. CASE PipeStays(Client)
  BY <1>1, <1>5 DEF PipeStays, Taken, Ended, Upstream!vars
<1>. QED BY <1>2, <1>3, <1>4, <1>5

LEMMA DownstreamSteps ==
    ASSUME PipeWrite(Server) \/ PipeRead(Server) \/ PipeClose(Server) \/ PipeStays(Server)
    PROVE  [Downstream!Next]_Downstream!vars
<1>1. Other(Server) = Client /\ Total(Server) = ServerTotal
  BY DEF Other, Total, Client, Server
<1>2. CASE PipeWrite(Server)
  <2>1. Downstream!Write
    BY <1>1, <1>2 DEF PipeWrite, Taken, Ended, Downstream!Write
  <2>. QED BY <2>1 DEF Downstream!Next
<1>3. CASE PipeRead(Server)
  <2>1. Downstream!Read
    BY <1>1, <1>3 DEF PipeRead, Taken, Ended, Downstream!Read
  <2>. QED BY <2>1 DEF Downstream!Next
<1>4. CASE PipeClose(Server)
  <2>1. Downstream!Close
    BY <1>1, <1>4 DEF PipeClose, Taken, Ended, Downstream!Close
  <2>. QED BY <2>1 DEF Downstream!Next
<1>5. CASE PipeStays(Server)
  BY <1>1, <1>5 DEF PipeStays, Taken, Ended, Downstream!vars
<1>. QED BY <1>2, <1>3, <1>4, <1>5

\* Whatever is lost, repeated, delayed or overtaken, every segment underway or
\* kept for retransmission carries the bytes that belong where it stands, and
\* the Reassembler and the inbound stream of each end hold, each at its place,
\* bytes that the other application has written.
THEOREM BytesKeepTheirPlace ==
    ASSUME BareFieldIsIgnored
    PROVE  Spec => []DataInv
<1>1. Init => DataInv
  BY InitHasData
<1>2. Inv /\ DataInv /\ [Next]_vars => DataInv'
  BY NextKeepsData
<1>. QED BY <1>1, <1>2, ConnectionInvariant, PTL DEF Spec

\* Each application reads from TCPMinnowSocket what the other has written, each
\* byte once and in order, whatever the network loses, repeats, delays or
\* reorders: each direction of the connection implements the pipe.
THEOREM DeliversInOrder ==
    ASSUME BareFieldIsIgnored
    PROVE  Spec => ImplementsPipes
<1>1. Client \in Ends /\ Server \in Ends /\ Other(Client) = Server /\ Other(Server) = Client
  BY DEF Ends, Other, Client, Server
<1>2. Inv /\ DataInv => Holds(Client) /\ Holds(Server)
  BY <1>1, ContentIsRun
<1>3. Init => Upstream!Init /\ Downstream!Init
  <2>. SUFFICES ASSUME Init PROVE Upstream!Init /\ Downstream!Init
    OBVIOUS
  <2>1. ASSUME NEW f \in Ends
        PROVE  Content(f) = <<>> /\ Taken(f) = 0 /\ Ended(f) = FALSE
    <3>1. Holds(f) /\ Written(f) = 0 /\ Taken(f) = 0 /\ Ended(f) = FALSE
      BY InitIsSound, InitHasData, ContentIsRun
    <3>2. Content(f) = Run(0, 0)
      BY <3>1 DEF Holds
    <3>. QED BY <3>1, <3>2 DEF Run
  <2>. QED BY <1>1, <2>1 DEF Taken, Ended, Upstream!Init, Downstream!Init
<1>4. (/\ Inv /\ DataInv /\ [Next]_vars
       /\ Holds(Client) /\ Holds(Server) /\ Holds(Client)' /\ Holds(Server)')
        => [Upstream!Next]_Upstream!vars /\ [Downstream!Next]_Downstream!vars
  <2>. SUFFICES ASSUME Inv, DataInv, [Next]_vars, Holds(Client), Holds(Server),
                       Holds(Client)', Holds(Server)'
                PROVE  [Upstream!Next]_Upstream!vars /\ [Downstream!Next]_Downstream!vars
    OBVIOUS
  <2>1. StreamStep(Client) /\ StreamStep(Server)
    BY <1>1, NextKeepsData
  <2>2. PipeWrite(Client) \/ PipeRead(Client) \/ PipeClose(Client) \/ PipeStays(Client)
    BY <1>1, <2>1, StepsThroughPipe
  <2>3. PipeWrite(Server) \/ PipeRead(Server) \/ PipeClose(Server) \/ PipeStays(Server)
    BY <1>1, <2>1, StepsThroughPipe
  <2>4. [Upstream!Next]_Upstream!vars
    BY <2>2, UpstreamSteps
  <2>5. [Downstream!Next]_Downstream!vars
    BY <2>3, DownstreamSteps
  <2>. QED BY <2>4, <2>5
<1>. QED BY <1>2, <1>3, <1>4, ConnectionInvariant, BytesKeepTheirPlace, PTL
         DEF Spec, ImplementsPipes, Upstream!Spec, Downstream!Spec
=============================================================================
