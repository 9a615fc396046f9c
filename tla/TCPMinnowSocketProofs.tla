------------------------ MODULE TCPMinnowSocketProofs ------------------------
(***************************************************************************)
(* Proofs that in module TCPMinnowSocket no SIGPIPE ends the process       *)
(* unless the connection is reset, and that no stream is cut short, for    *)
(* every size of the buffers and streams and every number of bytes.        *)
(*                                                                         *)
(* The argument is about who shuts what, and when. The inductive invariant *)
(* IInv says that an end of the socket pair is shut only when the stream   *)
(* that feeds it is over, or has failed (Shutting); that a rule of either  *)
(* event loop is gone only for a reason of that kind (ThreadRules,         *)
(* OwnerRules, OwnerChannels), so that neither loop is left while its      *)
(* streams are not over; that what poll has seen is still so when it is    *)
(* acted on, although the other thread has run in between (ThreadSeen,     *)
(* OwnerSeen); and that no byte is lost between the streams (Counting).    *)
(* That the operators the steps are made of keep the types of streams, of  *)
(* the peer and of its segments is in TCPPeerLemmas.                       *)
(***************************************************************************)
EXTENDS TCPMinnowSocket, TCPPeerLemmas

-----------------------------------------------------------------------------
(* The peer of this connection *)

\* What is typed goes out; the other end numbers its bytes from 0 on.
SocketPeers == Peers(Typed, 0, RemoteTotal)
SegmentsIn == IncomingSegments(0, RemoteTotal)
SegmentsOut == OutgoingSegments(0, RemoteTotal)

LEMMA SocketModulus ==
    /\ Mod32 \in Nat /\ Mod32 > 1 /\ Mod64 \in Nat /\ 4 * Mod32 <= Mod64
    /\ RemoteTotal \in Nat /\ 2 * (RemoteTotal + 2) < Mod32
    /\ Typed \in Nat /\ Typed + 2 < Mod64
    /\ 0 \in Raw /\ ISN \in Raw
BY Modulus, SocketAssumption DEF Raw

\* Where a segment that is numbered from 0 on stands.
LEMMA NumberedFromZero ==
    ASSUME NEW n \in 0 .. RemoteTotal + 2
    PROVE  n \in Raw /\ RawOffset(n, 0) = n
<1>1. n \in Raw
  BY SocketModulus DEF Raw
<1>. QED BY <1>1, OffsetOfZero

LEMMA SocketPushes ==
    ASSUME NEW p \in SocketPeers
    PROVE  PeerPush(p) \in SocketPeers /\ OnlySends(p, PeerPush(p))
BY PeerPushes, SocketModulus DEF SocketPeers

LEMMA SocketTicks ==
    ASSUME NEW p \in SocketPeers, NEW ms \in Nat
    PROVE  PeerTick(p, ms) \in SocketPeers /\ OnlySends(p, PeerTick(p, ms))
BY PeerTicks, SocketModulus DEF SocketPeers

LEMMA SocketCollects ==
    ASSUME NEW p \in SocketPeers, NEW c, c = CollectSegments(p)
    PROVE  /\ c.p \in SocketPeers /\ OnlySends(p, c.p) /\ ~c.p.sender.retransmit
           /\ c.out \in Seq(SegmentsOut)
BY CollectsSegments, SocketModulus DEF SocketPeers, SegmentsOut

LEMMA SocketReceives ==
    ASSUME NEW p \in SocketPeers, ~p.sender.retransmit, NEW m \in SegmentsIn
    PROVE  /\ PeerReceive(p, m) \in SocketPeers /\ Receives(p, PeerReceive(p, m))
           /\ ~PeerReceive(p, m).sender.retransmit
BY PeerReceives, SocketModulus DEF SocketPeers, SegmentsIn

LEMMA NewSocketPeer ==
    NewPeer(ISN) \in SocketPeers /\ ~NewPeer(ISN).sender.retransmit
BY NewPeerType, SocketModulus DEF SocketPeers

LEMMA ConnectedType ==
    ASSUME NEW c, c = Connected
    PROVE  /\ c.p \in SocketPeers /\ ~c.p.sender.retransmit /\ c.out \in Seq(SegmentsOut)
           /\ ~c.p.outbound.closed /\ c.p.outbound.pushed = 0
           /\ c.p.inbound.popped = 0
<1>. DEFINE first == CollectSegments(PeerPush(NewPeer(ISN))).p
            answer == [seqno |-> 0, SYN |-> TRUE, payload |-> <<>>, FIN |-> FALSE, ACK |-> TRUE,
                       ackno |-> Wrap(1, ISN), window |-> RemoteWindow, RST |-> FALSE]
            second == PeerReceive(first, answer)
<1>1. PeerPush(NewPeer(ISN)) \in SocketPeers /\ OnlySends(NewPeer(ISN), PeerPush(NewPeer(ISN)))
  BY NewSocketPeer, SocketPushes
<1>2. first \in SocketPeers /\ OnlySends(PeerPush(NewPeer(ISN)), first) /\ ~first.sender.retransmit
  BY <1>1, SocketCollects
<1>3. answer \in SegmentsIn
  <2>. DEFINE none == <<>>   index == (answer.seqno + Bit(answer.SYN)) - 1
  <2>1. none \in Seq(Int) /\ none = <<>>
    BY EmptySeq
  <2>2. Wrap(1, ISN) \in Raw
    BY WrapIsRaw, SocketModulus
  <2>3. index = 0
    <3>1. answer.seqno = 0 /\ answer.SYN = TRUE
      OBVIOUS
    <3>. HIDE DEF answer
    <3>2. Bit(answer.SYN) = 1
      BY <3>1, BitValues
    <3>. QED BY <3>1, <3>2
  <2>. HIDE DEF none, index
  <2>4. Fits(RemoteTotal, index, none, FALSE)
    BY <2>1, <2>3, SocketModulus DEF Fits
  <2>5. Fits(RemoteTotal, (answer.seqno + Bit(answer.SYN)) - 1, answer.payload, answer.FIN)
    BY <2>1, <2>4 DEF index
  <2>6. answer \in [seqno : Raw, SYN : BOOLEAN, payload : Seq(Int),
                    FIN : BOOLEAN, ACK : BOOLEAN, ackno : Raw, window : Nat, RST : BOOLEAN]
    BY <2>1, <2>2, SocketModulus, SocketAssumption
  <2>7. answer.seqno = 0 /\ RawOffset(answer.seqno, 0) = 0
    BY SocketModulus, NumberedFromZero
  <2>. HIDE DEF answer, index
  <2>. QED BY <2>5, <2>6, <2>7 DEF SegmentsIn, IncomingSegments
<1>. HIDE DEF answer, first
<1>4. second \in SocketPeers /\ Receives(first, second)
  BY <1>2, <1>3, SocketReceives
<1>5. c = CollectSegments(second)
  BY DEF Connected, second, first, answer
<1>. HIDE DEF second
<1>6. /\ c.p \in SocketPeers /\ OnlySends(second, c.p) /\ ~c.p.sender.retransmit
      /\ c.out \in Seq(SegmentsOut)
  BY <1>4, <1>5, SocketCollects
<1>7. ~NewPeer(ISN).outbound.closed /\ NewPeer(ISN).outbound.pushed = 0 /\ NewPeer(ISN).inbound.popped = 0
  BY DEF NewPeer, NewByteStream
<1>8. ~first.outbound.closed /\ first.outbound.pushed = 0 /\ first.inbound.popped = 0
  BY <1>1, <1>2, <1>7 DEF OnlySends
<1>9. ~second.outbound.closed /\ second.outbound.pushed = 0 /\ second.inbound.popped = 0
  BY <1>4, <1>8 DEF Receives
<1>10. ~c.p.outbound.closed /\ c.p.outbound.pushed = 0 /\ c.p.inbound.popped = 0
  BY <1>6, <1>9 DEF OnlySends
<1>. QED BY <1>6, <1>10

-----------------------------------------------------------------------------
(* The event loops *)

Rules == 1 .. 4

Seens == [asked : SUBSET Rules, ready : SUBSET Rules, hup : SUBSET Rules]

\* The rule that is served is ready and has not hung up; those cancelled have.
LEMMA ServedRule ==
    ASSUME NEW seen \in Seens, NEW dir, NEW r, Served(seen, dir) = {r}
    PROVE  /\ r \in seen.ready /\ r \notin Defunct(seen, dir)
           /\ Cancelled(seen, dir) = {d \in Defunct(seen, dir) : d < r}
<1>. DEFINE able == seen.ready \ Defunct(seen, dir)
<1>1. able \in SUBSET Nat
  BY DEF Seens, Rules
<1>2. able # {} /\ r = Min(able)
  BY DEF Served
<1>. HIDE DEF able
<1>3. r \in able
  BY <1>1, <1>2, SmallestOf
<1>. QED BY <1>3 DEF able, Cancelled

LEMMA DefunctRules ==
    ASSUME NEW seen, NEW dir
    PROVE  /\ Cancelled(seen, dir) \subseteq Defunct(seen, dir)
           /\ Defunct(seen, dir)
                = {r \in seen.hup : (r \in seen.asked /\ r \notin seen.ready) \/ dir[r] = Out}
BY DEF Cancelled, Defunct

\* What _tcp_loop and _tcp_main do after an event.
LEMMA AfterAnEvent ==
    ASSUME NEW p \in SocketPeers, ~p.sender.retransmit, NEW segments \in Seq(SegmentsOut),
           NEW th, NEW ch1, NEW ch2, AfterEvent(p, segments, th, ch1, ch2)
    PROVE  /\ tcp' \in SocketPeers /\ ~tcp'.sender.retransmit /\ OnlySends(p, tcp')
           /\ outgoing' \in Seq(SegmentsOut)
           /\ \/ /\ abort /\ thread' = [th EXCEPT !.at = "done", !.seen = Nothing]
                 /\ up' = Shut(ch1) /\ down' = Shut(ch2)
              \/ /\ ~abort /\ thread' = [th EXCEPT !.at = "poll", !.seen = Nothing]
                 /\ up' = ch1 /\ down' = ch2
<1>. DEFINE c == IF Active(p) THEN CollectSegments(PeerTick(p, 0)) ELSE [p |-> p, out |-> <<>>]
<1>1. /\ c.p \in SocketPeers /\ ~c.p.sender.retransmit /\ OnlySends(p, c.p)
      /\ c.out \in Seq(SegmentsOut)
  <2>1. CASE Active(p)
    <3>. DEFINE t == PeerTick(p, 0)
    <3>1. t \in SocketPeers /\ OnlySends(p, t)
      BY SocketTicks
    <3>2. c = CollectSegments(t)
      BY <2>1
    <3>. HIDE DEF t, c
    <3>3. /\ c.p \in SocketPeers /\ OnlySends(t, c.p) /\ ~c.p.sender.retransmit
          /\ c.out \in Seq(SegmentsOut)
      BY <3>1, <3>2, SocketCollects
    <3>4. OnlySends(p, c.p)
      BY <3>1, <3>3 DEF OnlySends
    <3>. QED BY <3>3, <3>4
  <2>2. CASE ~Active(p)
    <3>1. <<>> \in Seq(SegmentsOut)
      BY EmptySeq
    <3>. QED BY <2>2, <3>1 DEF OnlySends
  <2>. QED BY <2>1, <2>2
<1>2. \/ abort /\ LeaveLoop(p, segments, th, ch1, ch2)
      \/ /\ ~abort
         /\ tcp' = c.p /\ outgoing' = segments \o c.out
         /\ thread' = [th EXCEPT !.at = "poll", !.seen = Nothing]
         /\ up' = ch1 /\ down' = ch2
  BY DEF AfterEvent
<1>. HIDE DEF c
<1>3. segments \o c.out \in Seq(SegmentsOut)
  BY <1>1
<1>4. OnlySends(p, p)
  BY DEF OnlySends
<1>. QED BY <1>1, <1>2, <1>3, <1>4 DEF LeaveLoop

-----------------------------------------------------------------------------
(* The invariant *)

Threads ==
    [at : {"poll", "serve", "done"}, rules : SUBSET Rules, seen : Seens, eof : BOOLEAN,
     outbound_shutdown : BOOLEAN, inbound_shutdown : BOOLEAN]

Owners ==
    [at : {"poll", "serve", "copied", "joining", "done"}, rules : SUBSET Rules, seen : Seens,
     eof : SUBSET {"stdin", "socket"}, read : Nat, outbound : Streams, inbound : Streams,
     outbound_shutdown : BOOLEAN, inbound_shutdown : BOOLEAN]

Channels == [bytes : Seq(Int), shut : BOOLEAN]

Remotes ==
    [acked : 1 .. RemoteTotal + 2, heard : Nat, said : Nat,
     waiting : BOOLEAN, reset : BOOLEAN, cut : BOOLEAN]

\* Of the TCP thread: a peer p, and th, with the channels ch1 from the owner and
\* ch2 to it. They are parameters, so that what holds of them can be said in the
\* middle of a step, where wait_next_event has left them.
ThreadShapes(p, th, ch1, ch2) ==
    /\ p \in SocketPeers /\ ~p.sender.retransmit
    /\ th \in Threads
    /\ ch1 \in Channels /\ ch2 \in Channels

Shapes ==
    /\ ThreadShapes(tcp, thread, up, down)
    /\ outgoing \in Seq(SegmentsOut) /\ incoming \in Seq(SegmentsIn)
    /\ owner \in Owners /\ remote \in Remotes
    /\ abort \in BOOLEAN /\ killed \in BOOLEAN /\ typed \in Nat

\* All that is typed has been read by the owner; and has been sent by it.
TypedOver == "stdin" \in owner.eof /\ owner.read = Typed /\ typed = Typed + 1
SentOver == TypedOver /\ owner.outbound.closed /\ owner.outbound.size = 0

\* All that the other end sends has been received, and passed on to the owner.
ReceivedOver(p) == p.inbound.closed /\ p.inbound.size = 0

\* A rule of the TCP thread is gone for a reason.
ThreadRules(th, ch1, ch2) ==
    /\ {1, 4} \subseteq th.rules
    /\ 2 \notin th.rules => th.eof
    /\ 3 \notin th.rules => ch1.shut /\ ch2.shut

\* What poll has told the TCP thread is still so when it is acted on.
ThreadSeen ==
    /\ thread.seen.hup \subseteq {2, 3}
    /\ thread.seen.hup # {} => up.shut /\ down.shut
    /\ 1 \in thread.seen.ready => incoming # <<>>
    /\ 2 \in thread.seen.ready => Readable(up)
    /\ 2 \in thread.seen.hup \cap thread.seen.asked => 2 \in thread.seen.ready

OwnerRules ==
    /\ 1 \notin owner.rules => "stdin" \in owner.eof
    /\ 4 \notin owner.rules => owner.inbound_shutdown
    /\ owner.at = "serve" => /\ "stdin" \in owner.eof => 1 \notin owner.rules
                             /\ "socket" \in owner.eof => 3 \notin owner.rules
                             /\ owner.seen.ready \subseteq owner.rules

OwnerSeen ==
    /\ owner.seen.hup \subseteq {2, 3}
    /\ 1 \in owner.seen.ready =>
           typed > owner.read /\ owner.outbound.size < owner.outbound.capacity

\* The streams of the copy are closed at the end of the input, or when the
\* socket hangs up.
OwnerStreams ==
    /\ owner.outbound.capacity = CopyCapacity /\ owner.inbound.capacity = CopyCapacity
    /\ "stdin" \in owner.eof => TypedOver /\ owner.outbound.closed
    /\ owner.outbound.closed => "stdin" \in owner.eof \/ 2 \notin owner.rules
    /\ owner.inbound.closed => "socket" \in owner.eof \/ 3 \notin owner.rules
    /\ owner.inbound_shutdown => owner.inbound.closed /\ owner.inbound.size = 0

\* Where the owner is when it, or the other thread, has given up.
OwnerPlace ==
    /\ owner.at = "copied" => ~abort
    /\ abort => owner.at \in {"joining", "done"}

\* What the owner knows of the channels.
OwnerChannels(p, ch1, ch2) ==
    /\ 2 \notin owner.rules \/ owner.outbound_shutdown => ch1.shut
    /\ 3 \notin owner.rules => ch2.shut
    /\ 3 \in owner.seen.ready => Readable(ch2)
    /\ owner.seen.hup # {} => ch1.shut /\ ch2.shut
    /\ "socket" \in owner.eof => ch2.shut /\ (p.inbound.error \/ ch2.bytes = <<>>)
    /\ owner.at \in {"copied", "joining", "done"} => abort \/ (ch1.shut /\ ch2.shut)

\* Each end of the pair is shut for a reason, and the TCP thread ends for one.
Shutting(p, th, ch1, ch2) ==
    /\ ch1.shut => th.at = "done" \/ SentOver
    /\ ch2.shut => th.at = "done" \/ th.inbound_shutdown
    /\ th.inbound_shutdown => p.inbound.error \/ ReceivedOver(p)
    /\ th.at = "done" => /\ ch1.shut /\ ch2.shut
                         /\ abort \/ p.inbound.error \/ (SentOver /\ ReceivedOver(p))
    /\ th.eof \/ p.outbound.closed => ch1.shut /\ SentOver /\ ch1.bytes = <<>>

\* No byte is lost between the streams.
Counting(p, ch1, ch2) ==
    /\ p.outbound.pushed + Len(ch1.bytes) = owner.outbound.popped
    /\ owner.inbound.pushed + Len(ch2.bytes) = p.inbound.popped

Reading ==
    /\ owner.outbound.pushed = owner.read
    /\ owner.read <= typed /\ owner.read <= Typed /\ typed <= Typed + 1

\* What the TCP thread must keep, and what only the owner can change.
ThreadInv(p, th, ch1, ch2) ==
    /\ ThreadShapes(p, th, ch1, ch2) /\ ThreadRules(th, ch1, ch2) /\ Shutting(p, th, ch1, ch2)
    /\ Counting(p, ch1, ch2) /\ OwnerChannels(p, ch1, ch2)

OwnerInv == OwnerRules /\ OwnerSeen /\ OwnerStreams /\ OwnerPlace /\ Reading

IInv ==
    /\ Shapes /\ ThreadSeen /\ OwnerInv
    /\ ThreadInv(tcp, thread, up, down)
    /\ killed => tcp.inbound.error

-----------------------------------------------------------------------------
(* The rest of the loop keeps what wait_next_event has left *)
LEMMA ChannelRead ==
    ASSUME NEW ch \in Channels, NEW room \in Nat
    PROVE  /\ ReadData(ch, room) \in Seq(Int)
           /\ Len(ReadData(ch, room)) = MinOf(room, Len(ch.bytes))
           /\ AfterRead(ch, room) \in Channels /\ AfterRead(ch, room).shut = ch.shut
           /\ Len(AfterRead(ch, room).bytes) = Len(ch.bytes) - MinOf(room, Len(ch.bytes))
           /\ ch.bytes = <<>> => AfterRead(ch, room).bytes = <<>>
<1> DEFINE q == ch.bytes
           n == MinOf(room, Len(q))
           rest == SubSeq(q, n + 1, Len(q))
<1>1. q \in Seq(Int)
      BY DEF Channels
<1>2. n \in 0 .. Len(q)
      BY <1>1 DEF MinOf
<1> HIDE DEF n
<1>3. SubSeq(q, 1, n) \in Seq(Int) /\ Len(SubSeq(q, 1, n)) = n
      BY <1>1, <1>2, SubSeqType
<1>4. rest \in Seq(Int) /\ Len(rest) = Len(q) - n
      BY <1>1, <1>2, SubSeqType
<1>5. q = <<>> => rest = <<>>
      BY <1>1, <1>2, <1>4
<1>6. ReadData(ch, room) = SubSeq(q, 1, n) /\ AfterRead(ch, room) = [ch EXCEPT !.bytes = rest]
      BY DEF ReadData, AfterRead, n, Channels
<1> HIDE DEF rest
<1>7. /\ AfterRead(ch, room) \in Channels /\ AfterRead(ch, room).shut = ch.shut
      /\ AfterRead(ch, room).bytes = rest
      BY <1>4, <1>6 DEF Channels
<1> QED BY <1>3, <1>4, <1>5, <1>6, <1>7 DEF n

LEMMA ChannelWritten ==
    ASSUME NEW ch \in Channels, NEW data \in Seq(Int)
    PROVE  /\ AfterWrite(ch, data) \in Channels /\ AfterWrite(ch, data).shut = ch.shut
           /\ Len(AfterWrite(ch, data).bytes) = Len(ch.bytes) + Len(data)
           /\ data = <<>> => AfterWrite(ch, data).bytes = ch.bytes
           /\ Readable(ch) => Readable(AfterWrite(ch, data))
<1> DEFINE q == ch.bytes
           all == q \o data
<1>1. q \in Seq(Int)
      BY DEF Channels
<1>2. all \in Seq(Int) /\ Len(all) = Len(q) + Len(data)
      BY <1>1
<1>3. data = <<>> => all = q
      BY <1>1
<1>4. q # <<>> => all # <<>>
      BY <1>1, <1>2
<1>5. AfterWrite(ch, data) = [ch EXCEPT !.bytes = all]
      BY DEF AfterWrite
<1> HIDE DEF all
<1>6. /\ AfterWrite(ch, data) \in Channels /\ AfterWrite(ch, data).shut = ch.shut
      /\ AfterWrite(ch, data).bytes = all
      BY <1>2, <1>5 DEF Channels
<1> QED BY <1>2, <1>3, <1>4, <1>6 DEF Readable

LEMMA NothingSeen == Nothing \in Seens /\ Nothing.ready = {} /\ Nothing.hup = {}
BY DEF Nothing, Seens

LEMMA ShutType ==
    ASSUME NEW ch \in Channels
    PROVE  Shut(ch) \in Channels /\ Shut(ch).shut /\ Shut(ch).bytes = ch.bytes
BY DEF Channels, Shut

LEMMA LeavesLoop ==
    ASSUME NEW p, NEW th, NEW ch1, NEW ch2, ThreadInv(p, th, ch1, ch2), NEW q \in SocketPeers,
           ~q.sender.retransmit, OnlySends(p, q), abort \/ p.inbound.error \/ (SentOver /\ ReceivedOver(p)),
           tcp' = q, thread' = [th EXCEPT !.at = "done", !.seen = Nothing],
           up' = Shut(ch1), down' = Shut(ch2), UNCHANGED <<abort, owner, typed>>
    PROVE  ThreadInv(tcp, thread, up, down)' /\ thread'.seen = Nothing
<1>1. ThreadShapes(p, th, ch1, ch2)
      BY DEF ThreadInv
<1>2. /\ thread' \in Threads /\ thread'.at = "done" /\ thread'.seen = Nothing
      /\ thread'.rules = th.rules /\ thread'.eof = th.eof
      /\ thread'.inbound_shutdown = th.inbound_shutdown
      BY <1>1, NothingSeen DEF ThreadShapes, Threads
<1>3. /\ up' \in Channels /\ up'.shut /\ up'.bytes = ch1.bytes
      /\ down' \in Channels /\ down'.shut /\ down'.bytes = ch2.bytes
      BY <1>1, ShutType DEF ThreadShapes
<1>4. ThreadShapes(tcp, thread, up, down)'
      BY <1>2, <1>3 DEF ThreadShapes
<1>5. ThreadRules(thread, up, down)'
      BY <1>2, <1>3 DEF ThreadInv, ThreadRules
<1>6. Shutting(tcp, thread, up, down)'
      BY <1>2, <1>3 DEF ThreadInv, Shutting, OnlySends, ReceivedOver, SentOver, TypedOver
<1>7. Counting(tcp, up, down)'
      BY <1>3 DEF ThreadInv, Counting, OnlySends
<1>8. OwnerChannels(tcp, up, down)'
      BY <1>3 DEF ThreadInv, OwnerChannels, OnlySends, Readable
<1> QED BY <1>2, <1>4, <1>5, <1>6, <1>7, <1>8 DEF ThreadInv

LEMMA EventKeeps ==
    ASSUME NEW p, NEW th, NEW ch1, NEW ch2, ThreadInv(p, th, ch1, ch2), th.at # "done",
           NEW segments \in Seq(SegmentsOut), AfterEvent(p, segments, th, ch1, ch2),
           UNCHANGED <<abort, owner, typed>>
    PROVE  /\ ThreadInv(tcp, thread, up, down)' /\ thread'.seen = Nothing
           /\ outgoing' \in Seq(SegmentsOut) /\ tcp'.inbound = p.inbound
<1>1. ThreadShapes(p, th, ch1, ch2) /\ p \in SocketPeers /\ ~p.sender.retransmit
      BY DEF ThreadInv, ThreadShapes
<1>2. /\ tcp' \in SocketPeers /\ ~tcp'.sender.retransmit /\ OnlySends(p, tcp')
      /\ outgoing' \in Seq(SegmentsOut)
      /\ \/ /\ abort /\ thread' = [th EXCEPT !.at = "done", !.seen = Nothing]
            /\ up' = Shut(ch1) /\ down' = Shut(ch2)
         \/ /\ ~abort /\ thread' = [th EXCEPT !.at = "poll", !.seen = Nothing]
            /\ up' = ch1 /\ down' = ch2
      BY <1>1, AfterAnEvent
<1>3. tcp'.inbound = p.inbound
      BY <1>2 DEF OnlySends
<1>4. CASE /\ abort /\ thread' = [th EXCEPT !.at = "done", !.seen = Nothing]
           /\ up' = Shut(ch1) /\ down' = Shut(ch2)
      BY <1>2, <1>3, <1>4, LeavesLoop
<1>5. CASE /\ ~abort /\ thread' = [th EXCEPT !.at = "poll", !.seen = Nothing]
           /\ up' = ch1 /\ down' = ch2
  <2>1. /\ thread' \in Threads /\ thread'.at = "poll" /\ thread'.seen = Nothing
        /\ thread'.rules = th.rules /\ thread'.eof = th.eof
        /\ thread'.inbound_shutdown = th.inbound_shutdown
        BY <1>1, <1>5, NothingSeen DEF ThreadShapes, Threads
  <2>2. ThreadShapes(tcp, thread, up, down)'
        BY <1>1, <1>2, <1>5, <2>1 DEF ThreadShapes
  <2>3. ThreadRules(thread, up, down)'
        BY <1>5, <2>1 DEF ThreadInv, ThreadRules
  <2>4. Shutting(tcp, thread, up, down)'
        BY <1>2, <1>5, <2>1 DEF ThreadInv, Shutting, OnlySends, ReceivedOver, SentOver, TypedOver
  <2>5. Counting(tcp, up, down)'
        BY <1>2, <1>5 DEF ThreadInv, Counting, OnlySends
  <2>6. OwnerChannels(tcp, up, down)'
        BY <1>2, <1>5 DEF ThreadInv, OwnerChannels, OnlySends, Readable
  <2> QED BY <1>2, <1>3, <2>1, <2>2, <2>3, <2>4, <2>5, <2>6 DEF ThreadInv
<1> QED BY <1>2, <1>4, <1>5

\* So that a step of the TCP thread has to keep the invariant only up to there.
LEMMA EventEnds ==
    ASSUME IInv, NEW p, NEW th, NEW ch1, NEW ch2, ThreadInv(p, th, ch1, ch2), th.at # "done",
           NEW segments \in Seq(SegmentsOut), AfterEvent(p, segments, th, ch1, ch2),
           UNCHANGED <<abort, owner, typed>>, incoming' \in Seq(SegmentsIn),
           remote' \in Remotes, killed' \in BOOLEAN, killed' => p.inbound.error
    PROVE  IInv'
<1>1. /\ ThreadInv(tcp, thread, up, down)' /\ thread'.seen = Nothing
      /\ outgoing' \in Seq(SegmentsOut) /\ tcp'.inbound = p.inbound
      BY EventKeeps
<1>2. Shapes'
      BY <1>1 DEF IInv, Shapes, ThreadInv
<1>3. ThreadSeen'
      BY <1>1, NothingSeen DEF ThreadSeen
<1>4. OwnerInv'
      BY DEF IInv, OwnerInv, OwnerRules, OwnerSeen, OwnerStreams, OwnerPlace, Reading, TypedOver
<1>5. (killed => tcp.inbound.error)'
      BY <1>1
<1> QED BY <1>1, <1>2, <1>3, <1>4, <1>5 DEF IInv

-----------------------------------------------------------------------------
(* The steps of the TCP thread *)

\* Rules that are cancelled before one is served: only that which writes to the
\* owner, when the pair has hung up.
LEMMA ThreadIsNow ==
    ASSUME IInv
    PROVE  /\ PeerNow = tcp
           /\ ThreadNow \in Threads /\ ThreadNow.at = thread.at
           /\ ThreadInv(tcp, ThreadNow, up, down)
<1>1. ThreadInv(tcp, thread, up, down) /\ ThreadShapes(tcp, thread, up, down) /\ thread \in Threads
      BY DEF IInv, ThreadInv, ThreadShapes
<1>2. Gone \subseteq thread.seen.hup /\ 2 \notin Gone
  <2>1. /\ Gone \subseteq Defunct(thread.seen, threadDir)
        /\ Defunct(thread.seen, threadDir)
             = {r \in thread.seen.hup : (r \in thread.seen.asked /\ r \notin thread.seen.ready)
                                        \/ threadDir[r] = Out}
        BY DefunctRules DEF Gone
  <2>2. threadDir[2] # Out
        BY DEF threadDir, In, Out
  <2> QED BY <2>1, <2>2 DEF IInv, ThreadSeen
<1>3. PeerNow = tcp
      BY <1>2 DEF PeerNow, ThreadCancel
<1>4. /\ ThreadNow \in Threads /\ ThreadNow.at = thread.at /\ ThreadNow.eof = thread.eof
      /\ ThreadNow.inbound_shutdown = thread.inbound_shutdown
      /\ ThreadNow.rules = thread.rules \ Gone
      BY <1>1 DEF ThreadNow, Threads
<1>5. Gone \subseteq {3} /\ (Gone # {} => up.shut /\ down.shut)
      BY <1>2 DEF IInv, ThreadSeen
<1>6. ThreadRules(ThreadNow, up, down)
      BY <1>1, <1>4, <1>5 DEF ThreadInv, ThreadRules
<1>7. Shutting(tcp, ThreadNow, up, down)
      BY <1>1, <1>4 DEF ThreadInv, Shutting
<1> QED BY <1>1, <1>3, <1>4, <1>6, <1>7 DEF ThreadInv, ThreadShapes

\* Rules that have come to their end before poll is called: only that which reads
\* what the owner writes, and then the outbound stream is closed.
LEMMA ThreadIsLeft ==
    ASSUME IInv
    PROVE  /\ PeerLeft.inbound = tcp.inbound
           /\ ThreadLeft \in Threads /\ ThreadLeft.at = thread.at
           /\ ThreadInv(PeerLeft, ThreadLeft, up, down)
<1>1. /\ ThreadInv(tcp, thread, up, down) /\ ThreadShapes(tcp, thread, up, down)
      /\ thread \in Threads /\ tcp \in SocketPeers /\ ~tcp.sender.retransmit
      BY DEF IInv, ThreadInv, ThreadShapes
<1>2. ThreadSpent \subseteq {1, 2, 3, 4} /\ (ThreadSpent # {} => thread.eof) /\ ThreadSpent \subseteq {2}
      BY <1>1 DEF ThreadSpent, Spent, threadFd, threadDir, In, Out, Threads, Rules
<1>3. /\ ThreadLeft \in Threads /\ ThreadLeft.at = thread.at /\ ThreadLeft.eof = thread.eof
      /\ ThreadLeft.inbound_shutdown = thread.inbound_shutdown
      /\ ThreadLeft.rules = thread.rules \ ThreadSpent
      BY <1>1 DEF ThreadLeft, Threads
<1>4. /\ PeerLeft \in SocketPeers /\ ~PeerLeft.sender.retransmit
      /\ PeerLeft.inbound = tcp.inbound
      /\ PeerLeft.outbound.pushed = tcp.outbound.pushed
      /\ PeerLeft.outbound.closed => tcp.outbound.closed \/ thread.eof
  <2>1. CASE 2 \notin ThreadSpent
        BY <1>1, <2>1 DEF PeerLeft, ThreadCancel
  <2>2. CASE 2 \in ThreadSpent
    <3> DEFINE out == WriterClose(tcp.outbound)
    <3>1. tcp.outbound \in Streams
          BY <1>1 DEF SocketPeers, Peers
    <3>2. /\ out \in Streams
          /\ \A f \in {"capacity", "size", "q", "pushed", "popped", "error"} : out[f] = tcp.outbound[f]
          BY <3>1, CloseStream
    <3>3. PeerLeft = [tcp EXCEPT !.outbound = out]
          BY <2>2 DEF PeerLeft, ThreadCancel
    <3>4. out.pushed = tcp.outbound.pushed /\ out.popped = tcp.outbound.popped
          BY <3>2
    <3> HIDE DEF out
    <3>5. PeerLeft.sender = tcp.sender /\ PeerLeft.outbound = out /\ PeerLeft.inbound = tcp.inbound
          BY <1>1, <3>3 DEF SocketPeers, Peers
    <3>6. Counts(tcp.sender, out, Typed)
          BY <1>1, <3>4 DEF SocketPeers, Peers, Counts
    <3>7. PeerLeft \in SocketPeers
          BY <1>1, <3>2, <3>3, <3>5, <3>6 DEF SocketPeers, Peers
    <3> QED BY <1>1, <1>2, <2>2, <3>4, <3>5, <3>7
  <2> QED BY <2>1, <2>2
<1>5. ThreadRules(ThreadLeft, up, down)
      BY <1>1, <1>2, <1>3 DEF ThreadInv, ThreadRules
<1>6. Shutting(PeerLeft, ThreadLeft, up, down)
      BY <1>1, <1>3, <1>4 DEF ThreadInv, Shutting, ReceivedOver
<1>7. Counting(PeerLeft, up, down) /\ OwnerChannels(PeerLeft, up, down)
      BY <1>1, <1>4 DEF ThreadInv, Counting, OwnerChannels
<1> QED BY <1>1, <1>3, <1>4, <1>5, <1>6, <1>7 DEF ThreadInv, ThreadShapes

LEMMA ThreadPolls ==
    ASSUME IInv, ThreadPoll
    PROVE  IInv'
<1> DEFINE seen == ThreadSees
<1>1. /\ PeerLeft.inbound = tcp.inbound /\ ThreadLeft \in Threads
      /\ ThreadInv(PeerLeft, ThreadLeft, up, down)
      /\ ThreadShapes(PeerLeft, ThreadLeft, up, down)
      BY ThreadIsLeft DEF ThreadInv
<1>2. /\ seen \in Seens /\ seen.ready \subseteq seen.asked
      /\ seen.ready \subseteq ThreadReady
      /\ seen.asked \cap ThreadReady \subseteq seen.ready
      /\ seen.hup \subseteq {2, 3} /\ (seen.hup # {} => up.shut /\ down.shut)
      BY <1>1 DEF ThreadSees, Polled, Seens, Threads, Rules, HangsUp
<1>3. thread.at = "poll" /\ thread' = [ThreadLeft EXCEPT !.at = "serve", !.seen = seen]
      BY DEF ThreadPoll, ThreadAt
<1> HIDE DEF seen
<1>4. /\ tcp' = PeerLeft
      /\ UNCHANGED <<outgoing, abort, up, down, owner, typed, incoming, remote, killed>>
      BY DEF ThreadPoll
<1>5. /\ thread' \in Threads /\ thread'.at = "serve" /\ thread'.seen = seen
      /\ thread'.rules = ThreadLeft.rules /\ thread'.eof = ThreadLeft.eof
      /\ thread'.inbound_shutdown = ThreadLeft.inbound_shutdown
      BY <1>1, <1>2, <1>3 DEF Threads
<1>6. ThreadLeft.at = "poll"
      BY <1>3, ThreadIsLeft
<1>7. ThreadShapes(tcp, thread, up, down)' /\ ThreadRules(thread, up, down)'
      BY <1>1, <1>4, <1>5 DEF ThreadInv, ThreadShapes, ThreadRules
<1>8. Shutting(tcp, thread, up, down)'
      BY <1>1, <1>4, <1>5, <1>6 DEF ThreadInv, Shutting, ReceivedOver, SentOver, TypedOver
<1>9. Counting(tcp, up, down)' /\ OwnerChannels(tcp, up, down)'
      BY <1>1, <1>4 DEF ThreadInv, Counting, OwnerChannels
<1>10. ThreadSeen'
  <2>1. (1 \in seen.ready => incoming # <<>>) /\ (2 \in seen.ready => Readable(up))
        BY <1>2 DEF ThreadReady
  <2>2. 2 \in seen.hup \cap seen.asked => 2 \in seen.ready
        BY <1>2 DEF ThreadReady, Readable
  <2> QED BY <1>2, <1>4, <1>5, <2>1, <2>2 DEF ThreadSeen
<1>11. OwnerInv'
      BY <1>4 DEF IInv, OwnerInv, OwnerRules, OwnerSeen, OwnerStreams, OwnerPlace, Reading, TypedOver
<1>12. Shapes' /\ (killed => tcp.inbound.error)'
      BY <1>1, <1>4, <1>7 DEF IInv, Shapes
<1> QED BY <1>7, <1>8, <1>9, <1>10, <1>11, <1>12 DEF IInv, ThreadInv

LEMMA ThreadTimesOut ==
    ASSUME IInv, ThreadTimeout
    PROVE  IInv'
<1>1. /\ PeerLeft.inbound = tcp.inbound /\ ThreadInv(PeerLeft, ThreadLeft, up, down)
      /\ ThreadLeft.at # "done"
      BY ThreadIsLeft DEF ThreadTimeout, ThreadAt
<1>2. /\ AfterEvent(PeerLeft, outgoing, ThreadLeft, up, down)
      /\ UNCHANGED <<abort, owner, typed, incoming, remote, killed>>
      BY DEF ThreadTimeout
<1>3. outgoing \in Seq(SegmentsOut) /\ incoming' \in Seq(SegmentsIn)
      /\ remote' \in Remotes /\ killed' \in BOOLEAN /\ (killed' => PeerLeft.inbound.error)
      BY <1>1, <1>2 DEF IInv, Shapes
<1> QED BY <1>1, <1>2, <1>3, EventEnds

\* No rule is of interest any more: the connection is over in both directions,
\* and what was received has been passed on; or it has failed.
LEMMA NoneOfInterest ==
    ASSUME IInv, ThreadExit
    PROVE  abort \/ PeerLeft.inbound.error \/ (SentOver /\ ReceivedOver(PeerLeft))
<1>1. /\ ThreadInv(PeerLeft, ThreadLeft, up, down) /\ ThreadShapes(PeerLeft, ThreadLeft, up, down)
      /\ ThreadLeft.at = "poll"
      BY ThreadIsLeft DEF ThreadExit, ThreadAt, ThreadInv
<1>2. \A r \in ThreadLeft.rules : ~ThreadInterest(r, PeerLeft, outgoing)
      BY DEF ThreadExit, ThreadSees, Polled
<1>3. SUFFICES ASSUME ~PeerLeft.inbound.error
               PROVE  SentOver /\ ReceivedOver(PeerLeft)
      OBVIOUS
<1>4. ~Active(PeerLeft)
  <2>1. ~ThreadInterest(1, PeerLeft, outgoing)
        BY <1>1, <1>2 DEF ThreadInv, ThreadRules
  <2> QED BY <2>1 DEF ThreadInterest
<1>5. PeerLeft.outbound.closed /\ PeerLeft.inbound.closed
      BY <1>3, <1>4 DEF Active, IsFinished
<1>6. SentOver
      BY <1>1, <1>5 DEF ThreadInv, Shutting
<1>7. PeerLeft.inbound.size \in Nat
      BY <1>1 DEF ThreadShapes, SocketPeers, Peers, Inbounds, Streams
<1>8. CASE 3 \in ThreadLeft.rules
  <2>1. ~ThreadInterest(3, PeerLeft, outgoing)
        BY <1>2, <1>8
  <2>2. ~(PeerLeft.inbound.size > 0)
        BY <2>1 DEF ThreadInterest
  <2> QED BY <1>5, <1>6, <1>7, <2>2 DEF ReceivedOver
<1>9. CASE 3 \notin ThreadLeft.rules
      BY <1>1, <1>3, <1>6, <1>9 DEF ThreadInv, ThreadRules, Shutting
<1> QED BY <1>8, <1>9

LEMMA ThreadExits ==
    ASSUME IInv, ThreadExit
    PROVE  IInv'
<1>1. /\ PeerLeft.inbound = tcp.inbound /\ ThreadInv(PeerLeft, ThreadLeft, up, down)
      /\ PeerLeft \in SocketPeers /\ ~PeerLeft.sender.retransmit
      BY ThreadIsLeft DEF ThreadInv, ThreadShapes
<1>2. abort \/ PeerLeft.inbound.error \/ (SentOver /\ ReceivedOver(PeerLeft))
      BY NoneOfInterest
<1>3. /\ tcp' = PeerLeft /\ outgoing' = outgoing
      /\ thread' = [ThreadLeft EXCEPT !.at = "done", !.seen = Nothing]
      /\ up' = Shut(up) /\ down' = Shut(down)
      /\ UNCHANGED <<abort, owner, typed, incoming, remote, killed>>
      BY DEF ThreadExit, LeaveLoop
<1>4. OnlySends(PeerLeft, PeerLeft)
      BY DEF OnlySends
<1>5. ThreadInv(tcp, thread, up, down)' /\ thread'.seen = Nothing
      BY <1>1, <1>2, <1>3, <1>4, LeavesLoop
<1>6. ThreadSeen'
      BY <1>5, NothingSeen DEF ThreadSeen
<1>7. OwnerInv'
      BY <1>3 DEF IInv, OwnerInv, OwnerRules, OwnerSeen, OwnerStreams, OwnerPlace, Reading, TypedOver
<1>8. Shapes' /\ (killed => tcp.inbound.error)'
      BY <1>1, <1>3, <1>5 DEF IInv, Shapes, ThreadInv
<1> QED BY <1>5, <1>6, <1>7, <1>8 DEF IInv

LEMMA ThreadServesNoRule ==
    ASSUME IInv, ThreadServesNone
    PROVE  IInv'
<1>1. PeerNow = tcp /\ ThreadInv(tcp, ThreadNow, up, down) /\ ThreadNow.at # "done"
      BY ThreadIsNow DEF ThreadServesNone, ThreadAt
<1>2. /\ AfterEvent(tcp, outgoing, ThreadNow, up, down)
      /\ UNCHANGED <<abort, owner, typed, incoming, remote, killed>>
      BY <1>1 DEF ThreadServesNone
<1>3. outgoing \in Seq(SegmentsOut) /\ incoming' \in Seq(SegmentsIn)
      /\ remote' \in Remotes /\ killed' \in BOOLEAN /\ (killed' => tcp.inbound.error)
      BY <1>1, <1>2 DEF IInv, Shapes
<1> QED BY <1>1, <1>2, <1>3, EventEnds

LEMMA SegmentIsReceived ==
    ASSUME IInv, ReceiveSegment
    PROVE  IInv'
<1>1. /\ PeerNow = tcp /\ ThreadInv(tcp, ThreadNow, up, down) /\ ThreadNow.at # "done"
      /\ ThreadShapes(tcp, ThreadNow, up, down)
      /\ tcp \in SocketPeers /\ ~tcp.sender.retransmit
      BY ThreadIsNow DEF ReceiveSegment, ThreadServes, ThreadAt, ThreadInv, ThreadShapes
<1>2. incoming # <<>> /\ incoming \in Seq(SegmentsIn)
  <2>1. 1 \in thread.seen.ready
        BY ServedRule DEF ReceiveSegment, ThreadServes, IInv, Shapes, ThreadShapes, Threads
  <2> QED BY <2>1 DEF IInv, ThreadSeen, Shapes
<1>3. Head(incoming) \in SegmentsIn /\ Tail(incoming) \in Seq(SegmentsIn)
  <2> DEFINE T == SegmentsIn
  <2>1. incoming \in Seq(T) /\ incoming # <<>>
        BY <1>2
  <2> HIDE DEF T
  <2>2. Head(incoming) \in T /\ Tail(incoming) \in Seq(T)
        BY <2>1
  <2> QED BY <2>2 DEF T
<1>4. PICK c \in {CollectSegments(PeerReceive(tcp, Head(incoming)))} :
          AfterEvent(c.p, outgoing \o c.out, ThreadNow, up, down)
      BY <1>1 DEF ReceiveSegment
<1>5. UNCHANGED <<abort, owner, typed, remote, killed>> /\ incoming' = Tail(incoming)
      BY DEF ReceiveSegment
<1> DEFINE q == PeerReceive(tcp, Head(incoming))
<1>6. q \in SocketPeers /\ Receives(tcp, q) /\ ~q.sender.retransmit
      BY <1>1, <1>3, SocketReceives
<1>7. c = CollectSegments(q)
      BY <1>4
<1> HIDE DEF q
<1>8. /\ c.p \in SocketPeers /\ OnlySends(q, c.p) /\ ~c.p.sender.retransmit
      /\ c.out \in Seq(SegmentsOut)
      BY <1>6, <1>7, SocketCollects
<1>9. outgoing \o c.out \in Seq(SegmentsOut)
  <2> DEFINE T == SegmentsOut
  <2>1. outgoing \in Seq(T) /\ c.out \in Seq(T)
        BY <1>8 DEF IInv, Shapes
  <2> HIDE DEF T
  <2>2. outgoing \o c.out \in Seq(T)
        BY <2>1
  <2> QED BY <2>2 DEF T
<1>10. /\ c.p.outbound.closed = tcp.outbound.closed /\ c.p.outbound.pushed = tcp.outbound.pushed
       /\ c.p.inbound.popped = tcp.inbound.popped
       /\ tcp.inbound.error => c.p.inbound.error
       /\ ReceivedOver(tcp) => ReceivedOver(c.p)
       BY <1>6, <1>8 DEF OnlySends, Receives, ReceivedOver
<1>11. ThreadInv(c.p, ThreadNow, up, down)
  <2>1. Shutting(c.p, ThreadNow, up, down)
        BY <1>1, <1>10 DEF ThreadInv, Shutting
  <2>2. Counting(c.p, up, down)
        BY <1>1, <1>10 DEF ThreadInv, Counting
  <2>3. OwnerChannels(c.p, up, down)
        BY <1>1, <1>10 DEF ThreadInv, OwnerChannels
  <2> QED BY <1>1, <1>8, <2>1, <2>2, <2>3 DEF ThreadInv, ThreadShapes
<1>12. incoming' \in Seq(SegmentsIn) /\ remote' \in Remotes
       /\ killed' \in BOOLEAN /\ (killed' => c.p.inbound.error)
       BY <1>3, <1>5, <1>10 DEF IInv, Shapes
<1> QED BY <1>1, <1>4, <1>5, <1>9, <1>11, <1>12, EventEnds

LEMMA BytesArePushed ==
    ASSUME IInv, PushBytes
    PROVE  IInv'
<1>1. /\ PeerNow = tcp /\ ThreadInv(tcp, ThreadNow, up, down) /\ ThreadNow.at # "done"
      /\ ThreadShapes(tcp, ThreadNow, up, down) /\ ThreadNow \in Threads
      /\ tcp \in SocketPeers /\ ~tcp.sender.retransmit /\ up \in Channels /\ down \in Channels
      BY ThreadIsNow DEF PushBytes, ThreadServes, ThreadAt, ThreadInv, ThreadShapes
<1> DEFINE room == AvailableCapacity(tcp.outbound)
           ended == EofRead(up)
           pushed == Written(tcp, room)
           th == [ThreadNow EXCEPT !.eof = ended, !.outbound_shutdown = ended]
           ch == AfterRead(up, room)
<1>2. PICK c \in {CollectSegments(PeerPush(pushed))} :
          AfterEvent(c.p, outgoing \o c.out, th, ch, down)
      BY <1>1 DEF PushBytes
<1>3. UNCHANGED <<abort, owner, typed, incoming, remote, killed>>
      BY DEF PushBytes
<1>4. Readable(up)
  <2>1. 2 \in thread.seen.ready
        BY ServedRule DEF PushBytes, ThreadServes, IInv, Shapes, ThreadShapes, Threads
  <2> QED BY <2>1 DEF IInv, ThreadSeen
<1>5. /\ tcp.outbound \in Streams /\ room \in Nat
      /\ room = tcp.outbound.capacity - tcp.outbound.size
      BY <1>1 DEF SocketPeers, Peers, Streams, AvailableCapacity
<1>6. ended \in BOOLEAN /\ (ended <=> up.bytes = <<>>) /\ (ended => up.shut)
      BY <1>4 DEF EofRead, Readable
<1>7. up.bytes \in Seq(Int) /\ ch \in Channels /\ ch.shut = up.shut
      BY <1>1, <1>5, ChannelRead DEF Channels
<1>8. /\ Len(ch.bytes) = Len(up.bytes) - MinOf(room, Len(up.bytes))
      /\ up.bytes = <<>> => ch.bytes = <<>>
      BY <1>1, <1>5, ChannelRead
<1>9. /\ th \in Threads /\ th.at = ThreadNow.at /\ th.rules = ThreadNow.rules /\ th.eof = ended
      /\ th.inbound_shutdown = ThreadNow.inbound_shutdown
      BY <1>1, <1>6 DEF Threads
<1>10. /\ pushed \in SocketPeers /\ ~pushed.sender.retransmit /\ pushed.inbound = tcp.inbound
       /\ pushed.outbound.closed <=> (tcp.outbound.closed \/ ended)
       /\ pushed.outbound.pushed = tcp.outbound.pushed + MinOf(room, Len(up.bytes))
  <2> DEFINE data == ReadData(up, room)
             out == IF ended THEN WriterClose(tcp.outbound) ELSE WriterPush(tcp.outbound, data)
  <2>1. pushed = [tcp EXCEPT !.outbound = out]
        BY DEF Written
  <2>2. data \in Seq(Int) /\ Len(data) = MinOf(room, Len(up.bytes))
        BY <1>1, <1>5, ChannelRead
  <2>3. out \in Streams /\ (out.closed <=> (tcp.outbound.closed \/ ended)) /\ out.popped = tcp.outbound.popped
        /\ out.pushed = tcp.outbound.pushed + MinOf(room, Len(up.bytes))
    <3> HIDE DEF data
    <3>1. CASE ended
      <4> DEFINE new == WriterClose(tcp.outbound)
      <4>1. /\ new \in Streams /\ new.closed
            /\ \A f \in {"capacity", "size", "q", "pushed", "popped", "error"} : new[f] = tcp.outbound[f]
            BY <1>5, CloseStream
      <4>2. out = new
            BY <3>1
      <4> HIDE DEF new, out, ended
      <4>3. out.popped = tcp.outbound.popped /\ out.pushed = tcp.outbound.pushed
            BY <4>1, <4>2
      <4>4. MinOf(room, Len(up.bytes)) = 0
            BY <1>5, <1>6, <3>1 DEF MinOf
      <4> QED BY <1>5, <3>1, <4>1, <4>2, <4>3, <4>4 DEF Streams
    <3>2. CASE ~ended
      <4> DEFINE new == WriterPush(tcp.outbound, data)
      <4>1. /\ new \in Streams
            /\ new.pushed = tcp.outbound.pushed
                             + MinOf(tcp.outbound.capacity - tcp.outbound.size, Len(data))
            /\ \A f \in {"capacity", "popped", "closed", "error"} : new[f] = tcp.outbound[f]
            BY <1>5, <2>2, PushStream
      <4>2. out = new
            BY <3>2
      <4> HIDE DEF new, out, ended
      <4>3. out.popped = tcp.outbound.popped /\ out.closed = tcp.outbound.closed
            BY <4>1, <4>2
      <4>4. MinOf(room, Len(data)) = MinOf(room, Len(up.bytes))
            BY <1>5, <1>7, <2>2 DEF MinOf
      <4> QED BY <1>5, <3>2, <4>1, <4>2, <4>3, <4>4
    <3> QED BY <3>1, <3>2
  <2> HIDE DEF out, pushed, ended, room
  <2>4. pushed.sender = tcp.sender /\ pushed.outbound = out /\ pushed.inbound = tcp.inbound
        BY <1>1, <2>1 DEF SocketPeers, Peers
  <2>5. out.pushed <= Typed
    <3>1. /\ tcp.outbound.pushed + Len(up.bytes) = owner.outbound.popped
          /\ owner.outbound.pushed = owner.read /\ owner.read <= Typed
          BY <1>1 DEF ThreadInv, Counting, IInv, OwnerInv, Reading
    <3>2. owner.outbound.popped <= owner.outbound.pushed
          BY DEF IInv, Shapes, Owners, Streams
    <3>3. tcp.outbound.pushed \in Nat /\ Typed \in Nat /\ Len(up.bytes) \in Nat
      <4>1. Typed \in Nat
            BY SocketModulus
      <4> QED BY <1>5, <1>7, <4>1 DEF Streams
    <3>4. owner.outbound.popped \in Nat /\ owner.read \in Nat
          BY DEF IInv, Shapes, Owners, Streams
    <3> QED BY <1>5, <2>3, <3>1, <3>2, <3>3, <3>4 DEF MinOf
  <2>6. Counts(tcp.sender, out, Typed)
        BY <1>1, <2>3, <2>5 DEF SocketPeers, Peers, Counts
  <2>7. pushed \in SocketPeers
        BY <1>1, <2>1, <2>3, <2>4, <2>6 DEF SocketPeers, Peers
  <2> QED BY <1>1, <2>3, <2>4, <2>7
<1> HIDE DEF room, ended, pushed, th, ch
<1>11. PeerPush(pushed) \in SocketPeers /\ OnlySends(pushed, PeerPush(pushed))
       BY <1>10, SocketPushes
<1>12. /\ c.p \in SocketPeers /\ OnlySends(PeerPush(pushed), c.p) /\ ~c.p.sender.retransmit
       /\ c.out \in Seq(SegmentsOut)
       BY <1>2, <1>11, SocketCollects
<1>13. outgoing \o c.out \in Seq(SegmentsOut)
  <2> DEFINE T == SegmentsOut
  <2>1. outgoing \in Seq(T) /\ c.out \in Seq(T)
        BY <1>12 DEF IInv, Shapes
  <2> HIDE DEF T
  <2>2. outgoing \o c.out \in Seq(T)
        BY <2>1
  <2> QED BY <2>2 DEF T
<1>14. /\ c.p.outbound.closed <=> (tcp.outbound.closed \/ ended)
       /\ c.p.outbound.pushed = tcp.outbound.pushed + MinOf(room, Len(up.bytes))
       /\ c.p.inbound = tcp.inbound
       BY <1>10, <1>11, <1>12 DEF OnlySends
<1>15. ThreadInv(c.p, th, ch, down)
  <2>1. ThreadShapes(c.p, th, ch, down)
        BY <1>1, <1>7, <1>9, <1>12 DEF ThreadShapes
  <2>2. ThreadRules(th, ch, down)
        BY <1>1, <1>6, <1>7, <1>9 DEF ThreadInv, ThreadRules, Shutting
  <2>3. Shutting(c.p, th, ch, down)
        BY <1>1, <1>6, <1>7, <1>8, <1>9, <1>14 DEF ThreadInv, Shutting, ReceivedOver
  <2>4. Counting(c.p, ch, down)
    <3>1. tcp.outbound.pushed \in Nat /\ Len(up.bytes) \in Nat
          BY <1>5, <1>7 DEF Streams
    <3>2. MinOf(room, Len(up.bytes)) \in Nat
          BY <1>5, <3>1 DEF MinOf
    <3>3. c.p.outbound.pushed + Len(ch.bytes) = tcp.outbound.pushed + Len(up.bytes)
          BY <1>8, <1>14, <3>1, <3>2
    <3> QED BY <1>1, <1>14, <3>3 DEF ThreadInv, Counting
  <2>5. OwnerChannels(c.p, ch, down)
        BY <1>1, <1>7, <1>14 DEF ThreadInv, OwnerChannels
  <2> QED BY <2>1, <2>2, <2>3, <2>4, <2>5 DEF ThreadInv
<1>16. incoming' \in Seq(SegmentsIn) /\ remote' \in Remotes
       /\ killed' \in BOOLEAN /\ (killed' => c.p.inbound.error)
       BY <1>3, <1>14 DEF IInv, Shapes
<1> QED BY <1>1, <1>2, <1>3, <1>9, <1>13, <1>15, <1>16, EventEnds

\* Part of a stream's front chunk goes from the stream to a channel.
LEMMA PartIsWritten ==
    ASSUME NEW bs \in Streams, NEW ch \in Channels, NEW n \in WriteSizes(bs, ch),
           NEW popped, popped = PopWritten(bs, n),
           NEW written, written = AfterWrite(ch, SubSeq(Peek(bs), 1, n))
    PROVE  /\ n \in Nat /\ n <= bs.size
           /\ popped \in Streams /\ popped.popped = bs.popped + n /\ popped.size = bs.size - n
           /\ popped.capacity = bs.capacity /\ popped.pushed = bs.pushed
           /\ popped.closed = bs.closed /\ popped.error = bs.error
           /\ written \in Channels /\ written.shut = ch.shut
           /\ Len(written.bytes) = Len(ch.bytes) + n
           /\ n = 0 => written.bytes = ch.bytes
           /\ Readable(ch) => Readable(written)
<1> DEFINE front == Peek(bs)
           data == SubSeq(front, 1, n)
<1>1. front \in Seq(Int) /\ Len(front) <= bs.size /\ Len(front) \in Nat
      BY PeekStream
<1>2. bs.size \in Nat
      BY DEF Streams
<1>3. PipeSize \in Nat /\ Len(ch.bytes) \in Nat
      BY PipeAssumption DEF Channels
<1>4. n \in Nat /\ n <= Len(front)
  <2>1. CASE bs.size > 0
    <3>1. n \in 1 .. MinOf(Len(front), PipeSize - Len(ch.bytes))
          BY <2>1 DEF WriteSizes, MayTake
    <3> HIDE DEF front
    <3> QED BY <1>1, <1>3, <3>1 DEF MinOf
  <2>2. CASE ~(bs.size > 0)
    <3>1. n = 0
          BY <2>2 DEF WriteSizes
    <3> QED BY <1>1, <3>1
  <2> QED BY <2>1, <2>2
<1> HIDE DEF front
<1>5. data \in Seq(Int) /\ Len(data) = n
      BY <1>1, <1>4, SubSeqType
<1>6. n = 0 => data = <<>>
      BY <1>5
<1>7. /\ popped \in Streams
      /\ popped.popped = bs.popped + MinOf(n, bs.size)
      /\ popped.size = bs.size - MinOf(n, bs.size)
      /\ \A f \in {"capacity", "pushed", "closed", "error"} : popped[f] = bs[f]
      BY <1>4, PopStream DEF PopWritten
<1>8. MinOf(n, bs.size) = n
      BY <1>1, <1>2, <1>4 DEF MinOf
<1>9. /\ popped.capacity = bs.capacity /\ popped.pushed = bs.pushed
      /\ popped.closed = bs.closed /\ popped.error = bs.error
      BY <1>7
<1>10. written = AfterWrite(ch, data)
       BY DEF front
<1> HIDE DEF data
<1>11. /\ written \in Channels /\ written.shut = ch.shut
       /\ Len(written.bytes) = Len(ch.bytes) + Len(data)
       /\ data = <<>> => written.bytes = ch.bytes
       /\ Readable(ch) => Readable(written)
  <2>1. /\ AfterWrite(ch, data) \in Channels /\ AfterWrite(ch, data).shut = ch.shut
        /\ Len(AfterWrite(ch, data).bytes) = Len(ch.bytes) + Len(data)
        /\ data = <<>> => AfterWrite(ch, data).bytes = ch.bytes
        /\ Readable(ch) => Readable(AfterWrite(ch, data))
        BY <1>5, ChannelWritten
  <2> QED BY <1>10, <2>1
<1> QED BY <1>1, <1>2, <1>4, <1>5, <1>6, <1>7, <1>8, <1>9, <1>11

LEMMA BytesAreWritten ==
    ASSUME IInv, WriteBytes
    PROVE  IInv'
<1>1. /\ PeerNow = tcp /\ ThreadInv(tcp, ThreadNow, up, down) /\ ThreadNow.at = "serve"
      /\ ThreadShapes(tcp, ThreadNow, up, down) /\ ThreadNow \in Threads
      /\ tcp \in SocketPeers /\ ~tcp.sender.retransmit /\ up \in Channels /\ down \in Channels
      BY ThreadIsNow DEF WriteBytes, ThreadServes, ThreadAt, ThreadInv, ThreadShapes
<1> DEFINE in == tcp.inbound
<1>2. PICK n \in WriteSizes(in, down) :
        \E popped \in {PopWritten(in, n)} :
           LET written == AfterWrite(down, SubSeq(Peek(in), 1, n))
               over == InboundOver(popped)
           IN  /\ killed' = (n > 0 /\ down.shut)
               /\ AfterEvent([tcp EXCEPT !.inbound = popped], outgoing,
                             [ThreadNow EXCEPT !.inbound_shutdown = @ \/ over],
                             up, IF over THEN Shut(written) ELSE written)
      BY <1>1 DEF WriteBytes
<1> DEFINE popped == PopWritten(in, n)
           written == AfterWrite(down, SubSeq(Peek(in), 1, n))
           over == InboundOver(popped)
           shut == ThreadNow.inbound_shutdown \/ over
           p == [tcp EXCEPT !.inbound = popped]
           th == [ThreadNow EXCEPT !.inbound_shutdown = shut]
           ch == IF over THEN Shut(written) ELSE written
<1>3. killed' = (n > 0 /\ down.shut) /\ AfterEvent(p, outgoing, th, up, ch)
      BY <1>2
<1>4. UNCHANGED <<abort, owner, typed, incoming, remote>>
      BY DEF WriteBytes
<1>5. in \in Streams /\ in \in Inbounds(RemoteTotal)
      BY <1>1 DEF SocketPeers, Peers, Inbounds
<1>6. /\ n \in Nat /\ n <= in.size
      /\ popped \in Streams /\ popped.popped = in.popped + n /\ popped.size = in.size - n
      /\ popped.capacity = in.capacity /\ popped.pushed = in.pushed
      /\ popped.closed = in.closed /\ popped.error = in.error
      /\ written \in Channels /\ written.shut = down.shut
      /\ Len(written.bytes) = Len(down.bytes) + n
      /\ n = 0 => written.bytes = down.bytes
      /\ Readable(down) => Readable(written)
      BY <1>1, <1>5, PartIsWritten
<1>7. popped \in Inbounds(RemoteTotal)
      BY <1>5, <1>6 DEF Inbounds
<1>8. over \in BOOLEAN /\ (over <=> popped.error \/ (popped.closed /\ popped.size = 0))
      BY DEF InboundOver, IsFinished
<1>9. /\ ch \in Channels /\ ch.bytes = written.bytes
      /\ ch.shut <=> (down.shut \/ over)
      BY <1>6, ShutType DEF Channels
<1>10. shut \in BOOLEAN /\ (shut <=> ThreadNow.inbound_shutdown \/ over)
       BY <1>1, <1>8 DEF Threads
<1> HIDE DEF popped, written, over, shut, ch
<1>11. p \in SocketPeers /\ ~p.sender.retransmit /\ p.inbound = popped /\ p.outbound = tcp.outbound
       BY <1>1, <1>7 DEF SocketPeers, Peers
<1>12. /\ th \in Threads /\ th.at = "serve" /\ th.rules = ThreadNow.rules /\ th.eof = ThreadNow.eof
       /\ th.inbound_shutdown = shut
       BY <1>1, <1>10 DEF Threads
<1> HIDE DEF p, th
<1>13. /\ in.size \in Nat /\ (ReceivedOver(tcp) => n = 0 /\ ReceivedOver(p))
       /\ over <=> p.inbound.error \/ ReceivedOver(p)
       /\ p.inbound.error = tcp.inbound.error
  <2>1. in.size \in Nat
        BY <1>5 DEF Streams
  <2>2. p.inbound.error = tcp.inbound.error /\ p.inbound.closed = in.closed
        /\ p.inbound.size = in.size - n
        BY <1>6, <1>11
  <2>3. in.size = 0 => n = 0 /\ p.inbound.size = 0
        BY <1>6, <2>1, <2>2
  <2>4. over <=> p.inbound.error \/ ReceivedOver(p)
        BY <1>8, <1>11 DEF ReceivedOver
  <2> QED BY <2>1, <2>2, <2>3, <2>4 DEF ReceivedOver
\* A shut channel is written to only if the connection has failed.
<1>14. down.shut => tcp.inbound.error \/ n = 0
       BY <1>1, <1>13 DEF ThreadInv, Shutting
<1>15. ThreadInv(p, th, up, ch)
  <2>1. ThreadShapes(p, th, up, ch)
        BY <1>1, <1>9, <1>11, <1>12 DEF ThreadShapes
  <2>2. ThreadRules(th, up, ch)
        BY <1>1, <1>9, <1>12 DEF ThreadInv, ThreadRules
  <2>3. Shutting(p, th, up, ch)
        BY <1>1, <1>9, <1>10, <1>11, <1>12, <1>13 DEF ThreadInv, Shutting
  <2>4. Counting(p, up, ch)
    <3>1. /\ owner.inbound.pushed \in Nat /\ Len(down.bytes) \in Nat
          /\ owner.inbound.pushed + Len(down.bytes) = tcp.inbound.popped
          /\ tcp.outbound.pushed + Len(up.bytes) = owner.outbound.popped
          BY <1>1 DEF ThreadInv, Counting, IInv, Shapes, Owners, Streams, Channels
    <3>2. owner.inbound.pushed + Len(ch.bytes) = p.inbound.popped
          BY <1>6, <1>9, <1>11, <3>1
    <3> QED BY <1>11, <3>1, <3>2 DEF Counting
  <2>5. OwnerChannels(p, up, ch)
    <3>1. Readable(down) => Readable(ch)
          BY <1>6, <1>9 DEF Readable
    <3>2. down.shut /\ (tcp.inbound.error \/ down.bytes = <<>>)
             => ch.shut /\ (p.inbound.error \/ ch.bytes = <<>>)
          BY <1>6, <1>9, <1>13, <1>14
    <3>3. down.shut => ch.shut
          BY <1>9
    <3> QED BY <1>1, <3>1, <3>2, <3>3 DEF ThreadInv, OwnerChannels
  <2> QED BY <2>1, <2>2, <2>3, <2>4, <2>5 DEF ThreadInv
<1>16. outgoing \in Seq(SegmentsOut) /\ incoming' \in Seq(SegmentsIn)
       /\ remote' \in Remotes /\ killed' \in BOOLEAN
       BY <1>3, <1>4 DEF IInv, Shapes
<1>17. killed' => p.inbound.error
  <2>1. CASE n = 0
    <3>1. ~(n > 0)
          BY <2>1
    <3> QED BY <1>3, <3>1
  <2>2. CASE n # 0
        BY <1>3, <1>13, <1>14, <2>2
  <2> QED BY <2>1, <2>2
<1>18. th.at # "done"
       BY <1>12
<1> QED BY <1>3, <1>4, <1>15, <1>16, <1>17, <1>18, EventEnds

\* A sequence of natural numbers is bounded: otherwise there would be a shortest
\* part of it that is not.
LEMMA BoundedValues ==
    ASSUME NEW n \in Nat, NEW f \in [1 .. n -> Nat]
    PROVE  \E B \in Nat : \A k \in 1 .. n : f[k] <= B
<1> DEFINE Bounds(m) == \E B \in Nat : \A k \in 1 .. m : f[k] <= B
           S == {m \in 0 .. n : ~Bounds(m)}
           m == Min(S)
<1>1. SUFFICES ASSUME ~Bounds(n)
               PROVE  FALSE
      OBVIOUS
<1>2. Bounds(0)
  <2>1. \A k \in 1 .. 0 : f[k] <= 0
        OBVIOUS
  <2> QED BY <2>1
<1> HIDE DEF Bounds
<1>3. S \in SUBSET Nat /\ n \in S
      BY <1>1
<1>4. m \in S /\ \A k \in S : m <= k
      BY <1>3, SmallestOf
<1> HIDE DEF m
<1>5. m \in 0 .. n /\ ~Bounds(m)
      BY <1>4
<1>6. m # 0
      BY <1>2, <1>5
<1> DEFINE l == m - 1
<1>7. l \in 0 .. n /\ ~(m <= l)
      BY <1>5, <1>6
<1> HIDE DEF l
<1>8. Bounds(l)
      BY <1>4, <1>7
<1>9. PICK B \in Nat : \A k \in 1 .. l : f[k] <= B
      BY <1>8 DEF Bounds
<1>10. m \in 1 .. n /\ f[m] \in Nat
       BY <1>5, <1>6
<1>11. PICK C \in Nat : B <= C /\ f[m] <= C
  <2>1. CASE B <= f[m]
        BY <1>9, <1>10, <2>1
  <2>2. CASE f[m] <= B
        BY <1>9, <1>10, <2>2
  <2> QED BY <1>9, <1>10, <2>1, <2>2
<1>12. \A k \in 1 .. m : f[k] <= C
  <2>1. TAKE k \in 1 .. m
  <2>2. CASE k = m
        BY <1>11, <2>2
  <2>3. CASE k # m
    <3>1. k \in 1 .. l /\ k \in 1 .. n
          BY <1>10, <2>3 DEF l
    <3>2. f[k] \in Nat /\ f[k] <= B
          BY <1>9, <3>1
    <3> QED BY <1>9, <1>11, <3>2
  <2> QED BY <2>2, <2>3
<1>13. Bounds(m)
       BY <1>12 DEF Bounds
<1> QED BY <1>5, <1>13

LEMMA LastNumberType ==
    ASSUME NEW seg \in SegmentsOut
    PROVE  LastNumber(seg) \in Nat
<1>1. ISN \in Raw /\ seg.seqno \in Raw /\ seg.payload \in Seq(Int)
      BY SocketModulus DEF SegmentsOut, OutgoingSegments
<1>2. Unwrap(seg.seqno, ISN, 0) \in Nat
      BY <1>1, UnwrapIsNat
<1>3. Bit(seg.SYN) \in {0, 1} /\ Bit(seg.FIN) \in {0, 1} /\ Len(seg.payload) \in Nat
      BY <1>1, BitValues
<1>4. SequenceLength(seg) \in Nat
      BY <1>3 DEF SequenceLength
<1> QED BY <1>2, <1>4 DEF LastNumber

LEMMA HeardType ==
    ASSUME NEW rem \in Remotes, NEW segments \in Seq(SegmentsOut)
    PROVE  Heard(rem, segments) \in Remotes
<1> DEFINE D == DOMAIN segments
           H == {rem.heard} \cup {LastNumber(segments[k]) : k \in D}
           A == {rem.acked} \cup {segments[k].ackno : k \in D}
           heard == Max(H)
           acked == Max(A)
           waiting == rem.waiting /\ segments = <<>>
           cut == rem.cut \/ \E k \in D : segments[k].RST
<1>1. D = 1 .. Len(segments) /\ Len(segments) \in Nat /\ \A k \in D : segments[k] \in SegmentsOut
      OBVIOUS
<1>2. \A k \in D : LastNumber(segments[k]) \in Nat
      BY <1>1, LastNumberType
<1>3. \A k \in D : segments[k].ackno \in 0 .. RemoteTotal + 2
  <2>1. TAKE k \in D
  <2>2. /\ segments[k].ackno \in Raw
        /\ \/ RawOffset(segments[k].ackno, 0) \in 1 .. RemoteTotal + 2
           \/ segments[k].ackno = 0
        BY <1>1 DEF SegmentsOut, OutgoingSegments
  <2> QED BY <2>2, OffsetOfZero, SocketModulus
<1>4. /\ rem.acked \in 1 .. RemoteTotal + 2 /\ rem.heard \in Nat
      /\ rem.waiting \in BOOLEAN /\ rem.cut \in BOOLEAN
      BY DEF Remotes
<1> HIDE DEF D
<1>5. acked \in 1 .. RemoteTotal + 2
  <2> DEFINE bound == RemoteTotal + 2
  <2>1. bound \in Nat /\ A \in SUBSET (0 .. bound) /\ rem.acked \in A
        BY <1>3, <1>4, SocketModulus
  <2> HIDE DEF A, bound
  <2>2. acked \in A /\ \A x \in A : x <= acked
        BY <2>1, LargestOf
  <2>3. acked \in 0 .. bound /\ rem.acked <= acked
        BY <2>1, <2>2
  <2> QED BY <1>4, <2>1, <2>3 DEF bound
<1>6. heard \in Nat
  <2> DEFINE f == [k \in 1 .. Len(segments) |-> LastNumber(segments[k])]
             n == Len(segments)
  <2>1. n \in Nat /\ f \in [1 .. n -> Nat]
        BY <1>1, <1>2
  <2>2. \A k \in D : f[k] = LastNumber(segments[k])
        BY <1>1
  <2> HIDE DEF f
  <2>3. PICK B \in Nat : \A k \in 1 .. n : f[k] <= B
        BY <2>1, BoundedValues
  <2>4. PICK C \in Nat : B <= C /\ rem.heard <= C
    <3>1. CASE B <= rem.heard
          BY <1>4, <2>3, <3>1
    <3>2. CASE rem.heard <= B
          BY <1>4, <2>3, <3>2
    <3> QED BY <1>4, <2>3, <3>1, <3>2
  <2>5. H \in SUBSET (0 .. C) /\ H # {}
    <3>1. \A k \in D : LastNumber(segments[k]) \in 0 .. C
      <4>1. TAKE k \in D
      <4>2. LastNumber(segments[k]) \in Nat /\ LastNumber(segments[k]) <= B
            BY <1>1, <1>2, <2>2, <2>3
      <4> QED BY <2>3, <2>4, <4>2
    <3>2. rem.heard \in 0 .. C
          BY <1>4, <2>4
    <3> QED BY <3>1, <3>2
  <2> HIDE DEF H
  <2>6. heard \in H
        BY <2>4, <2>5, LargestOf
  <2> HIDE DEF heard
  <2>7. heard \in 0 .. C
        BY <2>5, <2>6
  <2> QED BY <2>7
<1>7. waiting \in BOOLEAN /\ cut \in BOOLEAN
      OBVIOUS
<1>8. Heard(rem, segments) = [rem EXCEPT !.heard = heard, !.acked = acked,
                                         !.waiting = waiting, !.cut = cut]
      BY DEF Heard, D, Remotes
<1> HIDE DEF heard, acked, waiting, cut
<1> QED BY <1>5, <1>6, <1>7, <1>8 DEF Remotes

LEMMA SegmentsAreSent ==
    ASSUME IInv, SendSegments
    PROVE  IInv'
<1>1. PeerNow = tcp /\ ThreadInv(tcp, ThreadNow, up, down) /\ ThreadNow.at # "done"
      BY ThreadIsNow DEF SendSegments, ThreadServes, ThreadAt
<1>2. /\ AfterEvent(tcp, <<>>, ThreadNow, up, down) /\ remote' = Heard(remote, outgoing)
      /\ UNCHANGED <<abort, owner, typed, incoming, killed>>
      BY <1>1 DEF SendSegments
<1>3. remote' \in Remotes
      BY <1>2, HeardType DEF IInv, Shapes
<1>4. <<>> \in Seq(SegmentsOut)
      BY EmptySeq
<1>5. /\ incoming' \in Seq(SegmentsIn) /\ killed' \in BOOLEAN
      /\ killed' => tcp.inbound.error
      BY <1>2 DEF IInv, Shapes
<1> QED BY <1>1, <1>2, <1>3, <1>4, <1>5, EventEnds

-----------------------------------------------------------------------------
(* The steps of the owner *)

LEMMA OwnerCancels ==
    ASSUME NEW o \in Owners, NEW rules, NEW r, r = OwnerCancel(o, rules)
    PROVE  /\ r \in Owners /\ r.rules = o.rules \ rules
           /\ r.at = o.at /\ r.seen = o.seen /\ r.eof = o.eof /\ r.read = o.read
           /\ r.outbound_shutdown = o.outbound_shutdown /\ r.inbound_shutdown = o.inbound_shutdown
           /\ \A f \in {"capacity", "size", "pushed", "popped"} :
                 r.outbound[f] = o.outbound[f] /\ r.inbound[f] = o.inbound[f]
           /\ r.outbound.closed <=> (o.outbound.closed \/ 1 \in rules \/ 2 \in rules)
           /\ r.inbound.closed <=> (o.inbound.closed \/ 3 \in rules \/ 4 \in rules)
<1> DEFINE left == o.rules \ rules
           out == IF rules \cap {1, 2} # {} THEN WriterClose(o.outbound) ELSE o.outbound
           in == IF rules \cap {3, 4} # {} THEN WriterClose(o.inbound) ELSE o.inbound
<1>1. o.outbound \in Streams /\ o.inbound \in Streams /\ left \in SUBSET Rules
      BY DEF Owners
<1>2. /\ out \in Streams /\ \A f \in {"capacity", "size", "pushed", "popped"} : out[f] = o.outbound[f]
      /\ out.closed <=> (o.outbound.closed \/ 1 \in rules \/ 2 \in rules)
  <2>1. CASE rules \cap {1, 2} # {}
    <3>1. out = WriterClose(o.outbound)
          BY <2>1
    <3> HIDE DEF out
    <3>2. /\ out \in Streams /\ out.closed
          /\ \A f \in {"capacity", "size", "q", "pushed", "popped", "error"} : out[f] = o.outbound[f]
          BY <1>1, <3>1, CloseStream
    <3> QED BY <2>1, <3>2
  <2>2. CASE rules \cap {1, 2} = {}
    <3>1. out = o.outbound
          BY <2>2
    <3> HIDE DEF out
    <3> QED BY <1>1, <2>2, <3>1
  <2> QED BY <2>1, <2>2
<1>3. /\ in \in Streams /\ \A f \in {"capacity", "size", "pushed", "popped"} : in[f] = o.inbound[f]
      /\ in.closed <=> (o.inbound.closed \/ 3 \in rules \/ 4 \in rules)
  <2>1. CASE rules \cap {3, 4} # {}
    <3>1. in = WriterClose(o.inbound)
          BY <2>1
    <3> HIDE DEF in
    <3>2. /\ in \in Streams /\ in.closed
          /\ \A f \in {"capacity", "size", "q", "pushed", "popped", "error"} : in[f] = o.inbound[f]
          BY <1>1, <3>1, CloseStream
    <3> QED BY <2>1, <3>2
  <2>2. CASE rules \cap {3, 4} = {}
    <3>1. in = o.inbound
          BY <2>2
    <3> HIDE DEF in
    <3> QED BY <1>1, <2>2, <3>1
  <2> QED BY <2>1, <2>2
<1>4. r = [o EXCEPT !.rules = left, !.outbound = out, !.inbound = in]
      BY DEF OwnerCancel
<1> HIDE DEF left, out, in
<1>5. /\ r \in Owners /\ r.rules = left /\ r.outbound = out /\ r.inbound = in
      /\ r.at = o.at /\ r.seen = o.seen /\ r.eof = o.eof /\ r.read = o.read
      /\ r.outbound_shutdown = o.outbound_shutdown /\ r.inbound_shutdown = o.inbound_shutdown
      BY <1>1, <1>2, <1>3, <1>4 DEF Owners
<1> QED BY <1>2, <1>3, <1>5 DEF left

\* Rules that are cancelled before one is served: those of the socket, when the
\* pair has hung up.
Resumes(o) ==
    /\ o \in Owners /\ o.at = "poll" /\ o.seen = Nothing
    /\ o.eof = owner.eof /\ o.read = owner.read
    /\ o.outbound_shutdown = owner.outbound_shutdown
    /\ o.inbound_shutdown = owner.inbound_shutdown
    /\ o.outbound.capacity = owner.outbound.capacity /\ o.outbound.size = owner.outbound.size
    /\ o.outbound.pushed = owner.outbound.pushed /\ o.outbound.popped = owner.outbound.popped
    /\ o.inbound.capacity = owner.inbound.capacity /\ o.inbound.size = owner.inbound.size
    /\ o.inbound.pushed = owner.inbound.pushed /\ o.inbound.popped = owner.inbound.popped
    /\ \A r \in {1, 4} : r \in o.rules <=> r \in owner.rules
    /\ 2 \notin o.rules => up.shut
    /\ 3 \notin o.rules => down.shut
    /\ owner.outbound.closed => o.outbound.closed
    /\ o.outbound.closed => "stdin" \in owner.eof \/ 2 \notin o.rules
    /\ owner.inbound.closed => o.inbound.closed
    /\ o.inbound.closed => "socket" \in owner.eof \/ 3 \notin o.rules

LEMMA OwnerIsNow ==
    ASSUME IInv
    PROVE  Resumes(OwnerNow)
<1> DEFINE gone == Cancelled(owner.seen, ownerDir)
           left == OwnerCancel(owner, gone)
           o == OwnerNow
<1>1. owner \in Owners
      BY DEF IInv, Shapes
<1>2. gone \subseteq {2, 3} /\ (gone # {} => up.shut /\ down.shut)
  <2>1. gone \subseteq owner.seen.hup
        BY DefunctRules
  <2> HIDE DEF gone
  <2> QED BY <2>1 DEF IInv, OwnerInv, OwnerSeen, ThreadInv, OwnerChannels
<1>3. o = [left EXCEPT !.at = "poll", !.seen = Nothing]
      BY DEF OwnerNow
<1> HIDE DEF gone
<1>4. /\ left \in Owners /\ left.rules = owner.rules \ gone
      /\ left.eof = owner.eof /\ left.read = owner.read
      /\ left.outbound_shutdown = owner.outbound_shutdown
      /\ left.inbound_shutdown = owner.inbound_shutdown
      /\ \A f \in {"capacity", "size", "pushed", "popped"} :
            left.outbound[f] = owner.outbound[f] /\ left.inbound[f] = owner.inbound[f]
      /\ left.outbound.closed <=> (owner.outbound.closed \/ 1 \in gone \/ 2 \in gone)
      /\ left.inbound.closed <=> (owner.inbound.closed \/ 3 \in gone \/ 4 \in gone)
      BY <1>1, OwnerCancels
<1> HIDE DEF left, o
<1>5. /\ o \in Owners /\ o.at = "poll" /\ o.seen = Nothing /\ o.rules = left.rules
      /\ o.eof = left.eof /\ o.read = left.read
      /\ o.outbound = left.outbound /\ o.inbound = left.inbound
      /\ o.outbound_shutdown = left.outbound_shutdown /\ o.inbound_shutdown = left.inbound_shutdown
      BY <1>3, <1>4, NothingSeen DEF Owners
<1>6. /\ 2 \notin owner.rules => up.shut
      /\ 3 \notin owner.rules => down.shut
      BY DEF IInv, ThreadInv, OwnerChannels
<1>7. /\ owner.outbound.closed => "stdin" \in owner.eof \/ 2 \notin owner.rules
      /\ owner.inbound.closed => "socket" \in owner.eof \/ 3 \notin owner.rules
      BY DEF IInv, OwnerInv, OwnerStreams
<1>8. Resumes(o)
      BY <1>2, <1>4, <1>5, <1>6, <1>7 DEF Resumes
<1> QED BY <1>8 DEF o

\* What a step of the copy has to keep.
LEMMA OwnerEnds ==
    ASSUME IInv, ~abort, owner' \in Owners, owner'.at = "poll", owner'.seen = Nothing,
           UNCHANGED <<tcp, outgoing, thread, abort, typed, incoming, remote>>,
           up' \in Channels, down' \in Channels, up.shut => up'.shut, down.shut <=> down'.shut,
           Readable(up) => Readable(up)', SentOver => SentOver',
           up'.shut => up.shut \/ SentOver', SentOver => up'.bytes = up.bytes,
           OwnerRules', OwnerStreams', Reading', Counting(tcp, up, down)',
           OwnerChannels(tcp, up, down)', killed' \in BOOLEAN, killed' => tcp.inbound.error
    PROVE  IInv'
<1>1. ThreadInv(tcp, thread, up, down) /\ ThreadShapes(tcp, thread, up, down)
      BY DEF IInv, ThreadInv
<1>2. ThreadShapes(tcp, thread, up, down)' /\ ThreadRules(thread, up, down)'
      BY <1>1 DEF ThreadInv, ThreadShapes, ThreadRules
<1>3. Shutting(tcp, thread, up, down)'
      BY <1>1 DEF ThreadInv, Shutting, ReceivedOver
<1>4. ThreadSeen'
      BY DEF IInv, ThreadSeen
<1>5. OwnerSeen' /\ OwnerPlace'
      BY NothingSeen DEF OwnerSeen, OwnerPlace
<1>6. Shapes'
      BY <1>2 DEF IInv, Shapes
<1> QED BY <1>2, <1>3, <1>4, <1>5, <1>6 DEF IInv, ThreadInv, OwnerInv

LEMMA OwnerServesNoRule ==
    ASSUME IInv, OwnerServesNone
    PROVE  IInv'
<1> DEFINE o == OwnerNow
<1>1. /\ owner.at = "serve" /\ owner' = o
      /\ UNCHANGED <<tcp, outgoing, thread, abort, up, down, typed, incoming, remote, killed>>
      BY DEF OwnerServesNone, OwnerAt
<1>2. Resumes(o)
      BY OwnerIsNow
<1> HIDE DEF o
<1>3. ~abort /\ OwnerRules /\ OwnerStreams /\ Reading /\ Counting(tcp, up, down)
      /\ OwnerChannels(tcp, up, down) /\ up \in Channels /\ down \in Channels
      BY <1>1 DEF IInv, OwnerInv, OwnerPlace, ThreadInv, ThreadShapes
<1>4. OwnerRules'
      BY <1>1, <1>2, <1>3 DEF Resumes, OwnerRules
<1>5. OwnerStreams' /\ (SentOver => SentOver')
      BY <1>1, <1>2, <1>3 DEF Resumes, OwnerStreams, SentOver, TypedOver
<1>6. Reading' /\ Counting(tcp, up, down)'
      BY <1>1, <1>2, <1>3 DEF Resumes, Reading, Counting
<1>7. OwnerChannels(tcp, up, down)'
      BY <1>1, <1>2, <1>3, NothingSeen DEF Resumes, OwnerChannels
<1>8. /\ killed' \in BOOLEAN /\ (killed' => tcp.inbound.error)
      /\ owner' \in Owners /\ owner'.at = "poll" /\ owner'.seen = Nothing
      /\ up' = up /\ down' = down /\ (Readable(up) => Readable(up)')
      BY <1>1, <1>2 DEF IInv, Shapes, Resumes
<1> QED BY <1>1, <1>3, <1>4, <1>5, <1>6, <1>7, <1>8, OwnerEnds

LEMMA TerminalIsRead ==
    ASSUME IInv, ReadTerminal
    PROVE  IInv'
<1> DEFINE o == OwnerNow
           n == MinOf(AvailableCapacity(o.outbound), MinOf(typed, Typed) - owner.read)
           data == [i \in 1 .. n |-> owner.read + i - 1]
           pushed == WriterPush(o.outbound, data)
           ended == WriterClose(o.outbound)
           eof == o.eof \cup {"stdin"}
           read == o.read + n
<1>1. /\ owner.at = "serve"
      /\ owner' = IF n = 0 THEN [o EXCEPT !.eof = eof, !.outbound = ended]
                  ELSE [o EXCEPT !.read = read, !.outbound = pushed]
      /\ UNCHANGED <<tcp, outgoing, thread, abort, up, down, typed, incoming, remote, killed>>
      BY DEF ReadTerminal, OwnerServes, OwnerAt
<1>2. Resumes(o) /\ o \in Owners /\ o.outbound \in Streams
      BY OwnerIsNow DEF Resumes, Owners
<1>3. 1 \in owner.seen.ready
      BY ServedRule DEF ReadTerminal, OwnerServes, IInv, Shapes, Owners
<1>4. /\ typed > owner.read /\ owner.outbound.size < owner.outbound.capacity
      /\ 1 \in owner.rules /\ "stdin" \notin owner.eof
      BY <1>1, <1>3 DEF IInv, OwnerInv, OwnerSeen, OwnerRules
<1>5. ~abort /\ OwnerRules /\ OwnerStreams /\ Reading /\ Counting(tcp, up, down)
      /\ OwnerChannels(tcp, up, down) /\ up \in Channels /\ down \in Channels
      BY <1>1 DEF IInv, OwnerInv, OwnerPlace, ThreadInv, ThreadShapes
<1>6. /\ o.read = owner.read /\ o.outbound.size < o.outbound.capacity
      /\ o.outbound.pushed = owner.read
      /\ o.outbound.size \in Nat /\ o.outbound.capacity \in Nat /\ o.outbound.pushed \in Nat
      /\ owner.read \in Nat /\ typed \in Nat /\ Typed \in Nat
      BY <1>2, <1>4, <1>5, SocketModulus DEF Resumes, Reading, Streams, IInv, Shapes, Owners
<1>7. /\ n \in Nat /\ n <= o.outbound.capacity - o.outbound.size
      /\ owner.read + n <= typed /\ owner.read + n <= Typed
      /\ n = 0 => owner.read = Typed /\ typed = Typed + 1
      BY <1>4, <1>5, <1>6 DEF AvailableCapacity, MinOf, Reading
<1>8. ~SentOver
      BY <1>4 DEF SentOver, TypedOver
<1>9. CASE n = 0
  <2> HIDE DEF n
  <2>1. /\ ended \in Streams /\ ended.closed
        /\ \A f \in {"capacity", "size", "q", "pushed", "popped", "error"} : ended[f] = o.outbound[f]
        BY <1>2, CloseStream
  <2>2. eof \in SUBSET {"stdin", "socket"} /\ eof = owner.eof \cup {"stdin"}
        BY <1>2 DEF Owners, Resumes
  <2>3. ended.capacity = o.outbound.capacity /\ ended.pushed = o.outbound.pushed
        /\ ended.popped = o.outbound.popped
        BY <2>1
  <2> HIDE DEF ended, eof, o
  <2>4. /\ owner' \in Owners /\ owner'.at = o.at /\ owner'.seen = o.seen /\ owner'.rules = o.rules
        /\ owner'.eof = eof /\ owner'.read = o.read /\ owner'.outbound = ended
        /\ owner'.inbound = o.inbound /\ owner'.outbound_shutdown = o.outbound_shutdown
        /\ owner'.inbound_shutdown = o.inbound_shutdown
        BY <1>1, <1>2, <1>9, <2>1, <2>2 DEF Owners
  <2>5. OwnerRules'
        BY <1>2, <1>5, <2>2, <2>4 DEF Resumes, OwnerRules
  <2>6. OwnerStreams'
        BY <1>1, <1>2, <1>5, <1>6, <1>7, <1>9, <2>1, <2>2, <2>3, <2>4
        DEF Resumes, OwnerStreams, TypedOver
  <2>7. Reading' /\ Counting(tcp, up, down)'
        BY <1>1, <1>2, <1>5, <2>3, <2>4 DEF Resumes, Reading, Counting
  <2>8. OwnerChannels(tcp, up, down)'
        BY <1>1, <1>2, <1>5, <2>2, <2>4, NothingSeen DEF Resumes, OwnerChannels
  <2>9. /\ killed' \in BOOLEAN /\ (killed' => tcp.inbound.error)
        /\ owner' \in Owners /\ owner'.at = "poll" /\ owner'.seen = Nothing
        /\ up' = up /\ down' = down /\ (Readable(up) => Readable(up)')
        BY <1>1, <1>2, <2>4 DEF IInv, Shapes, Resumes
  <2> QED BY <1>1, <1>5, <1>8, <2>5, <2>6, <2>7, <2>8, <2>9, OwnerEnds
<1>10. CASE n # 0
  <2> HIDE DEF n
  <2>1. data \in Seq(Int) /\ Len(data) = n
        BY <1>6, <1>7
  <2> HIDE DEF data
  <2>2. /\ pushed \in Streams
        /\ pushed.pushed = o.outbound.pushed
                           + MinOf(o.outbound.capacity - o.outbound.size, Len(data))
        /\ \A f \in {"capacity", "popped", "closed", "error"} : pushed[f] = o.outbound[f]
        BY <1>2, <2>1, PushStream
  <2>3. MinOf(o.outbound.capacity - o.outbound.size, Len(data)) = n
        BY <1>6, <1>7, <2>1 DEF MinOf
  <2>4. /\ pushed.capacity = o.outbound.capacity /\ pushed.popped = o.outbound.popped
        /\ pushed.closed = o.outbound.closed /\ pushed.pushed = o.outbound.pushed + n
        BY <2>2, <2>3
  <2>5. read \in Nat /\ read = owner.read + n
        BY <1>6, <1>7
  <2> HIDE DEF pushed, read, o
  <2>6. /\ owner' \in Owners /\ owner'.at = o.at /\ owner'.seen = o.seen /\ owner'.rules = o.rules
        /\ owner'.eof = o.eof /\ owner'.read = read /\ owner'.outbound = pushed
        /\ owner'.inbound = o.inbound /\ owner'.outbound_shutdown = o.outbound_shutdown
        /\ owner'.inbound_shutdown = o.inbound_shutdown
        BY <1>1, <1>2, <1>10, <2>2, <2>5 DEF Owners
  <2>7. OwnerRules'
        BY <1>2, <1>5, <2>6 DEF Resumes, OwnerRules
  <2>8. OwnerStreams'
        BY <1>1, <1>2, <1>4, <1>5, <2>4, <2>6 DEF Resumes, OwnerStreams, TypedOver
  <2>9. Reading' /\ Counting(tcp, up, down)'
        BY <1>1, <1>2, <1>5, <1>6, <1>7, <2>4, <2>5, <2>6 DEF Resumes, Reading, Counting
  <2>10. OwnerChannels(tcp, up, down)'
        BY <1>1, <1>2, <1>5, <2>6, NothingSeen DEF Resumes, OwnerChannels
  <2>11. /\ killed' \in BOOLEAN /\ (killed' => tcp.inbound.error)
        /\ owner' \in Owners /\ owner'.at = "poll" /\ owner'.seen = Nothing
        /\ up' = up /\ down' = down /\ (Readable(up) => Readable(up)')
        BY <1>1, <1>2, <2>6 DEF IInv, Shapes, Resumes
  <2> QED BY <1>1, <1>5, <1>8, <2>7, <2>8, <2>9, <2>10, <2>11, OwnerEnds
<1> QED BY <1>9, <1>10

LEMMA SocketIsWritten ==
    ASSUME IInv, WriteSocket
    PROVE  IInv'
<1> DEFINE o == OwnerNow
           out == o.outbound
<1>1. PICK n \in WriteSizes(out, up) :
        \E popped \in {PopWritten(out, n)} :
           LET written == AfterWrite(up, SubSeq(Peek(out), 1, n))
           IN  /\ killed' = (n > 0 /\ up.shut)
               /\ owner' = [o EXCEPT !.outbound = popped,
                                     !.outbound_shutdown = @ \/ IsFinished(popped)]
               /\ up' = IF IsFinished(popped) THEN Shut(written) ELSE written
      BY DEF WriteSocket
<1> DEFINE popped == PopWritten(out, n)
           written == AfterWrite(up, SubSeq(Peek(out), 1, n))
           over == IsFinished(popped)
           shut == o.outbound_shutdown \/ over
<1>2. /\ killed' = (n > 0 /\ up.shut)
      /\ owner' = [o EXCEPT !.outbound = popped, !.outbound_shutdown = shut]
      /\ up' = IF over THEN Shut(written) ELSE written
      BY <1>1
<1>3. /\ owner.at = "serve"
      /\ UNCHANGED <<tcp, outgoing, thread, abort, down, typed, incoming, remote>>
      BY DEF WriteSocket, OwnerServes, OwnerAt
<1>4. Resumes(o) /\ o \in Owners /\ out \in Streams /\ out.size \in Nat
      BY OwnerIsNow DEF Resumes, Owners, Streams
<1>5. ~abort /\ OwnerRules /\ OwnerStreams /\ Reading /\ Counting(tcp, up, down)
      /\ OwnerChannels(tcp, up, down) /\ Shutting(tcp, thread, up, down)
      /\ tcp \in SocketPeers /\ up \in Channels /\ down \in Channels
      BY <1>3 DEF IInv, OwnerInv, OwnerPlace, ThreadInv, ThreadShapes
<1>6. /\ n \in Nat /\ n <= out.size
      /\ popped \in Streams /\ popped.popped = out.popped + n /\ popped.size = out.size - n
      /\ popped.capacity = out.capacity /\ popped.pushed = out.pushed
      /\ popped.closed = out.closed /\ popped.error = out.error
      /\ written \in Channels /\ written.shut = up.shut
      /\ Len(written.bytes) = Len(up.bytes) + n
      /\ n = 0 => written.bytes = up.bytes
      /\ Readable(up) => Readable(written)
      BY <1>4, <1>5, PartIsWritten
<1>7. over \in BOOLEAN /\ (over <=> popped.closed /\ popped.size = 0)
      BY <1>6 DEF IsFinished, Streams
<1>8. shut \in BOOLEAN /\ (shut <=> o.outbound_shutdown \/ over)
      BY <1>4, <1>7 DEF Owners
<1> HIDE DEF popped, written, over, shut
<1>9. /\ up' \in Channels /\ up'.bytes = written.bytes
      /\ up'.shut <=> (up.shut \/ over)
      BY <1>2, <1>6, ShutType DEF Channels
<1>10. Readable(up) => Readable(up)'
       BY <1>6, <1>9 DEF Readable
<1> HIDE DEF o
<1>11. /\ owner' \in Owners /\ owner'.at = o.at /\ owner'.seen = o.seen /\ owner'.rules = o.rules
       /\ owner'.eof = o.eof /\ owner'.read = o.read /\ owner'.outbound = popped
       /\ owner'.inbound = o.inbound /\ owner'.outbound_shutdown = shut
       /\ owner'.inbound_shutdown = o.inbound_shutdown
       BY <1>2, <1>4, <1>6, <1>8 DEF Owners
<1>12. SentOver => n = 0 /\ SentOver' /\ up'.bytes = up.bytes
       BY <1>3, <1>4, <1>6, <1>9, <1>11 DEF Resumes, SentOver, TypedOver
\* A shut channel is written to only if the connection has failed.
<1>13. up.shut => tcp.inbound.error \/ n = 0
       BY <1>5, <1>12 DEF Shutting
<1>14. OwnerRules'
       BY <1>4, <1>5, <1>11 DEF Resumes, OwnerRules
<1>15. OwnerStreams'
       BY <1>3, <1>4, <1>5, <1>6, <1>11 DEF Resumes, OwnerStreams, TypedOver
<1>16. up'.shut => up.shut \/ SentOver'
  <2>1. SUFFICES ASSUME over, ~up.shut
                 PROVE  SentOver'
        BY <1>9
  <2>2. "stdin" \in owner.eof
        BY <1>4, <1>6, <1>7, <2>1 DEF Resumes
  <2> QED BY <1>3, <1>4, <1>5, <1>7, <1>11, <2>1, <2>2 DEF Resumes, OwnerStreams, SentOver, TypedOver
<1>17. Reading'
       BY <1>3, <1>4, <1>5, <1>6, <1>11 DEF Resumes, Reading
<1>18. Counting(tcp, up, down)'
  <2>1. tcp.outbound.pushed \in Nat /\ Len(up.bytes) \in Nat
        BY <1>5 DEF SocketPeers, Peers, Streams, Channels
  <2>2. out.popped = tcp.outbound.pushed + Len(up.bytes)
        BY <1>4, <1>5 DEF Resumes, Counting
  <2>3. Len(up'.bytes) = Len(up.bytes) + n /\ owner'.outbound.popped = out.popped + n
        BY <1>6, <1>9, <1>11
  <2>4. tcp.outbound.pushed + Len(up'.bytes) = owner'.outbound.popped
        BY <1>6, <2>1, <2>2, <2>3
  <2> QED BY <1>3, <1>4, <1>5, <1>11, <2>4 DEF Resumes, Counting
<1>19. OwnerChannels(tcp, up, down)'
       BY <1>3, <1>4, <1>5, <1>8, <1>9, <1>11, NothingSeen DEF Resumes, OwnerChannels
<1>20. killed' \in BOOLEAN /\ (killed' => tcp.inbound.error)
  <2>1. CASE n = 0
    <3>1. ~(n > 0)
          BY <2>1
    <3> QED BY <1>2, <3>1
  <2>2. CASE n # 0
        BY <1>2, <1>13, <2>2
  <2> QED BY <2>1, <2>2
<1>21. owner'.at = "poll" /\ owner'.seen = Nothing
       BY <1>4, <1>11 DEF Resumes
<1>22. (up.shut => up'.shut) /\ (down.shut <=> down'.shut)
       BY <1>3, <1>9
<1> QED BY <1>3, <1>5, <1>9, <1>10, <1>11, <1>12, <1>14, <1>15, <1>16, <1>17, <1>18, <1>19,
           <1>20, <1>21, <1>22, OwnerEnds

LEMMA SocketIsRead ==
    ASSUME IInv, ReadSocket
    PROVE  IInv'
<1> DEFINE o == OwnerNow
           in == o.inbound
           room == AvailableCapacity(in)
           data == ReadData(down, room)
           pushed == WriterPush(in, data)
           ended == WriterClose(in)
           eof == o.eof \cup {"socket"}
<1>1. /\ owner.at = "serve"
      /\ owner' = IF EofRead(down) THEN [o EXCEPT !.eof = eof, !.inbound = ended]
                  ELSE [o EXCEPT !.inbound = pushed]
      /\ down' = AfterRead(down, room)
      /\ UNCHANGED <<tcp, outgoing, thread, abort, up, typed, incoming, remote, killed>>
      BY DEF ReadSocket, OwnerServes, OwnerAt
<1>2. Resumes(o) /\ o \in Owners /\ in \in Streams
      BY OwnerIsNow DEF Resumes, Owners
<1>3. 3 \in owner.seen.ready
      BY ServedRule DEF ReadSocket, OwnerServes, IInv, Shapes, Owners
<1>4. ~abort /\ OwnerRules /\ OwnerStreams /\ Reading /\ Counting(tcp, up, down)
      /\ OwnerChannels(tcp, up, down) /\ up \in Channels /\ down \in Channels
      /\ tcp \in SocketPeers /\ owner \in Owners
      BY <1>1 DEF IInv, Shapes, OwnerInv, OwnerPlace, ThreadInv, ThreadShapes
<1>5. Readable(down) /\ 3 \in owner.rules /\ "socket" \notin owner.eof
      BY <1>1, <1>3, <1>4 DEF OwnerChannels, OwnerRules
<1>6. ~owner.inbound.closed /\ ~owner.inbound_shutdown
      BY <1>4, <1>5 DEF OwnerStreams
<1>7. room \in Nat /\ room = in.capacity - in.size
      BY <1>2 DEF Streams, AvailableCapacity
<1>8. /\ data \in Seq(Int) /\ Len(data) = MinOf(room, Len(down.bytes))
      /\ down' \in Channels /\ down'.shut = down.shut
      /\ Len(down'.bytes) = Len(down.bytes) - MinOf(room, Len(down.bytes))
      /\ down.bytes = <<>> => down'.bytes = <<>>
      BY <1>1, <1>4, <1>7, ChannelRead
<1>9. SentOver => SentOver'
  <2>1. owner'.eof \in {o.eof, eof} /\ owner'.read = o.read /\ owner'.outbound = o.outbound
        BY <1>1, <1>2 DEF Owners
  <2> QED BY <1>1, <1>2, <2>1 DEF Resumes, SentOver, TypedOver
<1>10. CASE EofRead(down)
  <2>1. down.bytes = <<>> /\ down.shut
        BY <1>5, <1>10 DEF EofRead, Readable
  <2>2. /\ ended \in Streams /\ ended.closed
        /\ \A f \in {"capacity", "size", "q", "pushed", "popped", "error"} : ended[f] = in[f]
        BY <1>2, CloseStream
  <2>3. eof \in SUBSET {"stdin", "socket"} /\ eof = owner.eof \cup {"socket"}
        BY <1>2 DEF Owners, Resumes
  <2>4. ended.capacity = in.capacity /\ ended.pushed = in.pushed
        BY <2>2
  <2> HIDE DEF ended, eof, o
  <2>5. /\ owner' \in Owners /\ owner'.at = o.at /\ owner'.seen = o.seen /\ owner'.rules = o.rules
        /\ owner'.eof = eof /\ owner'.read = o.read /\ owner'.inbound = ended
        /\ owner'.outbound = o.outbound /\ owner'.outbound_shutdown = o.outbound_shutdown
        /\ owner'.inbound_shutdown = o.inbound_shutdown
        BY <1>1, <1>2, <1>10, <2>2, <2>3 DEF Owners
  <2>6. OwnerRules'
        BY <1>2, <1>4, <2>3, <2>5 DEF Resumes, OwnerRules
  <2>7. OwnerStreams'
        BY <1>1, <1>2, <1>4, <1>6, <2>2, <2>3, <2>4, <2>5 DEF Resumes, OwnerStreams, TypedOver
  <2>8. Reading'
        BY <1>1, <1>2, <1>4, <2>5 DEF Resumes, Reading
  <2>9. Counting(tcp, up, down)'
        BY <1>1, <1>2, <1>4, <1>8, <2>1, <2>4, <2>5 DEF Resumes, Counting
  <2>10. OwnerChannels(tcp, up, down)'
        BY <1>1, <1>2, <1>4, <1>8, <2>1, <2>3, <2>5, NothingSeen DEF Resumes, OwnerChannels
  <2>11. /\ killed' \in BOOLEAN /\ (killed' => tcp.inbound.error)
         /\ owner' \in Owners /\ owner'.at = "poll" /\ owner'.seen = Nothing
         /\ up' = up /\ (Readable(up) => Readable(up)')
        BY <1>1, <1>2, <2>5 DEF IInv, Shapes, Resumes
  <2> QED BY <1>1, <1>4, <1>8, <1>9, <2>6, <2>7, <2>8, <2>9, <2>10, <2>11, OwnerEnds
<1>11. CASE ~EofRead(down)
  <2> HIDE DEF data
  <2>1. /\ pushed \in Streams
        /\ pushed.pushed = in.pushed + MinOf(in.capacity - in.size, Len(data))
        /\ \A f \in {"capacity", "popped", "closed", "error"} : pushed[f] = in[f]
        BY <1>2, <1>8, PushStream
  <2>2. MinOf(in.capacity - in.size, Len(data)) = MinOf(room, Len(down.bytes))
    <3> HIDE DEF room
    <3>1. Len(down.bytes) \in Nat
          BY <1>4 DEF Channels
    <3> QED BY <1>7, <1>8, <3>1 DEF MinOf
  <2>3. /\ pushed.capacity = in.capacity /\ pushed.closed = in.closed
        /\ pushed.pushed = in.pushed + MinOf(room, Len(down.bytes))
        BY <2>1, <2>2
  <2> HIDE DEF pushed, room, o
  <2>4. /\ owner' \in Owners /\ owner'.at = o.at /\ owner'.seen = o.seen /\ owner'.rules = o.rules
        /\ owner'.eof = o.eof /\ owner'.read = o.read /\ owner'.inbound = pushed
        /\ owner'.outbound = o.outbound /\ owner'.outbound_shutdown = o.outbound_shutdown
        /\ owner'.inbound_shutdown = o.inbound_shutdown
        BY <1>1, <1>2, <1>11, <2>1 DEF Owners
  <2>5. OwnerRules'
        BY <1>2, <1>4, <2>4 DEF Resumes, OwnerRules
  <2>6. OwnerStreams'
        BY <1>1, <1>2, <1>4, <1>6, <2>3, <2>4 DEF Resumes, OwnerStreams, TypedOver
  <2>7. Reading'
        BY <1>1, <1>2, <1>4, <2>4 DEF Resumes, Reading
  <2>8. Counting(tcp, up, down)'
    <3>1. in.pushed \in Nat /\ Len(down.bytes) \in Nat
          BY <1>2, <1>4 DEF Streams, Channels
    <3>2. MinOf(room, Len(down.bytes)) \in Nat
          BY <1>7, <3>1 DEF MinOf
    <3>3. owner'.inbound.pushed + Len(down'.bytes) = in.pushed + Len(down.bytes)
          BY <1>8, <2>3, <2>4, <3>1, <3>2
    <3> QED BY <1>1, <1>2, <1>4, <2>4, <3>3 DEF Resumes, Counting
  <2>9. OwnerChannels(tcp, up, down)'
        BY <1>1, <1>2, <1>4, <1>8, <2>4, NothingSeen DEF Resumes, OwnerChannels
  <2>10. /\ killed' \in BOOLEAN /\ (killed' => tcp.inbound.error)
         /\ owner' \in Owners /\ owner'.at = "poll" /\ owner'.seen = Nothing
         /\ up' = up /\ (Readable(up) => Readable(up)')
        BY <1>1, <1>2, <2>4 DEF IInv, Shapes, Resumes
  <2> QED BY <1>1, <1>4, <1>8, <1>9, <2>5, <2>6, <2>7, <2>8, <2>9, <2>10, OwnerEnds
<1> QED BY <1>10, <1>11

LEMMA TerminalIsWritten ==
    ASSUME IInv, WriteTerminal
    PROVE  IInv'
<1> DEFINE o == OwnerNow
           in == o.inbound
<1>1. Resumes(o) /\ o \in Owners /\ in \in Streams /\ in.size \in Nat
      BY OwnerIsNow DEF Resumes, Owners, Streams
<1>2. PICK n \in IF in.size > 0 THEN 1 .. Len(Peek(in)) ELSE {0} :
         owner' = [o EXCEPT !.inbound = PopWritten(in, n),
                            !.inbound_shutdown = @ \/ IsFinished(PopWritten(in, n))]
      BY DEF WriteTerminal
<1> DEFINE popped == PopWritten(in, n)
           shut == o.inbound_shutdown \/ IsFinished(popped)
<1>3. owner' = [o EXCEPT !.inbound = popped, !.inbound_shutdown = shut]
      BY <1>2
<1>4. /\ owner.at = "serve"
      /\ UNCHANGED <<tcp, outgoing, thread, abort, up, down, typed, incoming, remote, killed>>
      BY DEF WriteTerminal, OwnerServes, OwnerAt
<1>5. ~abort /\ OwnerRules /\ OwnerStreams /\ Reading /\ Counting(tcp, up, down)
      /\ OwnerChannels(tcp, up, down) /\ up \in Channels /\ down \in Channels
      BY <1>4 DEF IInv, OwnerInv, OwnerPlace, ThreadInv, ThreadShapes
<1>6. n \in Nat
  <2>1. Len(Peek(in)) \in Nat
        BY <1>1, PeekStream
  <2> QED BY <2>1
<1>7. /\ popped \in Streams
      /\ popped.size = in.size - MinOf(n, in.size)
      /\ \A f \in {"capacity", "pushed", "closed", "error"} : popped[f] = in[f]
      BY <1>1, <1>6, PopStream DEF PopWritten
<1>8. /\ popped.capacity = in.capacity /\ popped.pushed = in.pushed /\ popped.closed = in.closed
      /\ in.size = 0 => popped.size = 0
      BY <1>1, <1>6, <1>7 DEF MinOf
<1>9. shut \in BOOLEAN /\ (shut <=> o.inbound_shutdown \/ (popped.closed /\ popped.size = 0))
      BY <1>1 DEF Owners, IsFinished
<1> HIDE DEF popped, shut, o
<1>10. /\ owner' \in Owners /\ owner'.at = o.at /\ owner'.seen = o.seen /\ owner'.rules = o.rules
       /\ owner'.eof = o.eof /\ owner'.read = o.read /\ owner'.inbound = popped
       /\ owner'.outbound = o.outbound /\ owner'.outbound_shutdown = o.outbound_shutdown
       /\ owner'.inbound_shutdown = shut
       BY <1>1, <1>3, <1>7, <1>9 DEF Owners
<1>11. OwnerRules'
       BY <1>1, <1>5, <1>9, <1>10 DEF Resumes, OwnerRules
<1>12. OwnerStreams' /\ (SentOver => SentOver')
       BY <1>1, <1>4, <1>5, <1>8, <1>9, <1>10 DEF Resumes, OwnerStreams, SentOver, TypedOver
<1>13. Reading' /\ Counting(tcp, up, down)'
       BY <1>1, <1>4, <1>5, <1>8, <1>10 DEF Resumes, Reading, Counting
<1>14. OwnerChannels(tcp, up, down)'
       BY <1>1, <1>4, <1>5, <1>10, NothingSeen DEF Resumes, OwnerChannels
<1>15. /\ killed' \in BOOLEAN /\ (killed' => tcp.inbound.error)
       /\ owner'.at = "poll" /\ owner'.seen = Nothing
       /\ up' = up /\ down' = down /\ (Readable(up) => Readable(up)')
       BY <1>1, <1>4, <1>10 DEF IInv, Shapes, Resumes
<1> QED BY <1>4, <1>5, <1>10, <1>11, <1>12, <1>13, <1>14, <1>15, OwnerEnds

\* Rules that have come to their end before poll is called.
LEMMA OwnerIsLeft ==
    ASSUME IInv, NEW o, o = OwnerLeft
    PROVE  /\ o \in Owners /\ o.seen = owner.seen /\ o.eof = owner.eof /\ o.read = owner.read
           /\ o.outbound_shutdown = owner.outbound_shutdown
           /\ o.inbound_shutdown = owner.inbound_shutdown
           /\ o.outbound.capacity = owner.outbound.capacity /\ o.outbound.size = owner.outbound.size
           /\ o.outbound.pushed = owner.outbound.pushed /\ o.outbound.popped = owner.outbound.popped
           /\ o.inbound.capacity = owner.inbound.capacity /\ o.inbound.size = owner.inbound.size
           /\ o.inbound.pushed = owner.inbound.pushed
           /\ 1 \in o.rules <=> (1 \in owner.rules /\ "stdin" \notin owner.eof)
           /\ 2 \in o.rules <=> 2 \in owner.rules
           /\ 3 \in o.rules <=> (3 \in owner.rules /\ "socket" \notin owner.eof)
           /\ 4 \in o.rules <=> (4 \in owner.rules /\ ~owner.inbound_shutdown)
           /\ o.outbound.closed = owner.outbound.closed
           /\ o.inbound.closed <=> (owner.inbound.closed
                                    \/ (3 \in owner.rules /\ "socket" \in owner.eof))
<1> DEFINE closed == IF owner.inbound_shutdown THEN {"stdout"} ELSE {}
           spent == Spent(owner.rules, ownerFd, ownerDir, owner.eof, closed)
<1>1. owner \in Owners /\ OwnerStreams
      BY DEF IInv, Shapes, OwnerInv
<1>2. /\ spent \subseteq owner.rules
      /\ 1 \in spent <=> (1 \in owner.rules /\ "stdin" \in owner.eof)
      /\ 2 \notin spent
      /\ 3 \in spent <=> (3 \in owner.rules /\ "socket" \in owner.eof)
      /\ 4 \in spent <=> (4 \in owner.rules /\ owner.inbound_shutdown)
      BY <1>1 DEF Spent, ownerFd, ownerDir, In, Out, Owners, Rules
<1>3. o = OwnerCancel(owner, spent)
      BY DEF OwnerLeft
<1> HIDE DEF spent
<1>4. /\ o \in Owners /\ o.rules = owner.rules \ spent
      /\ o.at = owner.at /\ o.seen = owner.seen /\ o.eof = owner.eof /\ o.read = owner.read
      /\ o.outbound_shutdown = owner.outbound_shutdown
      /\ o.inbound_shutdown = owner.inbound_shutdown
      /\ \A f \in {"capacity", "size", "pushed", "popped"} :
            o.outbound[f] = owner.outbound[f] /\ o.inbound[f] = owner.inbound[f]
      /\ o.outbound.closed <=> (owner.outbound.closed \/ 1 \in spent \/ 2 \in spent)
      /\ o.inbound.closed <=> (owner.inbound.closed \/ 3 \in spent \/ 4 \in spent)
      BY <1>1, <1>3, OwnerCancels
<1>5. o.outbound \in Streams /\ owner.outbound \in Streams
      BY <1>1, <1>4 DEF Owners
<1>6. o.outbound.closed = owner.outbound.closed
      BY <1>1, <1>2, <1>4, <1>5 DEF OwnerStreams, Streams
<1>7. o.inbound.closed <=> (owner.inbound.closed
                            \/ (3 \in owner.rules /\ "socket" \in owner.eof))
      BY <1>1, <1>2, <1>4 DEF OwnerStreams
<1> QED BY <1>2, <1>4, <1>6, <1>7

\* What a step of the owner has to keep that leaves the channels alone.
LEMMA OwnerMoves ==
    ASSUME IInv, owner' \in Owners, abort' \in BOOLEAN, abort => abort',
           UNCHANGED <<tcp, outgoing, thread, typed, incoming, remote, killed>>,
           up' = up, down' = down, SentOver => SentOver', OwnerInv',
           Counting(tcp, up, down)', OwnerChannels(tcp, up, down)'
    PROVE  IInv'
<1>1. ThreadInv(tcp, thread, up, down) /\ ThreadShapes(tcp, thread, up, down)
      BY DEF IInv, ThreadInv
<1>2. ThreadShapes(tcp, thread, up, down)' /\ ThreadRules(thread, up, down)'
      BY <1>1 DEF ThreadInv, ThreadShapes, ThreadRules
<1>3. Shutting(tcp, thread, up, down)'
      BY <1>1 DEF ThreadInv, Shutting, ReceivedOver
<1>4. ThreadSeen'
      BY DEF IInv, ThreadSeen, Readable
<1>5. Shapes'
      BY <1>2 DEF IInv, Shapes
<1>6. (killed => tcp.inbound.error)'
      BY DEF IInv
<1> QED BY <1>2, <1>3, <1>4, <1>5, <1>6 DEF IInv, ThreadInv

\* The copy ends when no rule is of interest: both ends of the socket are shut.
LEMMA CopyIsOver ==
    ASSUME IInv, owner.at = "poll", OwnerSees.asked = {}
    PROVE  up.shut /\ down.shut
<1> DEFINE o == OwnerLeft
<1>1. /\ o \in Owners
      /\ o.outbound_shutdown = owner.outbound_shutdown
      /\ o.inbound_shutdown = owner.inbound_shutdown
      /\ o.outbound.capacity = owner.outbound.capacity /\ o.outbound.size = owner.outbound.size
      /\ o.inbound.capacity = owner.inbound.capacity /\ o.inbound.size = owner.inbound.size
      /\ 1 \in o.rules <=> (1 \in owner.rules /\ "stdin" \notin owner.eof)
      /\ 2 \in o.rules <=> 2 \in owner.rules
      /\ 3 \in o.rules <=> (3 \in owner.rules /\ "socket" \notin owner.eof)
      /\ 4 \in o.rules <=> (4 \in owner.rules /\ ~owner.inbound_shutdown)
      /\ o.outbound.closed = owner.outbound.closed
      BY OwnerIsLeft
<1>2. \A r \in o.rules : ~OwnerInterest(r, o)
      BY DEF OwnerSees, Polled
<1> HIDE DEF o
<1>3. /\ 1 \in o.rules => ~(AvailableCapacity(o.outbound) > 0)
      /\ 2 \in o.rules => ~(o.outbound.size > 0) /\ ~(IsFinished(o.outbound) /\ ~o.outbound_shutdown)
      /\ 3 \in o.rules => ~(AvailableCapacity(o.inbound) > 0)
      /\ 4 \in o.rules => ~(o.inbound.size > 0)
  <2>1. 1 \in o.rules => ~OwnerInterest(1, o)
        BY <1>2
  <2>2. 2 \in o.rules => ~OwnerInterest(2, o)
        BY <1>2
  <2>3. 3 \in o.rules => ~OwnerInterest(3, o)
        BY <1>2
  <2>4. 4 \in o.rules => ~OwnerInterest(4, o)
        BY <1>2
  <2>5. OwnerInterest(1, o) <=> AvailableCapacity(o.outbound) > 0
        BY DEF OwnerInterest
  <2>6. OwnerInterest(2, o) <=> (o.outbound.size > 0 \/ (IsFinished(o.outbound) /\ ~o.outbound_shutdown))
        BY DEF OwnerInterest
  <2>7. OwnerInterest(3, o) <=> AvailableCapacity(o.inbound) > 0
        BY DEF OwnerInterest
  <2>8. OwnerInterest(4, o) <=> (o.inbound.size > 0 \/ (IsFinished(o.inbound) /\ ~o.inbound_shutdown))
        BY DEF OwnerInterest
  <2> QED BY <2>1, <2>2, <2>3, <2>4, <2>5, <2>6, <2>7, <2>8
<1>4. /\ CopyCapacity \in Nat \ {0}
      /\ o.outbound.capacity = CopyCapacity /\ o.inbound.capacity = CopyCapacity
      /\ o.outbound.size \in Nat /\ o.inbound.size \in Nat
      BY <1>1, SocketAssumption DEF IInv, OwnerInv, OwnerStreams, Owners, Streams
<1>5. OwnerRules /\ OwnerStreams /\ OwnerChannels(tcp, up, down)
      BY DEF IInv, OwnerInv, ThreadInv
<1>6. up.shut
  <2>1. SUFFICES ASSUME 2 \in owner.rules, ~owner.outbound_shutdown
                 PROVE  FALSE
        BY <1>5 DEF OwnerChannels
  <2>2. o.outbound.size = 0 /\ ~IsFinished(o.outbound)
        BY <1>1, <1>3, <1>4, <2>1
  <2>3. 1 \notin o.rules
        BY <1>3, <1>4, <2>2 DEF AvailableCapacity
  <2>4. owner.outbound.closed
        BY <1>1, <1>5, <2>3 DEF OwnerRules, OwnerStreams
  <2> QED BY <1>1, <2>2, <2>4 DEF IsFinished
<1>7. down.shut
  <2>1. SUFFICES ASSUME 3 \in owner.rules, "socket" \notin owner.eof
                 PROVE  FALSE
        BY <1>5 DEF OwnerChannels
  <2>2. o.inbound.size # 0
        BY <1>1, <1>3, <1>4, <2>1 DEF AvailableCapacity
  <2>3. 4 \notin o.rules
        BY <1>3, <1>4, <2>2
  <2>4. owner.inbound_shutdown
        BY <1>1, <1>5, <2>3 DEF OwnerRules
  <2> QED BY <1>1, <1>5, <2>2, <2>4 DEF OwnerStreams
<1> QED BY <1>6, <1>7

LEMMA OwnerPolls ==
    ASSUME IInv, OwnerPoll
    PROVE  IInv'
<1> DEFINE o == OwnerLeft
           seen == OwnerSees
<1>1. /\ owner.at = "poll"
      /\ UNCHANGED <<tcp, outgoing, thread, abort, up, down, typed, incoming, remote, killed>>
      /\ \/ seen.asked = {} /\ owner' = [o EXCEPT !.at = "copied"]
         \/ owner' = [o EXCEPT !.at = "serve", !.seen = seen]
      BY DEF OwnerPoll, OwnerAt
<1>2. /\ o \in Owners /\ o.seen = owner.seen /\ o.eof = owner.eof /\ o.read = owner.read
      /\ o.outbound_shutdown = owner.outbound_shutdown
      /\ o.inbound_shutdown = owner.inbound_shutdown
      /\ o.outbound.capacity = owner.outbound.capacity /\ o.outbound.size = owner.outbound.size
      /\ o.outbound.pushed = owner.outbound.pushed /\ o.outbound.popped = owner.outbound.popped
      /\ o.inbound.capacity = owner.inbound.capacity /\ o.inbound.size = owner.inbound.size
      /\ o.inbound.pushed = owner.inbound.pushed
      /\ 1 \in o.rules <=> (1 \in owner.rules /\ "stdin" \notin owner.eof)
      /\ 2 \in o.rules <=> 2 \in owner.rules
      /\ 3 \in o.rules <=> (3 \in owner.rules /\ "socket" \notin owner.eof)
      /\ 4 \in o.rules <=> (4 \in owner.rules /\ ~owner.inbound_shutdown)
      /\ o.outbound.closed = owner.outbound.closed
      /\ o.inbound.closed <=> (owner.inbound.closed
                               \/ (3 \in owner.rules /\ "socket" \in owner.eof))
      BY OwnerIsLeft
<1>3. /\ seen \in Seens /\ seen.ready \subseteq o.rules /\ seen.hup \subseteq {2, 3}
      /\ seen.hup # {} => up.shut /\ down.shut
      /\ 3 \in seen.ready => Readable(down)
      /\ 1 \in seen.ready => typed > owner.read /\ OwnerInterest(1, o)
      BY <1>2 DEF OwnerSees, Polled, OwnerReady, Seens, Owners, Rules, HangsUp
<1>4. 1 \in seen.ready => typed > owner.read /\ owner.outbound.size < owner.outbound.capacity
  <2>1. OwnerInterest(1, o) <=> AvailableCapacity(o.outbound) > 0
        BY DEF OwnerInterest
  <2>2. o.outbound.size \in Nat /\ o.outbound.capacity \in Nat
        BY <1>2 DEF Owners, Streams
  <2> HIDE DEF o, seen
  <2> QED BY <1>2, <1>3, <2>1, <2>2 DEF AvailableCapacity
<1>5. ~abort /\ OwnerRules /\ OwnerSeen /\ OwnerStreams /\ Reading /\ Counting(tcp, up, down)
      /\ OwnerChannels(tcp, up, down)
      BY <1>1 DEF IInv, OwnerInv, OwnerPlace, ThreadInv
<1>6. seen.asked = {} => up.shut /\ down.shut
      BY <1>1, CopyIsOver
<1> HIDE DEF o, seen
<1>7. /\ owner' \in Owners /\ owner'.at \in {"copied", "serve"}
      /\ owner'.at = "copied" => seen.asked = {} /\ owner'.seen = o.seen
      /\ owner'.at = "serve" => owner'.seen = seen
      /\ owner'.rules = o.rules /\ owner'.eof = o.eof /\ owner'.read = o.read
      /\ owner'.outbound = o.outbound /\ owner'.inbound = o.inbound
      /\ owner'.outbound_shutdown = o.outbound_shutdown /\ owner'.inbound_shutdown = o.inbound_shutdown
  <2>1. CASE owner' = [o EXCEPT !.at = "copied"] /\ seen.asked = {}
        BY <1>2, <2>1 DEF Owners
  <2>2. CASE owner' = [o EXCEPT !.at = "serve", !.seen = seen]
        BY <1>2, <1>3, <2>2 DEF Owners
  <2> QED BY <1>1, <2>1, <2>2
<1>8. OwnerRules'
      BY <1>2, <1>3, <1>5, <1>7 DEF OwnerRules
<1>9. OwnerSeen'
      BY <1>1, <1>2, <1>3, <1>4, <1>5, <1>7 DEF OwnerSeen
<1>10. OwnerStreams' /\ (SentOver => SentOver')
       BY <1>1, <1>2, <1>5, <1>7 DEF OwnerStreams, SentOver, TypedOver
<1>11. OwnerPlace' /\ Reading' /\ Counting(tcp, up, down)'
       BY <1>1, <1>2, <1>5, <1>7 DEF OwnerPlace, Reading, Counting
<1>12. OwnerChannels(tcp, up, down)'
       BY <1>1, <1>2, <1>3, <1>5, <1>6, <1>7 DEF OwnerChannels, Readable
<1>13. abort' \in BOOLEAN /\ (abort => abort')
       BY <1>1 DEF IInv, Shapes
<1> QED BY <1>1, <1>7, <1>8, <1>9, <1>10, <1>11, <1>12, <1>13, OwnerMoves DEF OwnerInv

LEMMA OwnerWaits ==
    ASSUME IInv, WaitUntilClosed
    PROVE  IInv'
<1>1. /\ owner.at = "copied" /\ owner' = [owner EXCEPT !.at = "joining"]
      /\ up' = Shut(up) /\ down' = Shut(down)
      /\ UNCHANGED <<tcp, outgoing, thread, abort, typed, incoming, remote, killed>>
      BY DEF WaitUntilClosed, OwnerAt
<1>2. up \in Channels /\ down \in Channels /\ owner \in Owners /\ abort \in BOOLEAN
      BY DEF IInv, Shapes, ThreadShapes
<1>3. ~abort /\ up.shut /\ down.shut /\ OwnerInv /\ Counting(tcp, up, down)
      /\ OwnerChannels(tcp, up, down)
      BY <1>1 DEF IInv, OwnerInv, OwnerPlace, ThreadInv, OwnerChannels
<1>4. up' = up /\ down' = down
      BY <1>1, <1>2, <1>3 DEF Shut, Channels
<1>5. /\ owner' \in Owners /\ owner'.at = "joining" /\ owner'.seen = owner.seen
      /\ owner'.rules = owner.rules /\ owner'.eof = owner.eof /\ owner'.read = owner.read
      /\ owner'.outbound = owner.outbound /\ owner'.inbound = owner.inbound
      /\ owner'.outbound_shutdown = owner.outbound_shutdown
      /\ owner'.inbound_shutdown = owner.inbound_shutdown
      BY <1>1, <1>2 DEF Owners
<1>6. OwnerInv'
      BY <1>1, <1>3, <1>5
      DEF OwnerInv, OwnerRules, OwnerSeen, OwnerStreams, OwnerPlace, Reading, TypedOver
<1>7. Counting(tcp, up, down)' /\ OwnerChannels(tcp, up, down)'
      BY <1>1, <1>3, <1>4, <1>5 DEF Counting, OwnerChannels
<1>8. SentOver => SentOver'
      BY <1>1, <1>5 DEF SentOver, TypedOver
<1>9. abort' \in BOOLEAN /\ (abort => abort')
      BY <1>1, <1>2
<1> QED BY <1>1, <1>4, <1>5, <1>6, <1>7, <1>8, <1>9, OwnerMoves

LEMMA SocketIsDestructed ==
    ASSUME IInv, Destruct
    PROVE  IInv'
<1>1. /\ owner.at \in {"poll", "serve"} /\ owner' = [owner EXCEPT !.at = "joining"]
      /\ abort' = TRUE /\ up' = up /\ down' = down
      /\ UNCHANGED <<tcp, outgoing, thread, typed, incoming, remote, killed>>
      BY DEF Destruct, OwnerAt
<1>2. owner \in Owners
      BY DEF IInv, Shapes
<1>3. OwnerInv /\ Counting(tcp, up, down) /\ OwnerChannels(tcp, up, down)
      BY DEF IInv, ThreadInv
<1>4. /\ owner' \in Owners /\ owner'.at = "joining" /\ owner'.seen = owner.seen
      /\ owner'.rules = owner.rules /\ owner'.eof = owner.eof /\ owner'.read = owner.read
      /\ owner'.outbound = owner.outbound /\ owner'.inbound = owner.inbound
      /\ owner'.outbound_shutdown = owner.outbound_shutdown
      /\ owner'.inbound_shutdown = owner.inbound_shutdown
      BY <1>1, <1>2 DEF Owners
<1>5. OwnerInv'
      BY <1>1, <1>3, <1>4
      DEF OwnerInv, OwnerRules, OwnerSeen, OwnerStreams, OwnerPlace, Reading, TypedOver
<1>6. Counting(tcp, up, down)' /\ OwnerChannels(tcp, up, down)'
      BY <1>1, <1>3, <1>4 DEF Counting, OwnerChannels
<1>7. SentOver => SentOver'
      BY <1>1, <1>4 DEF SentOver, TypedOver
<1> QED BY <1>1, <1>4, <1>5, <1>6, <1>7, OwnerMoves

LEMMA OwnerJoins ==
    ASSUME IInv, Join
    PROVE  IInv'
<1>1. /\ owner.at = "joining" /\ owner' = [owner EXCEPT !.at = "done"]
      /\ UNCHANGED <<tcp, outgoing, thread, abort, up, down, typed, incoming, remote, killed>>
      BY DEF Join, OwnerAt
<1>2. owner \in Owners /\ abort \in BOOLEAN
      BY DEF IInv, Shapes
<1>3. OwnerInv /\ Counting(tcp, up, down) /\ OwnerChannels(tcp, up, down)
      BY DEF IInv, ThreadInv
<1>4. /\ owner' \in Owners /\ owner'.at = "done" /\ owner'.seen = owner.seen
      /\ owner'.rules = owner.rules /\ owner'.eof = owner.eof /\ owner'.read = owner.read
      /\ owner'.outbound = owner.outbound /\ owner'.inbound = owner.inbound
      /\ owner'.outbound_shutdown = owner.outbound_shutdown
      /\ owner'.inbound_shutdown = owner.inbound_shutdown
      BY <1>1, <1>2 DEF Owners
<1>5. OwnerInv'
      BY <1>1, <1>3, <1>4
      DEF OwnerInv, OwnerRules, OwnerSeen, OwnerStreams, OwnerPlace, Reading, TypedOver
<1>6. Counting(tcp, up, down)' /\ OwnerChannels(tcp, up, down)'
      BY <1>1, <1>3, <1>4 DEF Counting, OwnerChannels
<1>7. SentOver => SentOver'
      BY <1>1, <1>4 DEF SentOver, TypedOver
<1>8. abort' \in BOOLEAN /\ (abort => abort') /\ up' = up /\ down' = down
      BY <1>1, <1>2
<1> QED BY <1>1, <1>4, <1>5, <1>6, <1>7, <1>8, OwnerMoves

-----------------------------------------------------------------------------
(* The terminal and the other end *)

LEMMA SomethingIsTyped ==
    ASSUME IInv, Type
    PROVE  IInv'
<1>1. /\ typed <= Typed /\ typed' = typed + 1
      /\ UNCHANGED <<tcp, outgoing, thread, abort, up, down, owner, incoming, remote, killed>>
      BY DEF Type
<1>2. typed \in Nat /\ Typed \in Nat /\ owner \in Owners /\ owner.read \in Nat
      BY SocketModulus DEF IInv, Shapes, Owners
<1>3. ~TypedOver /\ ~SentOver
      BY <1>1, <1>2 DEF TypedOver, SentOver
<1>4. OwnerInv'
      BY <1>1, <1>2, <1>3
      DEF IInv, OwnerInv, OwnerRules, OwnerSeen, OwnerStreams, OwnerPlace, Reading, TypedOver
<1>5. ThreadInv(tcp, thread, up, down)'
      BY <1>1, <1>3
      DEF IInv, ThreadInv, ThreadShapes, ThreadRules, Shutting, Counting, OwnerChannels, ReceivedOver
<1>6. Shapes' /\ ThreadSeen' /\ (killed => tcp.inbound.error)'
      BY <1>1, <1>2 DEF IInv, Shapes, ThreadSeen, ThreadShapes, Readable
<1> QED BY <1>4, <1>5, <1>6 DEF IInv

\* Only what has arrived changes.
LEMMA SomethingArrives ==
    ASSUME IInv, incoming' \in Seq(SegmentsIn), incoming' # <<>>, remote' \in Remotes,
           UNCHANGED <<tcp, outgoing, thread, abort, up, down, owner, typed, killed>>
    PROVE  IInv'
<1>1. OwnerInv'
      BY DEF IInv, OwnerInv, OwnerRules, OwnerSeen, OwnerStreams, OwnerPlace, Reading, TypedOver
<1>2. ThreadInv(tcp, thread, up, down)'
      BY DEF IInv, ThreadInv, ThreadShapes, ThreadRules, Shutting, Counting, OwnerChannels,
             ReceivedOver, SentOver, TypedOver
<1>3. Shapes' /\ ThreadSeen' /\ (killed => tcp.inbound.error)'
      BY DEF IInv, Shapes, ThreadSeen, ThreadShapes, Readable
<1> QED BY <1>1, <1>2, <1>3 DEF IInv

LEMMA WrapOfHeard ==
    ASSUME IInv
    PROVE  Wrap(remote.heard, ISN) \in Raw
<1>1. remote.heard \in Nat /\ ISN \in Raw
      BY SocketModulus DEF IInv, Shapes, Remotes
<1> QED BY <1>1, WrapIsRaw

\* What the other end sends lies within its stream.
LEMMA FromRemoteType ==
    ASSUME IInv, NEW payload \in Seq(Int), NEW fin \in BOOLEAN, NEW rst \in BOOLEAN,
           rst \/ Fits(RemoteTotal, remote.acked - 1, payload, fin)
    PROVE  FromRemote(payload, fin, rst) \in SegmentsIn
<1> DEFINE m == FromRemote(payload, fin, rst)
           ackno == Wrap(remote.heard, ISN)
<1>1. remote.acked \in 1 .. RemoteTotal + 2 /\ RemoteTotal \in Nat /\ RemoteWindow \in Nat
      BY SocketModulus, SocketAssumption DEF IInv, Shapes, Remotes
<1>2. ackno \in Raw
      BY WrapOfHeard
<1>3. m = [seqno |-> remote.acked, SYN |-> FALSE, payload |-> payload, FIN |-> fin, ACK |-> TRUE,
           ackno |-> ackno, window |-> RemoteWindow, RST |-> rst]
      BY DEF FromRemote
<1> HIDE DEF ackno, m
<1>4. m.SYN = FALSE /\ m.seqno = remote.acked /\ m.payload = payload /\ m.FIN = fin /\ m.RST = rst
      BY <1>3
<1>5. remote.acked \in 0 .. RemoteTotal + 2
      BY <1>1
<1>6. /\ m \in [seqno : Raw, SYN : BOOLEAN, payload : Seq(Int), FIN : BOOLEAN,
                ACK : BOOLEAN, ackno : Raw, window : Nat, RST : BOOLEAN]
      /\ RawOffset(m.seqno, 0) = m.seqno
      BY <1>1, <1>2, <1>3, <1>4, <1>5, NumberedFromZero
<1>7. (m.seqno + Bit(m.SYN)) - 1 = remote.acked - 1
  <2>1. Bit(m.SYN) = 0
        BY <1>4, BitValues
  <2>2. m.seqno \in Int /\ m.seqno = remote.acked
        BY <1>1, <1>4
  <2> QED BY <2>1, <2>2
<1>8. m.RST \/ /\ m.SYN => m.seqno = 0
               /\ Fits(RemoteTotal, (m.seqno + Bit(m.SYN)) - 1, m.payload, m.FIN)
      BY <1>4, <1>7
<1>9. m \in SegmentsIn
      BY <1>6, <1>8 DEF SegmentsIn, IncomingSegments
<1> QED BY <1>9 DEF m

LEMMA RemoteHasSent ==
    ASSUME IInv, RemoteSends
    PROVE  IInv'
<1>1. UNCHANGED <<tcp, outgoing, thread, abort, up, down, owner, typed, killed>>
      BY DEF RemoteSends
<1>2. /\ remote \in Remotes /\ remote.acked \in 1 .. RemoteTotal + 2 /\ RemoteTotal \in Nat
      /\ MaxPayload \in Nat
      BY SocketModulus, SenderAssumption DEF IInv, Shapes, Remotes
<1>3. remote' \in Remotes
  <2>1. \/ remote' = [remote EXCEPT !.waiting = TRUE, !.said = remote.heard]
        \/ remote' = [remote EXCEPT !.said = remote.heard]
        BY DEF RemoteSends
  <2> QED BY <1>2, <2>1 DEF Remotes
<1>4. PICK m \in SegmentsIn : incoming' = <<m>>
  <2>1. CASE /\ remote.acked < RemoteTotal + 2
             /\ \E n \in 0 .. MinOf(MaxPayload, RemoteTotal + 1 - remote.acked) :
                   LET fin == remote.acked + n = RemoteTotal + 1
                   IN  incoming' = <<FromRemote([i \in 1 .. n |-> remote.acked + i - 2], fin, FALSE)>>
    <3>1. PICK n \in 0 .. MinOf(MaxPayload, RemoteTotal + 1 - remote.acked) :
             incoming' = <<FromRemote([i \in 1 .. n |-> remote.acked + i - 2],
                                      remote.acked + n = RemoteTotal + 1, FALSE)>>
          BY <2>1
    <3> DEFINE data == [i \in 1 .. n |-> remote.acked + i - 2]
               fin == remote.acked + n = RemoteTotal + 1
               first == remote.acked - 1
    <3>2. n \in Nat /\ remote.acked + n <= RemoteTotal + 1
          BY <1>2, <2>1, <3>1 DEF MinOf
    <3>3. data \in Seq(Int) /\ Len(data) = n
          BY <1>2, <3>2
    <3>4. fin \in BOOLEAN /\ (fin => first + n = RemoteTotal)
          BY <1>2, <3>2
    <3>5. first \in 0 .. RemoteTotal + 1 /\ first + n <= RemoteTotal
          BY <1>2, <3>2
    <3> HIDE DEF data, fin, first
    <3>6. Fits(RemoteTotal, first, data, fin)
          BY <3>3, <3>4, <3>5 DEF Fits
    <3>7. Fits(RemoteTotal, remote.acked - 1, data, fin)
          BY <3>6 DEF first
    <3>8. FromRemote(data, fin, FALSE) \in SegmentsIn
          BY <3>3, <3>4, <3>7, FromRemoteType
    <3> QED BY <3>1, <3>8 DEF data, fin
  <2>2. CASE incoming' = <<FromRemote(<<>>, FALSE, FALSE)>>
    <3> DEFINE first == remote.acked - 1
               data == <<>>
    <3>1. first \in 0 .. RemoteTotal + 1 /\ data \in Seq(Int) /\ data = <<>>
          BY <1>2, EmptySeq
    <3> HIDE DEF first, data
    <3>2. Fits(RemoteTotal, first, data, FALSE)
          BY <3>1 DEF Fits
    <3>3. FromRemote(data, FALSE, FALSE) \in SegmentsIn
          BY <3>1, <3>2, FromRemoteType DEF first
    <3> QED BY <2>2, <3>1, <3>3
  <2> QED BY <2>1, <2>2 DEF RemoteSends
<1>5. incoming' \in Seq(SegmentsIn) /\ incoming' # <<>>
      BY <1>4
<1> QED BY <1>1, <1>3, <1>5, SomethingArrives

LEMMA RemoteHasReset ==
    ASSUME IInv, RemoteResets
    PROVE  IInv'
<1> DEFINE m == FromRemote(<<>>, FALSE, TRUE)
           T == SegmentsIn
<1>1. /\ incoming' = Append(incoming, m) /\ remote' = [remote EXCEPT !.reset = TRUE]
      /\ UNCHANGED <<tcp, outgoing, thread, abort, up, down, owner, typed, killed>>
      BY DEF RemoteResets
<1>2. <<>> \in Seq(Int)
      BY EmptySeq
<1>3. m \in T /\ incoming \in Seq(T)
      BY <1>2, FromRemoteType DEF IInv, Shapes
<1> HIDE DEF m, T
<1>4. incoming' \in Seq(T) /\ incoming' # <<>>
      BY <1>1, <1>3
<1>5. remote' \in Remotes
      BY <1>1 DEF IInv, Shapes, Remotes
<1> QED BY <1>1, <1>4, <1>5, SomethingArrives DEF T

-----------------------------------------------------------------------------
(* The theorems *)

LEMMA InitHolds == Init => IInv
<1> SUFFICES ASSUME Init PROVE IInv
    OBVIOUS
<1>1. /\ tcp \in SocketPeers /\ ~tcp.sender.retransmit /\ outgoing \in Seq(SegmentsOut)
      /\ ~tcp.outbound.closed /\ tcp.outbound.pushed = 0
      /\ tcp.inbound.popped = 0
  <2>1. PICK c \in {Connected} : tcp = c.p /\ outgoing = c.out
        BY DEF Init
  <2>2. c = Connected
        BY <2>1
  <2>3. /\ c.p \in SocketPeers /\ ~c.p.sender.retransmit /\ c.out \in Seq(SegmentsOut)
        /\ ~c.p.outbound.closed /\ c.p.outbound.pushed = 0
        /\ c.p.inbound.popped = 0
        BY <2>2, ConnectedType
  <2> QED BY <2>1, <2>3
<1> DEFINE new == NewByteStream(CopyCapacity)
           none == <<>>
<1>2. new \in Streams
      BY NewStream, SocketAssumption
<1>3. /\ new.capacity = CopyCapacity /\ new.size = 0 /\ new.pushed = 0 /\ new.popped = 0
      /\ new.closed = FALSE
      BY DEF NewByteStream
<1>4. none \in Seq(Int) /\ Len(none) = 0 /\ none \in Seq(SegmentsIn)
      BY EmptySeq
<1>5. up = [bytes |-> none, shut |-> FALSE] /\ down = [bytes |-> none, shut |-> FALSE]
      BY DEF Init, NewChannel
<1>6. /\ thread = [at |-> "poll", rules |-> Rules, seen |-> Nothing, eof |-> FALSE,
                   outbound_shutdown |-> FALSE, inbound_shutdown |-> FALSE]
      /\ owner = [at |-> "poll", rules |-> Rules, seen |-> Nothing, eof |-> {}, read |-> 0,
                  outbound |-> new, inbound |-> new,
                  outbound_shutdown |-> FALSE, inbound_shutdown |-> FALSE]
      /\ abort = FALSE /\ typed = 0 /\ incoming = none /\ killed = FALSE
      /\ remote = [acked |-> 1, heard |-> 1, said |-> 1, waiting |-> FALSE,
                   reset |-> FALSE, cut |-> FALSE]
      BY DEF Init, Rules
<1> HIDE DEF new, none
<1>7. up \in Channels /\ down \in Channels /\ ~up.shut /\ ~down.shut
      /\ Len(up.bytes) = 0 /\ Len(down.bytes) = 0
      BY <1>4, <1>5 DEF Channels
<1>8. thread \in Threads /\ owner \in Owners
      BY <1>2, <1>6, NothingSeen DEF Threads, Owners
<1>9. remote \in Remotes
      BY <1>6, SocketModulus DEF Remotes
<1>10. Shapes
       BY <1>1, <1>4, <1>6, <1>7, <1>8, <1>9 DEF Shapes, ThreadShapes
<1>11. ThreadSeen /\ ThreadRules(thread, up, down)
       BY <1>6, NothingSeen DEF ThreadSeen, ThreadRules, Rules
<1>12. Shutting(tcp, thread, up, down)
       BY <1>1, <1>6, <1>7 DEF Shutting
<1>13. Counting(tcp, up, down)
       BY <1>1, <1>3, <1>6, <1>7 DEF Counting
<1>14. OwnerChannels(tcp, up, down)
       BY <1>6, NothingSeen DEF OwnerChannels, Rules
<1>15. OwnerRules /\ OwnerSeen /\ OwnerPlace
       BY <1>6, NothingSeen DEF OwnerRules, OwnerSeen, OwnerPlace, Rules
<1>16. OwnerStreams
       BY <1>3, <1>6 DEF OwnerStreams
<1>17. Reading
       BY <1>3, <1>6, SocketModulus DEF Reading
<1>18. killed => tcp.inbound.error
       BY <1>6
<1> QED BY <1>10, <1>11, <1>12, <1>13, <1>14, <1>15, <1>16, <1>17, <1>18
        DEF IInv, ThreadInv, OwnerInv, Shapes

LEMMA StutterHolds ==
    ASSUME IInv, UNCHANGED vars
    PROVE  IInv'
<1>1. UNCHANGED <<tcp, outgoing, thread, abort, up, down, owner, typed, incoming, remote, killed>>
      BY DEF vars
<1>2. OwnerInv'
      BY <1>1 DEF IInv, OwnerInv, OwnerRules, OwnerSeen, OwnerStreams, OwnerPlace, Reading, TypedOver
<1>3. ThreadInv(tcp, thread, up, down)'
      BY <1>1 DEF IInv, ThreadInv, ThreadShapes, ThreadRules, Shutting, Counting, OwnerChannels,
                  ReceivedOver, SentOver, TypedOver
<1>4. Shapes' /\ ThreadSeen' /\ (killed => tcp.inbound.error)'
      BY <1>1 DEF IInv, Shapes, ThreadSeen, ThreadShapes, Readable
<1> QED BY <1>2, <1>3, <1>4 DEF IInv

LEMMA NextKeeps ==
    ASSUME IInv, [Next]_vars
    PROVE  IInv'
<1>1. CASE ThreadStep
      BY <1>1, ThreadPolls, ThreadTimesOut, ThreadExits, SegmentIsReceived, BytesArePushed,
         BytesAreWritten, SegmentsAreSent, ThreadServesNoRule DEF ThreadStep
<1>2. CASE OwnerStep
      BY <1>2, OwnerPolls, TerminalIsRead, SocketIsWritten, SocketIsRead, TerminalIsWritten,
         OwnerServesNoRule, OwnerWaits, SocketIsDestructed, OwnerJoins DEF OwnerStep
<1>3. CASE Type
      BY <1>3, SomethingIsTyped
<1>4. CASE RemoteSends
      BY <1>4, RemoteHasSent
<1>5. CASE RemoteResets
      BY <1>5, RemoteHasReset
<1>6. CASE UNCHANGED vars
      BY <1>6, StutterHolds
<1> QED BY <1>1, <1>2, <1>3, <1>4, <1>5, <1>6 DEF Next

LEMMA InvariantHolds == Spec => []IInv
<1>1. IInv /\ [Next]_vars => IInv'
      BY NextKeeps
<1> QED BY InitHolds, <1>1, PTL DEF Spec

\* A SIGPIPE ends the process only when the other end has reset the connection:
\* as long as it has not, each thread shuts a channel only when the other has
\* nothing more to write to it.
THEOREM OnlyAResetKills == Spec => []OnlyResetKills
<1>1. IInv => OnlyResetKills
      BY DEF IInv, OnlyResetKills
<1> QED BY <1>1, InvariantHolds, PTL

\* An end is seen only where the streams between it and its source are empty.
LEMMA NoneIsCut == IInv => EndAfterLastByte
<1> SUFFICES ASSUME IInv PROVE EndAfterLastByte
    OBVIOUS
<1>1. /\ tcp \in SocketPeers /\ owner \in Owners /\ up \in Channels /\ down \in Channels
      /\ Shutting(tcp, thread, up, down) /\ Counting(tcp, up, down)
      /\ OwnerChannels(tcp, up, down) /\ Reading
      BY DEF IInv, Shapes, ThreadInv, ThreadShapes, OwnerInv
<1>2. tcp.outbound.closed => tcp.outbound.pushed = Typed /\ typed = Typed + 1
  <2>1. SUFFICES ASSUME tcp.outbound.closed
                 PROVE  tcp.outbound.pushed = Typed /\ typed = Typed + 1
        OBVIOUS
  <2>2. SentOver /\ TypedOver /\ Len(up.bytes) = 0
        BY <1>1, <2>1 DEF Shutting, SentOver
  <2>3. owner.outbound.size = 0 /\ owner.read = Typed /\ typed = Typed + 1
        BY <2>2 DEF SentOver, TypedOver
  <2>4. /\ owner.outbound.pushed \in Nat /\ owner.outbound.popped \in Nat
        /\ owner.outbound.size = owner.outbound.pushed - owner.outbound.popped
        BY <1>1 DEF Owners, Streams
  <2>5. tcp.outbound.pushed \in Nat
        BY <1>1 DEF SocketPeers, Peers, Streams
  <2>6. tcp.outbound.pushed = owner.outbound.popped
        BY <1>1, <2>2, <2>4, <2>5 DEF Counting
  <2> QED BY <1>1, <2>3, <2>4, <2>6 DEF Reading
<1>3. "socket" \in owner.eof =>
         owner.inbound.pushed = RemoteTotal \/ tcp.inbound.error \/ abort
  <2>1. SUFFICES ASSUME "socket" \in owner.eof, ~tcp.inbound.error, ~abort
                 PROVE  owner.inbound.pushed = RemoteTotal
        OBVIOUS
  <2>2. down.shut /\ Len(down.bytes) = 0
        BY <1>1, <2>1 DEF OwnerChannels
  <2>3. tcp.inbound.closed /\ tcp.inbound.size = 0
        BY <1>1, <2>1, <2>2 DEF Shutting, ReceivedOver
  <2>4. /\ tcp.inbound.pushed = RemoteTotal
        /\ tcp.inbound.pushed \in Nat /\ tcp.inbound.popped \in Nat
        /\ tcp.inbound.size = tcp.inbound.pushed - tcp.inbound.popped
        BY <1>1, <2>3 DEF SocketPeers, Peers, Inbounds, Streams
  <2>5. tcp.inbound.popped = RemoteTotal
        BY <2>3, <2>4
  <2>6. owner.inbound.pushed \in Nat
        BY <1>1 DEF Owners, Streams
  <2> QED BY <1>1, <2>2, <2>5, <2>6 DEF Counting
<1> QED BY <1>2, <1>3 DEF EndAfterLastByte

\* What is typed is in the TCP stream, all of it, when that is closed; and what
\* the other end has sent has reached the owner, all of it, when it reads the
\* end; unless the connection has failed or the socket is destructed.
THEOREM NothingCutShort == Spec => []EndAfterLastByte
BY NoneIsCut, InvariantHolds, PTL
====
