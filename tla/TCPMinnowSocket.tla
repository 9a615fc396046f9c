--------------------------- MODULE TCPMinnowSocket ---------------------------
(***************************************************************************)
(* The two threads of a program that uses a connected TCPMinnowSocket      *)
(* (src/util/tcp_minnow_socket.cc): the TCP thread with the four rules of  *)
(* its event loop, and the owner, which runs bidirectional_stream_copy     *)
(* (src/apps) with an event loop of its own between the terminal and the   *)
(* socket, and then calls wait_until_closed, or leaves early by an         *)
(* exception that destructs the socket. A socket pair joins them. Each     *)
(* thread polls in one step and serves a rule in another.                  *)
(*                                                                         *)
(* The other end of the connection is an honest TCP that answers each      *)
(* segment before the retransmission timer expires: loss and              *)
(* retransmission are the subject of module TCPConnection. It may reset    *)
(* the connection.                                                         *)
(***************************************************************************)
EXTENDS EventLoopOps, SocketPair, TCPPeerOps

CONSTANTS
    ISN,               \* the initial sequence number of the sender
    CopyCapacity,      \* buffer_size of bidirectional_stream_copy
    Typed,             \* bound: the bytes typed before the end of the input
    RemoteTotal,       \* bound: the bytes the other end sends
    RemoteWindow,      \* the window the other end offers
    MayReset, MayAbort \* do the other end reset, the owner give up the connection?

ASSUME SocketAssumption ==
    /\ ISN \in Raw /\ CopyCapacity \in Nat \ {0}
    /\ Typed \in Nat /\ RemoteTotal \in Nat /\ RemoteWindow \in Nat
    /\ Typed + 2 < Mod64
    /\ 2 * (RemoteTotal + 2) < Mod32      \* no more than half a lap is received

VARIABLES
    tcp,        \* _tcp, the TCPPeer
    outgoing,   \* outgoing_segments_
    thread,     \* the TCP thread: where it is, its rules and flags
    abort,      \* _abort
    up, down,   \* the channels of the socket pair, from and to the owner
    owner,      \* the owner thread: likewise, with the streams of the copy
    typed,      \* what has been typed, its end counted as one more
    incoming,   \* what has arrived at _datagram_adapter
    remote,     \* the other end
    killed      \* has a SIGPIPE ended the process?

vars == <<tcp, outgoing, thread, abort, up, down, owner, typed, incoming, remote, killed>>

\* A SIGPIPE stops both threads.
ThreadAt(place) == thread.at = place /\ ~killed
OwnerAt(place) == owner.at = place /\ ~killed

Nothing == [asked |-> {}, ready |-> {}, hup |-> {}]

-----------------------------------------------------------------------------
(* The TCP thread. Its rules: 1 receives segments, 2 reads what the owner  *)
(* writes, 3 writes what the owner is to read, 4 sends segments.           *)

threadFd == <<"adapter", "data", "data", "adapter">>
threadDir == <<In, In, Out, Out>>

ThreadInterest(r, p, segments) ==
    CASE r = 1 -> Active(p)
      [] r = 2 -> /\ Active(p) /\ ~thread.outbound_shutdown
                  /\ AvailableCapacity(p.outbound) > 0
      [] r = 3 -> \/ p.inbound.size > 0
                  \/ /\ IsFinished(p.inbound) \/ p.inbound.error
                     /\ ~thread.inbound_shutdown
      [] r = 4 -> segments # <<>>

ThreadReady == {4} \cup (IF incoming # <<>> THEN {1} ELSE {})
                   \cup (IF Readable(up) THEN {2} ELSE {})
                   \cup (IF Writable(down) THEN {3} ELSE {})

\* Only rule 2 has a cancel callback.
ThreadCancel(p, rules) == IF 2 \in rules THEN [p EXCEPT !.outbound = WriterClose(@)] ELSE p

\* What _tcp_main does once the loop is left: the owner's end of the pair is shut.
LeaveLoop(p, segments, th, ch1, ch2) ==
    /\ tcp' = p /\ outgoing' = segments
    /\ thread' = [th EXCEPT !.at = "done", !.seen = Nothing]
    /\ up' = Shut(ch1) /\ down' = Shut(ch2)

\* The rest of the body of _tcp_loop, wherever wait_next_event has left p.
AfterEvent(p, segments, th, ch1, ch2) ==
    \E c \in {IF Active(p) THEN CollectSegments(PeerTick(p, 0))
              ELSE [p |-> p, out |-> <<>>]} :
        \/ abort /\ LeaveLoop(p, segments, th, ch1, ch2)
        \/ /\ ~abort
           /\ tcp' = c.p /\ outgoing' = segments \o c.out
           /\ thread' = [th EXCEPT !.at = "poll", !.seen = Nothing]
           /\ up' = ch1 /\ down' = ch2

\* The first half of wait_next_event: the rules that are left, and what poll sees.
ThreadSpent == Spent(thread.rules, threadFd, threadDir, IF thread.eof THEN {"data"} ELSE {}, {})
ThreadLeft == [thread EXCEPT !.rules = @ \ ThreadSpent]
PeerLeft == ThreadCancel(tcp, ThreadSpent)
ThreadSees == Polled({r \in ThreadLeft.rules : ThreadInterest(r, PeerLeft, outgoing)}, ThreadReady,
                     IF HangsUp(up, down) THEN ThreadLeft.rules \cap {2, 3} ELSE {})

ThreadPoll ==
    LET seen == ThreadSees
    IN  /\ ThreadAt("poll") /\ seen.asked # {} /\ Returns(seen)
        /\ thread' = [ThreadLeft EXCEPT !.at = "serve", !.seen = seen]
        /\ tcp' = PeerLeft
        /\ UNCHANGED <<outgoing, abort, up, down, owner, typed, incoming, remote, killed>>

\* Result::Timeout
ThreadTimeout ==
    /\ ThreadAt("poll") /\ ThreadSees.asked # {} /\ ~Returns(ThreadSees)
    /\ AfterEvent(PeerLeft, outgoing, ThreadLeft, up, down)
    /\ UNCHANGED <<abort, owner, typed, incoming, remote, killed>>

\* Result::Exit
ThreadExit ==
    /\ ThreadAt("poll") /\ ThreadSees.asked = {}
    /\ LeaveLoop(PeerLeft, outgoing, ThreadLeft, up, down)
    /\ UNCHANGED <<abort, owner, typed, incoming, remote, killed>>

\* The second half has come to rule r: those before it that hung up are gone.
ThreadServes(r) == ThreadAt("serve") /\ Served(thread.seen, threadDir) = {r}
Gone == Cancelled(thread.seen, threadDir)
PeerNow == ThreadCancel(tcp, Gone)
ThreadNow == [thread EXCEPT !.rules = @ \ Gone]

ReceiveSegment ==
    /\ ThreadServes(1)
    /\ \E c \in {CollectSegments(PeerReceive(PeerNow, Head(incoming)))} :
           AfterEvent(c.p, outgoing \o c.out, ThreadNow, up, down)
    /\ incoming' = Tail(incoming)
    /\ UNCHANGED <<abort, owner, typed, remote, killed>>

\* What rule 2 pushes, and the end if nothing was there to be read.
Written(p, room) ==
    [p EXCEPT !.outbound = IF EofRead(up) THEN WriterClose(@) ELSE WriterPush(@, ReadData(up, room))]

PushBytes ==
    /\ ThreadServes(2)
    /\ \E room \in {AvailableCapacity(PeerNow.outbound)} :
       \E c \in {CollectSegments(PeerPush(Written(PeerNow, room)))} :
           AfterEvent(c.p, outgoing \o c.out,
                      [ThreadNow EXCEPT !.eof = EofRead(up), !.outbound_shutdown = EofRead(up)],
                      AfterRead(up, room), down)
    /\ UNCHANGED <<abort, owner, typed, incoming, remote, killed>>

\* Fault: the owner is told of the end as soon as it has been received.
InboundOverOnceClosed(bs) == bs.closed \/ bs.error

InboundOver(bs) == IsFinished(bs) \/ bs.error

\* Fault: all that was offered is popped, whatever part of it write has taken.
PopOffered(bs, n) == ReaderPop(bs, Len(Peek(bs)))

PopWritten(bs, n) == ReaderPop(bs, n)

\* How much of a stream's front chunk a write may take.
WriteSizes(bs, ch) == IF bs.size > 0 THEN MayTake(ch, Len(Peek(bs))) ELSE {0}

WriteBytes ==
    /\ ThreadServes(3)
    /\ \E in \in {PeerNow.inbound} :
       \E n \in WriteSizes(in, down) :
       \E popped \in {PopWritten(in, n)} :
           LET written == AfterWrite(down, SubSeq(Peek(in), 1, n))
               over == InboundOver(popped)
           IN  /\ killed' = (n > 0 /\ down.shut)
               /\ AfterEvent([PeerNow EXCEPT !.inbound = popped], outgoing,
                             [ThreadNow EXCEPT !.inbound_shutdown = @ \/ over],
                             up, IF over THEN Shut(written) ELSE written)
    /\ UNCHANGED <<abort, owner, typed, incoming, remote>>

\* What the other end learns of segments: their numbers and acknowledgments.
LastNumber(seg) == Unwrap(seg.seqno, ISN, 0) + SequenceLength(seg)

Heard(rem, segments) ==
    [rem EXCEPT !.heard = Max({@} \cup {LastNumber(segments[k]) : k \in DOMAIN segments}),
                !.acked = Max({@} \cup {segments[k].ackno : k \in DOMAIN segments}),
                !.waiting = @ /\ segments = <<>>,
                !.cut = @ \/ \E k \in DOMAIN segments : segments[k].RST]

SendSegments ==
    /\ ThreadServes(4)
    /\ remote' = Heard(remote, outgoing)
    /\ AfterEvent(PeerNow, <<>>, ThreadNow, up, down)
    /\ UNCHANGED <<abort, owner, typed, incoming, killed>>

\* poll has reported hangups only.
ThreadServesNone ==
    /\ ThreadAt("serve") /\ Served(thread.seen, threadDir) = {}
    /\ AfterEvent(PeerNow, outgoing, ThreadNow, up, down)
    /\ UNCHANGED <<abort, owner, typed, incoming, remote, killed>>

-----------------------------------------------------------------------------
(* The owner. The rules of the copy: 1 reads the terminal, 2 writes to the *)
(* socket, 3 reads from the socket, 4 writes to the terminal.              *)

ownerFd == <<"stdin", "socket", "socket", "stdout">>
ownerDir == <<In, Out, In, Out>>

OwnerInterest(r, o) ==
    CASE r = 1 -> AvailableCapacity(o.outbound) > 0
      [] r = 2 -> o.outbound.size > 0 \/ (IsFinished(o.outbound) /\ ~o.outbound_shutdown)
      [] r = 3 -> AvailableCapacity(o.inbound) > 0
      [] r = 4 -> o.inbound.size > 0 \/ (IsFinished(o.inbound) /\ ~o.inbound_shutdown)

OwnerReady == {4} \cup (IF typed > owner.read THEN {1} ELSE {})
                  \cup (IF Writable(up) THEN {2} ELSE {})
                  \cup (IF Readable(down) THEN {3} ELSE {})

OwnerCancel(o, rules) ==
    [o EXCEPT !.rules = @ \ rules,
              !.outbound = IF rules \cap {1, 2} # {} THEN WriterClose(@) ELSE @,
              !.inbound = IF rules \cap {3, 4} # {} THEN WriterClose(@) ELSE @]

OwnerLeft ==
    OwnerCancel(owner, Spent(owner.rules, ownerFd, ownerDir, owner.eof,
                             IF owner.inbound_shutdown THEN {"stdout"} ELSE {}))
OwnerSees == Polled({r \in OwnerLeft.rules : OwnerInterest(r, OwnerLeft)}, OwnerReady,
                    IF HangsUp(up, down) THEN OwnerLeft.rules \cap {2, 3} ELSE {})

\* poll has no timeout here: the owner waits until there is something to serve.
OwnerPoll ==
    LET seen == OwnerSees
    IN  /\ OwnerAt("poll")
        /\ \/ seen.asked = {} /\ owner' = [OwnerLeft EXCEPT !.at = "copied"]
           \/ /\ seen.asked # {} /\ Returns(seen)
              /\ owner' = [OwnerLeft EXCEPT !.at = "serve", !.seen = seen]
        /\ UNCHANGED <<tcp, outgoing, thread, abort, up, down, typed, incoming, remote, killed>>

OwnerServes(r) == OwnerAt("serve") /\ Served(owner.seen, ownerDir) = {r}
OwnerNow == [OwnerCancel(owner, Cancelled(owner.seen, ownerDir)) EXCEPT !.at = "poll", !.seen = Nothing]

ReadTerminal ==
    LET n == MinOf(AvailableCapacity(OwnerNow.outbound), MinOf(typed, Typed) - owner.read)
        pushed == WriterPush(OwnerNow.outbound, [i \in 1 .. n |-> owner.read + i - 1])
    IN  /\ OwnerServes(1)
        /\ owner' = IF n = 0
                    THEN [OwnerNow EXCEPT !.eof = @ \cup {"stdin"}, !.outbound = WriterClose(@)]
                    ELSE [OwnerNow EXCEPT !.read = @ + n, !.outbound = pushed]
        /\ UNCHANGED <<tcp, outgoing, thread, abort, up, down, typed, incoming, remote, killed>>

WriteSocket ==
    /\ OwnerServes(2)
    /\ \E out \in {OwnerNow.outbound} :
       \E n \in WriteSizes(out, up) :
       \E popped \in {PopWritten(out, n)} :
           LET written == AfterWrite(up, SubSeq(Peek(out), 1, n))
           IN  /\ killed' = (n > 0 /\ up.shut)
               /\ owner' = [OwnerNow EXCEPT !.outbound = popped,
                                            !.outbound_shutdown = @ \/ IsFinished(popped)]
               /\ up' = IF IsFinished(popped) THEN Shut(written) ELSE written
    /\ UNCHANGED <<tcp, outgoing, thread, abort, down, typed, incoming, remote>>

ReadSocket ==
    LET room == AvailableCapacity(OwnerNow.inbound)
        pushed == WriterPush(OwnerNow.inbound, ReadData(down, room))
    IN  /\ OwnerServes(3)
        /\ owner' = IF EofRead(down)
                    THEN [OwnerNow EXCEPT !.eof = @ \cup {"socket"}, !.inbound = WriterClose(@)]
                    ELSE [OwnerNow EXCEPT !.inbound = pushed]
        /\ down' = AfterRead(down, room)
        /\ UNCHANGED <<tcp, outgoing, thread, abort, up, typed, incoming, remote, killed>>

WriteTerminal ==
    LET in == OwnerNow.inbound
    IN  /\ OwnerServes(4)
        /\ \E n \in IF in.size > 0 THEN 1 .. Len(Peek(in)) ELSE {0} :
              LET popped == PopWritten(in, n)
              IN  owner' = [OwnerNow EXCEPT !.inbound = popped,
                                            !.inbound_shutdown = @ \/ IsFinished(popped)]
        /\ UNCHANGED <<tcp, outgoing, thread, abort, up, down, typed, incoming, remote, killed>>

OwnerServesNone ==
    /\ OwnerAt("serve") /\ Served(owner.seen, ownerDir) = {}
    /\ owner' = OwnerNow
    /\ UNCHANGED <<tcp, outgoing, thread, abort, up, down, typed, incoming, remote, killed>>

\* wait_until_closed shuts the owner's end and joins the TCP thread.
WaitUntilClosed ==
    /\ OwnerAt("copied")
    /\ owner' = [owner EXCEPT !.at = "joining"]
    /\ up' = Shut(up) /\ down' = Shut(down)
    /\ UNCHANGED <<tcp, outgoing, thread, abort, typed, incoming, remote, killed>>

\* Fault: the TCP thread is joined but not told.
DestructQuietly ==
    /\ MayAbort /\ (OwnerAt("poll") \/ OwnerAt("serve"))
    /\ owner' = [owner EXCEPT !.at = "joining"]
    /\ UNCHANGED <<tcp, outgoing, thread, abort, up, down, typed, incoming, remote, killed>>

\* The destructor, when an exception ends the copy.
Destruct ==
    /\ MayAbort /\ (OwnerAt("poll") \/ OwnerAt("serve"))
    /\ owner' = [owner EXCEPT !.at = "joining"]
    /\ abort' = TRUE
    /\ UNCHANGED <<tcp, outgoing, thread, up, down, typed, incoming, remote, killed>>

Join ==
    /\ OwnerAt("joining") /\ thread.at = "done"
    /\ owner' = [owner EXCEPT !.at = "done"]
    /\ UNCHANGED <<tcp, outgoing, thread, abort, up, down, typed, incoming, remote, killed>>

-----------------------------------------------------------------------------
(* The terminal and the other end *)

Type ==
    /\ typed <= Typed
    /\ typed' = typed + 1
    /\ UNCHANGED <<tcp, outgoing, thread, abort, up, down, owner, incoming, remote, killed>>

FromRemote(payload, fin, rst) ==
    [seqno |-> remote.acked, SYN |-> FALSE, payload |-> payload, FIN |-> fin, ACK |-> TRUE,
     ackno |-> Wrap(remote.heard, ISN), window |-> RemoteWindow, RST |-> rst]

\* It sends from what has been acknowledged, and waits for the answer; or it
\* acknowledges what is new to it; or it resets the connection.
RemoteSends ==
    /\ incoming = <<>> /\ ~remote.reset
    /\ \/ /\ ~remote.waiting /\ remote.acked < RemoteTotal + 2
          /\ \E n \in 0 .. MinOf(MaxPayload, RemoteTotal + 1 - remote.acked) :
                LET fin == remote.acked + n = RemoteTotal + 1
                IN  /\ n > 0 \/ fin
                    /\ incoming' = <<FromRemote([i \in 1 .. n |-> remote.acked + i - 2], fin, FALSE)>>
          /\ remote' = [remote EXCEPT !.waiting = TRUE, !.said = remote.heard]
       \/ /\ remote.said < remote.heard
          /\ incoming' = <<FromRemote(<<>>, FALSE, FALSE)>>
          /\ remote' = [remote EXCEPT !.said = remote.heard]
    /\ UNCHANGED <<tcp, outgoing, thread, abort, up, down, owner, typed, killed>>

RemoteResets ==
    /\ MayReset /\ ~remote.reset
    /\ incoming' = Append(incoming, FromRemote(<<>>, FALSE, TRUE))
    /\ remote' = [remote EXCEPT !.reset = TRUE]
    /\ UNCHANGED <<tcp, outgoing, thread, abort, up, down, owner, typed, killed>>

-----------------------------------------------------------------------------

\* connect has returned: the SYN has been answered, and the answer is on its way.
Connected ==
    CollectSegments(PeerReceive(CollectSegments(PeerPush(NewPeer(ISN))).p,
        [seqno |-> 0, SYN |-> TRUE, payload |-> <<>>, FIN |-> FALSE, ACK |-> TRUE,
         ackno |-> Wrap(1, ISN), window |-> RemoteWindow, RST |-> FALSE]))

Init ==
    /\ \E c \in {Connected} : tcp = c.p /\ outgoing = c.out
    /\ thread = [at |-> "poll", rules |-> 1 .. 4, seen |-> Nothing, eof |-> FALSE,
                 outbound_shutdown |-> FALSE, inbound_shutdown |-> FALSE]
    /\ abort = FALSE
    /\ up = NewChannel /\ down = NewChannel
    /\ owner = [at |-> "poll", rules |-> 1 .. 4, seen |-> Nothing, eof |-> {}, read |-> 0,
                outbound |-> NewByteStream(CopyCapacity), inbound |-> NewByteStream(CopyCapacity),
                outbound_shutdown |-> FALSE, inbound_shutdown |-> FALSE]
    /\ typed = 0
    /\ incoming = <<>>
    /\ remote = [acked |-> 1, heard |-> 1, said |-> 1, waiting |-> FALSE,
                 reset |-> FALSE, cut |-> FALSE]
    /\ killed = FALSE

ThreadStep == \/ ThreadPoll \/ ThreadTimeout \/ ThreadExit
              \/ ReceiveSegment \/ PushBytes \/ WriteBytes \/ SendSegments \/ ThreadServesNone
OwnerStep == \/ OwnerPoll \/ ReadTerminal \/ WriteSocket \/ ReadSocket \/ WriteTerminal
             \/ OwnerServesNone \/ WaitUntilClosed \/ Destruct \/ Join

Next == ThreadStep \/ OwnerStep \/ Type \/ RemoteSends \/ RemoteResets

(***************************************************************************)
(* The kernel runs each thread that can go on, the terminal comes to its   *)
(* end, and the other end answers. A thread that can go on leaves the      *)
(* place it is at when it does, so that weak fairness of its steps is that *)
(* it is not for ever at a place from which it can go on.                  *)
(***************************************************************************)
ThreadCanGoOn ==
    ThreadAt("poll") /\ (abort \/ ThreadSees.asked = {} \/ Returns(ThreadSees))
OwnerCanGoOn ==
    \/ OwnerAt("poll") /\ (OwnerSees.asked = {} \/ Returns(OwnerSees))
    \/ OwnerAt("joining") /\ thread.at = "done"

Fairness ==
    /\ []<>~ThreadAt("serve") /\ []<>~ThreadCanGoOn
    /\ []<>~OwnerAt("serve") /\ []<>~OwnerAt("copied") /\ []<>~OwnerCanGoOn
    /\ WF_vars(Type) /\ WF_vars(RemoteSends)

Spec == Init /\ [][Next]_vars /\ Fairness

-----------------------------------------------------------------------------

(***************************************************************************)
(* EndAfterLastByte: the TCP stream is closed only when all that was typed *)
(* is in it, and the owner reads an end only when it has read all that was *)
(* sent to it, or the connection has failed: a hangup, a shutdown or a     *)
(* cancelled rule never cuts a stream short.                               *)
(***************************************************************************)
EndAfterLastByte ==
    /\ tcp.outbound.closed => tcp.outbound.pushed = Typed /\ typed = Typed + 1
    /\ "socket" \in owner.eof =>
           owner.inbound.pushed = RemoteTotal \/ tcp.inbound.error \/ abort

(***************************************************************************)
(* OnlyResetKills: no thread writes to a channel the other has shut, which *)
(* would end the process by SIGPIPE, unless the connection was reset.      *)
(***************************************************************************)
OnlyResetKills == killed => tcp.inbound.error

(***************************************************************************)
(* NeverKilled: nor then: "Incoming bytes reassembled by the TCPConnection *)
(* (needs to be read from the inbound_stream and written to the local      *)
(* stream socket back to the application)" (util/tcp_minnow_socket.cc).    *)
(***************************************************************************)
NeverKilled == ~killed

(***************************************************************************)
(* ImplementsPipes: bytes pass from the terminal to the TCP stream, and    *)
(* from the TCP stream to the terminal, once each and in order, through    *)
(* the streams of the copy, the socket pair and partial writes.            *)
(***************************************************************************)
Sending == INSTANCE BoundedPipe
               WITH Capacity <- CopyCapacity + PipeSize + SendCapacity,
                    content <- FlattenSeq(tcp.outbound.q) \o up.bytes \o FlattenSeq(owner.outbound.q),
                    delivered <- tcp.outbound.popped, closed <- FALSE, failed <- FALSE
Receiving == INSTANCE BoundedPipe
                 WITH Capacity <- CopyCapacity + PipeSize + RecvCapacity,
                      content <- FlattenSeq(owner.inbound.q) \o down.bytes \o FlattenSeq(tcp.inbound.q),
                      delivered <- owner.inbound.popped, closed <- FALSE, failed <- FALSE
ImplementsPipes == Sending!Spec /\ Receiving!Spec

(***************************************************************************)
(* BothThreadsEnd: the owner gets out of the copy and joins the TCP        *)
(* thread, whether the streams end, the connection is reset or the socket  *)
(* is destructed: neither waits for the other for ever.                    *)
(***************************************************************************)
BothThreadsEnd == <>(killed \/ (thread.at = "done" /\ owner.at = "done"))
=============================================================================
