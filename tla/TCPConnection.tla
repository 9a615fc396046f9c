---------------------------- MODULE TCPConnection ----------------------------
(***************************************************************************)
(* Two TCPMinnowSockets connected over a network: at each end the TCPPeer, *)
(* driven by the rules of the TCP thread (util/tcp_minnow_socket.cc), and  *)
(* the application. Each handler is followed by collect_segments, as in    *)
(* the code. MaxFaults times in all the network loses or repeats a         *)
(* segment, delays one beyond a timeout or, with Reordering, lets one      *)
(* overtake others; otherwise segments arrive as they were sent.           *)
(*                                                                         *)
(* The client connects and the server listens; neither application writes  *)
(* before connect or listen_and_accept has returned. Each writes its Total *)
(* and then shuts down its end.                                            *)
(***************************************************************************)
EXTENDS TCPPeerOps

CONSTANTS
    ClientISN, ServerISN,         \* the initial sequence numbers
    ClientTotal, ServerTotal,     \* bound: the bytes each application writes
    MaxFaults,                    \* bound: losses, repeats, delays and overtakings
    Reordering,                   \* may a segment overtake another?
    MaxRetx                       \* bound: retransmissions are counted up to this

ASSUME ConnectionAssumption ==
    /\ ClientISN \in Raw /\ ServerISN \in Raw
    /\ ClientTotal \in Nat /\ ServerTotal \in Nat /\ MaxFaults \in Nat /\ MaxRetx \in Nat
    /\ 2 * (ClientTotal + 2) < Mod32 /\ 2 * (ServerTotal + 2) < Mod32

Client == "client"
Server == "server"
Ends == {Client, Server}
Other(e) == IF e = Client THEN Server ELSE Client

Isn(e) == IF e = Client THEN ClientISN ELSE ServerISN
Total(e) == IF e = Client THEN ClientTotal ELSE ServerTotal

VARIABLES
    peer,      \* the TCPPeer of each end
    started,   \* has connect or listen_and_accept returned, at each end?
    net,       \* the segments on their way to each end
    faults,    \* how many faults there have been
    overtaken  \* has a segment overtaken another?

vars == <<peer, started, net, faults, overtaken>>

\* After MaxRetx retransmissions the count and the timeout begin again: nothing
\* depends on them but how long a timeout is.
Capped(p) == IF p.sender.retransmissions <= MaxRetx THEN p
             ELSE [p EXCEPT !.sender.retransmissions = 0,
                            !.sender.rto = InitialRTO,
                            !.sender.timer.left = InitialRTO]

\* What the condition of _tcp_loop waits for in connect and listen_and_accept.
Connected(e, p) ==
    IF e = Client THEN SequenceNumbersInFlight(p) # 1
    ELSE HasAckno(p) /\ SequenceNumbersInFlight(p) = 0

Running(e) == Active(peer[e])

\* End e takes segment k, if any, off the network and goes on as p, after it has
\* sent what p has to send. An inactive peer has nothing to send and receives
\* nothing: what is on its way to it is lost.
GoesOn(e, k, p) ==
    \E c \in {CollectSegments(p)} :
        /\ peer' = [peer EXCEPT ![e] = Capped(c.p)]
        /\ started' = [started EXCEPT ![e] = @ \/ Connected(e, c.p)]
        /\ net' = [net EXCEPT
                     ![e] = IF ~Active(c.p) THEN <<>>
                            ELSE IF k = 0 THEN @ ELSE RemoveAt(@, k),
                     ![Other(e)] = IF Running(Other(e)) THEN @ \o c.out ELSE <<>>]

\* connect pushes a SYN before the loop starts.
Init == \E c \in {CollectSegments(PeerPush(NewPeer(ClientISN)))} :
            /\ peer = [e \in Ends |-> IF e = Client THEN c.p ELSE NewPeer(Isn(e))]
            /\ started = [e \in Ends |-> FALSE]
            /\ net = [e \in Ends |-> IF e = Server THEN c.out ELSE <<>>]
            /\ faults = 0
            /\ overtaken = FALSE

\* Rule 2: the bytes of the application are pushed to the outbound stream.
Write(e) ==
    LET out == peer[e].outbound
    IN  /\ started[e] /\ Running(e) /\ ~out.closed
        /\ \E n \in 1 .. MinOf(Total(e) - out.pushed, AvailableCapacity(out)) :
              LET bytes == [i \in 1 .. n |-> out.pushed + i - 1]
              IN  GoesOn(e, 0, PeerPush([peer[e] EXCEPT !.outbound = WriterPush(out, bytes)]))
        /\ UNCHANGED <<faults, overtaken>>

\* Rule 2, when the application has shut down its end.
Shutdown(e) ==
    LET out == peer[e].outbound
    IN  /\ started[e] /\ Running(e) /\ ~out.closed
        /\ out.pushed = Total(e) /\ AvailableCapacity(out) > 0
        /\ GoesOn(e, 0, PeerPush([peer[e] EXCEPT !.outbound = WriterClose(out)]))
        /\ UNCHANGED <<faults, overtaken>>

\* Rule 3: as much of the front chunk as the application has room for.
Read(e) ==
    LET in == peer[e].inbound
    IN  /\ \E n \in 1 .. Len(Peek(in)) :
              GoesOn(e, 0, [peer[e] EXCEPT !.inbound = ReaderPop(in, n)])
        /\ UNCHANGED <<faults, overtaken>>

\* Rule 1: a segment arrives.
Receive(e, k) == GoesOn(e, k, PeerReceive(peer[e], net[e][k]))

Arrive(e) == /\ Running(e) /\ net[e] # <<>>
             /\ Receive(e, 1)
             /\ UNCHANGED <<faults, overtaken>>

Overtake(e) == /\ Running(e) /\ Reordering /\ faults < MaxFaults
               /\ \E k \in 2 .. Len(net[e]) : Receive(e, k)
               /\ faults' = faults + 1
               /\ overtaken' = TRUE

Lose(e) == /\ Running(e) /\ net[e] # <<>> /\ faults < MaxFaults
           /\ net' = [net EXCEPT ![e] = Tail(@)]
           /\ faults' = faults + 1
           /\ UNCHANGED <<peer, started, overtaken>>

Repeat(e) == /\ Running(e) /\ net[e] # <<>> /\ faults < MaxFaults
             /\ net' = [net EXCEPT ![e] = <<Head(@)>> \o @]
             /\ faults' = faults + 1
             /\ UNCHANGED <<peer, started, overtaken>>

Underway == {e \in Ends : net[e] # <<>>}

\* Enough ticks for the timer to expire. While segments are underway that is
\* the fault of the network: it has delayed them.
Timeout(e) ==
    LET t == peer[e].sender.timer
    IN  /\ Running(e) /\ t.running
        /\ Underway # {} => faults < MaxFaults
        /\ GoesOn(e, 0, PeerTick(peer[e], t.left))
        /\ faults' = IF Underway = {} THEN faults ELSE faults + 1
        /\ UNCHANGED overtaken

Next == \E e \in Ends : \/ Write(e) \/ Shutdown(e) \/ Read(e)
                        \/ Timeout(e) \/ Arrive(e)
                        \/ Overtake(e) \/ Lose(e) \/ Repeat(e)

(***************************************************************************)
(* The event loop serves what stays ready, and applications go on writing  *)
(* and reading. Each conjunct is WF_vars of its action, written out with   *)
(* the guard of the action in place of its ENABLED: when the guard holds   *)
(* the action can be taken, and it changes the state.                      *)
(***************************************************************************)
MayWrite(e) == /\ started[e] /\ Running(e) /\ ~peer[e].outbound.closed
               /\ AvailableCapacity(peer[e].outbound) > 0
MayRead(e) == Peek(peer[e].inbound) # <<>>
MayArrive(e) == Running(e) /\ net[e] # <<>>
MayTimeout(e) == /\ Running(e) /\ peer[e].sender.timer.running
                 /\ Underway # {} => faults < MaxFaults

Fairness == \A e \in Ends :
    /\ []<>~MayWrite(e) \/ []<><<Write(e) \/ Shutdown(e)>>_vars
    /\ []<>~MayRead(e) \/ []<><<Read(e)>>_vars
    /\ []<>~MayArrive(e) \/ []<><<Arrive(e)>>_vars
    /\ []<>~MayTimeout(e) \/ []<><<Timeout(e)>>_vars

Spec == Init /\ [][Next]_vars /\ Fairness

-----------------------------------------------------------------------------

\* What end e has acknowledged to it, and what the other end has assembled.
Acked(e) == Absolute(peer[e].sender, peer[e].sender.ackno)
AssembledOf(e) == LET o == peer[Other(e)]
                  IN  IF o.receiver.syn_recv THEN 1 + o.inbound.pushed + Bit(o.inbound.closed)
                      ELSE 0

(***************************************************************************)
(* AckedIsAssembled: what an end believes acknowledged has been assembled  *)
(* by the other, SYN and FIN included, under the zero point it has chosen: *)
(* only then may it forget the segments.                                   *)
(***************************************************************************)
AckedIsAssembled ==
    \A e \in Ends : /\ Acked(e) <= AssembledOf(e)
                    /\ peer[Other(e)].receiver.syn_recv =>
                           peer[Other(e)].receiver.isn = Isn(e)

(***************************************************************************)
(* NoneLeavesEarly: unless a segment has been overtaken, an end that is no *)
(* longer active, and so will answer nothing, has had all it wrote         *)
(* assembled by the other, end of stream included, and has itself the      *)
(* whole stream of the other.                                              *)
(***************************************************************************)
BothStreamsDone ==
    \A e \in Ends : /\ peer[e].outbound.pushed = Total(e)
                    /\ peer[Other(e)].inbound.pushed = Total(e)
                    /\ peer[Other(e)].inbound.closed

NoneLeavesEarly == \A e \in Ends : ~Running(e) /\ ~overtaken => BothStreamsDone

(***************************************************************************)
(* LeavesWhenDone: the same whatever the network does. An application      *)
(* "writes to and reads from a reliable data stream"                       *)
(* (util/tcp_minnow_socket.hh): the connection does not end before the     *)
(* streams do.                                                             *)
(***************************************************************************)
LeavesWhenDone == \A e \in Ends : ~Running(e) => BothStreamsDone

(***************************************************************************)
(* ImplementsPipes: seen by the applications, each direction is a pipe:    *)
(* bytes come out once each and in the order in which they went in,        *)
(* whatever the network lost, repeated, delayed or reordered on the way.   *)
(* What is inside is bounded by the stream alone: after an acknowledgment  *)
(* that another has overtaken the sender has room for all it has, so the   *)
(* capacities of the two ByteStreams do not bound it.                      *)
(***************************************************************************)
Content(e) ==
    LET in == peer[Other(e)].inbound
    IN  FlattenSeq(in.q) \o [i \in 1 .. peer[e].outbound.pushed - in.pushed |-> in.pushed + i - 1]

Upstream == INSTANCE BoundedPipe
                WITH Capacity <- ClientTotal, content <- Content(Client),
                     delivered <- peer[Server].inbound.popped,
                     closed <- peer[Client].outbound.closed, failed <- FALSE
Downstream == INSTANCE BoundedPipe
                  WITH Capacity <- ServerTotal, content <- Content(Server),
                       delivered <- peer[Client].inbound.popped,
                       closed <- peer[Server].outbound.closed, failed <- FALSE
ImplementsPipes == Upstream!Spec /\ Downstream!Spec

(***************************************************************************)
(* EverythingArrives: whatever the network has lost, repeated or delayed,  *)
(* each application in the end reads all that the other has written, and   *)
(* then the end of the stream.                                             *)
(***************************************************************************)
EverythingArrives ==
    \A e \in Ends :
        <>[](overtaken \/ /\ IsFinished(peer[e].inbound)
                          /\ peer[e].inbound.popped = Total(Other(e)))
=============================================================================
