# NetworkStack: a TLA+ development

NetworkStack is a user-space TCP/IP stack in C++: byte streams, a reassembler,
wrapping sequence numbers, a TCP sender and receiver, a peer that combines them,
a socket whose TCP thread drives the peer, and below that adapters, an
Ethernet/ARP interface and a router. The code modelled here is in `src/src` (the
stack), `src/util` (the glue) and `src/apps`. Paths below are relative to `src/`.

The modules say what each part does, TLC checks them on small instances, and
TLAPS proves central theorems for every value of the constants.

    tlc -workers 2 -config X.cfg M      # a run: X.cfg and its module M, section 3
    tlapm ByteStreamProofs.tla          # a module with theorems, section 4

`PROJECT.json` holds the lists behind this text: for each definition the lines
it models, the runs, the mutants, the theorems, the findings and the hazards.

## 1. The system

| component | code | state | operations |
|---|---|---|---|
| Wrap32 | `src/wrapping_integers.*` | a raw 32-bit number | `wrap`, `unwrap` |
| ByteStream | `src/byte_stream.*`, `src/byte_stream_helpers.cc` | chunks, size, counters, closed, error | `push`, `close`, `set_error`, `peek`, `pop`, `read` |
| Reassembler | `src/reassembler.*`, `src/Intervals.h`, `src/CircBuffer.h` | intervals, circular buffer, end of stream | `insert` |
| TCPSender, Timer | `src/tcp_sender.*`, `src/Timer.h` | two queues of segments, ackno, window, timer, backoff | `push`, `maybe_send`, `receive`, `tick`, `send_empty_message` |
| TCPReceiver | `src/tcp_receiver.*` | the ISN, whether there is one | `receive`, `send` |
| TCPPeer | `util/tcp_peer.hh` | sender, receiver, `need_send_` | `receive`, `push`, `tick`, `maybe_send`, `active` |
| TCPMinnowSocket | `util/tcp_minnow_socket.*` | a peer, a socket pair, a thread, flags | the four event-loop rules, `connect`, `listen_and_accept`, `wait_until_closed`, the destructor |
| EventLoop | `util/eventloop.*` | rules, their interest and cancellation | `add_rule`, `wait_next_event` |
| adapters | `util/tcp_over_ip.*`, `util/tuntap_adapter.*`, `util/lossy_fd_adapter.hh` | addresses, listening flag | `read`, `write`, `tick`, `send_pending` |
| NetworkInterface | `src/network_interface.*` | ARP mappings, time entries, waiting datagrams, outgoing frames | `send_datagram`, `recv_frame`, `tick`, `maybe_send` |
| Router | `src/router.*` | routing table, interfaces | `add_route`, `route` |
| wire formats | `util/parser.hh`, `util/checksum.hh`, the headers | a list of buffers, an error flag | `parse`, `serialize` of each header |
| applications | `apps/` | the copy's two streams; endtoend's network thread | |

How they interact. The application writes to and reads from one end of a socket
pair; at the other, the TCP thread of TCPMinnowSocket runs an event loop: a
segment from the adapter goes to `TCPPeer::receive`, which gives the sequence
part to the TCPReceiver (and so the Reassembler, which writes to the inbound
ByteStream) and the ackno and window to the TCPSender; bytes of the application
go to the outbound ByteStream and cause `push`; every pass calls `tick`; and
after each of these `collect_segments` drains `maybe_send`. The adapter puts
segments into IPv4 datagrams and filters what it reads; on a TAP device, and in
`apps/endtoend.cc`, a NetworkInterface puts these into Ethernet frames and holds
them back until ARP has answered. In endtoend the device is a pair of datagram
sockets, at whose other end a second thread runs a Router. Two TCP ends share no
memory; they meet in the 32-bit numbers of segments, which each side unwraps
against a 64-bit number of its own.

### What is hard, and what must be true

* **Wrap32** - the choice of the lap, at both ends of the 64-bit range. *A number
  within half a lap of the checkpoint survives; any other gives the nearest
  candidate.*
* **ByteStream** - cut pushes, pops that end inside or span chunks. *A bounded
  FIFO pipe, whose end is final.*
* **Reassembler** - overlap, repetition, a window that moves between inserts, a
  circular buffer that wraps, early returns that skip the closing step. *Each
  byte of the window kept once and passed on as soon as possible; closed exactly
  at the end.*
* **TCPSender** - unsigned subtraction in the window arithmetic, acknowledgments
  lost, partial, repeated and late, a timer kept in four members, `maybe_send`
  some time after what made it necessary, the FIN that may not fit. *Everything
  sent and unacknowledged can be sent again and the timer runs; the window is
  respected; segments carry the stream.*
* **TCPReceiver, TCPPeer** - a repeated SYN, a keep-alive, a FIN that comes
  first; a closed window; closing without lingering. *Two peers over a faulty
  network carry both streams unharmed to their ends, and none leaves early.*
* **TCPMinnowSocket, EventLoop** - two threads, each with a loop that acts on
  what `poll` saw a while ago; partial writes, hangups, shutdown, reset and
  destruction in every order. *No byte is lost between application and stream,
  nobody writes to a closed pair, both threads end.*
* **Adapters, NetworkInterface** - ARP answers, expiry and requests in any order;
  iterators kept in a second container; a listener that must fix on one peer;
  two threads that write to each other through bounded sockets. *One
  conversation; no datagram lost, repeated, overtaken or stranded; requests
  spaced; mappings kept for exactly 30 s.*
* **Wire formats** - integers that span buffers, empty buffers, odd lengths,
  options, padding. *What is sent is what is parsed; what is damaged is dropped.*
* **Router** - in this commit `route` takes every datagram off the interfaces
  and sends none on, and the routing table is written but never read.

## 2. What is modelled

A member function is an operator on the record of the object's members, in an
`...Ops` module; a module with VARIABLES surrounds the objects with what calls
them, one action per call. So components compose without their environment: the
Reassembler writes to the ByteStream operators, the TCPSender pops from them,
the TCPPeer holds both, and the two threads of TCPMinnowSocket hold the TCPPeer.

    MachineWords
      WrappingIntegers --- SequenceSpace
    ByteStreamOps -------- ByteStream ------> implements BoundedPipe
      IntervalSet, CircBuffer
      ReassemblerOps ----- Reassembler -----> implements StreamReassembly
      TCPReceiverOps   (+ WrappingIntegers)
      TCPSenderOps ------- TCPSender
        TCPPeerOps ------- TCPConnection ---> each way implements BoundedPipe
          (+ EventLoopOps, SocketPair)
                    ------ TCPMinnowSocket -> each way implements BoundedPipe
    NetworkInterfaceOps -- NetworkInterface
      TCPOverIPOps ------- EthernetAdapter -> implements BoundedPipe
    ParserOps
      WireFormatOps ------ Wire

| module | what it is | state and code |
|---|---|---|
| `MachineWords`, `WrappingIntegers` | unsigned 32- and 64-bit arithmetic with the moduli as constants; `wrap`, `unwrap` | `Wrap`, `Unwrap` |
| `SequenceSpace` | two ends that move on and exchange a wrapped number | the arguments of `unwrap` |
| `ByteStreamOps`, `ByteStream` | Writer, Reader, `read()`; a writer and a reader | `bs` has the members of ByteStream |
| `BoundedPipe` | abstract: a bounded FIFO with an end | |
| `IntervalSet`, `CircBuffer`, `ReassemblerOps`, `Reassembler` | `insert` with all its early returns; a sender of substrings and a reader | `rea.buf`, `rea.intervals`, `rea.last_index`, `rea.last_received`; `out` is the output |
| `StreamReassembly` | abstract: a set of known indices and the longest prefix | |
| `TCPSenderOps`, `TCPSender` | the sender and its Timer; application, owner, peer and a network of acknowledgments | `s` has the members of TCPSender; `hung`: `push` does not return; `sent`, `best`, `edge` are history |
| `TCPReceiverOps`, `TCPPeerOps` | `receive` and `send` of both, `active`, and `collect_segments` | records with the members |
| `TCPConnection` | two TCPPeers driven by the rules of the TCP thread, two applications, a network that loses, repeats, delays and reorders; from the SYN to the end | `peer`, `started` (`connect`, `listen_and_accept` have returned), `net` |
| `SocketPair`, `EventLoopOps` | the socket pair as FileDescriptor sees it; `wait_next_event`, cut where `poll` returns | |
| `TCPMinnowSocket` | the TCP thread and the owner, which runs `bidirectional_stream_copy`, with a step of each for each `poll` and each callback | `tcp`, `thread`, `abort` of the socket; `owner`; `up`, `down` the pair; `killed`: a SIGPIPE |
| `NetworkInterfaceOps`, `NetworkInterface` | the interface; the link and the clock | one variable per container; `undefined`: a dead iterator was erased; `hop`, `released`, `heard`, `requested`, `spaced` are history |
| `TCPOverIPOps`, `EthernetAdapter`, `MCEthernetAdapter` | the adapter over a TUN device, a TAP device or endtoend's sockets, with the network thread and the Router's interfaces | `cfg`, `iface`, `toNet`, `fromNet`; `ports`, `out`, `internet` |
| `ParserOps`, `WireFormatOps`, `Wire`, `MCWire` | Parser, Serializer, checksum, all headers; a message on its way, harmed or not | `wire`: the buffers; `parser`: the Parser of the layer being read |

Theorems are in the `...Proofs` modules, beside the module they are about;
`StreamLemmas` and `TCPPeerLemmas` hold the lemmas about operators that several
of them use (the former about ByteStream and Reassembler, the latter about
`wrap` and `unwrap`, sender, receiver and peer), and `TCPSenderProofs` also proves about `SequenceSpace`,
`NetworkInterfaceProofs` about `EthernetAdapter`.

Abstractions, and why nothing is lost by them.

* A byte is its own index in the stream. No code looks at a byte, and a byte out
  of place shows. (In `Wire` bytes are bytes.)
* Time is relative: a timer knows how long it still has, a time entry how long
  it is still valid. The code compares absolute times only with `now`.
* `first_unassembled_`, `first_unacceptable_` and `first_unpopped_index_` of the
  Reassembler are computed afresh by every `insert`; they are not kept.
* Loops (`insert`'s merge, `pop`, `push`, `maybe_send` in `collect_segments`) are
  given by what they compute. Where the loop of `push` does not end, there is
  no result, and `hung` says so.
* `IntervalSet` is a `std::set` of intervals. In `merge_and_insert` all intervals
  that overlap or touch the new one are replaced by their hull, which is what
  the loop does on separated intervals; `Separated` is an invariant, so it only
  ever meets those.
* The network interface's `unordered_map` may rehash when a mapping is added.
  The standard then invalidates the iterators in `time_entries_`; in the library
  this is built with they stay good as long as the node lives, and the model
  follows that. Erasing through an iterator whose node is gone has no defined
  outcome: the model sets `undefined` and stops.
* Dereferencing the empty optional in `TCPSender::receive` reads its storage,
  which the parser has filled with the field of the wire: `BareField` in
  `TCPSender`; in `TCPConnection` the field the other end has filled in.

Environments. In `TCPSender` the peer is honest: it acknowledges what was sent,
in order, and takes no window back. The owner `"socket"` does as TCPMinnowSocket:
SYN before any byte, each call followed by draining `maybe_send`, and no
acknowledgment overtakes another; the owner `"any"` calls the members in any
order, as the unit tests do, and meets overtaken acknowledgments and segments
without ACK. In `TCPConnection` the environment is the other peer; a `Timeout`
is enough ticks for the timer to expire, and while segments are underway it
counts as a fault of the network, which then has delayed them. In
`TCPMinnowSocket` the other end is an honest TCP that answers before the timer
expires and may reset: loss and retransmission are the subject of
`TCPConnection`, so the two together cover what one module with both could not
be checked on. In `EthernetAdapter` the network behind a TUN or TAP device sends
any datagram and any ARP message of the gateway, at any time.

Definitions commented `Fault` are not part of the code's model. Each is a
plausible mistake in the definition that follows it and has its parameters; put
in its place, it makes a run find a property violated. They show that the
properties can fail.

## 3. What is checked

| run | shows | bounds |
|---|---|---|
| `sequence_space` | `RoundTrip`, `Nearest` | 2^32 is 8, 2^64 is 40 (five laps): every number against every checkpoint, three zero points. First, last and inner laps behave differently; five have all three, and ties of half a lap |
| `byte_stream` | `Counters`, `FinishedForGood`, refinement of `BoundedPipe` | capacity 4, pushes up to 5, 8 bytes: cut pushes, several chunks, pops over and inside them, the stream twice as long as the buffer |
| `reassembler` | `StoredBytes`, `Separated`, `ClosedWhenComplete`, `PushesNextBytes`, refinement of `StreamReassembly` | capacity 5, 8 bytes: up to three intervals, all merges, the buffer's end passed, 64-bit wrap of the keep-alive index |
| `sender` | `TimerRunsIffInFlight`, `NothingForgotten`, `SegmentsCarryStream`, `BackoffConsistent` for both owners; `WindowRespected`, `RetransmitsSomething` for `"socket"` | 3 bytes in segments of 2, windows 0 and 3, two acknowledgments in the network, two retransmissions; the ISN makes the numbers wrap |
| `connection` | `AckedIsAssembled`, `NoneLeavesEarly`, each way a `BoundedPipe`, and `EverythingArrives` | 2 bytes one way and 1 the other, buffers and window of 2, one fault, numbers that wrap on both sides |
| `socket` | `EndAfterLastByte`, `OnlyResetKills`, each way a `BoundedPipe`, and `BothThreadsEnd` | one byte typed, two received, a pipe of one byte, so that writes are partial and block; reset and destruction at any moment |
| `interface` | `KnownHopsHaveNoQueue`, `WaitingWasRequested`, `EachOnceInOrder`, `RequestsAreSpaced` at all times; `MappingsExpire`, `MappingsLast`, `ErasesOnce` while ARP messages are spaced | two hosts, three datagrams, three frames, validity 3, period 1 |
| `adapter` | `OnePeer`, refinement of `BoundedPipe`, `ReachesRouter` | three devices, listening or connected to one of three peers, two segments, a device that keeps one frame, mappings that expire after four ticks |
| `wire` | `NoEmptyFront`, `ArrivesIntact`, `HarmIsNoticed` | six segments (SYN, FIN, RST, no ACK, odd and zero payloads) and an ARP message, over TUN, TAP and memory, with options of a foreign host; each byte changed in three ways, every cut, padding up to 3 |

`TypeOK` is checked in `reassembler`, `interface` and `wire`, where it says more
than the shape: which entries and intervals can be there, and that the Parser's
size is that of its buffers.

Why the bounds are enough: each lets the structure overflow, wrap or repeat at
least once (the stream is longer than the buffer, the numbers pass the modulus,
a mapping expires and is learned anew), and the code distinguishes no larger
numbers than "empty, one, more than one, full". One fault in `connection` meets
every segment of the connection's life in turn; two, on a connection of one
byte, are in `connection_reordered`.

`spaced` in `interface` says that ARP messages come at most one in a millisecond
and that no host is heard of twice within the validity of a mapping. That is the
condition under which the 30 seconds hold; what happens otherwise is below.

Deadlock is not looked for in any run, for all of them may end: bytes,
datagrams, frames and messages are bounded, and a stream that has been closed
and read, two peers that have left, a process that has ended, a message that is
delivered or dropped are where the program may rest. That nobody waits for ever
is said by `EverythingArrives`, `BothThreadsEnd` and `ReachesRouter` instead.

### Fairness

* `TCPConnection`: the event loop serves what stays ready, and both applications
  go on writing and reading. A segment at the head of the network is received, a
  timer that runs expires when it can. Each conjunct is the weak fairness of an
  action, written with the action's guard in place of ENABLED, which TLC would
  otherwise evaluate at great cost. Losses are bounded by `MaxFaults`; that a
  segment sent again and again gets through is what TCP itself assumes.
* `TCPMinnowSocket`: a thread that is at a place from which it can go on is not
  there for ever, which is what the kernel's scheduling gives; the user at the
  terminal comes to an end, and the other end answers. A step of a thread always
  leaves the place it starts from, or `poll` returns with something new.
* `EthernetAdapter`: the TCP thread goes on in `send_pending` and reads what the
  device has, and the network thread goes round its loop. Nothing is assumed of
  time or of what others send.

### Disagreements found

Each is a run that TLC ends with a counterexample.

* `connection_reordered`. `receive` takes over an ackno older than the last one
  (`src/tcp_sender.cc:130`). After the later acknowledgment has emptied the
  queues, the older one makes `push` count what is already acknowledged against
  the window: no room for the FIN, nothing in flight, no timer. If the other
  end's stream is done by then, the TCPPeer is no longer active and leaves
  without its FIN; the other end never sees the end of the stream.
  `tests/send_extra.cc` says that outdated ACKs are harmless.
* `socket_reset`. When a connection is reset while received bytes wait, rule 3
  writes what the kernel takes, shuts the pair for writing because of the error,
  and stays interested while bytes are buffered: its next write is a SIGPIPE,
  which ends the process (`util/tcp_minnow_socket.cc:171`).
* `interface_relearn`. When a host is heard of again, its old time entry stays
  and erases the renewed mapping early; its new entry then holds an iterator to
  nothing, and erasing through that is undefined (`src/network_interface.cc:126`).

Seen in the code, and in the model, without a run of their own:

* TCPSender. After an overtaken acknowledgment `push` subtracts what is in
  flight from a smaller window; the 64-bit difference wraps and the sender sends
  all it has. An acknowledgment between `tick` and `maybe_send` leaves
  `b_retransmit_` set and nothing in flight, and `maybe_send` takes the front of
  an empty deque; an owner that drains `maybe_send` does not meet it. The first
  `push` with more bytes than the window allows does not return (`PushReturns`).
  A segment without ACK acknowledges what its unused field says; if that is the
  ISN and comes before the first `push`, its window opens, and all the segments
  that `push` makes carry SYN (`sender` with `BareField = 14` and a window of 4
  for the owner `"any"`). Since a window
  of 0 is stored as 1, zero-window probes count as consecutive retransmissions.
* TCPSender and TCPPeer. The one segment without ACK between two peers is the
  client's SYN; `util/tcp_peer.hh:52` hands its empty ackno to the server's sender
  like any other, whose `msg.ackno->unwrap` (`src/tcp_sender.cc:124`) then reads
  the 0 of the unused field. If 0 is one of the numbers after the server's ISN
  that the server uses, a SYN that comes once more acknowledges what the
  client has not assembled, and the server forgets it: `connection` with
  `ServerISN = 15` violates `AckedIsAssembled`. Of 2^32 ISNs only so many have
  this as the server's stream is long; the ISNs of the runs have not.
* TCPPeer. `MAX_RETX_ATTEMPTS` is never read: a peer that is gone keeps a
  connection active for ever, its timeout doubling.
* TCPMinnowSocket. The destructor sends no RST though `util/tcp_minnow_socket.hh:80`
  says so: it sets `_abort`, and the other end hears nothing more. After a reset
  the copy still takes bytes from the terminal into a stream nobody reads.
  `Socket::shutdown` counts in two unsynchronised counters that both threads use.
* EventLoop. A descriptor that has hung up and whose rules have no interest is
  reported by every `poll`: the loop spins until the rule is cancelled.
* NetworkInterface. Of two mappings learned in one millisecond the second gets
  no time entry and never expires. A second request that is answered after a
  delay renews a mapping, which is the case of `interface_relearn`.
* Adapters and endtoend. A listening adapter fixes its peer at the first SYN for
  good, even if a LossyFdAdapter then drops that SYN. The network thread ticks
  its interfaces by 10 ms for each event it serves, however short; it serves the
  first rule that is ready, so frames of the Internet wait while others come;
  and if it ends by an exception the host blocks in `send_pending`.
* Wire. The payload of a datagram is all that is left of the frame, so padding
  becomes payload. IP options are skipped, but the header's checksum is computed
  without them. A data offset beyond the segment is not an error.
* Router. As above: nothing is forwarded, so no TCP connection of
  `apps/endtoend.cc` gets past its SYN in this commit.

## 4. What is proved

For every value of the constants that the named ASSUMEs admit. What they ask is
that sizes are natural numbers, that capacities and moduli are not zero, and
that stream indices stay below 2^64 (`ReassemblerAssumption`: a stream cannot be
that long). `SocketAssumption` asks besides that the other end sends no more
than half a lap of sequence numbers (2^31 bytes): the other end of module
`TCPMinnowSocket` numbers its bytes from zero and never wraps, and the proof that
`receive` finds the place of a segment is made for all places in its stream, not
only for those near the window. `ConnectionAssumption` says the same of both streams of
`TCPConnection`, whose segments carry their 32-bit number only and may be as late
as they like. What happens across laps is the subject of `SequenceSpace`.

The theorems of `TCPConnectionProofs` have a hypothesis besides,
`BareFieldIsIgnored`: 0 is not one of the numbers that the server uses after its
ISN. It is no assumption of the model, which has the behaviour without it; there
`AckedIsAssembled` is false (section 3). The ISNs of `connection` satisfy it.

| theorem | module | argument |
|---|---|---|
| `UnwrapWrap`, `UnwrapNearest`, `SequenceSpaceRoundTrip`, `SequenceSpaceNearest` | `TCPPeerLemmas`, `TCPSenderProofs` | a number less than half a lap from the checkpoint lies in the checkpoint's lap or in one of its neighbours; in each the candidate is nearer than the other two. A fact about the operators, so it can be cited where they are used |
| `CountersAgree`, `FinishedIsFinal`, `RefinesPipe` | `ByteStreamProofs`, lemmas in `StreamLemmas` | `SoundStream`: the record has its fields, size is pushed minus popped and at most the capacity. What happens to the chunks does not matter for the first two; for the refinement, `Numbered` below |
| `ReassemblerTypeCorrect`, `IntervalsStaySeparated`, `BytesStayStored`, `ClosesWhenComplete`, `WritesInOrder`, `RefinesReassembly` | `ReassemblerProofs`, lemmas in `StreamLemmas` | `Reassembling`: type, separated intervals inside the window, every covered byte at its index modulo the capacity; and closed exactly when complete. Separation alone is not inductive: that an insert does not overwrite a stored byte needs that the window is no longer than the buffer, and that a pop blanks only its own bytes needs that the others are within one capacity |
| `TimerTracksFlight`, `NeverRetransmitsNothing`, `BacksOffAsCounted` | `TCPSenderProofs` | `TimerInv`: the shape of the sender's record, the queues are sequences, and the timer runs iff something is in flight. No assumption on owner, acknowledgments or order. A retransmission falls due only with something in flight, and under the socket nothing is received before it has been sent. `Counted`: the timeout is the initial one times a power of two, no higher than the count of retransmissions, and an acknowledgment that resets one resets the other |
| `WindowIsRespected`, `NothingIsForgotten`, `SegmentsAreOfTheStream` | `TCPSenderProofs` | below; all for the owner `"socket"` |
| `TypeCorrect`, `NoQueueForKnownHops`, `WaitsOnlyForRequested`, `RequestsSpaced`, `ErasesThroughLiveIterators`, `MappingsForgotten`, `MappingsKept`, `NothingLostOrReordered` | `NetworkInterfaceProofs` | below |
| `OnlyAResetKills`, `NothingCutShort` | `TCPMinnowSocketProofs` | who shuts what, and when: below |
| `ConnectionInvariant`, `AcknowledgedIsAssembled`, `NoEndLeavesEarly`, `BytesKeepTheirPlace`, `DeliversInOrder` | `TCPConnectionProofs` | what two ends and a network promise together: below |
| `OneConversation` | `NetworkInterfaceProofs` | `Locked`: a listening adapter has talked to nobody, any other only in the conversation it is configured for. `OnePeer` alone does not say that the one peer is the configured one |

The invariants of the sender under TCPMinnowSocket. `FlowNumbers`:
`absolute_seqno` is what was popped plus SYN plus FIN, the ackno on record is
`Wrap` of the highest delivered, and the edge is the window on record beyond it;
by `UnwrapWrap` the unsigned difference in `push` is then exactly what is left
to the edge. `QueuesCover`: every segment of the two queues ends by
`absolute_seqno`, and every number from the highest ackno on is inside one of
them. `AcksAreOfSent` links the two: an acknowledgment is of a number
transmitted, which a queued segment reached. What is popped when an
acknowledgment comes ends at or before it (`QueuedUnacknowledged`); what `push`
makes covers exactly the new numbers (`SegmentsMade`).

What the chunks of a stream hold. The model's chunks are a sequence of
sequences, their content a fold (`FlattenSeq`), and a pop cuts the chunk in
which it ends. The proofs reason about all three through one predicate,
`Numbered(bs)`: the content of the queue is the run of numbers from `popped` to
`pushed`, which is what every writer of these models pushes. `RunsJoin` and
`RunsCut` say that runs concatenate and split, `FlattenDrop` that dropping n
bytes from the queue drops n from its content; `PushNumbered`, `PopNumbered`
and `ReadNumbered` follow, and from them `RefinesPipe`. The fold and the power
of two of the backoff are recursive functions, and the library's theorems about
those take operators as parameters; `RecursionExists` proves for the one form
needed that such a function exists, by a least counterexample, and so that it
satisfies its equation.

The sender's segments. `CarryInv` is the invariant of `SegmentsAreOfTheStream`:
the stream is numbered, every segment of the two queues is of the stream
(`Carries`), and the next number is the first unread byte's. `SegmentParts`
says what the k-th segment of a push holds, and `SentStaysQueued` that sending,
acknowledging and repeating make no new segment. It does not hold for the owner
`"any"`, which may receive before it pushes: a segment whose ACK field equals
the ISN then opens the window before the first push, and SYN is repeated in
every segment that push makes (section 3).

The Reassembler implements StreamReassembly under the mapping that reads the
stored bytes through the intervals; an insert is first reduced to the substring
the window keeps (`CutRun`), and `Split` tells its three cases apart:
nothing to add, stored, stored and delivered.

The invariants of the network interface. Requests are spaced by
`arp_request_times_`, but its records are dropped when the host answers, so the
spacing also rests on the answer's mapping: it outlives the period.
`RecordsAreExact` says that a record tells how long ago the request was;
`UnrecordedIsOld`, that a host without record and without mapping was not asked
within the period; `LiveEntriesHaveMapping` and `LiveEntriesAreRecent`, that an
entry that can still erase a mapping is about a host that was heard of exactly
as long ago as the entry is old. That last part is what fails to be true of dead
entries, and why the proof needs that the model stops at one.
`RequestPeriod < MappingTTL` (5 s, 30 s) is used, and must be. The last three
theorems need more, while ARP messages are spaced: `TimesAreExact`, that every
mapping has a time entry, every entry a mapping, and that both are as old as the
last message of the host. `NothingLostOrReordered` needs another: `Held` is
`EachOnceInOrder` of any frames, queue and history, so that one lemma says what
each change does to it (`HeldInFrame`, `HeldWaiting`, `HeldReleased`,
`HeldPopped`), and `Known` that frames hold only datagrams that were given. That
a queue is empty once its host is known (`KnownHopsHaveNoQueue`) is what keeps a
new datagram from overtaking those that wait.

The two threads of the socket. The inductive invariant of both theorems is one,
because each hazard is the other's excuse: a SIGPIPE needs a write to an end
whose reader has shut it, and a stream is cut short if an end is shut before its
bytes are through. `Shutting` says that an end of the pair is shut only when the
stream that feeds it is over, or when the thread has ended, which it does only
with both streams over, on a reset, or because the owner gave up. `ThreadRules`,
`OwnerRules` and `OwnerChannels` say that a rule of either loop is gone only for
a reason of that kind: a loop ends when it has no rule with interest left, so a
rule cancelled early would end it early. `Counting` says that what one side has
popped the other has pushed or the pair holds, `Reading` the same of the
owner's input. None of this is inductive without `ThreadSeen` and `OwnerSeen`:
a thread acts on what `poll` has told it, the other thread has run since, and
what was told (readable, hung up) must still be so; it is, since each end is
read by one thread only and no shutdown is taken back. An iteration of the TCP
thread collects segments and ticks after its callback, so `ThreadInv` takes the
peer, the thread's record and the two channels as parameters and can be said in
the middle of a step (`EventEnds` takes it to the end). The types of the peer
and of the segments say more than their fields: all that the other end sends
lies in its stream, and the Reassembler takes nothing but the stream's end for
its last index, so that `receive` closes the inbound stream only at its last
byte.

The two ends of a connection. An end takes for acknowledged what a segment told
it, the segment was filled from what the other end had then assembled, and that
only grows: so `AckInv` and `WireInv` bound what is believed and what is on its
way by `Reported`, the other end's own next number, and `AckedIsAssembled`
follows whatever the network does. That the numbers mean the same on both sides
needs all segments in the half lap (`UnwrapInHalf`), hence that each lies in its
stream: `Sound`, whose `Sending` says that the queues hold only segments of the
stream and FIN only at its end, and whose `Peers` is the type of the receiving
side that `TCPMinnowSocketProofs` needs too. The lemmas about one peer are in
`TCPPeerLemmas`, used by both. `Opening` is the handshake: until the server has
heard the SYN nothing is on its way to the client and only SYNs to the server,
which is why nothing else is ever taken as a first segment.

`NoneLeavesEarly` needs more. `active()` asks whether both streams are done and
nothing is in flight, and an end could satisfy that by having forgotten its last
segment, or by never having made its FIN for want of room, which is what an
overtaken acknowledgment does (`connection_reordered`). So unless something has
been overtaken, `Orderly` says that acknowledgments arrive in ascending order
(`InOrder`), that each unacknowledged number is inside a segment of the queues
(`Held`), and that something is outstanding while a finished stream has no FIN
(`FinComes`): with nothing unacknowledged the window, never stored as 0, has
room for it. Then an end with empty queues and its FIN sent has all of it
acknowledged (`DoneIsAcknowledged`), and by the first theorem assembled; and a
closed inbound stream is whole (`ClosedIsWhole`).

Each handler (a segment received, bytes written, the stream closed, the timer)
is followed by `collect_segments`, so what a handler must establish on the way is
a predicate of its own, `Handled` and, in order, `HandledInOrder`; the lemma of
each handler shows only that, and `GoesOnIsSound` does the collecting, sending
and starting once for all.

That each direction is a pipe (`DeliversInOrder`) is about the bytes themselves,
and has an invariant of its own on top, `DataInv`: a segment `Carries` the run
of the stream that belongs where its number puts it, wherever it is, in a queue
of its sender (`Laden`) or on its way; and the receiving side is `Filled`, its
Reassembler and inbound stream in the state that `ReassemblerProofs` proves
inductive for the Reassembler alone, with what the other application has written
so far for the stream's length. Nothing here depends on order or
acknowledgment, so `DataInv` holds across every fault. `Inv` is needed for it:
only since all numbers are in the half lap does `receive` put the bytes at the
index they were sent from. The content of the pipe is then the run from what has
been read to what has been written (`Holds`), and a step does one of four things
to these two numbers (`StreamStep`): `StepsThroughPipe` turns them into the
pipe's Write, Read, Close or a stutter. The pipe is bounded by the stream only.
The buffers do not bound it: after an overtaken acknowledgment the room that
`push` computes wraps around, and the sender sends all that it has.

Model-checked only, and why. Liveness (`EverythingArrives`, `BothThreadsEnd`,
`ReachesRouter`) is beyond the prover, as is what a fold computes for every
input: hence all of `Wire`, whose parser and checksum are folds. The pipes
of `TCPMinnowSocket` and of `EthernetAdapter` are within its reach and not
proved yet. `NothingForgotten` and `SegmentsCarryStream` are
checked but not proved for the owner `"any"`, the second because it is true of
it only while no bare field equals the ISN.

## 5. Plan

Next to prove: the pipes of `TCPMinnowSocket`, with the parts of
`DataInv` for its one peer, and `Numbered` for the socket pair;
`NothingForgotten` for the owner `"any"`,
whose overtaken acknowledgments break `FlowNumbers`.

Next to model, once the code has it: the Router's forwarding.

## 6. Not modelled

* `util/address.*`, `util/exception.hh`, `util/random.*`: wrappers of
  `getaddrinfo`, error codes and a generator, no state of the protocol. Opening
  descriptors, socket options and TUN set-up are system calls of the same kind.
* EventLoop: rules without a descriptor, cancelling from outside, POLLERR and
  the busy-wait exception, which no program here uses or sees.
* The applications' command lines, `webget`'s request, `to_string` and other
  display, `Parser::string`, `bytes_pending` and `bytes_pushed` accessors.
* The frame `TCPOverIPv4OverEthernetAdapter` sends to prime a TAP device.
* Loss on the link of `EthernetAdapter`: a lost ARP request is repeated only
  when TCP sends again, which that module does not drive.
* Overflow of the timeout (64-bit milliseconds doubled at each retransmission)
  and of 64-bit counters, which no run of the program reaches.
* `etc/`, `tests/`, `labs/` and the build directories.
