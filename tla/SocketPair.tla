----------------------------- MODULE SocketPair ------------------------------
(***************************************************************************)
(* One end of the socket pair between the application and the TCP thread,  *)
(* as FileDescriptor (src/util/file_descriptor.cc) and Socket::shutdown    *)
(* see it. The pair itself is the kernel's: two channels, each a queue of  *)
(* bytes and a flag that says it is shut. Shutting an end for writing is   *)
(* shutting the other for reading, so one flag serves both.                *)
(***************************************************************************)
EXTENDS ByteStreamOps

CONSTANT PipeSize   \* bound: the bytes the kernel keeps for a channel

ASSUME PipeAssumption == PipeSize \in Nat \ {0}

NewChannel == [bytes |-> <<>>, shut |-> FALSE]

\* What poll says of the end that reads, writes a channel; of an end with both.
Readable(ch) == ch.bytes # <<>> \/ ch.shut
Writable(ch) == Len(ch.bytes) < PipeSize
HangsUp(ch1, ch2) == ch1.shut /\ ch2.shut

Shut(ch) == [ch EXCEPT !.shut = TRUE]

\* read() of at most room bytes: what is there, even of a channel that is shut.
ReadData(ch, room) == SubSeq(ch.bytes, 1, MinOf(room, Len(ch.bytes)))
AfterRead(ch, room) ==
    [ch EXCEPT !.bytes = SubSeq(@, MinOf(room, Len(ch.bytes)) + 1, Len(@))]
\* Nothing read from a readable descriptor is its end.
EofRead(ch) == ch.bytes = <<>>

\* How much of n bytes write() may take. It writes to a shut channel at the cost
\* of a SIGPIPE, which nothing here handles.
MayTake(ch, n) == 1 .. MinOf(n, PipeSize - Len(ch.bytes))
AfterWrite(ch, bytes) == [ch EXCEPT !.bytes = @ \o bytes]
=============================================================================
