---------------------------- MODULE ByteStreamOps ----------------------------
(***************************************************************************)
(* The ByteStream of src/src/byte_stream.{hh,cc} as a record, and its      *)
(* Writer and Reader members as operators from a stream to a stream. The   *)
(* TCP components own such streams, so the operators stand apart from the  *)
(* state machine of module ByteStream.                                     *)
(***************************************************************************)
EXTENDS Integers, SequencesExt

MinOf(a, b) == IF a <= b THEN a ELSE b
MaxOf(a, b) == IF a >= b THEN a ELSE b

\* The constructor. q holds the pushed strings, one chunk for each push.
NewByteStream(capacity) ==
    [capacity |-> capacity, size |-> 0, q |-> <<>>, closed |-> FALSE,
     error |-> FALSE, pushed |-> 0, popped |-> 0]

AvailableCapacity(bs) == bs.capacity - bs.size

\* Fault: the counters take the whole string in.
WriterPushUncut(bs, data) ==
    [bs EXCEPT !.pushed = @ + Len(data), !.size = @ + Len(data), !.q = Append(@, data)]

\* Writer::push: what does not fit is dropped, an empty chunk is not queued,
\* and a closed stream is not refused.
WriterPush(bs, data) ==
    LET n == MinOf(AvailableCapacity(bs), Len(data))
    IN  [bs EXCEPT !.pushed = @ + n,
                   !.size = @ + n,
                   !.q = IF n > 0 THEN Append(@, SubSeq(data, 1, n)) ELSE @]

WriterClose(bs) == [bs EXCEPT !.closed = TRUE]
WriterSetError(bs) == [bs EXCEPT !.error = TRUE]

\* Reader::peek: the front chunk.
Peek(bs) == IF bs.q = <<>> THEN <<>> ELSE Head(bs.q)

\* Fault: closed is taken for finished.
IsFinishedOnceClosed(bs) == bs.closed

\* Reader::is_finished
IsFinished(bs) == bs.closed /\ bs.size = 0

\* Fault: a chunk is dropped whole however little of it is popped.
DropChunks(q, n) == IF n > 0 /\ q # <<>> THEN Tail(q) ELSE q

\* How many bytes the first k chunks hold.
BytesUpTo(q, k) == Len(FlattenSeq(SubSeq(q, 1, k)))

\* The loop of Reader::pop over the chunks: those within the first n bytes leave
\* the queue whole, the one that holds the next byte is cut at the front.
DropBytes(q, n) ==
    LET beyond == {k \in DOMAIN q : BytesUpTo(q, k) > n}
        f == Min(beyond)
    IN  IF beyond = {} THEN <<>>
        ELSE <<SubSeq(q[f], n - BytesUpTo(q, f - 1) + 1, Len(q[f]))>> \o SubSeq(q, f + 1, Len(q))

\* Reader::pop. The counters of the loop add up to n, for the chunks hold
\* size bytes (ImplementsPipe of module ByteStream).
ReaderPop(bs, len) ==
    LET n == MinOf(len, bs.size)
    IN  [bs EXCEPT !.popped = @ + n, !.size = @ - n, !.q = DropBytes(@, n)]

\* read(): the bytes the peek-and-pop loop returns, over as many chunks as it
\* takes; the stream it leaves behind is ReaderPop(bs, len).
ReadBytes(bs, len) ==
    LET content == FlattenSeq(bs.q)
    IN  [i \in 1 .. MinOf(len, bs.size) |-> content[i]]
=============================================================================
