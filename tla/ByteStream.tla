----------------------------- MODULE ByteStream -----------------------------
(***************************************************************************)
(* A ByteStream between one writer and one reader. The writer pushes       *)
(* strings of any length, more than fits included; the reader pops any     *)
(* length, over chunk boundaries and beyond the end included. A byte is    *)
(* its own position in the stream, so a lost, repeated or reordered byte   *)
(* shows. The writer keeps to the comment of Writer::close ("nothing more  *)
(* will be written"), which push does not enforce.                         *)
(***************************************************************************)
EXTENDS ByteStreamOps

CONSTANTS
    Capacity,    \* the stream's capacity
    MaxPush,     \* bound: the longest string pushed
    MaxPushed    \* bound: total of the bytes pushed

ASSUME ByteStreamAssumption ==
    /\ Capacity \in Nat
    /\ MaxPush \in Nat
    /\ MaxPushed \in Nat

VARIABLE bs      \* the stream

vars == <<bs>>

Init == bs = NewByteStream(Capacity)

Push == \E len \in 0 .. MaxPush :
            /\ ~bs.closed
            /\ bs.pushed + len <= MaxPushed
            /\ bs' = WriterPush(bs, [i \in 1 .. len |-> bs.pushed + i - 1])

CloseStream == bs' = WriterClose(bs)

SetError == bs' = WriterSetError(bs)

Read == \E len \in 0 .. Capacity + 1 : bs' = ReaderPop(bs, len)

Next == Push \/ CloseStream \/ SetError \/ Read

Spec == Init /\ [][Next]_vars

-----------------------------------------------------------------------------

(***************************************************************************)
(* Counters: the size the capacity check goes by is what was pushed and    *)
(* not popped, and never exceeds the capacity, however pushes are cut and  *)
(* pops run past the end.                                                  *)
(***************************************************************************)
Counters == bs.size = bs.pushed - bs.popped /\ bs.size <= bs.capacity

(***************************************************************************)
(* FinishedForGood: a reader that saw the end of the stream sees no more   *)
(* bytes, ever.                                                            *)
(***************************************************************************)
FinishedForGood ==
    [][IsFinished(bs) => IsFinished(bs') /\ bs'.popped = bs.popped]_vars

(***************************************************************************)
(* ImplementsPipe: the chunked stream is a bounded pipe: what is queued is *)
(* always the bytes accepted and not yet popped, each once and in order,   *)
(* however pushes are cut and pops end inside a chunk or span several.     *)
(***************************************************************************)
Pipe == INSTANCE BoundedPipe WITH content <- FlattenSeq(bs.q), delivered <- bs.popped,
                                  closed <- bs.closed, failed <- bs.error
ImplementsPipe == Pipe!Spec
=============================================================================
