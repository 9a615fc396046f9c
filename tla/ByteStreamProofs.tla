--------------------------- MODULE ByteStreamProofs ---------------------------
(***************************************************************************)
(* The counters of a ByteStream agree, its capacity is respected, and it   *)
(* is a bounded pipe, for every capacity and every sequence of calls.      *)
(***************************************************************************)
EXTENDS ByteStream, StreamLemmas

IInv == SoundStream(bs) /\ bs.capacity = Capacity /\ Numbered(bs)

LEMMA IInvInit == Init => IInv
BY NewIsSound, NewIsNumbered, ByteStreamAssumption DEF Init, IInv, NewByteStream

\* The string that a push hands over: the next len numbers.
LEMMA PushStep ==
    ASSUME IInv, Push
    PROVE  \E len \in Nat :
              /\ bs' = WriterPush(bs, Run(bs.pushed, len))
              /\ Run(bs.pushed, len) \in Seq(Int)
              /\ Len(Run(bs.pushed, len)) = len
<1>1. PICK len \in 0 .. MaxPush : bs' = WriterPush(bs, [i \in 1 .. len |-> bs.pushed + i - 1])
  BY DEF Push
<1>2. len \in Nat /\ bs.pushed \in Nat
  BY ByteStreamAssumption DEF IInv, SoundStream
<1>3. bs' = WriterPush(bs, Run(bs.pushed, len))
  BY <1>1 DEF Run
<1>4. Run(bs.pushed, len) \in Seq(Int) /\ Len(Run(bs.pushed, len)) = len
  BY <1>2 DEF Run
<1>. QED BY <1>2, <1>3, <1>4

LEMMA IInvNext == IInv /\ [Next]_vars => IInv'
<1>. SUFFICES ASSUME IInv, [Next]_vars PROVE IInv'
  OBVIOUS
<1>1. CASE Push
  <2>1. PICK len \in Nat : /\ bs' = WriterPush(bs, Run(bs.pushed, len))
                           /\ Run(bs.pushed, len) \in Seq(Int)
                           /\ Len(Run(bs.pushed, len)) = len
    BY <1>1, PushStep
  <2>. DEFINE data == Run(bs.pushed, len)
              m == MinOf(bs.capacity - bs.size, len)
  <2>2. SoundStream(bs) /\ Numbered(bs) /\ bs.capacity = Capacity
    BY DEF IInv
  <2>3. SoundStream(WriterPush(bs, data)) /\ WriterPush(bs, data).capacity = Capacity
    BY <2>1, <2>2, PushIsSound
  <2>4. data = Run(bs.pushed, len) /\ m = MinOf(bs.capacity - bs.size, len)
    OBVIOUS
  <2>. HIDE DEF data, m
  <2>5. Numbered(WriterPush(bs, data))
    BY <2>2, <2>4, PushNumbered
  <2>. QED BY <2>1, <2>3, <2>4, <2>5 DEF IInv
<1>2. CASE CloseStream
  <2>1. /\ SoundStream(bs') /\ bs'.capacity = bs.capacity
        /\ bs'.q = bs.q /\ bs'.size = bs.size /\ bs'.popped = bs.popped
    BY <1>2, CloseIsSound DEF CloseStream, StreamFields, IInv
  <2>. QED BY <2>1, SameNumbered DEF IInv
<1>3. CASE SetError
  <2>1. /\ SoundStream(bs') /\ bs'.capacity = bs.capacity
        /\ bs'.q = bs.q /\ bs'.size = bs.size /\ bs'.popped = bs.popped
    BY <1>3, SetErrorIsSound DEF SetError, StreamFields, IInv
  <2>. QED BY <2>1, SameNumbered DEF IInv
<1>4. CASE Read
  <2>1. PICK len \in 0 .. Capacity + 1 : bs' = ReaderPop(bs, len)
    BY <1>4 DEF Read
  <2>2. len \in Nat /\ SoundStream(bs) /\ Numbered(bs) /\ bs.capacity = Capacity
    BY ByteStreamAssumption DEF IInv
  <2>3. SoundStream(ReaderPop(bs, len)) /\ ReaderPop(bs, len).capacity = Capacity
    BY <2>2, PopIsSound DEF StreamFields
  <2>4. Numbered(ReaderPop(bs, len))
    <3>. DEFINE n == MinOf(len, bs.size)
    <3>1. n = MinOf(len, bs.size)
      OBVIOUS
    <3>. HIDE DEF n
    <3>. QED BY <2>2, <3>1, PopNumbered
  <2>. QED BY <2>1, <2>3, <2>4 DEF IInv
<1>5. CASE UNCHANGED vars
  BY <1>5 DEF vars, IInv
<1>. QED BY <1>1, <1>2, <1>3, <1>4, <1>5 DEF Next

(***************************************************************************)
(* The capacity promise of Writer::push: bytes_buffered is pushed minus    *)
(* popped and never exceeds the capacity, for every interleaving of        *)
(* pushes, pops, close and set_error.                                      *)
(***************************************************************************)
THEOREM CountersAgree == Spec => []Counters
<1>1. IInv => Counters
  BY DEF IInv, Counters, SoundStream
<1>. QED BY <1>1, IInvInit, IInvNext, PTL DEF Spec

(***************************************************************************)
(* The reader's end of stream is final: once is_finished() holds, it holds *)
(* in every later state and nothing more is read.                          *)
(***************************************************************************)
THEOREM FinishedIsFinal == Spec => FinishedForGood
<1>1. IInv /\ [Next]_vars
         => [IsFinished(bs) => IsFinished(bs') /\ bs'.popped = bs.popped]_vars
  <2>. SUFFICES ASSUME IInv, Next, bs.closed, bs.size = 0
                PROVE  bs'.closed /\ bs'.size = 0 /\ bs'.popped = bs.popped
    BY DEF IsFinished
  <2>1. CASE Push
    BY <2>1 DEF Push
  <2>2. CASE CloseStream
    BY <2>2, CloseIsSound DEF CloseStream, StreamFields, IInv
  <2>3. CASE SetError
    BY <2>3, SetErrorIsSound DEF SetError, StreamFields, IInv
  <2>4. CASE Read
    <3>1. PICK len \in 0 .. Capacity + 1 : bs' = ReaderPop(bs, len)
      BY <2>4 DEF Read
    <3>2. len \in Nat /\ bs.popped \in Nat /\ MinOf(len, bs.size) = 0 /\ SoundStream(bs)
      BY ByteStreamAssumption DEF IInv, SoundStream, MinOf
    <3>3. /\ \A f \in StreamFields \ {"size", "popped", "q"} : ReaderPop(bs, len)[f] = bs[f]
          /\ ReaderPop(bs, len).popped = bs.popped + MinOf(len, bs.size)
          /\ ReaderPop(bs, len).size = bs.size - MinOf(len, bs.size)
      BY <3>2, PopIsSound
    <3>4. ReaderPop(bs, len).closed = bs.closed
      BY <3>3 DEF StreamFields
    <3>. QED BY <3>1, <3>2, <3>3, <3>4
  <2>. QED BY <2>1, <2>2, <2>3, <2>4 DEF Next
<1>. QED BY <1>1, IInvInit, IInvNext, PTL DEF Spec, FinishedForGood
-----------------------------------------------------------------------------
(* The stream implements the bounded pipe *)

LEMMA PushRefines ==
    ASSUME IInv, Push
    PROVE  [Pipe!Next]_Pipe!vars
<1>. DEFINE content == FlattenSeq(bs.q)
<1>1. PICK len \in Nat : /\ bs' = WriterPush(bs, Run(bs.pushed, len))
                         /\ Run(bs.pushed, len) \in Seq(Int)
                         /\ Len(Run(bs.pushed, len)) = len
  BY PushStep
<1>2. /\ SoundStream(bs) /\ Numbered(bs) /\ bs.capacity = Capacity /\ ~bs.closed
      /\ bs.pushed = bs.popped + bs.size /\ bs.size \in Nat /\ bs.popped \in Nat
      /\ Capacity \in Nat /\ bs.size <= Capacity
  BY DEF IInv, Push, SoundStream
<1>. DEFINE data == Run(bs.pushed, len)
            m == MinOf(bs.capacity - bs.size, len)
<1>3. data = Run(bs.pushed, len) /\ m = MinOf(bs.capacity - bs.size, len)
      /\ m \in Nat /\ m <= Capacity - bs.size
  BY <1>2 DEF MinOf
<1>4. /\ bs'.popped = bs.popped /\ bs'.closed = bs.closed /\ bs'.error = bs.error
  BY <1>1, <1>2, PushIsSound
<1>. HIDE DEF data, m
<1>5. FlattenSeq(WriterPush(bs, data).q) = FlattenSeq(bs.q) \o Run(bs.pushed, m)
  BY <1>1, <1>2, <1>3, PushNumbered
<1>6. content' = content \o Run(bs.pushed, m)
  BY <1>1, <1>3, <1>5
<1>7. Len(content) = bs.size /\ content \in Seq(Int)
  BY <1>2, NumberedContent
<1>8. Run(bs.pushed, m) = [i \in 1 .. m |-> bs.popped + Len(content) + i - 1]
  BY <1>2, <1>7 DEF Run
<1>9. CASE m = 0
  <2>1. Run(bs.pushed, m) = <<>>
    BY <1>9 DEF Run
  <2>2. content' = content
    BY <1>6, <1>7, <2>1, ConcatEmptySeq
  <2>. QED BY <1>4, <2>2 DEF Pipe!vars
<1>10. CASE m > 0
  <2>1. m \in 1 .. Capacity - Len(content)
    BY <1>2, <1>3, <1>7, <1>10
  <2>2. content' = content \o [i \in 1 .. m |-> bs.popped + Len(content) + i - 1]
    BY <1>6, <1>8
  <2>3. Pipe!Write
    BY <1>2, <1>4, <2>1, <2>2 DEF Pipe!Write
  <2>. QED BY <2>3 DEF Pipe!Next
<1>. QED BY <1>3, <1>9, <1>10

LEMMA ReadRefines ==
    ASSUME IInv, Read
    PROVE  [Pipe!Next]_Pipe!vars
<1>. DEFINE content == FlattenSeq(bs.q)
<1>1. PICK len \in 0 .. Capacity + 1 : bs' = ReaderPop(bs, len)
  BY DEF Read
<1>. DEFINE n == MinOf(len, bs.size)
<1>2. /\ len \in Nat /\ SoundStream(bs) /\ Numbered(bs)
      /\ bs.size \in Nat /\ bs.popped \in Nat
      /\ n = MinOf(len, bs.size) /\ n \in Nat /\ n <= bs.size
  BY ByteStreamAssumption DEF IInv, SoundStream, MinOf
<1>. HIDE DEF n
<1>3. /\ bs'.popped = bs.popped + n /\ bs'.closed = bs.closed /\ bs'.error = bs.error
  <2>1. /\ \A f \in StreamFields \ {"size", "popped", "q"} : ReaderPop(bs, len)[f] = bs[f]
        /\ ReaderPop(bs, len).popped = bs.popped + MinOf(len, bs.size)
    BY <1>2, PopIsSound
  <2>2. ReaderPop(bs, len).closed = bs.closed /\ ReaderPop(bs, len).error = bs.error
    BY <2>1 DEF StreamFields
  <2>. QED BY <1>1, <1>2, <2>1, <2>2
<1>4. FlattenSeq(ReaderPop(bs, len).q)
         = SubSeq(FlattenSeq(bs.q), n + 1, Len(FlattenSeq(bs.q)))
  BY <1>2, PopNumbered
<1>5. content' = SubSeq(content, n + 1, Len(content))
  BY <1>1, <1>4
<1>6. Len(content) = bs.size /\ content \in Seq(Int)
  BY <1>2, NumberedContent
<1>7. CASE n = 0
  <2>1. SubSeq(content, 1, Len(content)) = content
    BY <1>6
  <2>2. content' = content /\ bs'.popped = bs.popped
    BY <1>2, <1>3, <1>5, <1>7, <2>1
  <2>. QED BY <1>3, <2>2 DEF Pipe!vars
<1>8. CASE n > 0
  <2>1. n \in 1 .. Len(content)
    BY <1>2, <1>6, <1>8
  <2>2. Pipe!Read
    BY <1>3, <1>5, <2>1 DEF Pipe!Read
  <2>. QED BY <2>2 DEF Pipe!Next
<1>. QED BY <1>2, <1>7, <1>8

(***************************************************************************)
(* The chunked stream implements the bounded pipe: what its queue of       *)
(* strings holds is at every moment the bytes accepted by Writer::push and *)
(* not yet taken by Reader::pop, each once and in order, wherever pushes   *)
(* are cut for want of room and wherever pops end inside a chunk.          *)
(***************************************************************************)
THEOREM RefinesPipe == Spec => ImplementsPipe
<1>1. Init => Pipe!Init
  <2>1. FlattenSeq(<<>>) = <<>>
    BY DEF FlattenSeq
  <2>. QED BY <2>1 DEF Init, Pipe!Init, NewByteStream
<1>2. IInv /\ [Next]_vars => [Pipe!Next]_Pipe!vars
  <2>. SUFFICES ASSUME IInv, [Next]_vars PROVE [Pipe!Next]_Pipe!vars
    OBVIOUS
  <2>1. CASE Push
    BY <2>1, PushRefines
  <2>2. CASE CloseStream
    <3>1. /\ bs'.q = bs.q /\ bs'.popped = bs.popped /\ bs'.error = bs.error
          /\ bs'.closed = TRUE
      BY <2>2 DEF CloseStream, WriterClose, IInv, SoundStream, StreamFields
    <3>. QED BY <3>1 DEF Pipe!Close, Pipe!Next
  <2>3. CASE SetError
    <3>1. /\ bs'.q = bs.q /\ bs'.popped = bs.popped /\ bs'.closed = bs.closed
          /\ bs'.error = TRUE
      BY <2>3 DEF SetError, WriterSetError, IInv, SoundStream, StreamFields
    <3>. QED BY <3>1 DEF Pipe!Fail, Pipe!Next
  <2>4. CASE Read
    BY <2>4, ReadRefines
  <2>5. CASE UNCHANGED vars
    BY <2>5 DEF vars, Pipe!vars
  <2>. QED BY <2>1, <2>2, <2>3, <2>4, <2>5 DEF Next
<1>. QED BY <1>1, <1>2, IInvInit, IInvNext, PTL DEF Spec, ImplementsPipe, Pipe!Spec
=============================================================================
