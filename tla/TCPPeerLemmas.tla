---------------------------- MODULE TCPPeerLemmas ----------------------------
(***************************************************************************)
(* Lemmas about the operators of WrappingIntegers, TCPSenderOps,           *)
(* ReassemblerOps, TCPReceiverOps and TCPPeerOps, for every module that    *)
(* has a sender or a whole peer. They are stated for a stream of sent      *)
(* bytes that goes out, and for one of total bytes that comes in with the  *)
(* zero point zero; the numbers of both stay within half a lap.            *)
(*                                                                         *)
(* Among them are the two theorems about Wrap32: unwrap returns what was   *)
(* wrapped, or else the nearest number with the same raw value.            *)
(***************************************************************************)
EXTENDS TCPPeerOps, StreamLemmas, SequenceTheorems

-----------------------------------------------------------------------------
(* Streams *)

\* A stream whose counters agree with each other and with its queue.
Streams ==
    {bs \in [capacity : Nat, size : Nat, q : Seq(Seq(Int)), closed : BOOLEAN, error : BOOLEAN,
             pushed : Nat, popped : Nat] :
        bs.size = bs.pushed - bs.popped /\ bs.size <= bs.capacity /\ Len(FlattenSeq(bs.q)) = bs.size}

LEMMA StreamIsSound ==
    ASSUME NEW bs \in Streams
    PROVE  SoundStream(bs)
BY DEF Streams, SoundStream, StreamFields

LEMMA NewStream ==
    ASSUME NEW c \in Nat
    PROVE  NewByteStream(c) \in Streams
<1>. DEFINE q == <<>>
<1>1. FlattenSeq(q) = <<>>
  BY DEF FlattenSeq
<1>2. q \in Seq(Seq(Int))
  OBVIOUS
<1>. QED BY <1>1, <1>2 DEF Streams, NewByteStream

\* A sound stream with a queue that fits it.
LEMMA StreamFits ==
    ASSUME NEW bs, SoundStream(bs), bs.q \in Seq(Seq(Int)), Len(FlattenSeq(bs.q)) = bs.size
    PROVE  bs \in Streams
<1>1. bs = [capacity |-> bs.capacity, size |-> bs.size, q |-> bs.q, closed |-> bs.closed,
            error |-> bs.error, pushed |-> bs.pushed, popped |-> bs.popped]
  BY DEF SoundStream, StreamFields
<1>. QED BY <1>1 DEF Streams, SoundStream, StreamFields

LEMMA PushStream ==
    ASSUME NEW bs \in Streams, NEW data \in Seq(Int)
    PROVE  /\ WriterPush(bs, data) \in Streams
           /\ WriterPush(bs, data).pushed = bs.pushed + MinOf(bs.capacity - bs.size, Len(data))
           /\ \A f \in {"capacity", "popped", "closed", "error"} : WriterPush(bs, data)[f] = bs[f]
<1>. DEFINE w == WriterPush(bs, data)
            n == MinOf(AvailableCapacity(bs), Len(data))
<1>1. SoundStream(bs)
  BY StreamIsSound
<1>2. /\ SoundStream(w)
      /\ w.capacity = bs.capacity /\ w.popped = bs.popped
      /\ w.closed = bs.closed /\ w.error = bs.error
      /\ w.pushed = bs.pushed + MinOf(bs.capacity - bs.size, Len(data))
  BY <1>1, PushIsSound
<1>3. n \in Nat /\ n <= Len(data) /\ n = MinOf(bs.capacity - bs.size, Len(data))
  BY DEF Streams, MinOf, AvailableCapacity
<1>4. w.q = IF n > 0 THEN Append(bs.q, SubSeq(data, 1, n)) ELSE bs.q
  BY DEF WriterPush, Streams
<1>5. w.size = bs.size + n
  BY <1>2, <1>3 DEF SoundStream, Streams
<1>6. SubSeq(data, 1, n) \in Seq(Int) /\ Len(SubSeq(data, 1, n)) = n
  BY <1>3
<1>7. bs.q \in Seq(Seq(Int)) /\ Len(FlattenSeq(bs.q)) = bs.size
  BY DEF Streams
<1>. DEFINE chunk == SubSeq(data, 1, n)
            longer == Append(bs.q, chunk)
<1>8. longer \in Seq(Seq(Int)) /\ FlattenSeq(longer) = FlattenSeq(bs.q) \o chunk
  <2>. HIDE DEF chunk
  <2>. DEFINE C == Seq(Int)
  <2>1. bs.q \in Seq(C) /\ chunk \in C
    BY <1>6, <1>7 DEF chunk
  <2>. HIDE DEF C
  <2>2. longer \in Seq(C)
    BY <2>1
  <2>. QED BY <1>6, <1>7, <2>2, FlattenAppend DEF C, chunk
<1>9. FlattenSeq(bs.q) \in Seq(Int)
  BY <1>7, FlattenType
<1>. HIDE DEF w, n, chunk, longer
<1>10. Len(FlattenSeq(longer)) = bs.size + n
  BY <1>6, <1>7, <1>8, <1>9 DEF chunk
<1>11. w.q \in Seq(Seq(Int)) /\ Len(FlattenSeq(w.q)) = w.size
  <2>1. CASE n > 0
    BY <1>4, <1>5, <1>8, <1>10, <2>1 DEF longer, chunk
  <2>2. CASE n = 0
    BY <1>4, <1>5, <1>7, <2>2 DEF Streams
  <2>. QED BY <1>3, <2>1, <2>2
<1>. QED BY <1>2, <1>11, StreamFits DEF w

LEMMA PopStream ==
    ASSUME NEW bs \in Streams, NEW len \in Nat
    PROVE  /\ ReaderPop(bs, len) \in Streams
           /\ ReaderPop(bs, len).popped = bs.popped + MinOf(len, bs.size)
           /\ ReaderPop(bs, len).size = bs.size - MinOf(len, bs.size)
           /\ \A f \in {"capacity", "pushed", "closed", "error"} : ReaderPop(bs, len)[f] = bs[f]
<1>. DEFINE w == ReaderPop(bs, len)
            n == MinOf(len, bs.size)
<1>1. SoundStream(bs)
  BY StreamIsSound
<1>2. /\ SoundStream(w)
      /\ \A f \in StreamFields \ {"size", "popped", "q"} : w[f] = bs[f]
      /\ w.popped = bs.popped + n
      /\ w.size = bs.size - n
  BY <1>1, PopIsSound
<1>3. n \in Nat /\ n <= bs.size
  BY DEF Streams, MinOf
<1>4. w.q = DropBytes(bs.q, n)
  BY DEF ReaderPop, Streams
<1>5. bs.q \in Seq(Seq(Int)) /\ Len(FlattenSeq(bs.q)) = bs.size
  BY DEF Streams
<1>6. FlattenSeq(bs.q) \in Seq(Int)
  BY <1>5, FlattenType
<1>. HIDE DEF w, n
<1>7. /\ DropBytes(bs.q, n) \in Seq(Seq(Int))
      /\ FlattenSeq(DropBytes(bs.q, n)) = SubSeq(FlattenSeq(bs.q), n + 1, Len(FlattenSeq(bs.q)))
  BY <1>3, <1>5, FlattenDrop
<1>8. Len(SubSeq(FlattenSeq(bs.q), n + 1, Len(FlattenSeq(bs.q)))) = bs.size - n
  BY <1>3, <1>5, <1>6
<1>9. w.q \in Seq(Seq(Int)) /\ Len(FlattenSeq(w.q)) = w.size
  BY <1>2, <1>4, <1>7, <1>8
<1>10. w \in Streams
  BY <1>2, <1>9, StreamFits
<1>. QED BY <1>2, <1>10 DEF w, n, StreamFields

LEMMA CloseStream ==
    ASSUME NEW bs \in Streams
    PROVE  /\ WriterClose(bs) \in Streams
           /\ WriterClose(bs).closed
           /\ \A f \in {"capacity", "size", "q", "pushed", "popped", "error"} : WriterClose(bs)[f] = bs[f]
BY DEF Streams, WriterClose

LEMMA FailStream ==
    ASSUME NEW bs \in Streams
    PROVE  /\ WriterSetError(bs) \in Streams
           /\ WriterSetError(bs).error
           /\ \A f \in {"capacity", "size", "q", "pushed", "popped", "closed"} : WriterSetError(bs)[f] = bs[f]
BY DEF Streams, WriterSetError

\* The front chunk is part of the stream.
LEMMA PeekStream ==
    ASSUME NEW bs \in Streams
    PROVE  Peek(bs) \in Seq(Int) /\ Len(Peek(bs)) <= bs.size
<1>1. bs.q \in Seq(Seq(Int)) /\ Len(FlattenSeq(bs.q)) = bs.size /\ bs.size \in Nat
  BY DEF Streams
<1>2. CASE bs.q = <<>>
  BY <1>1, <1>2 DEF Peek
<1>3. CASE bs.q # <<>>
  <2>1. PICK f : Joins(f, bs.q, Int)
    BY <1>1, JoinExists
  <2>2. FlattenSeq(bs.q) = f[Len(bs.q)]
    BY <1>1, <2>1, FlattenIs
  <2>3. Len(bs.q) \in Nat /\ Len(bs.q) >= 1 /\ 1 \in 1 .. Len(bs.q) /\ bs.q[1] \in Seq(Int)
    <3>. DEFINE C == Seq(Int)
    <3>1. bs.q \in Seq(C)
      BY <1>1
    <3>. HIDE DEF C
    <3>2. Len(bs.q) \in Nat /\ Len(bs.q) >= 1 /\ 1 \in 1 .. Len(bs.q) /\ bs.q[1] \in C
      BY <1>3, <3>1
    <3>. QED BY <3>2 DEF C
  <2>. DEFINE S == {k \in 1 .. Len(bs.q) : Len(f[k]) < Len(bs.q[1])}
  <2>4. \A k \in Nat : f[k] \in Seq(Int)
    BY <2>1 DEF Joins
  <2>5. f[1] = bs.q[1]
    <3>1. f[1] = f[0] \o bs.q[1] /\ f[0] = <<>>
      <4>1. \A i \in 1 .. Len(bs.q) : f[i] = f[i - 1] \o bs.q[i]
        BY <2>1 DEF Joins
      <4>2. f[1] = f[1 - 1] \o bs.q[1]
        BY <2>3, <4>1
      <4>3. 1 - 1 = 0
        OBVIOUS
      <4>. QED BY <2>1, <4>2, <4>3 DEF Joins
    <3>2. <<>> \o bs.q[1] = bs.q[1]
      BY <2>3, ConcatEmptySeq
    <3>. QED BY <3>1, <3>2
  <2>6. S = {}
    <3>. SUFFICES ASSUME S # {} PROVE FALSE
      OBVIOUS
    <3>. DEFINE m == Min(S)
    <3>1. m \in S /\ \A k \in S : m <= k
      <4>. HIDE DEF S
      <4>1. S \in SUBSET Nat
        BY DEF S
      <4>. QED BY <4>1, SmallestOf
    <3>. HIDE DEF m
    <3>2. m \in 1 .. Len(bs.q) /\ Len(f[m]) < Len(bs.q[1])
      BY <3>1
    <3>3. m # 1
      BY <2>3, <2>5, <3>2
    <3>4. m - 1 \in 1 .. Len(bs.q) /\ ~(m <= m - 1) /\ m - 1 \in Nat
      BY <2>3, <3>2, <3>3
    <3>5. m - 1 \notin S
      <4>. HIDE DEF S
      <4>. QED BY <3>1, <3>4
    <3>6. ~(Len(f[m - 1]) < Len(bs.q[1]))
      BY <3>4, <3>5
    <3>7. f[m] = f[m - 1] \o bs.q[m] /\ bs.q[m] \in Seq(Int) /\ f[m - 1] \in Seq(Int)
      <4>1. f[m] = f[m - 1] \o bs.q[m]
        BY <2>1, <3>2 DEF Joins
      <4>2. bs.q[m] \in Seq(Int)
        BY <1>1, <3>2, ElementOfSeq
      <4>. QED BY <2>4, <3>4, <4>1, <4>2
    <3>8. Len(f[m]) = Len(f[m - 1]) + Len(bs.q[m]) /\ Len(f[m - 1]) \in Nat /\ Len(bs.q[m]) \in Nat
      BY <3>7
    <3>9. Len(bs.q[1]) \in Nat
      BY <2>3
    <3>. DEFINE a == Len(f[m - 1])   b == Len(bs.q[m])   c == Len(f[m])   d == Len(bs.q[1])
    <3>10. a \in Nat /\ b \in Nat /\ d \in Nat /\ c = a + b /\ c < d /\ ~(a < d)
      BY <3>2, <3>6, <3>8, <3>9
    <3>. HIDE DEF a, b, c, d
    <3>. QED BY <3>10
  <2>7. Len(bs.q) \notin S /\ Len(bs.q) \in 1 .. Len(bs.q)
    BY <2>3, <2>6
  <2>9. ~(Len(f[Len(bs.q)]) < Len(bs.q[1]))
    BY <2>7
  <2>10. Peek(bs) = bs.q[1]
    BY <1>1, <1>3 DEF Peek
  <2>11. Len(bs.q[1]) \in Nat /\ Len(f[Len(bs.q)]) = bs.size
    BY <1>1, <2>2, <2>3
  <2>. QED BY <1>1, <2>3, <2>9, <2>10, <2>11
<1>. QED BY <1>2, <1>3

-----------------------------------------------------------------------------
(* Sequence numbers *)

LEMMA BitValues ==
    /\ \A b : Bit(b) \in {0, 1}
    /\ \A b : b => Bit(b) = 1
    /\ \A b : ~b => Bit(b) = 0
BY DEF Bit

LEMMA Modulus ==
    Mod32 \in Nat /\ Mod32 > 1 /\ Mod64 \in Nat /\ 4 * Mod32 <= Mod64
<1>1. PICK laps \in 4 .. Mod64 : Mod64 = laps * Mod32
  BY ModuliAssumption, Mod64Assumption
<1>2. laps * Mod32 >= 4 * Mod32
  BY ModuliAssumption, Mod64Assumption
<1>. QED BY <1>1, <1>2, ModuliAssumption, Mod64Assumption

\* A number and the start of its lap.
LEMMA LapFacts ==
    ASSUME NEW n \in U64
    PROVE  /\ LapStart(n) \in Nat
           /\ n % Mod32 \in Raw
           /\ n = LapStart(n) + (n % Mod32)
           /\ LapStart(n) + Mod32 <= Mod64
           /\ LapStart(n) = 0 \/ LapStart(n) >= Mod32
           /\ LapStart(n) + Mod32 = Mod64 \/ LapStart(n) + 2 * Mod32 <= Mod64
<1>. USE ModuliAssumption, Mod64Assumption DEF U64, Raw, LapStart
<1>1. n % Mod32 \in Raw /\ n = Mod32 * (n \div Mod32) + (n % Mod32) /\ (n \div Mod32) \in Nat
  OBVIOUS
<1>2. LapStart(n) \in Nat /\ LapStart(n) <= n
  BY <1>1
<1>3. LapStart(n) + Mod32 <= Mod64
  <2>1. PICK laps \in 4 .. Mod64 : Mod64 = laps * Mod32
    BY ModuliAssumption, Mod64Assumption
  <2>2. n \div Mod32 < laps
    BY <1>1, <2>1
  <2>3. ((n \div Mod32) + 1) * Mod32 <= laps * Mod32
    BY <1>1, <2>1, <2>2
  <2>. QED BY <1>1, <2>1, <2>3
<1>4. LapStart(n) = 0 \/ LapStart(n) >= Mod32
  <2>1. n \div Mod32 = 0 \/ n \div Mod32 >= 1
    BY <1>1
  <2>2. n \div Mod32 >= 1 => (n \div Mod32) * Mod32 >= 1 * Mod32
    BY <1>1
  <2>. QED BY <2>1, <2>2
<1>5. LapStart(n) + Mod32 = Mod64 \/ LapStart(n) + 2 * Mod32 <= Mod64
  <2>1. PICK laps \in 4 .. Mod64 : Mod64 = laps * Mod32
    BY ModuliAssumption, Mod64Assumption
  <2>2. (n \div Mod32) + 1 >= laps \/ (n \div Mod32) + 2 <= laps
    BY <1>1, <2>1
  <2>3. (n \div Mod32) + 1 >= laps => ((n \div Mod32) + 1) * Mod32 >= laps * Mod32
    BY <1>1, <2>1
  <2>4. (n \div Mod32) + 2 <= laps => ((n \div Mod32) + 2) * Mod32 <= laps * Mod32
    BY <1>1, <2>1
  <2>. QED BY <1>1, <1>3, <2>1, <2>2, <2>3, <2>4
<1>. QED BY <1>1, <1>2, <1>3, <1>4, <1>5

\* The distance of a wrapped number from its zero point is the number's low part.
LEMMA RawOffsetOfWrap ==
    ASSUME NEW n \in U64, NEW z \in Raw
    PROVE  RawOffset(Wrap(n, z), z) = n % Mod32
<1>1. n % Mod32 \in Raw
  BY LapFacts
<1>. QED BY <1>1, ModuliAssumption DEF RawOffset, Wrap, Add32, Raw

\* Two numbers less than a lap apart are in the same lap or in adjacent ones.
LEMMA AdjacentLaps ==
    ASSUME NEW n \in U64, NEW c \in U64, Distance(n, c) < Mod32
    PROVE  LapStart(n) \in {LapStart(c) - Mod32, LapStart(c), LapStart(c) + Mod32}
<1>. DEFINE a == n \div Mod32
            b == c \div Mod32
<1>1. /\ a \in Nat /\ b \in Nat
      /\ n = Mod32 * a + (n % Mod32) /\ c = Mod32 * b + (c % Mod32)
      /\ n % Mod32 \in Raw /\ c % Mod32 \in Raw
  BY ModuliAssumption, Mod64Assumption DEF U64, Raw
<1>. HIDE DEF a, b
<1>2. Mod32 \in Nat /\ Mod32 > 1 /\ n \in Nat /\ c \in Nat
  BY ModuliAssumption, Mod64Assumption DEF U64
<1>3. ~(a > b + 1)
  <2>1. SUFFICES ASSUME a >= b + 2 PROVE FALSE
    BY <1>1
  <2>2. Mod32 * a >= Mod32 * (b + 2)
    BY <1>1, <1>2, <2>1
  <2>3. Mod32 * (b + 2) = Mod32 * b + 2 * Mod32
    BY <1>1, <1>2
  <2>. QED BY <1>1, <1>2, <2>2, <2>3 DEF Distance, Raw
<1>4. ~(b > a + 1)
  <2>1. SUFFICES ASSUME b >= a + 2 PROVE FALSE
    BY <1>1
  <2>2. Mod32 * b >= Mod32 * (a + 2)
    BY <1>1, <1>2, <2>1
  <2>3. Mod32 * (a + 2) = Mod32 * a + 2 * Mod32
    BY <1>1, <1>2
  <2>. QED BY <1>1, <1>2, <2>2, <2>3 DEF Distance, Raw
<1>5. a \in {b - 1, b, b + 1}
  BY <1>1, <1>3, <1>4
<1>6. a * Mod32 \in {b * Mod32 - Mod32, b * Mod32, b * Mod32 + Mod32}
  BY <1>1, <1>2, <1>5
<1>. QED BY <1>6 DEF LapStart, a, b

(***************************************************************************)
(* The round trip of src/src/wrapping_integers.cc: unwrap(wrap(n)) is n    *)
(* whenever the checkpoint is less than half a lap away from n.            *)
(***************************************************************************)
THEOREM UnwrapWrap ==
    ASSUME NEW n \in U64, NEW c \in U64, NEW z \in Raw,
           2 * Distance(n, c) < Mod32
    PROVE  Unwrap(Wrap(n, z), z, c) = n
<1>. DEFINE r == n % Mod32
            k == LapStart(c)
            l == LapStart(n)
            cand == Candidates(Wrap(n, z), z, c)
<1>1. /\ r \in Raw /\ n = l + r /\ l \in Nat /\ l + Mod32 <= Mod64
      /\ k \in Nat /\ k + Mod32 <= Mod64 /\ k <= c /\ c < k + Mod32
      /\ k = 0 \/ k >= Mod32
      /\ k + Mod32 = Mod64 \/ k + 2 * Mod32 <= Mod64
  <2>1. /\ c % Mod32 \in Raw /\ c = k + (c % Mod32) /\ k \in Nat /\ k + Mod32 <= Mod64
        /\ k = 0 \/ k >= Mod32
        /\ k + Mod32 = Mod64 \/ k + 2 * Mod32 <= Mod64
    BY LapFacts
  <2>. QED BY LapFacts, <2>1, ModuliAssumption DEF Raw, U64
<1>2. /\ Mod32 \in Nat /\ Mod32 > 1 /\ Mod64 \in Nat /\ 4 * Mod32 <= Mod64
  <2>1. PICK laps \in 4 .. Mod64 : Mod64 = laps * Mod32
    BY ModuliAssumption, Mod64Assumption
  <2>2. laps * Mod32 >= 4 * Mod32
    BY ModuliAssumption, Mod64Assumption
  <2>. QED BY ModuliAssumption, Mod64Assumption, <2>1, <2>2
<1>3. l \in {k - Mod32, k, k + Mod32}
  <2>1. Distance(n, c) < Mod32
    BY <1>2 DEF Distance, U64
  <2>. QED BY <2>1, AdjacentLaps
<1>4. cand = << Add64(Sub64(k, Mod32), r), Add64(k, r),
                Add64(IF k + Mod32 < Mod64 THEN k + Mod32 ELSE 0, r) >>
  BY RawOffsetOfWrap DEF Candidates
<1>. HIDE DEF r, k, l, cand
<1>5. /\ cand[1] = Add64(Sub64(k, Mod32), r)
      /\ cand[2] = Add64(k, r)
      /\ cand[3] = Add64(IF k + Mod32 < Mod64 THEN k + Mod32 ELSE 0, r)
  BY <1>4
<1>6. cand[2] = k + r
  BY <1>1, <1>2, <1>5 DEF Add64, Raw
<1>7. cand[1] = IF k >= Mod32 THEN k - Mod32 + r ELSE k - Mod32 + Mod64 + r
  BY <1>1, <1>2, <1>5 DEF Add64, Sub64, Raw
<1>8. cand[3] = IF k + Mod32 < Mod64 THEN k + Mod32 + r ELSE r
  BY <1>1, <1>2, <1>5 DEF Add64, Raw
<1>9. 2 * Distance(n, c) < Mod32 /\ n \in Nat /\ c \in Nat /\ n < Mod64 /\ c < Mod64
  BY <1>2 DEF U64
<1>10. Unwrap(Wrap(n, z), z, c) =
          CASE Distance(cand[1], c) <= Distance(cand[2], c)
                 /\ Distance(cand[1], c) <= Distance(cand[3], c) -> cand[1]
            [] Distance(cand[2], c) < Distance(cand[1], c)
                 /\ Distance(cand[2], c) <= Distance(cand[3], c) -> cand[2]
            [] OTHER -> cand[3]
  BY DEF Unwrap, cand
<1>11. CASE l = k
  <2>1. n = cand[2]
    BY <1>1, <1>6, <1>11
  <2>2. Distance(cand[2], c) < Distance(cand[1], c)
    BY <1>1, <1>2, <1>6, <1>7, <1>9, <2>1 DEF Distance, Raw
  <2>3. Distance(cand[2], c) < Distance(cand[3], c)
    BY <1>1, <1>2, <1>6, <1>8, <1>9, <2>1 DEF Distance, Raw
  <2>4. Distance(cand[1], c) \in Nat /\ Distance(cand[2], c) \in Nat /\ Distance(cand[3], c) \in Nat
    BY <1>1, <1>2, <1>6, <1>7, <1>8, <1>9 DEF Distance, Raw
  <2>. QED BY <1>10, <2>1, <2>2, <2>3, <2>4
<1>12. CASE l = k - Mod32
  <2>1. n = cand[1]
    BY <1>1, <1>2, <1>7, <1>12
  <2>2. Distance(cand[1], c) <= Distance(cand[2], c)
    BY <1>1, <1>2, <1>6, <1>7, <1>9, <2>1 DEF Distance, Raw
  <2>3. Distance(cand[1], c) <= Distance(cand[3], c)
    BY <1>1, <1>2, <1>7, <1>8, <1>9, <2>1, <1>12 DEF Distance, Raw
  <2>4. Distance(cand[1], c) \in Nat /\ Distance(cand[2], c) \in Nat /\ Distance(cand[3], c) \in Nat
    BY <1>1, <1>2, <1>6, <1>7, <1>8, <1>9 DEF Distance, Raw
  <2>. QED BY <1>10, <2>1, <2>2, <2>3, <2>4
<1>13. CASE l = k + Mod32
  <2>1. n = cand[3]
    BY <1>1, <1>2, <1>8, <1>13 DEF Raw
  <2>2. Distance(cand[3], c) < Distance(cand[1], c)
    BY <1>1, <1>2, <1>7, <1>8, <1>9, <2>1, <1>13 DEF Distance, Raw
  <2>3. Distance(cand[3], c) < Distance(cand[2], c)
    BY <1>1, <1>2, <1>6, <1>8, <1>9, <2>1, <1>13 DEF Distance, Raw
  <2>4. Distance(cand[1], c) \in Nat /\ Distance(cand[2], c) \in Nat /\ Distance(cand[3], c) \in Nat
    BY <1>1, <1>2, <1>6, <1>7, <1>8, <1>9 DEF Distance, Raw
  <2>. QED BY <1>10, <2>1, <2>2, <2>3, <2>4
<1>. QED BY <1>3, <1>11, <1>12, <1>13

\* The low part of a number given by its lap and its place in the lap.
LEMMA LowPart ==
    ASSUME NEW q \in Nat, NEW r \in Raw, NEW x \in Nat, x = Mod32 * q + r
    PROVE  x % Mod32 = r
<1>. DEFINE a == x \div Mod32
            b == x % Mod32
<1>1. a \in Nat /\ b \in Raw /\ x = Mod32 * a + b
  BY ModuliAssumption DEF Raw
<1>. HIDE DEF a, b
<1>2. Mod32 \in Nat /\ Mod32 > 1 /\ r \in Nat /\ b \in Nat /\ r < Mod32 /\ b < Mod32
  BY <1>1, ModuliAssumption DEF Raw
<1>3. ~(a > q)
  <2>1. SUFFICES ASSUME a >= q + 1 PROVE FALSE
    BY <1>1
  <2>2. Mod32 * a >= Mod32 * (q + 1) /\ Mod32 * (q + 1) = Mod32 * q + Mod32
    BY <1>1, <1>2, <2>1
  <2>. QED BY <1>1, <1>2, <2>2
<1>4. ~(q > a)
  <2>1. SUFFICES ASSUME q >= a + 1 PROVE FALSE
    BY <1>1
  <2>2. Mod32 * q >= Mod32 * (a + 1) /\ Mod32 * (a + 1) = Mod32 * a + Mod32
    BY <1>1, <1>2, <2>1
  <2>. QED BY <1>1, <1>2, <2>2
<1>5. a = q
  BY <1>1, <1>3, <1>4
<1>. QED BY <1>1, <1>2, <1>5 DEF b

\* Numbers with the same raw value have the same low part, and conversely.
LEMMA SameRaw ==
    ASSUME NEW n \in U64, NEW m \in U64, NEW z \in Raw
    PROVE  Wrap(m, z) = Wrap(n, z) <=> m % Mod32 = n % Mod32
<1>1. RawOffset(Wrap(n, z), z) = n % Mod32 /\ RawOffset(Wrap(m, z), z) = m % Mod32
  BY RawOffsetOfWrap
<1>. QED BY <1>1 DEF Wrap

\* What the three candidates are: the raw value in the lap before the
\* checkpoint's, in its own, and in the next, as far as 64 bits hold them.
LEMMA CandidateValues ==
    ASSUME NEW n \in U64, NEW c \in U64, NEW z \in Raw,
           NEW r \in Raw, r = n % Mod32, NEW k \in Nat, k = LapStart(c)
    PROVE  LET cand == Candidates(Wrap(n, z), z, c)
           IN  /\ cand[1] = IF k >= Mod32 THEN k - Mod32 + r ELSE Mod64 - Mod32 + r
               /\ cand[2] = k + r
               /\ cand[3] = IF k + 2 * Mod32 <= Mod64 THEN k + Mod32 + r ELSE r
<1>. DEFINE cand == Candidates(Wrap(n, z), z, c)
<1>1. /\ k + Mod32 <= Mod64
      /\ k = 0 \/ k >= Mod32
      /\ k + Mod32 = Mod64 \/ k + 2 * Mod32 <= Mod64
  BY LapFacts
<1>2. /\ Mod32 \in Nat /\ Mod32 > 1 /\ Mod64 \in Nat /\ r \in Nat /\ r < Mod32
  BY ModuliAssumption, Mod64Assumption DEF Raw
<1>3. cand = << Add64(Sub64(k, Mod32), r), Add64(k, r),
                Add64(IF k + Mod32 < Mod64 THEN k + Mod32 ELSE 0, r) >>
  BY RawOffsetOfWrap DEF Candidates
<1>. HIDE DEF cand
<1>4. cand[2] = k + r
  BY <1>1, <1>2, <1>3 DEF Add64
<1>5. cand[1] = IF k >= Mod32 THEN k - Mod32 + r ELSE Mod64 - Mod32 + r
  BY <1>1, <1>2, <1>3 DEF Add64, Sub64
<1>6. cand[3] = IF k + 2 * Mod32 <= Mod64 THEN k + Mod32 + r ELSE r
  BY <1>1, <1>2, <1>3 DEF Add64
<1>. QED BY <1>4, <1>5, <1>6 DEF cand

\* Each candidate is a 64-bit number with the low part that was sent.
LEMMA CandidatesFit ==
    ASSUME NEW n \in U64, NEW c \in U64, NEW z \in Raw, NEW i \in 1 .. 3
    PROVE  LET x == Candidates(Wrap(n, z), z, c)[i]
           IN  x \in U64 /\ x % Mod32 = n % Mod32
<1>. DEFINE x == Candidates(Wrap(n, z), z, c)[i]
            r == n % Mod32
            k == LapStart(c)
            q == c \div Mod32
<1>1. PICK laps \in 4 .. Mod64 : Mod64 = laps * Mod32
  BY ModuliAssumption
<1>2. /\ q \in Nat /\ k = Mod32 * q /\ k \in Nat /\ r \in Raw /\ k + Mod32 <= Mod64
  <2>1. q \in Nat /\ k = Mod32 * q
    BY ModuliAssumption, Mod64Assumption DEF LapStart, U64
  <2>2. k \in Nat /\ r \in Raw /\ k + Mod32 <= Mod64
    BY LapFacts
  <2>. QED BY <2>1, <2>2
<1>3. /\ Mod32 \in Nat /\ Mod32 > 1 /\ Mod64 \in Nat /\ laps \in Nat /\ laps >= 4
      /\ Mod64 = Mod32 * laps /\ r \in Nat /\ r < Mod32
  BY <1>1, <1>2, ModuliAssumption, Mod64Assumption DEF Raw
<1>4. \/ i = 1 /\ k >= Mod32 /\ x = k - Mod32 + r
      \/ i = 1 /\ x = Mod64 - Mod32 + r
      \/ i = 2 /\ x = k + r
      \/ i = 3 /\ k + 2 * Mod32 <= Mod64 /\ x = k + Mod32 + r
      \/ i = 3 /\ x = r
  <2>. DEFINE cand == Candidates(Wrap(n, z), z, c)
  <2>1. /\ cand[1] = IF k >= Mod32 THEN k - Mod32 + r ELSE Mod64 - Mod32 + r
        /\ cand[2] = k + r
        /\ cand[3] = IF k + 2 * Mod32 <= Mod64 THEN k + Mod32 + r ELSE r
    BY <1>2, CandidateValues
  <2>2. x = cand[i]
    OBVIOUS
  <2>. HIDE DEF cand, x, k, r
  <2>. QED BY <2>1, <2>2
<1>5. Mod32 <= Mod64
  BY <1>2, <1>3
<1>. HIDE DEF x, r, k, q
<1>6. x \in U64
  BY <1>2, <1>3, <1>4, <1>5 DEF U64
<1>7. x \in Nat
  BY <1>3, <1>6 DEF U64
<1>8. ASSUME k >= Mod32 /\ x = k - Mod32 + r PROVE x % Mod32 = r
  <2>1. PICK p \in Nat : q = p + 1
    <3>1. q # 0
      BY <1>2, <1>3, <1>8
    <3>2. q - 1 \in Nat
      BY <1>2, <3>1
    <3>. QED BY <1>2, <3>2
  <2>2. Mod32 * q = Mod32 * p + Mod32
    BY <1>3, <2>1
  <2>3. x = Mod32 * p + r
    BY <1>2, <1>3, <1>8, <2>1, <2>2
  <2>. QED BY <1>2, <1>7, <2>3, LowPart
<1>9. ASSUME x = Mod64 - Mod32 + r PROVE x % Mod32 = r
  <2>1. PICK p \in Nat : laps = p + 1
    <3>1. laps - 1 \in Nat
      BY <1>3
    <3>. QED BY <1>3, <3>1
  <2>2. Mod32 * laps = Mod32 * p + Mod32
    BY <1>3, <2>1
  <2>3. x = Mod32 * p + r
    BY <1>3, <1>9, <2>1, <2>2
  <2>. QED BY <1>2, <1>7, <2>3, LowPart
<1>10. ASSUME x = k + r PROVE x % Mod32 = r
  BY <1>2, <1>7, <1>10, LowPart
<1>11. ASSUME x = k + Mod32 + r PROVE x % Mod32 = r
  <2>. DEFINE p == q + 1
  <2>1. p \in Nat /\ Mod32 * p = Mod32 * q + Mod32
    BY <1>2, <1>3
  <2>. HIDE DEF p
  <2>2. x = Mod32 * p + r
    BY <1>2, <1>3, <1>11, <2>1
  <2>. QED BY <1>2, <1>7, <2>1, <2>2, LowPart
<1>12. ASSUME x = r PROVE x % Mod32 = r
  <2>1. 0 \in Nat /\ x = Mod32 * 0 + r
    BY <1>3, <1>12
  <2>. QED BY <1>2, <1>7, <2>1, LowPart
<1>13. x % Mod32 = r
  BY <1>4, <1>8, <1>9, <1>10, <1>11, <1>12
<1>. QED BY <1>6, <1>13 DEF x, r

\* unwrap takes the nearest of the candidates.
LEMMA UnwrapIsNearestCandidate ==
    ASSUME NEW n \in U64, NEW c \in U64, NEW z \in Raw
    PROVE  LET cand == Candidates(Wrap(n, z), z, c)
               u == Unwrap(Wrap(n, z), z, c)
           IN  /\ \E i \in 1 .. 3 : u = cand[i]
               /\ \A i \in 1 .. 3 : Distance(u, c) <= Distance(cand[i], c)
<1>. DEFINE cand == Candidates(Wrap(n, z), z, c)
            u == Unwrap(Wrap(n, z), z, c)
<1>1. u = CASE Distance(cand[1], c) <= Distance(cand[2], c)
                 /\ Distance(cand[1], c) <= Distance(cand[3], c) -> cand[1]
            [] Distance(cand[2], c) < Distance(cand[1], c)
                 /\ Distance(cand[2], c) <= Distance(cand[3], c) -> cand[2]
            [] OTHER -> cand[3]
  BY DEF Unwrap
<1>2. cand[1] \in U64 /\ cand[2] \in U64 /\ cand[3] \in U64
  BY CandidatesFit
<1>. HIDE DEF cand, u
<1>3. \A i \in 1 .. 3 : Distance(cand[i], c) \in Nat
  BY <1>2, Mod64Assumption DEF Distance, U64
<1>4. CASE /\ Distance(cand[1], c) <= Distance(cand[2], c)
           /\ Distance(cand[1], c) <= Distance(cand[3], c)
  <2>1. u = cand[1]
    BY <1>1, <1>3, <1>4
  <2>2. \A i \in 1 .. 3 : Distance(u, c) <= Distance(cand[i], c)
    BY <1>3, <1>4, <2>1
  <2>. QED BY <2>1, <2>2 DEF cand, u
<1>5. CASE /\ Distance(cand[2], c) < Distance(cand[1], c)
           /\ Distance(cand[2], c) <= Distance(cand[3], c)
  <2>1. u = cand[2]
    BY <1>1, <1>3, <1>5
  <2>2. \A i \in 1 .. 3 : Distance(u, c) <= Distance(cand[i], c)
    BY <1>3, <1>5, <2>1
  <2>. QED BY <2>1, <2>2 DEF cand, u
<1>6. CASE /\ Distance(cand[3], c) < Distance(cand[1], c)
           /\ Distance(cand[3], c) < Distance(cand[2], c)
  <2>1. u = cand[3]
    BY <1>1, <1>3, <1>6
  <2>2. \A i \in 1 .. 3 : Distance(u, c) <= Distance(cand[i], c)
    BY <1>3, <1>6, <2>1
  <2>. QED BY <2>1, <2>2 DEF cand, u
<1>. QED BY <1>3, <1>4, <1>5, <1>6

(***************************************************************************)
(* unwrap, whatever the distance: its answer has the raw value it was      *)
(* given, and no 64-bit number with that raw value is nearer to the        *)
(* checkpoint, in the first and the last lap of the 64-bit range too,      *)
(* where a candidate of the code falls off the range and wraps.            *)
(***************************************************************************)
THEOREM UnwrapNearest ==
    ASSUME NEW n \in U64, NEW c \in U64, NEW z \in Raw
    PROVE  LET u == Unwrap(Wrap(n, z), z, c)
           IN  /\ u \in U64
               /\ Wrap(u, z) = Wrap(n, z)
               /\ \A m \in U64 : Wrap(m, z) = Wrap(n, z) => Distance(u, c) <= Distance(m, c)
<1>. DEFINE u == Unwrap(Wrap(n, z), z, c)
            cand == Candidates(Wrap(n, z), z, c)
            r == n % Mod32
            k == LapStart(c)
<1>1. u \in U64 /\ u % Mod32 = r
  <2>1. PICK i \in 1 .. 3 : u = cand[i]
    BY UnwrapIsNearestCandidate
  <2>. QED BY <2>1, CandidatesFit
<1>2. Wrap(u, z) = Wrap(n, z)
  BY <1>1, SameRaw
<1>3. ASSUME NEW m \in U64, Wrap(m, z) = Wrap(n, z) PROVE Distance(u, c) <= Distance(m, c)
  <2>. DEFINE l == LapStart(m)
  <2>1. m % Mod32 = r
    BY <1>3, SameRaw
  <2>2. /\ l \in Nat /\ m = l + r /\ l + Mod32 <= Mod64 /\ r \in Raw
    BY <2>1, LapFacts
  <2>3. /\ k \in Nat /\ k <= c /\ c < k + Mod32
    <3>1. /\ k \in Nat /\ c = k + (c % Mod32) /\ c % Mod32 \in Raw
      BY LapFacts
    <3>. QED BY <3>1, ModuliAssumption DEF Raw, U64
  <2>4. /\ cand[1] = IF k >= Mod32 THEN k - Mod32 + r ELSE Mod64 - Mod32 + r
        /\ cand[2] = k + r
        /\ cand[3] = IF k + 2 * Mod32 <= Mod64 THEN k + Mod32 + r ELSE r
    BY <2>2, <2>3, CandidateValues
  <2>5. \A i \in 1 .. 3 : Distance(u, c) <= Distance(cand[i], c)
    BY UnwrapIsNearestCandidate
  <2>6. /\ Mod32 \in Nat /\ Mod32 > 1 /\ Mod64 \in Nat /\ r \in Nat /\ r < Mod32
        /\ c \in Nat /\ m \in Nat /\ u \in Nat
    BY <1>1, <2>2, ModuliAssumption, Mod64Assumption DEF Raw, U64
  <2>7. CASE Distance(m, c) < Mod32
    <3>1. l \in {k - Mod32, k, k + Mod32}
      BY <2>7, AdjacentLaps
    <3>. HIDE DEF cand, k, l, r, u
    <3>2. m = cand[1] \/ m = cand[2] \/ m = cand[3]
      BY <2>2, <2>3, <2>4, <2>6, <3>1
    <3>. QED BY <2>5, <3>2
  <2>8. CASE Distance(m, c) >= Mod32
    <3>1. Distance(u, c) <= Distance(cand[2], c)
      BY <2>5
    <3>. HIDE DEF cand, k, l, r, u
    <3>2. Distance(cand[2], c) < Mod32 /\ Distance(cand[2], c) \in Nat
      BY <2>3, <2>4, <2>6 DEF Distance
    <3>3. Distance(u, c) \in Nat /\ Distance(m, c) \in Nat
      BY <2>6 DEF Distance
    <3>. QED BY <2>6, <2>8, <3>1, <3>2, <3>3
  <2>9. Distance(m, c) \in Nat
    BY <2>6 DEF Distance
  <2>. QED BY <2>6, <2>7, <2>8, <2>9
<1>. QED BY <1>1, <1>2, <1>3 DEF u

LEMMA WrapIsRaw ==
    ASSUME NEW n \in Nat, NEW z \in Raw
    PROVE  Wrap(n, z) \in Raw
<1>1. n % Mod32 \in 0 .. Mod32 - 1
  BY Modulus
<1>. QED BY <1>1, Modulus DEF Wrap, Add32, Raw

LEMMA UnwrapIsNat ==
    ASSUME NEW raw \in Raw, NEW z \in Raw, NEW c \in Nat
    PROVE  Unwrap(raw, z, c) \in Nat
<1>. DEFINE k == LapStart(c)   r == RawOffset(raw, z)   cand == Candidates(raw, z, c)
<1>1. r \in Nat
  BY Modulus DEF RawOffset, Raw
<1>2. k \in Nat
  <2>1. c \div Mod32 \in Nat
    BY Modulus
  <2>. QED BY <2>1, Modulus DEF LapStart
<1>3. cand = << Add64(Sub64(k, Mod32), r), Add64(k, r),
                Add64(IF k + Mod32 < Mod64 THEN k + Mod32 ELSE 0, r) >>
  BY DEF Candidates
<1>. HIDE DEF k, r, cand
<1>4. cand[1] \in Nat /\ cand[2] \in Nat /\ cand[3] \in Nat
  BY <1>1, <1>2, <1>3, Modulus DEF Add64, Sub64
<1>5. Unwrap(raw, z, c) \in {cand[1], cand[2], cand[3]}
  <2>1. Unwrap(raw, z, c)
          = CASE Distance(cand[1], c) <= Distance(cand[2], c)
                   /\ Distance(cand[1], c) <= Distance(cand[3], c) -> cand[1]
              [] Distance(cand[2], c) < Distance(cand[1], c)
                   /\ Distance(cand[2], c) <= Distance(cand[3], c) -> cand[2]
              [] OTHER -> cand[3]
    BY DEF Unwrap, cand
  <2>2. \A i \in 1 .. 3 : Distance(cand[i], c) \in Nat
    BY <1>4 DEF Distance
  <2>. QED BY <2>1, <2>2
<1>. QED BY <1>4, <1>5

\* The distance from its zero point is a raw number's place in the first lap.
LEMMA OffsetIsRaw ==
    ASSUME NEW raw \in Raw, NEW z \in Raw
    PROVE  RawOffset(raw, z) \in Raw
BY Modulus DEF RawOffset, Raw

LEMMA OffsetOfWrap ==
    ASSUME NEW n \in Nat, n < Mod32, NEW z \in Raw
    PROVE  RawOffset(Wrap(n, z), z) = n
<1>1. n \in U64 /\ n % Mod32 = n
  BY Modulus DEF U64
<1>. QED BY <1>1, RawOffsetOfWrap

LEMMA OffsetOfZero ==
    ASSUME NEW raw \in Raw
    PROVE  RawOffset(raw, 0) = raw
BY Modulus DEF RawOffset, Raw

LEMMA OffsetIsZero ==
    ASSUME NEW raw \in Raw, NEW z \in Raw, RawOffset(raw, z) = 0
    PROVE  raw = z
BY Modulus DEF RawOffset, Raw

LEMMA OffsetOfSum ==
    ASSUME NEW raw \in Raw, NEW z \in Raw, NEW n \in Nat, RawOffset(raw, z) + n < Mod32
    PROVE  Add32(raw, n) \in Raw /\ RawOffset(Add32(raw, n), z) = RawOffset(raw, z) + n
<1>1. n < Mod32
  BY OffsetIsRaw, Modulus DEF Raw
<1>. QED BY <1>1, Modulus DEF RawOffset, Add32, Raw

\* Against a checkpoint in the first half of the first lap, every raw number
\* stands for its place in the first lap.
LEMMA UnwrapInHalf ==
    ASSUME NEW raw \in Raw, NEW z \in Raw, NEW c \in Nat, 2 * c < Mod32
    PROVE  Unwrap(raw, z, c) = RawOffset(raw, z)
<1>. DEFINE n == RawOffset(raw, z)   cand == Candidates(raw, z, c)
<1>1. n \in Nat /\ n < Mod32
  BY OffsetIsRaw, Modulus DEF Raw
<1>2. c \div Mod32 = 0 /\ LapStart(c) = 0
  BY Modulus DEF LapStart
<1>3. cand = << Add64(Sub64(0, Mod32), n), Add64(0, n),
                Add64(IF 0 + Mod32 < Mod64 THEN 0 + Mod32 ELSE 0, n) >>
  BY <1>2 DEF Candidates
<1>4. Unwrap(raw, z, c)
        = CASE Distance(cand[1], c) <= Distance(cand[2], c)
                 /\ Distance(cand[1], c) <= Distance(cand[3], c) -> cand[1]
            [] Distance(cand[2], c) < Distance(cand[1], c)
                 /\ Distance(cand[2], c) <= Distance(cand[3], c) -> cand[2]
            [] OTHER -> cand[3]
  BY DEF Unwrap
<1>. HIDE DEF cand, n
<1>5. cand[1] = (Mod64 - Mod32) + n /\ cand[2] = n /\ cand[3] = Mod32 + n
  BY <1>1, <1>3, Modulus DEF Add64, Sub64
<1>6. /\ Distance(cand[2], c) < Distance(cand[1], c)
      /\ Distance(cand[2], c) <= Distance(cand[3], c)
      /\ \A i \in 1 .. 3 : Distance(cand[i], c) \in Nat
  BY <1>1, <1>5, Modulus DEF Distance
<1>. QED BY <1>4, <1>5, <1>6 DEF n

-----------------------------------------------------------------------------
(* The sender *)

Messages == [seqno : Raw, SYN : BOOLEAN, payload : Seq(Int), FIN : BOOLEAN]

Senders ==
    {s \in [isn : Raw, rto : Nat, timer : [running : BOOLEAN, left : Nat], ackno : Raw,
            window_size : Nat, pushed : Seq(Messages), in_flight : Seq(Messages), retransmissions : Nat,
            syn_sent : BOOLEAN, fin_sent : BOOLEAN, absolute_seqno : Nat,
            retransmit : BOOLEAN, dont_back_off : BOOLEAN] :
        s.retransmit => s.in_flight # <<>>}

\* The next number to be sent counts what has been taken off the stream.
Counts(s, stream, sent) ==
    /\ s.absolute_seqno = Bit(s.syn_sent) + stream.popped + Bit(s.fin_sent)
    /\ stream.pushed <= sent

LEMMA SubSeqType ==
    ASSUME NEW T, NEW q \in Seq(T), NEW a \in Nat, a > 0, NEW b \in Nat, b <= Len(q)
    PROVE  SubSeq(q, a, b) \in Seq(T)
<1>1. CASE a > b
  <2>1. SubSeq(q, a, b) = <<>>
    BY <1>1
  <2>. QED BY <2>1
<1>2. CASE a <= b
  <2>1. \A i \in a .. b : q[i] \in T
    BY <1>2, ElementOfSeq
  <2>. QED BY <1>2, <2>1, SubSeqProperties
<1>. QED BY <1>1, <1>2

LEMMA BytesRead ==
    ASSUME NEW stream \in Streams, NEW n \in Nat
    PROVE  ReadBytes(stream, n) \in Seq(Int)
<1>. DEFINE content == FlattenSeq(stream.q)   l == MinOf(n, stream.size)
<1>1. content \in Seq(Int) /\ Len(content) = stream.size
  BY FlattenType DEF Streams
<1>2. l \in Nat /\ l <= stream.size /\ stream.size \in Nat
  BY DEF Streams, MinOf
<1>3. ReadBytes(stream, n) = [i \in 1 .. l |-> content[i]]
  BY DEF ReadBytes
<1>. HIDE DEF content, l
<1>4. \A i \in 1 .. l : content[i] \in Int
  BY <1>1, <1>2, ElementOfSeq
<1>5. [i \in 1 .. l |-> content[i]] \in [1 .. l -> Int]
  BY <1>4
<1>. QED BY <1>2, <1>3, <1>5

LEMMA SegmentsType ==
    ASSUME NEW s \in Senders, NEW bytes \in Seq(Int), NEW fin \in BOOLEAN
    PROVE  Segments(s, bytes, fin) \in Seq(Messages)
<1>. DEFINE n == Len(bytes)
            count == IF n = 0 THEN 1 ELSE (n + MaxPayload - 1) \div MaxPayload
            Made(k) == [seqno |-> Wrap(SegmentStart(s, k), s.isn), SYN |-> ~s.syn_sent,
                        payload |-> SubSeq(bytes, (k - 1) * MaxPayload + 1, MinOf(k * MaxPayload, n)),
                        FIN |-> fin /\ k = count]
<1>1. n \in Nat /\ MaxPayload \in Nat /\ MaxPayload > 0 /\ s.isn \in Raw
  BY SenderAssumption DEF Senders
<1>2. count \in Nat
  <2>1. n # 0 => n + MaxPayload - 1 \in Nat
    BY <1>1
  <2>. QED BY <1>1, <2>1
<1>3. Segments(s, bytes, fin) = [k \in 1 .. count |-> Made(k)]
  BY DEF Segments
<1>. HIDE DEF count, n
<1>4. ASSUME NEW k \in 1 .. count PROVE Made(k) \in Messages
  <2>. DEFINE a == (k - 1) * MaxPayload   b == k * MaxPayload
  <2>1. a \in Nat /\ b \in Nat
    BY <1>1, <1>2
  <2>2. SubSeq(bytes, a + 1, MinOf(b, n)) \in Seq(Int)
    <3>. HIDE DEF a, b
    <3>. DEFINE f == a + 1   l == MinOf(b, n)
    <3>1. f \in Nat /\ f > 0 /\ l \in Nat /\ l <= Len(bytes)
      BY <1>1, <2>1 DEF MinOf, n
    <3>. HIDE DEF f, l
    <3>2. SubSeq(bytes, f, l) \in Seq(Int)
      BY <3>1, SubSeqType
    <3>. QED BY <3>2 DEF f, l
  <2>3. SegmentStart(s, k) \in Nat
    <3>1. SegmentStart(s, k) = s.absolute_seqno + a /\ s.absolute_seqno \in Nat
      BY DEF SegmentStart, Senders
    <3>. QED BY <2>1, <3>1
  <2>4. Wrap(SegmentStart(s, k), s.isn) \in Raw
    BY <1>1, <2>3, WrapIsRaw
  <2>5. (~s.syn_sent) \in BOOLEAN /\ (fin /\ k = count) \in BOOLEAN
    OBVIOUS
  <2>. HIDE DEF a, b
  <2>. QED BY <2>2, <2>4, <2>5 DEF Messages, a, b
<1>. HIDE DEF Made
<1>5. [k \in 1 .. count |-> Made(k)] \in [1 .. count -> Messages]
  BY <1>4
<1>. QED BY <1>2, <1>3, <1>5

LEMMA BudgetIsNat ==
    ASSUME NEW sent \in Nat, sent + 2 < Mod64,
           NEW s \in Senders, NEW stream \in Streams, Counts(s, stream, sent)
    PROVE  PushBudget(s) \in Nat
<1>. DEFINE a == s.absolute_seqno   u == Absolute(s, s.ackno)
            x == Sub64(a, u)   w == s.window_size
<1>1. w \in Nat /\ a \in Nat /\ s.ackno \in Raw /\ s.isn \in Raw
  BY DEF Senders
<1>2. u \in Nat
  BY <1>1, UnwrapIsNat DEF Absolute
<1>3. a < Mod64
  <2>1. stream.popped <= sent /\ stream.popped \in Nat
    BY Modulus DEF Counts, Streams
  <2>2. Bit(s.syn_sent) \in {0, 1} /\ Bit(s.fin_sent) \in {0, 1}
    BY BitValues
  <2>. QED BY <2>1, <2>2, Modulus DEF Counts
<1>. HIDE DEF a, u, w
<1>4. x \in Int /\ x < Mod64
  BY <1>1, <1>2, <1>3, Modulus DEF Sub64
<1>. HIDE DEF x
<1>5. Sub64(w, x) \in Nat
  BY <1>1, <1>4, Modulus DEF Sub64
<1>6. Room(s) = Sub64(w, x)
  BY DEF Room, w, x, a, u
<1>7. Sub64(Room(s), 1) \in Nat
  BY <1>5, <1>6, Modulus DEF Sub64
<1>. QED BY <1>5, <1>6, <1>7 DEF PushBudget

\* push takes bytes off the stream and counts them, and leaves the rest alone.
LEMMA SenderPushes ==
    ASSUME NEW sent \in Nat, sent + 2 < Mod64,
           NEW s \in Senders, NEW stream \in Streams, Counts(s, stream, sent),
           NEW r, r = SenderPush(s, stream)
    PROVE  /\ r.s \in Senders /\ r.stream \in Streams /\ Counts(r.s, r.stream, sent)
           /\ r.s.retransmit = s.retransmit
           /\ r.stream.closed = stream.closed /\ r.stream.pushed = stream.pushed
<1>. DEFINE budget == PushBudget(s)
            n == MinOf(budget, stream.size)
            rest == ReaderPop(stream, n)
            fin == ~s.fin_sent /\ IsFinished(rest) /\ (budget > n \/ ~s.syn_sent)
            made == n > 0 \/ fin \/ ~s.syn_sent
            queue == IF made THEN s.pushed \o Segments(s, ReadBytes(stream, n), fin) ELSE s.pushed
<1>1. budget \in Nat
  BY BudgetIsNat
<1>2. n \in Nat /\ n <= stream.size /\ MinOf(n, stream.size) = n
  BY <1>1 DEF MinOf, Streams
<1>3. /\ rest \in Streams /\ rest.popped = stream.popped + n
      /\ rest.closed = stream.closed /\ rest.pushed = stream.pushed
  BY <1>2, PopStream
<1>4. fin \in BOOLEAN /\ (fin => ~s.fin_sent)
  OBVIOUS
<1>5. queue \in Seq(Messages)
  <2>1. ReadBytes(stream, n) \in Seq(Int)
    BY <1>2, BytesRead
  <2>. DEFINE read == ReadBytes(stream, n)   more == Segments(s, read, fin)
  <2>. HIDE DEF fin, read
  <2>2. more \in Seq(Messages)
    BY <1>4, <2>1, SegmentsType DEF read
  <2>3. s.pushed \in Seq(Messages)
    BY DEF Senders
  <2>. HIDE DEF more
  <2>4. s.pushed \o more \in Seq(Messages)
    BY <2>2, <2>3
  <2>. QED BY <2>3, <2>4 DEF more, read
<1>. DEFINE t == [s EXCEPT !.syn_sent = TRUE, !.fin_sent = @ \/ fin,
                           !.absolute_seqno = @ + Bit(~s.syn_sent) + n + Bit(fin),
                           !.pushed = queue]
<1>6. r = IF s.syn_sent /\ budget = 0 THEN [s |-> s, stream |-> stream]
          ELSE [s |-> t, stream |-> rest]
  BY DEF SenderPush, Senders
<1>. HIDE DEF budget, n, rest, made, queue, fin
<1>7. s.absolute_seqno + Bit(~s.syn_sent) + n + Bit(fin) \in Nat
  <2>1. Bit(~s.syn_sent) \in Nat /\ Bit(fin) \in Nat
    BY BitValues
  <2>. QED BY <1>2, <2>1 DEF Senders
<1>8. t \in Senders /\ t.retransmit = s.retransmit
  BY <1>4, <1>5, <1>7 DEF Senders
<1>9. Counts(t, rest, sent)
  <2>1. /\ t.absolute_seqno = s.absolute_seqno + Bit(~s.syn_sent) + n + Bit(fin)
        /\ t.syn_sent = TRUE /\ t.fin_sent = (s.fin_sent \/ fin)
    BY DEF Senders
  <2>2. Bit(s.syn_sent) + Bit(~s.syn_sent) = 1
    BY BitValues DEF Senders, Bit
  <2>3. Bit(s.fin_sent \/ fin) = Bit(s.fin_sent) + Bit(fin)
    <3>1. CASE fin
      <4>1. s.fin_sent = FALSE /\ (s.fin_sent \/ fin) = TRUE /\ fin = TRUE
        BY <1>4, <3>1 DEF Senders
      <4>2. Bit(s.fin_sent) = 0 /\ Bit(s.fin_sent \/ fin) = 1 /\ Bit(fin) = 1
        BY <4>1, BitValues
      <4>. QED BY <4>2
    <3>2. CASE ~fin
      <4>1. (s.fin_sent \/ fin) = s.fin_sent /\ fin = FALSE
        BY <1>4, <3>2 DEF Senders
      <4>2. Bit(fin) = 0 /\ Bit(s.fin_sent \/ fin) = Bit(s.fin_sent)
        BY <4>1, BitValues
      <4>3. Bit(s.fin_sent) \in {0, 1}
        BY BitValues
      <4>. QED BY <4>2, <4>3
    <3>. QED BY <3>1, <3>2
  <2>4. t.absolute_seqno = Bit(t.syn_sent) + rest.popped + Bit(t.fin_sent)
    <3>. DEFINE b1 == Bit(s.syn_sent)   b2 == Bit(~s.syn_sent)   b3 == Bit(s.fin_sent)
                b4 == Bit(fin)   b5 == Bit(t.syn_sent)   b6 == Bit(t.fin_sent)
    <3>1. b1 + b2 = 1 /\ b5 = 1
      BY <2>1, <2>2, BitValues
    <3>2. b6 = b3 + b4
      BY <2>1, <2>3
    <3>3. t.absolute_seqno = s.absolute_seqno + b2 + n + b4
      BY <2>1
    <3>4. s.absolute_seqno = b1 + stream.popped + b3
      BY DEF Counts
    <3>5. b1 \in Nat /\ b2 \in Nat /\ b3 \in Nat /\ b4 \in Nat
      BY BitValues
    <3>6. stream.popped \in Nat
      BY DEF Streams
    <3>. HIDE DEF b1, b2, b3, b4, b5, b6, t
    <3>7. t.absolute_seqno = b5 + rest.popped + b6
      BY <1>2, <1>3, <3>1, <3>2, <3>3, <3>4, <3>5, <3>6
    <3>. QED BY <3>7 DEF b5, b6
  <2>. HIDE DEF t
  <2>. QED BY <1>3, <2>4 DEF Counts
<1>. HIDE DEF t
<1>. QED BY <1>3, <1>6, <1>8, <1>9

LEMMA SenderTicks ==
    ASSUME NEW sent \in Nat, sent + 2 < Mod64,
           NEW s \in Senders, NEW ms \in Nat, NEW stream, Counts(s, stream, sent),
           NEW r, r = SenderTick(s, ms)
    PROVE  r \in Senders /\ Counts(r, stream, sent)
<1>. DEFINE t == Elapse(s.timer, ms)
            rto == IF s.dont_back_off THEN s.rto ELSE 2 * s.rto
<1>1. t \in [running : BOOLEAN, left : Nat] /\ rto \in Nat
  <2>1. s.timer \in [running : BOOLEAN, left : Nat] /\ s.rto \in Nat
    BY DEF Senders
  <2>2. 2 * s.rto \in Nat
    BY <2>1
  <2>3. rto \in Nat
    BY <2>1, <2>2
  <2>. DEFINE u == s.timer
  <2>4. u \in [running : BOOLEAN, left : Nat]
    BY <2>1
  <2>. HIDE DEF u
  <2>5. Elapse(u, ms) \in [running : BOOLEAN, left : Nat]
    BY <2>4 DEF Elapse
  <2>. QED BY <2>3, <2>5 DEF u
<1>. HIDE DEF t, rto
<1>2. Started(rto) \in [running : BOOLEAN, left : Nat]
  BY <1>1 DEF Started
<1>. DEFINE again == s.retransmit \/ s.in_flight # <<>>
            a == [s EXCEPT !.timer = t]
            b == [s EXCEPT !.retransmit = again, !.rto = rto,
                           !.retransmissions = @ + 1, !.timer = Started(rto)]
<1>3. r = IF ~IsExpired(t) THEN a ELSE b
  BY DEF SenderTick, t, rto
<1>6. again \in BOOLEAN /\ (again => s.in_flight # <<>>)
  BY DEF Senders
<1>. HIDE DEF again
<1>4. /\ a \in Senders /\ a.absolute_seqno = s.absolute_seqno
      /\ a.syn_sent = s.syn_sent /\ a.fin_sent = s.fin_sent
  BY <1>1 DEF Senders
<1>5. /\ b \in Senders /\ b.absolute_seqno = s.absolute_seqno
      /\ b.syn_sent = s.syn_sent /\ b.fin_sent = s.fin_sent
  <2>. DEFINE count == s.retransmissions + 1   timer == Started(rto)
  <2>1. count \in Nat /\ timer \in [running : BOOLEAN, left : Nat]
    BY <1>2 DEF Senders
  <2>. HIDE DEF count, timer
  <2>2. b = [s EXCEPT !.retransmit = again, !.rto = rto, !.retransmissions = count, !.timer = timer]
    BY DEF count, timer
  <2>. HIDE DEF b
  <2>. QED BY <1>1, <1>6, <2>1, <2>2 DEF Senders
<1>. HIDE DEF a, b
<1>. QED BY <1>3, <1>4, <1>5 DEF Counts

LEMMA LeftInFlight ==
    ASSUME NEW s \in Senders, NEW raw
    PROVE  Unacknowledged(s, raw) \in Seq(Messages)
<1>. DEFINE q == s.in_flight
            kept == {k \in DOMAIN q :
                        Absolute(s, q[k].seqno) + SequenceLength(q[k]) > Absolute(s, raw)}
<1>1. q \in Seq(Messages) /\ Len(q) \in Nat /\ DOMAIN q = 1 .. Len(q)
  BY DEF Senders
<1>2. Unacknowledged(s, raw) = IF kept = {} THEN <<>> ELSE SubSeq(q, Min(kept), Len(q))
  BY DEF Unacknowledged
<1>3. kept \in SUBSET (1 .. Len(q)) /\ kept \in SUBSET Nat
  BY <1>1
<1>. HIDE DEF q, kept
<1>4. CASE kept = {}
  BY <1>2, <1>4
<1>5. CASE kept # {}
  <2>. DEFINE m == Min(kept)
  <2>1. m \in kept
    BY <1>3, <1>5, SmallestOf
  <2>. HIDE DEF m
  <2>2. m \in Nat /\ m > 0
    BY <1>3, <2>1
  <2>3. SubSeq(q, m, Len(q)) \in Seq(Messages)
    BY <1>1, <2>2, SubSeqType
  <2>. QED BY <1>2, <1>5, <2>3 DEF m
<1>. QED BY <1>4, <1>5

LEMMA SenderReceives ==
    ASSUME NEW sent \in Nat, sent + 2 < Mod64,
           NEW s \in Senders, ~s.retransmit, NEW raw \in Raw, NEW window \in Nat,
           NEW stream, Counts(s, stream, sent), NEW r, r = SenderReceive(s, raw, window)
    PROVE  r \in Senders /\ ~r.retransmit /\ Counts(r, stream, sent)
<1>. DEFINE left == Unacknowledged(s, raw)
            new == Absolute(s, s.ackno) < Absolute(s, raw)
            timer == IF left = <<>> THEN Stopped
                     ELSE IF new THEN Started(InitialRTO) ELSE s.timer
            t == [s EXCEPT !.ackno = raw,
                           !.window_size = IF window > 0 THEN window ELSE 1,
                           !.dont_back_off = (window = 0),
                           !.in_flight = left,
                           !.timer = timer,
                           !.rto = TimeoutAfterAck(s, new),
                           !.retransmissions = IF new THEN 0 ELSE @]
<1>1. left \in Seq(Messages)
  BY LeftInFlight
<1>2. timer \in [running : BOOLEAN, left : Nat]
  BY SenderAssumption DEF Senders, Stopped, Started
<1>3. TimeoutAfterAck(s, new) \in Nat
  BY SenderAssumption DEF TimeoutAfterAck, Senders
<1>4. r = IF Absolute(s, raw) > s.absolute_seqno THEN s ELSE t
  BY DEF SenderReceive
<1>. DEFINE win == IF window > 0 THEN window ELSE 1
            dont == window = 0
            rto == TimeoutAfterAck(s, new)
            count == IF new THEN 0 ELSE s.retransmissions
<1>6. win \in Nat /\ dont \in BOOLEAN /\ rto \in Nat
  BY <1>3
<1>7. count \in Nat
  BY DEF Senders
<1>8. t = [s EXCEPT !.ackno = raw, !.window_size = win, !.dont_back_off = dont, !.in_flight = left,
                    !.timer = timer, !.rto = rto, !.retransmissions = count]
  OBVIOUS
<1>. HIDE DEF left, new, timer, win, dont, rto, count, t
<1>5. /\ t \in Senders /\ ~t.retransmit /\ t.absolute_seqno = s.absolute_seqno
      /\ t.syn_sent = s.syn_sent /\ t.fin_sent = s.fin_sent
  BY <1>1, <1>2, <1>6, <1>7, <1>8 DEF Senders
<1>. QED BY <1>4, <1>5 DEF Counts

-----------------------------------------------------------------------------
(* The queues of the sender *)

IsSequence(q) == q \in Seq({q[k] : k \in DOMAIN q})

LEMMA SeqIsSequence ==
    ASSUME NEW T, NEW q \in Seq(T)
    PROVE  IsSequence(q)
BY DEF IsSequence

LEMMA AppendIsSequence ==
    ASSUME NEW q, IsSequence(q), NEW e
    PROVE  IsSequence(Append(q, e)) /\ Append(q, e) # <<>>
<1>. DEFINE T == {q[k] : k \in DOMAIN q} \cup {e}
<1>1. q \in Seq(T) /\ e \in T
  BY DEF IsSequence
<1>. HIDE DEF T
<1>2. Append(q, e) \in Seq(T) /\ Append(q, e) # <<>>
  BY <1>1, AppendProperties
<1>3. QED
  BY <1>2, SeqIsSequence

\* The segments of a queue.
Queued(q) == {q[k] : k \in DOMAIN q}

\* Sequences as the sets of what they hold.
LEMMA QueuedOfConcat ==
    ASSUME NEW p, IsSequence(p), NEW q, IsSequence(q)
    PROVE  IsSequence(p \o q) /\ Queued(p \o q) = Queued(p) \cup Queued(q)
<1>. DEFINE T == Queued(p) \cup Queued(q)
            c == p \o q
<1>1. p \in Seq(T) /\ q \in Seq(T)
  <2>1. p \in Seq(Queued(p)) /\ q \in Seq(Queued(q))
    BY DEF IsSequence, Queued
  <2>. QED BY <2>1, SeqMonotonic
<1>. HIDE DEF T
<1>2. /\ Len(p) \in Nat /\ Len(q) \in Nat /\ DOMAIN p = 1 .. Len(p) /\ DOMAIN q = 1 .. Len(q)
  BY <1>1, LenProperties
<1>3. /\ c \in Seq(T) /\ Len(c) = Len(p) + Len(q)
      /\ \A i \in 1 .. Len(p) + Len(q) : c[i] = IF i <= Len(p) THEN p[i] ELSE q[i - Len(p)]
  BY <1>1, ConcatProperties
<1>4. DOMAIN c = 1 .. Len(p) + Len(q)
  BY <1>3, LenProperties
<1>. HIDE DEF c
<1>5. \A i \in DOMAIN c : c[i] \in Queued(p) \cup Queued(q)
  <2>1. TAKE i \in DOMAIN c
  <2>2. CASE i <= Len(p)
    <3>1. i \in DOMAIN p /\ c[i] = p[i]
      BY <1>2, <1>3, <1>4, <2>2
    <3>. QED BY <3>1 DEF Queued
  <2>3. CASE ~(i <= Len(p))
    <3>1. i - Len(p) \in DOMAIN q /\ c[i] = q[i - Len(p)]
      BY <1>2, <1>3, <1>4, <2>3
    <3>. QED BY <3>1 DEF Queued
  <2>. QED BY <2>2, <2>3
<1>6. \A i \in DOMAIN p : p[i] \in Queued(c)
  <2>1. TAKE i \in DOMAIN p
  <2>2. i \in DOMAIN c /\ c[i] = p[i]
    BY <1>2, <1>3, <1>4
  <2>. QED BY <2>2 DEF Queued
<1>7. \A i \in DOMAIN q : q[i] \in Queued(c)
  <2>1. TAKE i \in DOMAIN q
  <2>2. i + Len(p) \in DOMAIN c /\ c[i + Len(p)] = q[i]
    BY <1>2, <1>3, <1>4
  <2>. QED BY <2>2 DEF Queued
<1>8. Queued(c) = Queued(p) \cup Queued(q)
  BY <1>5, <1>6, <1>7 DEF Queued
<1>. QED BY <1>3, <1>8, SeqIsSequence DEF c

LEMMA QueuedOfAppend ==
    ASSUME NEW q, IsSequence(q), NEW e
    PROVE  Queued(Append(q, e)) = Queued(q) \cup {e}
<1>. DEFINE T == Queued(q) \cup {e}
            c == Append(q, e)
<1>1. q \in Seq(T) /\ e \in T
  <2>1. q \in Seq(Queued(q))
    BY DEF IsSequence, Queued
  <2>. QED BY <2>1, SeqMonotonic
<1>. HIDE DEF T
<1>2. Len(q) \in Nat /\ DOMAIN q = 1 .. Len(q)
  BY <1>1, LenProperties
<1>3. DOMAIN c = 1 .. Len(q) + 1 /\ c[Len(q) + 1] = e /\ \A i \in 1 .. Len(q) : c[i] = q[i]
  BY <1>1, <1>2, AppendProperties
<1>. HIDE DEF c
<1>4. Queued(c) = Queued(q) \cup {e}
  BY <1>2, <1>3 DEF Queued
<1>. QED BY <1>4 DEF c

LEMMA QueuedOfTail ==
    ASSUME NEW q, IsSequence(q), q # <<>>
    PROVE  IsSequence(Tail(q)) /\ Queued(q) = Queued(Tail(q)) \cup {Head(q)}
<1>. DEFINE T == Queued(q)
            c == Tail(q)
<1>1. q \in Seq(T)
  BY DEF IsSequence, Queued
<1>. HIDE DEF T
<1>2. Len(q) \in Nat /\ DOMAIN q = 1 .. Len(q) /\ Len(q) > 0 /\ Head(q) = q[1]
  BY <1>1, LenProperties, EmptySeq
<1>3. /\ c \in Seq(T) /\ Len(c) = Len(q) - 1
      /\ \A i \in 1 .. Len(c) : c[i] = q[i + 1]
  BY <1>1, HeadTailProperties
<1>4. DOMAIN c = 1 .. Len(q) - 1
  BY <1>3, LenProperties
<1>. HIDE DEF c
<1>5. \A i \in DOMAIN q : q[i] \in Queued(c) \cup {Head(q)}
  <2>1. TAKE i \in DOMAIN q
  <2>2. CASE i = 1
    BY <1>2, <2>2
  <2>3. CASE i # 1
    <3>1. i - 1 \in DOMAIN c /\ c[i - 1] = q[i]
      BY <1>2, <1>3, <1>4, <2>3
    <3>. QED BY <3>1 DEF Queued
  <2>. QED BY <2>2, <2>3
<1>6. \A i \in DOMAIN c : c[i] \in Queued(q)
  <2>1. TAKE i \in DOMAIN c
  <2>2. i + 1 \in DOMAIN q /\ q[i + 1] = c[i]
    BY <1>2, <1>3, <1>4
  <2>. QED BY <2>2 DEF Queued
<1>7. Head(q) \in Queued(q)
  BY <1>2 DEF Queued
<1>8. Queued(q) = Queued(c) \cup {Head(q)}
  BY <1>5, <1>6, <1>7 DEF Queued
<1>. QED BY <1>3, <1>8, SeqIsSequence DEF c

\* What is kept in flight, and that it is all that ends after the ackno.
LEMMA QueuedUnacknowledged ==
    ASSUME NEW s, IsSequence(s.in_flight), NEW raw
    PROVE  /\ Queued(Unacknowledged(s, raw)) \subseteq Queued(s.in_flight)
           /\ \A m \in Queued(s.in_flight) :
                  Absolute(s, m.seqno) + SequenceLength(m) > Absolute(s, raw)
                      => m \in Queued(Unacknowledged(s, raw))
<1>. DEFINE q == s.in_flight
            u == Unacknowledged(s, raw)
            kept == {k \in DOMAIN q :
                        Absolute(s, q[k].seqno) + SequenceLength(q[k]) > Absolute(s, raw)}
            first == Min(kept)
            T == Queued(q)
<1>1. u = IF kept = {} THEN <<>> ELSE SubSeq(q, first, Len(q))
  BY DEF Unacknowledged
<1>2. q \in Seq(T) /\ DOMAIN q = 1 .. Len(q) /\ Len(q) \in Nat
  <2>1. q \in Seq(T)
    BY DEF IsSequence, Queued
  <2>. HIDE DEF T, q
  <2>. QED BY <2>1, LenProperties
<1>3. \A m \in Queued(q) : Absolute(s, m.seqno) + SequenceLength(m) > Absolute(s, raw)
          => \E k \in kept : m = q[k]
  BY DEF Queued
<1>4. kept \in SUBSET (1 .. Len(q))
  BY <1>2
<1>. HIDE DEF u, kept, q, T
<1>5. CASE kept = {}
  <2>1. DOMAIN u = {}
    BY <1>1, <1>5
  <2>. QED BY <1>3, <1>5, <2>1 DEF Queued, u, q
<1>6. CASE kept # {}
  <2>1. first \in 1 .. Len(q) /\ \A k \in kept : first <= k
    <3>1. kept \in SUBSET Nat
      BY <1>4
    <3>2. Min(kept) \in kept /\ \A k \in kept : Min(kept) <= k
      BY <1>6, <3>1, SmallestOf
    <3>. QED BY <1>4, <3>2
  <2>. HIDE DEF first
  <2>2. u = SubSeq(q, first, Len(q))
    BY <1>1, <1>6
  <2>3. \A i \in first .. Len(q) : q[i] \in T
    BY <1>2, <2>1, ElementOfSeq
  <2>4. /\ SubSeq(q, first, Len(q)) \in Seq(T)
        /\ Len(SubSeq(q, first, Len(q))) = Len(q) - first + 1
        /\ \A i \in 1 .. Len(q) - first + 1 : SubSeq(q, first, Len(q))[i] = q[first + i - 1]
    BY <1>2, <2>1, <2>3, SubSeqProperties
  <2>5. u \in Seq(T) /\ DOMAIN u = 1 .. Len(q) - first + 1
        /\ \A i \in 1 .. Len(q) - first + 1 : u[i] = q[first + i - 1]
    BY <2>2, <2>4, LenProperties
  <2>6. Queued(u) \subseteq Queued(q)
    <3>1. \A i \in DOMAIN u : u[i] \in T
      BY <1>2, <2>1, <2>3, <2>5
    <3>. QED BY <3>1 DEF Queued, T
  <2>7. \A k \in kept : q[k] \in Queued(u)
    <3>1. TAKE k \in kept
    <3>2. k - first + 1 \in DOMAIN u /\ u[k - first + 1] = q[k]
      BY <1>2, <1>4, <2>1, <2>5
    <3>. QED BY <3>2 DEF Queued
  <2>. QED BY <1>3, <2>6, <2>7 DEF u, q
<1>. QED BY <1>5, <1>6

\* A segment stands at a number n and ends no later than number a.
StandsAt(z, m, n) == m.seqno = Wrap(n, z)

EndsBy(z, m, a) == /\ SequenceLength(m) \in Nat
                /\ \E n \in Nat : StandsAt(z, m, n) /\ n + SequenceLength(m) <= a

Covers(z, m, x) == \E n \in Nat : StandsAt(z, m, n) /\ n <= x /\ x < n + SequenceLength(m)

\* A segment that ends by a number ends by any later one.
LEMMA EndsByLater ==
    ASSUME NEW z, NEW m, NEW a \in Nat, NEW b \in Nat, a <= b, EndsBy(z, m, a)
    PROVE  EndsBy(z, m, b)
BY DEF EndsBy

\* What push has read is as long as it asked for.
LEMMA ReadLength ==
    ASSUME NEW stream, SoundStream(stream), NEW n \in Nat, n <= stream.size
    PROVE  LET bytes == ReadBytes(stream, n)
           IN  Len(bytes) = n /\ IsSequence(bytes)
<1>. DEFINE content == FlattenSeq(stream.q)
            bytes == ReadBytes(stream, n)
            T == {content[i] : i \in 1 .. n}
<1>1. bytes = [i \in 1 .. n |-> content[i]]
  BY DEF ReadBytes, SoundStream, MinOf
<1>2. bytes \in [1 .. n -> T]
  BY <1>1
<1>. HIDE DEF content, bytes, T
<1>3. bytes \in Seq(T) /\ Len(bytes) = n
  BY <1>2
<1>. QED BY <1>3, SeqIsSequence DEF bytes

\* The start of the k-th of the segments that n bytes are cut into.
LEMMA Pieces ==
    ASSUME NEW n \in Nat, NEW count \in Nat,
           count = IF n = 0 THEN 1 ELSE (n + MaxPayload - 1) \div MaxPayload
    PROVE  /\ count >= 1
           /\ \A k \in 1 .. count : /\ (k - 1) * MaxPayload \in Nat
                                    /\ (k - 1) * MaxPayload <= n
                                    /\ k * MaxPayload = (k - 1) * MaxPayload + MaxPayload
           /\ n <= count * MaxPayload
           /\ n = 0 => count = 1
<1>. DEFINE M == MaxPayload
<1>1. M \in Nat /\ M > 0
  BY SenderAssumption
<1>. HIDE DEF M
<1>2. CASE n = 0
  <2>1. \A k \in 1 .. count : k = 1
    BY <1>2
  <2>. QED BY <1>1, <1>2, <2>1 DEF M
<1>3. CASE n > 0
  <2>. DEFINE t == n + M - 1
  <2>1. t \in Nat /\ t = M * (t \div M) + (t % M) /\ t % M \in 0 .. M - 1 /\ t \div M \in Nat
    BY <1>1, <1>3
  <2>2. count = t \div M
    BY <1>3 DEF M
  <2>3. t = M * count + (t % M)
    BY <2>1, <2>2
  <2>4. n <= M * count /\ M * count - M < n
    BY <1>1, <1>3, <2>1, <2>3
  <2>5. count >= 1
    <3>1. count = 0 => M * count = 0
      BY <1>1
    <3>. QED BY <1>3, <2>4, <3>1
  <2>6. ASSUME NEW k \in 1 .. count
        PROVE  (k - 1) * M \in Nat /\ (k - 1) * M <= n /\ k * M = (k - 1) * M + M
    <3>1. k - 1 \in Nat /\ k - 1 <= count - 1
      OBVIOUS
    <3>2. (k - 1) * M <= (count - 1) * M
      BY <1>1, <3>1
    <3>3. (count - 1) * M = M * count - M
      BY <1>1
    <3>4. k * M = (k - 1) * M + M /\ (k - 1) * M \in Nat
      BY <1>1, <3>1
    <3>. QED BY <1>1, <2>4, <3>2, <3>3, <3>4
  <2>7. count * M = M * count
    BY <1>1
  <2>. QED BY <1>3, <2>4, <2>5, <2>6, <2>7 DEF M
<1>. QED BY <1>2, <1>3

\* The segments that push makes of n bytes.
Made(s, stream, n, fin) == Segments(s, ReadBytes(stream, n), fin)

NumbersOf(s, n, fin) == Bit(~s.syn_sent) + n + Bit(fin)

CountOf(n) == IF n = 0 THEN 1 ELSE (n + MaxPayload - 1) \div MaxPayload

StartOf(k) == (k - 1) * MaxPayload

LastOf(k, n) == MinOf(k * MaxPayload, n)

\* Each of them: what is in it.
SegmentParts(s, stream, n, fin, k) ==
    LET m == Made(s, stream, n, fin)[k]
    IN  /\ m.seqno = Wrap(SegmentStart(s, k), s.isn) /\ m.SYN = ~s.syn_sent
        /\ m.payload = SubSeq(ReadBytes(stream, n), StartOf(k) + 1, LastOf(k, n))
        /\ m.FIN = (fin /\ k = CountOf(n))

LEMMA SegmentHasParts ==
    ASSUME NEW s, NEW stream, SoundStream(stream), NEW n \in Nat, n <= stream.size, NEW fin,
           NEW k \in 1 .. CountOf(n)
    PROVE  SegmentParts(s, stream, n, fin, k)
<1>. DEFINE bytes == ReadBytes(stream, n)
            count == CountOf(n)
<1>1. Len(bytes) = n
  BY ReadLength
<1>2. Made(s, stream, n, fin) = [j \in 1 .. count |->
            [seqno |-> Wrap(SegmentStart(s, j), s.isn), SYN |-> ~s.syn_sent,
             payload |-> SubSeq(bytes, (j - 1) * MaxPayload + 1, MinOf(j * MaxPayload, n)),
             FIN |-> fin /\ j = count]]
  <2>. HIDE DEF bytes
  <2>. QED BY <1>1 DEF Segments, CountOf, Made, bytes
<1>. HIDE DEF bytes, count
<1>. QED BY <1>2 DEF SegmentParts, StartOf, LastOf, count, bytes

\* From where to where it goes.
LEMMA SegmentMade ==
    ASSUME NEW s, NEW stream, SoundStream(stream), s.syn_sent \in BOOLEAN, s.absolute_seqno \in Nat,
           NEW n \in Nat, n <= stream.size, NEW fin \in BOOLEAN, NEW k \in 1 .. CountOf(n)
    PROVE  LET m == Made(s, stream, n, fin)[k]
           IN  /\ StandsAt(s.isn, m, s.absolute_seqno + StartOf(k))
               /\ StartOf(k) \in Nat /\ StartOf(k) <= LastOf(k, n)
               /\ LastOf(k, n) \in Nat /\ LastOf(k, n) <= n
               /\ LastOf(k, n) = StartOf(k) + MaxPayload \/ LastOf(k, n) = n
               /\ k = CountOf(n) => LastOf(k, n) = n
               /\ SequenceLength(m) = Bit(~s.syn_sent) + (LastOf(k, n) - StartOf(k))
                                      + Bit(fin /\ k = CountOf(n))
<1>. DEFINE bytes == ReadBytes(stream, n)
            p == StartOf(k)
            e == LastOf(k, n)
            m == Made(s, stream, n, fin)[k]
            count == CountOf(n)
<1>1. Len(bytes) = n /\ IsSequence(bytes)
  BY ReadLength
<1>2. MaxPayload \in Nat /\ MaxPayload > 0
  BY SenderAssumption
<1>3. count \in Nat
  BY <1>2 DEF CountOf
<1>4. /\ \A j \in 1 .. count : /\ (j - 1) * MaxPayload \in Nat
                               /\ (j - 1) * MaxPayload <= n
                               /\ j * MaxPayload = (j - 1) * MaxPayload + MaxPayload
      /\ n <= count * MaxPayload
  BY <1>3, Pieces DEF CountOf
<1>5. p \in Nat /\ p <= n /\ k * MaxPayload = p + MaxPayload
  BY <1>4 DEF StartOf
<1>6. /\ e \in Nat /\ p <= e /\ e <= n
      /\ e = p + MaxPayload \/ e = n
      /\ k = count => e = n
  <2>1. k = count => n <= k * MaxPayload
    BY <1>4
  <2>. HIDE DEF p, count
  <2>. QED BY <1>2, <1>5, <2>1 DEF LastOf, MinOf
<1>7. SegmentParts(s, stream, n, fin, k)
  BY SegmentHasParts
<1>8. /\ m.seqno = Wrap(SegmentStart(s, k), s.isn) /\ m.SYN = ~s.syn_sent
      /\ m.payload = SubSeq(bytes, p + 1, e) /\ m.FIN = (fin /\ k = count)
  BY <1>7 DEF SegmentParts
<1>9. Len(m.payload) = e - p
  <2>1. Len(SubSeq(bytes, p + 1, e)) = e - p
    <3>1. bytes \in Seq({bytes[i] : i \in DOMAIN bytes})
      BY <1>1 DEF IsSequence
    <3>. DEFINE T == {bytes[i] : i \in DOMAIN bytes}
    <3>2. bytes \in Seq(T)
      BY <3>1
    <3>. HIDE DEF bytes, p, e, T
    <3>. QED BY <1>1, <1>5, <1>6, <3>2
  <2>. QED BY <1>8, <2>1
<1>10. StandsAt(s.isn, m, s.absolute_seqno + p)
  <2>1. SegmentStart(s, k) = s.absolute_seqno + p
    BY DEF SegmentStart, StartOf
  <2>. QED BY <1>8, <2>1 DEF StandsAt
<1>. HIDE DEF m, p, e, count
<1>11. SequenceLength(m) = Bit(~s.syn_sent) + (e - p) + Bit(fin /\ k = count)
  BY <1>8, <1>9 DEF SequenceLength
<1>. QED BY <1>5, <1>6, <1>10, <1>11 DEF m, p, e, count

\* All of them: they end where push goes on, and leave no number out.
LEMMA SegmentsMade ==
    ASSUME NEW s, NEW stream, SoundStream(stream), s.syn_sent \in BOOLEAN, s.absolute_seqno \in Nat,
           NEW n \in Nat, n <= stream.size, NEW fin \in BOOLEAN
    PROVE  /\ IsSequence(Made(s, stream, n, fin))
           /\ \A m \in Queued(Made(s, stream, n, fin)) : EndsBy(s.isn, m, s.absolute_seqno + NumbersOf(s, n, fin))
           /\ s.syn_sent \/ n = 0 =>
                  \A x \in Nat : s.absolute_seqno <= x /\ x < s.absolute_seqno + NumbersOf(s, n, fin)
                      => \E m \in Queued(Made(s, stream, n, fin)) : Covers(s.isn, m, x)
<1>. DEFINE made == Made(s, stream, n, fin)
            count == CountOf(n)
            a == s.absolute_seqno
<1>1. MaxPayload \in Nat /\ MaxPayload > 0
  BY SenderAssumption
<1>2. count \in Nat /\ count >= 1 /\ n <= count * MaxPayload /\ (n = 0 => count = 1)
  <2>1. count \in Nat
    BY <1>1 DEF CountOf
  <2>. QED BY <2>1, Pieces DEF CountOf
<1>3. DOMAIN made = 1 .. count /\ made = [k \in 1 .. count |-> made[k]]
  <2>1. Len(ReadBytes(stream, n)) = n
    BY ReadLength
  <2>. QED BY <2>1 DEF Made, Segments, CountOf
<1>4. Queued(made) = {made[k] : k \in 1 .. count}
  BY <1>3 DEF Queued
<1>. HIDE DEF made, count
<1>5. IsSequence(made)
  <2>. DEFINE T == {made[k] : k \in 1 .. count}
  <2>1. made \in [1 .. count -> T]
    BY <1>3
  <2>. HIDE DEF T
  <2>2. made \in Seq(T)
    BY <1>2, <2>1
  <2>. QED BY <2>2, SeqIsSequence
<1>6. ASSUME NEW k \in 1 .. count
      PROVE  /\ StandsAt(s.isn, made[k], a + StartOf(k))
             /\ StartOf(k) \in Nat /\ StartOf(k) <= LastOf(k, n)
             /\ LastOf(k, n) \in Nat /\ LastOf(k, n) <= n
             /\ LastOf(k, n) = StartOf(k) + MaxPayload \/ LastOf(k, n) = n
             /\ k = count => LastOf(k, n) = n
             /\ SequenceLength(made[k]) = Bit(~s.syn_sent) + (LastOf(k, n) - StartOf(k))
                                          + Bit(fin /\ k = count)
  BY SegmentMade DEF made, count
<1>7. ASSUME NEW k \in 1 .. count
      PROVE  EndsBy(s.isn, made[k], a + NumbersOf(s, n, fin))
  <2>. DEFINE p == StartOf(k)
              e == LastOf(k, n)
              l == SequenceLength(made[k])
  <2>1. /\ StandsAt(s.isn, made[k], a + p) /\ p \in Nat /\ p <= e /\ e \in Nat /\ e <= n
        /\ l = Bit(~s.syn_sent) + (e - p) + Bit(fin /\ k = count)
    BY <1>6
  <2>. HIDE DEF p, e, l
  <2>2. l \in Nat /\ a + p \in Nat /\ a + p + l <= a + NumbersOf(s, n, fin)
    BY <2>1 DEF Bit, NumbersOf
  <2>. QED BY <2>1, <2>2 DEF EndsBy, l
<1>8. ASSUME s.syn_sent \/ n = 0, NEW x \in Nat, a <= x, x < a + NumbersOf(s, n, fin)
      PROVE  \E k \in 1 .. count : Covers(s.isn, made[k], x)
  <2>1. ASSUME NEW k \in 1 .. count, a + StartOf(k) <= x,
               x < a + StartOf(k) + SequenceLength(made[k])
        PROVE  Covers(s.isn, made[k], x)
    <3>1. StandsAt(s.isn, made[k], a + StartOf(k)) /\ StartOf(k) \in Nat
      BY <1>6
    <3>2. a + StartOf(k) \in Nat
      BY <3>1
    <3>. QED BY <2>1, <3>1, <3>2 DEF Covers
  <2>2. CASE ~s.syn_sent
    <3>1. n = 0 /\ count = 1 /\ 1 \in 1 .. count
      BY <1>2, <1>8, <2>2
    <3>2. StartOf(1) = 0
      BY <1>1 DEF StartOf
    <3>3. SequenceLength(made[1]) = 1 + Bit(fin)
      <4>1. LastOf(1, n) = 0
        BY <1>6, <3>1
      <4>2. SequenceLength(made[1]) = Bit(~s.syn_sent) + (0 - 0) + Bit(fin /\ 1 = count)
        BY <1>6, <3>1, <3>2, <4>1
      <4>. QED BY <2>2, <3>1, <4>2 DEF Bit
    <3>4. NumbersOf(s, n, fin) = 1 + Bit(fin)
      BY <2>2, <3>1 DEF NumbersOf, Bit
    <3>5. a + StartOf(1) <= x /\ x < a + StartOf(1) + SequenceLength(made[1])
      BY <1>8, <3>2, <3>3, <3>4 DEF Bit
    <3>. QED BY <2>1, <3>1, <3>5
  <2>3. CASE s.syn_sent /\ x < a + n
    <3>. DEFINE y == x - a
                q == y \div MaxPayload
    <3>1. y \in Nat /\ y < n
      BY <1>8, <2>3
    <3>. HIDE DEF y
    <3>2. q \in Nat /\ y = MaxPayload * q + (y % MaxPayload) /\ y % MaxPayload \in 0 .. MaxPayload - 1
      BY <1>1, <3>1
    <3>. HIDE DEF q
    <3>3. MaxPayload * q <= y /\ y < MaxPayload * q + MaxPayload /\ MaxPayload * q \in Nat
      BY <1>1, <3>2
    <3>4. q < count
      <4>1. q >= count => MaxPayload * q >= MaxPayload * count
        BY <1>1, <1>2, <3>2
      <4>2. MaxPayload * count = count * MaxPayload
        BY <1>1, <1>2
      <4>. QED BY <1>1, <1>2, <3>1, <3>2, <3>3, <4>1, <4>2
    <3>5. q + 1 \in 1 .. count /\ StartOf(q + 1) = MaxPayload * q
      BY <1>1, <1>2, <3>2, <3>4 DEF StartOf
    <3>. DEFINE k == q + 1
    <3>6. k \in 1 .. count /\ StartOf(k) <= y /\ y < LastOf(k, n)
      <4>1. LastOf(k, n) = StartOf(k) + MaxPayload \/ LastOf(k, n) = n
        BY <1>6, <3>5
      <4>. QED BY <3>1, <3>3, <3>5, <4>1
    <3>. HIDE DEF k
    <3>7. /\ SequenceLength(made[k]) = Bit(~s.syn_sent) + (LastOf(k, n) - StartOf(k))
                                       + Bit(fin /\ k = count)
          /\ StartOf(k) \in Nat /\ LastOf(k, n) \in Nat
      BY <1>6, <3>6
    <3>8. a + StartOf(k) <= x /\ x < a + StartOf(k) + SequenceLength(made[k])
      BY <2>3, <3>6, <3>7 DEF Bit, y
    <3>. QED BY <2>1, <3>6, <3>8
  <2>4. CASE s.syn_sent /\ ~(x < a + n)
    <3>1. fin /\ x = a + n
      BY <1>8, <2>4 DEF NumbersOf, Bit
    <3>2. /\ count \in 1 .. count
          /\ SequenceLength(made[count]) = Bit(~s.syn_sent) + (LastOf(count, n) - StartOf(count))
                                           + Bit(fin /\ count = count)
          /\ StartOf(count) \in Nat /\ LastOf(count, n) = n /\ StartOf(count) <= LastOf(count, n)
      BY <1>2, <1>6
    <3>3. a + StartOf(count) <= x /\ x < a + StartOf(count) + SequenceLength(made[count])
      BY <2>4, <3>1, <3>2 DEF Bit
    <3>. QED BY <2>1, <3>2, <3>3
  <2>. QED BY <2>2, <2>3, <2>4
<1>. QED BY <1>4, <1>5, <1>7, <1>8 DEF made

-----------------------------------------------------------------------------
(* The Reassembler and the receiver *)

\* Nothing beyond the end of what the other end sends is stored or taken for it.
Assemblers(total) ==
    {rea \in [buf : [0 .. RecvCapacity - 1 -> Int], intervals : SUBSET (Nat \X Nat),
              last_index : Nat, last_received : BOOLEAN] :
        /\ \A i \in rea.intervals : i[1] <= i[2] /\ i[2] <= total
        /\ rea.last_received => rea.last_index = total}

\* The inbound streams: one that is closed is complete.
Inbounds(total) ==
    {bs \in Streams : /\ bs.capacity = RecvCapacity /\ bs.pushed <= total
                      /\ bs.closed => bs.pushed = total}

\* What receiving may do to the inbound stream: it grows, but not once closed.
Grows(total, in, new) ==
    /\ new \in Inbounds(total)
    /\ new.popped = in.popped /\ new.error = in.error
    /\ new.pushed >= in.pushed
    /\ in.closed => new.closed /\ new.size = in.size

\* And to the Reassembler with it: the end is noted when it is seen, and the
\* stream closes only then.
Assembles(total, rea, in, last, r) ==
    /\ r.rea \in Assemblers(total) /\ Grows(total, in, r.out)
    /\ r.rea.last_received = (rea.last_received \/ last)
    /\ r.out.closed => in.closed \/ r.rea.last_received

LEMMA LargestOf ==
    ASSUME NEW B \in Nat, NEW S \in SUBSET (0 .. B), S # {}
    PROVE  Max(S) \in S /\ \A x \in S : x <= Max(S)
<1>. DEFINE R == {B - x : x \in S}
            m == Min(R)
<1>1. R \in SUBSET Nat /\ R # {}
  <2>1. \A x \in S : B - x \in Nat
    OBVIOUS
  <2>2. PICK x \in S : TRUE
    OBVIOUS
  <2>3. B - x \in R
    OBVIOUS
  <2>. QED BY <2>1, <2>3
<1>. HIDE DEF R
<1>2. m \in R /\ \A y \in R : m <= y
  BY <1>1, SmallestOf
<1>. HIDE DEF m
<1>3. PICK l \in S : m = B - l
  BY <1>2 DEF R
<1>4. \A x \in S : l >= x
  <2>. TAKE x \in S
  <2>1. B - x \in R
    BY DEF R
  <2>2. m <= B - x
    BY <1>2, <2>1
  <2>. QED BY <1>3, <2>2
<1>5. Max(S) \in S /\ \A x \in S : Max(S) >= x
  BY <1>4 DEF Max
<1>. QED BY <1>5

LEMMA HullIsBounded ==
    ASSUME NEW total \in Nat, 2 * (total + 2) < Mod32,
           NEW S \in SUBSET (Nat \X Nat), \A j \in S : j[1] <= j[2] /\ j[2] <= total,
           NEW i \in Nat \X Nat, i[1] <= i[2], i[2] <= total
    PROVE  LET h == Hull(i, S)
           IN  h \in Nat \X Nat /\ h[1] <= h[2] /\ h[2] <= total
<1>. DEFINE L == {i[1]} \cup {j[1] : j \in S}
            R == {i[2]} \cup {j[2] : j \in S}
            lo == Min(L)
            hi == Max(R)
<1>1. L \in SUBSET Nat /\ i[1] \in L /\ L # {}
  OBVIOUS
<1>2. R \in SUBSET (0 .. total) /\ i[2] \in R /\ R # {}
  BY Modulus
<1>3. Hull(i, S) = <<lo, hi>>
  BY DEF Hull
<1>. HIDE DEF L, R
<1>4. lo \in L /\ lo <= i[1]
  BY <1>1, SmallestOf
<1>5. hi \in R /\ i[2] <= hi
  BY <1>2, LargestOf, Modulus
<1>. HIDE DEF lo, hi
<1>6. lo \in Nat /\ hi \in Nat /\ hi <= total
  BY <1>1, <1>2, <1>4, <1>5, Modulus
<1>. QED BY <1>3, <1>4, <1>5, <1>6

LEMMA MergeIsBounded ==
    ASSUME NEW total \in Nat, 2 * (total + 2) < Mod32,
           NEW S \in SUBSET (Nat \X Nat), \A j \in S : j[1] <= j[2] /\ j[2] <= total,
           NEW i \in Nat \X Nat, i[1] <= i[2], i[1] # i[2] => i[2] <= total
    PROVE  /\ MergeAndInsert(i, S) \in SUBSET (Nat \X Nat)
           /\ \A j \in MergeAndInsert(i, S) : j[1] <= j[2] /\ j[2] <= total
<1>. DEFINE M == Mergeable(i, S)   h == Hull(i, M)
<1>1. M \in SUBSET S
  BY DEF Mergeable
<1>. HIDE DEF M
<1>2. i[1] # i[2] => h \in Nat \X Nat /\ h[1] <= h[2] /\ h[2] <= total
  <2>1. M \in SUBSET (Nat \X Nat) /\ \A j \in M : j[1] <= j[2] /\ j[2] <= total
    BY <1>1
  <2>. QED BY <2>1, HullIsBounded
<1>. HIDE DEF h
<1>3. MergeAndInsert(i, S) = IF i[1] = i[2] \/ ContainedInOne(i, S) THEN S ELSE (S \ M) \cup {h}
  BY DEF MergeAndInsert, M, h
<1>. QED BY <1>2, <1>3

LEMMA StepsIsNat ==
    ASSUME NEW first \in Nat, NEW size \in Nat, size > 0, NEW k \in 0 .. size - 1
    PROVE  StepsFrom(first, k, size) \in Nat
<1>1. first % size \in 0 .. size - 1
  OBVIOUS
<1>. QED BY <1>1 DEF StepsFrom

LEMMA InsertType ==
    ASSUME NEW buf \in [0 .. RecvCapacity - 1 -> Int], NEW first \in Nat, NEW data \in Seq(Int)
    PROVE  CircInsert(buf, RecvCapacity, first, data) \in [0 .. RecvCapacity - 1 -> Int]
<1>. DEFINE C == RecvCapacity
            Byte(k) == IF StepsFrom(first, k, C) < Len(data)
                       THEN data[StepsFrom(first, k, C) + 1] ELSE buf[k]
<1>1. C \in Nat /\ C > 0
  BY PeerAssumption
<1>2. ASSUME NEW k \in 0 .. C - 1 PROVE Byte(k) \in Int
  <2>. DEFINE n == StepsFrom(first, k, C)
  <2>1. n \in Nat
    BY <1>1, StepsIsNat
  <2>. HIDE DEF n
  <2>2. n < Len(data) => data[n + 1] \in Int
    BY <2>1
  <2>3. buf[k] \in Int
    OBVIOUS
  <2>. QED BY <2>2, <2>3 DEF n
<1>3. CircInsert(buf, C, first, data) = [k \in 0 .. C - 1 |-> Byte(k)]
  BY DEF CircInsert
<1>. HIDE DEF Byte
<1>. QED BY <1>2, <1>3

LEMMA EraseType ==
    ASSUME NEW buf \in [0 .. RecvCapacity - 1 -> Int], NEW first, NEW n
    PROVE  CircErase(buf, RecvCapacity, first, n) \in [0 .. RecvCapacity - 1 -> Int]
BY DEF CircErase, Blank

LEMMA PoppedType ==
    ASSUME NEW buf \in [0 .. RecvCapacity - 1 -> Int], NEW first \in Nat, NEW n \in Nat
    PROVE  /\ CircPopped(buf, RecvCapacity, first, n) \in Seq(Int)
           /\ Len(CircPopped(buf, RecvCapacity, first, n)) = n
<1>. DEFINE C == RecvCapacity
            Byte(j) == buf[(first + j - 1) % C]
<1>1. C \in Nat /\ C > 0
  BY PeerAssumption
<1>2. ASSUME NEW j \in 1 .. n PROVE Byte(j) \in Int
  <2>. DEFINE x == first + j - 1
  <2>1. x \in Nat
    OBVIOUS
  <2>. HIDE DEF x
  <2>2. x % C \in 0 .. C - 1
    BY <1>1, <2>1
  <2>. QED BY <2>2 DEF x
<1>3. CircPopped(buf, C, first, n) = [j \in 1 .. n |-> Byte(j)]
  BY DEF CircPopped
<1>. HIDE DEF Byte
<1>4. [j \in 1 .. n |-> Byte(j)] \in [1 .. n -> Int]
  BY <1>2
<1>5. [j \in 1 .. n |-> Byte(j)] \in Seq(Int) /\ Len([j \in 1 .. n |-> Byte(j)]) = n
  BY <1>4
<1>. QED BY <1>3, <1>5

LEMMA StoreIsBounded ==
    ASSUME NEW total \in Nat, 2 * (total + 2) < Mod32,
           NEW rea \in Assemblers(total), NEW start \in Nat, NEW end \in Nat, start <= end,
           start # end => end <= total, NEW bytes \in Seq(Int),
           NEW r, r = Store(rea, RecvCapacity, start, end, bytes)
    PROVE  r \in Assemblers(total) /\ r.last_received = rea.last_received
<1>. DEFINE buf == CircInsert(rea.buf, RecvCapacity, start, bytes)
            S == MergeAndInsert(<<start, end>>, rea.intervals)
            i == <<start, end>>
<1>1. buf \in [0 .. RecvCapacity - 1 -> Int]
  BY InsertType DEF Assemblers
<1>2. S \in SUBSET (Nat \X Nat) /\ \A j \in S : j[1] <= j[2] /\ j[2] <= total
  <2>1. i \in Nat \X Nat /\ i[1] <= i[2] /\ (i[1] # i[2] => i[2] <= total)
    OBVIOUS
  <2>2. /\ rea.intervals \in SUBSET (Nat \X Nat)
        /\ \A j \in rea.intervals : j[1] <= j[2] /\ j[2] <= total
    BY DEF Assemblers
  <2>. HIDE DEF i
  <2>3. /\ MergeAndInsert(i, rea.intervals) \in SUBSET (Nat \X Nat)
        /\ \A j \in MergeAndInsert(i, rea.intervals) : j[1] <= j[2] /\ j[2] <= total
    BY <2>1, <2>2, MergeIsBounded
  <2>. QED BY <2>3 DEF i
<1>3. r = [rea EXCEPT !.buf = buf, !.intervals = S]
  BY DEF Store, Assemblers
<1>. HIDE DEF buf, S
<1>. QED BY <1>1, <1>2, <1>3 DEF Assemblers

LEMMA TakeIsBounded ==
    ASSUME NEW total \in Nat, 2 * (total + 2) < Mod32,
           NEW rea \in Assemblers(total), NEW i, NEW r, r = Take(rea, RecvCapacity, i)
    PROVE  r \in Assemblers(total) /\ r.last_received = rea.last_received
<1>. DEFINE buf == CircErase(rea.buf, RecvCapacity, i[1], i[2] - i[1])
            S == rea.intervals \ {i}
<1>1. buf \in [0 .. RecvCapacity - 1 -> Int]
  BY EraseType DEF Assemblers
<1>2. S \in SUBSET (Nat \X Nat) /\ \A j \in S : j[1] <= j[2] /\ j[2] <= total
  BY DEF Assemblers
<1>3. r = [rea EXCEPT !.buf = buf, !.intervals = S]
  BY DEF Take, Assemblers
<1>. HIDE DEF buf, S
<1>. QED BY <1>1, <1>2, <1>3 DEF Assemblers

\* What is delivered ends by the end of the stream: of a stream that is closed,
\* and so complete, nothing is.
LEMMA DeliverGrows ==
    ASSUME NEW total \in Nat, 2 * (total + 2) < Mod32,
           NEW rea \in Assemblers(total), NEW out \in Inbounds(total), NEW i \in Ready(rea, out)
    PROVE  Grows(total, out, Deliver(rea, out, i)) /\ Deliver(rea, out, i).closed = out.closed
<1>. DEFINE n == i[2] - i[1]
            data == CircPopped(rea.buf, RecvCapacity, i[1], n)
            w == WriterPush(out, data)
<1>1. i[1] \in Nat /\ i[2] \in Nat /\ i[1] <= i[2] /\ i[2] <= total /\ i[1] = out.pushed
  <2>1. i \in rea.intervals /\ i[1] = out.pushed
    BY DEF Ready
  <2>2. i \in Nat \X Nat /\ i[1] <= i[2] /\ i[2] <= total
    BY <2>1 DEF Assemblers
  <2>. QED BY <2>1, <2>2
<1>2. n \in Nat
  BY <1>1
<1>. HIDE DEF n
<1>3. data \in Seq(Int) /\ Len(data) = n
  BY <1>1, <1>2, PoppedType DEF Assemblers
<1>. HIDE DEF data
<1>4. /\ out \in Streams /\ out.capacity = RecvCapacity /\ out.pushed <= total
      /\ out.closed => out.pushed = total
  BY DEF Inbounds
<1>5. /\ w \in Streams
      /\ w.pushed = out.pushed + MinOf(out.capacity - out.size, Len(data))
      /\ \A f \in {"capacity", "popped", "closed", "error"} : w[f] = out[f]
  BY <1>3, <1>4, PushStream
<1>. HIDE DEF w
<1>6. w.capacity = out.capacity /\ w.popped = out.popped /\ w.closed = out.closed /\ w.error = out.error
  BY <1>5
<1>13. /\ out.capacity \in Nat /\ out.size \in Nat /\ out.size <= out.capacity /\ out.pushed \in Nat
  BY <1>4 DEF Streams
<1>7. MinOf(out.capacity - out.size, Len(data)) \in 0 .. n
  BY <1>2, <1>3, <1>13 DEF MinOf
<1>. DEFINE more == MinOf(out.capacity - out.size, Len(data))
<1>12. /\ more \in 0 .. n /\ w.pushed = out.pushed + more /\ out.pushed + n = i[2]
       /\ out.pushed \in Nat /\ i[2] <= total
  <2>1. n = i[2] - i[1]
    BY DEF n
  <2>2. out.pushed + n = i[2]
    BY <1>1, <1>13, <2>1
  <2>. QED BY <1>1, <1>5, <1>7, <1>13, <2>2
<1>. HIDE DEF more
<1>8. w.pushed <= total /\ w.pushed >= out.pushed
  BY <1>1, <1>2, <1>12, Modulus
<1>9. out.closed => w.pushed = out.pushed /\ w.pushed = total
  BY <1>4, <1>8, <1>12, Modulus
<1>10. out.closed => w.size = out.size
  BY <1>4, <1>5, <1>6, <1>9 DEF Streams
<1>11. Deliver(rea, out, i) = w
  BY <1>4 DEF Deliver, w, data, n
<1>. QED BY <1>4, <1>5, <1>6, <1>8, <1>9, <1>10, <1>11 DEF Grows, Inbounds

LEMMA CloseGrows ==
    ASSUME NEW total \in Nat, 2 * (total + 2) < Mod32,
           NEW rea \in Assemblers(total), NEW out, NEW new, Grows(total, out, new)
    PROVE  LET c == CloseIfComplete(rea, new)
           IN  Grows(total, out, c) /\ (c.closed => new.closed \/ rea.last_received)
<1>1. new \in Inbounds(total) /\ new \in Streams
  BY DEF Grows, Inbounds
<1>2. CASE rea.last_received /\ new.pushed = rea.last_index
  <2>1. new.pushed = total
    BY <1>2 DEF Assemblers
  <2>. DEFINE c == WriterClose(new)
  <2>2. /\ c \in Streams /\ c.closed
        /\ \A f \in {"capacity", "size", "q", "pushed", "popped", "error"} : c[f] = new[f]
    BY <1>1, CloseStream
  <2>. HIDE DEF c
  <2>3. /\ c.capacity = new.capacity /\ c.size = new.size /\ c.pushed = new.pushed
        /\ c.popped = new.popped /\ c.error = new.error
    BY <2>2
  <2>4. Grows(total, out, c)
    BY <1>1, <2>1, <2>2, <2>3 DEF Grows, Inbounds
  <2>. QED BY <1>2, <2>4 DEF CloseIfComplete, c
<1>3. CASE ~(rea.last_received /\ new.pushed = rea.last_index)
  BY <1>3 DEF CloseIfComplete
<1>. QED BY <1>2, <1>3

LEMMA AssembleGrows ==
    ASSUME NEW total \in Nat, 2 * (total + 2) < Mod32,
           NEW rea \in Assemblers(total), NEW out \in Inbounds(total),
           NEW start \in Nat, NEW end \in Nat,
           start <= end, start # end => end <= total, NEW bytes \in Seq(Int),
           NEW r, r = Assemble(rea, out, start, end, bytes)
    PROVE  Assembles(total, rea, out, FALSE, r)
<1>. DEFINE stored == Store(rea, RecvCapacity, start, end, bytes)
            i == CHOOSE i \in Ready(stored, out) : TRUE
            taken == Take(stored, RecvCapacity, i)
<1>1. out.capacity = RecvCapacity
  BY DEF Inbounds
<1>2. stored \in Assemblers(total) /\ stored.last_received = rea.last_received
  BY StoreIsBounded
<1>3. taken \in Assemblers(total) /\ taken.last_received = rea.last_received
  BY <1>2, TakeIsBounded
<1>4. r = IF Ready(stored, out) = {}
          THEN [rea |-> stored, out |-> CloseIfComplete(stored, out)]
          ELSE [rea |-> taken, out |-> CloseIfComplete(taken, Deliver(stored, out, i))]
  BY <1>1 DEF Assemble
<1>. HIDE DEF stored, taken
<1>5. Grows(total, out, out)
  BY DEF Grows, Inbounds, Streams
<1>6. CASE Ready(stored, out) = {}
  <2>. DEFINE c == CloseIfComplete(stored, out)
  <2>1. Grows(total, out, c) /\ (c.closed => out.closed \/ stored.last_received)
    BY <1>2, <1>5, CloseGrows
  <2>. HIDE DEF c
  <2>2. r = [rea |-> stored, out |-> c]
    BY <1>4, <1>6 DEF c
  <2>. QED BY <1>2, <2>1, <2>2 DEF Assembles, Assemblers
<1>7. CASE Ready(stored, out) # {}
  <2>1. i \in Ready(stored, out)
    BY <1>7
  <2>. HIDE DEF i
  <2>. DEFINE d == Deliver(stored, out, i)   c == CloseIfComplete(taken, d)
  <2>2. Grows(total, out, d) /\ d.closed = out.closed
    BY <1>2, <2>1, DeliverGrows
  <2>. HIDE DEF d
  <2>3. Grows(total, out, c) /\ (c.closed => d.closed \/ taken.last_received)
    BY <1>3, <2>2, CloseGrows
  <2>. HIDE DEF c
  <2>4. r = [rea |-> taken, out |-> c]
    BY <1>4, <1>7 DEF c, d
  <2>. QED BY <1>3, <2>2, <2>3, <2>4 DEF Assembles, Assemblers
<1>. QED BY <1>6, <1>7

\* A substring of what the other end sends, or nothing next to its end.
Fits(total, first, data, last) ==
    /\ first \in 0 .. total + 1 /\ data \in Seq(Int) /\ last \in BOOLEAN
    /\ data # <<>> => first + Len(data) <= total
    /\ last => first + Len(data) = total

LEMMA InsertGrows ==
    ASSUME NEW total \in Nat, 2 * (total + 2) < Mod32,
           NEW rea \in Assemblers(total), NEW out \in Inbounds(total), NEW first, NEW data, NEW last,
           Fits(total, first, data, last), NEW r, r = InsertSubstring(rea, out, first, data, last)
    PROVE  Assembles(total, rea, out, last, r)
<1>. DEFINE noted == NoteLast(rea, first, data, last)
            stop == Add64(first, Len(data))
            start == Clamp(first, out)
            end == Clamp(stop, out)
            bytes == SubSeq(data, start - first + 1, end - first)
<1>1. /\ first \in Nat /\ first <= total + 1 /\ data \in Seq(Int) /\ Len(data) \in Nat
      /\ Len(data) # 0 => first + Len(data) <= total
      /\ last => first + Len(data) = total
  BY Modulus DEF Fits
<1>2. stop = first + Len(data) /\ stop \in Nat
  BY <1>1, Modulus DEF Add64
<1>3. noted \in Assemblers(total) /\ noted.last_received = (rea.last_received \/ last)
  <2>1. CASE last
    <3>1. noted = [rea EXCEPT !.last_index = stop, !.last_received = TRUE]
      BY <2>1 DEF NoteLast
    <3>2. stop = total
      BY <1>1, <1>2, <2>1
    <3>. HIDE DEF stop, noted
    <3>. QED BY <1>2, <2>1, <3>1, <3>2 DEF Assemblers
  <2>2. CASE ~last
    BY <2>2 DEF NoteLast, Assemblers
  <2>. QED BY <2>1, <2>2
<1>4. out.pushed \in Nat /\ FirstUnacceptable(out) \in Nat /\ out.pushed <= FirstUnacceptable(out)
  BY DEF Inbounds, Streams, FirstUnacceptable, AvailableCapacity
<1>5. start \in Nat /\ end \in Nat /\ start >= out.pushed /\ (end > out.pushed => end <= stop)
  BY <1>1, <1>2, <1>4 DEF Clamp, MaxOf, MinOf
<1>6. r = IF end < start \/ start < first
          THEN [rea |-> noted, out |-> out] ELSE Assemble(noted, out, start, end, bytes)
  BY DEF InsertSubstring
<1>. HIDE DEF noted, stop, start, end
<1>7. CASE end < start \/ start < first
  <2>1. Grows(total, out, out)
    BY DEF Grows, Inbounds, Streams
  <2>. QED BY <1>3, <1>6, <1>7, <2>1 DEF Assembles
<1>8. CASE start <= end /\ first <= start
  <2>0. start # end => end <= first + Len(data) /\ start < end
    BY <1>1, <1>2, <1>4, <1>5, <1>8
  <2>1. start # end => end <= total
    BY <1>1, <1>5, <1>8, <2>0, Modulus
  <2>2. bytes \in Seq(Int)
    <3>. DEFINE a == start - first + 1   b == end - first
    <3>1. CASE start = end
      <4>1. a > b /\ a \in Int /\ b \in Int
        BY <1>1, <1>5, <3>1
      <4>. HIDE DEF a, b
      <4>2. SubSeq(data, a, b) = <<>>
        BY <1>1, <4>1
      <4>3. SubSeq(data, a, b) \in Seq(Int)
        BY <4>2, EmptySeq
      <4>. QED BY <4>3 DEF a, b
    <3>2. CASE start # end
      <4>1. a \in Nat /\ a > 0 /\ b \in Nat /\ b <= Len(data)
        <5>. DEFINE l == Len(data)
        <5>1. /\ l \in Nat /\ start \in Nat /\ end \in Nat /\ first \in Nat
              /\ first <= start /\ start < end /\ end <= first + l
          BY <1>1, <1>5, <1>8, <2>0, <3>2
        <5>. HIDE DEF l
        <5>2. a \in Nat /\ a > 0 /\ b \in Nat /\ b <= l
          BY <5>1
        <5>. QED BY <5>2 DEF l
      <4>. HIDE DEF a, b
      <4>2. SubSeq(data, a, b) \in Seq(Int)
        BY <1>1, <4>1, SubSeqType
      <4>. QED BY <4>2 DEF a, b
    <3>. QED BY <3>1, <3>2
  <2>. HIDE DEF bytes
  <2>3. r = Assemble(noted, out, start, end, bytes)
    BY <1>1, <1>5, <1>6, <1>8
  <2>4. Assembles(total, noted, out, FALSE, r)
    BY <1>3, <1>5, <1>8, <2>1, <2>2, <2>3, AssembleGrows
  <2>. QED BY <1>3, <2>4 DEF Assembles
<1>. QED BY <1>1, <1>5, <1>7, <1>8

\* Segments of the other end, which are of its stream or reset the connection.
IncomingSegments(zero, total) ==
    {m \in [seqno : Raw, SYN : BOOLEAN, payload : Seq(Int), FIN : BOOLEAN,
            ACK : BOOLEAN, ackno : Raw, window : Nat, RST : BOOLEAN] :
        m.RST \/ /\ m.SYN => RawOffset(m.seqno, zero) = 0
                 /\ Fits(total, (RawOffset(m.seqno, zero) + Bit(m.SYN)) - 1, m.payload, m.FIN)}

\* The zero point a receiver has noted is the one of the other end.
Receivers(zero) ==
    {rcv \in [syn_recv : BOOLEAN, fin_recv : BOOLEAN, isn : Raw] : rcv.syn_recv => rcv.isn = zero}

\* A receiver takes a message for what it is once it has seen a SYN, and only
\* the FIN tells it the end of the stream.
Takes(total, rcv, rea, in, m, r) ==
    /\ r.rcv.syn_recv = (rcv.syn_recv \/ m.SYN)
    /\ Grows(total, in, r.in)
    /\ rcv.fin_recv => r.rcv.fin_recv
    /\ r.rea.last_received => rea.last_received \/ m.FIN
    /\ rea.last_received => r.rea.last_received
    /\ r.rea.last_received => rea.last_received \/ r.rcv.fin_recv
    /\ r.in.closed => in.closed \/ r.rea.last_received
    /\ ~r.rcv.syn_recv => r.in = in

\* The stream index of the first payload byte of a segment is one less than its
\* number, the SYN's counted.
LEMMA IndexOfSegment ==
    ASSUME NEW zero \in Raw, NEW total \in Nat, 2 * (total + 2) < Mod32,
           NEW rcv \in Receivers(zero), NEW in \in Inbounds(total),
           NEW m \in IncomingSegments(zero, total), ~m.RST, rcv.syn_recv \/ m.SYN
    PROVE  StreamIndex(NoteSYN(rcv, m), in, m) = (RawOffset(m.seqno, zero) + Bit(m.SYN)) - 1
<1>. DEFINE noted == NoteSYN(rcv, m)
            index == StreamIndex(noted, in, m)
            offset == RawOffset(m.seqno, zero)
            place == offset + Bit(m.SYN)
            c == in.pushed
            next == Add32(m.seqno, Bit(m.SYN))
<1>1. /\ m.seqno \in Raw /\ m.SYN \in BOOLEAN /\ m.FIN \in BOOLEAN
      /\ (m.SYN => offset = 0) /\ Fits(total, place - 1, m.payload, m.FIN)
  BY DEF IncomingSegments
<1>2. Bit(m.SYN) \in {0, 1} /\ offset \in Nat
  <2>1. offset \in Raw
    BY <1>1, OffsetIsRaw
  <2>. HIDE DEF offset
  <2>. QED BY <2>1, BitValues, Modulus DEF Raw
<1>. HIDE DEF offset
<1>3. place \in 1 .. total + 2
  BY <1>1, <1>2 DEF Fits
<1>4. c \in Nat /\ 2 * c < Mod32
  BY Modulus DEF Inbounds, Streams
<1>5. noted.isn = zero
  <2>1. m.SYN => m.seqno = zero
    BY <1>1, OffsetIsZero DEF offset
  <2>. QED BY <1>1, <2>1 DEF NoteSYN, Receivers
<1>6. next \in Raw /\ RawOffset(next, zero) = place
  BY <1>1, <1>2, <1>3, Modulus, OffsetOfSum DEF offset
<1>. HIDE DEF place, c, next
<1>7. Unwrap(next, zero, c) = RawOffset(next, zero)
  BY <1>4, <1>6, UnwrapInHalf
<1>8. index = Sub64(place, 1)
  BY <1>5, <1>6, <1>7 DEF StreamIndex, c, next
<1>. HIDE DEF index
<1>9. index = place - 1
  BY <1>3, <1>8, Modulus DEF Sub64
<1>. QED BY <1>9 DEF index, place, offset

LEMMA ReceiverReceives ==
    ASSUME NEW zero \in Raw, NEW total \in Nat, 2 * (total + 2) < Mod32,
           NEW rcv \in Receivers(zero), NEW rea \in Assemblers(total), NEW in \in Inbounds(total),
           NEW m \in IncomingSegments(zero, total), ~m.RST, NEW r, r = ReceiverReceive(rcv, rea, in, m)
    PROVE  /\ r.rcv \in Receivers(zero) /\ r.rea \in Assemblers(total)
           /\ Takes(total, rcv, rea, in, m, r)
<1>. DEFINE noted == NoteSYN(rcv, m)
            index == StreamIndex(noted, in, m)
            offset == RawOffset(m.seqno, zero)
            place == offset + Bit(m.SYN)
            ins == InsertSubstring(rea, in, index, m.payload, m.FIN)
<1>1. /\ m.seqno \in Raw /\ m.SYN \in BOOLEAN /\ m.FIN \in BOOLEAN
      /\ (m.SYN => offset = 0) /\ Fits(total, place - 1, m.payload, m.FIN)
  BY DEF IncomingSegments
<1>2. Bit(m.SYN) \in {0, 1} /\ offset \in Nat
  <2>1. offset \in Raw
    BY <1>1, OffsetIsRaw
  <2>. HIDE DEF offset
  <2>. QED BY <2>1, BitValues, Modulus DEF Raw
<1>. HIDE DEF offset
<1>3. place \in 1 .. total + 2
  BY <1>1, <1>2 DEF Fits
<1>4. in.pushed \in Nat /\ in.pushed <= total
  BY DEF Inbounds, Streams
<1>5. Grows(total, in, in)
  BY DEF Grows, Inbounds, Streams
<1>6. CASE rcv.syn_recv \/ m.SYN
  <2>1. noted \in Receivers(zero) /\ noted.isn = zero /\ noted.syn_recv = TRUE
        /\ noted.fin_recv = rcv.fin_recv
    <3>1. m.SYN => m.seqno = zero
      BY <1>1, OffsetIsZero DEF offset
    <3>. QED BY <1>1, <1>6, <3>1 DEF NoteSYN, Receivers
  <2>2. index = place - 1
    BY <1>6, IndexOfSegment DEF offset
  <2>3. Fits(total, index, m.payload, m.FIN)
    BY <1>1, <2>2
  <2>4. r = Assembled(noted, m, ins)
    BY <1>6 DEF ReceiverReceive, index, noted
  <2>. HIDE DEF index, place, noted
  <2>5. Assembles(total, rea, in, m.FIN, ins)
    BY <2>3, InsertGrows
  <2>. DEFINE fin == noted.fin_recv \/ m.FIN
              kept == [noted EXCEPT !.fin_recv = fin]
  <2>6. fin \in BOOLEAN
    OBVIOUS
  <2>. HIDE DEF ins
  <2>7. r = [rcv |-> kept, rea |-> ins.rea, in |-> ins.out]
    BY <2>1, <2>4 DEF Assembled, Receivers
  <2>. HIDE DEF fin
  <2>8. kept \in Receivers(zero) /\ kept.syn_recv = TRUE /\ kept.fin_recv = fin
    BY <2>1, <2>6 DEF Receivers
  <2>. HIDE DEF kept
  <2>9. /\ r.rcv = kept /\ r.rea = ins.rea /\ r.in = ins.out
        /\ r.rea.last_received = (rea.last_received \/ m.FIN)
        /\ r.rcv.fin_recv = (rcv.fin_recv \/ m.FIN)
        /\ r.in.closed => in.closed \/ r.rea.last_received
        /\ r.rea \in Assemblers(total) /\ Grows(total, in, r.in)
    BY <2>1, <2>5, <2>7, <2>8 DEF Assembles, fin
  <2>. QED BY <1>1, <1>6, <2>8, <2>9 DEF Takes
<1>7. CASE ~(rcv.syn_recv \/ m.SYN)
  <2>1. r = [rcv |-> rcv, rea |-> rea, in |-> in]
    BY <1>7 DEF ReceiverReceive
  <2>. QED BY <1>1, <1>5, <1>7, <2>1 DEF Takes, Receivers
<1>. QED BY <1>6, <1>7

\* What the receiver asks for lies within what the other end sends.
LEMMA ReceiverAnswers ==
    ASSUME NEW zero \in Raw, NEW total \in Nat, 2 * (total + 2) < Mod32,
           NEW rcv \in Receivers(zero), NEW in \in Inbounds(total), NEW r, r = ReceiverSend(rcv, in)
    PROVE  /\ NextNumber(rcv, in) \in 1 .. total + 2
           /\ r.has = rcv.syn_recv /\ r.has \in BOOLEAN /\ r.ackno \in Raw /\ r.window \in Nat
           /\ ~r.has => r.ackno = 0
           /\ r.has => RawOffset(r.ackno, zero) = NextNumber(rcv, in)
<1>. DEFINE n == NextNumber(rcv, in)
            w == MinOf(AvailableCapacity(in), MaxWindow)
            ackno == IF rcv.syn_recv THEN Wrap(n, rcv.isn) ELSE 0
<1>1. n \in 1 .. total + 2
  <2>1. Bit(rcv.fin_recv /\ in.closed) \in {0, 1}
    BY BitValues
  <2>2. in.pushed \in Nat /\ in.pushed <= total
    BY DEF Inbounds, Streams
  <2>. QED BY <2>1, <2>2 DEF NextNumber
<1>. HIDE DEF n
<1>2. n \in Nat /\ n < Mod32
  BY <1>1, Modulus
<1>3. RawOffset(Wrap(n, zero), zero) = n /\ Wrap(n, zero) \in Raw
  BY <1>2, OffsetOfWrap, WrapIsRaw
<1>4. ackno \in Raw /\ (rcv.syn_recv => RawOffset(ackno, zero) = n) /\ (~rcv.syn_recv => ackno = 0)
  BY <1>3, Modulus DEF Receivers, Raw
<1>5. w \in Nat
  BY PeerAssumption DEF MinOf, AvailableCapacity, Inbounds, Streams
<1>6. r = [has |-> rcv.syn_recv, ackno |-> ackno, window |-> w]
  BY DEF ReceiverSend, n
<1>7. rcv.syn_recv \in BOOLEAN
  BY DEF Receivers
<1>. HIDE DEF ackno, w
<1>. QED BY <1>1, <1>4, <1>5, <1>6, <1>7 DEF n

-----------------------------------------------------------------------------
(* The peer *)

Peers(sent, zero, total) ==
    {p \in [sender : Senders, outbound : Streams, receiver : Receivers(zero),
            reassembler : Assemblers(total), inbound : Inbounds(total), need_send : BOOLEAN] :
        Counts(p.sender, p.outbound, sent)}

\* What a peer sends: what it acknowledges, if anything, lies within what the
\* other end sends.
OutgoingSegments(zero, total) ==
    {m \in [seqno : Raw, SYN : BOOLEAN, payload : Seq(Int), FIN : BOOLEAN,
            ACK : BOOLEAN, ackno : Raw, window : Nat, RST : BOOLEAN] :
        IF m.ACK THEN RawOffset(m.ackno, zero) \in 1 .. total + 2 ELSE m.ackno = 0}

\* A step that only sends: it leaves what has been received as it is, and pushes
\* nothing to the outbound stream.
OnlySends(p, r) ==
    /\ r.receiver = p.receiver /\ r.reassembler = p.reassembler /\ r.inbound = p.inbound
    /\ r.outbound.closed = p.outbound.closed /\ r.outbound.pushed = p.outbound.pushed

LEMMA PeerPushes ==
    ASSUME NEW sent \in Nat, sent + 2 < Mod64,
           NEW zero \in Raw, NEW total \in Nat, 2 * (total + 2) < Mod32,
           NEW p \in Peers(sent, zero, total)
    PROVE  /\ PeerPush(p) \in Peers(sent, zero, total) /\ OnlySends(p, PeerPush(p))
           /\ PeerPush(p).sender.retransmit = p.sender.retransmit
<1>. DEFINE r == SenderPush(p.sender, p.outbound)
<1>1. p.sender \in Senders /\ p.outbound \in Streams /\ Counts(p.sender, p.outbound, sent)
  BY DEF Peers
<1>2. /\ r.s \in Senders /\ r.stream \in Streams /\ Counts(r.s, r.stream, sent)
      /\ r.s.retransmit = p.sender.retransmit
      /\ r.stream.closed = p.outbound.closed /\ r.stream.pushed = p.outbound.pushed
  BY <1>1, SenderPushes
<1>. HIDE DEF r
<1>3. PeerPush(p) = [p EXCEPT !.sender = r.s, !.outbound = r.stream]
  BY DEF PeerPush, Pushed, r
<1>. QED BY <1>2, <1>3 DEF Peers, OnlySends

LEMMA PeerTicks ==
    ASSUME NEW sent \in Nat, sent + 2 < Mod64,
           NEW zero \in Raw, NEW total \in Nat, 2 * (total + 2) < Mod32,
           NEW p \in Peers(sent, zero, total), NEW ms \in Nat
    PROVE  PeerTick(p, ms) \in Peers(sent, zero, total) /\ OnlySends(p, PeerTick(p, ms))
<1>. DEFINE r == SenderTick(p.sender, ms)
<1>1. p.sender \in Senders /\ Counts(p.sender, p.outbound, sent)
  BY DEF Peers
<1>2. r \in Senders /\ Counts(r, p.outbound, sent)
  BY <1>1, SenderTicks
<1>. HIDE DEF r
<1>3. PeerTick(p, ms) = [p EXCEPT !.sender = r]
  BY DEF PeerTick, r, Peers
<1>. QED BY <1>2, <1>3 DEF Peers, OnlySends

LEMMA MessagesType ==
    ASSUME NEW sent \in Nat, sent + 2 < Mod64,
           NEW zero \in Raw, NEW total \in Nat, 2 * (total + 2) < Mod32,
           NEW p \in Peers(sent, zero, total)
    PROVE  MessagesToSend(p) \in Seq(Messages)
<1>. DEFINE s == p.sender
            again == IF s.retransmit THEN <<Head(s.in_flight)>> ELSE <<>>
            empty == SendEmptyMessage(s)
<1>1. /\ s.in_flight \in Seq(Messages) /\ s.pushed \in Seq(Messages) /\ s.absolute_seqno \in Nat
      /\ s.isn \in Raw
      /\ s.retransmit => s.in_flight # <<>>
  BY DEF Peers, Senders
<1>2. empty \in Messages
  <2>1. Wrap(s.absolute_seqno, s.isn) \in Raw
    BY <1>1, WrapIsRaw
  <2>2. <<>> \in Seq(Int)
    BY EmptySeq
  <2>. QED BY <2>1, <2>2 DEF SendEmptyMessage, Messages
<1>. HIDE DEF s, empty
<1>3. again \in Seq(Messages)
  <2>1. s.retransmit => Head(s.in_flight) \in Messages
    BY <1>1
  <2>. QED BY <2>1, EmptySeq
<1>. HIDE DEF again
<1>4. again \o s.pushed \in Seq(Messages) /\ <<empty>> \in Seq(Messages)
  BY <1>1, <1>2, <1>3
<1>5. MessagesToSend(p) \in {<<empty>>, again \o s.pushed}
  BY DEF MessagesToSend, s, again, empty
<1>. QED BY <1>4, <1>5

LEMMA SegmentsGoOut ==
    ASSUME NEW sent \in Nat, sent + 2 < Mod64,
           NEW zero \in Raw, NEW total \in Nat, 2 * (total + 2) < Mod32,
           NEW p \in Peers(sent, zero, total), NEW messages \in Seq(Messages),
           NEW r, r = ReceiverSend(p.receiver, p.inbound)
    PROVE  InSegments(p, messages, r) \in Seq(OutgoingSegments(zero, total))
<1>. DEFINE Sent(k) == Segment(p, messages[k], r)
<1>1. /\ r.has \in BOOLEAN /\ r.ackno \in Raw /\ r.window \in Nat
      /\ IF r.has THEN RawOffset(r.ackno, zero) \in 1 .. total + 2 ELSE r.ackno = 0
  BY ReceiverAnswers DEF Peers
<1>2. (p.outbound.error \/ p.inbound.error) \in BOOLEAN
  OBVIOUS
<1>3. ASSUME NEW k \in 1 .. Len(messages) PROVE Sent(k) \in OutgoingSegments(zero, total)
  <2>1. messages[k] \in Messages
    OBVIOUS
  <2>. DEFINE m == messages[k]   rst == p.outbound.error \/ p.inbound.error
  <2>2. Sent(k) = [seqno |-> m.seqno, SYN |-> m.SYN, payload |-> m.payload, FIN |-> m.FIN,
                   ACK |-> r.has, ackno |-> r.ackno, window |-> r.window, RST |-> rst]
    BY DEF Segment
  <2>. HIDE DEF Sent, m, rst
  <2>. QED BY <1>1, <1>2, <2>1, <2>2 DEF m, rst, Messages, OutgoingSegments
<1>4. InSegments(p, messages, r) = [k \in 1 .. Len(messages) |-> Sent(k)] /\ Len(messages) \in Nat
  BY DEF InSegments
<1>. HIDE DEF Sent
<1>5. [k \in 1 .. Len(messages) |-> Sent(k)] \in [1 .. Len(messages) -> OutgoingSegments(zero, total)]
  BY <1>3
<1>. QED BY <1>4, <1>5

LEMMA SentAll ==
    ASSUME NEW sent \in Nat, sent + 2 < Mod64,
           NEW zero \in Raw, NEW total \in Nat, 2 * (total + 2) < Mod32,
           NEW p \in Peers(sent, zero, total)
    PROVE  AllSent(p) \in Peers(sent, zero, total) /\ OnlySends(p, AllSent(p)) /\ ~AllSent(p).sender.retransmit
<1>. DEFINE s == p.sender
            flight == s.in_flight \o s.pushed
            timer == IF s.timer.running \/ s.pushed = <<>> THEN s.timer ELSE Started(s.rto)
            t == [s EXCEPT !.retransmit = FALSE, !.in_flight = flight, !.pushed = <<>>,
                           !.timer = timer]
<1>1. s \in Senders /\ Counts(s, p.outbound, sent)
  BY DEF Peers
<1>2. flight \in Seq(Messages)
  BY <1>1 DEF Senders
<1>3. timer \in [running : BOOLEAN, left : Nat]
  BY <1>1 DEF Senders, Started
<1>4. AllSent(p) = [p EXCEPT !.need_send = FALSE, !.sender = t]
  <2>. HIDE DEF timer, flight
  <2>1. /\ DOMAIN p = {"sender", "outbound", "receiver", "reassembler", "inbound", "need_send"}
        /\ s \in Senders
    BY <1>1 DEF Peers
  <2>2. AllSent(p) = [p EXCEPT !.need_send = FALSE,
                               !.sender.retransmit = FALSE,
                               !.sender.in_flight = flight,
                               !.sender.pushed = <<>>,
                               !.sender.timer = timer]
    BY <2>1 DEF AllSent, Senders, flight, timer
  <2>. QED BY <2>1, <2>2 DEF Senders
<1>. HIDE DEF s, flight, timer
<1>5. /\ t \in Senders /\ ~t.retransmit /\ t.absolute_seqno = s.absolute_seqno
      /\ t.syn_sent = s.syn_sent /\ t.fin_sent = s.fin_sent
  <2>. DEFINE none == <<>>
  <2>1. none \in Seq(Messages)
    BY EmptySeq
  <2>. HIDE DEF none
  <2>2. t = [s EXCEPT !.retransmit = FALSE, !.in_flight = flight, !.pushed = none, !.timer = timer]
    BY DEF none
  <2>. HIDE DEF t
  <2>. QED BY <1>1, <1>2, <1>3, <2>1, <2>2 DEF Senders
<1>. HIDE DEF t
<1>6. Counts(t, p.outbound, sent)
  BY <1>1, <1>5 DEF Counts
<1>. QED BY <1>4, <1>5, <1>6 DEF Peers, OnlySends

LEMMA CollectsSegments ==
    ASSUME NEW sent \in Nat, sent + 2 < Mod64,
           NEW zero \in Raw, NEW total \in Nat, 2 * (total + 2) < Mod32,
           NEW p \in Peers(sent, zero, total), NEW c, c = CollectSegments(p)
    PROVE  /\ c.p \in Peers(sent, zero, total) /\ OnlySends(p, c.p) /\ ~c.p.sender.retransmit
           /\ c.out \in Seq(OutgoingSegments(zero, total))
<1>. DEFINE q == IF HasAckno(p) THEN PeerPush(p) ELSE p
            out == InSegments(q, MessagesToSend(q), ReceiverSend(q.receiver, q.inbound))
<1>1. q \in Peers(sent, zero, total) /\ OnlySends(p, q)
  BY PeerPushes DEF OnlySends
<1>. HIDE DEF q
<1>2. AllSent(q) \in Peers(sent, zero, total) /\ OnlySends(q, AllSent(q)) /\ ~AllSent(q).sender.retransmit
  BY <1>1, SentAll
<1>3. out \in Seq(OutgoingSegments(zero, total))
  BY <1>1, MessagesType, SegmentsGoOut
<1>4. c = [p |-> AllSent(q), out |-> out]
  BY DEF CollectSegments, SendAll, q
<1>. HIDE DEF out
<1>5. OnlySends(p, AllSent(q))
  BY <1>1, <1>2 DEF OnlySends
<1>. QED BY <1>2, <1>3, <1>4, <1>5

\* What the receiving side of a peer keeps.
ReceivingSide(p) == [rcv |-> p.receiver, rea |-> p.reassembler, in |-> p.inbound]

\* What receiving a segment may do: fail the connection, or take bytes in.
Receives(p, r) ==
    /\ r.outbound = p.outbound
    /\ r.inbound.popped = p.inbound.popped
    /\ p.inbound.error => r.inbound.error
    /\ p.inbound.closed => r.inbound.closed /\ r.inbound.size = p.inbound.size

LEMMA PeerReceives ==
    ASSUME NEW sent \in Nat, sent + 2 < Mod64,
           NEW zero \in Raw, NEW total \in Nat, 2 * (total + 2) < Mod32,
           NEW p \in Peers(sent, zero, total), ~p.sender.retransmit, NEW m \in IncomingSegments(zero, total)
    PROVE  LET r == PeerReceive(p, m)
           IN  /\ r \in Peers(sent, zero, total) /\ Receives(p, r) /\ ~r.sender.retransmit
               /\ ~m.RST /\ ~p.inbound.error =>
                      /\ r.sender = SenderReceive(p.sender, m.ackno, m.window)
                      /\ Takes(total, p.receiver, p.reassembler, p.inbound, m, ReceivingSide(r))
<1>. DEFINE r == PeerReceive(p, m)
<1>1. CASE m.RST \/ p.inbound.error
  <2>. DEFINE in == WriterSetError(p.inbound)
  <2>1. p.inbound \in Streams /\ p.inbound \in Inbounds(total)
    BY DEF Peers, Inbounds
  <2>2. /\ in \in Streams /\ in.error
        /\ \A f \in {"capacity", "size", "q", "pushed", "popped", "closed"} : in[f] = p.inbound[f]
    BY <2>1, FailStream
  <2>3. r = [p EXCEPT !.inbound = in]
    BY <1>1 DEF PeerReceive, Peers
  <2>. HIDE DEF in, r
  <2>4. /\ in.capacity = p.inbound.capacity /\ in.size = p.inbound.size
        /\ in.pushed = p.inbound.pushed /\ in.popped = p.inbound.popped
        /\ in.closed = p.inbound.closed
    BY <2>2
  <2>5. in \in Inbounds(total)
    BY <2>1, <2>2, <2>4 DEF Inbounds
  <2>6. r \in Peers(sent, zero, total) /\ r.inbound = in /\ r.outbound = p.outbound /\ r.receiver = p.receiver
        /\ r.sender = p.sender
    BY <2>3, <2>5 DEF Peers
  <2>7. Receives(p, r)
    BY <2>2, <2>4, <2>6 DEF Receives
  <2>. QED BY <1>1, <2>6, <2>7 DEF r
<1>2. CASE ~(m.RST \/ p.inbound.error)
  <2>. DEFINE got == ReceiverReceive(p.receiver, p.reassembler, p.inbound, m)
              s == SenderReceive(p.sender, m.ackno, m.window)
              need == NeedsReply(p, m, ReceiverSend(p.receiver, p.inbound))
  <2>1. /\ p.sender \in Senders /\ Counts(p.sender, p.outbound, sent) /\ p.receiver \in Receivers(zero)
        /\ p.reassembler \in Assemblers(total) /\ p.inbound \in Inbounds(total) /\ p.need_send \in BOOLEAN
    BY DEF Peers
  <2>2. m.ackno \in Raw /\ m.window \in Nat /\ ~m.RST
    BY <1>2 DEF IncomingSegments
  <2>3. /\ got.rcv \in Receivers(zero) /\ got.rea \in Assemblers(total)
        /\ Takes(total, p.receiver, p.reassembler, p.inbound, m, got)
    BY <2>1, <2>2, ReceiverReceives
  <2>4. s \in Senders /\ ~s.retransmit /\ Counts(s, p.outbound, sent)
    BY <2>1, <2>2, SenderReceives
  <2>5. need \in BOOLEAN
    BY <2>1 DEF NeedsReply
  <2>6. r = [p EXCEPT !.sender = s, !.need_send = need, !.receiver = got.rcv,
                      !.reassembler = got.rea, !.inbound = got.in]
    BY <1>2 DEF PeerReceive, Accepted, PeerAcceptsAck, Peers
  <2>. HIDE DEF got, s, need, r
  <2>7. got.in \in Inbounds(total) /\ Grows(total, p.inbound, got.in)
    BY <2>3 DEF Grows, Takes
  <2>8. /\ r \in Peers(sent, zero, total) /\ r.sender = s /\ r.outbound = p.outbound /\ r.receiver = got.rcv
        /\ r.inbound = got.in /\ r.reassembler = got.rea
    BY <2>1, <2>3, <2>4, <2>5, <2>6, <2>7 DEF Peers
  <2>9. Receives(p, r)
    BY <2>7, <2>8 DEF Receives, Grows
  <2>10. Takes(total, p.receiver, p.reassembler, p.inbound, m, ReceivingSide(r))
    BY <2>3, <2>8 DEF Takes, ReceivingSide
  <2>. QED BY <2>4, <2>8, <2>9, <2>10 DEF r, s
<1>. QED BY <1>1, <1>2

LEMMA NewPeerType ==
    ASSUME NEW sent \in Nat, sent + 2 < Mod64,
           NEW zero \in Raw, NEW total \in Nat, 2 * (total + 2) < Mod32, NEW isn \in Raw
    PROVE  NewPeer(isn) \in Peers(sent, zero, total) /\ ~NewPeer(isn).sender.retransmit
<1>. DEFINE s == NewSender(isn)   rea == NewReassembler(RecvCapacity)   rcv == NewReceiver
            out == NewByteStream(SendCapacity)   in == NewByteStream(RecvCapacity)
<1>1. <<>> \in Seq(Messages)
  BY EmptySeq
<1>2. s \in Senders /\ ~s.retransmit
  <2>. DEFINE none == <<>>
  <2>1. none \in Seq(Messages)
    BY <1>1
  <2>. HIDE DEF none
  <2>2. s = [isn |-> isn, rto |-> InitialRTO, timer |-> Stopped, ackno |-> isn, window_size |-> 1,
             pushed |-> none, in_flight |-> none, retransmissions |-> 0,
             syn_sent |-> FALSE, fin_sent |-> FALSE, absolute_seqno |-> 0,
             retransmit |-> FALSE, dont_back_off |-> FALSE]
    BY DEF NewSender, none
  <2>3. Stopped \in [running : BOOLEAN, left : Nat]
    BY DEF Stopped
  <2>. HIDE DEF s
  <2>. QED BY <2>1, <2>2, <2>3, SenderAssumption DEF Senders
<1>3. rea \in Assemblers(total)
  BY PeerAssumption DEF NewReassembler, NewBuffer, Blank, Assemblers
<1>4. rcv \in Receivers(zero)
  BY Modulus DEF NewReceiver, Receivers, Raw
<1>5. out \in Streams /\ in \in Streams
  BY NewStream, PeerAssumption
<1>6. in \in Inbounds(total)
  BY <1>5, PeerAssumption DEF NewByteStream, Inbounds
<1>7. Counts(s, out, sent)
  <2>1. /\ s.syn_sent = FALSE /\ s.fin_sent = FALSE /\ s.absolute_seqno = 0
        /\ out.popped = 0 /\ out.pushed = 0
    BY DEF NewSender, NewByteStream
  <2>. HIDE DEF s, out
  <2>2. Bit(s.syn_sent) = 0 /\ Bit(s.fin_sent) = 0
    BY <2>1, BitValues
  <2>. QED BY <2>1, <2>2, Modulus DEF Counts
<1>8. NewPeer(isn) = [sender |-> s, outbound |-> out, receiver |-> rcv, reassembler |-> rea,
                 inbound |-> in, need_send |-> FALSE]
  BY DEF NewPeer
<1>. HIDE DEF s, rea, rcv, out, in
<1>. QED BY <1>2, <1>3, <1>4, <1>5, <1>6, <1>7, <1>8 DEF Peers
=============================================================================
