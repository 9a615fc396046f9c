------------------------------ MODULE ParserOps ------------------------------
(***************************************************************************)
(* Parser and Serializer of src/util/parser.hh, readv of                   *)
(* src/util/file_descriptor.cc and the checksum of src/util/checksum.hh,   *)
(* over sequences of bytes. An integer is the sequence of its bytes, the   *)
(* most significant one first.                                             *)
(*                                                                         *)
(* A Parser reads from a list of buffers: skip bytes of the first one are  *)
(* gone, size bytes are left in all. To take front() of an empty buffer is *)
(* undefined.                                                              *)
(***************************************************************************)
EXTENDS Integers, Sequences, SequencesExt

Byte == 0 .. 255

Number(bytes) == FoldLeft(LAMBDA v, b : v * 256 + b, 0, bytes)
Two(n) == <<n \div 256, n % 256>>

NewParser(buffers) ==
    [buffer |-> buffers, skip |-> 0, size |-> Len(FlattenSeq(buffers)),
     error |-> FALSE, undefined |-> FALSE]

Peek(p) == SubSeq(Head(p.buffer), p.skip + 1, Len(Head(p.buffer)))

\* What the list holds (history: size_ is kept apart from it).
Left(p) == IF p.buffer = <<>> THEN <<>> ELSE Peek(p) \o FlattenSeq(Tail(p.buffer))

\* Faults: size_ is not kept up; a buffer that is used up stays in front.
SkipUncounted(p, n) ==
    IF p.skip + n = Len(Head(p.buffer))
    THEN [p EXCEPT !.buffer = Tail(@), !.skip = 0]
    ELSE [p EXCEPT !.skip = @ + n]
SkipLate(p, n) ==
    IF n = 0 THEN [p EXCEPT !.buffer = Tail(@), !.skip = 0]
    ELSE [p EXCEPT !.size = @ - n, !.skip = @ + n]

Skip(p, n) ==
    LET q == [p EXCEPT !.size = @ - n, !.skip = @ + n]
    IN  IF q.skip = Len(Head(q.buffer)) THEN [q EXCEPT !.buffer = Tail(@), !.skip = 0] ELSE q

RECURSIVE RemovePrefix(_, _)
RemovePrefix(p, len) ==
    IF len = 0 \/ p.buffer = <<>> THEN p
    ELSE LET n == IF len < Len(Peek(p)) THEN len ELSE Len(Peek(p))
         IN  RemovePrefix(Skip(p, n), len - n)

\* integer(): what it reads is added to values; with an error it reads nothing
\* and the variable keeps its zero.
Integer(acc, width) ==
    IF acc.parser.error \/ width > acc.parser.size
    THEN [parser |-> [acc.parser EXCEPT !.error = TRUE],
          values |-> Append(acc.values, [k \in 1 .. width |-> 0])]
    ELSE [parser |-> [RemovePrefix(acc.parser, width) EXCEPT
                         !.undefined = @ \/ Peek(acc.parser) = <<>>],
          values |-> Append(acc.values, SubSeq(Left(acc.parser), 1, width))]

\* Integers of these widths, one after another.
Integers(p, widths) == FoldLeft(Integer, [parser |-> p, values |-> <<>>], widths)

AllRemaining(p) == IF p.size = 0 THEN <<>> ELSE <<Peek(p)>> \o Tail(p.buffer)

\* The Serializer keeps the integers apart until a buffer comes or it ends.
NewSerializer == [output |-> <<>>, buffer |-> <<>>]
PutIntegers(s, values) == [s EXCEPT !.buffer = @ \o FlattenSeq(values)]
Flush(s) == [output |-> Append(s.output, s.buffer), buffer |-> <<>>]
PutBuffer(s, b) == [Flush(s) EXCEPT !.output = Append(@, b)]
PutBuffers(s, bs) == FoldLeft(PutBuffer, s, bs)
Output(s) == Flush(s).output

\* read() of one packet into a buffer for each of the sizes and one for the rest:
\* the first bytes, as many as there are, and an empty buffer where there is none.
Fills(bytes, sizes, k) ==
    LET before == FoldLeft(LAMBDA a, b : a + b, 0, SubSeq(sizes, 1, k - 1))
        end == before + sizes[k]
    IN  SubSeq(bytes, before + 1, IF end < Len(bytes) THEN end ELSE Len(bytes))

Readv(bytes, sizes) ==
    [k \in 1 .. Len(sizes) + 1 |-> Fills(bytes, Append(sizes, Len(bytes)), k)]

\* InternetChecksum: bytes count 256 times and once by turns.
NewChecksum(sum) == [sum |-> sum, parity |-> FALSE]

RECURSIVE AddBytes(_, _)
AddBytes(c, data) ==
    IF data = <<>> THEN c
    ELSE AddBytes([sum |-> c.sum + (IF c.parity THEN Head(data) ELSE Head(data) * 256),
                   parity |-> ~c.parity], Tail(data))

AddBuffers(c, bs) == FoldLeft(AddBytes, c, bs)

RECURSIVE FoldedSum(_)
FoldedSum(n) == IF n > 65535 THEN FoldedSum((n \div 65536) + (n % 65536)) ELSE n

Value(c) == 65535 - FoldedSum(c.sum)
=============================================================================
