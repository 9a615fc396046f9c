----------------------------- MODULE CircBuffer ------------------------------
(***************************************************************************)
(* The circular byte buffer of src/src/CircBuffer.h: stream index n is at  *)
(* position n % size, and both copies may come in two parts, up to the end *)
(* of the vector and on from its beginning.                                *)
(***************************************************************************)
EXTENDS Integers, Sequences

Blank == -1     \* the ' ' of memset: no byte of the stream

NewBuffer(size) == [k \in 0 .. size - 1 |-> Blank]

\* How far position k is behind the position of stream index first, going round.
StepsFrom(first, k, size) ==
    IF k >= first % size THEN k - (first % size) ELSE k - (first % size) + size

\* Fault: what runs over the end of the vector is lost.
CircInsertCut(buf, size, first, data) ==
    [k \in 0 .. size - 1 |->
        IF k >= first % size /\ k - (first % size) < Len(data)
        THEN data[k - (first % size) + 1]
        ELSE buf[k]]

CircInsert(buf, size, first, data) ==
    [k \in 0 .. size - 1 |->
        IF StepsFrom(first, k, size) < Len(data)
        THEN data[StepsFrom(first, k, size) + 1]
        ELSE buf[k]]

\* CircBuffer::pop returns the bytes and blanks their positions.
CircPopped(buf, size, index, amount) ==
    [j \in 1 .. amount |-> buf[(index + j - 1) % size]]

CircErase(buf, size, index, amount) ==
    [k \in 0 .. size - 1 |-> IF StepsFrom(index, k, size) < amount THEN Blank ELSE buf[k]]
=============================================================================
