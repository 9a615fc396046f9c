--------------------------- MODULE ReassemblerOps ----------------------------
(***************************************************************************)
(* Reassembler::insert (src/src/reassembler.{hh,cc}) as an operator on the *)
(* Reassembler and the output ByteStream. The members first_unassembled_,  *)
(* first_unacceptable_ and first_unpopped_index_ are computed afresh by    *)
(* every insert and only printed in between: they are not kept.            *)
(***************************************************************************)
EXTENDS ByteStreamOps, IntervalSet, CircBuffer, MachineWords

\* The constructor; the first insert gives the buffer the output's capacity.
NewReassembler(capacity) ==
    [buf |-> NewBuffer(capacity), intervals |-> {}, last_index |-> 0, last_received |-> FALSE]

\* Fault: the index of the last byte is taken for the end.
NoteLastByte(rea, first, data, last) ==
    IF last THEN [rea EXCEPT !.last_index = Sub64(Add64(first, Len(data)), 1),
                             !.last_received = TRUE]
            ELSE rea

\* Step 0: the end of the stream is recorded before any test on the substring.
NoteLast(rea, first, data, last) ==
    IF last THEN [rea EXCEPT !.last_index = Add64(first, Len(data)), !.last_received = TRUE]
            ELSE rea

FirstUnacceptable(out) == out.pushed + AvailableCapacity(out)

Clamp(x, out) == MaxOf(MinOf(x, FirstUnacceptable(out)), out.pushed)

\* Steps 2 and 3: the substring [start, end), cut to the window, is stored.
Store(rea, capacity, start, end, bytes) ==
    [rea EXCEPT !.buf = CircInsert(@, capacity, start, bytes),
                !.intervals = MergeAndInsert(<<start, end>>, @)]

\* Step 4: the smallest interval, if it begins where the output ends.
Ready(rea, out) == {i \in rea.intervals : IsSmallest(i, rea.intervals) /\ i[1] = out.pushed}

Take(rea, capacity, i) ==
    [rea EXCEPT !.intervals = @ \ {i},
                !.buf = CircErase(@, capacity, i[1], i[2] - i[1])]

Deliver(rea, out, i) == WriterPush(out, CircPopped(rea.buf, out.capacity, i[1], i[2] - i[1]))

\* Step 5.
CloseIfComplete(rea, out) ==
    IF rea.last_received /\ out.pushed = rea.last_index THEN WriterClose(out) ELSE out

\* Steps 2 to 5, for a substring that overlaps the window as [start, end).
Assemble(rea, out, start, end, bytes) ==
    LET stored == Store(rea, out.capacity, start, end, bytes)
    IN  IF Ready(stored, out) = {}
        THEN [rea |-> stored, out |-> CloseIfComplete(stored, out)]
        ELSE LET i == CHOOSE i \in Ready(stored, out) : TRUE
                 taken == Take(stored, out.capacity, i)
             IN  [rea |-> taken, out |-> CloseIfComplete(taken, Deliver(stored, out, i))]

\* Reassembler::insert. A substring that begins beyond the window returns
\* early, after step 0; the index that wraps, 2^64 - 1, is one of those.
InsertSubstring(rea, out, first, data, last) ==
    LET noted == NoteLast(rea, first, data, last)
        start == Clamp(first, out)
        end == Clamp(Add64(first, Len(data)), out)
    IN  IF end < start \/ start < first
        THEN [rea |-> noted, out |-> out]
        ELSE Assemble(noted, out, start, end, SubSeq(data, start - first + 1, end - first))
=============================================================================
