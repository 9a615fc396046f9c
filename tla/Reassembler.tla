----------------------------- MODULE Reassembler -----------------------------
(***************************************************************************)
(* A Reassembler that writes to a ByteStream whose reader takes any number *)
(* of bytes at a time. Substrings of one stream of Total bytes arrive in   *)
(* any order, any number of times, cut anywhere, with or without the flag  *)
(* of the last one. A byte is its own stream index. A keep-alive segment   *)
(* (util/tcp_peer.hh, "incoming keep-alives") repeats the number before    *)
(* the first byte: its index wraps to 2^64 - 1.                            *)
(***************************************************************************)
EXTENDS ReassemblerOps

CONSTANTS
    Capacity,   \* the output's capacity
    Total       \* the length of the stream

ASSUME ReassemblerAssumption ==
    /\ Capacity \in Nat /\ Capacity > 0
    /\ Total \in Nat
    /\ Total + Capacity < Mod64 - 1     \* stream indices do not wrap

VARIABLES
    rea,    \* the Reassembler
    out     \* its output

vars == <<rea, out>>

Init == rea = NewReassembler(Capacity) /\ out = NewByteStream(Capacity)

\* The bytes [first, first + len) of the stream.
Substring(first, len) == [k \in 1 .. len |-> first + k - 1]

Receive(first, data, last) ==
    LET r == InsertSubstring(rea, out, first, data, last)
    IN  rea' = r.rea /\ out' = r.out

Insert == \E first \in 0 .. Total : \E len \in 0 .. Total - first : \E last \in BOOLEAN :
              /\ last => first + len = Total
              /\ Receive(first, Substring(first, len), last)

InsertKeepAlive == Receive(Mod64 - 1, <<>>, FALSE)

Read == \E len \in 1 .. Capacity : out' = ReaderPop(out, len) /\ UNCHANGED rea

Next == Insert \/ InsertKeepAlive \/ Read

Spec == Init /\ [][Next]_vars

-----------------------------------------------------------------------------

TypeOK ==
    /\ rea.buf \in [0 .. Capacity - 1 -> {Blank} \cup 0 .. Total - 1]
    /\ rea.intervals \subseteq (0 .. Total) \X (0 .. Total)
    /\ rea.last_index \in {0, Total}
    /\ rea.last_received \in BOOLEAN
    /\ out.capacity = Capacity
    /\ out.pushed \in 0 .. Total
    /\ out.popped \in Nat
    /\ out.closed \in BOOLEAN

(***************************************************************************)
(* StoredBytes: every byte an interval claims is in the circular buffer at *)
(* its place, although inserts wrap around its end and pops blank parts.   *)
(***************************************************************************)
StoredBytes == \A x \in Covered(rea.intervals) : rea.buf[x % Capacity] = x

(***************************************************************************)
(* Separated: stored intervals are not empty, do not overlap or touch, and *)
(* lie inside the window: after a gap, and within the output's capacity    *)
(* from the first unread byte, so no two of their bytes share a position.  *)
(***************************************************************************)
Separated ==
    /\ \A i \in rea.intervals : /\ out.pushed < i[1] /\ i[1] < i[2]
                                /\ i[2] <= out.popped + Capacity
    /\ \A i, j \in rea.intervals : i # j => i[2] < j[1] \/ j[2] < i[1]

(***************************************************************************)
(* ClosedWhenComplete: the output is closed exactly when all bytes have    *)
(* been written and the end is known, although two early returns skip the  *)
(* closing step.                                                           *)
(***************************************************************************)
ClosedWhenComplete == out.closed <=> rea.last_received /\ out.pushed = Total

(***************************************************************************)
(* PushesNextBytes: a step that writes, writes one chunk: the bytes that   *)
(* follow the last one written. A closed output is never written to.       *)
(***************************************************************************)
PushesNextBytes ==
    [][out'.pushed # out.pushed =>
          /\ out'.q = Append(out.q, Substring(out.pushed, out'.pushed - out.pushed))
          /\ ~out.closed]_vars

\* ImplementsReassembly: intervals and circular buffer do what reassembly promises.
Reassembly == INSTANCE StreamReassembly
                  WITH stored <- Covered(rea.intervals), assembled <- out.pushed,
                       delivered <- out.popped, ended <- rea.last_received,
                       closed <- out.closed
ImplementsReassembly == Reassembly!Spec
=============================================================================
