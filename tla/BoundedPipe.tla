----------------------------- MODULE BoundedPipe -----------------------------
(***************************************************************************)
(* What a ByteStream promises its two ends: a pipe of bounded capacity     *)
(* that delivers the written bytes once each and in order, ends after the  *)
(* last of them, and reports an error. Byte k of the stream is the number  *)
(* k, so the order of delivery is the order of the numbers.                *)
(***************************************************************************)
EXTENDS Integers, Sequences

CONSTANT Capacity

VARIABLES
    content,    \* the bytes inside, in order
    delivered,  \* how many bytes have left
    closed, failed

vars == <<content, delivered, closed, failed>>

Init == content = <<>> /\ delivered = 0 /\ closed = FALSE /\ failed = FALSE

Write == /\ ~closed
         /\ \E n \in 1 .. Capacity - Len(content) :
               content' = content \o [i \in 1 .. n |-> delivered + Len(content) + i - 1]
         /\ UNCHANGED <<delivered, closed, failed>>

Read == /\ \E n \in 1 .. Len(content) :
              /\ content' = SubSeq(content, n + 1, Len(content))
              /\ delivered' = delivered + n
        /\ UNCHANGED <<closed, failed>>

Close == closed' = TRUE /\ UNCHANGED <<content, delivered, failed>>

Fail == failed' = TRUE /\ UNCHANGED <<content, delivered, closed>>

Next == Write \/ Read \/ Close \/ Fail

Spec == Init /\ [][Next]_vars
=============================================================================
