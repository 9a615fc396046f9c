-------------------------- MODULE StreamReassembly ---------------------------
(***************************************************************************)
(* What reassembly promises (the comment over Reassembler::insert): the    *)
(* bytes of the stream arrive in any order, overlapping and repeated. A    *)
(* byte inside the window, which spans the capacity from the first byte    *)
(* not yet read, is never forgotten; one outside is never kept; the bytes  *)
(* are passed on as soon as all earlier ones are there, and the stream is  *)
(* closed when the last one is.                                            *)
(***************************************************************************)
EXTENDS Integers, FiniteSetsExt

CONSTANTS Capacity, Total

VARIABLES
    stored,     \* the indices known beyond a gap
    assembled,  \* how many bytes were passed on
    delivered,  \* how many of those were read
    ended,      \* the end of the stream is known
    closed

vars == <<stored, assembled, delivered, ended, closed>>

Init == stored = {} /\ assembled = 0 /\ delivered = 0 /\ ended = FALSE /\ closed = FALSE

Window == assembled .. delivered + Capacity - 1

Receive(lo, hi, last) ==
    LET known == stored \cup (Window \cap lo .. hi - 1)
    IN  /\ assembled' = Min({x \in assembled .. Total : x \notin known})
        /\ stored' = {x \in known : x >= assembled'}
        /\ ended' = (ended \/ last)
        /\ closed' = (ended' /\ assembled' = Total)
        /\ UNCHANGED delivered

Read(n) == /\ delivered' = delivered + n
           /\ UNCHANGED <<stored, assembled, ended, closed>>

Next == \/ \E lo, hi \in 0 .. Total, last \in BOOLEAN :
               lo <= hi /\ (last => hi = Total) /\ Receive(lo, hi, last)
        \/ \E n \in 1 .. assembled - delivered : Read(n)

Spec == Init /\ [][Next]_vars
=============================================================================
