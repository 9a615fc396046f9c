--------------------------- MODULE SequenceSpace ----------------------------
(***************************************************************************)
(* The use the stack makes of Wrap32: one end knows an absolute sequence   *)
(* number and puts its low 32 bits on the wire; the other end unwraps them *)
(* against a checkpoint of its own, a number near the one that was sent.   *)
(* Both ends move on independently.                                        *)
(***************************************************************************)
EXTENDS WrappingIntegers

CONSTANTS
    Zeros,      \* the zero points (ISNs) to choose from
    MaxSeqno    \* bound: the absolute sequence numbers explored

ASSUME SequenceSpaceAssumption ==
    /\ Zeros \subseteq Raw
    /\ MaxSeqno \in U64

VARIABLES
    zero,        \* the connection's ISN
    seqno,       \* the absolute number being sent
    checkpoint   \* what the other end unwraps against

spaceVars == <<zero, seqno, checkpoint>>

SpaceInit == zero \in Zeros /\ seqno = 0 /\ checkpoint = 0

Advance == /\ seqno < MaxSeqno
           /\ seqno' = seqno + 1
           /\ UNCHANGED <<zero, checkpoint>>

AdvanceCheckpoint == /\ checkpoint < MaxSeqno
                     /\ checkpoint' = checkpoint + 1
                     /\ UNCHANGED <<zero, seqno>>

SpaceNext == Advance \/ AdvanceCheckpoint

SpaceSpec == SpaceInit /\ [][SpaceNext]_spaceVars

Received == Unwrap(Wrap(seqno, zero), zero, checkpoint)

TypeOK == zero \in Raw /\ seqno \in U64 /\ checkpoint \in U64

(***************************************************************************)
(* RoundTrip: a number less than half a lap (2^31) away from the           *)
(* checkpoint survives the trip through 32 bits. Sender and receiver rely  *)
(* on it for every ackno and seqno they exchange.                          *)
(***************************************************************************)
RoundTrip == 2 * Distance(seqno, checkpoint) < Mod32 => Received = seqno

(***************************************************************************)
(* Nearest: whatever the distance, unwrap answers a 64-bit number with the *)
(* raw value that was sent, and no other such number is closer to the      *)
(* checkpoint, at both ends of the 64-bit range too.                       *)
(***************************************************************************)
Nearest == /\ Received \in U64
           /\ Wrap(Received, zero) = Wrap(seqno, zero)
           /\ \A m \in U64 : Wrap(m, zero) = Wrap(seqno, zero)
                  => Distance(Received, checkpoint) <= Distance(m, checkpoint)
=============================================================================
