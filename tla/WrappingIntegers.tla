-------------------------- MODULE WrappingIntegers --------------------------
(***************************************************************************)
(* The 32-bit sequence numbers of src/src/wrapping_integers.{hh,cc}: a     *)
(* Wrap32 is a raw value counted from an arbitrary zero point, and unwrap  *)
(* recovers the absolute 64-bit sequence number nearest to a checkpoint.   *)
(* The two moduli, 2^32 and 2^64 in the program, are constants.            *)
(***************************************************************************)
EXTENDS MachineWords

CONSTANT Mod32   \* 2^32: the number of raw values of a Wrap32

\* The 64-bit range holds several laps of the 32-bit one (2^32 in the program).
ASSUME ModuliAssumption ==
    /\ Mod32 \in Nat /\ Mod32 > 1
    /\ \E laps \in 4 .. Mod64 : Mod64 = laps * Mod32

Raw == 0 .. Mod32 - 1      \* the values of a Wrap32

\* Unsigned 32-bit addition of operands that are in range.
Add32(a, b) == IF a + b < Mod32 THEN a + b ELSE a + b - Mod32

Distance(a, b) == IF a > b THEN a - b ELSE b - a

Wrap(n, zero) == Add32(zero, n % Mod32)

\* How far raw is from zero, on the 32-bit circle.
RawOffset(raw, zero) == IF raw >= zero THEN raw - zero ELSE raw - zero + Mod32

(***************************************************************************)
(* The three candidates of unwrap. The multiple below the checkpoint's is  *)
(* computed in 64 bits: for the first lap it wraps to the last one.        *)
(***************************************************************************)
LapStart(checkpoint) == (checkpoint \div Mod32) * Mod32

Candidates(raw, zero, checkpoint) ==
    LET k == LapStart(checkpoint)
    IN  << Add64(Sub64(k, Mod32), RawOffset(raw, zero)),
           Add64(k, RawOffset(raw, zero)),
           Add64(IF k + Mod32 < Mod64 THEN k + Mod32 ELSE 0, RawOffset(raw, zero)) >>

\* Fault: only the lap of the checkpoint is considered.
UnwrapSameLap(raw, zero, checkpoint) == Add64(LapStart(checkpoint), RawOffset(raw, zero))

\* The closest candidate; the loop's strict < keeps the first of equals.
Unwrap(raw, zero, checkpoint) ==
    LET c == Candidates(raw, zero, checkpoint)
        d == [i \in 1 .. 3 |-> Distance(c[i], checkpoint)]
    IN  CASE d[1] <= d[2] /\ d[1] <= d[3] -> c[1]
          [] d[2] <  d[1] /\ d[2] <= d[3] -> c[2]
          [] OTHER -> c[3]
=============================================================================
