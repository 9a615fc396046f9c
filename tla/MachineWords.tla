---------------------------- MODULE MachineWords ----------------------------
(***************************************************************************)
(* Unsigned 64-bit arithmetic, for indices the program lets wrap.          *)
(***************************************************************************)
EXTENDS Integers

CONSTANT Mod64   \* 2^64: the number of values of a uint64_t

ASSUME Mod64Assumption == Mod64 \in Nat /\ Mod64 > 1

U64 == 0 .. Mod64 - 1

\* Addition and subtraction of operands that are in range.
Add64(a, b) == IF a + b < Mod64 THEN a + b ELSE a + b - Mod64
Sub64(a, b) == IF a >= b THEN a - b ELSE a - b + Mod64

\* A flag as a number.
Bit(b) == IF b THEN 1 ELSE 0
=============================================================================
