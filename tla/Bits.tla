-------------------------------- MODULE Bits --------------------------------
(* Numbers on channels and in registers of so many bits.                   *)
EXTENDS Integers

Pow2[n \in Nat] == IF n = 0 THEN 1 ELSE 2 * Pow2[n - 1]
=============================================================================
