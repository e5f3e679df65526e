------------------------------- MODULE Powers -------------------------------
(***************************************************************************)
(* Powers of two, for the widths of fields and the doubling of delays.     *)
(***************************************************************************)
EXTENDS Integers

Pow2[n \in Nat] == IF n = 0 THEN 1 ELSE 2 * Pow2[n - 1]
=============================================================================
