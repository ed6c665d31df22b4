----------------------------- MODULE MCSessions -----------------------------
(* A small instance of the session protocol for TLC. *)
EXTENDS Sessions, TLC

TabSymmetry == Permutations(Tab)
=============================================================================
