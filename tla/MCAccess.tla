------------------------------ MODULE MCAccess ------------------------------
(* A small instance of Access for TLC: two requests that may be any two of   *)
(* the handlers, and a key that may expire.  Times are a few ticks of a clock.       *)
EXTENDS Access, TLC

CONSTANTS r1, r2

MCExpiry == {Never, 1}

Symmetry == Permutations(Request)
=============================================================================
