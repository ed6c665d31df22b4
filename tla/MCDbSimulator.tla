--------------------------- MODULE MCDbSimulator ---------------------------
(* A small instance of the simulator for TLC. *)
EXTENDS DbSimulator, TLC
=============================================================================
