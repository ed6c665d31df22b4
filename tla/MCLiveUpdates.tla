---------------------------- MODULE MCLiveUpdates ----------------------------
(* A small instance of the update pipeline for TLC. *)
EXTENDS LiveUpdates, TLC
=============================================================================
