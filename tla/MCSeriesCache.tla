---------------------------- MODULE MCSeriesCache ----------------------------
(* A small instance of the time-series cache for TLC. *)
EXTENDS SeriesCache

CONSTANTS v1, v2

(* A short and a longer history to (re)insert. *)
MCInserted == {<<v1>>, <<v1, v2>>}
=============================================================================
