---------------------------- MODULE MCReplication ----------------------------
(* A small instance of the replication client for TLC. *)
EXTENDS Replication

CONSTANTS p1, p2

MCCredentials ==
  {[url |-> "valid", password |-> "right", asked |-> "sasl"],
   [url |-> "valid", password |-> "wrong", asked |-> "password"]}
=============================================================================
