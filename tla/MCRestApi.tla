------------------------------ MODULE MCRestApi ------------------------------
(* A small instance of the REST routes for TLC. *)
EXTENDS RestApi

MCCaller ==
  {[user |-> "bob", role |-> "admin", org |-> None],
   [user |-> "alice", role |-> "user", org |-> None],
   [user |-> "org1", role |-> "admin", org |-> "org1"]}

MCMember == [u \in User |-> IF u = "alice" THEN "org1" ELSE None]

MCAccount == [a \in {"a1", "a2"} |-> "alice"]

MCTrade ==
  [t1 |-> [user |-> "alice", account |-> "a1", instrument |-> "aapl", quantity |-> 2, currency |-> "usd"],
   t2 |-> [user |-> "alice", account |-> "a1", instrument |-> "fund", quantity |-> 1, currency |-> "sek"],
   t3 |-> [user |-> "alice", account |-> "a1", instrument |-> "aapl", quantity |-> 3, currency |-> "eur"]]

MCPrices == [aapl |-> <<5, 7>>, fund |-> <<>>]
=============================================================================
