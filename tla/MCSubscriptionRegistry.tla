----------------------- MODULE MCSubscriptionRegistry -----------------------
(* A small instance of the subscription registry for TLC. *)
EXTENDS SubscriptionRegistry, TLC
=============================================================================
