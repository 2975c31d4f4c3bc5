----------------------------- MODULE MCPayments -----------------------------
(***************************************************************************)
(* Instances of Payments for TLC: a payment for a checkout of two orders,  *)
(* one for a single order, each at any of the gateways, and an order paid  *)
(* on delivery.                                                            *)
(***************************************************************************)
EXTENDS Payments

MCOrder == {"books", "shirts", "lamp", "cup"}
MCGatewayOrder == MCOrder \ {"cup"}
MCIntentOf ==
  [o \in Order |-> CASE o \in {"books", "shirts"} -> "two" [] o = "lamp" -> "one" [] o = "cup" -> Cash]

=============================================================================
