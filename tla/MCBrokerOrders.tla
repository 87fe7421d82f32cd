--------------------------- MODULE MCBrokerOrders ---------------------------
(* Instances of BrokerOrders for TLC.  Nothing orders order ids or          *)
(* positions.                                                                *)
EXTENDS BrokerOrders, TLC

Symmetry == Permutations(Orders) \cup Permutations(Positions)

=============================================================================
