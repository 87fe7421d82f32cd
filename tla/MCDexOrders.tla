----------------------------- MODULE MCDexOrders -----------------------------
(* Instances of DexOrders for TLC. *)
EXTENDS DexOrders, TLC

=============================================================================
