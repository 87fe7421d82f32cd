----------------------------- MODULE MCWallets -----------------------------
(* Instances of Wallets for TLC. *)
EXTENDS Wallets, TLC

=============================================================================
