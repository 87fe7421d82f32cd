---------------------------- MODULE MCSpendLedger ----------------------------
(* Instances of SpendLedger for TLC.  Reservations and refund transactions  *)
(* are interchangeable: no action orders them.                              *)
EXTENDS SpendLedger, TLC

Symmetry == Permutations(Resv) \cup Permutations(Txs)

=============================================================================
