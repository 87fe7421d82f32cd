------------------------- MODULE MCPaymentOperations -------------------------
(* Instances of PaymentOperations for TLC.  Ids are handed out in no order   *)
(* the code looks at, so they may be permuted; liveness runs use no symmetry. *)
EXTENDS PaymentOperations, TLC

Symmetry == Permutations(Resv) \cup Permutations(Op)
              \cup Permutations(Callers) \cup Permutations(Workers)

=============================================================================
