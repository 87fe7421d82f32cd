----------------------- MODULE MCMarketplaceApproval -----------------------
(* Instances of MarketplaceApproval for TLC. *)
EXTENDS MarketplaceApproval, TLC

Symmetry == Permutations(Submitters) \cup Permutations(Auths)

=============================================================================
