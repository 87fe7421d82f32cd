-------------------------- MODULE MCOAuthConnection --------------------------
(* Instances of OAuthConnection for TLC.  Nothing orders processes, grants,  *)
(* tokens or issuers.                                                        *)
EXTENDS OAuthConnection, TLC

Symmetry == Permutations(Procs) \cup Permutations(Grants)
              \cup Permutations(Tokens) \cup Permutations(Issuers)

=============================================================================
