-------------------------- MODULE MCPaperSchedule --------------------------
(* Instances of PaperSchedule for TLC. *)
EXTENDS PaperSchedule, TLC

Symmetry == Permutations(Callers)

=============================================================================
