-------------------------- MODULE MCSharedSessions --------------------------
(* Instances of SharedSessions for TLC; a liveness run uses no symmetry. *)
EXTENDS SharedSessions, TLC

=============================================================================
