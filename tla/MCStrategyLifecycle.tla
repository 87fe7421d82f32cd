------------------------ MODULE MCStrategyLifecycle ------------------------
(* Instances of StrategyLifecycle for TLC. *)
EXTENDS StrategyLifecycle, TLC

=============================================================================
