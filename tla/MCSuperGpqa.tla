---------------------------- MODULE MCSuperGpqa ----------------------------
(* TLC instance of SuperGpqa: three problems, so that a rollout can solve  *)
(* one and then miss another while a third keeps the pool from running dry.*)
EXTENDS SuperGpqa, TLC

MCSymmetry == Permutations(Problems)
=============================================================================
