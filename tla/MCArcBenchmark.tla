--------------------------- MODULE MCArcBenchmark ---------------------------
(* One rollout, in a batch and after every batch whose driver died; what a *)
(* sibling does to the log they share, a left command server does (Stray). *)
EXTENDS ArcBenchmark

Three == [r \in Rollouts |-> 3]
=============================================================================
