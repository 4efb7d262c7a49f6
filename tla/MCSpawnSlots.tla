---------------------------- MODULE MCSpawnSlots ----------------------------
(* TLC instance of SpawnSlots: two rollouts, the first with the competing  *)
(* calls, so that calls of one rollout and calls of peers both interleave. *)
EXTENDS SpawnSlots, TLC

CONSTANTS r1, r2, c1, c2, c3

MCOwner == (c1 :> r1) @@ (c2 :> r1) @@ (c3 :> r2)
=============================================================================
