---------------------------- MODULE MCEpisodeLoop ----------------------------
(* TLC instance of EpisodeLoop.  Three batches are the fewest in which a   *)
(* pool can be stale by one generation; two rollouts let one be recorded   *)
(* while the other is missing.                                             *)
EXTENDS EpisodeLoop
=============================================================================
