--------------------------- MODULE EpisodeHistory ---------------------------
(***************************************************************************)
(* What the run log promises over all launches and crashes of the episode  *)
(* runner: every rollout of every batch is recorded at most once, and a    *)
(* batch gets its first record only when the batches before it are full.   *)
(* The promise lapses with the first record that resuming cannot accept.   *)
(***************************************************************************)
EXTENDS Naturals, Sequences, Functions

CONSTANTS Tasks, Rollouts, Lapsed

VARIABLE history   \* the recorded <<task, rollout>> pairs in order, or Lapsed

Init == history = << >>

Full(t) == \A i \in Rollouts : <<t, i>> \in Range(history)

Record(t, i) ==
  /\ history # Lapsed
  /\ <<t, i>> \notin Range(history)
  /\ \A u \in Tasks : u < t => Full(u)
  /\ history' = Append(history, <<t, i>>)

Lapse == history' = Lapsed

Next == Lapse \/ \E t \in Tasks, i \in Rollouts : Record(t, i)

Spec == Init /\ [][Next]_history
=============================================================================
