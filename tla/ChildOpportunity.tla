-------------------------- MODULE ChildOpportunity --------------------------
(***************************************************************************)
(* What spawn_child promises, without files, locks or processes: every     *)
(* source rollout owns one child opportunity, a call either takes it or    *)
(* not, and the answer a call gets tells which.  docs/episode-runner.md    *)
(* (lines 42-44) words the promise; SpawnSlots is the code that keeps it.  *)
(***************************************************************************)
CONSTANTS
  Rollouts,   \* source rollouts of one batch
  Calls,      \* spawn_child tool calls, each with a fresh child UUID
  Owner       \* Owner[c] is the rollout that makes call c

VARIABLES
  child,      \* child[r]: the set of calls recorded as r's child
  answer      \* answer[c]: what call c was told

vars == <<child, answer>>

Answers == {"none", "spawned", "already", "retry", "killed"}

Init ==
  /\ child = [r \in Rollouts |-> {}]
  /\ answer = [c \in Calls |-> "none"]

(* The opportunity is taken, once and for good. *)
Take(c) ==
  /\ answer[c] = "none"
  /\ child[Owner[c]] = {}
  /\ child' = [child EXCEPT ![Owner[c]] = {c}]
  /\ UNCHANGED answer

(* "spawned" is told to the call that owns the child, "already" only when  *)
(* the rollout has one; the other answers promise nothing.                 *)
Tell(c, a) ==
  /\ answer[c] = "none"
  /\ a = "spawned" => c \in child[Owner[c]]
  /\ a = "already" => child[Owner[c]] \notin {{}, {c}}
  /\ answer' = [answer EXCEPT ![c] = a]
  /\ UNCHANGED child

Next == \E c \in Calls : Take(c) \/ \E a \in Answers \ {"none"} : Tell(c, a)

Spec == Init /\ [][Next]_vars
=============================================================================
