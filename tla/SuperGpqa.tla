------------------------------ MODULE SuperGpqa ------------------------------
(***************************************************************************)
(* The SuperGPQA driver (utils/supergpqa_benchmark.py, supergpqa_submit.py)*)
(* inside the batch loop: a batch offers unsolved problems, its rollouts   *)
(* submit answers that are scored into the event log, every rollout's      *)
(* outcome goes to the run log, and only then is the queue file told which *)
(* problems are solved.  The process may die between any two of these.     *)
(*                                                                         *)
(* Records are accepted for resume as those of Codex slots are.            *)
(* Question texts, rewards below 1 and the hash that ranks a sample are    *)
(* abstracted: an answer is right or wrong, a sample is any subset.        *)
(***************************************************************************)
EXTENDS Integers, Sequences, FiniteSets

CONSTANTS
  Problems,        \* problem_uid of the rows that pass the difficulty filter
  NoItem,          \* no problem: a rollout that submitted nothing
  PoolSize,        \* --problem-pool-size
  LastBatch,       \* batches are 0 .. LastBatch
  N,               \* rollouts of a batch
  MaxSubmissions,  \* bound: submissions of one rollout
  MaxLaunches,     \* bound: processes started
  MaxCrashes       \* bound: processes that die in the middle

ASSUME SuperGpqaAssumption ==
  /\ NoItem \notin Problems
  /\ PoolSize \in Nat \ {0} /\ LastBatch \in Nat /\ N \in Nat \ {0}
  /\ MaxSubmissions \in Nat /\ MaxLaunches \in Nat /\ MaxCrashes \in Nat

Batches == 0 .. LastBatch
Rollouts == 0 .. N - 1

VARIABLES
  \* on disk
  retired,   \* solved_problem_uids of the queue file
  log,       \* run records: what each recorded rollout submitted last and solved
  \* in the process
  phase, batch,
  history,   \* historical_run_records, as loaded when the process started
  pool,      \* problems of this batch's shared pool copy
  scored,    \* scored[i]: solution_scored events of rollout i, oldest first
  result,    \* result[i]: what the future of rollout i returned
  \* bounds
  launches, crashes

vars == <<retired, log, phase, batch, history, pool, scored, result, launches, crashes>>
process == <<phase, batch, history, pool, scored, result>>

Event == [problem : Problems, correct : BOOLEAN]

(* A collected outcome: item is outcome.item_id, solved its solved ids. *)
Outcome == [item : Problems \cup {NoItem}, solved : SUBSET Problems]
Nothing == [item |-> NoItem, solved |-> {}]

(* "absent" rollouts were recorded by an earlier process. *)
Results == {"absent", "active"} \X {Nothing} \cup {"scored"} \X Outcome \cup {"failed"} \X {Nothing}

Record == [batch : Batches, rollout : Rollouts, item : Problems \cup {NoItem}, solved : SUBSET Problems]

TypeOK ==
  /\ retired \in SUBSET Problems
  /\ log \in SUBSET Record /\ history \in SUBSET Record
  /\ phase \in {"down", "ready", "running", "append"}
  /\ batch \in 0 .. LastBatch + 1
  /\ pool \in SUBSET Problems /\ Cardinality(pool) <= PoolSize
  /\ \A i \in Rollouts : scored[i] \in Seq(Event) /\ Len(scored[i]) <= MaxSubmissions
  /\ result \in [Rollouts -> Results]
  /\ launches \in 0 .. MaxLaunches /\ crashes \in 0 .. MaxCrashes

Cleared ==
  /\ pool' = {}
  /\ scored' = [i \in Rollouts |-> << >>]
  /\ result' = [i \in Rollouts |-> <<"absent", Nothing>>]

Stopped == phase' = "down" /\ batch' = 0 /\ history' = {} /\ Cleared

Init ==
  /\ retired = {} /\ log = {}
  /\ phase = "down" /\ batch = 0 /\ history = {} /\ pool = {}
  /\ scored = [i \in Rollouts |-> << >>]
  /\ result = [i \in Rollouts |-> <<"absent", Nothing>>]
  /\ launches = 0 /\ crashes = 0

-----------------------------------------------------------------------------
Recorded(b) == {r.rollout : r \in {s \in log : s.batch = b}}

(* Completed batches are skipped, the first incomplete one is resumed. *)
NextBatch ==
  CHOOSE b \in 0 .. LastBatch + 1 :
    /\ b \in Batches => Recorded(b) # Rollouts
    /\ \A c \in Batches : c < b => Recorded(c) = Rollouts

(* Mutation: the run records are not consulted. *)
Mut_SolvedByQueueOnly == retired

(* _load_state: the queue file and, from the records this process loaded   *)
(* at startup, the last item and every solved item of a solving rollout.   *)
LoadedSolved ==
  retired \cup {r.item : r \in {s \in history : s.solved # {}}}
          \cup UNION {r.solved : r \in history}

(* deterministic_problem_pool_sample *)
Samples(candidates) ==
  IF Cardinality(candidates) <= PoolSize
    THEN {candidates}
    ELSE {S \in SUBSET candidates : Cardinality(S) = PoolSize}

(* collect_outcome over the events of the rollout's instance *)
Collected(events) ==
  IF events = << >> THEN Nothing
  ELSE [item   |-> events[Len(events)].problem,
        solved |-> {events[k].problem : k \in {j \in DOMAIN events : events[j].correct}}]

-----------------------------------------------------------------------------
Launch ==
  /\ phase = "down" /\ launches < MaxLaunches
  /\ NextBatch \in Batches
  /\ phase' = "ready" /\ batch' = NextBatch
  /\ history' = log
  /\ launches' = launches + 1
  /\ UNCHANGED <<retired, log, pool, scored, result, crashes>>

(* prepare_rollout, for the rollouts of the batch that have no record yet. *)
Prepared == [i \in Rollouts |-> <<IF i \in Recorded(batch) THEN "absent" ELSE "active", Nothing>>]

(* prepare_batch rewrites the queue file, then samples the pool that every *)
(* missing rollout of the batch gets.  Bootstrap rollouts have fresh       *)
(* instances; a child whose first attempt died cannot start again (its     *)
(* workspace is consumed), so no event of an older process is collected.   *)
PrepareBatch ==
  /\ phase = "ready" /\ batch \in Batches
  /\ retired' = LoadedSolved
  /\ \E sample \in Samples(Problems \ LoadedSolved) \ {{}} : pool' = sample
  /\ result' = Prepared
  /\ phase' = "running"
  /\ UNCHANGED <<log, batch, history, scored, launches, crashes>>

(* "No unsolved SuperGPQA problems remain" ends the process. *)
PoolExhausted ==
  /\ phase = "ready" /\ batch \in Batches
  /\ Problems \ LoadedSolved = {}
  /\ retired' = LoadedSolved
  /\ Stopped
  /\ UNCHANGED <<log, launches, crashes>>

(* submit_solution, by the rollout's MCP server or handler. *)
Submit(i, problem, correct) ==
  /\ phase = "running" /\ result[i][1] = "active"
  /\ problem \in pool
  /\ Len(scored[i]) < MaxSubmissions
  /\ scored' = [scored EXCEPT ![i] = Append(@, [problem |-> problem, correct |-> correct])]
  /\ UNCHANGED <<retired, log, phase, batch, history, pool, result, launches, crashes>>

(* The rollout's future returns its outcome; when it raises instead, the   *)
(* result has a record without a problem and no benchmark outcome.         *)
Finish(i) ==
  /\ phase = "running" /\ result[i][1] = "active"
  /\ \E r \in {<<"scored", Collected(scored[i])>>, <<"failed", Nothing>>} :
       result' = [result EXCEPT ![i] = r]
  /\ UNCHANGED <<retired, log, phase, batch, history, pool, scored, launches, crashes>>

EndBatch ==
  /\ phase = "running"
  /\ \A i \in Rollouts : result[i][1] # "active"
  /\ phase' = "append"
  /\ UNCHANGED <<retired, log, batch, history, pool, scored, result, launches, crashes>>

Unwritten == {i \in Rollouts : result[i][1] # "absent"} \ Recorded(batch)

AppendRecord(i) ==
  /\ phase = "append" /\ i \in Unwritten
  /\ \A j \in Unwritten : i <= j
  /\ log' = log \cup {[batch |-> batch, rollout |-> i,
                       item |-> result[i][2].item, solved |-> result[i][2].solved]}
  /\ UNCHANGED <<retired, process, launches, crashes>>

(* finalize_batch: the last item of every rollout that solved something *)
SolvedItems == {result[i][2].item : i \in {j \in Rollouts : result[j][2].solved # {}}}

(* Mutation: the queue file is told before all records are written. *)
Mut_FinalizeFirst ==
  /\ phase = "append"
  /\ retired' = LoadedSolved \cup SolvedItems
  /\ phase' = IF Unwritten = {} THEN "ready" ELSE "append"
  /\ batch' = IF Unwritten = {} THEN batch + 1 ELSE batch
  /\ IF Unwritten = {} THEN Cleared ELSE UNCHANGED <<pool, scored, result>>
  /\ UNCHANGED <<log, history, launches, crashes>>

FinalizeBatch ==
  /\ phase = "append" /\ Unwritten = {}
  /\ retired' = LoadedSolved \cup SolvedItems
  /\ phase' = "ready" /\ batch' = batch + 1
  /\ Cleared
  /\ UNCHANGED <<log, history, launches, crashes>>

(* After the last batch, after --step's batch, or with failed rollouts. *)
Exit ==
  /\ phase = "ready"
  /\ Stopped
  /\ UNCHANGED <<retired, log, launches, crashes>>

Crash ==
  /\ phase # "down" /\ crashes < MaxCrashes
  /\ crashes' = crashes + 1
  /\ Stopped
  /\ UNCHANGED <<retired, log, launches>>

Next ==
  \/ Launch \/ PrepareBatch \/ PoolExhausted \/ EndBatch \/ FinalizeBatch \/ Exit \/ Crash
  \/ \E i \in Rollouts :
       \/ \E problem \in Problems, correct \in BOOLEAN : Submit(i, problem, correct)
       \/ Finish(i)
       \/ AppendRecord(i)

Spec == Init /\ [][Next]_vars

-----------------------------------------------------------------------------
(* A problem that a recorded rollout solved with its last submission is    *)
(* never offered to a batch again, although the process may die after the  *)
(* record and before the queue file is told (supergpqa_benchmark.py:217).  *)
LatestSolvedNeverOffered ==
  phase = "running" =>
    \A r \in log : r.item \in r.solved /\ (r.batch < batch \/ r \in history) => r.item \notin pool

(* Nothing is retired without a durable reason: some run record names the  *)
(* problem as its solving rollout's last or solved item, at every moment   *)
(* the process can die (docs/episode-runner.md:56, solved UIDs are marked  *)
(* only after the batch finishes).                                         *)
RetirementRecorded ==
  \A p \in retired : \E r \in log : r.solved # {} /\ p \in r.solved \cup {r.item}

(* docs/episode-runner.md:68: any problem solved by at least one rollout   *)
(* of a batch is removed from the pool copies of later batches.            *)
SolvedLeavesPool ==
  phase = "running" => \A r \in log : r.batch < batch => r.solved \cap pool = {}
=============================================================================
