----------------------------- MODULE EpisodeLoop -----------------------------
(***************************************************************************)
(* The batch loop of main_loop.py over launches, crashes and resumes: which*)
(* rollouts run, with which inherited workspace, what the run log and the  *)
(* parent pool file hold at every moment the process can die.              *)
(*                                                                         *)
(* A child is named by its source, <<task, rollout>>.  SpawnSlots shows why*)
(* one name per source rollout is enough.                                  *)
(***************************************************************************)
EXTENDS Integers, Sequences, FiniteSets, Functions

CONSTANTS
  LastTask,     \* batches are 0 .. LastTask
  N,            \* --num-rollouts: population size
  Boot,         \* a bootstrap entry of the parent pool
  Down,         \* task of a process that is not running
  MaxLaunches,  \* bound: processes started
  MaxCrashes,   \* bound: processes that die in the middle
  MaxRetries,   \* --opencode-worker-max-retries
  OpenCode,     \* rollout indices whose slots run OpenCode, the others Codex
  TornWrites    \* may a crash leave a partial last line in the run log?

ASSUME BoundsAssumption ==
  /\ LastTask \in Nat /\ N \in Nat \ {0}
  /\ MaxLaunches \in Nat /\ MaxCrashes \in Nat /\ MaxRetries \in Nat
  /\ OpenCode \subseteq 0 .. N - 1 /\ TornWrites \in BOOLEAN

Tasks == 0 .. LastTask
Rollouts == 0 .. N - 1
Child == Tasks \X Rollouts

ASSUME NamesAssumption ==
  /\ Boot \notin Child /\ Down \notin Tasks \cup {LastTask + 1}
  /\ Down \notin Seq(Child)

VARIABLES
  \* on disk
  lines,      \* the readable records of the run log, in the file's order
  torn,       \* does the run log end in a partial line?
  poolFile,   \* latest_parent_pool.json; << >> when missing or unreadable
  spawned,    \* spawned[t]: rollouts with a recorded child in t's slots file
  childDirs,  \* children whose inherited workspace directory exists
  \* in the process
  phase, task, lastTask,
  existing,   \* records accepted for resume
  pool,       \* parent_pool in memory
  run,        \* run[i]: state of rollout i of the current batch; "failed" when
              \* its future raised
  seeded,     \* seeded[i]: is i's workdir populated from its seed?
  attempts,   \* attempts[i]: worker attempts
  inherited,  \* inherited[i]: the child whose workspace i consumed, or Boot
  \* bounds and history
  launches, crashes,
  appended    \* records append_run_log has returned from

disk == <<lines, torn, poolFile, spawned, childDirs>>
rollout == <<run, seeded, attempts, inherited>>
process == <<phase, task, lastTask, existing, pool, rollout>>
vars == <<disk, process, launches, crashes, appended>>

(* A failed future's record names no parent, and that of an OpenCode slot  *)
(* lacks settings which _worker_backend_resume_compatible compares.        *)
Record == [task : Tasks, rollout : Rollouts, parent : Child \cup {Boot}, resumable : BOOLEAN]
Pools == {<< >>} \cup [1 .. N -> Child \cup {Boot}]
Phases == {"down", "ready", "running", "append", "save"}
RunStates == {"absent", "queued", "working", "finished", "failed", "recorded"}

TypeOK ==
  /\ lines \in Seq(Record) /\ existing \in SUBSET Record
  /\ torn \in BOOLEAN
  /\ poolFile \in Pools /\ pool \in Pools
  /\ spawned \in [Tasks -> SUBSET Rollouts]
  /\ childDirs \in SUBSET Child
  /\ phase \in Phases
  /\ task \in Tasks \cup {LastTask + 1, Down} /\ lastTask \in Tasks \cup {Down}
  /\ run \in [Rollouts -> RunStates]
  /\ seeded \in [Rollouts -> BOOLEAN]
  /\ attempts \in [Rollouts -> 0 .. MaxRetries + 1]
  /\ inherited \in [Rollouts -> Child \cup {Boot}]
  /\ launches \in 0 .. MaxLaunches /\ crashes \in 0 .. MaxCrashes
  /\ appended \in SUBSET Record

NoRollouts ==
  /\ run' = [i \in Rollouts |-> "absent"]
  /\ seeded' = [i \in Rollouts |-> FALSE]
  /\ attempts' = [i \in Rollouts |-> 0]
  /\ inherited' = [i \in Rollouts |-> Boot]

Stopped ==
  /\ phase' = "down" /\ task' = Down /\ lastTask' = Down
  /\ existing' = {} /\ pool' = << >>
  /\ NoRollouts

Init ==
  /\ lines = << >> /\ torn = FALSE /\ poolFile = << >>
  /\ spawned = [t \in Tasks |-> {}] /\ childDirs = {}
  /\ phase = "down" /\ task = Down /\ lastTask = Down
  /\ existing = {} /\ pool = << >>
  /\ run = [i \in Rollouts |-> "absent"]
  /\ seeded = [i \in Rollouts |-> FALSE]
  /\ attempts = [i \in Rollouts |-> 0]
  /\ inherited = [i \in Rollouts |-> Boot]
  /\ launches = 0 /\ crashes = 0 /\ appended = {}

-----------------------------------------------------------------------------
(* load_existing_run_records: what the lines say, whatever their order. *)
log == Range(lines)

(* existing_by_task *)
Recorded(recs, t) == {i \in Rollouts : \E r \in recs : r.task = t /\ r.rollout = i}
Complete(recs, t) == Recorded(recs, t) = Rollouts

(* _matches_run *)
Matching == {r \in log : r.resumable}

(* load_parent_pool, called only when the log has matching records *)
LoadedPool == IF Matching = {} THEN << >> ELSE poolFile

Parent(entries, i) == IF entries = << >> THEN Boot ELSE entries[i + 1]

(* _partial_prompt_matches: in a partial batch an OpenCode record is kept  *)
(* only when the pool still offers the prompt it ran with; children have   *)
(* different prompts.                                                      *)
ResumeRecords ==
  {r \in Matching : \/ r.rollout \notin OpenCode
                    \/ Complete(Matching, r.task)
                    \/ r.parent = Boot
                    \/ Parent(LoadedPool, r.rollout) = r.parent}

(* _next_step_task_index: first incomplete known batch, else the next one *)
NextStep(recs) ==
  LET known == {t \in Tasks : Recorded(recs, t) # {}}
      partial == {t \in known : ~Complete(recs, t)}
  IN  IF partial # {} THEN CHOOSE t \in partial : \A u \in partial : t <= u
      ELSE IF known # {} THEN (CHOOSE t \in known : \A u \in known : u <= t) + 1
      ELSE 0

(* _refill_parent_pool_with_bootstrap_slots *)
RefilledPool(t) ==
  [k \in 1 .. N |-> IF k - 1 \in spawned[t] THEN <<t, k - 1>> ELSE Boot]

-----------------------------------------------------------------------------

(* Mutation: the run log is not loaded. *)
Mut_LaunchForgetsLog(step) ==
  /\ phase = "down" /\ launches < MaxLaunches
  /\ existing' = {}
  /\ pool' = LoadedPool
  /\ task' = IF step THEN NextStep(ResumeRecords) ELSE 0
  /\ task' \in Tasks
  /\ lastTask' = IF step THEN task' ELSE LastTask
  /\ phase' = "ready"
  /\ launches' = launches + 1
  /\ UNCHANGED <<disk, rollout, crashes, appended>>

(* A process starts with --step (one batch) or --all-tasks from 0. *)
Launch(step) ==
  /\ phase = "down" /\ launches < MaxLaunches
  /\ existing' = ResumeRecords
  /\ pool' = LoadedPool
  /\ task' = IF step THEN NextStep(existing') ELSE 0
  /\ task' \in Tasks
  /\ lastTask' = IF step THEN task' ELSE LastTask
  /\ phase' = "ready"
  /\ launches' = launches + 1
  /\ UNCHANGED <<disk, rollout, crashes, appended>>

(* A batch whose rollouts are all recorded is skipped; the pool stays. *)
SkipBatch ==
  /\ phase = "ready" /\ task <= lastTask
  /\ Complete(existing, task)
  /\ task' = task + 1
  /\ UNCHANGED <<disk, phase, lastTask, existing, pool, rollout, launches, crashes, appended>>

(* Mutation: a partial batch is run again from its first rollout. *)
Mut_BeginBatchRunsAll ==
  /\ phase = "ready" /\ task <= lastTask
  /\ ~Complete(existing, task)
  /\ phase' = "running"
  /\ run' = [i \in Rollouts |-> "queued"]
  /\ seeded' = [i \in Rollouts |-> FALSE]
  /\ attempts' = [i \in Rollouts |-> 0]
  /\ inherited' = [i \in Rollouts |-> Boot]
  /\ UNCHANGED <<disk, task, lastTask, existing, pool, launches, crashes, appended>>

(* Missing rollouts are submitted to the thread pool. *)
BeginBatch ==
  /\ phase = "ready" /\ task <= lastTask
  /\ ~Complete(existing, task)
  /\ phase' = "running"
  /\ run' = [i \in Rollouts |->
               IF i \in Recorded(existing, task) THEN "absent" ELSE "queued"]
  /\ seeded' = [i \in Rollouts |-> FALSE]
  /\ attempts' = [i \in Rollouts |-> 0]
  /\ inherited' = [i \in Rollouts |-> Boot]
  /\ UNCHANGED <<disk, task, lastTask, existing, pool, launches, crashes, appended>>

(* Mutation: the inherited workspace is not consumed. *)
Mut_SeedKeepsSource(i) ==
  LET parent == Parent(pool, i) IN
  /\ phase = "running" /\ run[i] = "queued"
  /\ parent \in childDirs \cup {Boot}
  /\ run' = [run EXCEPT ![i] = "working"]
  /\ seeded' = [seeded EXCEPT ![i] = TRUE]
  /\ attempts' = [attempts EXCEPT ![i] = 1]
  /\ inherited' = [inherited EXCEPT ![i] = parent]
  /\ UNCHANGED <<lines, torn, poolFile, spawned, childDirs>>
  /\ UNCHANGED <<phase, task, lastTask, existing, pool, launches, crashes, appended>>

(* The workdir is emptied and populated: a child's workspace is copied and *)
(* its directory consumed, anything else starts from the bootstrap seed.   *)
Seed(i) ==
  LET parent == Parent(pool, i) IN
  /\ phase = "running" /\ run[i] = "queued"
  /\ parent \in childDirs \cup {Boot}
  /\ childDirs' = childDirs \ {parent}
  /\ run' = [run EXCEPT ![i] = "working"]
  /\ seeded' = [seeded EXCEPT ![i] = TRUE]
  /\ attempts' = [attempts EXCEPT ![i] = 1]
  /\ inherited' = [inherited EXCEPT ![i] = parent]
  /\ UNCHANGED <<lines, torn, poolFile, spawned>>
  /\ UNCHANGED <<phase, task, lastTask, existing, pool, launches, crashes, appended>>

(* The future fails before anything is consumed - "Spawned child workspace *)
(* is missing" when it is, or any other exception while preparing - and    *)
(* the failure is recorded like any other result.                          *)
SeedFails(i) ==
  /\ phase = "running" /\ run[i] = "queued"
  /\ run' = [run EXCEPT ![i] = "failed"]
  /\ UNCHANGED <<disk, phase, task, lastTask, existing, pool, seeded, attempts, inherited>>
  /\ UNCHANGED <<launches, crashes, appended>>

(* The one successful spawn_child call of a source rollout. *)
Spawn(i) ==
  /\ phase = "running" /\ run[i] = "working"
  /\ i \notin spawned[task]
  /\ spawned' = [spawned EXCEPT ![task] = @ \cup {i}]
  /\ childDirs' = childDirs \cup {<<task, i>>}
  /\ UNCHANGED <<lines, torn, poolFile, process, launches, crashes, appended>>

(* A retryable OpenCode worker error: the workdir is removed and made again, empty. *)
Retry(i) ==
  /\ phase = "running" /\ run[i] = "working"
  /\ i \in OpenCode /\ attempts[i] <= MaxRetries
  /\ attempts' = [attempts EXCEPT ![i] = @ + 1]
  /\ seeded' = [seeded EXCEPT ![i] = FALSE]
  /\ UNCHANGED <<disk, phase, task, lastTask, existing, pool, run, inherited>>
  /\ UNCHANGED <<launches, crashes, appended>>

(* The worker ends, well or badly, and its outcome is collected, unless    *)
(* preparing or collecting raises: what a failed future knew is lost.      *)
Finish(i) ==
  /\ phase = "running" /\ run[i] = "working"
  /\ \E end \in {"finished", "failed"} :
       /\ run' = [run EXCEPT ![i] = end]
       /\ inherited' = IF end = "failed" THEN [inherited EXCEPT ![i] = Boot] ELSE inherited
  /\ seeded' = [seeded EXCEPT ![i] = FALSE]
  /\ attempts' = [attempts EXCEPT ![i] = 0]
  /\ UNCHANGED <<disk, phase, task, lastTask, existing, pool>>
  /\ UNCHANGED <<launches, crashes, appended>>

(* Mutation: the batch waits for rollouts that do not exist or failed. *)
Mut_EndBatchNeedsAll ==
  /\ phase = "running"
  /\ \A i \in Rollouts : run[i] = "finished"
  /\ phase' = "append"
  /\ UNCHANGED <<disk, task, lastTask, existing, pool, rollout, launches, crashes, appended>>

(* All futures are done: cleanup boundary, then the results are written. *)
EndBatch ==
  /\ phase = "running"
  /\ \A i \in Rollouts : run[i] \in {"absent", "finished", "failed"}
  /\ phase' = "append"
  /\ UNCHANGED <<disk, task, lastTask, existing, pool, rollout, launches, crashes, appended>>

Unwritten == {i \in Rollouts : run[i] \in {"finished", "failed"}}

Result(i) == [task |-> task, rollout |-> i,
              parent |-> inherited[i],
              resumable |-> run[i] = "failed" => i \notin OpenCode]

(* append_run_log, in rollout order.  After a partial last line the record *)
(* continues that line and neither parses again.                           *)
AppendRecord(i) ==
  /\ phase = "append" /\ i \in Unwritten
  /\ \A j \in Unwritten : i <= j
  /\ lines' = IF torn THEN lines ELSE Append(lines, Result(i))
  /\ torn' = FALSE
  /\ appended' = appended \cup {Result(i)}
  /\ run' = [run EXCEPT ![i] = "recorded"]
  /\ UNCHANGED <<poolFile, spawned, childDirs, launches, crashes>>
  /\ UNCHANGED <<phase, task, lastTask, existing, pool, seeded, attempts, inherited>>

(* finalize_batch has run; write_text truncates the pool file first. *)
TruncatePool ==
  /\ phase = "append" /\ Unwritten = {}
  /\ poolFile' = << >>
  /\ phase' = "save"
  /\ UNCHANGED <<lines, torn, spawned, childDirs, launches, crashes, appended>>
  /\ UNCHANGED <<task, lastTask, existing, pool, rollout>>

(* Mutation: the pool file gets the pool that was current. *)
Mut_SaveOldPool ==
  /\ phase = "save"
  /\ pool' = RefilledPool(task)
  /\ poolFile' = pool
  /\ phase' = "ready" /\ task' = task + 1
  /\ NoRollouts
  /\ UNCHANGED <<lines, torn, spawned, childDirs, lastTask, existing, launches, crashes, appended>>

(* The next parent pool: spawned children, bootstrap entries elsewhere. *)
SavePool ==
  /\ phase = "save"
  /\ pool' = RefilledPool(task)
  /\ poolFile' = pool'
  /\ phase' = "ready" /\ task' = task + 1
  /\ NoRollouts
  /\ UNCHANGED <<lines, torn, spawned, childDirs, lastTask, existing, launches, crashes, appended>>

(* The process ends after its last batch, after a batch with errors under  *)
(* --fail-on-rollout-error, or at startup when one of its checks refuses.  *)
Exit ==
  /\ phase = "ready"
  /\ Stopped
  /\ UNCHANGED <<disk, launches, crashes, appended>>

(* The process dies.  While appending, the record under the pen may be cut.*)
Crash ==
  /\ phase # "down" /\ crashes < MaxCrashes
  /\ crashes' = crashes + 1
  /\ torn' \in IF TornWrites /\ phase = "append" /\ Unwritten # {} THEN {torn, TRUE} ELSE {torn}
  /\ Stopped
  /\ UNCHANGED <<lines, poolFile, spawned, childDirs, launches, appended>>

Work(i) == Seed(i) \/ SeedFails(i) \/ Spawn(i) \/ Retry(i) \/ Finish(i)

Next ==
  \/ \E step \in BOOLEAN : Launch(step)
  \/ SkipBatch \/ BeginBatch \/ EndBatch
  \/ \E i \in Rollouts : Work(i) \/ AppendRecord(i)
  \/ TruncatePool \/ SavePool \/ Exit \/ Crash

Spec == Init /\ [][Next]_vars

(* A running process keeps going: its threads run, workers end by their    *)
(* timeout, the main thread continues.  Launches and crashes owe nothing.  *)
Fairness ==
  /\ WF_vars(SkipBatch \/ BeginBatch \/ EndBatch \/ TruncatePool \/ SavePool)
  /\ WF_vars(phase = "ready" /\ task > lastTask /\ Exit)
  /\ \A i \in Rollouts : /\ WF_vars(Seed(i) \/ SeedFails(i))
                         /\ WF_vars(Finish(i))
                         /\ WF_vars(AppendRecord(i))
FairSpec == Spec /\ Fairness

-----------------------------------------------------------------------------
(* Can every record be resumed from?  When an OpenCode future has failed,  *)
(* its batch is partial again for the next process, whatever came after it.*)
Intact == Matching = log

SkipsRecorded ==
  \A i \in Rollouts : run[i] # "queued" /\ run'[i] = "queued" =>
    \A r \in appended : r.resumable => <<r.task, r.rollout>> # <<task, i>>

(* A rollout whose record was written is never run again, however often    *)
(* the runner dies and resumes (docs/episode-runner.md:55, "completed      *)
(* rollouts are skipped"), as long as no OpenCode future has failed.       *)
CompletedRolloutsSkipped == [][Intact => SkipsRecorded]_vars

(* The same whatever became of siblings: a rollout that completed is not   *)
(* run again because the future of another one failed.                     *)
SkippedDespiteFailures == [][SkipsRecorded]_vars

(* No two lines of the run log name the same inherited workspace: it is    *)
(* consumed when it is copied, stale pools find nothing, and no rollout is *)
(* written twice (docs/episode-runner.md:57).                              *)
WorkspaceInheritedOnce ==
  \A j, k \in DOMAIN lines :
    lines[j].parent = lines[k].parent => j = k \/ lines[j].parent = Boot

(* docs/episode-runner.md:52: successfully spawned children form the next  *)
(* parent pool - when a batch runs, every child of the batch before is in  *)
(* its place in the pool.                                                  *)
ChildrenFormNextPool ==
  phase = "running" /\ task > 0 =>
    \A i \in spawned[task - 1] : Parent(pool, i) = <<task - 1, i>>

(* Every child in the pool still has its workspace when its rollout is     *)
(* about to start (docs/episode-runner.md:55: a partial batch continues    *)
(* from its missing rollouts).                                             *)
PooledChildrenHaveWorkspaces ==
  \A i \in Rollouts : run[i] = "queued" => Parent(pool, i) \in childDirs \cup {Boot}

(* While no process has died and no OpenCode future has failed, lineages   *)
(* continue from batch to batch and from launch to launch: each child takes*)
(* its place in the next pool and finds its workspace.                     *)
LineagesContinue == crashes = 0 /\ Intact => ChildrenFormNextPool /\ PooledChildrenHaveWorkspaces

(* A worker starts in a populated workdir: its seed or inherited workspace *)
(* (docs/episode-runner.md:15 and 48).                                     *)
WorkersStartSeeded == \A i \in Rollouts : run[i] = "working" => seeded[i]

(* A process that starts ends, or dies, in finitely many steps: no batch   *)
(* waits for ever for a rollout.                                           *)
ProcessesEnd == phase # "down" ~> phase = "down"

Pairs == [k \in DOMAIN lines |-> <<lines[k].task, lines[k].rollout>>]

History ==
  INSTANCE EpisodeHistory WITH
    history <- IF Intact THEN Pairs ELSE Down,
    Lapsed <- Down

(* The run log is a history: batches fill in order and no rollout has two  *)
(* lines, over all launches, until a record cannot be resumed from.        *)
HistorySpec == History!Spec
=============================================================================
