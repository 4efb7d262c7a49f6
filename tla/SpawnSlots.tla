----------------------------- MODULE SpawnSlots -----------------------------
(***************************************************************************)
(* The spawn_child transaction (utils/child_spawn.py, child_tool_handler.py*)
(* and the bridge that runs the handler as a subprocess).                  *)
(*                                                                         *)
(* Every call is a handler process.  It looks for an existing slot twice   *)
(* without the lock, copies the source workspace into a slot directory of  *)
(* its own, validates the copy, and only then takes the file lock, looks   *)
(* again, writes the manifest and replaces the slots file.  The source     *)
(* rollout goes on editing its workspace meanwhile, writes and removals may*)
(* fail, the lock file may not open, and the bridge kills a handler that   *)
(* takes too long.                                                         *)
(***************************************************************************)
EXTENDS FiniteSets

CONSTANTS
  Rollouts,     \* source rollouts of one batch
  Calls,        \* spawn_child calls; a call also names its fresh child UUID
  Owner,        \* Owner[c] is the rollout that makes call c
  NoCall,       \* nobody holds the lock
  ReadMayFail   \* whether reading the slots file may raise OSError

ASSUME OwnerAssumption == Owner \in [Calls -> Rollouts]
ASSUME NoCallAssumption == NoCall \notin Calls
ASSUME ReadAssumption == ReadMayFail \in BOOLEAN

VARIABLES
  workspace,  \* workspace[r]: has the source directory a good AGENTS.md?
  slots,      \* the slots file: recorded children, one record each
  dir,        \* dir[c]: the slot directory call c creates
  lock,       \* holder of the flock on the slots file
  pc,         \* pc[c]: where the handler of call c stands
  seen,       \* seen[c]: slots list read under the lock
  outcome,    \* outcome[c]: slot_result, while it is being logged
  answer,     \* answer[c]: what the tool call returned
  fault       \* history: what kept call c from removing its directory

vars == <<workspace, slots, dir, lock, pc, seen, outcome, answer, fault>>

Slot(c) == [source |-> Owner[c], child |-> c]
Slots == {Slot(c) : c \in Calls}

DirStates == {"absent", "made", "copied", "copied_bad", "complete"}
Places == {"idle", "resolve", "recheck", "copy", "revalidate", "lock",
           "manifest", "publish", "log", "done"}
Answers == {"none", "spawned", "already", "retry", "killed"}
Locked == {"manifest", "publish"}
Faults == {"none", "lockfile", "rmtree"}

TypeOK ==
  /\ workspace \in [Rollouts -> BOOLEAN]
  /\ slots \in SUBSET Slots
  /\ dir \in [Calls -> DirStates]
  /\ lock \in Calls \cup {NoCall}
  /\ pc \in [Calls -> Places]
  /\ seen \in [Calls -> SUBSET Slots]
  /\ outcome \in [Calls -> {"none", "spawned", "already"}]
  /\ answer \in [Calls -> Answers]
  /\ fault \in [Calls -> Faults]

Init ==
  /\ workspace \in [Rollouts -> BOOLEAN]
  /\ slots = {}
  /\ dir = [c \in Calls |-> "absent"]
  /\ lock = NoCall
  /\ pc = [c \in Calls |-> "idle"]
  /\ seen = [c \in Calls |-> {}]
  /\ outcome = [c \in Calls |-> "none"]
  /\ answer = [c \in Calls |-> "none"]
  /\ fault = [c \in Calls |-> "none"]

-----------------------------------------------------------------------------
(* _read_json_file: an OSError reads as an empty object. *)
Readable == {slots} \cup (IF ReadMayFail THEN {{}} ELSE {})

(* _slot_for_source_rollout *)
HasSlot(list, r) == \E s \in list : s.source = r

Goto(c, place) == pc' = [pc EXCEPT ![c] = place]

Reply(c, a) ==
  /\ Goto(c, "done")
  /\ answer' = [answer EXCEPT ![c] = a]

SetDir(c, state) == dir' = [dir EXCEPT ![c] = state]

(* The result of _record_spawned_child goes to the progress log first. *)
LogOutcome(c, o) ==
  /\ Goto(c, "log")
  /\ outcome' = [outcome EXCEPT ![c] = o]

(* rmtree(ignore_errors=True): what cannot be removed stays, half emptied. *)
Remove(c) ==
  \/ SetDir(c, "absent") /\ UNCHANGED fault
  \/ SetDir(c, "made") /\ fault' = [fault EXCEPT ![c] = "rmtree"]

(* The failure paths inside the two "try" blocks remove the directory.     *)
Fail(c) ==
  /\ Remove(c)
  /\ Reply(c, "retry")

-----------------------------------------------------------------------------
(* First look at the slots file, before the arguments are parsed. *)
Precheck(c) ==
  /\ pc[c] = "idle"
  /\ \E list \in Readable :
       IF HasSlot(list, Owner[c])
         THEN Reply(c, "already")
         ELSE Goto(c, "resolve") /\ UNCHANGED answer
  /\ UNCHANGED <<workspace, slots, dir, lock, seen, outcome, fault>>

(* _resolve_spawn_workspace_dir finds a directory with a good AGENTS.md. *)
GoodSource(c) == workspace[Owner[c]]

(* Arguments and source workspace are checked; either may be wrong. *)
Resolve(c) ==
  /\ pc[c] = "resolve"
  /\ \/ GoodSource(c) /\ Goto(c, "recheck") /\ UNCHANGED answer
     \/ Reply(c, "retry")
  /\ UNCHANGED <<workspace, slots, dir, lock, seen, outcome, fault>>

(* Second unlocked look, then the slot directory is made. *)
Recheck(c) ==
  /\ pc[c] = "recheck"
  /\ \E list \in Readable :
       IF HasSlot(list, Owner[c])
         THEN LogOutcome(c, "already") /\ UNCHANGED dir
         ELSE Goto(c, "copy") /\ SetDir(c, "made") /\ UNCHANGED outcome
  /\ UNCHANGED <<workspace, slots, lock, seen, answer, fault>>

(* copy_seed_workspace copies what the rollout has there now. *)
Copy(c) ==
  /\ pc[c] = "copy"
  /\ \/ /\ SetDir(c, IF GoodSource(c) THEN "copied" ELSE "copied_bad")
        /\ Goto(c, "revalidate")
        /\ UNCHANGED <<answer, fault>>
     \/ Fail(c)
  /\ UNCHANGED <<workspace, slots, lock, seen, outcome>>

(* Mutation: the copy is not validated. *)
Mut_Revalidate(c) ==
  /\ pc[c] = "revalidate"
  /\ Goto(c, "lock")
  /\ UNCHANGED <<workspace, slots, dir, lock, seen, outcome, answer, fault>>

(* The copied AGENTS.md is checked again, on the copy. *)
Revalidate(c) ==
  /\ pc[c] = "revalidate"
  /\ IF dir[c] = "copied"
       THEN Goto(c, "lock") /\ UNCHANGED <<dir, answer, fault>>
       ELSE Fail(c)
  /\ UNCHANGED <<workspace, slots, lock, seen, outcome>>

(* Mutation: no second look under the lock. *)
Mut_EnterTrustsPrecheck(c) ==
  /\ pc[c] = "lock"
  /\ lock = NoCall
  /\ seen' = [seen EXCEPT ![c] = slots]
  /\ lock' = c
  /\ Goto(c, "manifest")
  /\ UNCHANGED <<workspace, slots, dir, outcome, answer, fault>>

(* Mutation: the directory of a refused child stays. *)
Mut_EnterKeepsDir(c) ==
  /\ pc[c] = "lock"
  /\ lock = NoCall
  /\ \E list \in Readable :
       /\ seen' = [seen EXCEPT ![c] = list]
       /\ IF HasSlot(list, Owner[c])
            THEN LogOutcome(c, "already") /\ UNCHANGED <<lock, dir>>
            ELSE lock' = c /\ Goto(c, "manifest") /\ UNCHANGED <<outcome, dir>>
  /\ UNCHANGED <<workspace, slots, answer, fault>>

(* Opening the lock file, flock or the read under it may raise.  They stand*)
(* outside both "try" blocks: the call is told to retry and its directory  *)
(* stays where it is.                                                      *)
LockFails(c) ==
  /\ pc[c] = "lock"
  /\ Reply(c, "retry")
  /\ fault' = [fault EXCEPT ![c] = "lockfile"]
  /\ UNCHANGED <<workspace, slots, dir, lock, seen, outcome>>

(* flock(LOCK_EX), then the look that counts. *)
Enter(c) ==
  /\ pc[c] = "lock"
  /\ lock = NoCall
  /\ \E list \in Readable :
       /\ seen' = [seen EXCEPT ![c] = list]
       /\ IF HasSlot(list, Owner[c])
            THEN LogOutcome(c, "already") /\ Remove(c) /\ UNCHANGED lock
            ELSE lock' = c /\ Goto(c, "manifest") /\ UNCHANGED <<outcome, dir, fault>>
  /\ UNCHANGED <<workspace, slots, answer>>

(* The manifest inside the slot directory is written before the record. *)
WriteManifest(c) ==
  /\ pc[c] = "manifest"
  /\ \/ /\ SetDir(c, IF dir[c] = "copied" THEN "complete" ELSE dir[c])
        /\ Goto(c, "publish")
        /\ UNCHANGED <<lock, answer, fault>>
     \/ Fail(c) /\ lock' = NoCall
  /\ UNCHANGED <<workspace, slots, seen, outcome>>

(* os.replace of the slots file is the commit point; leaving the "with"    *)
(* block releases the lock.                                                *)
Publish(c) ==
  /\ pc[c] = "publish"
  /\ \/ slots' = seen[c] \cup {Slot(c)} /\ LogOutcome(c, "spawned") /\ UNCHANGED <<dir, answer, fault>>
     \/ Fail(c) /\ UNCHANGED <<slots, outcome>>
  /\ lock' = NoCall
  /\ UNCHANGED <<workspace, seen>>

(* _progress after the record is inside the same "try": when it raises, the*)
(* call reports a retryable failure whatever was recorded.                 *)
Log(c) ==
  /\ pc[c] = "log"
  /\ Reply(c, outcome[c]) \/ Reply(c, "retry")
  /\ UNCHANGED <<workspace, slots, dir, lock, seen, outcome, fault>>

(* Mutation: the lock outlives its holder. *)
Mut_KillKeepsLock(c) ==
  /\ pc[c] \notin {"idle", "done"}
  /\ Reply(c, "killed")
  /\ UNCHANGED <<workspace, slots, dir, lock, seen, outcome, fault>>

(* runHandler's timer: SIGKILL, a retryable timeout failure; the kernel    *)
(* drops the dead process's lock and nothing removes its directory.        *)
Kill(c) ==
  /\ pc[c] \notin {"idle", "done"}
  /\ Reply(c, "killed")
  /\ lock' = IF lock = c THEN NoCall ELSE lock
  /\ UNCHANGED <<workspace, slots, dir, seen, outcome, fault>>

(* The rollout keeps working in its own directory. *)
EditWorkspace(r) ==
  /\ workspace' = [workspace EXCEPT ![r] = ~@]
  /\ UNCHANGED <<slots, dir, lock, pc, seen, outcome, answer, fault>>

Step(c) ==
  \/ Precheck(c) \/ Resolve(c) \/ Recheck(c) \/ Copy(c) \/ Revalidate(c)
  \/ Enter(c) \/ WriteManifest(c) \/ Publish(c) \/ Log(c)

Next ==
  \/ \E c \in Calls : Step(c) \/ LockFails(c) \/ Kill(c)
  \/ \E r \in Rollouts : EditWorkspace(r)

Spec == Init /\ [][Next]_vars

(* A handler process that can run does; nobody has to call the tool.       *)
Fairness == \A c \in Calls : WF_vars(pc[c] # "idle" /\ Step(c))
FairSpec == Spec /\ Fairness

-----------------------------------------------------------------------------
(* However calls of the same rollout interleave, the slots file never names*)
(* two children of one source rollout (docs/episode-runner.md:42).         *)
OneChildPerRollout == \A s, t \in slots : s.source = t.source => s = t

(* A recorded child has a slot directory that was copied, found to hold a  *)
(* good AGENTS.md and given its manifest, although the parent may edit the *)
(* source at any moment (docs/episode-runner.md:43).                       *)
RecordedSlotComplete == \A s \in slots : dir[s.child] = "complete"

(* The answer agrees with the file: "spawned" goes only to the recorded    *)
(* child's own call, "already" only when another call's child is recorded. *)
AnswerMatchesSlots ==
  \A c \in Calls :
    /\ answer[c] = "spawned" => Slot(c) \in slots
    /\ answer[c] = "already" => \E d \in Calls \ {c} : Slot(d) \in slots /\ Owner[d] = Owner[c]

(* Which calls leave a directory behind that no record names: the bridge   *)
(* killed the handler, the lock file failed it (child_spawn.py:244-250, the*)
(* one failure nothing cleans up after), or its rmtree could not.  A       *)
(* refused child, a bad copy and a failed write leave none.                *)
DirectoriesAccounted ==
  \A c \in Calls :
    dir[c] # "absent" =>
      Slot(c) \in slots \/ pc[c] # "done" \/ answer[c] = "killed" \/ fault[c] # "none"

(* A later call, whatever becomes of it, leaves the recorded children of   *)
(* every rollout alone (docs/episode-runner.md:44, "do not affect peers"). *)
RecordedChildrenKept == [][slots \subseteq slots']_vars

(* Every call that starts is answered: no handler waits for the lock for   *)
(* ever, also when the holder is killed.                                   *)
StartedCallsAnswered == \A c \in Calls : pc[c] # "idle" ~> answer[c] # "none"

(* tests/test_benchmark_driver.py:113: failures do not consume the child   *)
(* opportunity - a call that was told it may retry has recorded nothing.   *)
FailuresDoNotConsume ==
  \A c \in Calls : answer[c] \in {"retry", "killed"} => Slot(c) \notin slots

-----------------------------------------------------------------------------
ChildOf == [r \in Rollouts |-> {c \in Calls : Owner[c] = r /\ Slot(c) \in slots}]

Opportunity == INSTANCE ChildOpportunity WITH child <- ChildOf, answer <- answer

(* The transaction implements the abstract child opportunity. *)
OpportunitySpec == Opportunity!Spec
=============================================================================
