---------------------------- MODULE ArchiveCleanup ----------------------------
(***************************************************************************)
(* The round boundary of the shared archives (main_loop.py 706-1105 and the*)
(* recovery at startup): rollouts of a batch leave the entries of the      *)
(* archives root in any state; the boundary keeps committed, self-contained*)
(* repositories at their HEAD and removes everything else, and a state file*)
(* makes sure that a boundary that began is finished before rollouts run.  *)
(*                                                                         *)
(* Mount checks, the fields of .git/config and the root's own checks are   *)
(* abstracted: an entry is self-contained or not, and any check may raise. *)
(***************************************************************************)
EXTENDS Integers, FiniteSets

CONSTANTS
  Archives,       \* names under the shared archives root
  MaxHead,        \* bound: distinguishable commits
  NoArchive,      \* the boundary stands between two entries
  ProbesMayFail,  \* may a git probe of a sound repository exit non-zero?
  MaxLaunches,    \* bound: processes started
  MaxCrashes      \* bound: processes that die in the middle

ASSUME ArchiveAssumption ==
  /\ MaxHead \in Nat /\ MaxLaunches \in Nat /\ MaxCrashes \in Nat
  /\ NoArchive \notin Archives /\ ProbesMayFail \in BOOLEAN

VARIABLES
  entry,      \* entry[a]: what stands under the name a
  stateFile,  \* status in archive_cleanup_state.json
  phase,      \* "down", "ready", "running" (rollouts), "cleaning"
  todo,       \* entries the boundary has not finished
  at, step,   \* the entry it works on, and the command it is at
  launches, crashes

boundary == <<todo, at, step>>
vars == <<entry, stateFile, phase, boundary, launches, crashes>>

(* head 0 is a repository without a commit; locked is a left index.lock. *)
Git == [kind : {"git"}, head : 0 .. MaxHead, tracked : BOOLEAN, untracked : BOOLEAN, locked : BOOLEAN]
Bare(k) == [kind |-> k, head |-> 0, tracked |-> FALSE, untracked |-> FALSE, locked |-> FALSE]
Entries == Git \cup {Bare("absent"), Bare("invalid")}

TypeOK ==
  /\ entry \in [Archives -> Entries]
  /\ stateFile \in {"none", "in_progress", "failed", "completed"}
  /\ phase \in {"down", "ready", "running", "cleaning"}
  /\ todo \in SUBSET Archives /\ at \in Archives \cup {NoArchive}
  /\ step \in {"inspect", "remove", "reset", "clean", "verify"}
  /\ launches \in 0 .. MaxLaunches /\ crashes \in 0 .. MaxCrashes

Committed(a) == entry[a].kind = "git" /\ entry[a].head # 0
Dirty(a) == entry[a].tracked \/ entry[a].untracked

Init ==
  /\ entry = [a \in Archives |-> Bare("absent")]
  /\ stateFile = "none" /\ phase = "down"
  /\ todo = {} /\ at = NoArchive /\ step = "inspect"
  /\ launches = 0 /\ crashes = 0

NoBoundary == todo' = {} /\ at' = NoArchive /\ step' = "inspect"

-----------------------------------------------------------------------------
(* The state file says so before the first entry is touched. *)
BeginBoundary ==
  /\ stateFile' = "in_progress"
  /\ phase' = "cleaning"
  /\ todo' = {a \in Archives : entry[a].kind # "absent"}
  /\ at' = NoArchive /\ step' = "inspect"

(* Mutation: a boundary that failed is not run again. *)
Mut_LaunchIgnoresFailed ==
  /\ phase = "down" /\ launches < MaxLaunches
  /\ launches' = launches + 1
  /\ IF stateFile = "in_progress"
       THEN BeginBoundary
       ELSE phase' = "ready" /\ UNCHANGED <<stateFile, boundary>>
  /\ UNCHANGED <<entry, crashes>>

(* Startup: a boundary that is not completed is run again, from the start. *)
Launch ==
  /\ phase = "down" /\ launches < MaxLaunches
  /\ launches' = launches + 1
  /\ IF stateFile \in {"in_progress", "failed"}
       THEN BeginBoundary
       ELSE phase' = "ready" /\ UNCHANGED <<stateFile, boundary>>
  /\ UNCHANGED <<entry, crashes>>

BeginBatch ==
  /\ phase = "ready"
  /\ phase' = "running"
  /\ UNCHANGED <<entry, stateFile, boundary, launches, crashes>>

(* Rollouts and their killed tools leave an entry in any state. *)
Work(a) ==
  /\ phase = "running"
  /\ \E e \in Entries : entry' = [entry EXCEPT ![a] = e]
  /\ UNCHANGED <<stateFile, phase, boundary, launches, crashes>>

EndBatch ==
  /\ phase = "running"
  /\ BeginBoundary
  /\ UNCHANGED <<entry, launches, crashes>>

(* Mutation: a left lock makes an entry unusable. *)
Mut_Inspect(a) ==
  /\ phase = "cleaning" /\ at = NoArchive /\ a \in todo
  /\ at' = a
  /\ step' = IF Committed(a) /\ ~entry[a].locked THEN "reset" ELSE "remove"
  /\ UNCHANGED <<entry, stateFile, phase, todo, launches, crashes>>

(* Self-contained, and has a HEAD commit?  A probe that exits non-zero     *)
(* reads as no.                                                            *)
Inspect(a) ==
  /\ phase = "cleaning" /\ at = NoArchive /\ a \in todo
  /\ at' = a
  /\ \/ Committed(a) /\ step' = "reset"
     \/ (~Committed(a) \/ ProbesMayFail) /\ step' = "remove"
  /\ UNCHANGED <<entry, stateFile, phase, todo, launches, crashes>>

FinishEntry == todo' = todo \ {at} /\ at' = NoArchive /\ step' = "inspect"

Remove ==
  /\ phase = "cleaning" /\ step = "remove"
  /\ entry' = [entry EXCEPT ![at] = Bare("absent")]
  /\ FinishEntry
  /\ UNCHANGED <<stateFile, phase, launches, crashes>>

(* Mutation: git clean and the verification are left out. *)
Mut_ResetFinishes ==
  /\ phase = "cleaning" /\ step = "reset" /\ ~entry[at].locked
  /\ entry' = [entry EXCEPT ![at].tracked = FALSE]
  /\ FinishEntry
  /\ UNCHANGED <<stateFile, phase, launches, crashes>>

(* git reset --hard HEAD; a left index.lock makes it fail. *)
Reset ==
  /\ phase = "cleaning" /\ step = "reset" /\ ~entry[at].locked
  /\ entry' = [entry EXCEPT ![at].tracked = FALSE]
  /\ step' = "clean"
  /\ UNCHANGED <<stateFile, phase, todo, at, launches, crashes>>

(* git clean -ffdx *)
Clean ==
  /\ phase = "cleaning" /\ step = "clean"
  /\ entry' = [entry EXCEPT ![at].untracked = FALSE]
  /\ step' = "verify"
  /\ UNCHANGED <<stateFile, phase, todo, at, launches, crashes>>

(* Mutation: every entry is looked at again. *)
Mut_VerifyRescans ==
  /\ phase = "cleaning" /\ step = "verify" /\ ~Dirty(at)
  /\ todo' = {a \in Archives : entry[a].kind # "absent"}
  /\ at' = NoArchive /\ step' = "inspect"
  /\ UNCHANGED <<entry, stateFile, phase, launches, crashes>>

(* git status is empty, HEAD is what it was. *)
Verify ==
  /\ phase = "cleaning" /\ step = "verify" /\ ~Dirty(at)
  /\ FinishEntry
  /\ UNCHANGED <<entry, stateFile, phase, launches, crashes>>

(* Any scan, inspection, removal or git command raises ArchiveCleanupError:*)
(* the state file says failed and the process ends.                        *)
BoundaryFails ==
  /\ phase = "cleaning"
  /\ stateFile' = "failed" /\ phase' = "down"
  /\ NoBoundary
  /\ UNCHANGED <<entry, launches, crashes>>

Complete ==
  /\ phase = "cleaning" /\ at = NoArchive /\ todo = {}
  /\ stateFile' = "completed" /\ phase' = "ready"
  /\ UNCHANGED <<entry, boundary, launches, crashes>>

Exit ==
  /\ phase = "ready"
  /\ phase' = "down"
  /\ UNCHANGED <<entry, stateFile, boundary, launches, crashes>>

(* The process dies; a removal under way may be half done, a git command   *)
(* under way may leave its lock.                                           *)
Crash ==
  /\ phase # "down" /\ crashes < MaxCrashes
  /\ crashes' = crashes + 1
  /\ phase' = "down" /\ NoBoundary
  /\ \/ UNCHANGED entry
     \/ step = "remove" /\ entry' = [entry EXCEPT ![at] = Bare("invalid")]
     \/ step \in {"reset", "clean"} /\ entry' = [entry EXCEPT ![at].locked = TRUE]
  /\ UNCHANGED <<stateFile, launches>>

Next ==
  \/ Launch \/ BeginBatch \/ EndBatch \/ Exit \/ Crash
  \/ Remove \/ Reset \/ Clean \/ Verify \/ BoundaryFails \/ Complete
  \/ \E a \in Archives : Work(a) \/ Inspect(a)

Spec == Init /\ [][Next]_vars

(* The boundary is one thread calling commands that return. *)
Fairness ==
  /\ WF_vars(Remove \/ Reset \/ Clean \/ Verify \/ Complete \/ \E a \in Archives : Inspect(a))
  /\ WF_vars(step = "reset" /\ entry[at].locked /\ BoundaryFails)
  /\ WF_vars(step = "verify" /\ Dirty(at) /\ BoundaryFails)
FairSpec == Spec /\ Fairness

-----------------------------------------------------------------------------
AllClean == \A a \in Archives : entry[a].kind = "absent" \/ (Committed(a) /\ ~Dirty(a))

(* A boundary is reported completed only when every entry is a committed   *)
(* repository at its HEAD, also when earlier attempts died half way.       *)
CompletedMeansClean == [][stateFile # "completed" /\ stateFile' = "completed" => AllClean']_vars

(* No rollout works in archives whose boundary has begun and not completed *)
(* ("Archive round-boundary cleanup failed closed", main_loop.py:4935).    *)
NoRolloutsDuringBoundary == phase = "running" => stateFile \in {"none", "completed"}

(* Committed archive work survives the boundary, its failures and crashes  *)
(* (docs/episode-runner.md:11, durable state can persist through a         *)
(* committed archive artifact).                                            *)
CommittedWorkKept ==
  [][phase = "cleaning" =>
       \A a \in Archives : Committed(a) => Committed(a)' /\ entry'[a].head = entry[a].head]_vars

(* Every boundary comes to an end, completed or refused. *)
BoundaryEnds == phase = "cleaning" ~> phase # "cleaning"
=============================================================================
