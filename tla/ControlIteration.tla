--------------------------- MODULE ControlIteration ---------------------------
(***************************************************************************)
(* The launcher of the two Codex controls (control/codex-replacement and   *)
(* control/codex-additive, whose control.py differ only in how instructions*)
(* are delivered): explicitly launched iterations of one turn per slot,    *)
(* hook counters that decide which sessions survive, the study state, the  *)
(* manifests, and what a dead launcher or a damaged layout leaves behind.  *)
(*                                                                         *)
(* Codex is external: a turn may write anywhere the sandbox allows, compact*)
(* its context, and end with any exit status and event stream.             *)
(***************************************************************************)
EXTENDS Integers, Sequences, FiniteSets

CONSTANTS
  N,             \* ROLLOUT_COUNT
  Sessions,      \* session ids that Codex may report
  NoSession,     \* null: a fresh slot, or a stream without one session id
  LastIteration, \* bound: iterations launched
  MaxCount,      \* bound: compactions counted in a slot
  MaxDeaths      \* bound: launchers that die

ASSUME BoundsAssumption ==
  /\ N \in Nat \ {0} /\ LastIteration \in Nat \ {0}
  /\ MaxCount \in Nat /\ MaxDeaths \in Nat

ASSUME NamesAssumption == NoSession \notin Sessions

Slots == 0 .. N - 1
Iterations == 1 .. LastIteration

VARIABLES
  \* study state file, written atomically
  status,     \* "absent": no runtime directory, "partial": one without state
  completed, next, seen, counts,
  \* other files
  counter,    \* counter[i]: durable compaction counter of the hook
  manifest,   \* manifest[k]: evidence of iteration k; "none": directory only
  outputs,    \* does a private seed_output hold anything?
  shared,     \* does the shared workspace hold more than the archive?
  archive,    \* [born |-> has HEAD a commit?, work |-> state of the checkout]
              \* "dirty": changes, or an operation that cleanup can quit,
              \* "stuck": a lock file or another operation
  drift,      \* "detected": verify_layout raises a ControlError, "missing":
              \* a path is gone and it raises FileNotFoundError
  \* launcher and its processes
  phase, launched, launchError, turn,
  result,     \* result[i]: the session id of a turn that ended well
  \* history and bounds
  orphans,    \* slots with a turn whose launcher died
  actual,     \* slots whose current turn did compact its context
  started,    \* <<iteration, slot>> of every turn
  broken,     \* iterations with a turn that failed or lost its launcher
  account,    \* sessions and compactions of the completed iterations
  deaths

study == <<status, completed, next, seen, counts>>
world == <<counter, outputs, shared, archive, drift>>
process == <<phase, launched, launchError, turn, result>>
history == <<orphans, actual, started, broken, account, deaths>>
vars == <<study, world, manifest, process, history>>

Ids == Sessions \cup {NoSession}
Works == {"clean", "dirty", "stuck"}
Current == completed + 1
Entry == [session : [Slots -> Sessions], compacted : SUBSET Slots]

TypeOK ==
  /\ status \in {"absent", "partial", "initialized", "ready", "blocked_incomplete"}
  /\ completed \in 0 .. LastIteration
  /\ next \in [Slots -> Ids] /\ seen \in SUBSET Sessions
  /\ counts \in [Slots -> 0 .. MaxCount] /\ counter \in [Slots -> 0 .. MaxCount]
  /\ manifest \in [Iterations -> {"absent", "none", "running", "complete", "incomplete"}]
  /\ outputs \in BOOLEAN /\ shared \in BOOLEAN
  /\ archive \in [born : BOOLEAN, work : Works]
  /\ drift \in {"no", "detected", "missing"}
  /\ phase \in {"idle", "check", "manifest", "launch", "collect", "clean", "sweep",
                "advance", "block", "close"}
  /\ launched \in 0 .. N /\ launchError \in BOOLEAN
  /\ turn \in [Slots -> {"none", "running", "ended"}]
  /\ result \in [Slots -> Ids]
  /\ orphans \in SUBSET Slots /\ actual \in SUBSET Slots
  /\ started \in SUBSET (Iterations \X Slots) /\ broken \in SUBSET Iterations
  /\ account \in Seq(Entry)
  /\ deaths \in 0 .. MaxDeaths

NoBatch ==
  /\ launched' = 0 /\ launchError' = FALSE
  /\ turn' = [i \in Slots |-> "none"] /\ result' = [i \in Slots |-> NoSession]

Init ==
  /\ status = "absent" /\ completed = 0
  /\ next = [i \in Slots |-> NoSession] /\ seen = {}
  /\ counts = [i \in Slots |-> 0] /\ counter = [i \in Slots |-> 0]
  /\ manifest = [k \in Iterations |-> "absent"]
  /\ outputs = FALSE /\ shared = FALSE
  /\ archive = [born |-> FALSE, work |-> "clean"] /\ drift = "no"
  /\ phase = "idle" /\ launched = 0 /\ launchError = FALSE
  /\ turn = [i \in Slots |-> "none"] /\ result = [i \in Slots |-> NoSession]
  /\ orphans = {} /\ actual = {} /\ started = {} /\ broken = {}
  /\ account = << >> /\ deaths = 0

-----------------------------------------------------------------------------
(* init: refused when runtime/ exists.  The state file is written last but *)
(* one, so an error or a death on the way leaves a runtime without state.  *)
Initialize ==
  /\ phase = "idle" /\ status = "absent"
  /\ status' \in {"initialized", "partial"}
  /\ shared' = TRUE
  /\ UNCHANGED <<completed, next, seen, counts, counter, outputs, archive, drift>>
  /\ UNCHANGED <<manifest, process, history>>

(* A launch before init: the lock file makes runtime/, then no state loads.*)
StartUninitialized ==
  /\ phase = "idle" /\ status = "absent"
  /\ status' = "partial"
  /\ UNCHANGED <<completed, next, seen, counts, world, manifest, process, history>>

Survivors == {i \in Slots : next[i] # NoSession}

(* The checks run_iteration makes on the slots it read. *)
Selectable ==
  /\ \A i, j \in Survivors : next[i] = next[j] => i = j
  /\ \A i \in Survivors : next[i] \in seen

Fresh == archive = [born |-> FALSE, work |-> "clean"]

(* Mutation: a blocked study may start. *)
Mut_StartBlocked(resume) ==
  /\ phase = "idle" /\ status \in {"initialized", "ready", "blocked_incomplete"}
  /\ completed < LastIteration
  /\ Selectable
  /\ IF resume THEN completed >= 1 ELSE completed = 0 /\ Survivors = {} /\ Fresh
  /\ outputs' = FALSE /\ shared' = TRUE
  /\ phase' = "check"
  /\ UNCHANGED <<study, counter, archive, drift, manifest>>
  /\ UNCHANGED <<launched, launchError, turn, result, history>>

(* run-one-iteration or resume-next-iteration gets the launcher lock and   *)
(* accepts the state: the private outputs are emptied, BENCHMARK.md is     *)
(* written again.                                                          *)
Start(resume) ==
  /\ phase = "idle" /\ status \in {"initialized", "ready"}
  /\ completed < LastIteration
  /\ Selectable
  /\ IF resume THEN completed >= 1 ELSE completed = 0 /\ Survivors = {} /\ Fresh
  /\ outputs' = FALSE /\ shared' = TRUE
  /\ phase' = "check"
  /\ UNCHANGED <<study, counter, archive, drift, manifest>>
  /\ UNCHANGED <<launched, launchError, turn, result, history>>

(* Layout, counters, archive and evidence directory are as they should be; *)
(* the directory of this iteration is made.                                *)
Runnable ==
  /\ drift = "no" /\ counter = counts /\ archive.work = "clean"
  /\ manifest[Current] = "absent"

(* Mutation: evidence of an earlier launch is no obstacle. *)
Mut_AcceptAgain ==
  /\ phase = "check"
  /\ drift = "no" /\ counter = counts /\ archive.work = "clean"
  /\ manifest' = [manifest EXCEPT ![Current] = "none"]
  /\ phase' = "manifest"
  /\ UNCHANGED <<study, world, launched, launchError, turn, result, history>>

Accept ==
  /\ phase = "check" /\ Runnable
  /\ manifest' = [manifest EXCEPT ![Current] = "none"]
  /\ phase' = "manifest"
  /\ UNCHANGED <<study, world, launched, launchError, turn, result, history>>

(* One of these checks raises, or the preflight does. *)
Refuse ==
  /\ phase = "check"
  /\ phase' = "idle"
  /\ UNCHANGED <<study, world, manifest, launched, launchError, turn, result, history>>

WriteManifest ==
  /\ phase = "manifest"
  /\ manifest' = [manifest EXCEPT ![Current] = "running"]
  /\ phase' = "launch"
  /\ UNCHANGED <<study, world, launched, launchError, turn, result, history>>

(* Popen for the next slot: exec resume for a survivor, exec otherwise. *)
LaunchSlot ==
  /\ phase = "launch"
  /\ turn' = [turn EXCEPT ![launched] = "running"]
  /\ launched' = launched + 1
  /\ phase' = IF launched' = N THEN "collect" ELSE "launch"
  /\ started' = started \cup {<<Current, launched>>}
  /\ UNCHANGED <<study, world, manifest, launchError, result>>
  /\ UNCHANGED <<orphans, actual, broken, account, deaths>>

(* A launch raises: the running processes get SIGTERM and are waited for. *)
LaunchFails ==
  /\ phase = "launch"
  /\ launchError' = TRUE
  /\ phase' = "collect"
  /\ broken' = broken \cup {Current}
  /\ UNCHANGED <<study, world, manifest, launched, turn, result>>
  /\ UNCHANGED <<orphans, actual, started, account, deaths>>

-----------------------------------------------------------------------------
Alive(i) == turn[i] = "running" \/ i \in orphans

(* A turn writes its private output, the shared archive, or damages the layout. *)
Write(i) ==
  /\ Alive(i)
  /\ outputs' = TRUE /\ shared' = TRUE
  /\ \/ \E born \in {archive.born, TRUE}, work \in Works :
          archive' = [born |-> born, work |-> work]
        /\ UNCHANGED drift
     \/ \E damage \in {"detected", "missing"} : drift' = damage
        /\ drift = "no" /\ UNCHANGED archive
  /\ UNCHANGED <<study, counter, manifest, process, history>>

(* Codex compacts a context and runs the PostCompact hook, which counts it *)
(* under the counter's lock, or fails and says nothing.                    *)
Compact(i) ==
  /\ Alive(i) /\ counter[i] < MaxCount
  /\ actual' = actual \cup {i}
  /\ counter' \in {counter, [counter EXCEPT ![i] = @ + 1]}
  /\ UNCHANGED <<study, outputs, shared, archive, drift, manifest, process>>
  /\ UNCHANGED <<orphans, started, broken, account, deaths>>

(* The process of slot i exits; process_result reads its stream.  Without  *)
(* exit status 0, one session id, one completed turn, or with an error, an *)
(* invalid line or a forbidden tool, the turn has failed.                  *)
EndTurn(i) ==
  /\ turn[i] = "running"
  /\ turn' = [turn EXCEPT ![i] = "ended"]
  /\ \E session \in Ids :
       /\ result' = [result EXCEPT ![i] = session]
       /\ broken' = IF session = NoSession THEN broken \cup {Current} ELSE broken
  /\ UNCHANGED <<study, world, manifest, phase, launched, launchError>>
  /\ UNCHANGED <<orphans, actual, started, account, deaths>>

OrphanEnds(i) ==
  /\ i \in orphans
  /\ orphans' = orphans \ {i}
  /\ UNCHANGED <<study, world, manifest, process, actual, started, broken, account, deaths>>

-----------------------------------------------------------------------------
Collected == phase = "collect" /\ \A i \in Slots : turn[i] # "running"

(* The turn of slot i ended well, in the session it was to resume or in one*)
(* that no fresh turn has had before.                                      *)
SessionAccepted(i) ==
  /\ result[i] # NoSession
  /\ IF next[i] # NoSession THEN result[i] = next[i] ELSE result[i] \notin seen

(* Mutation: only turns that ended are judged. *)
Mut_Natural ==
  /\ ~launchError
  /\ \A i \in Slots : counter[i] >= counts[i]
  /\ \A i \in Slots : turn[i] = "ended" /\ result[i] # NoSession => SessionAccepted(i)
  /\ drift = "no"

(* No finalization failure. *)
Natural ==
  /\ ~launchError
  /\ \A i \in Slots : counter[i] >= counts[i]
  /\ \A i \in Slots : turn[i] = "ended" /\ SessionAccepted(i)
  /\ \A i, j \in Slots : result[i] = result[j] => i = j
  /\ drift = "no"

(* All processes have ended: results, counters and layout are judged. *)
Gather ==
  /\ Collected /\ drift # "missing"
  /\ phase' = IF Natural THEN "clean" ELSE "block"
  /\ UNCHANGED <<study, world, manifest, launched, launchError, turn, result, history>>

(* verify_layout raises FileNotFoundError: only ControlError is caught, so *)
(* the launcher ends with a traceback and neither file is written.         *)
GatherRaises ==
  /\ Collected /\ drift = "missing"
  /\ phase' = "idle"
  /\ NoBatch
  /\ actual' = {} /\ broken' = broken \cup {Current}
  /\ UNCHANGED <<study, world, manifest, orphans, started, account, deaths>>

(* clean_shared_workspace: the archive goes back to HEAD, or to an empty   *)
(* index when there is none; a known operation is quit first.              *)
CleanArchive ==
  /\ phase = "clean" /\ archive.work \in {"clean", "dirty"}
  /\ archive' = [archive EXCEPT !.work = "clean"]
  /\ phase' = "sweep"
  /\ UNCHANGED <<study, counter, outputs, shared, drift, manifest>>
  /\ UNCHANGED <<launched, launchError, turn, result, history>>

(* Everything but the archive leaves the shared workspace. *)
Sweep ==
  /\ phase = "sweep"
  /\ shared' = FALSE
  /\ phase' = "advance"
  /\ UNCHANGED <<study, counter, outputs, archive, drift, manifest>>
  /\ UNCHANGED <<launched, launchError, turn, result, history>>

(* A lock, an operation it does not know, or any command or removal that   *)
(* fails on the way: the error is kept and the batch becomes incomplete.   *)
CleanupFails ==
  /\ phase \in {"clean", "sweep"}
  /\ phase' = "block"
  /\ UNCHANGED <<study, world, manifest, launched, launchError, turn, result, history>>

(* The state is written before the manifest, whatever the outcome. *)
Block ==
  /\ phase = "block"
  /\ status' = "blocked_incomplete"
  /\ counts' = counter
  /\ phase' = "close"
  /\ UNCHANGED <<completed, next, seen, world, manifest>>
  /\ UNCHANGED <<launched, launchError, turn, result, history>>

Compacted == {i \in Slots : counter[i] - counts[i] >= 1}

(* Mutation: the state file keeps the old counters. *)
Mut_AdvanceKeepsCounts ==
  /\ phase = "advance"
  /\ status' = "ready" /\ completed' = Current
  /\ next' = [i \in Slots |-> IF i \in Compacted THEN result[i] ELSE NoSession]
  /\ seen' = seen \cup {result[i] : i \in Slots \ Survivors}
  /\ account' = Append(account, [session |-> result, compacted |-> actual])
  /\ phase' = "close"
  /\ UNCHANGED <<counts, world, manifest, launched, launchError, turn, result>>
  /\ UNCHANGED <<orphans, actual, started, broken, deaths>>

(* Mutation: any compaction so far makes a survivor. *)
Mut_AdvanceByCount ==
  /\ phase = "advance"
  /\ status' = "ready" /\ completed' = Current
  /\ next' = [i \in Slots |-> IF counter[i] >= 1 THEN result[i] ELSE NoSession]
  /\ seen' = seen \cup {result[i] : i \in Slots \ Survivors}
  /\ counts' = counter
  /\ account' = Append(account, [session |-> result, compacted |-> actual])
  /\ phase' = "close"
  /\ UNCHANGED <<world, manifest, launched, launchError, turn, result>>
  /\ UNCHANGED <<orphans, actual, started, broken, deaths>>

(* Compacted sessions keep their slots, the other slots become fresh. *)
Advance ==
  /\ phase = "advance"
  /\ status' = "ready" /\ completed' = Current
  /\ next' = [i \in Slots |-> IF i \in Compacted THEN result[i] ELSE NoSession]
  /\ seen' = seen \cup {result[i] : i \in Slots \ Survivors}
  /\ counts' = counter
  /\ account' = Append(account, [session |-> result, compacted |-> actual])
  /\ phase' = "close"
  /\ UNCHANGED <<world, manifest, launched, launchError, turn, result>>
  /\ UNCHANGED <<orphans, actual, started, broken, deaths>>

CloseManifest ==
  /\ phase = "close"
  /\ manifest' = IF status = "ready" THEN [manifest EXCEPT ![completed] = "complete"]
                 ELSE [manifest EXCEPT ![Current] = "incomplete"]
  /\ phase' = "idle"
  /\ NoBatch
  /\ actual' = {}
  /\ UNCHANGED <<study, world, orphans, started, broken, account, deaths>>

(* The launcher dies or one of its own writes fails.  Codex processes have *)
(* sessions of their own and go on; a git command may leave its lock.      *)
Die ==
  /\ phase # "idle" /\ deaths < MaxDeaths
  /\ deaths' = deaths + 1
  /\ orphans' = orphans \cup {i \in Slots : turn[i] = "running"}
  /\ broken' = IF phase \in {"check", "close"} THEN broken ELSE broken \cup {Current}
  /\ archive' \in IF phase = "clean" THEN {archive, [archive EXCEPT !.work = "stuck"]}
                  ELSE {archive}
  /\ actual' = {}
  /\ phase' = "idle"
  /\ NoBatch
  /\ UNCHANGED <<study, counter, outputs, shared, drift, manifest, started, account>>

Next ==
  \/ Initialize \/ StartUninitialized \/ \E resume \in BOOLEAN : Start(resume)
  \/ Accept \/ Refuse \/ WriteManifest \/ LaunchSlot \/ LaunchFails
  \/ \E i \in Slots : Write(i) \/ Compact(i) \/ EndTurn(i) \/ OrphanEnds(i)
  \/ Gather \/ GatherRaises \/ CleanArchive \/ Sweep \/ CleanupFails
  \/ Block \/ Advance \/ CloseManifest \/ Die

Spec == Init /\ [][Next]_vars

-----------------------------------------------------------------------------
(* A slot gets one turn per iteration: no retry, whatever became of the    *)
(* launcher that started it (control/codex-replacement/README.md:51-53, "no ...*)
(* retry, or replacement within the current iteration").                   *)
OneTurnPerSlot ==
  [][\A i \in Slots : turn[i] # "running" /\ turn'[i] = "running" =>
       <<Current, i>> \notin started]_vars

(* Turns whose launcher died never share the workspace with a later batch. *)
BatchesDoNotOverlap == orphans # {} => phase \in {"idle", "check"}

(* An iteration in which a turn failed, or which lost its launcher, is     *)
(* never counted as completed (control/codex-replacement/README.md:61-63,  *)
(* "without retry or silent state advance").                               *)
NoSilentAdvance == \A k \in broken : completed < k

(* Over the completed iterations a session has one slot and an unbroken run*)
(* of turns in it, each of which but the last compacted its context.       *)
SessionsAreRuns ==
  \A j, k \in 1 .. Len(account), h, i \in Slots :
    j < k /\ account[j].session[h] = account[k].session[i] =>
      /\ h = i
      /\ \A m \in j .. k - 1 : /\ account[m].session[i] = account[k].session[i]
                               /\ i \in account[m].compacted

(* While no launcher died and no path was lost, a study that says it can   *)
(* run passes the next launch's checks of slots, counters and archive.     *)
ReadyIsRunnable ==
  /\ phase = "idle" /\ deaths = 0 /\ drift # "missing"
  /\ status \in {"initialized", "ready"} /\ completed < LastIteration
  => Selectable /\ Runnable

(* A blocked study is left as it was found: archive, shared files and      *)
(* private outputs stay for inspection (control.py:2467, "no relaunch and  *)
(* no cleanup were performed").                                            *)
BlockedEvidenceKept ==
  [][status = "blocked_incomplete" => UNCHANGED <<archive, shared, outputs>>]_vars

(* A manifest never claims more than the state: complete and incomplete    *)
(* are written after the state they speak of.                              *)
ManifestFollowsState ==
  \A k \in Iterations :
    /\ manifest[k] = "complete" => k <= completed
    /\ manifest[k] = "incomplete" => status = "blocked_incomplete" /\ k = Current

(* control/codex-replacement/README.md:61-63: any integrity error leaves   *)
(* the batch incomplete - a launcher that ends by itself leaves no         *)
(* iteration open.                                                         *)
EndedIterationsAreClosed ==
  phase = "idle" /\ deaths = 0 => \A k \in Iterations : manifest[k] \notin {"none", "running"}
=============================================================================
