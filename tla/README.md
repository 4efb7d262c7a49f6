# A verification project for metalanguage

The repository runs populations of language-model workers ("rollouts") in
batches.  Between batches, children spawned by rollouts form the next parent
pool; directory guidance, shared archives and benchmark feedback are the
channels through which anything survives.  This project models the code that
keeps those promises, checks the models with TLC and proves the most important
invariants with TLAPS.

Run a model with `tlc -workers 2 -config X.cfg MCModule` and a proof with
`tlapm Module_proofs.tla`, both in this directory.

## The system

| Part | State it keeps | Operations | Talks to |
|---|---|---|---|
| Episode loop (`main_loop.py` 2205-2600, 3600-5010) | run log (JSONL), `latest_parent_pool.json`, inherited workspaces, in-memory pool and futures | launch/resume, skip or begin a batch, seed a workdir, run and retry workers, append records, save the pool | everything below |
| Child spawning (`utils/child_spawn.py`, `child_tool_handler.py`, `workers/opencode/spawn_bridge.ts`, `crates/metalanguage-codex-runner/src/main.rs`) | per-batch slots file with a lock file, slot directories, manifests | `spawn_child`: look, copy, validate, lock, look again, record, answer; the bridge kills slow handlers | the loop reads the slots file after the batch |
| Archive round boundary (`main_loop.py` 706-1105, 3400-3440, 4900-4940) | `archive_cleanup_state.json`, the archive repositories | inspect, remove, `git reset`, `git clean`, verify; recovery at startup | runs between two batches |
| SuperGPQA benchmark (`utils/supergpqa_benchmark.py`, `utils/supergpqa_submit.py`) | queue file of solved problems, event log, pool copies | prepare a batch's pool, submit, collect an outcome, finalize | driver calls of the loop; tool server of a rollout |
| Directory guidance decay (`workers/opencode/directory_decay.ts`) | per session: active guides, requests shown, tool admissions | project a request, acknowledge it, tool before/after | callbacks of the OpenCode host |
| Cumulative guide gate (`workers/opencode/spawn_bridge.ts` 57-230, `utils/directory_agents_hook.py`) | claim ledger, callback queue, latch, guides managed for a session | find the directories of a call, claim, activate, project a request, deny | hook subprocesses |
| Directory watcher (`utils/directory_agents.py`) | files it created, thread | start, reconcile, stop | rollout directories |
| ARC-AGI benchmark (`utils/arc_agi_*.py`) | session state file, observation directories, events, win ledger, scorecards | prepare, reset/act, render, save, publish, collect, finalize, close | game server, event log |
| Runtime identities and rollout assignment (`main_loop.py` 536-693, 2467-2592) | claim files of a runtime root, persisted assignments | claim, verify, assign | startup and batch start |
| OpenCode supervisor (`utils/opencode_runner.py`, `worker.ts`, `protocol.ts`) | worker process, its output, process groups it announced, event stream | start, poll, deadline, terminate, drain, sweep; the worker's own steps | called by a rollout's thread |
| Codex runner (`utils/codex_runner.py`, `crates/metalanguage-codex-runner`) | one turn's event loop | run a turn, answer tool calls, time out | called by a rollout's thread |
| OpenRouter worker (`main_loop.py` 1545-2156) | conversation, turn counter | call the model, run tools, retry | called by a rollout's thread |
| Control experiments (`control/*/control.py`, `hooks/iteration_boundary.py`) | study state, manifests, one compaction counter per slot, the shared workspace with its archive | init, run one iteration, resume the next; the hook counts compactions | Codex processes, which run the hook |
| Event log, open-ended benchmark, rewards, datasets, setup | files | append, compare, download | - |

What is hard here:

* **Concurrency.** Rollouts are threads that start worker processes; a worker's
  tool calls are subprocesses of their own, several at a time.  They meet at the
  slots file, the event log and the guide ledger.
* **Death and resume.** A run takes hours and is resumed from files: the run
  log, the pool file, the slots files, the queue file and the cleanup state.
  They are written one after the other and a process can die between any two.
* **Timeouts.** Handlers, workers and git commands are killed at deadlines,
  possibly after they did their work.
* **Order of callbacks.** The OpenCode plugin learns of requests, their
  acknowledgements and tool calls in any order, from programs old and new.
* **Partial knowledge.** The guide hook reads a shell line without running it;
  the supervisor knows of a worker only what it printed; the benchmark knows of
  a game only what was published.

What each part has to guarantee:

* one child per source rollout, complete before it is visible, honestly answered;
* recorded rollouts are not run again, a batch is recorded in order, a workspace
  is inherited once, children form the next pool;
* no rollout works between the beginning and the completion of a boundary, and a
  boundary keeps committed work and nothing else;
* a solved problem leaves the pool, and only because of a durable record;
* a tool runs only after the guides of its directories were shown, and a guide
  is shown for exactly `K` acknowledged steps after a use (decay mode) or stays
  where it was put (cumulative mode);
* the hook reports the directories that a line entered, and no others;
* a win that a rollout was told of counts, and an action that was executed and
  not published is noticed;
* a rollout attempt has the outcome of its session, and leaves no process;
* a control iteration gives each slot one turn, counts only whole batches, and
  keeps a session exactly as long as every turn of it compacts.

`PROJECT.json` lists the hazards line by line with the properties that watch
them.

## The models

Every module names code identifiers in its comments; `PROJECT.json` "map" gives
the lines of each definition.

### SpawnSlots, ChildOpportunity

One handler process per call `c`; `pc[c]` is the place between two effects that
others can see.  `Precheck` and `Recheck` are the two unlocked looks, `Copy` and
`Revalidate` the slot directory, `Enter` takes the `flock` and reads again,
`WriteManifest` and `Publish` are the two writes under the lock, `Log` is the
progress line after it, still inside the handler's `try`.  `Kill` is the
bridge's timer, `EditWorkspace` the parent that goes on working.  Each write may
fail, and so may each removal of a slot directory (`Remove`).  `LockFails` is the
failure that stands outside both `try` blocks (`child_spawn.py:244-250`: opening the
lock file, `flock`, the read): the call is told to retry and nobody removes its
directory.  `fault` remembers those two causes.  With `ReadMayFail` a read of the slots file may raise `OSError`, which the
code turns into an empty object.

`ChildOpportunity` is what the tool promises to a rollout: at most one child, an
answer per call, and "already" or "spawned" only with a child.  `SpawnSlots`
implements it with `child[r]` read from the slots file (`OpportunitySpec`).

### EpisodeLoop, EpisodeHistory

Disk state (`log`, `torn`, `poolFile`, `spawned`, `childDirs`) survives `Crash`,
process state does not.  `Launch` loads the records it accepts and the pool and
chooses the batch (`--step` or `--all-tasks`); `SkipBatch`, `BeginBatch`,
`EndBatch` are the loop, `Seed`, `SeedFails`, `Spawn`, `Retry`, `Finish` a
rollout's thread, `AppendRecord`, `TruncatePool`, `SavePool` the writes at the
end of a batch in the order of the code.  `OpenCode` names the slots whose
workers are retried; the others run Codex.  A rollout may end as a failed future:
its record has no parent, and in an OpenCode slot it lacks the settings that
`_worker_backend_resume_compatible` compares (`resumable` is FALSE), so a later
process does not accept it.  `Intact` says that the log
holds no such record; the properties about a resumed batch are stated for those
histories, and `EpisodeHistory` has a `Lapsed` state for the rest, which the
*violated* runs show.  A child is named by its source, which
`SpawnSlots` justifies: there is one per source rollout.  `EpisodeHistory` is
the promise of the run log: batches fill in order, each record once.  Both the log
(`lines`) and the history are sequences and the refinement mapping (`Pairs`) keeps
every line, so that a second record of a rollout is a step of its own, which the
history does not have.

### ArchiveCleanup

`entry[a]` is absent, not a usable repository, or a repository with a HEAD,
tracked and untracked dirt and perhaps a left `index.lock`.  Rollouts leave any
entry (`Work`).  `BeginBoundary` is written to the state file before anything is
touched; the boundary works entry by entry (`Inspect`, then `Remove`, or
`Reset`, `Clean`, `Verify`), may raise at any point (`BoundaryFails`), may die
with a half removed entry or a left lock (`Crash`), and `Launch` repeats one
that did not complete.

### SuperGpqa

The driver inside the loop: `PrepareBatch` rewrites the queue file and samples
the pool, `Submit` appends a scored event, `Finish` collects the outcome or
fails, `AppendRecord` writes the run record, `FinalizeBatch` tells the queue
file.  `history` is what a process loaded when it started; that it is not
refreshed matters, because `_load_state` derives solved problems from it.

### DirectoryDecay

All callbacks of a session share one promise queue, so each callback is one
action: `Project` (a request is built: expired guides leave, the rest is shown),
`Acknowledge` (response metadata arrives, the step counts), `Before` and `After`
(a tool's access), `AccessPending`, `CallbackFails` and `Overflow`.  `epochs` is
the list of requests with the entries each one showed and the tools it admitted.
`uses` and `ran` are history variables.

### ControlIteration

One launcher at a time, as the lock file of the code enforces, with `phase` the
place in `run_iteration`: `Start` (the state is accepted, the private outputs are
emptied), `Accept` or `Refuse` (layout, counters, archive, evidence directory,
preflight), `WriteManifest`, `LaunchSlot` and `LaunchFails`, `Gather` (all
processes have ended and are judged), `CleanArchive`, `Sweep`, `CleanupFails`,
then `Advance` or `Block` (the state file) and `CloseManifest`.  A turn writes
anywhere the sandbox allows (`Write`), compacts with or without its hook counting
it (`Compact`) and ends with any event stream (`EndTurn`).  `Die` ends the
launcher only: Codex processes have sessions of their own and go on as
`orphans`.  `actual`, `started`, `broken` and `account` are history variables.
The two controls share the launcher; the model is mapped to
`control/codex-replacement`.

### GuideGate

The cumulative mode, from the plugin's side (`spawn_bridge.ts`) and the hook's
(`directory_agents_hook.py`).  Callbacks of a session wait in one `queue`, whose
head is served: `Deny` when the session is latched, else `Claim` (the hook
process takes the ledger's lock, appends what nobody was shown and syncs) and
`AnswerBefore` or `AnswerAfter` (the plugin activates what was claimed, which
latches the session).  A hook may die or be killed on either side of its claim
(`HookFails`); the call is then admitted and the claimed guides are `lost`.
`Project` is the request transform: guides that are new get the last message as
their anchor, the latch opens.  A request is a set of placed items, the messages
and the groups of guides behind their anchors; `Precedes` is its order.
`RetryRequest` builds the request again,
`RetryWorker` begins a new session over the old ledger.  A guide is a directory
and a revision, so `Edit` makes an old guide unseen again.

### ShellScopes

Two machines read the same line, one simple command per step: the hook's
analysis (`Analyse`, one turn of the loop of `_literal_shell_scopes`, with
`Follow` for a command that must run and `Doubt` for one that may) and the shell
(`Execute`).  Statuses of programs, dynamic targets, `popd +n` and commands with
dynamic names do anything in the shell.

The names are a constant, `Walk` for logical paths and `Real` for what is behind a
link; which of the paths exist is not.  `tree` is what exists now, and a program
of the line (`Plain`: `mkdir`, `rm`, `mv` and `ln` among them) or a `git` may turn
it into any of `Trees`.  `sight` is the one tree the hook looks at: for
`PreToolUse` the tree before the line (`BeforeSpec`), for the post-tool fallback
(`docs/directory-guidance-decay.md:45-48`,
`tests/test_directory_agents_hook.py:237-243`) the tree after it; `Spec` leaves
open which, since parallel calls change the tree too.  `cd` follows logical paths
and falls back to the physical one, `cd -P` and `git -C` go physically, git operand
by operand, so that the operands before a missing one are used all the same.  The
shell's directory may itself be removed (`Adrift`).

A hook that sees one tree cannot be right about names that mean something else
when the shell comes to them.  `strayed` becomes true at the first such name; the
properties speak of the line up to there.  `EveryTransitionWasMade` and
`EveryGitScopeWasUsed`, without that reservation, do not hold of the code; how to
see it is under "Where the code and its documents differ".

### ArcBenchmark

One command of a rollout passes through `asked`, `answered`, `rendered`, `saved`
and `published`, which are the server's execution (external, `Execute`), the
observation directory, `arc_session.json`, and the event; every step has its
failure and the command server can die at each (`Stop`).

The event log is one file for all rollouts.  An append may leave nothing, a piece
of its line, the line without its end or the whole (`Amounts`, also when it
raises); `tail` is what the file ends with, and what is appended to an incomplete
end makes one unreadable line with it (`Append`, `Spoiled`), whoever appends.
`cut` remembers that this happened during the batch.  A command server that has
outlived a dead driver does the same to the next batch (`Stray`).  The log, the
session file and the scorecard may each be unreadable when the outcome is
collected (`Collect`).

`Finalize` and `Cleanup` are the driver's end of a batch; `server` is the official
server's process, which a failed `terminate` or a dead driver leaves running
(`arc_agi_server.py:174` starts it without a die-with-parent).  `told`, `lost` and
`won` are history variables: `lost[r]` counts executed actions that have no
readable event when the outcome is collected.  A win is a `state`; scores, levels,
frames and seeds are left out.

### OpenCodeRunner

`supervisor` is the place in the loop of `run_opencode_rollout`: `SendRequest`
(before the deadline counts), `Poll` (has the worker exited), `Clock` (the
deadline), `Select`, then `Fill`, `Join` and `ReadLine` (one line, reading a chunk
ahead into `buffer` and waiting for the rest of a line), then `Terminate`, `Grace`,
`Drain` (the rest of the output, line by line, so that an interrupt can leave lines
unhandled) and `Sweep`.  `worker` is the step of `worker.ts`, with the processes it
spawns, announces and stops; it may stall in any step (no fairness) or be killed.
`stream` is its event subscription: events of a gap are lost, and after
`MaxReconnects` drops over the whole rollout the queue is closed.  The server and
its session are external.

A line with text of the session may be longer than the pipe takes at once
(`BeginLine` puts a `"piece"` there, `writing` until the rest follows) and may hold
a character that `str.splitlines` takes for a line end and `JSON.stringify` leaves
raw (`raw`).  `readline` joins the pieces and ignores such characters; what is read
at the worker's exit is split by `splitlines`, so that a raw line, or a piece
without its rest, is malformed output (`Handle`, `Drain`).  Lines with a process
id and error lines are taken to be short and plain: `worker.ts` writes them from
numbers and sanitized text, and a pipe takes a short write whole.  The worker is
the only holder of its standard output, and bun writes out what was emitted before
it exits.

### Properties stated and not run

Each module has its type invariant `TypeOK` (`GateTypeOK`, `RunnerTypeOK`); it
holds in the instances below and is proved for all of them.  `RecordedChildrenKept`,
`AnswerMatchesSlots`, `OneTurnPerSlot` and `ManifestFollowsState` are proved and
not among the runs' properties.  Eight more are stated because the code should
keep them and does not; how to see it is under "Where the code and its documents
differ".

## What the runs show

| Run | Bounds | Shows |
|---|---|---|
| `MCSpawnSlots` | 2 rollouts, 3 calls, two of them of one rollout | one complete child per rollout, no leftovers, answers for started calls, the refinement |
| `MCEpisodeLoop` | 3 batches of one Codex and one OpenCode slot, 2 launches, 1 death, 1 retry, any future may fail | resume, order, inheritance, lineages, termination, the refinement |
| `MCEpisodeLoop_lostchildren` | 2 batches, 1 death | *violated*: a death before the pool file is written loses a generation |
| `MCArchiveCleanup` | 2 archives, 2 commits, 3 launches, 2 deaths | safety and termination of the boundary |
| `MCSuperGpqa` | 3 problems, pool of 2, 2 batches of 2, 2 submissions each, 3 launches, 1 death | retirement and offering |
| `MCDirectoryDecay` | 2 paths, 2 revisions, 1 call id, K = 2, 4 requests, 2 activations, counters to 5 | the lease: seen before use, one revision, exact lifetime |
| `MCControlIteration` | 2 slots, 3 sessions, 3 iterations, counters to 2, 1 dead launcher | no overlap, honest survivors, no silent advance, blocked studies untouched |
| `MCGuideGate` | 2 directories, 2 calls, 7 messages, 2 worker attempts | guides before tools, the ledger's accounts, requests that only grow, calls that run at last |
| `MCShellScopes` | 4 paths (one a link), 5 names, 2 trees, 5 `git -C` operand lists, lines of 4 commands | reports are sound, and complete while nothing was in doubt, up to the first name that leads elsewhere than the hook sees |
| `MCShellScopes_exit` | lines of 3 commands, `exit` among them | *violated*: reports go on behind the end of the shell |
| `MCArcBenchmark` | 1 rollout, 2 games, 3 commands, 1 batch and any number that a death or a failure cuts off | wins count, missing actions are noticed and nothing else is, one game per rollout, batches end |
| `MCOpenCodeRunner` | 1 sandboxed attempt, 1 reconnect | the session's outcome, no process left, the supervisor returns but for two waits without a deadline |

Why the bounds are enough to be interesting:

* Two calls of one rollout are needed to race for the slot, the third belongs to
  a peer, so that overwriting a peer's record is visible.  A fourth adds only
  another racer.
* Three batches let a lineage be inherited, consumed and inherited again; one
  death with two launches puts the resumed process at every place of the loop;
  one slot of each backend makes a batch that mixes records with and without
  resume settings.
* Two archives separate "this entry is finished" from "the boundary is finished";
  two commits tell a kept HEAD from another.
* A pool smaller than the problems, with two batches, makes sampling and
  exhaustion happen; two submissions let a rollout solve one problem and miss
  another.
* With `K = 2` a guide is shown, shown again, and expires within four requests;
  two entries allow a new revision of the same path or two paths at once.  The
  counter limit 5 is reached, so the overflow branch is part of the run.
* Two calls in any scopes make the queue hold a call that was admitted, or asked
  for, before another call's guides were activated.  A denied call must be asked
  for again, so both calls need several requests; seven messages are more than
  any behaviour needs and are never reached.  A guide can vanish and another
  appear; with a second revision of one guide the safety properties were checked
  as well (3.4 million states, too many for the liveness property).
* Four commands let a line push, go elsewhere, doubt and return, or make a
  directory, enter it, remove it and look at a status; a link whose target has
  another parent separates logical from real paths; the second tree lacks the
  link's target, so that both a directory and a link to one come and go.
* Three commands are an opening `RESET`, an action and a `RESET` or an action
  behind a win or a loss; two games let the first `RESET` fail half way and the
  next one name the other game.  Only a completed batch counts, so a death is
  followed by another batch, which begins with whatever end the log has.  What
  rollouts do to each other they do through the log, and there a left command
  server (`Stray`) breaks the rollout's lines as a sibling does; that a rollout
  counts its own lines only is proved for any number of rollouts.
* One reconnect makes both the gap and the closed stream happen.  The attempt is
  sandboxed (`SandboxedSpec`): a sandbox only adds behaviours, the bridge and
  orphans that die, which nothing forces.
* Three iterations are the fewest in which a session can survive, end and be
  reported again; two slots let it come back in the other one; the third session
  is for a fresh slot beside two used ones.  Counters to 2 let a slot compact in
  two iterations, or twice in one.

All counters are bounded in guards (`launches`, `crashes`, `attempts`,
`deaths`, `MaxEntries`, `MaxRequests`, `MaxSubmissions`, `MaxHead`, `MaxCount`,
`LastIteration`, `MaxMessages`, `MaxAttempts`, `MaxCommands`, `MaxBatches`,
`MaxReconnects`).  `CHECK_DEADLOCK` is FALSE everywhere because the programs end: calls are answered, launches run out,
a poisoned session stays poisoned.  Symmetry over model values is used in the
runs without liveness properties only.

### Fairness

* `SpawnSlots`: a handler that was started and can take a step does.  It is an
  operating-system process with one thread; the lock is held only by a handler
  that can run, and a dead holder's lock is released by the kernel.  Nobody is
  obliged to call the tool.
* `EpisodeLoop`: the main thread and each rollout's thread go on; workers end
  because the supervisor kills them at their deadline.  Launches, spawns,
  retries, and deaths are owed by nobody, and a process need not exit early.
* `ArchiveCleanup`: the boundary is one thread whose commands return; a reset
  that meets a lock and a verification that finds dirt raise.
* `GuideGate`: callbacks and hooks are served (a hook has a timeout), tools end,
  the host projects; `Respond` is strongly fair because a request may fail and be
  repeated, which OpenCode bounds.  Nobody has to edit, fail or retry.
* `ArcBenchmark`: workers end by their timeout, except in the two waits named
  under `OpenCodeRunner`, and the driver takes its steps.  No command has to
  succeed.
* `OpenCodeRunner`: the supervisor runs and its deadline passes.  Nothing is
  assumed of the worker, the server or the session: they may stall for ever.
  `readline` (`opencode_runner.py:1237`) and the write of a request larger than the
  pipe (1207) have no deadline, so that a worker that stalls in the middle of a line
  or before it reads its standard input holds the supervisor; `SupervisorReturns`
  excepts exactly those two waits (`Held`).  That workers end, which `EpisodeLoop`
  and `ArcBenchmark` assume, holds but for a worker that stalls there: it holds its
  batch.
* `ControlIteration` states no fairness and claims no termination: the launcher
  waits for its processes without a deadline (`control.py:2113`), so a Codex that
  hangs holds it for ever.

### Where the code and its documents differ

The *violated* runs are the rows marked so above, quoted in `PROJECT.json`
"findings".  Others can be reproduced by replacing the properties of a passing
run's cfg, and where noted its constants, with those given here:

* `FailuresDoNotConsume` (`MCSpawnSlots` under `Spec`): the handler logs progress
  after the slot is recorded, inside the same `try` (`child_spawn.py:465-485`),
  and the bridge's timer may kill it after the record: the call reports a
  retryable failure although its child exists.
  `tests/test_benchmark_driver.py:113` promises that failures do not consume the
  opportunity.
* `SkippedDespiteFailures` (`MCEpisodeLoop`, `LastTask = 1`, no deaths, no
  retries, `OpenCode = {0, 1}`): the record of a failed OpenCode future lacks the
  settings that a resumed process compares (`main_loop.py:1333`, 4687), its batch
  is taken up with a later pool, and siblings that completed run again.
* `WorkersStartSeeded` (`MCEpisodeLoop`, `LastTask = 0`, one launch, no deaths,
  `OpenCode = {0, 1}`): a worker retry removes and re-creates the rollout
  directory (`main_loop.py:4242`) and copies nothing into it.  An ARC rollout's
  context goes with it, so that its retried command server refuses to start.
* `SolvedLeavesPool` (`MCSuperGpqa`, one launch, no deaths): `finalize_batch`
  retires the last submission's problem (`supergpqa_benchmark.py:455`), so one
  solved earlier in the rollout stays in the pools of the same process.
* `EndedIterationsAreClosed` (`MCControlIteration`, `LastIteration = 1`,
  `MaxCount = 1`, no deaths): only `ControlError` is caught around
  `verify_layout` (`control.py:2418`); a dangling link or a removed archive raises
  `FileNotFoundError`, and neither state nor manifest is written.
* `RetriedRolloutsDidNoWork` (`MCOpenCodeRunner`): `worker.ts:75` calls its
  retryable codes errors that mean "the rollout never got to do real work", but a
  closed event stream and an API timeout are among them and happen to sessions
  that ran; the main loop then empties the directory and runs the rollout again.
* `cd -P l; cd ..` behind a link is reported like `git -C l -C ..`: the hook keeps
  the logical path.  Of `git -C a -C missing` the hook reports nothing and git has
  changed to `a`; `docs/directory-guidance-decay.md:36-38` ("Every resulting managed
  directory is considered even when Git later exits unsuccessfully") can be read
  either way.  The hook decides `cd b` by the tree before the line, so that of
  `mkdir b; cd b` the post-tool fallback alone reports the directory, after the
  fact, as `docs/directory-guidance-decay.md:45-48` says.
* `EveryGitScopeWasUsed` fails under `BeforeSpec` (in `MCShellScopes`, with
  `Trees <- OneTree`): for `git -C l -C ..` behind a link `l` to `a/b` git runs in
  `a` and the hook reports the parent of `l`, since it goes on from the logical
  path (`directory_agents_hook.py:421`).  `docs/directory-guidance-decay.md:33`:
  "Repeated operands resolve in Git order, each relative to the preceding Git
  directory".
* `EveryTransitionWasMade` fails under `BeforeSpec`, also without links (`Path <-
  PlainPath`, `Names <- PlainNames`, `Walk <- PlainWalk`, `Real <- PlainReal`,
  `Trees <- PlainTrees`, no operands): of `cd a; rm -r b; cd b` the hook reports
  `a/b`, of `mkdir b; cd b || cd ..` the parent, and neither is entered.  It looks
  at the tree once, before the line (`directory_agents_hook.py:331`), and decides
  `&&` and `||` by what it saw; `docs/directory-guidance-decay.md:15` speaks of
  "statically executed" transitions.
* Shell lines other than `exit` that the hook reports wrongly, all outside the
  subset that `ShellScopes.Next` takes: `exec`, `set -e`, `eval` and `.`,
  `! cd a; cd c`, `builtin cd a`.  They are read as ordinary commands.
* `ReadMayFail = TRUE` in `MCSpawnSlots`: `RecordedChildrenKept` fails.
  `_read_json_file` (`utils/child_spawn.py:31`) turns an `OSError` into `{}`,
  also under the lock, and the next write replaces the file.
  `OneChildPerRollout` and `RecordedSlotComplete` hold all the same, and are
  proved without the assumption.
* `TornWrites = TRUE` and a third launch in `MCEpisodeLoop`:
  `CompletedRolloutsSkipped` fails.  A
  partial last line joins the record appended after it
  (`main_loop.py:2205-2227`) and that rollout runs again.
* `PooledChildrenHaveWorkspaces` as an invariant with one death: a child whose
  rollout died after its workspace was consumed cannot start again
  (`main_loop.py:3894`).
* `ProbesMayFail = TRUE` in `MCArchiveCleanup`: `CommittedWorkKept` fails.  Any
  non-zero exit of a git probe reads as "not a repository" or "unborn"
  (`main_loop.py:891`, 964) and the archive is deleted.
* A process that dies while rollouts work, before a boundary has begun, leaves
  `completed` in the cleanup state file (`main_loop.py:3413`): the next launch
  starts with the archives as they are.
* In `ArcBenchmark`, `Render` fails for ever at a step where an earlier rendering
  failed after its `mkdir` (`arc_agi_frames.py:65`); another command is needed.
* In `SuperGpqa`, "only solved problems are retired" fails with one process: the
  last submission of a solving rollout is retired even when it was wrong
  (`utils/supergpqa_benchmark.py:455` and 220).
* In `DirectoryDecay`, any `K` that passes validation may be as large as
  `2^64 - 1`; the first lease after the first acknowledged step then overflows
  and poisons the session (`directory_decay.ts:81`).

## What is proved

Proofs hold for every value of the constants (any number of rollouts, calls,
archives, launches and deaths).

`RolloutAttempt_proofs`, about `SpawnSlots`:

* `Typing`: `Spec => []TypeOK`.
* `AtMostOneChild`: `Spec => []OneChildPerRollout`, whether or not reads fail.
  The invariant is not inductive alone.  Two ingredients make it so: only the
  lock holder is between `Enter` and `Publish`, hence what it read is still what
  is on disk when it writes (or nothing, when the read was lost), and what it
  read holds no child of its own rollout.
* `RecordedSlotsAreComplete`: a handler past `Revalidate` has a validated copy,
  a handler at `Publish` has its manifest too, and no later step of it touches
  its own directory without failing the record.
* `ChildrenStay`, `AnswersAreHonest`, `ImplementsOpportunity`, under
  `ReadMayFail = FALSE`: the write extends what is on disk; the pending outcome
  of a handler at `Log` agrees with the file; each step is a step of
  `ChildOpportunity` or a stutter.
* `NothingLeftBehind`, under the same assumption: a handler makes its directory at
  the second look and leaves the transaction with its record, without the
  directory, with a `fault` or killed (`AccountInv`).  When a read fails under the lock, the write
  drops the record of an older child and its directory belongs to nobody: the
  assumption is needed.

`RolloutAttempt_proofs`, about `OpenCodeRunner`, for any number of reconnects and
any lines in pipe and buffer:

* `OutcomeIsRight` and `NoneSurvives`, from `RunnerInv`.  `RequestFacts` ties the
  step and the fate of the worker to the session: an event of its end is in the
  queue only when the session has ended so, a turn is fetched only from an idle
  session.  `LineFacts` says that no line is lost: each announcement and each text
  is handled or in the pipe or the buffer, and no line contradicts the fate of the
  request.  Neither is enough, since the result is computed from what the
  supervisor has seen: `EndFacts` adds that from the drain on the worker is gone, so
  that behind it pipe and buffer are empty and nothing the result depends on can
  change.  What the supervisor handles is one line less on its way, wherever a chunk
  was cut (`ContentChunk`, `Takes`).

`ArchiveCleanup_proofs`:

* `Typing`, `RolloutsWaitForBoundary`, `CompletionIsClean`, and under
  `ProbesMayFail = FALSE` `CommittedWorkSurvives`.  The invariant says what the
  boundary knows at each command: entries outside `todo` are absent or clean at
  HEAD, the entry at `reset`, `clean` or `verify` is a committed repository, at
  `clean` its tracked files are clean, and the state file is `in_progress`
  exactly while the boundary is at work.

`ControlIteration_proofs`:

* `Typing`, `NoOverlap`, `FailuresStop`, `ManifestsFollow`, `NoRetries` and
  `EvidenceStays` follow from one inductive invariant of four parts.  `Evidence`:
  whatever was started, broken or orphaned belongs to an iteration whose evidence
  directory exists, and a launcher refuses an iteration that has one.  `Launcher`:
  what holds at each place of `run_iteration`.  `Judgement`: a failed turn is
  still visible when the batch is judged, so only an unbroken batch reaches the
  cleanup.  `Closing`: manifests follow the state, and a blocked study has no
  orphans.
* `SessionRuns`: over any number of iterations a session has one slot, an
  unbroken run of turns, and compacted in each but the last.  It needs `Booked`
  (a survivor is the session its slot had in the last completed iteration, and
  every booked session has been seen) and `Counted` (while a batch is open, only
  a compaction moves a counter).
* `ReadyRuns`: a study that says it can run passes the checks of its next launch,
  while no launcher died.  Survivors are sessions of the last batch, each in one
  slot (`Booked`), so the selection is accepted; `Readiness` follows the layout, the
  archive and the counters from the judgement of a good batch over the sweep to the
  closing, and says that no orphan can touch them between.

`DirectoryGuides_proofs`, about `ShellScopes`:

* `Soundness`: for lines of any length, any names, links and trees, and commands that
  change them, what the hook claims to know is so (`KnownStateIsExact`) and every
  reported transition was made, as long as the line has not `strayed`.  It is a
  simulation: wherever the hook's directory, stack or status is known it equals the
  shell's.  A command that must run moves both in the same way (one lemma per kind
  of command); one that may run leaves known only what both outcomes share; and a
  known status decides the next separator for both.
* `NothingInvented` and `NothingLost`, with the same reservation and no assumption
  about links: each `git -C` directory reported is one that git changed to, and of
  a line without doubts every directory entered or given to git is reported,
  whatever the number of commands and operands.  Following the operands is one
  recursive function (`Trail`) for both, which steps logically for the hook and
  physically for git; that it exists and where its values lie is by induction on
  the operands (`TrailExists`, `TrailInPath`).  The library states induction with
  an operator parameter, which the provers here cannot instantiate; `Induct` states
  it for sets of naturals instead, from the theorem that `<` on the naturals is
  well-founded, which has no such parameter.

`DirectoryGuides_proofs`, about `GuideGate`, for any directories, calls, revisions
and attempts, and hooks that die on either side of their claim:

* `GateTypes`, `GuidesBeforeTools`, `LedgerIsAccounted` and `PrefixKept`, from
  `GateInv`.  That an admitted call has seen its guides does not follow from its own
  steps: other calls activate guides while it waits.  `LatchFacts` is what makes it
  true: whatever is activated and not yet projected keeps the latch, and without the
  latch a waiting call has seen all that the session shows; hence a call admitted
  with nothing new has seen everything the hook found.  `QueueFacts` keeps a call
  from being decided twice.  `SentFacts` says that the groups with a place are the
  first of the managed ones and stand in the last request at that place, which is
  why the next request can only add behind it.

`EpisodeLoop_proofs`:

* `InheritedOnce`: a child has one holder, its directory, the rollout that
  inherited it or that rollout's record, and none before it is spawned
  (`OneHolder`).  No assumption: torn lines and failed futures only lose holders.
* `RecordedAreSkipped` and `ImplementsHistory`, for `TornWrites = FALSE`.  As long
  as every record can be resumed from (`Whole`), batches are recorded in order and
  a partial batch ran with what the pool file still offers (`InOrder`); hence a
  launch accepts the whole log and starts at its frontier, and the process agrees
  with the log from its batch on (`Abreast`).  The writing of the pool file is
  harmless because it happens when no batch is partial (`WrittenComplete`).
* `LineagesGoOn`: between batches every batch is empty or complete and the pool
  file offers the children of the last complete one; while a batch runs, children
  of the batch before leave the directory only into their own slot (`Lineage`).

`SuperGpqa_proofs`:

* `Types`, `SolvedStaysAway` and `RetiredForAReason`.  A retired problem has its
  record because retirement happens after the appends and reads only results
  that were appended.  That a solved problem is not offered again needs the log
  by batch: records ahead of the running batch are from older processes and were
  loaded (`Ahead`), those behind it were loaded or have been retired (`Behind`),
  those of the batch itself belong to rollouts that are absent or to results of
  this process (`Books`).

`ArcBenchmark_proofs`:

* `Types`, `WinsAreCounted`, `LossesAreSeen`, `OneGame`.  What has to hold of one
  rollout is `Good(r)`; a step of its command server changes nothing of another
  rollout but the log, and of the log at most the line that another's append is
  joined to.  `Identity` ties session, environment, lines and the command under way
  to one game at each stage of a command; `Steps` makes the event of a saved step a
  new one, so that `Publish` is never the duplicate that the log ignores; `Tally`
  says that the server's count is the readable actions, the lost ones and the one
  that is owed while its command is between the server's answer and its
  publication, and an append that destroys a line moves one from the first to the
  second.  At rest nothing is owed, which is why `Collect` can tell a loss from the
  scorecard alone.

`DirectoryDecay_proofs`:

* `Types`, `SawTheirGuides`, `LeaseExact`, `OneRevision`, `OpenGate`, from
  `DecayAssumption` alone: any guides, calls, `K` and counter width.  The lease is
  tied to the history of uses (`Leases`): a leased entry ends K steps after some
  use of it, and a use that still matters has a leased entry of its path that
  lasts long enough, its own or a newer revision.  The request in flight shows
  exactly the leased entries that reach its step (`Steps`), so that what it drops
  when it is acknowledged is what has expired.  An access changes only the gate
  and the admitted calls of its request (`Relabelled`); a revision counter ahead
  of the request, or a blocked gate, is what closes it.
Only model-checked: liveness (`StartedCallsAnswered`, `ProcessesEnd`,
`BoundaryEnds`, `CallsRun`, `BatchesEnd`, `SupervisorReturns`), which needs fairness
and ENABLED, out of the prover's reach.  Every safety property of a passing run,
invariant, action property or refinement, is a theorem.

`RolloutAttempt_proofs` and `DirectoryGuides_proofs` each extend two modules that
share no variable; a theorem in them is about the specification of one.

## What is not modelled

`PROJECT.json` "components" has a row for every part.  Left out for good:
downloads and record files (pure I/O), text comparison of answers, installation,
prompts, file hashing of bundles, command-line validation, the lexer of the shell
hook, building of sandboxes.  The MCP transports appear as the calls they deliver.
The Codex runner and the OpenRouter worker are sequential parts of one rollout and
appear as steps of it in `EpisodeLoop`.  The directory watcher depends on the
order in which the file system reports events, which is not in this repository.
Runtime identities are planned.

## Plan

The order is by what a failure would cost.

1. Done: the modules above and their proofs.
2. `RuntimeIdentity`: claims of a fresh root over deaths, persisted assignments;
   an abstract one-owner specification.
3. `DirectoryWatcher`: start, reconcile and stop of its thread.
4. Composition: `SpawnSlots` answers inside `EpisodeLoop`'s `Spawn`; the boundary
   between `EndBatch` and the first append; `OpenCodeRunner`'s results as the
   `Retry` and `Finish` of `EpisodeLoop`.

Theorems still worth proving: that a step of `OpenCodeRunner` is a step of an
abstract attempt as `EpisodeLoop` uses it, and the composition of `SpawnSlots`
with the loop's `Spawn`, once item 4 exists.
