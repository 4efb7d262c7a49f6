---------------------------- MODULE ArcBenchmark ----------------------------
(***************************************************************************)
(* The ARC-AGI benchmark over a run: batches of the driver                 *)
(* (utils/arc_agi_benchmark.py), the MCP command server of each rollout    *)
(* (utils/arc_agi_mcp.py), its session file and observation artifacts      *)
(* (utils/arc_agi_rollout.py, arc_agi_frames.py), the benchmark event log  *)
(* that all rollouts share (utils/benchmark_events.py) and the official    *)
(* server as those modules use it.  Any step of a command may fail, any    *)
(* answer may be lost, an append may stop half way, the command server may *)
(* stop at any point and the driver's process may die.                     *)
(*                                                                         *)
(* A game is won or not; frames, levels and scores are abstracted.  The    *)
(* server counts actions, a RESET is not one.                              *)
(***************************************************************************)
EXTENDS Integers, FiniteSets

CONSTANTS
  Rollouts,     \* rollouts of a batch; each batch gives them new identities
  Items,        \* games of the pool
  Actions,      \* ACTION1 ... ACTION7
  NoSession, NoGame,
  NoOutcome, Failed, Unattempted, Unavailable,
  Clean, Torn,  \* ends of the log: a line end, a piece of a line
  MaxCommands,  \* bound: commands each worker asks for
  MaxBatches    \* bound: batches of a run

ASSUME ArcAssumption ==
  /\ MaxCommands \in [Rollouts -> Nat] /\ MaxBatches \in Nat
  /\ Items # {} /\ Actions \cap {"RESET", "SELECT"} = {}
  /\ NoSession \notin [item : Items, state : {"PLAY", "WIN"}, step : Nat]
  /\ NoGame \notin [item : Items, state : {"PLAY", "WIN"}, actions : Nat]
  /\ {NoOutcome, Failed, Unattempted, Unavailable} \cap
       [item : Items, solved : BOOLEAN, available : BOOLEAN, read : BOOLEAN, consistent : BOOLEAN] = {}
  /\ NoOutcome \notin {Failed, Unattempted, Unavailable}
  /\ Clean # Torn
  /\ {Clean, Torn} \cap [of : Rollouts, item : Items, command : Actions \cup {"RESET", "SELECT"},
                         state : {"PLAY", "WIN"}, step : Nat] = {}

VARIABLES
  phase,      \* of the driver: idle, active, finalized, or down with its process
  batch,      \* batches completed
  ledger,     \* solved_items of the state file
  game,       \* the server's environment of a rollout
  session,    \* arc_session.json
  artifacts,  \* observation directories <<step, command>>
  log,        \* complete lines of the batch's rollouts in benchmark_events.jsonl
  tail,       \* its end: Clean, Torn, or a line that lacks only its line end
  mcp,        \* the command server: [at, command, item, state]
  outcome,    \* collected outcomes
  server,     \* the batch's official server: none, up, or left running
  orphans,    \* command servers of a driver that died may still run
  asked,      \* bounded: commands the worker has asked for
  told,       \* history: rollouts that were answered with a WIN
  lost,       \* history: lost[r] executed actions had no readable event by the outcome
  cut,        \* history: the log had an incomplete end during the batch
  won         \* history: games that the server has seen won

events == <<log, tail, cut>>
driver == <<phase, batch, ledger, server, orphans>>
rollout == <<game, session, artifacts, events, mcp, outcome, asked, told, lost>>
vars == <<driver, rollout, won>>

States == {"PLAY", "WIN"}
Commands == Actions \cup {"RESET"}
Sessions == [item : Items, state : States, step : Nat]
Games == [item : Items, state : States, actions : Nat]

(* A benchmark_command_completed event, or a benchmark_item_selected one.  *)
Lines == [of : Rollouts, item : Items, command : Commands \cup {"SELECT"}, state : States, step : Nat]
Outcomes == [item : Items, solved : BOOLEAN, available : BOOLEAN, read : BOOLEAN, consistent : BOOLEAN]
Stages == {"idle", "asked", "answered", "rendered", "saved", "published", "off"}

TypeOK ==
  /\ phase \in {"idle", "active", "finalized", "down"}
  /\ batch \in Nat /\ ledger \in SUBSET Items
  /\ server \in {"none", "up", "left"} /\ orphans \in BOOLEAN
  /\ game \in [Rollouts -> Games \cup {NoGame}]
  /\ session \in [Rollouts -> Sessions \cup {NoSession}]
  /\ artifacts \in [Rollouts -> SUBSET (Nat \X Commands)]
  /\ log \in SUBSET Lines /\ tail \in Lines \cup {Clean, Torn} /\ cut \in BOOLEAN
  /\ mcp \in [Rollouts -> [at : Stages, command : Commands, item : Items, state : States]]
  /\ outcome \in [Rollouts -> Outcomes \cup {NoOutcome, Failed, Unattempted, Unavailable}]
  /\ asked \in [Rollouts -> Nat] /\ told \in SUBSET Rollouts /\ lost \in [Rollouts -> Nat] /\ won \in SUBSET Items

-----------------------------------------------------------------------------
Resting(stage) == [at |-> stage, command |-> "RESET", item |-> CHOOSE i \in Items : TRUE, state |-> "PLAY"]

(* A batch's rollouts have new contexts, state roots and identities.       *)
Fresh ==
  /\ game = [r \in Rollouts |-> NoGame] /\ session = [r \in Rollouts |-> NoSession]
  /\ artifacts = [r \in Rollouts |-> {}] /\ outcome = [r \in Rollouts |-> NoOutcome]
  /\ log = {} /\ told = {}
  /\ lost = [r \in Rollouts |-> 0] /\ asked = [r \in Rollouts |-> 0]

Init ==
  /\ phase = "idle" /\ batch = 0 /\ ledger = {} /\ won = {}
  /\ server = "none" /\ orphans = FALSE /\ tail = Clean /\ cut = FALSE
  /\ Fresh
  /\ mcp = [r \in Rollouts |-> Resting("off")]

(* prepare_batch and the prepare_rollout of each rollout: the ledger must  *)
(* be readable, the server is ready before the pool files are installed,   *)
(* load_context accepts what was written.  The log is the run's: lines of  *)
(* earlier batches are of other identities, an incomplete end stays.       *)
Prepare ==
  /\ phase \in {"idle", "down"} /\ batch < MaxBatches
  /\ phase' = "active" /\ server' = "up"
  /\ game' = [r \in Rollouts |-> NoGame] /\ session' = [r \in Rollouts |-> NoSession]
  /\ artifacts' = [r \in Rollouts |-> {}] /\ outcome' = [r \in Rollouts |-> NoOutcome]
  /\ log' = {} /\ told' = {}
  /\ lost' = [r \in Rollouts |-> 0] /\ asked' = [r \in Rollouts |-> 0]
  /\ mcp' = [r \in Rollouts |-> Resting("idle")]
  /\ tail' = (IF tail = Clean THEN Clean ELSE Torn) /\ cut' = (tail # Clean)
  /\ UNCHANGED <<batch, ledger, orphans, won>>

(* The launch or the installation fails: the server is terminated, as far  *)
(* as that succeeds, and the exception ends the process.                   *)
PrepareFails ==
  /\ phase \in {"idle", "down"} /\ batch < MaxBatches
  /\ phase' = "down" /\ server' \in {"none", "left"}
  /\ UNCHANGED <<batch, ledger, orphans, rollout, won>>

At(r, stage) == phase = "active" /\ mcp[r].at = stage
To(r, stage) == mcp' = [mcp EXCEPT ![r].at = stage]
Rest(r, stage) == mcp' = [mcp EXCEPT ![r] = Resting(stage)]
NextStep(r) == IF session[r] = NoSession THEN 0 ELSE session[r].step + 1

(* Mutation: a RESET may change the game. *)
Mut_ResetAnyGame(r, item) ==
  /\ At(r, "idle") /\ asked[r] < MaxCommands[r]
  /\ mcp' = [mcp EXCEPT ![r] = [at |-> "asked", command |-> "RESET", item |-> item, state |-> "PLAY"]]
  /\ asked' = [asked EXCEPT ![r] = @ + 1]
  /\ UNCHANGED <<driver, game, session, artifacts, events, outcome, told, lost, won>>

(* RESET opens the session or resets it for the game it has; an action     *)
(* needs a session.                                                        *)
Reset(r, item) ==
  /\ At(r, "idle") /\ asked[r] < MaxCommands[r]
  /\ session[r] # NoSession => session[r].item = item
  /\ mcp' = [mcp EXCEPT ![r] = [at |-> "asked", command |-> "RESET", item |-> item, state |-> "PLAY"]]
  /\ asked' = [asked EXCEPT ![r] = @ + 1]
  /\ UNCHANGED <<driver, game, session, artifacts, events, outcome, told, lost, won>>

Act(r, action) ==
  /\ At(r, "idle") /\ asked[r] < MaxCommands[r]
  /\ session[r] # NoSession
  /\ mcp' = [mcp EXCEPT ![r] = [at |-> "asked", command |-> action,
                                item |-> session[r].item, state |-> session[r].state]]
  /\ asked' = [asked EXCEPT ![r] = @ + 1]
  /\ UNCHANGED <<driver, game, session, artifacts, events, outcome, told, lost, won>>

IsAction(r) == mcp[r].command \in Actions
Lose(r) == lost' = [lost EXCEPT ![r] = IF IsAction(r) THEN @ + 1 ELSE @]

(* External: the server executes the command.  A RESET without a session   *)
(* opens a scorecard and an environment of its own.                        *)
Execute(r, state) ==
  /\ At(r, "asked") /\ (~IsAction(r) => state = "PLAY")
  /\ game' = [game EXCEPT ![r] =
       IF session[r] = NoSession THEN [item |-> mcp[r].item, state |-> state, actions |-> 0]
       ELSE [item |-> @.item, state |-> state,
             actions |-> @.actions + IF IsAction(r) THEN 1 ELSE 0]]
  /\ won' = IF state = "WIN" THEN won \cup {mcp[r].item} ELSE won
  /\ UNCHANGED <<driver, asked, session, artifacts, events, outcome, told>>

Answer(r, state) ==
  /\ Execute(r, state)
  /\ mcp' = [mcp EXCEPT ![r].at = "answered", ![r].state = state]
  /\ UNCHANGED lost

(* The answer does not arrive in time or is not acceptable.                *)
AnswerLost(r, state) ==
  /\ Execute(r, state)
  /\ Rest(r, "idle") /\ Lose(r)

Refuse(r) ==
  /\ At(r, "asked")
  /\ Rest(r, "idle")
  /\ UNCHANGED <<driver, asked, game, session, artifacts, events, outcome, told, lost, won>>

(* write_arc_observation_artifacts: a directory that is left of an earlier *)
(* failure at the same step and command makes mkdir fail.                  *)
Render(r) ==
  /\ At(r, "answered")
  /\ <<NextStep(r), mcp[r].command>> \notin artifacts[r]
  /\ artifacts' = [artifacts EXCEPT ![r] = @ \cup {<<NextStep(r), mcp[r].command>>}]
  /\ To(r, "rendered")
  /\ UNCHANGED <<driver, asked, game, session, events, outcome, told, lost, won>>

RenderFails(r) ==
  /\ At(r, "answered")
  /\ artifacts' = [artifacts EXCEPT ![r] = @ \cup {<<NextStep(r), mcp[r].command>>}]
  /\ Rest(r, "idle") /\ Lose(r)
  /\ UNCHANGED <<driver, asked, game, session, events, outcome, told, won>>

(* Mutation: the session keeps its step index. *)
Mut_SaveKeepsStep(r) ==
  /\ At(r, "rendered")
  /\ session' = [session EXCEPT ![r] = [item |-> mcp[r].item, state |-> mcp[r].state,
       step |-> IF session[r] = NoSession THEN 0 ELSE session[r].step]]
  /\ To(r, "saved")
  /\ UNCHANGED <<driver, asked, game, artifacts, events, outcome, told, lost, won>>

(* _write_state replaces the session file at once or leaves it.            *)
Save(r) ==
  /\ At(r, "rendered")
  /\ session' = [session EXCEPT ![r] =
       [item |-> mcp[r].item, state |-> mcp[r].state, step |-> NextStep(r)]]
  /\ To(r, "saved")
  /\ UNCHANGED <<driver, asked, game, artifacts, events, outcome, told, lost, won>>

SaveFails(r) ==
  /\ At(r, "rendered")
  /\ Rest(r, "idle") /\ Lose(r)
  /\ UNCHANGED <<driver, asked, game, session, artifacts, events, outcome, told, won>>

(* What a reader of the log finds: lines that do not parse are skipped, a  *)
(* complete one is read also without its line end.                         *)
Readable == log \cup ({tail} \cap Lines)
LinesOf(r) == {l \in Readable : l.of = r}

(* How much of a line an append leaves in the file: a short write, a full  *)
(* disk or a death may come before any byte, within the line or before its *)
(* line end, a failing fsync after it.                                     *)
Amounts == {"none", "part", "line", "whole"}

(* _append_events_locked: what is appended to an incomplete end becomes    *)
(* one line with it, and neither can be read.                              *)
Append(line, amount) ==
  /\ log' = IF amount = "whole" /\ tail = Clean THEN log \cup {line} ELSE log
  /\ tail' = CASE amount = "none" -> tail
               [] amount = "part" -> Torn
               [] amount = "line" -> IF tail = Clean THEN line ELSE Torn
               [] amount = "whole" -> Clean
  /\ cut' = (cut \/ tail' # Clean)

(* An append takes the line away that the end of the log was.              *)
Spoiled(q, amount) ==
  IF amount # "none" /\ tail \in LinesOf(q) /\ tail.command \in Actions /\ outcome[q] = NoOutcome
  THEN 1 ELSE 0

(* An action whose own line cannot be read. *)
Unread(r, amount) ==
  IF IsAction(r) /\ ~(tail = Clean /\ amount \in {"line", "whole"}) THEN 1 ELSE 0

Write(r, line, amount) ==
  /\ Append(line, amount)
  /\ lost' = [q \in Rollouts |-> lost[q] + Spoiled(q, amount) + IF q = r THEN Unread(r, amount) ELSE 0]

CommandLine(r) == [of |-> r, item |-> mcp[r].item, command |-> mcp[r].command,
                   state |-> session[r].state, step |-> session[r].step]

(* _publish_command: once per step, under the log's lock.  The append that *)
(* raises nothing is reported as recorded, whatever end it was joined to.  *)
Publish(r) ==
  /\ At(r, "saved")
  /\ IF \E l \in LinesOf(r) : l.command # "SELECT" /\ l.step = session[r].step
     THEN UNCHANGED <<events, lost>>
     ELSE Write(r, CommandLine(r), "whole")
  /\ To(r, "published")
  /\ UNCHANGED <<driver, asked, game, session, artifacts, outcome, told, won>>

PublishFails(r) ==
  /\ At(r, "saved")
  /\ \E amount \in Amounts : Write(r, CommandLine(r), amount)
  /\ Rest(r, "idle")
  /\ UNCHANGED <<driver, asked, game, session, artifacts, outcome, told, won>>

Selection(r) == [of |-> r, item |-> mcp[r].item, command |-> "SELECT", state |-> "PLAY", step |-> 0]

(* _publish_selection, of a RESET: the log is looked at without its lock,  *)
(* and one that cannot be read holds no selection.                         *)
Select(r, amount) ==
  \/ (IsAction(r) \/ Selection(r) \in Readable) /\ UNCHANGED <<events, lost>>
  \/ ~IsAction(r) /\ Write(r, Selection(r), amount)

(* A RESET also records the selection; then the frames are read.           *)
Reply(r) ==
  /\ At(r, "published")
  /\ Select(r, "whole")
  /\ told' = IF mcp[r].state = "WIN" THEN told \cup {r} ELSE told
  /\ Rest(r, "idle")
  /\ UNCHANGED <<driver, asked, game, session, artifacts, outcome, won>>

ReplyFails(r) ==
  /\ At(r, "published")
  /\ \E amount \in Amounts : Select(r, amount)
  /\ Rest(r, "idle")
  /\ UNCHANGED <<driver, asked, game, session, artifacts, outcome, told, won>>

(* A command server that has outlived its driver appends a line of its own *)
(* rollout, of a batch that is over.                                       *)
Stray ==
  /\ orphans
  /\ log' = log /\ tail' \in {Clean, Torn} /\ cut' = (cut \/ tail' # Clean)
  /\ lost' = [q \in Rollouts |-> lost[q] + Spoiled(q, "part")]
  /\ UNCHANGED <<driver, asked, game, session, artifacts, mcp, outcome, told, won>>

(* The worker has ended, or its command server has died: it is not started *)
(* again, and a retried worker's server refuses its context because the    *)
(* rollout's directory is gone.                                            *)
Stop(r) ==
  /\ phase = "active" /\ mcp[r].at # "off"
  /\ Rest(r, "off")
  /\ IF mcp[r].at \in {"answered", "rendered", "saved"} THEN Lose(r) ELSE UNCHANGED lost
  /\ UNCHANGED <<driver, asked, game, session, artifacts, events, outcome, told, won>>

-----------------------------------------------------------------------------
(* accounted_action_count *)
Accounted(r) == Cardinality({l \in LinesOf(r) : l.item = session[r].item /\ l.command \in Actions})

(* Mutation: only the session's last state counts. *)
Mut_SolvedBySession(r, read) == session[r].state = "WIN"

(* A WIN of the session or of any event of its game that can be read.      *)
Solved(r, read) ==
  \/ session[r].state = "WIN"
  \/ read /\ \E l \in LinesOf(r) : l.item = session[r].item /\ l.state = "WIN"

(* total_actions of the rollout's scorecard. *)
ScorecardActions(r) == game[r].actions

(* collect_outcome: without a session nothing was attempted, one that      *)
(* cannot be read counts for nothing; the scorecard may be unavailable and *)
(* a log that cannot be read has no events.                                *)
Collect(r) ==
  /\ At(r, "off") /\ outcome[r] = NoOutcome
  /\ \/ session[r] = NoSession /\ outcome' = [outcome EXCEPT ![r] = Unattempted]
     \/ session[r] # NoSession /\ outcome' = [outcome EXCEPT ![r] = Unavailable]
     \/ session[r] # NoSession /\ \E available, read \in BOOLEAN :
          outcome' = [outcome EXCEPT ![r] =
            [item |-> session[r].item, solved |-> Solved(r, read), available |-> available, read |-> read,
             consistent |-> available /\ ScorecardActions(r) = IF read THEN Accounted(r) ELSE 0]]
  /\ UNCHANGED <<driver, asked, game, session, artifacts, events, mcp, told, lost, won>>

(* The rollout's future fails before its outcome is collected.             *)
RolloutFails(r) ==
  /\ At(r, "off") /\ outcome[r] = NoOutcome
  /\ outcome' = [outcome EXCEPT ![r] = Failed]
  /\ UNCHANGED <<driver, asked, game, session, artifacts, events, mcp, told, lost, won>>

SolvedItems == {outcome[r].item : r \in {r \in Rollouts : outcome[r] \in Outcomes /\ outcome[r].solved}}

(* Mutation: the batch waits for an outcome of every rollout. *)
Mut_FinalizeNeedsOutcomes ==
  /\ phase = "active" /\ \A r \in Rollouts : outcome[r] \in Outcomes
  /\ ledger' = ledger \cup SolvedItems
  /\ phase' = "finalized"
  /\ UNCHANGED <<batch, server, orphans, rollout, won>>

(* finalize_batch adds the wins to the ledger's file.                      *)
Finalize ==
  /\ phase = "active" /\ \A r \in Rollouts : outcome[r] # NoOutcome
  /\ ledger' = ledger \cup SolvedItems
  /\ phase' = "finalized"
  /\ UNCHANGED <<batch, server, orphans, rollout, won>>

(* The summary is kept, the scorecards are closed as far as they can be    *)
(* and the server is terminated, or left when that fails.                  *)
Cleanup ==
  /\ phase = "finalized"
  /\ phase' = "idle" /\ batch' = batch + 1 /\ server' \in {"none", "left"}
  /\ UNCHANGED <<ledger, orphans, rollout, won>>

(* The ledger or the audit file cannot be written: the exception ends the  *)
(* process, close cleans the batch up.                                     *)
FinalizeFails ==
  /\ \/ phase = "finalized"
     \/ phase = "active" /\ \A r \in Rollouts : outcome[r] # NoOutcome
  /\ phase' = "down" /\ server' \in {"none", "left"}
  /\ UNCHANGED <<batch, ledger, orphans, rollout, won>>

(* The driver's process dies.  Its official server goes on, and so may the *)
(* command servers: what those do to the batch's sessions and games no one *)
(* looks at any more, but they still append to the log (Stray).            *)
Die ==
  /\ phase \in {"active", "finalized"}
  /\ phase' = "down" /\ server' = "left" /\ orphans' = TRUE
  /\ mcp' = [r \in Rollouts |-> Resting("off")]
  /\ UNCHANGED <<batch, ledger, asked, game, session, artifacts, events, outcome, told, lost, won>>

Command(r) ==
  \/ \E i \in Items : Reset(r, i)
  \/ \E a \in Actions : Act(r, a)
  \/ \E s \in States : Answer(r, s) \/ AnswerLost(r, s)
  \/ Refuse(r) \/ Render(r) \/ RenderFails(r) \/ Save(r) \/ SaveFails(r)
  \/ Publish(r) \/ PublishFails(r) \/ Reply(r) \/ ReplyFails(r)

Next ==
  \/ Prepare \/ PrepareFails \/ Finalize \/ FinalizeFails \/ Cleanup \/ Die \/ Stray
  \/ \E r \in Rollouts : Command(r) \/ Stop(r) \/ Collect(r) \/ RolloutFails(r)

(* Workers end (OpenCodeRunner shows when), the driver goes on.  Nothing   *)
(* in a command needs to succeed.                                          *)
Progress ==
  \/ Finalize \/ Cleanup
  \/ \E r \in Rollouts : Stop(r) \/ Collect(r)

Fairness == WF_vars(Progress)

Spec == Init /\ [][Next]_vars /\ Fairness

-----------------------------------------------------------------------------
(* official_win_observed: a WIN that a rollout was told of counts in its   *)
(* outcome and in the ledger, whatever the rollout does afterwards, as     *)
(* long as the log can be read and had no incomplete end; a broken line or *)
(* an unreadable log may cost the WIN, never without an inconsistent       *)
(* accounting; nothing counts that the official server has not seen won.   *)
WinsCount ==
  /\ \A r \in Rollouts : outcome[r] \in Outcomes =>
       /\ r \in told /\ outcome[r].read /\ ~cut => outcome[r].solved
       /\ r \in told /\ ~outcome[r].solved => ~outcome[r].consistent
       /\ outcome[r].solved => outcome[r].item \in won
       /\ phase = "finalized" /\ outcome[r].solved => outcome[r].item \in ledger
  /\ ledger \subseteq won

(* action_accounting_consistent: an outcome says that its accounting is    *)
(* complete only when every executed action had its event in the log, and  *)
(* with scorecard and log at hand it says so then.  An action lacks its    *)
(* event when its command failed after the execution, or when an append of *)
(* its own or of a sibling broke its line.                                 *)
LossIsDetected ==
  \A r \in Rollouts : outcome[r] \in Outcomes =>
    /\ outcome[r].consistent => lost[r] = 0
    /\ outcome[r].available /\ outcome[r].read /\ lost[r] = 0 => outcome[r].consistent

(* A rollout plays one game: the session, its environment, all its lines   *)
(* in the log and the outcome agree, also after a first RESET that failed  *)
(* half way.                                                               *)
OneGamePerRollout ==
  \A r \in Rollouts :
    /\ session[r] # NoSession =>
         /\ game[r].item = session[r].item
         /\ outcome[r] \in Outcomes => outcome[r].item = session[r].item
    /\ \A l \in LinesOf(r) : session[r] # NoSession /\ l.item = session[r].item

(* A prepared batch ends: the driver has sent its server the end, or is    *)
(* itself gone.                                                            *)
BatchesEnd == phase = "active" ~> phase \in {"idle", "down"} /\ server # "up"

=============================================================================
