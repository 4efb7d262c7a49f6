--------------------------- MODULE OpenCodeRunner ---------------------------
(***************************************************************************)
(* One OpenCode rollout attempt: the supervisor of                         *)
(* src/utils/opencode_runner.py (run_opencode_rollout), the worker process *)
(* of src/workers/opencode/worker.ts, the OpenCode server and the MCP      *)
(* bridge that the worker starts in process groups of their own, and the   *)
(* session in the server.                                                  *)
(*                                                                         *)
(* The supervisor learns everything from the lines of the worker's         *)
(* standard output, the process ids of the server and of the bridge        *)
(* included; its own deadline is later than the worker's, but counts from  *)
(* an earlier moment, so that either may pass first.  The worker learns    *)
(* what the session does from an event stream that may drop: what happens  *)
(* while it is down is not seen.  Time is abstracted to "the deadline has  *)
(* passed".  A worker may stall in any step or be killed.                  *)
(*                                                                         *)
(* A line with text of the session may be longer than what a pipe takes at *)
(* once, so that its start is in the pipe before the rest, or without it;  *)
(* and its text may hold a character, like U+2028, that JSON.stringify     *)
(* leaves as it is and that str.splitlines takes for the end of a line.    *)
(* The lines with a process id and the error lines are short and plain.    *)
(***************************************************************************)
EXTENDS Integers, Sequences

CONSTANT MaxReconnects  \* SSE_MAX_RECONNECT_ATTEMPTS

ASSUME ReconnectAssumption == MaxReconnects \in Nat

Processes == {"bridge", "server"}

VARIABLES
  \* the supervisor
  supervisor,  \* where its loop is
  request,     \* small enough for the pipe of the standard input, large, or sent
  expired,     \* its deadline has passed
  timed_out, raised,
  buffer,      \* lines read from the pipe behind the one handled
  known,       \* the state that the lines handled so far give
  result,
  \* the worker
  worker,      \* the step it is in, or "exited" or "killed"
  fate,        \* how its request ends
  cancelled,   \* SIGTERM was delivered
  pipe,        \* its standard output
  writing,     \* the start of a line is written, the rest not yet
  raw,         \* the lines with a character that splits them
  turnStarted, \* EventNormalizer
  queue,       \* AsyncQueue of stream events
  stream, attempt,
  \* the processes
  process, announced, sandboxed,
  \* the session, and history: it ran the model
  session, worked

supervising == <<supervisor, request, expired, timed_out, raised, buffer, known, result>>
requesting == <<worker, fate, cancelled, turnStarted>>
output == <<pipe, writing, raw>>
streaming == <<queue, stream, attempt>>
processes == <<process, announced, sandboxed>>
conversation == <<session, worked>>
runnerVars == <<supervising, requesting, output, streaming, processes, conversation>>

Steps == {"start", "read", "spawn bridge", "announce bridge", "await bridge",
          "verify", "spawn server", "announce server", "await server",
          "connect", "create", "prompt", "running", "fetch", "answer",
          "teardown", "stop server", "stop bridge", "report"}
Gone == {"exited", "killed"}
Codes == {"worker_timeout", "retryable", "fatal"}
Done == {"complete", "context_exhausted"}

Spoken == {"message", "turn_complete", "context_exhausted"}

Nothing == [pids |-> {}, completed |-> FALSE, error |-> "", malformed |-> FALSE]

RunnerInit ==
  /\ supervisor = "request" /\ request \in {"small", "large"} /\ expired = FALSE /\ timed_out = FALSE /\ raised = FALSE
  /\ buffer = <<>> /\ known = Nothing /\ result = "none"
  /\ sandboxed \in BOOLEAN
  /\ worker = "start" /\ fate = "none" /\ cancelled = FALSE /\ turnStarted = FALSE
  /\ pipe = <<>> /\ writing = FALSE /\ raw = {} /\ queue = <<>> /\ stream = "none" /\ attempt = 0
  /\ process = [p \in Processes |-> "none"] /\ announced = {}
  /\ session = "none" /\ worked = FALSE

-----------------------------------------------------------------------------
(* The worker. *)

Emit(line) == pipe' = Append(pipe, line) /\ UNCHANGED <<writing, raw>>

(* A line with text of the session, or the rest of it.                     *)
Speak(line) ==
  /\ pipe' = Append(pipe, line) /\ writing' = FALSE
  /\ raw' \in {raw, raw \cup {line}}

(* The start of a long line.                                               *)
BeginLine ==
  /\ ~ writing
  /\ \/ worker = "answer"
     \/ worker = "running" /\ queue # <<>> /\ Head(queue) \in {"busy", "overflow"}
  /\ pipe' = Append(pipe, "piece") /\ writing' = TRUE
  /\ UNCHANGED <<raw, supervising, requesting, streaming, processes, conversation>>

(* The rest of the request is skipped: its finally clauses run. *)
Ends(outcome) ==
  /\ fate' = outcome
  /\ worker' = IF session # "none" THEN "teardown" ELSE "stop server"
  /\ UNCHANGED <<cancelled, turnStarted>>

Goes(step) == worker' = step /\ UNCHANGED <<fate, cancelled, turnStarted>>

(* bun starts; main then reads its standard input to the end.              *)
Boot ==
  /\ worker = "start" /\ Goes("read")
  /\ UNCHANGED <<supervising, output, streaming, processes, conversation>>

ReadRequest ==
  /\ worker = "read" /\ request = "sent"
  /\ Goes("verify") \/ (sandboxed /\ Goes("spawn bridge")) \/ Ends("fatal")
  /\ UNCHANGED <<supervising, output, streaming, processes, conversation>>

(* Bun.spawn: bwrap or the server, or mcp_host_bridge.ts. *)
Spawn(p) ==
  /\ worker = (CASE p = "bridge" -> "spawn bridge" [] p = "server" -> "spawn server")
  /\ process' = [process EXCEPT ![p] = "up"]
  /\ Goes(CASE p = "bridge" -> "announce bridge" [] p = "server" -> "announce server")
  /\ UNCHANGED <<supervising, output, streaming, announced, sandboxed, conversation>>

(* The line with its process id, without which nobody else can stop it. *)
Announce(p) ==
  /\ worker = (CASE p = "bridge" -> "announce bridge" [] p = "server" -> "announce server")
  /\ announced' = announced \cup {p}
  /\ Emit(p)
  /\ Goes(CASE p = "bridge" -> "await bridge" [] p = "server" -> "await server")
  /\ UNCHANGED <<supervising, streaming, process, sandboxed, conversation>>

(* bridgeReady, readServerUrl: the process says that it listens, or it     *)
(* exited or the startup timeout passed.                                   *)
Await(p) ==
  /\ worker = (CASE p = "bridge" -> "await bridge" [] p = "server" -> "await server")
  /\ \/ process[p] = "up"
        /\ Goes(CASE p = "bridge" -> "verify" [] p = "server" -> "connect")
     \/ Ends(CASE p = "bridge" -> "fatal" [] p = "server" -> "retryable")
  /\ UNCHANGED <<supervising, output, streaming, processes, conversation>>

(* The private directories, the callbacks and opencode --version. *)
Verify ==
  /\ worker = "verify"
  /\ Goes("spawn server") \/ \E code \in {"retryable", "fatal"} : Ends(code)
  /\ UNCHANGED <<supervising, output, streaming, processes, conversation>>

(* startSse, and the wait for server.connected and for the bridges. *)
Connect ==
  /\ worker = "connect"
  /\ \/ process["server"] = "up" /\ stream' = "open" /\ Goes("create")
     \/ \E code \in {"retryable", "fatal"} : Ends(code) /\ UNCHANGED stream
  /\ UNCHANGED <<supervising, output, queue, attempt, processes, conversation>>

CreateSession ==
  /\ worker = "create"
  /\ \/ process["server"] = "up" /\ session' = "new" /\ Goes("prompt")
     \/ \E code \in {"retryable", "fatal"} : Ends(code) /\ UNCHANGED session
  /\ UNCHANGED <<supervising, output, streaming, processes, worked>>

(* A prompt whose answer does not come may have been taken all the same. *)
Prompt ==
  /\ worker = "prompt"
  /\ \/ process["server"] = "up" /\ session' = "prompted" /\ Goes("running")
     \/ session' \in {"new", "prompted"}
        /\ fate' = "fatal" /\ worker' = "teardown" /\ UNCHANGED <<cancelled, turnStarted>>
  /\ UNCHANGED <<supervising, output, streaming, processes, worked>>

(* EventNormalizer.handle on the next event; idle ends a turn that was     *)
(* seen to start.  "message" stands for the lines of the turn that change  *)
(* nothing of what the outcome depends on.                                 *)
Observe ==
  /\ worker = "running" /\ queue # <<>>
  /\ queue' = Tail(queue)
  /\ CASE Head(queue) = "busy" ->
            Speak("message") /\ turnStarted' = TRUE /\ UNCHANGED <<worker, fate, cancelled>>
       [] Head(queue) = "idle" ->
            (IF turnStarted THEN Goes("fetch") ELSE Goes(worker)) /\ UNCHANGED output
       [] Head(queue) = "overflow" ->
            Speak("context_exhausted") /\ Ends("context_exhausted")
       [] Head(queue) = "error" ->
            Emit("fatal") /\ Ends("fatal")
  /\ UNCHANGED <<supervising, stream, attempt, processes, conversation>>

(* A closed queue rejects once its events are taken. *)
ClosedStream ==
  /\ worker = "running" /\ queue = <<>> /\ stream = "closed"
  /\ Ends("retryable")
  /\ UNCHANGED <<supervising, output, streaming, processes, conversation>>

Deadline ==
  /\ worker = "running" /\ ~ writing /\ Ends("worker_timeout")
  /\ UNCHANGED <<supervising, output, streaming, processes, conversation>>

Cancel ==
  /\ worker = "running" /\ ~ writing /\ cancelled /\ Ends("fatal")
  /\ UNCHANGED <<supervising, output, streaming, processes, conversation>>

(* The messages of the session hold the final text. *)
FetchMessages ==
  /\ worker = "fetch"
  /\ \/ process["server"] = "up" /\ Goes("answer")
     \/ \E code \in {"retryable", "fatal"} : Ends(code)
  /\ UNCHANGED <<supervising, output, streaming, processes, conversation>>

Answer ==
  /\ worker = "answer" /\ Speak("turn_complete") /\ Ends("complete")
  /\ UNCHANGED <<supervising, streaming, processes, conversation>>

(* abort and delete of the session; their failures are ignored. *)
Teardown ==
  /\ worker = "teardown" /\ Goes("stop server")
  /\ UNCHANGED <<supervising, output, streaming, processes, conversation>>

(* stopServer: SIGTERM and then SIGKILL to the process group. *)
Stop(p) ==
  /\ worker = (CASE p = "bridge" -> "stop bridge" [] p = "server" -> "stop server")
  /\ process' = [process EXCEPT ![p] = IF @ = "up" THEN "dead" ELSE @]
  /\ Goes(CASE p = "bridge" -> "report" [] p = "server" -> "stop bridge")
  /\ UNCHANGED <<supervising, output, streaming, announced, sandboxed, conversation>>

(* main: the error line comes after everything was stopped. *)
Report ==
  /\ worker = "report"
  /\ IF fate \in Codes THEN Emit(fate) ELSE UNCHANGED output
  /\ Goes("exited")
  /\ UNCHANGED <<supervising, streaming, processes, conversation>>

WorkerStep ==
  \/ \E p \in Processes : Spawn(p) \/ Announce(p) \/ Await(p) \/ Stop(p)
  \/ Boot \/ ReadRequest \/ Verify \/ Connect \/ CreateSession \/ Prompt
  \/ BeginLine \/ Observe \/ ClosedStream \/ Deadline \/ Cancel
  \/ FetchMessages \/ Answer \/ Teardown \/ Report

-----------------------------------------------------------------------------
(* The session, the stream and the processes. *)

Deliver(event) ==
  queue' = IF stream = "open" THEN Append(queue, event) ELSE queue

SessionBusy ==
  /\ session = "prompted" /\ process["server"] = "up"
  /\ session' = "busy" /\ worked' = TRUE
  /\ Deliver("busy")
  /\ UNCHANGED <<supervising, requesting, output, stream, attempt, processes>>

SessionEnds(event) ==
  /\ session = "busy" /\ process["server"] = "up"
  /\ session' = event
  /\ Deliver(event)
  /\ UNCHANGED <<supervising, requesting, output, stream, attempt, processes, worked>>

(* The stream ends or fails; behind a dead server, or once too often, the  *)
(* queue is closed.  attempt counts over the whole rollout.                *)
Drop ==
  /\ stream = "open" /\ worker \notin Gone
  /\ attempt' = attempt + 1
  /\ stream' = IF process["server"] # "up" \/ attempt' > MaxReconnects
               THEN "closed" ELSE "dropped"
  /\ UNCHANGED <<supervising, requesting, output, queue, processes, conversation>>

(* Another GET /event; the events of the gap are not repeated. *)
Reconnect ==
  /\ stream = "dropped" /\ worker \notin Gone
  /\ IF process["server"] = "up"
     THEN stream' = "open" /\ UNCHANGED attempt
     ELSE stream' = "closed" /\ attempt' = attempt + 1
  /\ UNCHANGED <<supervising, requesting, output, queue, processes, conversation>>

ServerCrashes ==
  /\ process["server"] = "up"
  /\ process' = [process EXCEPT !["server"] = "dead"]
  /\ UNCHANGED <<supervising, requesting, output, streaming, announced, sandboxed, conversation>>

WorkerCrashes ==
  /\ worker \notin Gone
  /\ worker' = "killed"
  /\ UNCHANGED <<supervising, fate, cancelled, turnStarted, output, streaming, processes,
                 conversation>>

(* bwrap --die-with-parent; the bridge looks for the worker every 250 ms. *)
Orphaned(p) ==
  /\ sandboxed /\ worker \in Gone /\ process[p] = "up"
  /\ process' = [process EXCEPT ![p] = "dead"]
  /\ UNCHANGED <<supervising, requesting, output, streaming, announced, sandboxed, conversation>>

Environment ==
  \/ SessionBusy \/ \E e \in {"idle", "error", "overflow"} : SessionEnds(e)
  \/ Drop \/ Reconnect \/ ServerCrashes \/ WorkerCrashes
  \/ \E p \in Processes : Orphaned(p)

-----------------------------------------------------------------------------
(* The supervisor. *)

(* _handle_runner_line; what is not JSON leaves the code of an earlier     *)
(* error line as it is.                                                    *)
Handle(state, line) ==
  IF line \in Processes THEN [state EXCEPT !.pids = @ \cup {line}]
  ELSE IF line \in Codes THEN [state EXCEPT !.error = line]
  ELSE IF line = "piece"
  THEN [state EXCEPT !.malformed = TRUE, !.error = IF @ = "" THEN "malformed" ELSE @]
  ELSE IF line = "message" THEN state
  ELSE [state EXCEPT !.completed = TRUE]

Keeps == UNCHANGED <<writing, raw, requesting, streaming, processes, conversation>>

(* The request is written before the deadline counts: a large one waits    *)
(* for a worker that reads, and breaks behind one that is gone.            *)
SendRequest ==
  /\ supervisor = "request"
  /\ \/ worker \notin Gone /\ (request = "small" \/ worker = "read")
        /\ request' = "sent" /\ supervisor' = "poll" /\ UNCHANGED raised
     \/ worker \in Gone
        /\ supervisor' = "terminate" /\ raised' = TRUE /\ UNCHANGED request
  /\ UNCHANGED <<expired, timed_out, buffer, known, result, pipe>> /\ Keeps

DeadlinePasses ==
  /\ ~ expired /\ supervisor # "done"
  /\ expired' = TRUE
  /\ UNCHANGED <<supervisor, request, timed_out, raised, buffer, known, result, pipe>> /\ Keeps

(* process.poll(): behind an exit the rest of the output is read. *)
Poll ==
  /\ supervisor = "poll"
  /\ supervisor' = IF worker \in Gone THEN "drain" ELSE "clock"
  /\ UNCHANGED <<request, expired, timed_out, raised, buffer, known, result, pipe>> /\ Keeps

Clock ==
  /\ supervisor = "clock"
  /\ timed_out' = expired
  /\ supervisor' = IF expired THEN "terminate" ELSE "select"
  /\ UNCHANGED <<request, expired, raised, buffer, known, result, pipe>> /\ Keeps

(* select looks at the pipe alone, where the end of the file counts, so    *)
(* that lines may wait in the buffer for the next output.                  *)
Select ==
  /\ supervisor = "select"
  /\ supervisor' = IF pipe # <<>> \/ worker \in Gone THEN "readline" ELSE "poll"
  /\ UNCHANGED <<request, expired, timed_out, raised, buffer, known, result, pipe>> /\ Keeps

(* readline takes a chunk of the pipe when the buffer has no whole line,   *)
(* and waits for one without a deadline.                                   *)
Fill ==
  /\ supervisor = "readline" /\ buffer \in {<<>>, <<"piece">>} /\ pipe # <<>>
  /\ \E n \in 1 .. Len(pipe) :
       /\ buffer' = buffer \o SubSeq(pipe, 1, n)
       /\ pipe' = SubSeq(pipe, n + 1, Len(pipe))
  /\ UNCHANGED <<supervisor, request, expired, timed_out, raised, known, result>> /\ Keeps

(* The start of a line and the rest of it are one line.                    *)
Joins == Len(buffer) > 1 /\ Head(buffer) = "piece"

Join ==
  /\ supervisor \in {"readline", "drain"} /\ Joins
  /\ buffer' = Tail(buffer)
  /\ UNCHANGED <<supervisor, request, expired, timed_out, raised, known, result, pipe>> /\ Keeps

(* A line, or at the end of the file what there is of one.                 *)
ReadLine ==
  /\ supervisor = "readline" /\ supervisor' = "poll" /\ ~ Joins
  /\ \/ buffer # <<>> /\ (Head(buffer) # "piece" \/ (pipe = <<>> /\ worker \in Gone))
        /\ known' = Handle(known, Head(buffer)) /\ buffer' = Tail(buffer)
     \/ buffer = <<>> /\ pipe = <<>> /\ worker \in Gone /\ UNCHANGED <<buffer, known>>
  /\ UNCHANGED <<request, expired, timed_out, raised, result, pipe>> /\ Keeps

(* An interrupt, or a progress callback that fails. *)
Raise ==
  /\ supervisor \in {"request", "poll", "clock", "select", "readline", "drain"}
  /\ supervisor' = "terminate" /\ raised' = TRUE
  /\ UNCHANGED <<request, expired, timed_out, buffer, known, result, pipe>> /\ Keeps

(* _terminate_process_group: SIGTERM, a grace period, SIGKILL. *)
Terminate ==
  /\ supervisor = "terminate"
  /\ supervisor' = "grace"
  /\ cancelled' = (cancelled \/ worker \notin Gone)
  /\ UNCHANGED <<request, expired, timed_out, raised, buffer, known, result, output, worker,
                 fate, turnStarted, streaming, processes, conversation>>

(* Mutation: no SIGKILL. *)
Mut_GraceWaits ==
  /\ supervisor = "grace" /\ worker \in Gone
  /\ supervisor' = IF raised THEN "sweep" ELSE "drain"
  /\ UNCHANGED <<request, expired, timed_out, raised, buffer, known, result, pipe>> /\ Keeps

Grace ==
  /\ supervisor = "grace"
  /\ worker' = IF worker \in Gone THEN worker ELSE "killed"
  /\ supervisor' = IF raised THEN "sweep" ELSE "drain"
  /\ UNCHANGED <<request, expired, timed_out, raised, buffer, known, result, output, fate,
                 cancelled, turnStarted, streaming, processes, conversation>>

(* Mutation: only the lines already taken from the pipe are handled. *)
Mut_DrainBuffer ==
  /\ supervisor = "drain"
  /\ IF buffer = <<>>
     THEN supervisor' = "sweep" /\ UNCHANGED <<buffer, known>>
     ELSE /\ known' = Handle(known, Head(buffer)) /\ buffer' = Tail(buffer)
          /\ UNCHANGED supervisor
  /\ UNCHANGED <<request, expired, timed_out, raised, result, pipe>> /\ Keeps

(* stdout.read() takes what is in the buffer and in the pipe, to the end   *)
(* of the file: the worker alone holds the pipe.  splitlines splits it,    *)
(* and the pieces of a line are handled one by one like the lines.         *)
Drain ==
  /\ supervisor = "drain"
  /\ \/ pipe # <<>> /\ buffer' = buffer \o pipe /\ pipe' = <<>>
        /\ UNCHANGED <<supervisor, known>>
     \/ pipe = <<>> /\ buffer # <<>> /\ ~ Joins
        /\ known' = Handle(known, IF Head(buffer) \in raw THEN "piece" ELSE Head(buffer))
        /\ buffer' = Tail(buffer) /\ UNCHANGED <<supervisor, pipe>>
     \/ pipe = <<>> /\ buffer = <<>>
        /\ supervisor' = "sweep" /\ UNCHANGED <<buffer, known, pipe>>
  /\ UNCHANGED <<request, expired, timed_out, raised, result>> /\ Keeps

ReturnCode == IF worker = "exited" /\ fate \in Done THEN 0 ELSE 1

(* Mutation: the outcome is read off the lines. *)
Mut_OutcomeFromLines ==
  IF raised THEN "raised"
  ELSE IF timed_out \/ known.error = "worker_timeout" THEN "timeout"
  ELSE IF known.error # "" THEN "error"
  ELSE "completed"

Outcome ==
  IF raised THEN "raised"
  ELSE IF timed_out \/ known.error = "worker_timeout" THEN "timeout"
  ELSE IF ReturnCode # 0 \/ known.malformed THEN "error"
  ELSE "completed"

(* _kill_runtime_process_group; a group that is gone is no error. *)
Killed(pids) == [p \in Processes |-> IF p \in pids /\ process[p] = "up" THEN "dead" ELSE process[p]]

(* The finally clause: the process groups that were announced are killed. *)
Sweep ==
  /\ supervisor = "sweep" /\ supervisor' = "done"
  /\ process' = Killed(known.pids)
  /\ result' = Outcome
  /\ UNCHANGED <<request, expired, timed_out, raised, buffer, known, requesting, output,
                 streaming, announced, sandboxed, conversation>>

SupervisorStep ==
  \/ SendRequest \/ Poll \/ Clock \/ Select \/ Fill \/ Join \/ ReadLine
  \/ Terminate \/ Grace \/ Drain \/ Sweep

RunnerNext == WorkerStep \/ Environment \/ SupervisorStep \/ DeadlinePasses \/ Raise

(* The supervisor runs and time passes; nothing is assumed of the worker,  *)
(* the server or the session.                                              *)
RunnerFairness == WF_runnerVars(SupervisorStep) /\ WF_runnerVars(DeadlinePasses)

RunnerSpec == RunnerInit /\ [][RunnerNext]_runnerVars /\ RunnerFairness

-----------------------------------------------------------------------------
Lines == Processes \cup Codes \cup Spoken \cup {"piece"}
Sessions == {"none", "new", "prompted", "busy", "idle", "error", "overflow"}

RunnerTypeOK ==
  /\ supervisor \in {"request", "poll", "clock", "select", "readline", "terminate", "grace",
                     "drain", "sweep", "done"}
  /\ request \in {"small", "large", "sent"} /\ expired \in BOOLEAN /\ timed_out \in BOOLEAN /\ raised \in BOOLEAN
  /\ buffer \in Seq(Lines) /\ pipe \in Seq(Lines) /\ writing \in BOOLEAN /\ raw \subseteq Spoken
  /\ known \in [pids : SUBSET Processes, completed : BOOLEAN,
                error : {"", "malformed"} \cup Codes, malformed : BOOLEAN]
  /\ result \in {"none", "raised", "timeout", "error", "completed"}
  /\ worker \in Steps \cup Gone
  /\ fate \in {"none"} \cup Codes \cup Done
  /\ cancelled \in BOOLEAN /\ turnStarted \in BOOLEAN /\ sandboxed \in BOOLEAN
  /\ queue \in Seq({"busy", "idle", "error", "overflow"})
  /\ stream \in {"none", "open", "dropped", "closed"} /\ attempt \in 0 .. MaxReconnects + 1
  /\ process \in [Processes -> {"none", "up", "dead"}] /\ announced \subseteq Processes
  /\ session \in Sessions /\ worked \in BOOLEAN

(* A result of status "completed" is that of a session that finished its   *)
(* turn or ran out of context, with its text handled (turn_completed).     *)
(* And a worker that reported its turn and exited by itself before the     *)
(* supervisor's deadline is not reported as anything else, whatever was    *)
(* still in the pipe and however the stream dropped - but for output that  *)
(* the supervisor takes for malformed; that it never does while the worker *)
(* runs, where it reads whole lines.                                       *)
OutcomeIsTheSessions ==
  /\ result = "completed" => session \in {"idle", "overflow"} /\ known.completed
  /\ result \in {"timeout", "error"} /\ worker = "exited" /\ fate \in Done =>
       timed_out \/ known.malformed
  /\ known.malformed => worker \in Gone

(* run_opencode_rollout does not return while a process group that the     *)
(* worker announced still runs, whoever was killed in between and wherever *)
(* the announcement was: the next attempt of the rollout uses the same     *)
(* state directory.                                                        *)
NoProcessSurvives ==
  result \in {"timeout", "error", "completed"} =>
    \A p \in announced : process[p] # "up"

(* The two waits without a deadline: for a worker that does not read the   *)
(* request, and for the rest of a line.                                    *)
Held ==
  \/ supervisor = "request" /\ worker = "start"
  \/ supervisor = "readline" /\ worker \notin Gone /\ writing

(* A worker that stalls, in whatever step, or dies, does not hold the      *)
(* rollout, unless it stalls in one of the two places where the supervisor *)
(* waits for it without a deadline.                                        *)
SupervisorReturns == <>(supervisor = "done") \/ <>[]Held

(* worker.ts:75 on the codes it marks retryable: "the rollout never got to *)
(* do real work".  The code marks a closed event stream and an API timeout *)
(* of a session that ran.                                                  *)
RetriedRolloutsDidNoWork ==
  result = "error" /\ known.error = "retryable" => ~ worked
=============================================================================
