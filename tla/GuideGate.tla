------------------------------ MODULE GuideGate ------------------------------
(***************************************************************************)
(* The cumulative mode of directory guidance in an OpenCode rollout: the   *)
(* plugin's callback queue, latch and request projection                   *)
(* (workers/opencode/spawn_bridge.ts), the hook processes that claim guides*)
(* in the rollout's ledger (utils/directory_agents_hook.py), and worker    *)
(* attempts that share the ledger.                                         *)
(*                                                                         *)
(* A guide is <<directory, revision>>; revision 0 is no eligible AGENTS.md.*)
(* Which directories a call touches is ShellScopes' subject.  The OpenCode *)
(* host is external: it sends a request when the calls of the last response*)
(* have ended, and may run the callback after a tool late.                 *)
(***************************************************************************)
EXTENDS Integers, Sequences

CONSTANTS
  Dirs,         \* managed directories
  Root,         \* the rollout's own directory
  Calls,        \* tool calls the model wants to make, each until it has run
  Revisions,    \* Revisions[d]: bound on the revisions of d's guide
  MaxMessages,  \* bound: conversation messages; never reached
  MaxAttempts   \* 1 + --opencode-worker-max-retries

ASSUME GateAssumption ==
  /\ Root \in Dirs
  /\ Revisions \in [Dirs -> Nat \ {0}] /\ MaxMessages \in Nat \ {0} /\ MaxAttempts \in Nat \ {0}

VARIABLES
  revision,  \* revision[d]: the guide in directory d
  ledger,    \* directory_agents_seen
  queue,     \* gateQueues: [call, phase] in arrival order, the head is served
  hook_process,  \* the head's hook process: none, or claimed when its answer is due
  claimed,   \* guides that hook has claimed
  system,    \* guides in the system instructions of the session
  managed,   \* managedContexts: [guides, anchor]; anchor 0 is not yet projected
  latch,     \* is the session in deferredSessions?
  messages,  \* conversation messages
  turn,      \* "infer" while a request is out, else "act"
  stage,     \* stage[c]: idle, asked, queued, running or done
  scope,     \* scope[c]: directories that c touches
  after,     \* after[c]: the callback after c is none, due or queued
  attempt,   \* worker attempt
  sent,      \* the last request: its messages and groups of guides, placed
  visible,   \* history: guides in the request that the response with c answers
  needed,    \* history: guides that the hook before c found
  lost       \* history: guides claimed by a dead hook or by an earlier attempt

plugin == <<queue, hook_process, claimed, system, managed, latch>>
host == <<messages, turn, stage, scope, after, attempt>>
history == <<sent, visible, needed, lost>>
gateVars == <<revision, ledger, plugin, host, history>>

Guides == UNION {{d} \X (1 .. Revisions[d]) : d \in Dirs}
Phases == {"before", "after"}

GateTypeOK ==
  /\ revision \in [Dirs -> Nat] /\ \A d \in Dirs : revision[d] <= Revisions[d]
  /\ ledger \in SUBSET Guides
  /\ queue \in Seq([call : Calls, phase : Phases])
  /\ hook_process \in {"none", "claimed"} /\ claimed \in SUBSET Guides
  /\ system \in SUBSET Guides /\ latch \in BOOLEAN
  /\ managed \in Seq([guides : SUBSET Guides, anchor : 0 .. MaxMessages])
  /\ messages \in 1 .. MaxMessages /\ turn \in {"infer", "act"}
  /\ stage \in [Calls -> {"idle", "asked", "queued", "running", "done"}]
  /\ scope \in [Calls -> SUBSET Dirs]
  /\ after \in [Calls -> {"none", "due", "queued"}]
  /\ attempt \in 1 .. MaxAttempts
  /\ lost \in SUBSET Guides
  /\ visible \in [Calls -> SUBSET Guides] /\ needed \in [Calls -> SUBSET Guides]

-----------------------------------------------------------------------------
(* _read_agents: the eligible guides of some directories. *)
Loaded(dirs) == {<<d, revision[d]>> : d \in {d \in dirs : revision[d] # 0}}

(* Mutation: what an earlier request showed is claimed again. *)
Mut_Unseen(dirs) == Loaded(dirs) \ system

(* _claim_unseen, under the ledger's lock and fsynced before any answer. *)
Unseen(dirs) == Loaded(dirs) \ ledger

Injected(entries) == UNION {entries[k].guides : k \in DOMAIN entries}

(* The managed guides that a request has projected. *)
Shown == UNION {managed[k].guides : k \in {k \in DOMAIN managed : managed[k].anchor # 0}}

(* A session with nothing in it, for the worker attempt that is starting. *)
NewSession ==
  /\ queue' = << >> /\ hook_process' = "none" /\ claimed' = {} /\ managed' = << >> /\ latch' = FALSE
  /\ messages' = 1 /\ turn' = "act"
  /\ stage' = [c \in Calls |-> "idle"] /\ scope' = [c \in Calls |-> {}]
  /\ after' = [c \in Calls |-> "none"] /\ needed' = [c \in Calls |-> {}]
  /\ sent' = {} /\ visible' = [c \in Calls |-> {}]

(* The root guide is claimed for the system instructions. *)
GateInit ==
  /\ revision \in [Dirs -> 0 .. 1]
  /\ ledger = Loaded({Root}) /\ system = ledger /\ lost = {}
  /\ attempt = 1
  /\ queue = << >> /\ hook_process = "none" /\ claimed = {} /\ managed = << >> /\ latch = FALSE
  /\ messages = 1 /\ turn = "act"
  /\ stage = [c \in Calls |-> "idle"] /\ scope = [c \in Calls |-> {}]
  /\ after = [c \in Calls |-> "none"] /\ needed = [c \in Calls |-> {}]
  /\ sent = {} /\ visible = [c \in Calls |-> {}]

(* Someone writes or removes a guide. *)
Edit(d) ==
  /\ revision' \in {[revision EXCEPT ![d] = r] : r \in 0 .. Revisions[d]}
  /\ UNCHANGED <<ledger, plugin, host, history>>

-----------------------------------------------------------------------------
(* The projection of a request as a set of items, each with its place:     *)
(* every group of guides follows the message that was the last one when it *)
(* was first projected, in the order of activation.                        *)
Request(entries, last) ==
  {[message |-> m, place |-> 0, guides |-> {}] : m \in 1 .. last}
  \cup {[message |-> entries[k].anchor, place |-> k, guides |-> entries[k].guides] :
           k \in DOMAIN entries}

Precedes(i, j) == i.message < j.message \/ (i.message = j.message /\ i.place < j.place)

(* Mutation: everything managed moves to the last message. *)
Mut_AnchoredAgain == [k \in DOMAIN managed |-> [managed[k] EXCEPT !.anchor = messages]]

Anchored == [k \in DOMAIN managed |->
  IF managed[k].anchor = 0 THEN [managed[k] EXCEPT !.anchor = messages] ELSE managed[k]]

Ended(c) == stage[c] \in {"idle", "done"}

(* Mutation: the latch waits for the system transform and stays. *)
Mut_ProjectKeepsLatch ==
  /\ turn = "act" /\ queue = << >>
  /\ \A c \in Calls : Ended(c)
  /\ managed' = Anchored
  /\ sent' = Request(managed', messages)
  /\ turn' = "infer"
  /\ UNCHANGED <<revision, ledger, queue, hook_process, claimed, system, latch, messages, stage, scope, after, attempt, visible, needed, lost>>

(* messages.transform: waits until the queue is empty, anchors what is new *)
(* at the last message and releases the latch last.                        *)
Project ==
  /\ turn = "act" /\ queue = << >>
  /\ \A c \in Calls : Ended(c)
  /\ managed' = Anchored
  /\ sent' = Request(managed', messages)
  /\ latch' = FALSE /\ turn' = "infer"
  /\ UNCHANGED <<revision, ledger, queue, hook_process, claimed, system, messages, stage, scope, after, attempt, visible, needed, lost>>

(* The request fails on its way and the host builds it again. *)
RetryRequest ==
  /\ turn = "infer"
  /\ turn' = "act"
  /\ UNCHANGED <<revision, ledger, plugin, messages, stage, scope, after, attempt, history>>

(* The model answers with tool calls, of any scopes, for work that has not *)
(* run yet.                                                                *)
Respond ==
  /\ turn = "infer" /\ messages < MaxMessages
  /\ \E asked \in (SUBSET {c \in Calls : stage[c] = "idle"}) \ {{}} :
       /\ stage' = [c \in Calls |-> IF c \in asked THEN "asked" ELSE stage[c]]
       /\ \E s \in [asked -> SUBSET Dirs] :
            scope' = [c \in Calls |-> IF c \in asked THEN s[c] ELSE scope[c]]
       /\ visible' = [c \in Calls |-> IF c \in asked THEN system \cup Shown ELSE visible[c]]
  /\ turn' = "act" /\ messages' = messages + 1
  /\ UNCHANGED <<revision, ledger, plugin, after, attempt, sent, needed, lost>>

(* tool.execute.before and tool.execute.after arrive. *)
EnqueueBefore(c) ==
  /\ stage[c] = "asked"
  /\ stage' = [stage EXCEPT ![c] = "queued"]
  /\ queue' = Append(queue, [call |-> c, phase |-> "before"])
  /\ UNCHANGED <<revision, ledger, hook_process, claimed, system, managed, latch, messages, turn, scope, after, attempt, history>>

EnqueueAfter(c) ==
  /\ after[c] = "due"
  /\ after' = [after EXCEPT ![c] = "queued"]
  /\ queue' = Append(queue, [call |-> c, phase |-> "after"])
  /\ UNCHANGED <<revision, ledger, hook_process, claimed, system, managed, latch, messages, turn, stage, scope, attempt, history>>

(* Clears the history of a call that is no longer running. *)
Forget(c) ==
  /\ visible' = [visible EXCEPT ![c] = {}]
  /\ needed' = [needed EXCEPT ![c] = {}]

Finish(c) ==
  /\ stage[c] = "running"
  /\ stage' = [stage EXCEPT ![c] = "done"]
  /\ after' = [after EXCEPT ![c] = "due"]
  /\ Forget(c)
  /\ UNCHANGED <<revision, ledger, plugin, messages, turn, scope, attempt, sent, lost>>

Serving(phase) == queue # << >> /\ Head(queue).phase = phase

(* A call that meets the latch is denied without asking the hook. *)
Deny ==
  /\ Serving("before") /\ hook_process = "none" /\ latch
  /\ stage' = [stage EXCEPT ![Head(queue).call] = "idle"]
  /\ scope' = [scope EXCEPT ![Head(queue).call] = {}]
  /\ Forget(Head(queue).call)
  /\ queue' = Tail(queue)
  /\ UNCHANGED <<revision, ledger, hook_process, claimed, system, managed, latch, messages, turn, after, attempt, sent, lost>>

(* The hook process reads the guides of the call and claims the new ones. *)
Claim(phase) ==
  /\ Serving(phase) /\ hook_process = "none" /\ (phase = "before" => ~latch)
  /\ LET c == Head(queue).call IN
       /\ claimed' = Unseen(scope[c])
       /\ ledger' = ledger \cup claimed'
       /\ needed' = IF phase = "before" THEN [needed EXCEPT ![c] = Loaded(scope[c])] ELSE needed
  /\ hook_process' = "claimed"
  /\ UNCHANGED <<revision, queue, system, managed, latch, host, sent, visible, lost>>

(* Mutation: the plugin latches for a denied call only. *)
Mut_Activate(guides) ==
  IF guides = {} THEN UNCHANGED <<managed, latch>>
  ELSE /\ managed' = Append(managed, [guides |-> guides, anchor |-> 0])
       /\ latch' = (latch \/ Head(queue).phase = "before")

(* activate: new guides join the session and latch it. *)
Activate(guides) ==
  IF guides = {} THEN UNCHANGED <<managed, latch>>
  ELSE /\ managed' = Append(managed, [guides |-> guides, anchor |-> 0])
       /\ latch' = TRUE

ServedHead == queue' = Tail(queue) /\ hook_process' = "none" /\ claimed' = {}

AnswerBefore ==
  /\ Serving("before") /\ hook_process = "claimed"
  /\ Activate(claimed)
  /\ LET c == Head(queue).call IN
       IF latch' THEN /\ stage' = [stage EXCEPT ![c] = "idle"]
                      /\ scope' = [scope EXCEPT ![c] = {}]
                      /\ Forget(c)
       ELSE /\ stage' = [stage EXCEPT ![c] = "running"]
            /\ UNCHANGED <<scope, visible, needed>>
  /\ ServedHead
  /\ UNCHANGED <<revision, ledger, system, messages, turn, after, attempt, sent, lost>>

AnswerAfter ==
  /\ Serving("after") /\ hook_process = "claimed"
  /\ Activate(claimed)
  /\ after' = [after EXCEPT ![Head(queue).call] = "none"]
  /\ scope' = [scope EXCEPT ![Head(queue).call] = {}]
  /\ ServedHead
  /\ UNCHANGED <<revision, ledger, system, messages, turn, stage, attempt, history>>

(* The hook dies, is killed after its timeout or says nothing usable,      *)
(* before or after it has claimed: the answer is empty, the call is        *)
(* admitted.                                                               *)
HookFails ==
  /\ queue # << >> /\ (Serving("before") => ~latch)
  /\ lost' = lost \cup claimed
  /\ LET c == Head(queue).call IN
       IF Serving("before")
       THEN stage' = [stage EXCEPT ![c] = "running"] /\ UNCHANGED <<after, scope>>
       ELSE /\ after' = [after EXCEPT ![c] = "none"] /\ UNCHANGED stage
            /\ scope' = [scope EXCEPT ![c] = {}]
  /\ ServedHead
  /\ UNCHANGED <<revision, ledger, system, managed, latch, messages, turn, attempt, sent, visible, needed>>

(* The worker fails and is retried in a new session: the ledger stays in   *)
(* the control directory, the rollout's directory is emptied.              *)
RetryWorker ==
  /\ attempt < MaxAttempts /\ \E c \in Calls : stage[c] # "done"
  /\ attempt' = attempt + 1
  /\ revision' = [revision EXCEPT ![Root] = 0]
  /\ lost' = ledger /\ system' = {}
  /\ NewSession
  /\ UNCHANGED ledger

Serve == Deny \/ AnswerBefore \/ AnswerAfter \/ \E phase \in Phases : Claim(phase)

GateNext ==
  \/ Project \/ RetryRequest \/ Respond \/ Serve \/ HookFails \/ RetryWorker
  \/ \E c \in Calls : EnqueueBefore(c) \/ EnqueueAfter(c) \/ Finish(c)
  \/ \E d \in Dirs : Edit(d)

(* Callbacks and hooks are served, tools end, requests are answered in the *)
(* end however often they are repeated, the model goes on until its calls  *)
(* have run.  Nobody must edit, fail or retry.                             *)
Fairness ==
  /\ WF_gateVars(Serve) /\ WF_gateVars(Project) /\ SF_gateVars(Respond)
  /\ \A c \in Calls : WF_gateVars(EnqueueBefore(c)) /\ WF_gateVars(EnqueueAfter(c)) /\ WF_gateVars(Finish(c))

GateSpec == GateInit /\ [][GateNext]_gateVars /\ Fairness

-----------------------------------------------------------------------------
(* Docs (directory-guidance-decay.md:13-22): a tool runs only for a model  *)
(* that has seen the guides of the directories it touches.  Whatever the   *)
(* hook found for an admitted call was in the request that the call        *)
(* answers, or its delivery was lost with a hook or an attempt.            *)
IssuerSawGuides ==
  \A c \in Calls : stage[c] = "running" => needed[c] \subseteq visible[c] \cup lost

(* Docs (directory-guidance-decay.md:81): the ledger accounts for every    *)
(* guide exactly once: shown at the start, activated once, on its way from *)
(* the hook, or lost.                                                      *)
LedgerAccounts ==
  /\ ledger = system \cup claimed \cup lost \cup Injected(managed)
  /\ system \cap claimed = {} /\ system \cap lost = {} /\ claimed \cap lost = {}
  /\ (system \cup claimed \cup lost) \cap Injected(managed) = {}
  /\ \A j, k \in DOMAIN managed : j # k => managed[j].guides \cap managed[k].guides = {}

(* Docs (directory-guidance-decay.md:68-77): a later request only adds to  *)
(* an earlier one of the session; no guide moves, vanishes or is inserted  *)
(* before what was already sent.                                           *)
RequestsGrow == [][attempt' = attempt =>
                       /\ sent \subseteq sent'
                       /\ \A i \in sent, j \in sent' \ sent : Precedes(i, j)]_gateVars

(* A denied call is reissued and runs at last: denials come to an end      *)
(* although guides go on changing, since a revision denies only once.      *)
CallsRun == <>(\A c \in Calls : stage[c] = "done")

=============================================================================
