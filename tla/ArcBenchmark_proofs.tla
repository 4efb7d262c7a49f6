------------------------- MODULE ArcBenchmark_proofs -------------------------
(* Proofs about the ARC-AGI benchmark, for any rollouts, games, actions,   *)
(* commands and batches.  What has to hold of one rollout is Good(r).  A   *)
(* step of its command server changes of another rollout at most the line  *)
(* that was the incomplete end of the shared log.                          *)
EXTENDS ArcBenchmark, TLAPS, FiniteSetTheorems

(* The actions of a rollout that a reader of the log finds. *)
Acts(r) == {l \in LinesOf(r) : l.command \in Actions}
Count(r) == Cardinality(Acts(r))

(* The session, its environment, its lines and the command under way are   *)
(* of one game.                                                            *)
Identity(r) ==
  LET at == mcp[r].at IN
  /\ session[r] # NoSession => game[r] # NoGame /\ game[r].item = session[r].item
  /\ session[r] = NoSession => lost[r] = 0
  /\ \A l \in LinesOf(r) : session[r] # NoSession /\ l.item = session[r].item
  /\ IsAction(r) => session[r] # NoSession
  /\ at \in {"asked", "answered", "rendered"} /\ session[r] # NoSession =>
       mcp[r].item = session[r].item
  /\ at \in {"answered", "rendered"} => game[r] # NoGame /\ game[r].item = mcp[r].item
  /\ at \in {"saved", "published"} =>
       /\ session[r] # NoSession
       /\ mcp[r].item = session[r].item /\ mcp[r].state = session[r].state

(* Events have steps up to the session's; the step just saved has none. *)
Steps(r) ==
  /\ \A l \in LinesOf(r) : l.command # "SELECT" => l.step <= session[r].step
  /\ mcp[r].at = "saved" => \A l \in LinesOf(r) : l.command # "SELECT" => l.step # session[r].step

(* Every WIN that is written anywhere was seen by the server. *)
Wins(r) ==
  /\ session[r] # NoSession /\ session[r].state = "WIN" => session[r].item \in won
  /\ \A l \in LinesOf(r) : l.state = "WIN" => l.item \in won /\ l.command \in Actions
  /\ mcp[r].at \in {"answered", "rendered"} /\ mcp[r].state = "WIN" => mcp[r].item \in won
  /\ mcp[r].at \in {"answered", "rendered", "saved", "published"} /\ mcp[r].state = "WIN" => IsAction(r)

(* A WIN that is told has its event, or the log had an incomplete end that *)
(* cost the rollout an event.                                              *)
Shown(r) ==
  \/ \E l \in LinesOf(r) : l.state = "WIN"
  \/ cut /\ lost[r] > 0

Told(r) ==
  outcome[r] = NoOutcome =>
    /\ mcp[r].at = "published" /\ mcp[r].state = "WIN" => Shown(r)
    /\ r \in told => Shown(r)

(* The action that the server has executed and that is neither published   *)
(* nor lost yet.                                                           *)
Owed(r) == IF IsAction(r) /\ mcp[r].at \in {"answered", "rendered", "saved"} THEN 1 ELSE 0

Tally(r) ==
  phase = "active" /\ outcome[r] = NoOutcome /\ game[r] # NoGame =>
    game[r].actions = Count(r) + lost[r] + Owed(r)

(* What an outcome says, once the rollout is at rest. *)
Judged(r) ==
  /\ outcome[r] # NoOutcome => mcp[r].at = "off"
  /\ outcome[r] \in Outcomes =>
       /\ session[r] # NoSession
       /\ outcome[r].item = session[r].item
       /\ r \in told /\ outcome[r].read /\ ~cut => outcome[r].solved
       /\ r \in told /\ ~outcome[r].solved => ~outcome[r].consistent
       /\ outcome[r].solved => outcome[r].item \in won
       /\ outcome[r].consistent => lost[r] = 0
       /\ outcome[r].available /\ outcome[r].read /\ lost[r] = 0 => outcome[r].consistent

Good(r) == Identity(r) /\ Steps(r) /\ Wins(r) /\ Told(r) /\ Tally(r) /\ Judged(r)

(* An action whose line is the log's end is nowhere else in the log. *)
LogInv ==
  /\ IsFiniteSet(log)
  /\ tail \in Lines /\ tail.command \in Actions => tail \notin log
  /\ tail # Clean => cut

Ledger ==
  /\ ledger \subseteq won
  /\ phase = "finalized" => SolvedItems \subseteq ledger

IInv == TypeOK /\ LogInv /\ Ledger /\ \A r \in Rollouts : Good(r)

-----------------------------------------------------------------------------
LEMMA Names ==
  /\ "RESET" \notin Actions /\ "SELECT" \notin Actions /\ "SELECT" \notin Commands
  /\ NoSession \notin Sessions /\ NoGame \notin Games
  /\ NoOutcome \notin Outcomes /\ Failed \notin Outcomes
  /\ Unattempted \notin Outcomes /\ Unavailable \notin Outcomes
  /\ NoOutcome # Failed /\ NoOutcome # Unattempted /\ NoOutcome # Unavailable
  /\ Clean # Torn /\ Clean \notin Lines /\ Torn \notin Lines
<1>1. /\ "RESET" \notin Actions /\ "SELECT" \notin Actions /\ "SELECT" \notin Commands
  BY ArcAssumption DEF Commands
<1>2. NoSession \notin Sessions /\ NoGame \notin Games
  BY ArcAssumption DEF Sessions, Games, States
<1>3. /\ NoOutcome \notin Outcomes /\ Failed \notin Outcomes
      /\ Unattempted \notin Outcomes /\ Unavailable \notin Outcomes
      /\ NoOutcome # Failed /\ NoOutcome # Unattempted /\ NoOutcome # Unavailable
  BY ArcAssumption DEF Outcomes
<1>4. Commands \cup {"SELECT"} = Actions \cup {"RESET", "SELECT"}
  BY DEF Commands
<1>5. Clean # Torn /\ Clean \notin Lines /\ Torn \notin Lines
  BY <1>4, ArcAssumption DEF Lines, States
<1> QED BY <1>1, <1>2, <1>3, <1>5

LEMMA AtRest ==
  ASSUME NEW stage \in Stages
  PROVE /\ Resting(stage) \in [at : Stages, command : Commands, item : Items, state : States]
        /\ Resting(stage).at = stage /\ Resting(stage).command = "RESET"
        /\ Resting(stage).state = "PLAY"
<1>1. (CHOOSE i \in Items : TRUE) \in Items
  BY ArcAssumption
<1> QED BY <1>1 DEF Resting, Commands, States

(* With one game per rollout the accounting counts all of its actions.     *)
LEMMA Counting ==
  ASSUME NEW r, LogInv
  PROVE /\ IsFiniteSet(Readable) /\ IsFiniteSet(Acts(r)) /\ Count(r) \in Nat
        /\ Identity(r) => Accounted(r) = Count(r)
<1>1. {tail} \cap Lines \in SUBSET {tail}
  OBVIOUS
<1>2. IsFiniteSet({tail} \cap Lines)
  BY <1>1, FS_Singleton, FS_Subset
<1>3. IsFiniteSet(Readable)
  BY <1>2, FS_Union DEF Readable, LogInv
<1>4. Acts(r) \in SUBSET Readable
  BY DEF Acts, LinesOf
<1>5. IsFiniteSet(Acts(r))
  BY <1>3, <1>4, FS_Subset
<1>6. ASSUME Identity(r) PROVE Accounted(r) = Count(r)
  <2>1. {l \in LinesOf(r) : l.item = session[r].item /\ l.command \in Actions} = Acts(r)
    BY <1>6 DEF Acts, Identity
  <2> QED BY <2>1 DEF Accounted, Count
<1> QED BY <1>3, <1>5, <1>6, FS_CardinalityType DEF Count

(* A rollout with nothing in it. *)
Blank(r, stage) ==
  /\ game[r] = NoGame /\ session[r] = NoSession
  /\ LinesOf(r) = {} /\ outcome[r] = NoOutcome
  /\ mcp[r].at = stage /\ mcp[r].command = "RESET"
  /\ r \notin told /\ lost[r] = 0

LEMMA BlankIsGood ==
  ASSUME NEW r, NEW stage \in {"idle", "off"}, Blank(r, stage)
  PROVE Good(r)
BY Names DEF Blank, Good, Identity, Steps, Wins, Told, Tally, Judged, IsAction

LEMMA InitInv == Init => IInv
<1> SUFFICES ASSUME Init PROVE IInv
    OBVIOUS
<1>1. \A r \in Rollouts : Blank(r, "off")
  BY AtRest, Names DEF Init, Fresh, Blank, LinesOf, Readable, Stages
<1>2. \A r \in Rollouts : Good(r)
  BY <1>1, BlankIsGood
<1>3. TypeOK
  BY AtRest DEF Init, Fresh, TypeOK, Stages
<1>4. LogInv
  BY FS_EmptySet, Names DEF Init, Fresh, LogInv
<1> QED BY <1>2, <1>3, <1>4 DEF IInv, Ledger, Init

LEMMA PrepareKeeps == IInv /\ Prepare => IInv'
<1> SUFFICES ASSUME IInv, Prepare PROVE IInv'
    OBVIOUS
<1>1. tail' \in {Clean, Torn} /\ log' = {} /\ cut' = (tail # Clean) /\ (tail' # Clean => tail # Clean)
  BY DEF Prepare
<1>2. \A r \in Rollouts : Blank(r, "idle")'
  <2>1. TAKE r \in Rollouts
  <2>2. LinesOf(r)' = {}
    BY <1>1, Names DEF LinesOf, Readable
  <2>3. mcp'[r].at = "idle" /\ mcp'[r].command = "RESET"
    BY AtRest DEF Prepare, Stages
  <2> QED BY <2>2, <2>3 DEF Prepare, Blank
<1>3. \A r \in Rollouts : Good(r)'
  <2>1. TAKE r \in Rollouts
  <2> QED BY <1>2, Names DEF Blank, Good, Identity, Steps, Wins, Told, Tally, Judged, IsAction
<1>4. TypeOK'
  BY <1>1, AtRest DEF Prepare, IInv, TypeOK, Stages
<1>5. LogInv'
  BY <1>1, FS_EmptySet, Names DEF LogInv
<1> QED BY <1>3, <1>4, <1>5 DEF IInv, Ledger, Prepare

-----------------------------------------------------------------------------
(* Steps of one rollout. *)

Same(q) ==
  /\ game'[q] = game[q] /\ session'[q] = session[q]
  /\ mcp'[q] = mcp[q] /\ outcome'[q] = outcome[q]
  /\ lost'[q] = lost[q] /\ (q \in told' <=> q \in told)

(* The log as it is. *)
LogKept == log' = log /\ tail' = tail /\ cut' = cut

LEMMA Untouched ==
  ASSUME LogKept
  PROVE /\ \A q : LinesOf(q)' = LinesOf(q) /\ Acts(q)' = Acts(q) /\ Count(q)' = Count(q)
        /\ cut' = cut
BY DEF LogKept, LinesOf, Readable, Acts, Count

LEMMA OthersKeep ==
  ASSUME NEW q, Good(q), Same(q), LogKept, phase' = phase, won \subseteq won'
  PROVE Good(q)'
<1>1. LinesOf(q)' = LinesOf(q) /\ Count(q)' = Count(q) /\ cut' = cut
  BY Untouched
<1>2. Identity(q)'
  BY <1>1 DEF Good, Same, Identity, IsAction
<1>3. Steps(q)' /\ Wins(q)'
  BY <1>1 DEF Good, Same, Steps, Wins, IsAction
<1>4. Tally(q)'
  BY <1>1 DEF Good, Same, Tally, Owed, IsAction
<1>5. Told(q)'
  BY <1>1 DEF Good, Same, Told, Shown
<1>6. Judged(q)'
  BY <1>1 DEF Good, Same, Judged
<1> QED BY <1>2, <1>3, <1>4, <1>5, <1>6 DEF Good

LEMMA OneRollout ==
  ASSUME IInv, NEW r \in Rollouts, TypeOK', Good(r)', LogKept,
         phase = "active", UNCHANGED <<phase, ledger>>, won \subseteq won',
         \A q \in Rollouts \ {r} : Same(q)
  PROVE IInv'
<1>1. \A q \in Rollouts \ {r} : Good(q)'
  BY OthersKeep DEF IInv
<1>2. LogInv'
  BY DEF IInv, LogInv, LogKept
<1> QED BY <1>1, <1>2 DEF IInv, Ledger

(* The command server starts, ends or gives up a command. *)
Moves(r) ==
  /\ phase = "active" /\ UNCHANGED <<driver, game, session, outcome, told, won>> /\ LogKept
  /\ asked' \in [Rollouts -> Nat] /\ artifacts' \in [Rollouts -> SUBSET (Nat \X Commands)]
  /\ mcp' = [mcp EXCEPT ![r] = mcp'[r]]
  /\ lost' = [lost EXCEPT ![r] = lost'[r]]

LEMMA MovesKeep ==
  ASSUME IInv, NEW r \in Rollouts, Moves(r),
         mcp'[r] \in [at : Stages, command : Commands, item : Items, state : States],
         lost'[r] \in Nat, Good(r)'
  PROVE IInv'
<1>1. TypeOK'
  BY DEF Moves, LogKept, driver, IInv, TypeOK
<1>2. \A q \in Rollouts \ {r} : Same(q)
  BY DEF Moves, Same, IInv, TypeOK
<1> QED BY <1>1, <1>2, OneRollout DEF Moves, driver

LEMMA AskKeeps ==
  ASSUME IInv, NEW r \in Rollouts, At(r, "idle"), NEW command \in Commands, NEW item \in Items,
         NEW state \in States,
         command \in Actions => session[r] # NoSession,
         session[r] # NoSession => session[r].item = item,
         mcp' = [mcp EXCEPT ![r] = [at |-> "asked", command |-> command,
                                    item |-> item, state |-> state]],
         asked' = [asked EXCEPT ![r] = @ + 1],
         UNCHANGED <<driver, game, session, artifacts, events, outcome, told, lost, won>>
  PROVE IInv'
<1>1. mcp'[r] = [at |-> "asked", command |-> command, item |-> item, state |-> state]
  BY DEF IInv, TypeOK
<1>2. Moves(r)
  <2>1. asked[r] + 1 \in Nat
    BY DEF IInv, TypeOK
  <2> QED BY <1>1, <2>1 DEF Moves, At, LogKept, events, IInv, TypeOK
<1>3. /\ mcp'[r].at = "asked" /\ mcp'[r].command = command /\ mcp'[r].item = item
      /\ mcp[r].at = "idle"
  BY <1>1 DEF At
<1>4. LinesOf(r)' = LinesOf(r) /\ Count(r)' = Count(r) /\ cut' = cut
  BY <1>2, Untouched DEF Moves
<1>5. Identity(r)'
  BY <1>3, <1>4 DEF IInv, Good, Identity, IsAction
<1>6. Steps(r)' /\ Wins(r)'
  BY <1>3, <1>4 DEF IInv, Good, Steps, Wins
<1>7. Tally(r)' /\ Told(r)'
  BY <1>2, <1>3, <1>4 DEF IInv, Good, Tally, Told, Shown, Owed, Moves, driver
<1>8. Judged(r)'
  BY <1>3, <1>4 DEF IInv, Good, Judged
<1>9. Good(r)'
  BY <1>5, <1>6, <1>7, <1>8 DEF Good
<1> QED BY <1>1, <1>2, <1>9, MovesKeep DEF Stages, IInv, TypeOK

(* A command is given up at any stage, or the server stops. *)
LEMMA RestKeeps ==
  ASSUME IInv, NEW r \in Rollouts, NEW stage \in {"idle", "off"},
         phase = "active", mcp[r].at # "off",
         Rest(r, stage), IF Owed(r) = 1 THEN lost' = [lost EXCEPT ![r] = @ + 1] ELSE lost' = lost,
         artifacts' \in [Rollouts -> SUBSET (Nat \X Commands)],
         UNCHANGED <<driver, asked, game, session, events, outcome, told, won>>
  PROVE IInv'
<1>1. mcp'[r] = Resting(stage)
  BY DEF IInv, TypeOK, Rest
<1>2. /\ mcp'[r].at = stage /\ mcp'[r].command = "RESET"
      /\ mcp'[r] \in [at : Stages, command : Commands, item : Items, state : States]
  BY <1>1, AtRest DEF Stages
<1>3. lost[r] \in Nat /\ lost'[r] = lost[r] + Owed(r) /\ lost'[r] \in Nat /\ Owed(r) \in {0, 1}
  BY DEF IInv, TypeOK, Owed
<1>4. Moves(r)
  BY <1>3 DEF Moves, LogKept, events, Rest, IInv, TypeOK
<1>5. Owed(r)' = 0
  BY <1>2, Names DEF Owed, IsAction
<1>6. LinesOf(r)' = LinesOf(r) /\ Count(r)' = Count(r) /\ cut' = cut /\ Count(r) \in Nat
  BY <1>4, Untouched, Counting DEF Moves, IInv
<1>7. Tally(r)'
  BY <1>3, <1>5, <1>6 DEF IInv, Good, Tally, driver
<1>8. Told(r)'
  BY <1>2, <1>3, <1>6 DEF IInv, Good, Told, Shown
<1>9. outcome[r] = NoOutcome
  BY DEF IInv, Good, Judged
<1>10. Judged(r)'
  BY <1>9, Names DEF Judged
<1>11. Identity(r)'
  BY <1>2, <1>3, <1>6, Names DEF IInv, Good, Identity, Owed, IsAction
<1>12. Steps(r)' /\ Wins(r)'
  BY <1>2, <1>6 DEF IInv, Good, Steps, Wins
<1> QED BY <1>2, <1>3, <1>4, <1>7, <1>8, <1>10, <1>11, <1>12, MovesKeep DEF Good

(* The server executes the command. *)
LEMMA Executed ==
  ASSUME IInv, NEW r \in Rollouts, NEW state \in States, Execute(r, state)
  PROVE /\ game'[r] \in Games /\ game'[r].item = mcp[r].item /\ game'[r].state = state
        /\ game'[r].actions = (IF session[r] = NoSession THEN 0
                               ELSE IF IsAction(r) THEN game[r].actions + 1 ELSE game[r].actions)
        /\ session[r] # NoSession => game[r] \in Games
        /\ game' \in [Rollouts -> Games \cup {NoGame}]
        /\ \A q \in Rollouts \ {r} : game'[q] = game[q]
        /\ won' \in SUBSET Items /\ won \subseteq won'
        /\ state = "WIN" => mcp[r].item \in won'
<1>1. mcp[r].item \in Items /\ mcp[r].at = "asked" /\ game \in [Rollouts -> Games \cup {NoGame}]
  BY DEF Execute, At, IInv, TypeOK
<1>2. CASE session[r] = NoSession
  <2>1. game' = [game EXCEPT ![r] = [item |-> mcp[r].item, state |-> state, actions |-> 0]]
    BY <1>2 DEF Execute
  <2>2. [item |-> mcp[r].item, state |-> state, actions |-> 0] \in Games
    BY <1>1 DEF Games
  <2> QED BY <1>1, <1>2, <2>1, <2>2 DEF Execute, IInv, TypeOK
<1>3. CASE session[r] # NoSession
  <2>1. game[r] \in Games /\ game[r].item = mcp[r].item
    BY <1>1, <1>3 DEF IInv, Good, Identity
  <2>2. game' = [game EXCEPT ![r] = [item |-> game[r].item, state |-> state,
                   actions |-> game[r].actions + IF IsAction(r) THEN 1 ELSE 0]]
    BY <1>3 DEF Execute
  <2>3. /\ game[r].item \in Items /\ game[r].actions \in Nat
        /\ game[r].actions + (IF IsAction(r) THEN 1 ELSE 0) \in Nat
    BY <2>1 DEF Games
  <2>4. [item |-> game[r].item, state |-> state,
         actions |-> game[r].actions + IF IsAction(r) THEN 1 ELSE 0] \in Games
    BY <2>3 DEF Games
  <2> QED BY <1>1, <1>3, <2>1, <2>2, <2>3, <2>4 DEF Execute, IInv, TypeOK
<1> QED BY <1>2, <1>3

(* A first RESET finds nothing counted. *)
LEMMA NothingYet ==
  ASSUME IInv, NEW r \in Rollouts, session[r] = NoSession
  PROVE Count(r) = 0 /\ lost[r] = 0 /\ ~IsAction(r)
<1>1. Acts(r) = {}
  BY DEF IInv, Good, Identity, Acts
<1> QED BY <1>1, FS_EmptySet DEF Count, IInv, Good, Identity

(* Answered or not, what the server has counted is owed or lost.           *)
LEMMA Counted ==
  ASSUME IInv, NEW r \in Rollouts, NEW state \in States, Execute(r, state),
         outcome[r] = NoOutcome, Count(r)' = Count(r),
         lost'[r] + Owed(r)' = lost[r] + (IF IsAction(r) THEN 1 ELSE 0), lost'[r] \in Nat
  PROVE Tally(r)'
<1>1. phase = "active" /\ mcp[r].at = "asked" /\ phase' = phase
  BY DEF Execute, At, driver
<1>2. Count(r) \in Nat /\ lost[r] \in Nat /\ Owed(r) = 0 /\ Owed(r)' \in {0, 1}
  BY <1>1, Counting DEF IInv, TypeOK, Owed
<1>3. CASE session[r] = NoSession
  <2>1. game'[r].actions = 0
    BY <1>3, Executed
  <2> QED BY <1>2, <1>3, <2>1, NothingYet DEF Tally
<1>4. CASE session[r] # NoSession
  <2>1. game[r].actions \in Nat /\ game[r] # NoGame
    BY <1>4, Executed DEF Games, IInv, Good, Identity
  <2>2. game[r].actions = Count(r) + lost[r] + Owed(r)
    BY <1>1, <2>1 DEF IInv, Good, Tally
  <2>3. game'[r].actions = IF IsAction(r) THEN game[r].actions + 1 ELSE game[r].actions
    BY <1>4, Executed
  <2> QED BY <1>2, <2>1, <2>2, <2>3 DEF Tally
<1> QED BY <1>3, <1>4

LEMMA AnswerKeeps ==
  ASSUME IInv, NEW r \in Rollouts, NEW state \in States, Answer(r, state) PROVE IInv'
<1>1. Execute(r, state) /\ lost' = lost /\ phase = "active" /\ mcp[r].at = "asked"
  BY DEF Answer, Execute, At
<1>2. /\ mcp'[r] = [mcp[r] EXCEPT !.at = "answered", !.state = state]
      /\ \A q \in Rollouts \ {r} : mcp'[q] = mcp[q]
      /\ mcp[r] \in [at : Stages, command : Commands, item : Items, state : States]
  BY DEF Answer, IInv, TypeOK
<1>3. /\ mcp'[r].at = "answered" /\ mcp'[r].state = state
      /\ mcp'[r].item = mcp[r].item /\ mcp'[r].command = mcp[r].command
      /\ mcp'[r] \in [at : Stages, command : Commands, item : Items, state : States]
  BY <1>2 DEF Stages
<1>4. /\ UNCHANGED <<driver, asked, session, artifacts, outcome, told>> /\ LogKept
      /\ UNCHANGED <<phase, batch, ledger, server, orphans>>
  BY <1>1 DEF Execute, LogKept, events, driver
<1>5. TypeOK'
  BY <1>1, <1>3, <1>4, Executed DEF Answer, LogKept, IInv, TypeOK
<1>6. \A q \in Rollouts \ {r} : Same(q)
  BY <1>1, <1>2, <1>4, Executed DEF Same
<1>7. outcome[r] = NoOutcome
  BY <1>1 DEF IInv, Good, Judged
<1>8. LinesOf(r)' = LinesOf(r) /\ Count(r)' = Count(r) /\ cut' = cut
  BY <1>4, Untouched
<1>9. Judged(r)'
  BY <1>4, <1>7, Names DEF Judged
<1>10. Tally(r)'
  <2>1. Owed(r)' = (IF IsAction(r) THEN 1 ELSE 0)
    BY <1>3 DEF Owed, IsAction
  <2>2. lost[r] \in Nat /\ lost'[r] = lost[r]
    BY <1>1 DEF IInv, TypeOK
  <2> QED BY <1>1, <1>7, <1>8, <2>1, <2>2, Counted
<1>11. Identity(r)'
  <2>1. game'[r] # NoGame
    BY <1>1, Executed, Names
  <2> QED BY <1>1, <1>3, <1>4, <1>8, <2>1, Executed DEF IInv, Good, Identity, IsAction
<1>12. Steps(r)' /\ Wins(r)' /\ Told(r)'
  <2>1. state = "WIN" => IsAction(r)
    BY <1>1 DEF Execute
  <2> QED BY <1>1, <1>3, <1>4, <1>8, <2>1, Executed DEF IInv, Good, Steps, Wins, Told, Shown, IsAction
<1> QED BY <1>1, <1>4, <1>5, <1>6, <1>9, <1>10, <1>11, <1>12, Executed, OneRollout DEF Good

LEMMA AnswerLostKeeps ==
  ASSUME IInv, NEW r \in Rollouts, NEW state \in States, AnswerLost(r, state) PROVE IInv'
<1>1. Execute(r, state) /\ Rest(r, "idle") /\ Lose(r) /\ phase = "active" /\ mcp[r].at = "asked"
  BY DEF AnswerLost, Execute, At
<1>2. mcp'[r] = Resting("idle") /\ \A q \in Rollouts \ {r} : mcp'[q] = mcp[q]
  BY <1>1 DEF Rest, IInv, TypeOK
<1>3. /\ mcp'[r].at = "idle" /\ mcp'[r].command = "RESET"
      /\ mcp'[r] \in [at : Stages, command : Commands, item : Items, state : States]
  BY <1>2, AtRest DEF Stages
<1>4. /\ UNCHANGED <<driver, asked, session, artifacts, outcome, told>> /\ LogKept
      /\ UNCHANGED <<phase, batch, ledger, server, orphans>>
  BY <1>1 DEF Execute, LogKept, events, driver
<1>5. /\ lost[r] \in Nat /\ lost'[r] = lost[r] + (IF IsAction(r) THEN 1 ELSE 0)
      /\ lost' \in [Rollouts -> Nat] /\ \A q \in Rollouts \ {r} : lost'[q] = lost[q]
  BY <1>1 DEF Lose, IInv, TypeOK
<1>6. TypeOK'
  BY <1>1, <1>3, <1>4, <1>5, Executed DEF Rest, LogKept, IInv, TypeOK
<1>7. \A q \in Rollouts \ {r} : Same(q)
  BY <1>1, <1>2, <1>4, <1>5, Executed DEF Same
<1>8. outcome[r] = NoOutcome
  BY <1>1 DEF IInv, Good, Judged
<1>9. LinesOf(r)' = LinesOf(r) /\ Count(r)' = Count(r) /\ cut' = cut
  BY <1>4, Untouched
<1>10. Judged(r)'
  BY <1>4, <1>8, Names DEF Judged
<1>11. Tally(r)'
  <2>1. Owed(r)' = 0
    BY <1>3, Names DEF Owed, IsAction
  <2> QED BY <1>1, <1>5, <1>8, <1>9, <2>1, Counted
<1>12. Identity(r)'
  <2>1. game'[r] # NoGame /\ game'[r].item = mcp[r].item
    BY <1>1, Executed, Names
  <2>2. ~ IsAction(r)'
    BY <1>3, Names DEF IsAction
  <2> QED BY <1>1, <1>3, <1>4, <1>5, <1>9, <2>1, <2>2 DEF IInv, Good, Identity
<1>13. Steps(r)' /\ Wins(r)' /\ Told(r)'
  BY <1>1, <1>3, <1>4, <1>5, <1>9, Executed DEF IInv, Good, Steps, Wins, Told, Shown
<1> QED BY <1>1, <1>4, <1>6, <1>7, <1>10, <1>11, <1>12, <1>13, Executed, OneRollout DEF Good

(* All the ways in which a command ends early. *)
LEMMA FailuresKeep ==
  ASSUME IInv, NEW r \in Rollouts, Refuse(r) \/ RenderFails(r) \/ SaveFails(r) \/ Stop(r)
  PROVE IInv'
<1>1. PICK stage \in {"idle", "off"} : Rest(r, stage)
  BY DEF Refuse, RenderFails, SaveFails, Stop
<1>2. /\ phase = "active" /\ mcp[r].at # "off"
      /\ UNCHANGED <<driver, asked, game, session, events, outcome, told, won>>
  BY DEF Refuse, RenderFails, SaveFails, Stop, At
<1>3. NextStep(r) \in Nat /\ mcp[r].command \in Commands
  BY DEF NextStep, IInv, TypeOK, Sessions
<1>4. artifacts' \in [Rollouts -> SUBSET (Nat \X Commands)]
  <2>1. artifacts \in [Rollouts -> SUBSET (Nat \X Commands)]
    BY DEF IInv, TypeOK
  <2> QED BY <2>1, <1>3 DEF Refuse, RenderFails, SaveFails, Stop
<1>5. IF Owed(r) = 1 THEN lost' = [lost EXCEPT ![r] = @ + 1] ELSE lost' = lost
  <2>1. lost = [lost EXCEPT ![r] = lost[r]]
    BY DEF IInv, TypeOK
  <2>2. CASE mcp[r].at \in {"answered", "rendered", "saved"}
    <3>1. Lose(r)
      BY <2>2 DEF Refuse, RenderFails, SaveFails, Stop, At
    <3>2. CASE IsAction(r)
      BY <2>2, <3>1, <3>2 DEF Lose, Owed
    <3>3. CASE ~ IsAction(r)
      <4>1. lost' = [lost EXCEPT ![r] = lost[r]]
        BY <3>1, <3>3 DEF Lose
      <4> QED BY <2>1, <3>3, <4>1 DEF Owed
    <3> QED BY <3>2, <3>3
  <2>3. CASE mcp[r].at \notin {"answered", "rendered", "saved"}
    <3>1. lost' = lost
      BY <2>3 DEF Refuse, RenderFails, SaveFails, Stop, At
    <3> QED BY <2>3, <3>1 DEF Owed
  <2> QED BY <2>2, <2>3
<1> QED BY <1>1, <1>2, <1>4, <1>5, RestKeeps

(* The observation is written. *)
LEMMA RenderKeeps ==
  ASSUME IInv, NEW r \in Rollouts, Render(r) PROVE IInv'
<1>1. /\ phase = "active" /\ mcp[r].at = "answered" /\ lost' = lost
      /\ UNCHANGED <<driver, asked, game, session, events, outcome, told, won>> /\ phase' = phase
  BY DEF Render, At, driver
<1>2. mcp[r] \in [at : Stages, command : Commands, item : Items, state : States]
  BY DEF IInv, TypeOK
<1>3. mcp'[r] = [mcp[r] EXCEPT !.at = "rendered"]
  BY DEF Render, To, IInv, TypeOK
<1>4. /\ mcp'[r] \in [at : Stages, command : Commands, item : Items, state : States]
      /\ mcp'[r].at = "rendered" /\ mcp'[r].command = mcp[r].command
      /\ mcp'[r].item = mcp[r].item /\ mcp'[r].state = mcp[r].state
  BY <1>2, <1>3 DEF Stages
<1>5. artifacts' \in [Rollouts -> SUBSET (Nat \X Commands)]
  <2>1. NextStep(r) \in Nat /\ mcp[r].command \in Commands
    BY DEF NextStep, IInv, TypeOK, Sessions
  <2>2. artifacts \in [Rollouts -> SUBSET (Nat \X Commands)]
    BY DEF IInv, TypeOK
  <2> QED BY <2>1, <2>2 DEF Render
<1>6. Moves(r)
  <2>1. mcp' = [mcp EXCEPT ![r] = mcp'[r]]
    BY DEF Render, To, IInv, TypeOK
  <2>2. lost' = [lost EXCEPT ![r] = lost'[r]] /\ lost'[r] \in Nat
    BY <1>1 DEF IInv, TypeOK
  <2>3. asked' \in [Rollouts -> Nat]
    BY <1>1 DEF IInv, TypeOK
  <2> QED BY <1>1, <1>5, <2>1, <2>2, <2>3 DEF Moves, LogKept, events
<1>7. Good(r)'
  <2> LinesOf(r)' = LinesOf(r) /\ Count(r)' = Count(r) /\ cut' = cut
    BY <1>6, Untouched DEF Moves
  <2>1. Identity(r)'
    BY <1>1, <1>4 DEF IInv, Good, Identity, IsAction
  <2>2. Steps(r)' /\ Wins(r)'
    BY <1>1, <1>4 DEF IInv, Good, Steps, Wins, IsAction
  <2>3. Tally(r)' /\ Told(r)'
    BY <1>1, <1>4 DEF IInv, Good, Tally, Told, Shown, Owed, IsAction
  <2>4. Judged(r)'
    BY <1>1, <1>4 DEF IInv, Good, Judged
  <2> QED BY <2>1, <2>2, <2>3, <2>4 DEF Good
<1>8. lost'[r] \in Nat
  BY <1>1 DEF IInv, TypeOK
<1> QED BY <1>4, <1>6, <1>7, <1>8, MovesKeep

(* The session is replaced: its step is one that no event has. *)
LEMMA SaveKeeps ==
  ASSUME IInv, NEW r \in Rollouts, Save(r) PROVE IInv'
<1>1. /\ phase = "active" /\ mcp[r].at = "rendered"
      /\ UNCHANGED <<driver, asked, game, artifacts, outcome, told, lost, won>> /\ LogKept
      /\ UNCHANGED <<phase, batch, ledger, server, orphans>>
  BY DEF Save, At, LogKept, events, driver
<1>2. /\ mcp[r] \in [at : Stages, command : Commands, item : Items, state : States]
      /\ session[r] \in Sessions \cup {NoSession}
  BY DEF IInv, TypeOK
<1>3. NextStep(r) \in Nat /\ (session[r] # NoSession => session[r].step < NextStep(r))
  BY <1>2 DEF NextStep, Sessions
<1>4. /\ mcp'[r] = [mcp[r] EXCEPT !.at = "saved"]
      /\ session'[r] = [item |-> mcp[r].item, state |-> mcp[r].state, step |-> NextStep(r)]
      /\ \A q \in Rollouts \ {r} : mcp'[q] = mcp[q] /\ session'[q] = session[q]
  BY DEF Save, To, IInv, TypeOK
<1>5. /\ mcp'[r] \in [at : Stages, command : Commands, item : Items, state : States]
      /\ mcp'[r].at = "saved" /\ mcp'[r].command = mcp[r].command
      /\ mcp'[r].item = mcp[r].item /\ mcp'[r].state = mcp[r].state
  BY <1>2, <1>4 DEF Stages
<1>6. /\ session'[r] \in Sessions /\ session'[r] # NoSession
      /\ session'[r].item = mcp[r].item /\ session'[r].state = mcp[r].state
      /\ session'[r].step = NextStep(r)
  BY <1>2, <1>3, <1>4, Names DEF Sessions
<1>7. TypeOK'
  BY <1>1, <1>5, <1>6 DEF Save, To, LogKept, IInv, TypeOK
<1>8. \A q \in Rollouts \ {r} : Same(q)
  BY <1>1, <1>4 DEF Same
<1>9. outcome[r] = NoOutcome
  BY <1>1 DEF IInv, Good, Judged
<1>10. LinesOf(r)' = LinesOf(r) /\ Count(r)' = Count(r) /\ cut' = cut
  BY <1>1, Untouched
<1>11. Judged(r)'
  BY <1>1, <1>9, Names DEF Judged
<1>12. Identity(r)'
  BY <1>1, <1>5, <1>6, <1>10 DEF IInv, Good, Identity, IsAction
<1>13. Steps(r)'
  <2>1. \A l \in LinesOf(r) : l.step \in Nat
    BY Names DEF IInv, TypeOK, LinesOf, Readable, Lines
  <2>2. ASSUME NEW l \in LinesOf(r), l.command # "SELECT" PROVE l.step < NextStep(r)
    <3>1. session[r] # NoSession
      BY DEF IInv, Good, Identity
    <3>2. l.step <= session[r].step /\ l.step \in Nat /\ session[r].step \in Nat
      BY <1>2, <2>1, <2>2, <3>1 DEF IInv, Good, Steps, Sessions
    <3> QED BY <1>3, <3>1, <3>2
  <2> QED BY <1>3, <1>5, <1>6, <1>10, <2>1, <2>2 DEF Steps
<1>14. Wins(r)'
  BY <1>1, <1>5, <1>6, <1>10 DEF IInv, Good, Identity, Wins, IsAction
<1>15. Tally(r)' /\ Told(r)'
  BY <1>1, <1>5, <1>10 DEF IInv, Good, Tally, Told, Shown, Owed, IsAction
<1> QED BY <1>1, <1>7, <1>8, <1>11, <1>12, <1>13, <1>14, <1>15, OneRollout DEF Good

-----------------------------------------------------------------------------
(* Appends. *)

(* What an append or a stray line does to the log, as a reader sees it:    *)
(* the lines in new are added, those in gone can no longer be read.        *)
Changed(new, gone) ==
  /\ Readable' = (Readable \ gone) \cup new
  /\ log' \in SUBSET Lines /\ tail' \in Lines \cup {Clean, Torn} /\ cut' \in BOOLEAN
  /\ gone \subseteq {tail} \cap Lines
  /\ new \cap Readable \subseteq {l \in Lines : l.command = "SELECT"}
  /\ gone # {} => cut'
  /\ cut => cut'
  /\ ~cut' => ~cut

(* The line that an append leaves readable, and the one that it spoils.    *)
Added(line, amount) == IF tail = Clean /\ amount \in {"line", "whole"} THEN {line} ELSE {}
Broken(amount) == IF amount # "none" /\ tail \in Lines /\ tail \notin log THEN {tail} ELSE {}

LEMMA Appended ==
  ASSUME IInv, NEW line \in Lines, NEW amount \in Amounts, Append(line, amount),
         line.command \in Commands => line \notin Readable
  PROVE Changed(Added(line, amount), Broken(amount)) /\ LogInv'
<1> USE DEF IInv, TypeOK, LogInv, Commands
<1>1. line # Clean /\ line # Torn /\ Clean \notin Lines /\ Torn \notin Lines /\ Clean # Torn
  BY Names
<1>2. IsFiniteSet(log \cup {line})
  BY FS_AddElement
<1>3. line.command \in Commands \cup {"SELECT"}
  BY DEF Lines
<1>4. CASE amount = "none"
  <2>1. log' = log /\ tail' = tail /\ cut' = cut
    BY <1>4 DEF Append
  <2> QED BY <1>4, <2>1 DEF Changed, Added, Broken, Readable
<1>5. CASE amount # "none" /\ tail = Clean
  <2>1. CASE amount = "part"
    <3>1. log' = log /\ tail' = Torn /\ cut' = TRUE
      BY <1>1, <1>5, <2>1 DEF Append
    <3> QED BY <1>1, <1>5, <2>1, <3>1 DEF Changed, Added, Broken, Readable
  <2>2. CASE amount = "line"
    <3>1. log' = log /\ tail' = line /\ cut' = TRUE
      BY <1>1, <1>5, <2>2 DEF Append
    <3>2. Readable' = Readable \cup {line}
      BY <1>1, <1>5, <3>1 DEF Readable
    <3>3. LogInv'
      BY <3>1 DEF Readable
    <3> QED BY <1>1, <1>3, <1>5, <2>2, <3>1, <3>2, <3>3 DEF Changed, Added, Broken
  <2>3. CASE amount = "whole"
    <3>1. log' = log \cup {line} /\ tail' = Clean /\ cut' = cut
      BY <1>5, <2>3 DEF Append
    <3>2. Readable' = Readable \cup {line}
      BY <1>1, <1>5, <3>1 DEF Readable
    <3>3. LogInv'
      BY <1>1, <1>2, <3>1
    <3> QED BY <1>1, <1>3, <1>5, <2>3, <3>1, <3>2, <3>3 DEF Changed, Added, Broken
  <2> QED BY <1>5, <2>1, <2>2, <2>3 DEF Amounts
<1>6. CASE amount # "none" /\ tail # Clean
  <2>1. log' = log /\ tail' \in {Clean, Torn} /\ cut' = TRUE
    BY <1>6 DEF Append, Amounts
  <2>2. Readable' = log
    BY <1>1, <2>1 DEF Readable
  <2>3. Readable \ Broken(amount) = log
    BY <1>1, <1>6 DEF Readable, Broken
  <2>4. LogInv'
    BY <1>1, <2>1
  <2> QED BY <1>1, <1>6, <2>1, <2>2, <2>3, <2>4 DEF Changed, Added, Broken
<1> QED BY <1>4, <1>5, <1>6

(* The same for one rollout: its actions are counted by those that come    *)
(* and those that go, a WIN is not lost unnoticed.                         *)
LEMMA ChangedFor ==
  ASSUME IInv, NEW q \in Rollouts, NEW line \in Lines, NEW amount \in Amounts,
         NEW new \in SUBSET {line}, Changed(new, Broken(amount)), LogInv', outcome[q] = NoOutcome
  PROVE /\ Count(q) \in Nat /\ Count(q)' \in Nat
        /\ Count(q)' + Spoiled(q, amount) =
             Count(q) + (IF line \in new /\ line.of = q /\ line.command \in Actions THEN 1 ELSE 0)
        /\ (\E l \in LinesOf(q) : l.state = "WIN") =>
             (\E l \in LinesOf(q)' : l.state = "WIN") \/ (cut' /\ Spoiled(q, amount) = 1)
<1> DEFINE here == line \in new /\ line.of = q /\ line.command \in Actions
           kept == Acts(q) \ Broken(amount)
<1>1. /\ IsFiniteSet(Acts(q)) /\ Count(q) \in Nat /\ IsFiniteSet(Acts(q)') /\ Count(q)' \in Nat
      /\ IsFiniteSet(kept)
  <2>1. IsFiniteSet(Acts(q)) /\ Count(q) \in Nat
    BY Counting DEF IInv
  <2>2. Acts(q)' \in SUBSET (Readable') /\ IsFiniteSet(Readable')
    <3>1. Readable' \subseteq Readable \cup {line}
      BY DEF Changed
    <3>2. IsFiniteSet(Readable \cup {line})
      BY Counting, FS_AddElement DEF IInv
    <3> QED BY <3>1, <3>2, FS_Subset DEF Acts, LinesOf
  <2>3. IsFiniteSet(Acts(q)')
    BY <2>2, FS_Subset
  <2>4. Count(q)' \in Nat
    BY <2>3, FS_CardinalityType DEF Count
  <2>5. kept \in SUBSET Acts(q)
    OBVIOUS
  <2> QED BY <2>1, <2>3, <2>4, <2>5, FS_Subset
<1>2. Readable \subseteq Lines
  BY Names DEF IInv, TypeOK, Readable
<1>3. Spoiled(q, amount) = IF Broken(amount) \cap Acts(q) = {} THEN 0 ELSE 1
  <2>1. tail \in Lines /\ tail.command \in Actions => tail \notin log
    BY DEF IInv, LogInv
  <2>2. tail \in LinesOf(q) => tail \in Lines
    BY <1>2 DEF LinesOf
  <2> QED BY <2>1, <2>2 DEF Spoiled, Broken, Acts
<1>4. Cardinality(kept) + Spoiled(q, amount) = Count(q) /\ Cardinality(kept) \in Nat
  <2>1. CASE Broken(amount) \cap Acts(q) = {}
    <3>1. kept = Acts(q)
      BY <2>1
    <3> QED BY <1>1, <1>3, <2>1, <3>1 DEF Count
  <2>2. CASE Broken(amount) \cap Acts(q) # {}
    <3>1. Broken(amount) = {tail} /\ tail \in Acts(q)
      BY <2>2 DEF Broken
    <3>2. kept = Acts(q) \ {tail}
      BY <3>1
    <3>3. Cardinality(Acts(q) \ {tail}) = Cardinality(Acts(q)) - 1
      BY <1>1, <3>1, FS_RemoveElement
    <3>4. Cardinality(kept) \in Nat
      <4> HIDE DEF kept
      <4> QED BY <1>1, FS_CardinalityType
    <3>5. Spoiled(q, amount) = 1
      BY <1>3, <2>2
    <3>6. Cardinality(kept) = Count(q) - 1
      BY <3>2, <3>3 DEF Count
    <3> HIDE DEF kept
    <3> QED BY <1>1, <3>4, <3>5, <3>6
  <2> QED BY <2>1, <2>2
<1>5. Count(q)' = Cardinality(kept) + (IF here THEN 1 ELSE 0)
  <2>1. CASE here
    <3>1. line \notin Readable
      BY <2>1, Names DEF Changed
    <3>2. Acts(q)' = kept \cup {line}
      BY <2>1 DEF Changed, Acts, LinesOf
    <3>3. line \notin kept
      BY <3>1 DEF Acts, LinesOf
    <3>4. Cardinality(kept \cup {line}) = Cardinality(kept) + 1
      <4> HIDE DEF kept
      <4> QED BY <1>1, <3>3, FS_AddElement
    <3> QED BY <2>1, <3>2, <3>4 DEF Count
  <2>2. CASE ~here
    <3>1. Acts(q)' = kept
      BY <2>2 DEF Changed, Acts, LinesOf
    <3> QED BY <1>4, <2>2, <3>1 DEF Count
  <2> QED BY <2>1, <2>2
<1>6. ASSUME NEW l \in LinesOf(q), l.state = "WIN"
      PROVE l \in LinesOf(q)' \/ (cut' /\ Spoiled(q, amount) = 1)
  <2>1. l.command \in Actions
    BY <1>6 DEF IInv, Good, Wins
  <2>2. CASE l \in Broken(amount)
    BY <1>3, <1>6, <2>1, <2>2 DEF Acts, Changed
  <2>3. CASE l \notin Broken(amount)
    BY <1>6, <2>3 DEF Changed, LinesOf
  <2> QED BY <2>2, <2>3
<1> HIDE DEF here, kept
<1>7. Count(q)' + Spoiled(q, amount) = Count(q) + (IF here THEN 1 ELSE 0)
  <2>1. Spoiled(q, amount) \in Nat
    BY DEF Spoiled
  <2> QED BY <1>1, <1>4, <1>5, <2>1
<1> QED BY <1>1, <1>6, <1>7 DEF here

(* A rollout that did not write keeps what it has, but for a line that was *)
(* the log's incomplete end.                                               *)
LEMMA Bystander ==
  ASSUME IInv, NEW q \in Rollouts, NEW line \in Lines, NEW amount \in Amounts,
         NEW new \in SUBSET {line}, Changed(new, Broken(amount)), LogInv',
         line \in new => line.of # q,
         game'[q] = game[q], session'[q] = session[q], mcp'[q] = mcp[q], outcome'[q] = outcome[q],
         q \in told' <=> q \in told, lost'[q] = lost[q] + Spoiled(q, amount),
         phase' = phase, won' = won
  PROVE Good(q)'
<1>1. LinesOf(q)' \subseteq LinesOf(q)
  BY DEF Changed, LinesOf
<1>2. cut => cut'
  BY DEF Changed
<1>3. Spoiled(q, amount) \in {0, 1} /\ lost[q] \in Nat
  BY DEF Spoiled, IInv, TypeOK
<1>4. outcome[q] # NoOutcome => Spoiled(q, amount) = 0
  BY DEF Spoiled
<1>5. session[q] = NoSession => Spoiled(q, amount) = 0
  BY DEF Spoiled, IInv, Good, Identity
<1>6. Identity(q)'
  BY <1>1, <1>3, <1>5 DEF IInv, Good, Identity, IsAction
<1>7. Steps(q)' /\ Wins(q)'
  BY <1>1 DEF IInv, Good, Steps, Wins, IsAction
<1>8. outcome[q] = NoOutcome => (Shown(q) => Shown(q)')
  BY <1>2, <1>3, ChangedFor DEF Shown
<1>9. Told(q)'
  BY <1>8 DEF IInv, Good, Told
<1>10. Tally(q)'
  <2>2. CASE outcome[q] = NoOutcome
    <3>1. /\ Count(q) \in Nat /\ Count(q)' \in Nat
          /\ Count(q)' + Spoiled(q, amount) = Count(q)
      BY <2>2, ChangedFor
    <3>2. Owed(q)' = Owed(q) /\ Owed(q) \in {0, 1}
      BY DEF Owed, IsAction
    <3>3. game[q] # NoGame /\ phase = "active" =>
            game[q].actions = Count(q) + lost[q] + Owed(q)
      BY <2>2 DEF IInv, Good, Tally
    <3> QED BY <1>3, <3>1, <3>2, <3>3 DEF Tally
  <2> QED BY <2>2 DEF Tally
<1>11. Judged(q)'
  <2>1. outcome[q] # NoOutcome => lost'[q] = lost[q]
    BY <1>3, <1>4
  <2> QED BY <1>2, <2>1, Names DEF IInv, Good, Judged
<1> QED BY <1>6, <1>7, <1>9, <1>10, <1>11 DEF Good

(* A command server writes its event, or its selection: an action that was *)
(* owed is counted, or it is lost.                                         *)
LEMMA WriteKeeps ==
  ASSUME IInv, NEW r \in Rollouts, NEW line \in Lines, NEW amount \in Amounts, Write(r, line, amount),
         phase = "active",
         \/ mcp[r].at = "saved" /\ line = CommandLine(r)
         \/ mcp[r].at = "published" /\ ~IsAction(r) /\ line = Selection(r),
         mcp' = [mcp EXCEPT ![r] = mcp'[r]],
         \/ mcp'[r] = Resting("idle")
         \/ /\ amount = "whole" /\ mcp[r].at = "saved"
            /\ mcp'[r] = [mcp[r] EXCEPT !.at = "published"],
         UNCHANGED <<driver, asked, game, session, artifacts, outcome, told, won>>
  PROVE IInv'
<1> DEFINE added == Added(line, amount)
           fresh == line \in added
<1>1. /\ mcp[r] \in [at : Stages, command : Commands, item : Items, state : States]
      /\ session[r] \in Sessions /\ session[r] # NoSession
      /\ mcp[r].state = session[r].state /\ mcp[r].item = session[r].item
  BY DEF IInv, TypeOK, Good, Identity
<1>2. /\ line.of = r /\ line.item = session[r].item
      /\ mcp[r].at = "saved" => /\ line.command = mcp[r].command /\ line.state = mcp[r].state
                                /\ line.step = session[r].step
      /\ mcp[r].at = "published" => line.command = "SELECT" /\ line.state = "PLAY"
  BY <1>1 DEF CommandLine, Selection
<1>3. line.command \in Commands => line \notin Readable
  <2>1. ASSUME line.command \in Commands, line \in Readable PROVE FALSE
    <3>1. mcp[r].at = "saved" /\ line \in LinesOf(r) /\ line.command # "SELECT"
      BY <1>2, <2>1, Names DEF LinesOf
    <3> QED BY <1>2, <3>1 DEF IInv, Good, Steps
  <2> QED BY <2>1
<1>4. Changed(added, Broken(amount)) /\ LogInv'
  BY <1>3, Appended DEF Write
<1>5. added \in SUBSET {line} /\ (fresh <=> tail = Clean /\ amount \in {"line", "whole"})
  BY DEF Added
<1> HIDE DEF added
<1>6. /\ \A q \in Rollouts : lost[q] \in Nat /\ Spoiled(q, amount) \in {0, 1}
      /\ Unread(r, amount) \in {0, 1}
      /\ lost'[r] = lost[r] + Spoiled(r, amount) + Unread(r, amount)
      /\ \A q \in Rollouts \ {r} : lost'[q] = lost[q] + Spoiled(q, amount)
      /\ lost' \in [Rollouts -> Nat]
  <2>1. \A q \in Rollouts : lost[q] \in Nat /\ Spoiled(q, amount) \in {0, 1}
    BY DEF IInv, TypeOK, Spoiled
  <2>2. Unread(r, amount) \in {0, 1}
    BY DEF Unread
  <2>3. lost' = [q \in Rollouts |-> lost[q] + Spoiled(q, amount) + IF q = r THEN Unread(r, amount) ELSE 0]
    BY DEF Write
  <2>4. \A q \in Rollouts : lost'[q] = lost[q] + Spoiled(q, amount) + IF q = r THEN Unread(r, amount) ELSE 0
    BY <2>3
  <2>5. lost'[r] = lost[r] + Spoiled(r, amount) + Unread(r, amount)
    BY <2>4
  <2>6. \A q \in Rollouts \ {r} : lost'[q] = lost[q] + Spoiled(q, amount)
    <3>1. TAKE q \in Rollouts \ {r}
    <3>2. lost'[q] = lost[q] + Spoiled(q, amount) + 0
      BY <2>4
    <3> QED BY <2>1, <3>2
  <2>7. \A q \in Rollouts : lost[q] + Spoiled(q, amount) + (IF q = r THEN Unread(r, amount) ELSE 0) \in Nat
    BY <2>1, <2>2
  <2> QED BY <2>1, <2>2, <2>3, <2>5, <2>6, <2>7
<1>7. /\ UNCHANGED <<phase, batch, ledger, server, orphans>>
      /\ \A q \in Rollouts \ {r} : mcp'[q] = mcp[q]
  BY DEF driver, IInv, TypeOK
<1>8. \A q \in Rollouts \ {r} : Good(q)'
  BY <1>2, <1>4, <1>5, <1>6, <1>7, Bystander
<1>9. /\ mcp'[r] \in [at : Stages, command : Commands, item : Items, state : States]
      /\ mcp'[r].item \in Items
      /\ \/ mcp'[r].at = "idle" /\ mcp'[r].command = "RESET"
         \/ /\ mcp[r].at = "saved" /\ amount = "whole" /\ mcp'[r].at = "published"
            /\ mcp'[r].command = mcp[r].command /\ mcp'[r].item = mcp[r].item
            /\ mcp'[r].state = mcp[r].state
  <2>1. CASE mcp'[r] = Resting("idle")
    BY <2>1, AtRest DEF Stages
  <2>2. CASE amount = "whole" /\ mcp[r].at = "saved" /\ mcp'[r] = [mcp[r] EXCEPT !.at = "published"]
    BY <1>1, <2>2 DEF Stages
  <2> QED BY <2>1, <2>2
<1>10. TypeOK'
  <2>1. mcp' \in [Rollouts -> [at : Stages, command : Commands, item : Items, state : States]]
    BY <1>9 DEF IInv, TypeOK
  <2>2. log' \in SUBSET Lines /\ tail' \in Lines \cup {Clean, Torn} /\ cut' \in BOOLEAN
    BY <1>4 DEF Changed
  <2> QED BY <1>6, <1>7, <2>1, <2>2 DEF IInv, TypeOK
<1>11. outcome[r] = NoOutcome /\ outcome'[r] = NoOutcome
  BY DEF IInv, Good, Judged
<1>12. Judged(r)'
  BY <1>11, Names DEF Judged
<1>13. LinesOf(r)' \subseteq LinesOf(r) \cup {line} /\ (fresh => line \in LinesOf(r)')
  BY <1>2, <1>4, <1>5 DEF Changed, LinesOf
<1>14. Identity(r)'
  BY <1>1, <1>2, <1>9, <1>13, Names DEF IInv, Good, Identity, IsAction
<1>15. Steps(r)'
  <2>1. session[r].step \in Nat
    BY <1>1 DEF Sessions
  <2>2. \A l \in LinesOf(r)' : l.command # "SELECT" => l.step <= session[r].step
    BY <1>2, <1>13, <2>1 DEF IInv, Good, Steps
  <2> QED BY <1>9, <2>2 DEF Steps
<1>16. Wins(r)'
  <2>1. line.state = "WIN" => line.item \in won /\ line.command \in Actions
    BY <1>1, <1>2 DEF IInv, Good, Wins, IsAction
  <2> QED BY <1>1, <1>9, <1>13, <2>1 DEF IInv, Good, Wins, IsAction
<1>17. fresh \/ ~IsAction(r) \/ (cut' /\ Unread(r, amount) = 1) \/ amount \notin {"line", "whole"}
  <2>1. tail # Clean => cut'
    BY <1>4 DEF IInv, LogInv, Changed
  <2> QED BY <1>5, <2>1 DEF Unread
<1>18. Told(r)'
  <2>1. Shown(r) => Shown(r)'
    BY <1>4, <1>6, <1>11, <1>5, ChangedFor DEF Shown, Changed
  <2>2. mcp'[r].at = "published" /\ mcp'[r].state = "WIN" => Shown(r)'
    <3>1. SUFFICES ASSUME mcp'[r].at = "published", mcp'[r].state = "WIN" PROVE Shown(r)'
      OBVIOUS
    <3>2. mcp[r].at = "saved" /\ amount = "whole" /\ mcp[r].state = "WIN"
      BY <1>9, <3>1
    <3>3. IsAction(r) /\ line.state = "WIN"
      BY <1>2, <3>2 DEF IInv, Good, Wins
    <3>4. CASE fresh
      BY <1>13, <3>3, <3>4 DEF Shown
    <3>5. CASE cut' /\ Unread(r, amount) = 1
      BY <1>6, <3>5 DEF Shown
    <3> QED BY <1>17, <3>2, <3>3, <3>4, <3>5
  <2> QED BY <1>11, <2>1, <2>2 DEF IInv, Good, Told
<1>19. Tally(r)'
  <2>1. /\ Count(r) \in Nat /\ Count(r)' \in Nat
        /\ Count(r)' + Spoiled(r, amount) = Count(r) + (IF fresh /\ line.of = r /\ line.command \in Actions THEN 1 ELSE 0)
    BY <1>4, <1>5, <1>11, ChangedFor
  <2>2. Owed(r) = (IF fresh /\ line.of = r /\ line.command \in Actions THEN 1 ELSE 0) + Unread(r, amount)
    <3>1. CASE mcp[r].at = "saved"
      BY <1>2, <1>5, <3>1 DEF Owed, Unread, IsAction
    <3>2. CASE mcp[r].at = "published" /\ ~IsAction(r)
      BY <1>2, <3>2, Names DEF Owed, Unread
    <3> QED BY <3>1, <3>2
  <2>3. Owed(r)' = 0
    BY <1>9, Names DEF Owed, IsAction
  <2>4. game[r] # NoGame => game[r].actions = Count(r) + lost[r] + Owed(r)
    BY <1>11 DEF IInv, Good, Tally
  <2> DEFINE one == IF fresh /\ line.of = r /\ line.command \in Actions THEN 1 ELSE 0
  <2>5. one \in {0, 1}
    OBVIOUS
  <2>6. Count(r) + lost[r] + Owed(r) = Count(r)' + lost'[r]
    <3> HIDE DEF one
    <3>1. Count(r)' + Spoiled(r, amount) = Count(r) + one /\ Owed(r) = one + Unread(r, amount)
      BY <2>1, <2>2 DEF one
    <3> QED BY <1>6, <2>1, <2>5, <3>1
  <2> QED BY <1>6, <2>1, <2>3, <2>4, <2>6 DEF Tally
<1> QED BY <1>4, <1>7, <1>8, <1>10, <1>12, <1>14, <1>15, <1>16, <1>18, <1>19 DEF IInv, Good, Ledger, SolvedItems

LEMMA LineTypes ==
  ASSUME IInv, NEW r \in Rollouts, mcp[r].at \in {"saved", "published"}
  PROVE CommandLine(r) \in Lines /\ Selection(r) \in Lines
<1>1. /\ mcp[r] \in [at : Stages, command : Commands, item : Items, state : States]
      /\ session[r] \in Sessions
  BY DEF IInv, TypeOK, Good, Identity
<1>2. /\ mcp[r].item \in Items /\ mcp[r].command \in Commands
      /\ session[r].state \in States /\ session[r].step \in Nat
  BY <1>1 DEF Sessions
<1> QED BY <1>2 DEF CommandLine, Selection, Lines, States

(* The event of the step just saved is a new one. *)
LEMMA PublishKeeps ==
  ASSUME IInv, NEW r \in Rollouts, Publish(r) \/ PublishFails(r) PROVE IInv'
<1>1. /\ phase = "active" /\ mcp[r].at = "saved" /\ CommandLine(r) \in Lines
      /\ UNCHANGED <<driver, asked, game, session, artifacts, outcome, told, won>>
  BY LineTypes DEF Publish, PublishFails, At
<1>2. CASE Publish(r)
  <2>1. ~ \E l \in LinesOf(r) : l.command # "SELECT" /\ l.step = session[r].step
    BY <1>1 DEF IInv, Good, Steps
  <2>2. Write(r, CommandLine(r), "whole")
    BY <1>2, <2>1 DEF Publish
  <2>3. mcp'[r] = [mcp[r] EXCEPT !.at = "published"] /\ mcp' = [mcp EXCEPT ![r] = mcp'[r]]
    BY <1>2 DEF Publish, To, IInv, TypeOK
  <2> QED BY <1>1, <2>2, <2>3, WriteKeeps DEF Amounts
<1>3. CASE PublishFails(r)
  <2>1. PICK amount \in Amounts : Write(r, CommandLine(r), amount)
    BY <1>3 DEF PublishFails
  <2>2. mcp'[r] = Resting("idle") /\ mcp' = [mcp EXCEPT ![r] = mcp'[r]]
    BY <1>3 DEF PublishFails, Rest, IInv, TypeOK
  <2> QED BY <1>1, <2>1, <2>2, WriteKeeps
<1> QED BY <1>2, <1>3

(* The worker is answered, or the answer fails after the publication. *)
LEMMA ReplyKeeps ==
  ASSUME IInv, NEW r \in Rollouts, Reply(r) \/ ReplyFails(r) PROVE IInv'
<1>1. /\ phase = "active" /\ mcp[r].at = "published" /\ Selection(r) \in Lines
      /\ UNCHANGED <<driver, asked, game, session, artifacts, outcome, won>>
      /\ mcp'[r] = Resting("idle") /\ mcp' = [mcp EXCEPT ![r] = mcp'[r]]
  BY LineTypes DEF Reply, ReplyFails, Rest, At, IInv, TypeOK
<1>2. \E amount \in Amounts : Select(r, amount)
  BY DEF Reply, ReplyFails, Amounts
<1>3. told' = told \/ (mcp[r].state = "WIN" /\ told' = told \cup {r})
  BY DEF Reply, ReplyFails
<1>4. CASE ~IsAction(r) /\ \E amount \in Amounts : Write(r, Selection(r), amount)
  <2>1. mcp[r].state # "WIN"
    BY <1>1, <1>4 DEF IInv, Good, Wins
  <2>2. told' = told
    BY <1>3, <2>1
  <2> QED BY <1>1, <1>4, <2>2, WriteKeeps
<1>5. CASE UNCHANGED <<events, lost>>
  <2>1. LogKept /\ lost' = lost /\ UNCHANGED <<phase, batch, ledger, server, orphans>>
    BY <1>1, <1>5 DEF LogKept, events, driver
  <2>2. LinesOf(r)' = LinesOf(r) /\ Count(r)' = Count(r) /\ cut' = cut
    BY <2>1, Untouched
  <2>3. /\ mcp'[r].at = "idle" /\ mcp'[r].command = "RESET"
        /\ mcp'[r] \in [at : Stages, command : Commands, item : Items, state : States]
    BY <1>1, AtRest DEF Stages
  <2>4. TypeOK'
    <3>1. mcp' \in [Rollouts -> [at : Stages, command : Commands, item : Items, state : States]]
      BY <1>1, <2>3 DEF IInv, TypeOK
    <3>2. told' \in SUBSET Rollouts
      BY <1>3 DEF IInv, TypeOK
    <3> QED BY <1>1, <2>1, <3>1, <3>2 DEF LogKept, IInv, TypeOK
  <2>5. \A q \in Rollouts \ {r} : Same(q)
    <3>1. \A q \in Rollouts \ {r} : mcp'[q] = mcp[q]
      BY <1>1 DEF IInv, TypeOK
    <3> QED BY <1>1, <1>3, <2>1, <3>1 DEF Same
  <2>6. outcome[r] = NoOutcome
    BY <1>1 DEF IInv, Good, Judged
  <2>7. Judged(r)'
    BY <1>1, <2>6, Names DEF Judged
  <2>8. Identity(r)'
    BY <1>1, <2>1, <2>2, <2>3, Names DEF IInv, Good, Identity, IsAction
  <2>9. Steps(r)' /\ Wins(r)'
    BY <1>1, <2>2, <2>3 DEF IInv, Good, Steps, Wins
  <2>10. Told(r)'
    BY <1>1, <1>3, <2>1, <2>2, <2>3, <2>6 DEF IInv, Good, Told, Shown
  <2>11. Tally(r)'
    <3>1. Owed(r) = 0 /\ Owed(r)' = 0
      BY <1>1, <2>3 DEF Owed
    <3> QED BY <1>1, <2>1, <2>2, <3>1 DEF IInv, Good, Tally
  <2> QED BY <1>1, <2>1, <2>4, <2>5, <2>7, <2>8, <2>9, <2>10, <2>11, OneRollout DEF Good
<1> QED BY <1>2, <1>4, <1>5 DEF Select

(* A server of an earlier batch spoils the log's incomplete end. *)
LEMMA StrayKeeps == ASSUME IInv, Stray PROVE IInv'
<1>1. /\ log' = log /\ tail' \in {Clean, Torn} /\ cut' = (cut \/ tail' # Clean)
      /\ UNCHANGED <<driver, asked, game, session, artifacts, mcp, outcome, told, won>>
      /\ UNCHANGED <<phase, batch, ledger, server, orphans>>
  BY DEF Stray, driver
<1>2. \A q \in Rollouts : lost[q] \in Nat /\ Spoiled(q, "part") \in {0, 1}
  BY DEF IInv, TypeOK, Spoiled
<1>3. lost' = [q \in Rollouts |-> lost[q] + Spoiled(q, "part")]
  BY DEF Stray
<1>4. lost' \in [Rollouts -> Nat]
  <2>1. \A q \in Rollouts : lost[q] + Spoiled(q, "part") \in Nat
    BY <1>2
  <2> QED BY <1>3, <2>1
<1>5. Changed({}, Broken("part")) /\ LogInv'
  <2>1. Readable' = log
    BY <1>1, Names DEF Readable
  <2>2. log \subseteq Lines /\ Readable \ Broken("part") = log
    BY DEF Readable, Broken, IInv, TypeOK
  <2>3. Broken("part") \subseteq {tail} \cap Lines
    BY DEF Broken
  <2>4. tail # Clean => cut
    BY DEF IInv, LogInv
  <2>5. Broken("part") # {} => cut'
    BY <1>1, <2>3, <2>4, Names
  <2>6. cut' \in BOOLEAN /\ (cut => cut') /\ (tail' # Clean => cut')
    BY <1>1 DEF IInv, TypeOK
  <2>7. LogInv'
    BY <1>1, <2>6, Names DEF IInv, LogInv
  <2> QED BY <1>1, <2>1, <2>2, <2>3, <2>5, <2>6, <2>7 DEF Changed
<1>6. TypeOK'
  BY <1>1, <1>4, <1>5 DEF Changed, IInv, TypeOK
<1>7. ASSUME NEW q \in Rollouts PROVE Good(q)'
  <2>1. PICK i \in Items : TRUE
    BY ArcAssumption
  <2> DEFINE line == [of |-> q, item |-> i, command |-> "SELECT", state |-> "PLAY", step |-> 0]
  <2>2. line \in Lines
    BY <1>7, <2>1 DEF Lines, States
  <2>3. lost'[q] = lost[q] + Spoiled(q, "part")
    BY <1>3, <1>7
  <2>4. {} \in SUBSET {line} /\ line \notin {}
    OBVIOUS
  <2> HIDE DEF line
  <2> QED BY <1>1, <1>5, <1>7, <2>2, <2>3, <2>4, Bystander DEF Amounts
<1> QED BY <1>1, <1>5, <1>6, <1>7 DEF IInv, Ledger, SolvedItems

(* The rollout is at rest, so nothing is owed: what the scorecard counts   *)
(* and the events do not was lost.                                         *)
LEMMA CollectKeeps ==
  ASSUME IInv, NEW r \in Rollouts, Collect(r) \/ RolloutFails(r) PROVE IInv'
<1>1. /\ phase = "active" /\ mcp[r].at = "off" /\ outcome[r] = NoOutcome /\ LogKept
      /\ UNCHANGED <<driver, asked, game, session, artifacts, mcp, told, lost, won>>
      /\ UNCHANGED <<phase, batch, ledger, server, orphans>>
  BY DEF Collect, RolloutFails, At, LogKept, events, driver
<1> DEFINE judged(available, read) ==
      [item |-> session[r].item, solved |-> Solved(r, read), available |-> available, read |-> read,
       consistent |-> available /\ ScorecardActions(r) = IF read THEN Accounted(r) ELSE 0]
<1>2. \/ outcome'[r] \in {Failed, Unattempted, Unavailable}
      \/ session[r] # NoSession /\ \E available, read \in BOOLEAN : outcome'[r] = judged(available, read)
  BY DEF Collect, RolloutFails, IInv, TypeOK
<1>3. /\ \A q \in Rollouts \ {r} : outcome'[q] = outcome[q]
      /\ outcome' = [outcome EXCEPT ![r] = outcome'[r]]
  BY DEF Collect, RolloutFails, IInv, TypeOK
<1>4. \A read : Solved(r, read) \in BOOLEAN
  BY DEF Solved
<1>5. session[r] # NoSession => session[r].item \in Items
  BY DEF IInv, TypeOK, Sessions
<1>6. ASSUME NEW available \in BOOLEAN, NEW read \in BOOLEAN, session[r] # NoSession
      PROVE judged(available, read) \in Outcomes
  BY <1>4, <1>5, <1>6 DEF Outcomes
<1>7. outcome'[r] \in Outcomes \cup {Failed, Unattempted, Unavailable}
  BY <1>2, <1>6
<1>8. TypeOK'
  BY <1>1, <1>3, <1>7 DEF LogKept, IInv, TypeOK
<1>9. \A q \in Rollouts \ {r} : Same(q)
  BY <1>1, <1>3 DEF Same
<1>10. outcome'[r] # NoOutcome
  BY <1>7, Names
<1>11. LinesOf(r)' = LinesOf(r) /\ Count(r)' = Count(r) /\ cut' = cut
  BY <1>1, Untouched
<1>12. Judged(r)'
  <2>1. CASE outcome'[r] \in {Failed, Unattempted, Unavailable}
    BY <1>1, <2>1, Names DEF Judged
  <2>2. ASSUME session[r] # NoSession, NEW available \in BOOLEAN, NEW read \in BOOLEAN,
               outcome'[r] = judged(available, read)
        PROVE Judged(r)'
    <3>1. game[r] # NoGame /\ game[r] \in Games /\ Identity(r)
      BY <2>2 DEF IInv, Good, Identity, TypeOK
    <3>2. Owed(r) = 0
      BY <1>1 DEF Owed
    <3>3. Count(r) \in Nat /\ lost[r] \in Nat /\ IsFiniteSet(Acts(r)) /\ Accounted(r) = Count(r)
      BY <3>1, Counting DEF IInv, TypeOK
    <3>4. ScorecardActions(r) = Count(r) + lost[r]
      BY <1>1, <3>1, <3>2, <3>3 DEF IInv, Good, Tally, ScorecardActions
    <3>5. (\E l \in LinesOf(r) : l.state = "WIN") => Solved(r, TRUE) /\ Count(r) > 0
      <4>1. ASSUME NEW l \in LinesOf(r), l.state = "WIN" PROVE Solved(r, TRUE) /\ Count(r) > 0
        <5>1. l \in Acts(r) /\ l.item = session[r].item
          BY <3>1, <4>1 DEF IInv, Good, Wins, Identity, Acts
        <5>2. Acts(r) # {} /\ Count(r) # 0
          BY <3>3, <5>1, FS_EmptySet DEF Count
        <5> QED BY <3>3, <4>1, <5>1, <5>2 DEF Solved
      <4> QED BY <4>1
    <3>6. r \in told => Shown(r)
      BY <1>1 DEF IInv, Good, Told
    <3>7. Solved(r, read) => session[r].item \in won
      <4>1. session[r].state = "WIN" => session[r].item \in won
        BY <2>2 DEF IInv, Good, Wins
      <4>2. \A l \in LinesOf(r) : l.state = "WIN" => session[r].item \in won
        BY DEF IInv, Good, Wins, Identity
      <4> QED BY <4>1, <4>2 DEF Solved
    <3>8. /\ outcome'[r].item = session[r].item /\ outcome'[r].solved = Solved(r, read)
          /\ outcome'[r].available = available /\ outcome'[r].read = read
          /\ outcome'[r].consistent =
               (available /\ ScorecardActions(r) = IF read THEN Accounted(r) ELSE 0)
      BY ONLY <2>2
    <3>9. CASE read = TRUE
      <4>1. outcome'[r].consistent <=> available /\ lost[r] = 0
        <5>1. (ScorecardActions(r) = IF read THEN Accounted(r) ELSE 0) <=> lost[r] = 0
          BY <3>3, <3>4, <3>9
        <5> QED BY ONLY <3>8, <5>1
      <4>2. r \in told /\ lost[r] = 0 => Solved(r, TRUE)
        <5>1. lost[r] = 0 => ~(lost[r] > 0)
          BY <3>3
        <5> QED BY <3>5, <3>6, <5>1 DEF Shown
      <4>3. r \in told /\ ~cut => Solved(r, TRUE)
        BY <3>5, <3>6 DEF Shown
      <4> QED BY <1>1, <1>11, <2>2, <3>7, <3>8, <3>9, <4>1, <4>2, <4>3 DEF Judged
    <3>10. CASE read = FALSE
      <4>1. outcome'[r].consistent <=> available /\ Count(r) + lost[r] = 0
        <5>1. (ScorecardActions(r) = IF read THEN Accounted(r) ELSE 0) <=> Count(r) + lost[r] = 0
          BY <3>4, <3>10
        <5> QED BY ONLY <3>8, <5>1
      <4>2. Count(r) + lost[r] = 0 => Count(r) = 0 /\ lost[r] = 0
        BY <3>3
      <4>3. r \in told => Count(r) > 0 \/ lost[r] > 0
        BY <3>5, <3>6 DEF Shown
      <4>4. r \in told => ~(Count(r) + lost[r] = 0)
        BY <3>3, <4>2, <4>3
      <4> QED BY <1>1, <1>11, <2>2, <3>7, <3>8, <3>10, <4>1, <4>2, <4>4 DEF Judged
    <3> QED BY <3>9, <3>10
  <2> QED BY <1>2, <2>1, <2>2
<1>13. Identity(r)' /\ Steps(r)' /\ Wins(r)'
  BY <1>1, <1>11 DEF IInv, Good, Identity, Steps, Wins, IsAction
<1>14. Tally(r)' /\ Told(r)'
  BY <1>10 DEF Tally, Told
<1> QED BY <1>1, <1>8, <1>9, <1>12, <1>13, <1>14, OneRollout DEF Good

-----------------------------------------------------------------------------
(* Steps of the driver. *)

LEMMA SolvedWon == ASSUME IInv PROVE SolvedItems \subseteq won
BY DEF SolvedItems, IInv, Good, Judged

(* The rollouts rest, or their servers belong to no one. *)
LEMMA PhaseKeeps ==
  ASSUME IInv, phase' \in {"idle", "finalized", "down"}, batch' \in Nat,
         server' \in {"none", "up", "left"}, orphans' \in BOOLEAN,
         mcp' = mcp \/ mcp' = [r \in Rollouts |-> Resting("off")],
         UNCHANGED <<game, session, artifacts, events, outcome, asked, told, lost, won>>,
         ledger' \subseteq won, phase' = "finalized" => SolvedItems \subseteq ledger'
  PROVE IInv'
<1>1. LogKept
  BY DEF LogKept, events
<1>2. TypeOK'
  <2>1. Resting("off") \in [at : Stages, command : Commands, item : Items, state : States]
    BY AtRest DEF Stages
  <2>2. mcp' \in [Rollouts -> [at : Stages, command : Commands, item : Items, state : States]]
    BY <2>1 DEF IInv, TypeOK
  <2> QED BY <1>1, <2>2 DEF LogKept, IInv, TypeOK
<1>3. Ledger' /\ LogInv'
  BY <1>1 DEF Ledger, SolvedItems, IInv, LogInv, LogKept
<1>4. ASSUME NEW r \in Rollouts PROVE Good(r)'
  <2>1. LinesOf(r)' = LinesOf(r) /\ cut' = cut
    BY <1>1, Untouched
  <2>2. Tally(r)'
    BY DEF Tally
  <2>3. CASE mcp' = mcp
    BY <2>1, <2>2, <2>3 DEF IInv, Good, Identity, Steps, Wins, Told, Shown, Judged, IsAction
  <2>4. CASE mcp' = [q \in Rollouts |-> Resting("off")]
    <3>1. mcp'[r].at = "off" /\ mcp'[r].command \notin Actions
      BY <2>4, AtRest, Names DEF Stages
    <3> QED BY <2>1, <2>2, <3>1 DEF IInv, Good, Identity, Steps, Wins, Told, Shown, Judged, IsAction
  <2> QED BY <2>3, <2>4
<1> QED BY <1>2, <1>3, <1>4 DEF IInv

LEMMA DriverKeeps ==
  ASSUME IInv, PrepareFails \/ Finalize \/ FinalizeFails \/ Cleanup \/ Die
  PROVE IInv'
<1>1. UNCHANGED <<game, session, artifacts, events, outcome, asked, told, lost, won>>
  BY DEF PrepareFails, Finalize, FinalizeFails, Cleanup, Die, rollout, events
<1>2. mcp' = mcp \/ mcp' = [r \in Rollouts |-> Resting("off")]
  BY DEF PrepareFails, Finalize, FinalizeFails, Cleanup, Die, rollout
<1>3. /\ phase' \in {"idle", "finalized", "down"} /\ batch' \in Nat
      /\ server' \in {"none", "up", "left"} /\ orphans' \in BOOLEAN
  <2>1. phase' \in {"idle", "finalized", "down"} /\ server' \in {"none", "up", "left"}
    BY DEF PrepareFails, Finalize, FinalizeFails, Cleanup, Die, IInv, TypeOK
  <2>2. batch' \in Nat
    <3>1. batch' = batch \/ batch' = batch + 1
      BY DEF PrepareFails, Finalize, FinalizeFails, Cleanup, Die
    <3> QED BY <3>1 DEF IInv, TypeOK
  <2>3. orphans' = orphans \/ orphans' = TRUE
    BY DEF PrepareFails, Finalize, FinalizeFails, Cleanup, Die
  <2>4. orphans' \in BOOLEAN
    BY <2>3 DEF IInv, TypeOK
  <2> QED BY <2>1, <2>2, <2>4
<1>4. ledger \subseteq won
  BY DEF IInv, Ledger
<1>5. ledger' \subseteq won /\ (phase' = "finalized" => SolvedItems \subseteq ledger')
  BY <1>4, SolvedWon DEF PrepareFails, Finalize, FinalizeFails, Cleanup, Die
<1> QED BY <1>1, <1>2, <1>3, <1>5, PhaseKeeps

LEMMA CommandKeeps ==
  ASSUME IInv, NEW r \in Rollouts, Command(r) PROVE IInv'
<1>1. ASSUME NEW i \in Items, Reset(r, i) PROVE IInv'
  BY <1>1, AskKeeps, Names DEF Reset, Commands, States
<1>2. ASSUME NEW a \in Actions, Act(r, a) PROVE IInv'
  <2>1. session[r] \in Sessions
    BY <1>2 DEF Act, IInv, TypeOK
  <2>2. session[r].item \in Items /\ session[r].state \in States /\ a \in Commands
    BY <2>1 DEF Sessions, Commands
  <2> QED BY <1>2, <2>2, AskKeeps DEF Act
<1>3. ASSUME NEW s \in States, Answer(r, s) \/ AnswerLost(r, s) PROVE IInv'
  BY <1>3, AnswerKeeps, AnswerLostKeeps
<1> QED BY <1>1, <1>2, <1>3, FailuresKeep, RenderKeeps, SaveKeeps, PublishKeeps, ReplyKeeps DEF Command

LEMMA StutterKeeps == ASSUME IInv, UNCHANGED vars PROVE IInv'
<1>1. TypeOK' /\ Ledger' /\ LogInv' /\ LogKept
  BY DEF IInv, TypeOK, Ledger, SolvedItems, LogInv, LogKept, vars, rollout, driver, events
<1>2. ASSUME NEW r \in Rollouts PROVE Good(r)'
  <2>1. Same(r) /\ phase' = phase /\ won \subseteq won'
    BY DEF Same, vars, rollout, driver
  <2> QED BY <1>1, <2>1, OthersKeep DEF IInv
<1> QED BY <1>1, <1>2 DEF IInv

LEMMA StepKeeps == IInv /\ [Next]_vars => IInv'
<1> SUFFICES ASSUME IInv, [Next]_vars PROVE IInv'
    OBVIOUS
<1>1. CASE Prepare
  BY <1>1, PrepareKeeps
<1>2. CASE PrepareFails \/ Finalize \/ FinalizeFails \/ Cleanup \/ Die
  BY <1>2, DriverKeeps
<1>3. CASE Stray
  BY <1>3, StrayKeeps
<1>4. ASSUME NEW r \in Rollouts, Command(r) \/ Stop(r) \/ Collect(r) \/ RolloutFails(r) PROVE IInv'
  BY <1>4, CommandKeeps, FailuresKeep, CollectKeeps
<1>5. CASE UNCHANGED vars
  BY <1>5, StutterKeeps
<1> QED BY <1>1, <1>2, <1>3, <1>4, <1>5 DEF Next

LEMMA Always == Spec => []IInv
BY InitInv, StepKeeps, PTL DEF Spec

-----------------------------------------------------------------------------
(* Every state of the driver, the servers and the files is well formed. *)
THEOREM Types == Spec => []TypeOK
<1>1. IInv => TypeOK
  BY DEF IInv
<1> QED BY <1>1, Always, PTL

(* collect_outcome and finalize_batch: a WIN that the worker was told of   *)
(* counts unless a broken or unreadable log cost it, and then the          *)
(* accounting is inconsistent; nothing counts that the server has not seen *)
(* won.                                                                    *)
THEOREM WinsAreCounted == Spec => []WinsCount
<1>1. IInv => WinsCount
  <2> SUFFICES ASSUME IInv PROVE WinsCount
      OBVIOUS
  <2>1. ASSUME NEW r \in Rollouts, outcome[r] \in Outcomes
        PROVE /\ r \in told /\ outcome[r].read /\ ~cut => outcome[r].solved
              /\ r \in told /\ ~outcome[r].solved => ~outcome[r].consistent
              /\ outcome[r].solved => outcome[r].item \in won
    BY <2>1 DEF IInv, Good, Judged
  <2>2. ASSUME NEW r \in Rollouts, outcome[r] \in Outcomes, phase = "finalized", outcome[r].solved
        PROVE outcome[r].item \in ledger
    BY <2>2 DEF SolvedItems, IInv, Ledger
  <2> QED BY <2>1, <2>2 DEF WinsCount, IInv, Ledger
<1> QED BY <1>1, Always, PTL

(* action_accounting_consistent: an outcome calls its accounting complete  *)
(* only when no executed action is without its event, whichever append of  *)
(* whichever rollout broke a line, and it does so when it can read both.   *)
THEOREM LossesAreSeen == Spec => []LossIsDetected
<1>1. IInv => LossIsDetected
  BY DEF IInv, Good, Judged, LossIsDetected
<1> QED BY <1>1, Always, PTL

(* The session, its environment, its lines in the log and its outcome name *)
(* the same game, whichever command failed at whichever step.              *)
THEOREM OneGame == Spec => []OneGamePerRollout
<1>1. IInv => OneGamePerRollout
  BY DEF IInv, Good, Identity, Judged, OneGamePerRollout
<1> QED BY <1>1, Always, PTL
=============================================================================
