------------------------ MODULE ControlIteration_proofs ------------------------
(***************************************************************************)
(* Proofs about ControlIteration for any number of slots, iterations,      *)
(* sessions and dead launchers.                                            *)
(***************************************************************************)
EXTENDS ControlIteration, TLAPS

(* An iteration that has left anything has left its evidence directory, and*)
(* only the current one and its predecessors have.                         *)
Evidence ==
  /\ \A k \in Iterations, i \in Slots :
       <<k, i>> \in started => k <= Current /\ manifest[k] # "absent"
  /\ orphans # {} => /\ phase \in {"idle", "check"}
                     /\ Current \in Iterations /\ manifest[Current] # "absent"
  /\ \A k \in broken : k = Current /\ manifest[k] # "absent"

(* What the launcher knows at each of its steps. *)
Launcher ==
  /\ phase \notin {"idle", "close"} => Current \in Iterations /\ status \in {"initialized", "ready"}
  /\ phase \notin {"idle", "check", "close"} => manifest[Current] # "absent"
  /\ phase = "manifest" => \A i \in Slots : <<Current, i>> \notin started
  /\ phase = "launch" => /\ launched < N
                         /\ \A i \in Slots : i >= launched =>
                              turn[i] = "none" /\ <<Current, i>> \notin started
  /\ phase \in {"idle", "check", "manifest"} =>
       launched = 0 /\ \A i \in Slots : turn[i] = "none"
  /\ phase = "close" => status = "blocked_incomplete" \/ (status = "ready" /\ completed \in Iterations)
  /\ \A i \in Slots : turn[i] = "running" => phase \in {"launch", "collect"}

(* A failed turn is seen when the batch is judged. *)
Judgement ==
  /\ phase = "manifest" => broken = {}
  /\ phase \in {"launch", "collect"} /\ broken # {} =>
       launchError \/ \E i \in Slots : turn[i] = "ended" /\ result[i] = NoSession
  /\ phase \in {"clean", "sweep", "advance"} =>
       /\ broken = {}
       /\ \A i \in Slots : counter[i] >= counts[i] /\ SessionAccepted(i)
       /\ \A i, j \in Slots : result[i] = result[j] => i = j

(* State and manifests: the manifest follows, and nothing of a study that  *)
(* is blocked still runs.                                                  *)
Closing == ManifestFollowsState /\ (status = "blocked_incomplete" => orphans = {})

Inv == TypeOK /\ Evidence /\ Launcher /\ Judgement /\ Closing

LEMMA NoBatchTyped ==
  ASSUME NoBatch
  PROVE /\ launched' \in 0 .. N /\ launchError' \in BOOLEAN
        /\ turn' \in [Slots -> {"none", "running", "ended"}] /\ result' \in [Slots -> Ids]
<1>1. turn' \in [Slots -> {"none", "running", "ended"}]
      BY DEF NoBatch
<1>2. NoSession \in Ids
      BY DEF Ids
<1>3. result' \in [Slots -> Ids]
      BY <1>2 DEF NoBatch
<1>4. launched' = 0 /\ launchError' \in BOOLEAN
      BY DEF NoBatch
<1>5. 0 \in 0 .. N
      BY BoundsAssumption
<1> QED BY <1>1, <1>3, <1>4, <1>5

LEMMA InitInv == Init => Inv
<1> SUFFICES ASSUME Init PROVE Inv
    OBVIOUS
<1> USE BoundsAssumption, NamesAssumption
<1>1. TypeOK
  <2>1. account \in Seq(Entry)
        BY DEF Init
  <2>2. completed \in 0 .. LastIteration /\ launched \in 0 .. N /\ deaths \in 0 .. MaxDeaths
        BY DEF Init
  <2>3. counts \in [Slots -> 0 .. MaxCount] /\ counter \in [Slots -> 0 .. MaxCount]
        BY DEF Init
  <2>4. next \in [Slots -> Ids] /\ result \in [Slots -> Ids]
        BY DEF Init, Ids
  <2>5. archive \in [born : BOOLEAN, work : Works]
        BY DEF Init, Works
  <2> QED BY <2>1, <2>2, <2>3, <2>4, <2>5 DEF Init, TypeOK
<1>2. Evidence
      BY DEF Init, Evidence
<1>3. Launcher /\ Judgement
      BY DEF Init, Launcher, Judgement, Slots
<1>4. Closing
      BY DEF Init, Closing, ManifestFollowsState
<1> QED BY <1>1, <1>2, <1>3, <1>4 DEF Inv

(* Every step keeps the types: launches happen below their bounds, and only*)
(* sessions of judged turns are booked.                                    *)
LEMMA TypeStep == Inv /\ [Next]_vars => TypeOK'
<1> SUFFICES ASSUME Inv, [Next]_vars PROVE TypeOK'
    OBVIOUS
<1> USE BoundsAssumption, NamesAssumption DEF Inv

<1>1. CASE Initialize
  BY <1>1 DEF Initialize, TypeOK, study, world, process, history
<1>2. CASE StartUninitialized
  BY <1>2 DEF StartUninitialized, TypeOK, study, world, process, history
<1>3. ASSUME NEW resume \in BOOLEAN, Start(resume) PROVE TypeOK'
  BY <1>3 DEF Start, TypeOK, study, world, process, history
<1>4. CASE Accept
  BY <1>4 DEF Accept, TypeOK, study, world, process, history, Current, Launcher
<1>5. CASE Refuse
  BY <1>5 DEF Refuse, TypeOK, study, world, process, history
<1>6. CASE WriteManifest
  BY <1>6 DEF WriteManifest, TypeOK, study, world, process, history, Current, Launcher
<1>7. CASE LaunchSlot
  <2>1. launched \in Slots /\ launched + 1 \in 0 .. N /\ Current \in Iterations
        BY <1>7 DEF LaunchSlot, Launcher, TypeOK, Slots
  <2>2. <<Current, launched>> \in Iterations \X Slots
        BY <2>1
  <2> QED BY <1>7, <2>1, <2>2 DEF LaunchSlot, TypeOK, study, world
<1>8. CASE LaunchFails
  BY <1>8 DEF LaunchFails, TypeOK, study, world, process, history, Current, Launcher
<1>9. ASSUME NEW i \in Slots, Write(i) PROVE TypeOK'
  <2>1. archive' \in [born : BOOLEAN, work : Works]
    <3>1. CASE archive' = archive
          BY <3>1 DEF TypeOK
    <3>2. ASSUME NEW born \in {archive.born, TRUE}, NEW work \in Works,
                 archive' = [born |-> born, work |-> work]
          PROVE archive' \in [born : BOOLEAN, work : Works]
          BY <3>2 DEF TypeOK
    <3> QED BY <1>9, <3>1, <3>2 DEF Write
  <2>2. drift' \in {"no", "detected", "missing"}
        BY <1>9 DEF Write, TypeOK
  <2> QED BY <1>9, <2>1, <2>2 DEF Write, TypeOK, study, process, history
<1>10. ASSUME NEW i \in Slots, Compact(i) PROVE TypeOK'
  <2>1. counter' \in [Slots -> 0 .. MaxCount]
    <3>1. counter[i] + 1 \in 0 .. MaxCount
          BY <1>10 DEF Compact, TypeOK
    <3> QED BY <1>10, <3>1 DEF Compact, TypeOK
  <2> QED BY <1>10, <2>1 DEF Compact, TypeOK, study, process
<1>11. ASSUME NEW i \in Slots, EndTurn(i) PROVE TypeOK'
  BY <1>11 DEF EndTurn, TypeOK, study, world, process, history, Current, Launcher
<1>12. ASSUME NEW i \in Slots, OrphanEnds(i) PROVE TypeOK'
  BY <1>12 DEF OrphanEnds, TypeOK, study, world, process, history
<1>13. CASE Gather
  BY <1>13 DEF Gather, TypeOK, study, world, process, history
<1>14. CASE GatherRaises
  <2>1. broken' \in SUBSET Iterations
        BY <1>14 DEF GatherRaises, Collected, TypeOK, Launcher
  <2>2. NoBatch /\ phase' = "idle" /\ actual' = {}
        BY <1>14 DEF GatherRaises
  <2> QED BY <1>14, <2>1, <2>2, NoBatchTyped DEF GatherRaises, TypeOK, study, world
<1>15. CASE CleanArchive
  <2>1. archive' \in [born : BOOLEAN, work : Works]
        BY <1>15 DEF CleanArchive, TypeOK, Works
  <2> QED BY <1>15, <2>1 DEF CleanArchive, TypeOK, study, history
<1>16. CASE Sweep
  BY <1>16 DEF Sweep, TypeOK, study, world, process, history
<1>17. CASE CleanupFails
  BY <1>17 DEF CleanupFails, TypeOK, study, world, process, history
<1>18. CASE Block
  BY <1>18 DEF Block, TypeOK, study, world, process, history
<1>19. CASE Advance
  <2>1. \A i \in Slots : result[i] \in Sessions
        BY <1>19 DEF Advance, Judgement, SessionAccepted, TypeOK, Ids
  <2>2. result \in [Slots -> Sessions]
        BY <2>1 DEF TypeOK
  <2>3. [session |-> result, compacted |-> actual] \in Entry
        BY <2>2 DEF TypeOK, Entry
  <2>4. account' \in Seq(Entry)
        BY <1>19, <2>3 DEF Advance, TypeOK
  <2>5. completed' \in 0 .. LastIteration
        BY <1>19 DEF Advance, Launcher, Current, Iterations
  <2>6. next' \in [Slots -> Ids] /\ seen' \in SUBSET Sessions
        BY <1>19, <2>1 DEF Advance, TypeOK, Ids
  <2> QED BY <1>19, <2>4, <2>5, <2>6 DEF Advance, TypeOK, world
<1>20. CASE CloseManifest
  <2>1. manifest' \in [Iterations -> {"absent", "none", "running", "complete",
      "incomplete"}]
        BY <1>20 DEF CloseManifest, TypeOK
  <2>2. NoBatch /\ phase' = "idle" /\ actual' = {}
        BY <1>20 DEF CloseManifest
  <2> QED BY <1>20, <2>1, <2>2, NoBatchTyped DEF CloseManifest, TypeOK, study, world
<1>21. CASE Die
  <2>1. archive' \in [born : BOOLEAN, work : Works]
        BY <1>21 DEF Die, TypeOK, Works
  <2>2. broken' \in SUBSET Iterations
        BY <1>21 DEF Die, TypeOK, Launcher
  <2>3. deaths' \in 0 .. MaxDeaths
        BY <1>21 DEF Die, TypeOK
  <2>4. orphans' \in SUBSET Slots
        BY <1>21 DEF Die, TypeOK
  <2>5. NoBatch /\ phase' = "idle" /\ actual' = {}
        BY <1>21 DEF Die
  <2> QED BY <1>21, <2>1, <2>2, <2>3, <2>4, <2>5, NoBatchTyped DEF Die, TypeOK, study
<1>22. CASE UNCHANGED vars
  BY <1>22 DEF vars, TypeOK, study, world, process, history
<1> QED BY <1>1, <1>2, <1>3, <1>4, <1>5, <1>6, <1>7, <1>8, <1>9, <1>10, <1>11, <1>12,
    <1>13, <1>14, <1>15, <1>16, <1>17, <1>18, <1>19, <1>20, <1>21, <1>22 DEF Next

(* Only a launcher that finds no evidence makes some, so what was started, *)
(* broken or orphaned belongs to an iteration that cannot begin again.     *)
LEMMA EvidenceStep == Inv /\ [Next]_vars => Evidence'
<1> SUFFICES ASSUME Inv, [Next]_vars PROVE Evidence'
    OBVIOUS
<1> USE BoundsAssumption DEF Inv, TypeOK

<1>1. CASE Initialize
  BY <1>1 DEF Initialize, Evidence, Current, study, world, process, history, Launcher
<1>2. CASE StartUninitialized
  BY <1>2 DEF StartUninitialized, Evidence, Current, study, world, process, history,
      Launcher
<1>3. ASSUME NEW resume \in BOOLEAN, Start(resume) PROVE Evidence'
  BY <1>3 DEF Start, Evidence, Current, study, world, process, history, Launcher
<1>4. CASE Accept
  <2>1. orphans = {} /\ broken = {}
        BY <1>4 DEF Accept, Runnable, Evidence
  <2>2. completed' = completed /\ started' = started /\ orphans' = {} /\ broken' = {}
        BY <1>4, <2>1 DEF Accept, study, history
  <2>3. \A k \in Iterations : manifest[k] # "absent" => manifest'[k] # "absent"
        BY <1>4 DEF Accept
  <2> QED BY <2>2, <2>3 DEF Evidence, Current
<1>5. CASE Refuse
  BY <1>5 DEF Refuse, Evidence, Current, study, world, process, history, Launcher
<1>6. CASE WriteManifest
  BY <1>6 DEF WriteManifest, Evidence, Current, study, world, process, history, Launcher
<1>7. CASE LaunchSlot
  BY <1>7 DEF LaunchSlot, Evidence, Current, study, world, process, history, Launcher
<1>8. CASE LaunchFails
  BY <1>8 DEF LaunchFails, Evidence, Current, study, world, process, history, Launcher
<1>9. ASSUME NEW i \in Slots, Write(i) PROVE Evidence'
  BY <1>9 DEF Write, Evidence, Current, study, world, process, history, Launcher
<1>10. ASSUME NEW i \in Slots, Compact(i) PROVE Evidence'
  BY <1>10 DEF Compact, Evidence, Current, study, world, process, history, Launcher
<1>11. ASSUME NEW i \in Slots, EndTurn(i) PROVE Evidence'
  BY <1>11 DEF EndTurn, Evidence, Current, study, world, process, history, Launcher
<1>12. ASSUME NEW i \in Slots, OrphanEnds(i) PROVE Evidence'
  BY <1>12 DEF OrphanEnds, Evidence, Current, study, world, process, history, Launcher
<1>13. CASE Gather
  BY <1>13 DEF Gather, Collected, Evidence, Current, study, history
<1>14. CASE GatherRaises
  BY <1>14 DEF GatherRaises, Collected, Evidence, Current, study, Launcher
<1>15. CASE CleanArchive
  BY <1>15 DEF CleanArchive, Evidence, Current, study, world, process, history, Launcher
<1>16. CASE Sweep
  BY <1>16 DEF Sweep, Evidence, Current, study, world, process, history, Launcher
<1>17. CASE CleanupFails
  BY <1>17 DEF CleanupFails, Evidence, Current, study, world, process, history, Launcher
<1>18. CASE Block
  BY <1>18 DEF Block, Evidence, Current, study, world, process, history, Launcher
<1>19. CASE Advance
  <2>1. orphans' = {} /\ broken' = {} /\ started' = started /\ manifest' = manifest
        BY <1>19 DEF Advance, Evidence, Judgement
  <2>2. Current' = Current + 1
        BY <1>19 DEF Advance, Current
  <2>3. \A k \in Iterations : k <= Current => k <= Current'
        BY <2>2 DEF Current, Iterations
  <2> QED BY <2>1, <2>3 DEF Evidence
<1>20. CASE CloseManifest
  BY <1>20 DEF CloseManifest, Evidence, Current, study, world, process, history, Launcher
<1>21. CASE Die
  BY <1>21 DEF Die, Evidence, Current, study, world, process, history, Launcher
<1>22. CASE UNCHANGED vars
  BY <1>22 DEF vars, Evidence, Current, study, world, process, history
<1> QED BY <1>1, <1>2, <1>3, <1>4, <1>5, <1>6, <1>7, <1>8, <1>9, <1>10, <1>11, <1>12,
    <1>13, <1>14, <1>15, <1>16, <1>17, <1>18, <1>19, <1>20, <1>21, <1>22 DEF Next

(* The launcher's own knowledge. *)
LEMMA LauncherStep == Inv /\ [Next]_vars => Launcher'
<1> SUFFICES ASSUME Inv, [Next]_vars PROVE Launcher'
    OBVIOUS
<1> USE BoundsAssumption DEF Inv, TypeOK

<1>1. CASE Initialize
  BY <1>1 DEF Initialize, Launcher, Current, study, world, process, history
<1>2. CASE StartUninitialized
  BY <1>2 DEF StartUninitialized, Launcher, Current, study, world, process, history
<1>3. ASSUME NEW resume \in BOOLEAN, Start(resume) PROVE Launcher'
  BY <1>3 DEF Start, Launcher, Current, study, world, process, history, Iterations
<1>4. CASE Accept
  BY <1>4 DEF Accept, Launcher, Current, study, world, process, history, Runnable,
      Evidence
<1>5. CASE Refuse
  BY <1>5 DEF Refuse, Launcher, Current, study, world, process, history
<1>6. CASE WriteManifest
  BY <1>6 DEF WriteManifest, Launcher, Current, study, world, process, history
<1>7. CASE LaunchSlot
  <2>1. launched \in Slots /\ launched + 1 \in 0 .. N
        BY <1>7 DEF LaunchSlot, Launcher, Slots
  <2>2. \A i \in Slots : i >= launched' =>
          turn'[i] = "none" /\ <<Current, i>> \notin started'
        BY <1>7, <2>1 DEF LaunchSlot, Launcher, Slots
  <2> QED BY <1>7, <2>1, <2>2 DEF LaunchSlot, Launcher, Current, study
<1>8. CASE LaunchFails
  BY <1>8 DEF LaunchFails, Launcher, Current, study, world, process, history
<1>9. ASSUME NEW i \in Slots, Write(i) PROVE Launcher'
  BY <1>9 DEF Write, Launcher, Current, study, world, process, history
<1>10. ASSUME NEW i \in Slots, Compact(i) PROVE Launcher'
  BY <1>10 DEF Compact, Launcher, Current, study, world, process, history
<1>11. ASSUME NEW i \in Slots, EndTurn(i) PROVE Launcher'
  BY <1>11 DEF EndTurn, Launcher, Current, study, world, process, history
<1>12. ASSUME NEW i \in Slots, OrphanEnds(i) PROVE Launcher'
  BY <1>12 DEF OrphanEnds, Launcher, Current, study, world, process, history
<1>13. CASE Gather
  BY <1>13 DEF Gather, Launcher, Current, study, world, process, history, Collected
<1>14. CASE GatherRaises
  BY <1>14 DEF GatherRaises, Launcher, Current, study, world, process, history, NoBatch
<1>15. CASE CleanArchive
  BY <1>15 DEF CleanArchive, Launcher, Current, study, world, process, history
<1>16. CASE Sweep
  BY <1>16 DEF Sweep, Launcher, Current, study, world, process, history
<1>17. CASE CleanupFails
  BY <1>17 DEF CleanupFails, Launcher, Current, study, world, process, history
<1>18. CASE Block
  BY <1>18 DEF Block, Launcher, Current, study, world, process, history
<1>19. CASE Advance
  BY <1>19 DEF Advance, Launcher, Current, study, world, process, history
<1>20. CASE CloseManifest
  BY <1>20 DEF CloseManifest, Launcher, Current, study, world, process, history, NoBatch
<1>21. CASE Die
  BY <1>21 DEF Die, Launcher, Current, study, world, process, history, NoBatch
<1>22. CASE UNCHANGED vars
  BY <1>22 DEF vars, Launcher, Current, study, world, process, history
<1> QED BY <1>1, <1>2, <1>3, <1>4, <1>5, <1>6, <1>7, <1>8, <1>9, <1>10, <1>11, <1>12,
    <1>13, <1>14, <1>15, <1>16, <1>17, <1>18, <1>19, <1>20, <1>21, <1>22 DEF Next

(* No failed turn passes the judgement. *)
LEMMA JudgementStep == Inv /\ [Next]_vars => Judgement'
<1> SUFFICES ASSUME Inv, [Next]_vars PROVE Judgement'
    OBVIOUS
<1> USE BoundsAssumption DEF Inv, TypeOK

<1>1. CASE Initialize
  BY <1>1 DEF Initialize, Judgement, SessionAccepted, Launcher, Current, study, world,
      process, history
<1>2. CASE StartUninitialized
  BY <1>2 DEF StartUninitialized, Judgement, SessionAccepted, Launcher, Current, study,
      world, process, history
<1>3. ASSUME NEW resume \in BOOLEAN, Start(resume) PROVE Judgement'
  BY <1>3 DEF Start, Judgement, SessionAccepted, Launcher, Current, study, world,
      process, history
<1>4. CASE Accept
  BY <1>4 DEF Accept, Judgement, SessionAccepted, Launcher, Current, study, world,
      process, history, Runnable, Evidence
<1>5. CASE Refuse
  BY <1>5 DEF Refuse, Judgement, SessionAccepted, Launcher, Current, study, world,
      process, history
<1>6. CASE WriteManifest
  BY <1>6 DEF WriteManifest, Judgement, SessionAccepted, Launcher, Current, study,
      world, process, history
<1>7. CASE LaunchSlot
  <2>0. launched \in Slots /\ launched >= launched
        BY <1>7 DEF LaunchSlot, Launcher, Slots
  <2>1. launched \in Slots /\ turn[launched] = "none"
        BY <1>7, <2>0 DEF LaunchSlot, Launcher
  <2>2. phase' \in {"launch", "collect"} /\ phase = "launch"
        BY <1>7 DEF LaunchSlot
  <2>3. launchError' = launchError /\ broken' = broken /\ result' = result
        BY <1>7 DEF LaunchSlot
  <2>4. \A i \in Slots : turn[i] = "ended" => turn'[i] = "ended"
        BY <1>7, <2>1 DEF LaunchSlot
  <2> QED BY <2>2, <2>3, <2>4 DEF Judgement
<1>8. CASE LaunchFails
  BY <1>8 DEF LaunchFails, Judgement, SessionAccepted, Launcher, Current, study, world,
      process, history
<1>9. ASSUME NEW i \in Slots, Write(i) PROVE Judgement'
  BY <1>9 DEF Write, Judgement, SessionAccepted, Launcher, Current, study, world,
      process, history
<1>10. ASSUME NEW i \in Slots, Compact(i) PROVE Judgement'
  BY <1>10 DEF Compact, Judgement, SessionAccepted, Launcher, Current, study, world,
      process, history, Alive, Evidence
<1>11. ASSUME NEW i \in Slots, EndTurn(i) PROVE Judgement'
  BY <1>11 DEF EndTurn, Judgement, SessionAccepted, Launcher, Current, study, world,
      process, history
<1>12. ASSUME NEW i \in Slots, OrphanEnds(i) PROVE Judgement'
  BY <1>12 DEF OrphanEnds, Judgement, SessionAccepted, Launcher, Current, study, world,
      process, history
<1>13. CASE Gather
  BY <1>13 DEF Gather, Judgement, SessionAccepted, Launcher, Current, study, world,
      process, history, Collected, Natural
<1>14. CASE GatherRaises
  BY <1>14 DEF GatherRaises, Judgement, SessionAccepted, Launcher, Current, study,
      world, process, history
<1>15. CASE CleanArchive
  BY <1>15 DEF CleanArchive, Judgement, SessionAccepted, Launcher, Current, study,
      world, process, history
<1>16. CASE Sweep
  BY <1>16 DEF Sweep, Judgement, SessionAccepted, Launcher, Current, study, world,
      process, history
<1>17. CASE CleanupFails
  BY <1>17 DEF CleanupFails, Judgement, SessionAccepted, Launcher, Current, study,
      world, process, history
<1>18. CASE Block
  BY <1>18 DEF Block, Judgement, SessionAccepted, Launcher, Current, study, world,
      process, history
<1>19. CASE Advance
  BY <1>19 DEF Advance, Judgement, SessionAccepted, Launcher, Current, study, world,
      process, history
<1>20. CASE CloseManifest
  BY <1>20 DEF CloseManifest, Judgement, SessionAccepted, Launcher, Current, study,
      world, process, history
<1>21. CASE Die
  BY <1>21 DEF Die, Judgement, SessionAccepted, Launcher, Current, study, world,
      process, history
<1>22. CASE UNCHANGED vars
  BY <1>22 DEF vars, Judgement, SessionAccepted, Launcher, Current, study, world,
      process, history
<1> QED BY <1>1, <1>2, <1>3, <1>4, <1>5, <1>6, <1>7, <1>8, <1>9, <1>10, <1>11, <1>12,
    <1>13, <1>14, <1>15, <1>16, <1>17, <1>18, <1>19, <1>20, <1>21, <1>22 DEF Next



(* A manifest is closed after its state, and only a batch without orphans  *)
(* is judged.                                                              *)
LEMMA ClosingStep == Inv /\ [Next]_vars => Closing'
<1> SUFFICES ASSUME Inv, [Next]_vars PROVE Closing'
    OBVIOUS
<1> USE BoundsAssumption DEF Inv, TypeOK, Closing, ManifestFollowsState, Current

<1>1. CASE Initialize
  BY <1>1 DEF Initialize, history
<1>2. CASE StartUninitialized
  BY <1>2 DEF StartUninitialized, history
<1>3. ASSUME NEW resume \in BOOLEAN, Start(resume) PROVE Closing'
  BY <1>3 DEF Start, study, history
<1>4. CASE Accept
  BY <1>4 DEF Accept, study, history
<1>5. CASE Refuse
  BY <1>5 DEF Refuse, study, history
<1>6. CASE WriteManifest
  BY <1>6 DEF WriteManifest, study, history
<1>7. CASE LaunchSlot
  BY <1>7 DEF LaunchSlot, study
<1>8. CASE LaunchFails
  BY <1>8 DEF LaunchFails, study
<1>9. ASSUME NEW i \in Slots, Write(i) PROVE Closing'
  BY <1>9 DEF Write, study, history
<1>10. ASSUME NEW i \in Slots, Compact(i) PROVE Closing'
  BY <1>10 DEF Compact, study
<1>11. ASSUME NEW i \in Slots, EndTurn(i) PROVE Closing'
  BY <1>11 DEF EndTurn, study
<1>12. ASSUME NEW i \in Slots, OrphanEnds(i) PROVE Closing'
  BY <1>12 DEF OrphanEnds, study
<1>13. CASE Gather
  BY <1>13 DEF Gather, study, history
<1>14. CASE GatherRaises
  BY <1>14 DEF GatherRaises, study, Collected
<1>15. CASE CleanArchive
  BY <1>15 DEF CleanArchive, study, history
<1>16. CASE Sweep
  BY <1>16 DEF Sweep, study, history
<1>17. CASE CleanupFails
  BY <1>17 DEF CleanupFails, study, history
<1>18. CASE Block
  BY <1>18 DEF Block, history, Launcher, Evidence
<1>19. CASE Advance
  <2>1. status' = "ready" /\ completed' = completed + 1 /\ manifest' = manifest
        BY <1>19 DEF Advance
  <2>2. status # "blocked_incomplete"
        BY <1>19 DEF Advance, Launcher
  <2>3. \A k \in Iterations : k <= completed => k <= completed + 1
        BY DEF Iterations
  <2> QED BY <2>1, <2>2, <2>3
<1>20. CASE CloseManifest
  BY <1>20 DEF CloseManifest, study, Launcher
<1>21. CASE Die
  BY <1>21 DEF Die, study, Launcher, Evidence
<1>22. CASE UNCHANGED vars
  BY <1>22 DEF vars, study, history
<1> QED BY <1>1, <1>2, <1>3, <1>4, <1>5, <1>6, <1>7, <1>8, <1>9, <1>10, <1>11, <1>12,
    <1>13, <1>14, <1>15, <1>16, <1>17, <1>18, <1>19, <1>20, <1>21, <1>22 DEF Next

(* The inductive invariant. *)
LEMMA SpecInv == Spec => []Inv
<1>1. Inv /\ [Next]_vars => Inv'
      BY TypeStep, EvidenceStep, LauncherStep, JudgementStep, ClosingStep DEF Inv
<1> QED BY InitInv, <1>1, PTL DEF Spec

-----------------------------------------------------------------------------
(* Every variable of the launcher and its files keeps its type. *)
THEOREM Typing == Spec => []TypeOK
<1>1. Inv => TypeOK
      BY DEF Inv
<1> QED BY SpecInv, <1>1, PTL

(* Turns that survived their launcher never meet a later batch in the      *)
(* shared workspace: the evidence directory of theirs refuses it.          *)
THEOREM NoOverlap == Spec => []BatchesDoNotOverlap
<1>1. Inv => BatchesDoNotOverlap
      BY DEF Inv, Evidence, BatchesDoNotOverlap
<1> QED BY SpecInv, <1>1, PTL

(* An iteration with a failed turn, a failed launch or a dead launcher is  *)
(* never counted as completed.                                             *)
THEOREM FailuresStop == Spec => []NoSilentAdvance
<1>1. Inv => NoSilentAdvance
      BY DEF Inv, Evidence, NoSilentAdvance, Current, TypeOK
<1> QED BY SpecInv, <1>1, PTL

(* The manifests never run ahead of the study state. *)
THEOREM ManifestsFollow == Spec => []ManifestFollowsState
<1>1. Inv => ManifestFollowsState
      BY DEF Inv, Closing
<1> QED BY SpecInv, <1>1, PTL

(* No slot gets a second turn in an iteration, across all launchers. *)
THEOREM NoRetries == Spec => OneTurnPerSlot
<1>1. ASSUME Inv, [Next]_vars, NEW i \in Slots, turn[i] # "running", turn'[i] = "running"
      PROVE <<Current, i>> \notin started
  <2>1. CASE LaunchSlot
    <3>1. i = launched
          BY <1>1, <2>1 DEF LaunchSlot, Inv, TypeOK
    <3>2. launched >= launched
          BY <1>1, BoundsAssumption DEF Inv, TypeOK
    <3> QED BY <2>1, <3>1, <3>2, <1>1 DEF LaunchSlot, Inv, Launcher
  <2>2. CASE \E j \in Slots : EndTurn(j)
        BY <1>1, <2>2 DEF EndTurn, Inv, TypeOK
  <2>3. CASE GatherRaises \/ CloseManifest \/ Die
        BY <1>1, <2>3 DEF GatherRaises, CloseManifest, Die, NoBatch
  <2>4. CASE UNCHANGED turn
        BY <1>1, <2>4
  <2> QED BY <1>1, <2>1, <2>2, <2>3, <2>4
          DEF Next, vars, process, Initialize, StartUninitialized, Start, Accept, Refuse,
              WriteManifest, LaunchFails, Write, Compact, OrphanEnds, Gather,
              CleanArchive, Sweep, CleanupFails, Block, Advance
<1>2. Inv /\ [Next]_vars => [\A i \in Slots : turn[i] # "running" /\ turn'[i] = "running" =>
                               <<Current, i>> \notin started]_vars
      BY <1>1
<1> QED BY SpecInv, <1>2, PTL DEF Spec, OneTurnPerSlot

(* A blocked study keeps its archive, shared files and private outputs: no *)
(* launcher runs in it and no turn is left that could write.               *)
THEOREM EvidenceStays == Spec => BlockedEvidenceKept
<1>1. ASSUME Inv, [Next]_vars, status = "blocked_incomplete"
      PROVE UNCHANGED <<archive, shared, outputs>>
  <2>1. phase \in {"idle", "close"} /\ \A i \in Slots : ~Alive(i)
        BY <1>1 DEF Inv, Launcher, Closing, Alive, TypeOK
  <2>2. CASE UNCHANGED world
        BY <2>2 DEF world
  <2>3. CASE CloseManifest \/ Die \/ \E i \in Slots : OrphanEnds(i)
        BY <2>1, <2>3 DEF CloseManifest, Die, OrphanEnds, world
  <2> QED BY <1>1, <2>1, <2>2, <2>3
          DEF Next, vars, Initialize, StartUninitialized, Start, Accept, Refuse,
              WriteManifest, LaunchSlot, LaunchFails, Write, Compact, EndTurn, Gather,
              GatherRaises, Collected, CleanArchive, Sweep, CleanupFails, Block, Advance
<1>2. Inv /\ [Next]_vars =>
        [status = "blocked_incomplete" => UNCHANGED <<archive, shared, outputs>>]_vars
      BY <1>1
<1> QED BY SpecInv, <1>2, PTL DEF Spec, BlockedEvidenceKept

-----------------------------------------------------------------------------
(* What ties the study state to the iterations it has completed: every     *)
(* booked session has been seen, a survivor is the session its slot had in *)
(* the last one, and a counter that moved tells of a compaction.           *)
Booked ==
  /\ Len(account) = completed
  /\ \A k \in 1 .. Len(account), i \in Slots : account[k].session[i] \in seen
  /\ \A k \in 1 .. Len(account), i, j \in Slots :
       account[k].session[i] = account[k].session[j] => i = j
  /\ \A i \in Slots : next[i] # NoSession =>
       /\ completed \in 1 .. Len(account)
       /\ account[completed].session[i] = next[i] /\ i \in account[completed].compacted

Counted == phase \in {"manifest", "launch", "collect", "clean", "sweep", "advance"} =>
             \A i \in Slots : counter[i] # counts[i] => i \in actual

(* Only a counted compaction moves a counter while a batch is open.        *)
LEMMA CountedStep == Inv /\ Counted /\ [Next]_vars => Counted'
<1> SUFFICES ASSUME Inv, Counted, [Next]_vars PROVE Counted'
    OBVIOUS
<1> USE DEF Counted
<1>1. CASE Accept
      BY <1>1 DEF Accept, Runnable, study, world
<1>2. ASSUME NEW i \in Slots, Compact(i) PROVE Counted'
  <2>1. \A j \in Slots : counter'[j] # counter[j] => j = i
        BY <1>2 DEF Compact, Inv, TypeOK
  <2> QED BY <1>2, <2>1 DEF Compact, study, process
<1>3. CASE \/ Initialize \/ StartUninitialized \/ (\E resume \in BOOLEAN : Start(resume))
           \/ Refuse \/ GatherRaises \/ CleanupFails \/ Block \/ Advance \/ CloseManifest
           \/ Die
      BY <1>3 DEF Initialize, StartUninitialized, Start, Refuse, GatherRaises, CleanupFails,
                  Block, Advance, CloseManifest, Die, process
<1>4. CASE \/ WriteManifest \/ LaunchSlot \/ LaunchFails \/ Gather \/ CleanArchive \/ Sweep
           \/ (\E i \in Slots : Write(i) \/ EndTurn(i) \/ OrphanEnds(i)) \/ UNCHANGED vars
  <2>1. counter' = counter /\ counts' = counts /\ actual' = actual
        BY <1>4 DEF WriteManifest, LaunchSlot, LaunchFails, Gather, CleanArchive, Sweep,
                    Write, EndTurn, OrphanEnds, vars, study, world, history
  <2>2. phase' \in {"manifest", "launch", "collect", "clean", "sweep", "advance"} =>
          phase \in {"manifest", "launch", "collect", "clean", "sweep", "advance"}
        BY <1>4 DEF WriteManifest, LaunchSlot, LaunchFails, Gather, Collected, CleanArchive,
                    Sweep, Write, EndTurn, OrphanEnds, vars, process
  <2> QED BY <2>1, <2>2
<1> QED BY <1>1, <1>2, <1>3, <1>4 DEF Next

(* Advance books a session under its slot: one that the slot continued, or *)
(* one that no completed iteration had.                                    *)
LEMMA BookedStep ==
  Inv /\ Counted /\ Booked /\ SessionsAreRuns /\ [Next]_vars => Booked' /\ SessionsAreRuns'
<1> SUFFICES ASSUME Inv, Counted, Booked, SessionsAreRuns, [Next]_vars
             PROVE Booked' /\ SessionsAreRuns'
    OBVIOUS
<1>1. CASE Advance
  <2> DEFINE new == [session |-> result, compacted |-> actual]
             last == Len(account) + 1
  <2>1. /\ account \in Seq(Entry) /\ completed = Len(account) /\ Len(account) \in Nat
        /\ result \in [Slots -> Ids] /\ next \in [Slots -> Ids]
        BY DEF Inv, TypeOK, Booked
  <2>2. \A i \in Slots : SessionAccepted(i)
        BY <1>1 DEF Advance, Inv, Judgement
  <2>3. \A i, j \in Slots : result[i] = result[j] => i = j
        BY <1>1 DEF Advance, Inv, Judgement
  <2>4. account' = Append(account, new) /\ completed' = completed + 1
        BY <1>1 DEF Advance, Current
  <2>5. /\ Len(account') = last /\ account'[last] = new
        /\ \A k \in 1 .. Len(account) : account'[k] = account[k]
        BY <2>1, <2>4
  <2>6. \A k \in 1 .. last : k = last \/ k \in 1 .. Len(account)
        BY <2>1
  <2>7. \A i \in Slots : result[i] \in seen => next[i] # NoSession /\ result[i] = next[i]
        BY <2>2 DEF SessionAccepted
  <2>8. seen \subseteq seen' /\ \A i \in Slots : result[i] \in seen'
    <3>1. seen' = seen \cup {result[i] : i \in Slots \ Survivors}
          BY <1>1 DEF Advance
    <3>2. ASSUME NEW i \in Slots, i \in Survivors PROVE result[i] \in seen
          BY <2>1, <2>2, <3>2 DEF SessionAccepted, Survivors, Booked
    <3> QED BY <3>1, <3>2
  <2>9. \A i \in Slots : next'[i] # NoSession => next'[i] = result[i] /\ i \in actual
    <3>1. \A i \in Slots : i \in Compacted => i \in actual
          BY <1>1 DEF Advance, Compacted, Counted, Inv, TypeOK
    <3> QED BY <1>1, <3>1 DEF Advance
  <2>10. Booked'
    <3>1. \A k \in 1 .. last, i \in Slots : account'[k].session[i] \in seen'
          BY <2>5, <2>6, <2>8 DEF Booked
    <3>2. \A k \in 1 .. last, i, j \in Slots :
            account'[k].session[i] = account'[k].session[j] => i = j
          BY <2>3, <2>5, <2>6 DEF Booked
    <3>3. completed' = last /\ last \in 1 .. last
          BY <2>1, <2>4
    <3> QED BY <2>5, <2>9, <3>1, <3>2, <3>3 DEF Booked
  <2>11. ASSUME NEW j \in 1 .. last, NEW k \in 1 .. last, NEW h \in Slots, NEW i \in Slots,
                j < k, account'[j].session[h] = account'[k].session[i]
         PROVE /\ h = i
               /\ \A m \in j .. k - 1 : /\ account'[m].session[i] = account'[k].session[i]
                                        /\ i \in account'[m].compacted
    <3>1. j \in 1 .. Len(account) /\ \A m \in j .. k - 1 : m \in 1 .. Len(account)
          BY <2>1, <2>11
    <3>2. CASE k \in 1 .. Len(account)
          BY <2>5, <2>11, <3>1, <3>2 DEF SessionsAreRuns
    <3>3. CASE k = last
      <4>1. account[j].session[h] = result[i] /\ account'[k].session[i] = result[i]
            BY <2>5, <2>11, <3>1, <3>3
      <4>2. next[i] # NoSession /\ result[i] = next[i]
            BY <2>7, <3>1, <4>1 DEF Booked
      <4>3. /\ completed \in 1 .. Len(account) /\ account[completed].session[i] = result[i]
            /\ i \in account[completed].compacted
            BY <4>2 DEF Booked
      <4>4. CASE j = completed
        <5>1. h = i
              BY <4>1, <4>3, <4>4 DEF Booked
        <5>2. \A m \in j .. k - 1 : m = completed
              BY <2>1, <3>3, <4>4
        <5> QED BY <2>5, <4>1, <4>3, <5>1, <5>2
      <4>5. CASE j < completed
        <5>1. /\ h = i
              /\ \A m \in j .. completed - 1 : /\ account[m].session[i] = result[i]
                                               /\ i \in account[m].compacted
              BY <3>1, <4>1, <4>3, <4>5 DEF SessionsAreRuns
        <5>2. \A m \in j .. k - 1 : m = completed \/ m \in j .. completed - 1
              BY <2>1, <3>3, <4>5
        <5> QED BY <2>5, <3>1, <4>1, <4>3, <5>1, <5>2
      <4> QED BY <2>1, <3>1, <4>4, <4>5
    <3> QED BY <2>6, <3>2, <3>3
  <2> QED BY <2>5, <2>10, <2>11 DEF SessionsAreRuns
<1>2. CASE UNCHANGED <<completed, next, seen, account>>
      BY <1>2 DEF Booked, SessionsAreRuns
<1> QED BY <1>1, <1>2
        DEF Next, vars, study, history, Initialize, StartUninitialized, Start, Accept, Refuse,
            WriteManifest, LaunchSlot, LaunchFails, Write, Compact, EndTurn, OrphanEnds,
            Gather, GatherRaises, CleanArchive, Sweep, CleanupFails, Block, CloseManifest, Die

(* Over all completed iterations a session has one slot, an unbroken run of*)
(* turns in it, and compacted its context in each of them but the last.    *)
THEOREM SessionRuns == Spec => []SessionsAreRuns
<1>1. Init => Counted /\ Booked /\ SessionsAreRuns
      BY DEF Init, Counted, Booked, SessionsAreRuns
<1> QED BY SpecInv, <1>1, CountedStep, BookedStep, PTL DEF Spec
-----------------------------------------------------------------------------
(* While no launcher has died: no orphan can touch the workspace, nothing  *)
(* lies ahead of the current iteration, and from the judgement to the      *)
(* closing of a good batch layout, archive and counters are in order.      *)
Open == status \in {"absent", "initialized", "ready"} /\ drift # "missing" /\ Current \in Iterations

Readiness ==
  deaths = 0 =>
    /\ orphans = {}
    /\ \A k \in Iterations : k > Current => manifest[k] = "absent"
    /\ phase \in {"idle", "check"} /\ Open => Runnable
    /\ phase \in {"clean", "sweep", "advance"} => drift = "no"
    /\ phase \in {"sweep", "advance"} => archive.work = "clean"
    /\ phase = "close" /\ Open => Runnable

(* The layout can only be damaged, and the archive written, by a turn that *)
(* runs: the launcher then collects.                                       *)
LEMMA ReadinessStep == Inv /\ Readiness /\ [Next]_vars => Readiness'
<1> SUFFICES ASSUME Inv, Readiness, [Next]_vars, deaths' = 0 PROVE Readiness'
    BY DEF Readiness
<1>0. TypeOK /\ Launcher
      BY DEF Inv
<1>1. deaths = 0
      BY <1>0, BoundsAssumption DEF Next, Die, vars, study, world, process, history, TypeOK, Initialize, StartUninitialized, Start, Accept, Refuse,
            WriteManifest, LaunchSlot, LaunchFails, Write, Compact, EndTurn, OrphanEnds,
            Gather, GatherRaises, CleanArchive, Sweep, CleanupFails, Block, CloseManifest, Advance
<1>2. Current \in Nat /\ completed \in Nat
      BY <1>0, BoundsAssumption DEF TypeOK, Current
<1> USE DEF Readiness, Open, Runnable
<1>3. CASE Initialize \/ StartUninitialized \/ \E resume \in BOOLEAN : Start(resume)
      BY <1>1, <1>3 DEF Initialize, StartUninitialized, Start, study, world, process, history, Current
<1>4. CASE Accept
  <2>1. \A k \in Iterations : k > Current => manifest'[k] = "absent"
        BY <1>0, <1>1, <1>2, <1>4 DEF Accept, TypeOK, Iterations
  <2> QED BY <1>1, <1>4, <2>1 DEF Accept, study, world, history, Current
<1>5. CASE WriteManifest
  <2>1. \A k \in Iterations : k > Current => manifest'[k] = "absent"
        BY <1>0, <1>1, <1>2, <1>5 DEF WriteManifest, TypeOK, Iterations
  <2> QED BY <1>1, <1>5, <2>1 DEF WriteManifest, study, world, history, Current
<1>6. CASE Refuse \/ LaunchSlot \/ LaunchFails \/ CleanArchive \/ Sweep \/ CleanupFails
      BY <1>0, <1>1, <1>6 DEF Refuse, LaunchSlot, LaunchFails, CleanArchive, Sweep, CleanupFails,
                       study, world, history, Current, TypeOK
<1>7. ASSUME NEW i \in Slots, Write(i) \/ Compact(i) \/ EndTurn(i) \/ OrphanEnds(i)
      PROVE  Readiness'
  <2>1. phase \in {"launch", "collect"}
        BY <1>0, <1>1, <1>7 DEF Write, Compact, EndTurn, OrphanEnds, Alive, Launcher
  <2> QED BY <1>1, <1>7, <2>1 DEF Write, Compact, EndTurn, OrphanEnds, study, process, history, Current
<1>8. CASE Gather
  <2>1. /\ UNCHANGED <<orphans, manifest, drift, archive, counter, counts, status, completed>>
        /\ phase' = IF Natural THEN "clean" ELSE "block"
        BY <1>8 DEF Gather, study, world, history
  <2>2. Natural => drift = "no"
        BY DEF Natural
  <2> QED BY <1>1, <2>1, <2>2 DEF Current
<1>14. CASE GatherRaises
  <2>1. /\ UNCHANGED <<orphans, manifest, drift, archive, counter, counts, status, completed>>
        /\ phase' = "idle" /\ drift = "missing"
        BY <1>14 DEF GatherRaises, study, world
  <2> QED BY <1>1, <2>1 DEF Current
<1>9. CASE Block
      BY <1>1, <1>9 DEF Block, world, process, history, Current
<1>10. CASE Advance
  <2>1. Current' = Current + 1
        BY <1>2, <1>10 DEF Advance, Current
  <2>2. \A k \in Iterations : k > Current' => manifest'[k] = "absent"
        BY <1>1, <1>2, <1>10, <2>1 DEF Advance, Iterations
  <2>3. Current' \in Iterations => manifest'[Current'] = "absent"
        BY <1>1, <1>2, <1>10, <2>1 DEF Advance
  <2> QED BY <1>1, <1>10, <2>2, <2>3 DEF Advance, world, history
<1>11. CASE CloseManifest
  <2>1. status \in {"blocked_incomplete", "ready"}
        BY <1>0, <1>11 DEF CloseManifest, Launcher
  <2>2. \A k \in Iterations : k > Current => manifest'[k] = manifest[k]
        BY <1>0, <1>2, <1>11 DEF CloseManifest, TypeOK, Iterations, Current
  <2>3. status = "ready" /\ Current \in Iterations => manifest'[Current] = manifest[Current]
        BY <1>0, <1>2, <1>11 DEF CloseManifest, TypeOK, Iterations, Current
  <2> QED BY <1>1, <1>11, <2>1, <2>2, <2>3 DEF CloseManifest, study, world, Current
<1>12. CASE Die
      BY <1>0, <1>1, <1>12, BoundsAssumption DEF Die, TypeOK
<1>13. CASE UNCHANGED vars
      BY <1>1, <1>13 DEF vars, study, world, process, history, Current
<1> QED BY <1>3, <1>4, <1>5, <1>6, <1>7, <1>8, <1>9, <1>10, <1>11, <1>12, <1>13, <1>14 DEF Next

(* A study that says it can run passes the next launch's checks, unless a  *)
(* launcher died or a path vanished: survivors are sessions of the last    *)
(* batch, each in one slot (the checks of run_iteration).                  *)
THEOREM ReadyRuns == Spec => []ReadyIsRunnable
<1>1. Init => Counted /\ Booked /\ SessionsAreRuns
      BY DEF Init, Counted, Booked, SessionsAreRuns
<1>2. Init => Readiness
      BY BoundsAssumption DEF Init, Readiness, Open, Runnable, Iterations, Current
<1>3. Inv /\ Booked => Selectable
      BY DEF Booked, Selectable, Survivors
<1>4. Inv /\ Booked /\ Readiness => ReadyIsRunnable
  <2>1. Inv /\ completed < LastIteration => Current \in Iterations
        BY BoundsAssumption DEF Inv, TypeOK, Current, Iterations
  <2> QED BY <1>3, <2>1 DEF Readiness, Open, ReadyIsRunnable
<1> QED BY SpecInv, <1>1, <1>2, <1>4, CountedStep, BookedStep, ReadinessStep, PTL DEF Spec
=============================================================================
