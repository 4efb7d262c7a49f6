------------------------ MODULE ArchiveCleanup_proofs ------------------------
(* Proofs about the round boundary, for any archives, any number of         *)
(* launches and any number of deaths.                                       *)
EXTENDS ArchiveCleanup, TLAPS

(* An entry the boundary has nothing left to do for. *)
Settled(a) == entry[a].kind = "absent" \/ (Committed(a) /\ ~Dirty(a))

(* What the state file promises in each phase. *)
FileTellsPhase ==
  /\ phase \in {"ready", "running"} => stateFile \in {"none", "completed"}
  /\ phase = "cleaning" => stateFile = "in_progress"

(* The boundary's own position. *)
Position ==
  /\ phase # "cleaning" => at = NoArchive
  /\ step = "inspect" <=> at = NoArchive
  /\ at # NoArchive => at \in todo

(* How far the entry it works on has come. *)
Progress ==
  /\ step \in {"reset", "clean", "verify"} => Committed(at)
  /\ step \in {"clean", "verify"} => ~entry[at].tracked
  /\ step = "verify" => ~entry[at].untracked

(* Everything else it has finished stays settled. *)
DoneIsSettled == phase = "cleaning" => \A a \in Archives \ todo : Settled(a)

Inv == TypeOK /\ FileTellsPhase /\ Position /\ Progress /\ DoneIsSettled

(* Without failing probes only worthless entries are removed. *)
RemovesWorthless == step = "remove" => ~Committed(at)

LEMMA InitInv == Init => Inv
  BY ArchiveAssumption DEF Init, Inv, TypeOK, FileTellsPhase, Position, Progress, DoneIsSettled,
    Entries, Bare

(* A repository stays one when a command changes its flags. *)
LEMMA FlagsKeepGit ==
  ASSUME NEW e \in Git, NEW b \in BOOLEAN
  PROVE /\ [e EXCEPT !.tracked = b] \in Git
        /\ [e EXCEPT !.untracked = b] \in Git
        /\ [e EXCEPT !.locked = b] \in Git
  BY DEF Git

(* While a git command runs, the boundary stands at a committed repository. *)
LEMMA AtRepository ==
  ASSUME TypeOK, Position, Progress, step \in {"reset", "clean", "verify"}
  PROVE at \in Archives /\ entry[at] \in Git /\ phase = "cleaning"
  <1>1. at # NoArchive /\ phase = "cleaning" /\ at \in Archives
        BY DEF Position, TypeOK
  <1>2. entry[at] \in Entries /\ entry[at].kind = "git"
        BY <1>1 DEF TypeOK, Progress, Committed
  <1>3. entry[at] # Bare("absent") /\ entry[at] # Bare("invalid")
        BY <1>2 DEF Bare
  <1> QED BY <1>1, <1>2, <1>3 DEF Entries

LEMMA TypeStep == TypeOK /\ Position /\ Progress /\ [Next]_vars => TypeOK'
<1> SUFFICES ASSUME TypeOK, Position, Progress, [Next]_vars PROVE TypeOK'
    OBVIOUS
<1>0. step = "remove" => at \in Archives
      BY DEF Position, TypeOK
<1> USE ArchiveAssumption DEF TypeOK
<1>1. CASE Launch
      BY <1>1 DEF Launch, BeginBoundary, boundary
<1>2. CASE BeginBatch
      BY <1>2 DEF BeginBatch, boundary
<1>3. CASE EndBatch
      BY <1>3 DEF EndBatch, BeginBoundary
<1>4. CASE Exit
      BY <1>4 DEF Exit, boundary
<1>5. CASE Crash
  <2>1. entry' \in [Archives -> Entries]
    <3>1. CASE UNCHANGED entry
          BY <3>1
    <3>2. CASE step = "remove" /\ entry' = [entry EXCEPT ![at] = Bare("invalid")]
          BY <3>2 DEF Entries
    <3>3. CASE step \in {"reset", "clean"} /\ entry' = [entry EXCEPT ![at].locked = TRUE]
          BY <3>3, AtRepository, FlagsKeepGit DEF Entries
    <3> QED BY <1>5, <3>1, <3>2, <3>3 DEF Crash
  <2> QED BY <1>5, <2>1 DEF Crash, NoBoundary
<1>6. CASE Remove
      BY <1>6, <1>0 DEF Remove, FinishEntry, Entries
<1>7. CASE Reset
  <2>1. entry' \in [Archives -> Entries]
        BY <1>7, AtRepository, FlagsKeepGit DEF Reset, Entries
  <2> QED BY <1>7, <2>1 DEF Reset
<1>8. CASE Clean
  <2>1. entry' \in [Archives -> Entries]
        BY <1>8, AtRepository, FlagsKeepGit DEF Clean, Entries
  <2> QED BY <1>8, <2>1 DEF Clean
<1>9. CASE Verify
      BY <1>9 DEF Verify, FinishEntry
<1>10. CASE BoundaryFails
      BY <1>10 DEF BoundaryFails, NoBoundary
<1>11. CASE Complete
      BY <1>11 DEF Complete, boundary
<1>12. CASE \E a \in Archives : Work(a)
      BY <1>12 DEF Work, boundary
<1>13. CASE \E a \in Archives : Inspect(a)
      BY <1>13 DEF Inspect
<1>14. CASE UNCHANGED vars
      BY <1>14 DEF vars, boundary
<1> QED BY <1>1, <1>2, <1>3, <1>4, <1>5, <1>6, <1>7, <1>8, <1>9, <1>10, <1>11, <1>12, <1>13,
         <1>14 DEF Next

(* Every step keeps the boundary's position, progress and finished entries. *)
LEMMA InvStep == Inv /\ [Next]_vars => Inv'
<1> SUFFICES ASSUME Inv, [Next]_vars PROVE Inv'
    OBVIOUS
<1>0. TypeOK'
      BY TypeStep DEF Inv
<1> USE ArchiveAssumption DEF Inv, FileTellsPhase, Position, Progress, DoneIsSettled, Committed, Dirty,
        Settled
<1>1. CASE Launch
  <2>1. CASE BeginBoundary
    <3>1. \A a \in Archives \ todo' : entry'[a].kind = "absent"
          BY <1>1, <2>1 DEF Launch, BeginBoundary, TypeOK
    <3> QED BY <1>0, <1>1, <2>1, <3>1 DEF Launch, BeginBoundary
  <2>2. CASE stateFile \in {"none", "completed"} /\ phase' = "ready" /\ UNCHANGED <<stateFile, boundary>>
        BY <1>0, <1>1, <2>2 DEF Launch, boundary
  <2> QED BY <1>1, <2>1, <2>2 DEF Launch, TypeOK
<1>2. CASE BeginBatch
      BY <1>0, <1>2 DEF BeginBatch, boundary
<1>3. CASE EndBatch
  <2>1. \A a \in Archives \ todo' : entry'[a].kind = "absent"
        BY <1>3 DEF EndBatch, BeginBoundary, TypeOK
  <2> QED BY <1>0, <1>3, <2>1 DEF EndBatch, BeginBoundary
<1>4. CASE Exit
      BY <1>0, <1>4 DEF Exit, boundary
<1>5. CASE Crash
      BY <1>0, <1>5 DEF Crash, NoBoundary
<1>6. CASE Remove
  <2>1. at \in Archives /\ phase = "cleaning"
        BY <1>6 DEF Remove, TypeOK
  <2>2. \A a \in Archives \ todo' : Settled(a)'
    <3>1. ASSUME NEW a \in Archives \ todo', a = at PROVE Settled(a)'
          BY <1>6, <2>1, <3>1 DEF Remove, Bare, TypeOK
    <3>2. ASSUME NEW a \in Archives \ todo', a # at PROVE Settled(a)'
          BY <1>6, <2>1, <3>2 DEF Remove, FinishEntry, TypeOK
    <3> QED BY <3>1, <3>2
  <2> QED BY <1>0, <1>6, <2>1, <2>2 DEF Remove, FinishEntry
<1>7. CASE Reset
  <2>1. at \in Archives /\ entry[at] \in Git /\ phase = "cleaning" /\ at \in todo
        BY <1>7, AtRepository DEF Reset
  <2>2. entry' \in [Archives -> Entries] /\ entry \in [Archives -> Entries]
        BY <1>0 DEF TypeOK
  <2>3. entry'[at] = [entry[at] EXCEPT !.tracked = FALSE] /\ \A a \in Archives \ {at} : entry'[a] = entry[a]
        BY <1>7, <2>1, <2>2 DEF Reset
  <2>4. entry'[at].kind = "git" /\ entry'[at].head # 0 /\ ~entry'[at].tracked
        BY <1>7, <2>1, <2>3 DEF Reset, Git
  <2> QED BY <1>0, <1>7, <2>1, <2>3, <2>4 DEF Reset
<1>8. CASE Clean
  <2>1. at \in Archives /\ entry[at] \in Git /\ phase = "cleaning" /\ at \in todo
        BY <1>8, AtRepository DEF Clean
  <2>2. entry' \in [Archives -> Entries] /\ entry \in [Archives -> Entries]
        BY <1>0 DEF TypeOK
  <2>3. entry'[at] = [entry[at] EXCEPT !.untracked = FALSE] /\ \A a \in Archives \ {at} : entry'[a] = entry[a]
        BY <1>8, <2>1, <2>2 DEF Clean
  <2>4. entry'[at].kind = "git" /\ entry'[at].head # 0 /\ ~entry'[at].tracked /\ ~entry'[at].untracked
        BY <1>8, <2>1, <2>3 DEF Clean, Git
  <2> QED BY <1>0, <1>8, <2>1, <2>3, <2>4 DEF Clean
<1>9. CASE Verify
      BY <1>0, <1>9 DEF Verify, FinishEntry
<1>10. CASE BoundaryFails
      BY <1>0, <1>10 DEF BoundaryFails, NoBoundary
<1>11. CASE Complete
      BY <1>0, <1>11 DEF Complete, boundary
<1>12. CASE \E a \in Archives : Work(a)
      BY <1>0, <1>12 DEF Work, boundary
<1>13. CASE \E a \in Archives : Inspect(a)
      BY <1>0, <1>13 DEF Inspect, TypeOK
<1>14. CASE UNCHANGED vars
      BY <1>0, <1>14 DEF vars, boundary
<1> QED BY <1>1, <1>2, <1>3, <1>4, <1>5, <1>6, <1>7, <1>8, <1>9, <1>10, <1>11, <1>12, <1>13,
         <1>14 DEF Next

LEMMA Invariance == Spec => []Inv
  BY InitInv, InvStep, PTL DEF Spec

(* The state keeps its type, whatever rollouts leave and wherever the       *)
(* boundary dies (cleanup_shared_archives and the startup recovery).        *)
THEOREM Typing == Spec => []TypeOK
<1>1. Inv => TypeOK
      BY DEF Inv
<1> QED BY <1>1, Invariance, PTL

(* Rollouts never work in archives whose boundary is not completed: the     *)
(* state file is written before and the launch reads it (main_loop.py       *)
(* 1050-1066, 3412-3443).                                                   *)
THEOREM RolloutsWaitForBoundary == Spec => []NoRolloutsDuringBoundary
<1>1. Inv => NoRolloutsDuringBoundary
      BY DEF Inv, FileTellsPhase, NoRolloutsDuringBoundary
<1> QED BY <1>1, Invariance, PTL

(* A boundary reported completed left every entry absent or a committed     *)
(* repository at its HEAD, also after any number of failed attempts         *)
(* (cleanup_shared_archives, main_loop.py 1089-1105).                       *)
THEOREM CompletionIsClean == Spec => CompletedMeansClean
<1>1. ASSUME Inv, [Next]_vars, stateFile # "completed", stateFile' = "completed"
      PROVE  AllClean'
  <2>1. Complete
        BY <1>1 DEF Next, vars, Launch, BeginBoundary, BeginBatch, EndBatch, Exit, Crash, Remove, Reset,
          Clean, Verify, BoundaryFails, Work, Inspect, FinishEntry
  <2>2. \A a \in Archives : Settled(a)
        BY <1>1, <2>1 DEF Complete, Inv, DoneIsSettled
  <2> QED BY <2>1, <2>2 DEF Complete, AllClean, Settled, Committed, Dirty
<1>2. Inv /\ [Next]_vars => [stateFile # "completed" /\ stateFile' = "completed" => AllClean']_vars
      BY <1>1
<1> QED BY <1>2, Invariance, PTL DEF Spec, CompletedMeansClean

(* As long as a probe that exits non-zero speaks the truth, only worthless  *)
(* entries are removed.                                                     *)
LEMMA RemovalStep ==
  ASSUME ProbesMayFail = FALSE
  PROVE Inv /\ RemovesWorthless /\ [Next]_vars => RemovesWorthless'
<1> SUFFICES ASSUME Inv, RemovesWorthless, [Next]_vars, step' = "remove" PROVE ~Committed(at)'
    BY DEF RemovesWorthless
<1> USE DEF Committed, RemovesWorthless
<1>1. CASE step = "remove"
  <2>1. phase = "cleaning" /\ at # NoArchive
        BY <1>1 DEF Inv, Position
  <2>2. UNCHANGED <<entry, at>>
        BY <1>1, <2>1 DEF Next, vars, boundary, Launch, BeginBatch, EndBatch, Exit, Crash, NoBoundary, Remove,
          FinishEntry, Reset, Clean, Verify, BoundaryFails, Complete, Work, Inspect
  <2> QED BY <1>1, <2>2
<1>2. CASE step # "remove"
  <2>1. PICK a \in Archives : Inspect(a)
        BY <1>2 DEF Next, vars, boundary, Launch, BeginBoundary, BeginBatch, EndBatch, Exit, Crash, NoBoundary,
          Remove, FinishEntry, Reset, Clean, Verify, BoundaryFails, Complete, Work
  <2> QED BY <2>1 DEF Inspect
<1> QED BY <1>1, <1>2

(* Committed archive work survives every boundary, failed and killed ones   *)
(* included, provided a git probe fails only on what is not a committed     *)
(* repository (_is_self_contained_archive_repo, main_loop.py 873-903).      *)
THEOREM CommittedWorkSurvives ==
  ASSUME ProbesMayFail = FALSE
  PROVE  Spec => CommittedWorkKept
<1>1. Init => RemovesWorthless
      BY DEF Init, RemovesWorthless
<1>2. ASSUME Inv, RemovesWorthless, [Next]_vars, phase = "cleaning",
             NEW a \in Archives, Committed(a)
      PROVE  Committed(a)' /\ entry'[a].head = entry[a].head
  <2>0. entry \in [Archives -> Entries]
        BY <1>2 DEF Inv, TypeOK
  <2>1. CASE UNCHANGED entry
        BY <1>2, <2>1 DEF Committed
  <2>2. CASE step = "remove" /\ \E e : entry' = [entry EXCEPT ![at] = e]
    <3>1. a # at
          BY <1>2, <2>2 DEF RemovesWorthless
    <3> QED BY <1>2, <2>0, <2>2, <3>1 DEF Committed
  <2>3. CASE step \in {"reset", "clean"} /\
             \E b \in BOOLEAN : \/ entry' = [entry EXCEPT ![at].tracked = b]
                                \/ entry' = [entry EXCEPT ![at].untracked = b]
                                \/ entry' = [entry EXCEPT ![at].locked = b]
    <3>1. at \in Archives /\ entry[at] \in Git
          BY <1>2, <2>3, AtRepository DEF Inv
    <3>2. \A c \in Archives : entry'[c].kind = entry[c].kind /\ entry'[c].head = entry[c].head
      <4>1. entry'[at].kind = entry[at].kind /\ entry'[at].head = entry[at].head
            BY <2>0, <2>3, <3>1 DEF Git
      <4>2. \A c \in Archives \ {at} : entry'[c] = entry[c]
            BY <2>0, <2>3
      <4> QED BY <4>1, <4>2
    <3> QED BY <1>2, <3>2 DEF Committed
  <2> QED BY <1>2, <2>1, <2>2, <2>3 DEF Next, vars, Launch, BeginBatch, EndBatch, Exit, Crash, Remove,
        Reset, Clean, Verify, BoundaryFails, Complete, Work, Inspect
<1>3. Inv /\ RemovesWorthless /\ [Next]_vars =>
        [phase = "cleaning" =>
           \A a \in Archives : Committed(a) => Committed(a)' /\ entry'[a].head = entry[a].head]_vars
      BY <1>2
<1> QED BY <1>1, <1>3, RemovalStep, Invariance, PTL DEF Spec, CommittedWorkKept
=============================================================================
