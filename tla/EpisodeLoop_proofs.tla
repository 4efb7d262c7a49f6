-------------------------- MODULE EpisodeLoop_proofs --------------------------
(* Proofs about the run log, the parent pool and the workspaces, for any   *)
(* number of batches, rollouts, launches and deaths.                       *)
EXTENDS EpisodeLoop, SequenceTheorems, TLAPS, WellFoundedInduction

-----------------------------------------------------------------------------
(* The records are what the lines of the log say.                          *)

LEMMA LinesSame == lines' = lines => log' = log
BY DEF log

LEMMA LinesAppend ==
  ASSUME lines \in Seq(Record), NEW r \in Record, lines' = Append(lines, r)
  PROVE  /\ log' = log \cup {r} /\ lines' \in Seq(Record)
         /\ DOMAIN lines' = DOMAIN lines \cup {Len(lines) + 1}
         /\ \A k \in DOMAIN lines : lines'[k] = lines[k]
         /\ lines'[Len(lines) + 1] = r /\ Len(lines) + 1 \notin DOMAIN lines
<1>1. /\ Len(lines) \in Nat /\ DOMAIN lines = 1 .. Len(lines)
      /\ lines' \in Seq(Record) /\ Len(lines') = Len(lines) + 1
      /\ \A k \in 1 .. Len(lines) : lines'[k] = lines[k]
      /\ lines'[Len(lines) + 1] = r
  BY AppendProperties
<1>2. DOMAIN lines' = 1 .. Len(lines) + 1
  BY <1>1, LenProperties
<1>3. DOMAIN lines' = DOMAIN lines \cup {Len(lines) + 1} /\ Len(lines) + 1 \notin DOMAIN lines
  BY <1>1, <1>2
<1>4. log' = log \cup {r}
  BY <1>1, <1>3 DEF log, Range
<1> QED BY <1>1, <1>3, <1>4

LEMMA LinesIn ==
  ASSUME lines \in Seq(Record)
  PROVE  log \in SUBSET Record /\ \A k \in DOMAIN lines : lines[k] \in log
BY DEF log, Range

LEMMA LinesInit == lines = << >> => log = {} /\ DOMAIN lines = {}
BY DEF log, Range

USE LinesSame

(* Where a process is in its batches. *)
Place ==
  /\ TypeOK
  /\ phase # "down" => lastTask \in Tasks /\ task \in 0 .. LastTask + 1
  /\ phase \in {"running", "append", "save"} => task \in Tasks
  /\ phase \in {"down", "ready"} => \A i \in Rollouts : run[i] = "absent"
  /\ phase \in {"append", "save"} =>
       \A i \in Rollouts : run[i] \in {"absent", "finished", "failed", "recorded"}
  /\ phase = "running" => \A i \in Rollouts : run[i] # "recorded"
  /\ phase = "save" => Unwritten = {}

(* A child has one holder: its directory, the rollout that inherited it,   *)
(* or the record of that rollout.  Until it is spawned it has none.        *)
Born(c) == c[2] \in spawned[c[1]]

OneHolder ==
  /\ \A c \in childDirs : Born(c)
  /\ \A i \in Rollouts : inherited[i] # Boot =>
       /\ inherited[i] \notin childDirs /\ Born(inherited[i])
       /\ run[i] # "recorded" => \A r \in log : r.parent # inherited[i]
  /\ \A i, j \in Rollouts : inherited[i] = inherited[j] => i = j \/ inherited[i] = Boot
  /\ \A r \in log : r.parent # Boot => r.parent \notin childDirs /\ Born(r.parent)

(* Nothing that the log was given is lost or unusable for resuming. *)
Whole == Intact /\ (TornWrites => crashes = 0)

(* Batches are recorded in order, and what a partial batch ran with is     *)
(* still offered by the pool file.                                         *)
InOrder ==
  /\ torn = FALSE /\ appended \subseteq log
  /\ \A r \in log : \A u \in Tasks : u < r.task => Complete(log, u)
  /\ \A r \in log : Complete(log, r.task) \/ r.parent \in {Boot, Parent(poolFile, r.rollout)}
  /\ log = {} => poolFile = << >>

(* What the process knows of the records, and where it adds its own. *)
Abreast ==
  /\ phase \in {"ready", "running", "append"} => pool = poolFile
  /\ phase # "down" => \A u \in Tasks : u < task => Complete(log, u)
  /\ phase # "down" => \A t \in Tasks : t > task \/ (phase = "ready" /\ t = task) =>
       Recorded(existing, t) = Recorded(log, t)
  /\ phase \in {"running", "append", "save"} =>
       /\ \A r \in log : r.task <= task
       /\ \A i \in Rollouts : i \in Recorded(log, task) <=> run[i] \in {"absent", "recorded"}
  /\ phase \in {"running", "append"} =>
       \A i \in Rollouts : inherited[i] \in {Boot, Parent(pool, i)}

Frontier == InOrder /\ Abreast

(* Without deaths a batch is empty or complete between batches, and the    *)
(* pool offers the children of the last complete one.                      *)
Offers(t) ==
  IF t = 0 THEN poolFile = << >>
  ELSE /\ poolFile = RefilledPool(t - 1)
       /\ \A i \in spawned[t - 1] : <<t - 1, i>> \in childDirs

Lineage ==
  /\ phase \in {"down", "ready"} => \A t \in Tasks : ~Complete(log, t) =>
       /\ Recorded(log, t) = {} /\ spawned[t] = {}
       /\ (\A u \in Tasks : u < t => Complete(log, u)) => Offers(t)
  /\ phase \in {"running", "append", "save"} =>
       /\ \A t \in Tasks : t > task => spawned[t] = {}
       /\ \A i \in spawned[task] : <<task, i>> \in childDirs
  /\ phase = "running" =>
       /\ pool = IF task = 0 THEN << >> ELSE RefilledPool(task - 1)
       /\ \A i \in Rollouts : run[i] = "queued" => Parent(pool, i) \in childDirs \cup {Boot}

-----------------------------------------------------------------------------
LEMMA Names ==
  /\ Boot \notin Child /\ Down \notin Tasks /\ Down # LastTask + 1
  /\ LastTask \in Nat /\ N \in Nat /\ N >= 1 /\ 0 \in Rollouts /\ 0 \in Tasks
  /\ Tasks \subseteq Nat /\ Rollouts \subseteq Nat
BY BoundsAssumption, NamesAssumption DEF Tasks, Rollouts

LEMMA ParentType ==
  ASSUME NEW entries \in Pools, NEW i \in Rollouts
  PROVE  Parent(entries, i) \in Child \cup {Boot}
<1>1. i + 1 \in 1 .. N
  BY BoundsAssumption DEF Rollouts
<1> QED BY <1>1 DEF Pools, Parent

LEMMA RefilledType ==
  ASSUME Place, NEW t \in Tasks
  PROVE  /\ RefilledPool(t) \in Pools /\ RefilledPool(t) # << >>
         /\ \A i \in Rollouts : Parent(RefilledPool(t), i) =
              IF i \in spawned[t] THEN <<t, i>> ELSE Boot
<1>1. spawned[t] \subseteq Rollouts
  BY DEF Place, TypeOK
<1>2. RefilledPool(t) \in [1 .. N -> Child \cup {Boot}]
  BY <1>1 DEF RefilledPool, Child
<1>3. RefilledPool(t) # << >>
  <2>1. DOMAIN RefilledPool(t) = 1 .. N /\ 1 \in 1 .. N
    BY Names DEF RefilledPool
  <2>2. DOMAIN << >> = {}
    OBVIOUS
  <2> QED BY <2>1, <2>2
<1>4. ASSUME NEW i \in Rollouts
      PROVE  Parent(RefilledPool(t), i) = IF i \in spawned[t] THEN <<t, i>> ELSE Boot
  <2>1. i + 1 \in 1 .. N /\ (i + 1) - 1 = i
    BY BoundsAssumption DEF Rollouts
  <2> QED BY <1>3, <2>1 DEF Parent, RefilledPool
<1> QED BY <1>2, <1>3, <1>4 DEF Pools

LEMMA Least ==
  ASSUME NEW S \in SUBSET Nat, S # {}
  PROVE  \E m \in S : \A k \in S : m <= k
<1>1. PICK m \in S : \A k \in S : ~(<<k, m>> \in OpToRel(<, Nat))
  BY NatLessThanWellFounded, WFMin
<1>2. ASSUME NEW k \in S PROVE m <= k
  <2>1. ~(k < m)
    BY <1>1 DEF OpToRel
  <2> QED BY <2>1
<1> QED BY <1>2

LEMMA Greatest ==
  ASSUME NEW S \in SUBSET Tasks, S # {}
  PROVE  \E m \in S : \A k \in S : k <= m
<1> DEFINE R == {LastTask - k : k \in S}
<1>1. \A k \in S : k \in Nat /\ LastTask - k \in Nat
  BY Names DEF Tasks
<1>2. R \in SUBSET Nat /\ R # {}
  BY <1>1
<1>3. PICK m \in S : \A x \in R : LastTask - m <= x
  BY <1>2, Least
<1>4. ASSUME NEW k \in S PROVE k <= m
  <2>1. LastTask - m <= LastTask - k
    BY <1>3
  <2> QED BY <1>1, <2>1, Names
<1> QED BY <1>4

-----------------------------------------------------------------------------
(* The types, and where a process is. *)

LEMMA InitPlace == Init => Place
<1> SUFFICES ASSUME Init PROVE Place
    OBVIOUS
<1>1. TypeOK
  BY Names DEF Init, TypeOK, Phases, RunStates, Pools, Record
<1> QED BY <1>1 DEF Init, Place

LEMMA NoRolloutsTyped ==
  ASSUME NoRollouts
  PROVE  /\ run' \in [Rollouts -> RunStates] /\ seeded' \in [Rollouts -> BOOLEAN]
         /\ attempts' \in [Rollouts -> 0 .. MaxRetries + 1]
         /\ inherited' \in [Rollouts -> Child \cup {Boot}]
         /\ \A i \in Rollouts : run'[i] = "absent" /\ inherited'[i] = Boot
BY BoundsAssumption DEF NoRollouts, RunStates

LEMMA StoppedPlace ==
  ASSUME Place, Stopped, UNCHANGED <<lines, poolFile, spawned, childDirs, launches, appended>>,
         torn' \in BOOLEAN, crashes' \in 0 .. MaxCrashes
  PROVE  Place'
<1>1. TypeOK'
  BY NoRolloutsTyped DEF Stopped, Place, TypeOK, Phases, Pools
<1> QED BY <1>1, NoRolloutsTyped DEF Stopped, Place

LEMMA LaunchPlace == ASSUME Place, NEW step \in BOOLEAN, Launch(step) PROVE Place'
<1>1. LoadedPool \in Pools
  BY DEF LoadedPool, Place, TypeOK, Pools
<1>2. ResumeRecords \in SUBSET Record
  BY LinesIn DEF ResumeRecords, Matching, Place, TypeOK
<1>3. lastTask' \in Tasks /\ task' \in Tasks
  BY Names DEF Launch, Tasks
<1>4. launches' \in 0 .. MaxLaunches
  BY BoundsAssumption DEF Launch, Place, TypeOK
<1>5. UNCHANGED <<lines, torn, poolFile, spawned, childDirs, run, seeded, attempts, inherited, crashes, appended>>
  BY DEF Launch, disk, rollout
<1>6. TypeOK'
  BY <1>1, <1>2, <1>3, <1>4, <1>5 DEF Launch, Place, TypeOK, Phases
<1> QED BY <1>3, <1>5, <1>6, Names DEF Launch, Place, Tasks

LEMMA SavePlace == ASSUME Place, SavePool PROVE Place'
<1>1. task \in Tasks /\ RefilledPool(task) \in Pools
  BY RefilledType DEF SavePool, Place
<1>2. TypeOK'
  <2>1. task' \in Tasks \cup {LastTask + 1}
    BY <1>1, Names DEF SavePool, Tasks
  <2> QED BY <1>1, <2>1, NoRolloutsTyped DEF SavePool, Place, TypeOK, Phases
<1>3. task' \in 0 .. LastTask + 1
  BY <1>1, Names DEF SavePool, Tasks
<1> QED BY <1>2, <1>3, NoRolloutsTyped DEF SavePool, Place

LEMMA BatchPlace ==
  ASSUME Place, SkipBatch \/ BeginBatch \/ EndBatch \/ TruncatePool PROVE Place'
<1>1. CASE SkipBatch
  <2>1. lastTask \in Tasks /\ task \in 0 .. LastTask + 1 /\ task <= lastTask
    BY <1>1 DEF SkipBatch, Place
  <2>2. task' \in 0 .. LastTask + 1
    BY <1>1, <2>1, Names DEF SkipBatch, Tasks
  <2>3. task' \in Tasks \cup {LastTask + 1}
    BY <2>2, Names DEF Tasks
  <2>4. UNCHANGED <<lines, torn, poolFile, spawned, childDirs, run, seeded, attempts, inherited>>
    BY <1>1 DEF SkipBatch, disk, rollout
  <2> QED BY <1>1, <2>2, <2>3, <2>4 DEF SkipBatch, Place, TypeOK
<1>2. CASE BeginBatch
  <2>1. lastTask \in Tasks /\ task \in 0 .. LastTask + 1 /\ task <= lastTask
    BY <1>2 DEF BeginBatch, Place
  <2>2. task \in Tasks
    BY <2>1, Names DEF Tasks
  <2>3. \A i \in Rollouts : run'[i] \in {"absent", "queued"}
    BY <1>2 DEF BeginBatch
  <2>4. run' \in [Rollouts -> RunStates]
    BY <1>2 DEF BeginBatch, RunStates
  <2>5. /\ seeded' \in [Rollouts -> BOOLEAN] /\ attempts' \in [Rollouts -> 0 .. MaxRetries + 1]
        /\ inherited' \in [Rollouts -> Child \cup {Boot}]
    BY <1>2, BoundsAssumption DEF BeginBatch
  <2>6. TypeOK'
    BY <1>2, <2>4, <2>5 DEF BeginBatch, disk, Place, TypeOK, Phases
  <2> QED BY <1>2, <2>1, <2>2, <2>3, <2>6 DEF BeginBatch, Place
<1>3. CASE EndBatch
  <2>1. UNCHANGED <<lines, torn, poolFile, spawned, childDirs, run, seeded, attempts, inherited>>
    BY <1>3 DEF EndBatch, disk, rollout
  <2> QED BY <1>3, <2>1 DEF EndBatch, Place, TypeOK, Phases
<1>4. CASE TruncatePool
  <2>1. UNCHANGED <<run, seeded, attempts, inherited>>
    BY <1>4 DEF TruncatePool, rollout
  <2>2. Unwritten' = Unwritten
    BY <2>1 DEF Unwritten
  <2>3. TypeOK'
    BY <1>4, <2>1 DEF TruncatePool, Place, TypeOK, Phases, Pools
  <2> QED BY <1>4, <2>1, <2>2, <2>3 DEF TruncatePool, Place
<1> QED BY <1>1, <1>2, <1>3, <1>4

LEMMA WorkPlace == ASSUME Place, NEW i \in Rollouts, Work(i) PROVE Place'
<1>1. /\ phase = "running" /\ phase' = "running" /\ task \in Tasks /\ lastTask \in Tasks
      /\ UNCHANGED <<lines, torn, poolFile, task, lastTask, existing, pool, launches, crashes, appended>>
      /\ run[i] \in {"queued", "working"}
  BY DEF Work, Seed, SeedFails, Spawn, Retry, Finish, Place, disk, process, rollout
<1>2. Parent(pool, i) \in Child \cup {Boot}
  BY ParentType DEF Place, TypeOK
<1>3. \E end \in {"working", "failed", "finished"} : run' = run \/ run' = [run EXCEPT ![i] = end]
  BY DEF Work, Seed, SeedFails, Spawn, Retry, Finish, process, rollout
<1>4. run' \in [Rollouts -> RunStates] /\ \A j \in Rollouts : run'[j] # "recorded"
  BY <1>1, <1>3 DEF Place, TypeOK, RunStates
<1>5. seeded' \in [Rollouts -> BOOLEAN]
  BY DEF Work, Seed, SeedFails, Spawn, Retry, Finish, Place, TypeOK, process, rollout
<1>6. attempts' \in [Rollouts -> 0 .. MaxRetries + 1]
  <2>1. attempts \in [Rollouts -> 0 .. MaxRetries + 1] /\ MaxRetries \in Nat
    BY BoundsAssumption DEF Place, TypeOK
  <2>2. attempts[i] <= MaxRetries => attempts[i] + 1 \in 0 .. MaxRetries + 1
    BY <2>1
  <2> QED BY <2>1, <2>2 DEF Work, Seed, SeedFails, Spawn, Retry, Finish, process, rollout
<1>7. inherited' \in [Rollouts -> Child \cup {Boot}]
  BY <1>2 DEF Work, Seed, SeedFails, Spawn, Retry, Finish, Place, TypeOK, process, rollout
<1>8. spawned' \in [Tasks -> SUBSET Rollouts] /\ childDirs' \in SUBSET Child
  BY <1>1 DEF Work, Seed, SeedFails, Spawn, Retry, Finish, Place, TypeOK, disk, Child
<1>9. TypeOK'
  BY <1>1, <1>4, <1>5, <1>6, <1>7, <1>8 DEF Place, TypeOK
<1> QED BY <1>1, <1>4, <1>9 DEF Place

LEMMA ResultType ==
  ASSUME Place, task \in Tasks, NEW i \in Rollouts
  PROVE  /\ Result(i) \in Record /\ Result(i).task = task /\ Result(i).rollout = i
         /\ Result(i).parent = inherited[i]
         /\ Result(i).resumable <=> (run[i] = "failed" => i \notin OpenCode)
BY DEF Result, Record, Place, TypeOK

(* What one append does to the lines, and so to the records. *)
LEMMA Appended ==
  ASSUME Place, NEW i \in Rollouts, AppendRecord(i)
  PROVE  /\ lines' \in Seq(Record)
         /\ \/ torn /\ lines' = lines /\ log' = log
            \/ /\ ~torn /\ log' = log \cup {Result(i)}
               /\ lines' = Append(lines, Result(i))
               /\ DOMAIN lines' = DOMAIN lines \cup {Len(lines) + 1}
               /\ \A k \in DOMAIN lines : lines'[k] = lines[k]
               /\ lines'[Len(lines) + 1] = Result(i) /\ Len(lines) + 1 \notin DOMAIN lines
<1>1. task \in Tasks /\ lines \in Seq(Record)
  BY DEF AppendRecord, Place, TypeOK
<1>2. Result(i) \in Record
  BY <1>1, ResultType
<1>3. torn => lines' = lines
  BY DEF AppendRecord
<1>4. ~torn => lines' = Append(lines, Result(i))
  BY DEF AppendRecord
<1>5. CASE torn
  BY <1>1, <1>3, <1>5
<1>6. CASE ~torn
  BY <1>1, <1>2, <1>4, <1>6, LinesAppend
<1> QED BY <1>5, <1>6

LEMMA AppendPlace == ASSUME Place, NEW i \in Rollouts, AppendRecord(i) PROVE Place'
<1>1. task \in Tasks /\ phase = "append"
  BY DEF AppendRecord, Place
<1>2. TypeOK'
  <2>1. lines' \in Seq(Record) /\ Result(i) \in Record
    BY <1>1, ResultType, Appended
  <2>2. run' \in [Rollouts -> RunStates] /\ appended' \in SUBSET Record
    BY <2>1 DEF AppendRecord, Place, TypeOK, RunStates
  <2>3. /\ UNCHANGED <<poolFile, spawned, childDirs, launches, crashes>> /\ torn' = FALSE
        /\ UNCHANGED <<phase, task, lastTask, existing, pool, seeded, attempts, inherited>>
    BY DEF AppendRecord
  <2> QED BY <2>1, <2>2, <2>3 DEF Place, TypeOK
<1> QED BY <1>1, <1>2 DEF AppendRecord, Place, TypeOK

LEMMA StepPlace == Place /\ [Next]_vars => Place'
<1> SUFFICES ASSUME Place, [Next]_vars PROVE Place'
    OBVIOUS
<1>1. CASE Exit \/ Crash
  <2>1. crashes' \in 0 .. MaxCrashes
    <3>1. crashes \in 0 .. MaxCrashes /\ MaxCrashes \in Nat
      BY BoundsAssumption DEF Place, TypeOK
    <3>2. CASE Exit
      BY <3>1, <3>2 DEF Exit
    <3>3. CASE Crash
      BY <3>1, <3>3 DEF Crash
    <3> QED BY <1>1, <3>2, <3>3
  <2>2. torn' \in BOOLEAN
    BY <1>1 DEF Exit, Crash, Place, TypeOK, disk
  <2> QED BY <1>1, <2>1, <2>2, StoppedPlace DEF Exit, Crash, disk
<1>2. CASE UNCHANGED vars
  BY <1>2 DEF Place, TypeOK, vars, disk, process, rollout, Unwritten
<1> QED BY <1>1, <1>2, LaunchPlace, BatchPlace, WorkPlace, AppendPlace, SavePlace DEF Next

-----------------------------------------------------------------------------
(* Children and their holders. *)

Held == OneHolder /\ WorkspaceInheritedOnce

LEMMA InitHeld == Init => Held
BY LinesInit DEF Init, Held, OneHolder, WorkspaceInheritedOnce

(* Nothing inherited by a rollout of this process. *)
LEMMA ForgetHeld ==
  ASSUME Held, UNCHANGED <<lines, spawned, childDirs>>, \A i \in Rollouts : inherited'[i] = Boot
  PROVE  Held'
BY DEF Held, OneHolder, WorkspaceInheritedOnce, Born

LEMMA SameHeld ==
  ASSUME Held, UNCHANGED <<lines, spawned, childDirs, inherited>>,
         \A i \in Rollouts : run'[i] # "recorded" => run[i] # "recorded"
  PROVE  Held'
BY DEF Held, OneHolder, WorkspaceInheritedOnce, Born

LEMMA SeedHeld == ASSUME Place, Held, NEW i \in Rollouts, Seed(i) PROVE Held'
<1> DEFINE parent == Parent(pool, i)
<1>1. parent \in childDirs \cup {Boot}
  BY DEF Seed
<1>2. UNCHANGED <<lines, spawned>> /\ childDirs' = childDirs \ {parent}
  BY DEF Seed
<1>3. inherited'[i] = parent /\ \A j \in Rollouts \ {i} : inherited'[j] = inherited[j]
  BY DEF Seed, Place, TypeOK
<1>4. \A j \in Rollouts : run'[j] # "recorded" /\ run[j] # "recorded"
  BY WorkPlace DEF Work, Place, Seed
<1>5. parent # Boot => /\ parent \in childDirs /\ Born(parent)
                       /\ \A r \in log : r.parent # parent
                       /\ \A j \in Rollouts : inherited[j] # parent
  BY <1>1 DEF Held, OneHolder
<1> HIDE DEF parent
<1>6. \A c : Born(c)' <=> Born(c)
  BY <1>2 DEF Born
<1>7. \A j \in Rollouts : inherited'[j] # Boot =>
        inherited'[j] \notin childDirs' /\ Born(inherited'[j]) /\ \A r \in log : r.parent # inherited'[j]
  <2>1. TAKE j \in Rollouts
  <2>2. CASE j = i
    BY <1>2, <1>3, <1>5, <2>2
  <2>3. CASE j # i
    BY <1>2, <1>3, <1>4, <2>3 DEF Held, OneHolder
  <2> QED BY <2>2, <2>3
<1>8. \A j, k \in Rollouts : inherited'[j] = inherited'[k] => j = k \/ inherited'[j] = Boot
  <2>1. TAKE j, k \in Rollouts
  <2>2. CASE j = i \/ k = i
    BY <1>3, <1>5, <2>2
  <2>3. CASE j # i /\ k # i
    BY <1>3, <2>3 DEF Held, OneHolder
  <2> QED BY <2>2, <2>3
<1>9. \A r \in log : r.parent # Boot => r.parent \notin childDirs' /\ Born(r.parent)
  BY <1>2 DEF Held, OneHolder
<1>10. \A c \in childDirs' : Born(c)
  BY <1>2 DEF Held, OneHolder
<1> QED BY <1>2, <1>6, <1>7, <1>8, <1>9, <1>10 DEF Held, OneHolder, WorkspaceInheritedOnce, Born

LEMMA SpawnHeld == ASSUME Place, Held, NEW i \in Rollouts, Spawn(i) PROVE Held'
<1> DEFINE child == <<task, i>>
<1>1. /\ task \in Tasks /\ i \notin spawned[task]
      /\ spawned' = [spawned EXCEPT ![task] = spawned[task] \cup {i}]
      /\ childDirs' = childDirs \cup {child}
      /\ UNCHANGED <<lines, run, inherited>>
  BY DEF Spawn, Place, process, rollout
<1>2. spawned \in [Tasks -> SUBSET Rollouts] /\ childDirs \in SUBSET Child
      /\ inherited \in [Rollouts -> Child \cup {Boot}]
      /\ \A r \in log : r.parent \in Child \cup {Boot}
  BY LinesIn DEF Place, TypeOK, Record
<1>3. \A c \in Child : Born(c) => Born(c)' /\ c # child
  BY <1>1, <1>2 DEF Born, Child
<1>4. \A c : c = child => Born(c)'
  BY <1>1, <1>2 DEF Born
<1> HIDE DEF child
<1>5. \A c \in childDirs' : Born(c)'
  BY <1>1, <1>2, <1>3, <1>4 DEF Held, OneHolder
<1>6. \A j \in Rollouts : inherited[j] # Boot => inherited[j] \notin childDirs' /\ Born(inherited[j])'
  BY <1>1, <1>2, <1>3 DEF Held, OneHolder
<1>7. \A r \in log : r.parent # Boot => r.parent \notin childDirs' /\ Born(r.parent)'
  BY <1>1, <1>2, <1>3 DEF Held, OneHolder
<1> QED BY <1>1, <1>5, <1>6, <1>7 DEF Held, OneHolder, WorkspaceInheritedOnce, Born

LEMMA FinishHeld == ASSUME Place, Held, NEW i \in Rollouts, Finish(i) PROVE Held'
<1>1. UNCHANGED <<lines, spawned, childDirs>>
  BY DEF Finish, disk
<1>2. \A j \in Rollouts : run'[j] # "recorded" /\ run[j] # "recorded"
  BY WorkPlace DEF Work, Place, Finish
<1>3. \A j \in Rollouts : inherited'[j] \in {Boot, inherited[j]}
  BY DEF Finish, Place, TypeOK
<1> QED BY <1>1, <1>2, <1>3 DEF Held, OneHolder, WorkspaceInheritedOnce, Born

LEMMA WorkHeld == ASSUME Place, Held, NEW i \in Rollouts, Work(i) PROVE Held'
<1>1. CASE SeedFails(i) \/ Retry(i)
  <2>1. UNCHANGED <<lines, spawned, childDirs, inherited>>
    BY <1>1 DEF SeedFails, Retry, disk
  <2>2. \A j \in Rollouts : run[j] # "recorded"
    BY <1>1 DEF SeedFails, Retry, Place
  <2> QED BY <2>1, <2>2, SameHeld
<1> QED BY <1>1, SeedHeld, SpawnHeld, FinishHeld DEF Work

LEMMA AppendHeld == ASSUME Place, Held, NEW i \in Rollouts, AppendRecord(i) PROVE Held'
<1> DEFINE new == Result(i)
<1>1. /\ UNCHANGED <<spawned, childDirs, inherited>> /\ task \in Tasks
      /\ run[i] # "recorded" /\ run'[i] = "recorded"
      /\ \A j \in Rollouts \ {i} : run'[j] = run[j]
      /\ log' = log \/ log' = log \cup {new}
  BY Appended DEF AppendRecord, Unwritten, Place, TypeOK
<1>2. new.parent = inherited[i]
  BY <1>1, ResultType
<1>3. new.parent # Boot => /\ \A r \in log : r.parent # new.parent
                           /\ new.parent \notin childDirs /\ Born(new.parent)
  BY <1>1, <1>2 DEF Held, OneHolder
<1>4. \A c : Born(c)' <=> Born(c)
  BY <1>1 DEF Born
<1>5. WorkspaceInheritedOnce'
  <2> DEFINE last == Len(lines) + 1
  <2>1. CASE lines' = lines
    BY <2>1 DEF Held, WorkspaceInheritedOnce
  <2>2. CASE lines' # lines
    <3>1. /\ DOMAIN lines' = DOMAIN lines \cup {last} /\ last \notin DOMAIN lines
          /\ \A k \in DOMAIN lines : lines'[k] = lines[k] /\ lines'[last] = new
      BY <2>2, Appended
    <3>2. \A k \in DOMAIN lines : new.parent # Boot => lines[k].parent # new.parent
      BY <1>3, LinesIn DEF Place, TypeOK
    <3> HIDE DEF new, last
    <3> QED BY <3>1, <3>2 DEF Held, WorkspaceInheritedOnce
  <2> QED BY <2>1, <2>2
<1> HIDE DEF new
<1>6. \A j \in Rollouts : inherited[j] # Boot /\ run'[j] # "recorded" =>
        \A r \in log' : r.parent # inherited[j]
  <2>1. TAKE j \in Rollouts
  <2>2. HAVE inherited[j] # Boot /\ run'[j] # "recorded"
  <2>3. j # i /\ inherited[j] # new.parent
    BY <1>1, <1>2, <2>2 DEF Held, OneHolder
  <2> QED BY <1>1, <2>2, <2>3 DEF Held, OneHolder
<1>7. \A r \in log' : r.parent # Boot => r.parent \notin childDirs /\ Born(r.parent)
  BY <1>1, <1>3 DEF Held, OneHolder
<1>8. OneHolder'
  BY <1>1, <1>4, <1>6, <1>7 DEF Held, OneHolder
<1> QED BY <1>5, <1>8 DEF Held

LEMMA StepHeld == Place /\ Held /\ [Next]_vars => Held'
<1> SUFFICES ASSUME Place, Held, [Next]_vars PROVE Held'
    OBVIOUS
<1>1. CASE \E step \in BOOLEAN : Launch(step)
  BY <1>1, SameHeld DEF Launch, disk, rollout
<1>2. CASE SkipBatch \/ EndBatch \/ TruncatePool
  BY <1>2, SameHeld DEF SkipBatch, EndBatch, TruncatePool, disk, rollout
<1>3. CASE BeginBatch
  BY <1>3, ForgetHeld DEF BeginBatch, disk
<1>4. CASE SavePool \/ Exit \/ Crash
  <2>1. NoRollouts /\ UNCHANGED <<lines, spawned, childDirs>>
    BY <1>4 DEF SavePool, Exit, Crash, Stopped, disk
  <2> QED BY <2>1, NoRolloutsTyped, ForgetHeld
<1>5. CASE UNCHANGED vars
  BY <1>5, SameHeld DEF vars, disk, process, rollout
<1> QED BY <1>1, <1>2, <1>3, <1>4, <1>5, WorkHeld, AppendHeld DEF Next

(* No inherited workspace feeds two recorded rollouts, whatever tears the  *)
(* log and whichever processes die.                                        *)
THEOREM InheritedOnce == Spec => []WorkspaceInheritedOnce
<1>1. Init => Place /\ Held
  BY InitPlace, InitHeld
<1>2. Place /\ Held /\ [Next]_vars => Place' /\ Held'
  BY StepPlace, StepHeld
<1>3. Held => WorkspaceInheritedOnce
  BY DEF Held
<1> QED BY <1>1, <1>2, <1>3, PTL DEF Spec

-----------------------------------------------------------------------------
(* The log in order, as long as it is whole. *)

LEMMA WholeBefore == ASSUME Place, [Next]_vars, Whole' PROVE Whole
<1>1. log \subseteq log'
  BY Appended DEF Next, vars, Launch, SkipBatch, BeginBatch, Work, Seed, SeedFails, Spawn, Retry,
         Finish, EndBatch, TruncatePool, SavePool, Exit, Crash, disk
<1>2. crashes' = crashes \/ crashes' = crashes + 1
  BY DEF Next, vars, Launch, SkipBatch, BeginBatch, Work, Seed, SeedFails, Spawn, Retry, Finish,
         EndBatch, AppendRecord, TruncatePool, SavePool, Exit, Crash
<1>3. crashes \in Nat
  BY BoundsAssumption DEF Place, TypeOK
<1> QED BY <1>1, <1>2, <1>3 DEF Whole, Intact, Matching

LEMMA RecordedPart ==
  ASSUME Place, NEW r \in log
  PROVE  r.task \in Tasks /\ r.rollout \in Rollouts /\ r.rollout \in Recorded(log, r.task)
BY LinesIn DEF Place, TypeOK, Record, Recorded

(* Everything recorded is accepted for resuming. *)
LEMMA ResumesAll ==
  ASSUME Place, Intact, InOrder PROVE ResumeRecords = log /\ LoadedPool = poolFile
<1>1. Matching = log
  BY DEF Intact
<1>2. LoadedPool = poolFile
  BY <1>1 DEF LoadedPool, InOrder
<1> QED BY <1>1, <1>2 DEF ResumeRecords, InOrder

(* _next_step_task_index leaves no batch before it open. *)
LEMMA NextStepFirst ==
  ASSUME Place, InOrder, NEW u \in Tasks, u < NextStep(log)
  PROVE  Complete(log, u)
<1> DEFINE known == {t \in Tasks : Recorded(log, t) # {}}
           partial == {t \in known : ~Complete(log, t)}
<1>1. \A t \in known : \A v \in Tasks : v < t => Complete(log, v)
  BY DEF InOrder, Recorded
<1>2. CASE partial # {}
  <2>1. \E t \in partial : \A v \in partial : t <= v
    BY <1>2, Least, Names
  <2>2. NextStep(log) \in partial
    BY <1>2, <2>1 DEF NextStep
  <2> QED BY <1>1, <2>2
<1>3. CASE partial = {} /\ known # {}
  <2>1. \E t \in known : \A v \in known : v <= t
    BY <1>3, Greatest
  <2>2. PICK t \in known : NextStep(log) = t + 1
    BY <1>3, <2>1 DEF NextStep
  <2>3. u < t \/ u = t
    BY <2>2, Names
  <2> QED BY <1>1, <1>3, <2>3
<1>4. CASE partial = {} /\ known = {}
  <2>1. NextStep(log) = 0
    BY <1>4 DEF NextStep
  <2> QED BY <2>1, Names
<1> QED BY <1>2, <1>3, <1>4

(* A batch whose rollouts are all written is complete, like all before it. *)
LEMMA WrittenComplete ==
  ASSUME Place, Frontier, phase \in {"append", "save"}, Unwritten = {}
  PROVE  /\ task \in Tasks /\ Complete(log, task) /\ log # {}
         /\ \A u \in Tasks : u <= task => Complete(log, u)
         /\ \A r \in log : Complete(log, r.task)
<1>1. task \in Tasks
  BY DEF Place
<1>2. \A i \in Rollouts : run[i] \in {"absent", "recorded"}
  BY DEF Place, Unwritten
<1>3. Complete(log, task)
  BY <1>2 DEF Complete, Recorded, Frontier, Abreast
<1>4. log # {}
  BY <1>3, Names DEF Complete, Recorded
<1>5. \A u \in Tasks : u <= task => Complete(log, u)
  BY <1>1, <1>3, Names DEF Frontier, Abreast
<1>6. \A r \in log : Complete(log, r.task)
  BY <1>5, RecordedPart DEF Frontier, Abreast
<1> QED BY <1>1, <1>3, <1>4, <1>5, <1>6

LEMMA InitFrontier == Init => Frontier
BY LinesInit DEF Init, Frontier, InOrder, Abreast

LEMMA LaunchFrontier ==
  ASSUME Place, Whole, Frontier, NEW step \in BOOLEAN, Launch(step) PROVE Frontier'
<1>1. existing' = log /\ pool' = poolFile
  BY ResumesAll DEF Launch, Whole, Frontier
<1>2. UNCHANGED <<lines, torn, poolFile, appended>> /\ phase' = "ready" /\ task' \in Tasks
  BY DEF Launch, disk
<1>3. \A u \in Tasks : u < task' => Complete(log, u)
  <2>1. CASE step
    BY <1>1, <2>1, NextStepFirst DEF Launch, Frontier
  <2>2. CASE ~ step
    BY <2>2, Names DEF Launch
  <2> QED BY <2>1, <2>2
<1>4. InOrder'
  BY <1>2 DEF Frontier, InOrder, Complete, Recorded
<1> QED BY <1>1, <1>2, <1>3, <1>4 DEF Frontier, Abreast, Complete, Recorded

LEMMA BatchFrontier ==
  ASSUME Place, Whole, Frontier, SkipBatch \/ BeginBatch \/ EndBatch PROVE Frontier'
<1>1. UNCHANGED <<lines, torn, poolFile, appended, pool, existing>>
  BY DEF SkipBatch, BeginBatch, EndBatch, disk
<1>2. InOrder'
  BY <1>1 DEF Frontier, InOrder, Complete, Recorded
<1>3. CASE SkipBatch
  <2>1. /\ task \in Tasks /\ task' = task + 1 /\ phase = "ready" /\ phase' = "ready"
        /\ Recorded(existing, task) = Rollouts
    BY <1>3, Names DEF SkipBatch, Place, Tasks, Complete
  <2>2. Complete(log, task)
    BY <2>1, Names DEF Frontier, Abreast, Complete
  <2>3. \A u \in Tasks : u < task' => Complete(log, u)
    BY <2>1, <2>2, Names DEF Frontier, Abreast
  <2>4. \A t \in Tasks : t > task' \/ t = task' => Recorded(existing, t) = Recorded(log, t)
    BY <2>1, Names DEF Frontier, Abreast
  <2>5. pool = poolFile
    BY <2>1 DEF Frontier, Abreast
  <2> QED BY <1>1, <1>2, <2>1, <2>3, <2>4, <2>5 DEF Frontier, Abreast, Complete, Recorded
<1>4. CASE BeginBatch
  <2>1. task \in Tasks /\ task' = task /\ phase = "ready" /\ phase' = "running"
    BY <1>4, Names DEF BeginBatch, Place, Tasks
  <2>2. Recorded(existing, task) = Recorded(log, task)
    BY <2>1, Names DEF Frontier, Abreast
  <2>3. ~Complete(log, task)
    BY <1>4, <2>2 DEF BeginBatch, Complete
  <2>4. \A r \in log : r.task <= task
    <3>1. TAKE r \in log
    <3>2. r.task \in Tasks /\ r.task \in Nat /\ task \in Nat
      BY <2>1, RecordedPart, Names
    <3>3. ~(task < r.task)
      BY <2>1, <2>3 DEF Frontier, InOrder
    <3> QED BY <3>2, <3>3
  <2>5. \A i \in Rollouts : i \in Recorded(log, task) <=> run'[i] \in {"absent", "recorded"}
    BY <1>4, <2>2 DEF BeginBatch
  <2>6. \A i \in Rollouts : inherited'[i] = Boot
    BY <1>4 DEF BeginBatch
  <2>7. \A u \in Tasks : u < task => Complete(log, u)
    BY <2>1 DEF Frontier, Abreast
  <2>8. pool = poolFile
    BY <2>1 DEF Frontier, Abreast
  <2>9. \A t \in Tasks : t > task => Recorded(existing, t) = Recorded(log, t)
    BY <2>1 DEF Frontier, Abreast
  <2> QED BY <1>1, <1>2, <2>1, <2>4, <2>5, <2>6, <2>7, <2>8, <2>9 DEF Frontier, Abreast, Complete, Recorded
<1>5. CASE EndBatch
  <2>1. task' = task /\ phase = "running" /\ phase' = "append" /\ UNCHANGED <<run, inherited>>
    BY <1>5 DEF EndBatch, rollout
  <2> QED BY <1>1, <1>2, <2>1 DEF Frontier, Abreast, Complete, Recorded, Parent
<1> QED BY <1>3, <1>4, <1>5

LEMMA WorkFrontier ==
  ASSUME Place, Frontier, NEW i \in Rollouts, Work(i) PROVE Frontier'
<1>1. /\ phase = "running" /\ phase' = "running"
      /\ UNCHANGED <<lines, torn, poolFile, task, lastTask, existing, pool, appended>>
      /\ run[i] \in {"queued", "working"}
  BY DEF Work, Seed, SeedFails, Spawn, Retry, Finish, disk, process, rollout
<1>2. \A j \in Rollouts : run'[j] \in {"absent", "recorded"} <=> run[j] \in {"absent", "recorded"}
  BY <1>1 DEF Work, Seed, SeedFails, Spawn, Retry, Finish, process, rollout, Place, TypeOK
<1>3. \A j \in Rollouts : inherited'[j] \in {Boot, inherited[j], Parent(pool, j)}
  BY DEF Work, Seed, SeedFails, Spawn, Retry, Finish, process, rollout, Place, TypeOK
<1>4. InOrder'
  BY <1>1 DEF Frontier, InOrder, Complete, Recorded
<1> QED BY <1>1, <1>2, <1>3, <1>4 DEF Frontier, Abreast, Complete, Recorded, Parent

LEMMA AppendFrontier ==
  ASSUME Place, Frontier, NEW i \in Rollouts, AppendRecord(i) PROVE Frontier'
<1> DEFINE new == Result(i)
<1>1. /\ phase = "append" /\ phase' = "append" /\ task \in Tasks
      /\ UNCHANGED <<poolFile, task, existing, pool, inherited>>
      /\ torn' = FALSE /\ log' = log \cup {new} /\ appended' = appended \cup {new}
      /\ run[i] \in {"finished", "failed"} /\ run'[i] = "recorded"
      /\ \A j \in Rollouts \ {i} : run'[j] = run[j]
  BY Appended DEF AppendRecord, Unwritten, Place, TypeOK, Frontier, InOrder
<1>2. new.task = task /\ new.rollout = i /\ new.parent = inherited[i]
  BY <1>1, ResultType
<1>3. new.parent \in {Boot, Parent(poolFile, i)}
  BY <1>1, <1>2 DEF Frontier, Abreast
<1>4. \A t \in Tasks : Recorded(log', t) = IF t = task THEN Recorded(log, t) \cup {i} ELSE Recorded(log, t)
  <2> HIDE DEF new
  <2>1. TAKE t \in Tasks
  <2>2. CASE t = task
    BY <1>1, <1>2, <2>2 DEF Recorded
  <2>3. CASE t # task
    BY <1>1, <1>2, <2>3 DEF Recorded
  <2> QED BY <2>2, <2>3
<1>5. \A t \in Tasks : Complete(log, t) => Complete(log', t)
  BY <1>4 DEF Complete, Recorded
<1> HIDE DEF new
<1>6. InOrder'
  <2>1. \A r \in log' : \A u \in Tasks : u < r.task => Complete(log', u)
    BY <1>1, <1>2, <1>5 DEF Frontier, InOrder, Abreast
  <2>2. ASSUME NEW r \in log'
        PROVE  Complete(log', r.task) \/ r.parent \in {Boot, Parent(poolFile, r.rollout)}
    <3>1. CASE r = new
      BY <1>2, <1>3, <3>1
    <3>2. CASE r \in log
      BY <1>5, <3>2, RecordedPart DEF Frontier, InOrder
    <3> QED BY <1>1, <3>1, <3>2
  <2>3. appended' \subseteq log' /\ log' # {}
    BY <1>1 DEF Frontier, InOrder
  <2> QED BY <1>1, <2>1, <2>2, <2>3 DEF InOrder, Complete, Recorded, Parent
<1>7. \A j \in Rollouts : j \in Recorded(log', task) <=> run'[j] \in {"absent", "recorded"}
  BY <1>1, <1>4 DEF Frontier, Abreast
<1>8. \A r \in log' : r.task <= task
  BY <1>1, <1>2, Names DEF Frontier, Abreast
<1>9. \A u \in Tasks : u < task => Complete(log', u)
  BY <1>1, <1>5 DEF Frontier, Abreast
<1>10. pool = poolFile /\ \A j \in Rollouts : inherited[j] \in {Boot, Parent(pool, j)}
  BY <1>1 DEF Frontier, Abreast
<1>11. \A t \in Tasks : t > task => Recorded(existing, t) = Recorded(log', t)
  <2>1. TAKE t \in Tasks
  <2>2. HAVE t > task
  <2>3. t # task /\ Recorded(log', t) = Recorded(log, t)
    <3>1. t \in Nat /\ task \in Nat
      BY <1>1, Names
    <3>2. t # task
      BY <2>2, <3>1
    <3> QED BY <1>4, <3>2
  <2>4. Recorded(existing, t) = Recorded(log, t)
    BY <1>1, <2>2 DEF Frontier, Abreast
  <2> QED BY <2>3, <2>4
<1> QED BY <1>1, <1>6, <1>7, <1>8, <1>9, <1>10, <1>11 DEF Frontier, Abreast, Complete, Recorded, Parent

LEMMA PoolFrontier ==
  ASSUME Place, Frontier, TruncatePool \/ SavePool PROVE Frontier'
<1>1. phase \in {"append", "save"} /\ Unwritten = {} /\ UNCHANGED <<lines, torn, appended, existing>>
  BY DEF TruncatePool, SavePool, Place
<1>2. /\ task \in Tasks /\ log # {} /\ \A u \in Tasks : u <= task => Complete(log, u)
      /\ \A r \in log : Complete(log, r.task)
  BY <1>1, WrittenComplete
<1>3. InOrder'
  BY <1>1, <1>2 DEF Frontier, InOrder, Complete, Recorded
<1>4. CASE TruncatePool
  <2>1. phase' = "save" /\ task' = task /\ phase = "append" /\ UNCHANGED <<run, inherited, pool>>
    BY <1>4 DEF TruncatePool, rollout
  <2> QED BY <1>1, <1>2, <1>3, <2>1 DEF Frontier, Abreast, Complete, Recorded
<1>5. CASE SavePool
  <2>1. phase' = "ready" /\ task' = task + 1 /\ pool' = poolFile'
    BY <1>5 DEF SavePool
  <2>2. \A u \in Tasks : u < task' => Complete(log, u)
    BY <1>2, <2>1, Names
  <2>3. \A t \in Tasks : t > task' \/ t = task' => Recorded(existing, t) = Recorded(log, t)
    BY <1>1, <1>2, <2>1, Names DEF Frontier, Abreast
  <2> QED BY <1>1, <1>3, <2>1, <2>2, <2>3 DEF Frontier, Abreast, Complete, Recorded
<1> QED BY <1>4, <1>5

LEMMA StoppedFrontier ==
  ASSUME Place, Whole, Whole', Frontier, Exit \/ Crash PROVE Frontier'
<1>1. phase' = "down" /\ UNCHANGED <<lines, poolFile, appended>>
  BY DEF Exit, Crash, Stopped, disk
<1>2. torn' = torn
  <2>1. CASE Exit
    BY <2>1 DEF Exit, disk
  <2>2. CASE Crash
    <3>1. crashes' # 0
      <4>1. crashes \in Nat /\ crashes' = crashes + 1
        BY <2>2, BoundsAssumption DEF Crash, Place, TypeOK
      <4> QED BY <4>1
    <3>2. ~TornWrites
      BY <3>1 DEF Whole
    <3> QED BY <2>2, <3>2 DEF Crash
  <2> QED BY <2>1, <2>2
<1> QED BY <1>1, <1>2 DEF Frontier, InOrder, Abreast, Complete, Recorded, Parent

LEMMA StepFrontier ==
  Place /\ (Whole => Frontier) /\ [Next]_vars => (Whole' => Frontier')
<1> SUFFICES ASSUME Place, Whole => Frontier, [Next]_vars, Whole' PROVE Frontier'
    OBVIOUS
<1>1. Whole /\ Frontier
  BY WholeBefore
<1>2. CASE UNCHANGED vars
  BY <1>1, <1>2 DEF vars, disk, process, rollout, Frontier, InOrder, Abreast, Complete, Recorded, Parent
<1> QED BY <1>1, <1>2, LaunchFrontier, BatchFrontier, WorkFrontier, AppendFrontier, PoolFrontier,
           StoppedFrontier DEF Next

(* A batch is begun only with rollouts that the log does not have. *)
LEMMA BeginSkips ==
  ASSUME Place, Frontier, [Next]_vars PROVE SkipsRecorded
<1> SUFFICES ASSUME NEW i \in Rollouts, run[i] # "queued", run'[i] = "queued",
                    NEW r \in appended, r.resumable
             PROVE  <<r.task, r.rollout>> # <<task, i>>
    BY DEF SkipsRecorded
<1>1. BeginBatch
  <2>1. ASSUME NEW step \in BOOLEAN, Launch(step) PROVE FALSE
    BY <2>1 DEF Launch, rollout
  <2>2. CASE SkipBatch \/ EndBatch \/ TruncatePool \/ UNCHANGED vars
    BY <2>2 DEF SkipBatch, EndBatch, TruncatePool, vars, process, rollout
  <2>3. CASE SavePool \/ Exit \/ Crash
    BY <2>3, NoRolloutsTyped DEF SavePool, Exit, Crash, Stopped
  <2>4. ASSUME NEW j \in Rollouts, Work(j) \/ AppendRecord(j) PROVE FALSE
    BY <2>4 DEF Work, Seed, SeedFails, Spawn, Retry, Finish, AppendRecord, process, rollout, Place, TypeOK
  <2> QED BY <2>1, <2>2, <2>3, <2>4 DEF Next
<1>2. task \in Tasks /\ phase = "ready"
  BY <1>1, Names DEF BeginBatch, Place, Tasks
<1>3. i \notin Recorded(log, task)
  BY <1>1, <1>2 DEF BeginBatch, Frontier, Abreast
<1>4. r \in log
  BY DEF Frontier, InOrder
<1> QED BY <1>3, <1>4 DEF Recorded

LEMMA Always == Spec => [](Place /\ (Whole => Frontier))
<1>1. Init => Place /\ (Whole => Frontier)
  BY InitPlace, InitFrontier
<1>2. Place /\ (Whole => Frontier) /\ [Next]_vars => Place' /\ (Whole' => Frontier')
  BY StepPlace, StepFrontier
<1> QED BY <1>1, <1>2, PTL DEF Spec

(* docs/episode-runner.md:55: what was recorded is skipped by every later  *)
(* process.                                                                *)
THEOREM RecordedAreSkipped ==
  ASSUME TornWrites = FALSE PROVE Spec => CompletedRolloutsSkipped
<1>1. Place /\ (Whole => Frontier) /\ [Next]_vars => [Intact => SkipsRecorded]_vars
  BY BeginSkips DEF Whole
<1> QED BY <1>1, Always, PTL DEF Spec, CompletedRolloutsSkipped

(* The run log is a history: an append of the loop is a record of          *)
(* EpisodeHistory, everything else is invisible.                           *)
LEMMA PairsIn ==
  ASSUME Place
  PROVE  /\ Pairs \in Seq(Child) /\ Pairs # Down /\ Len(Pairs) = Len(lines)
         /\ \A t \in Tasks, i \in Rollouts : <<t, i>> \in Range(Pairs) <=> i \in Recorded(log, t)
<1>1. /\ lines \in Seq(Record) /\ Len(lines) \in Nat /\ DOMAIN lines = 1 .. Len(lines)
      /\ \A k \in DOMAIN lines : lines[k] \in Record
  BY LenProperties DEF Place, TypeOK
<1>2. \A k \in DOMAIN lines : <<lines[k].task, lines[k].rollout>> \in Child
  BY <1>1 DEF Record, Child
<1>3. Pairs \in Seq(Child) /\ Len(Pairs) = Len(lines)
  <2>1. Pairs \in [1 .. Len(lines) -> Child]
    BY <1>1, <1>2 DEF Pairs
  <2> QED BY <1>1, <2>1, SeqDef, LenProperties
<1>4. Pairs # Down
  BY <1>3, NamesAssumption
<1>5. ASSUME NEW t \in Tasks, NEW i \in Rollouts
      PROVE  <<t, i>> \in Range(Pairs) <=> i \in Recorded(log, t)
  <2>1. <<t, i>> \in Range(Pairs) <=> \E k \in DOMAIN lines : <<lines[k].task, lines[k].rollout>> = <<t, i>>
    BY DEF Pairs, Range
  <2>2. i \in Recorded(log, t) <=> \E k \in DOMAIN lines : lines[k].task = t /\ lines[k].rollout = i
    BY DEF Recorded, log, Range
  <2> QED BY <2>1, <2>2
<1> QED BY <1>3, <1>4, <1>5

LEMMA StepHistory ==
  ASSUME TornWrites = FALSE, Place, Intact => Frontier, [Next]_vars
  PROVE  [History!Next]_(IF Intact THEN Pairs ELSE Down)
<1> DEFINE history == IF Intact THEN Pairs ELSE Down
<1> SUFFICES History!Next \/ history' = history
    OBVIOUS
<1>1. CASE lines' = lines
  BY <1>1 DEF Intact, Matching, Pairs
<1>2. ASSUME NEW i \in Rollouts, AppendRecord(i), lines' # lines PROVE History!Next \/ history' = history
  <2> DEFINE new == Result(i)
  <2>1. /\ phase = "append" /\ task \in Tasks /\ log' = log \cup {new}
        /\ lines' = Append(lines, new) /\ new \in Record
        /\ run[i] \in {"finished", "failed"}
        /\ new.task = task /\ new.rollout = i
    BY <1>2, ResultType, Appended DEF AppendRecord, Unwritten, Place
  <2> HIDE DEF new
  <2>2. CASE ~Intact
    BY <2>1, <2>2 DEF Intact, Matching
  <2>3. CASE Intact /\ ~Intact'
    BY <2>3 DEF History!Next, History!Lapse
  <2>4. CASE Intact /\ Intact'
    <3>1. history = Pairs /\ history' = Append(Pairs, <<task, i>>)
      <4>1. lines \in Seq(Record) /\ Pairs \in Seq(Child) /\ Len(Pairs) = Len(lines)
        BY PairsIn DEF Place, TypeOK
      <4>2. /\ DOMAIN lines' = DOMAIN lines \cup {Len(lines) + 1}
            /\ \A k \in DOMAIN lines : lines'[k] = lines[k]
            /\ lines'[Len(lines) + 1] = new
            /\ DOMAIN lines = 1 .. Len(lines) /\ Len(lines) \in Nat
        BY <2>1, <4>1, LinesAppend, LenProperties
      <4>3. Append(Pairs, <<task, i>>) =
              [k \in 1 .. Len(Pairs) + 1 |-> IF k = Len(Pairs) + 1 THEN <<task, i>> ELSE Pairs[k]]
        <5>1. Append(Pairs, <<task, i>>) \in Seq(Child)
          BY <2>1, <4>1, AppendProperties DEF Child
        <5>2. /\ Len(Append(Pairs, <<task, i>>)) = Len(Pairs) + 1
              /\ \A k \in 1 .. Len(Pairs) : Append(Pairs, <<task, i>>)[k] = Pairs[k]
              /\ Append(Pairs, <<task, i>>)[Len(Pairs) + 1] = <<task, i>>
          BY <2>1, <4>1, AppendProperties DEF Child
        <5> QED BY <5>1, <5>2, LenProperties, <4>1
      <4>4. Pairs' = [k \in 1 .. Len(lines) + 1 |-> <<lines'[k].task, lines'[k].rollout>>]
        BY <4>2 DEF Pairs
      <4>5. \A k \in 1 .. Len(lines) + 1 :
              <<lines'[k].task, lines'[k].rollout>> = IF k = Len(lines) + 1 THEN <<task, i>> ELSE Pairs[k]
        <5> TAKE k \in 1 .. Len(lines) + 1
        <5>1. CASE k = Len(lines) + 1
          BY <2>1, <4>2, <5>1
        <5>2. CASE k # Len(lines) + 1
          <6>1. k \in DOMAIN lines
            BY <4>2, <5>2
          <6> QED BY <4>2, <5>2, <6>1 DEF Pairs
        <5> QED BY <5>1, <5>2
      <4>6. Pairs' = Append(Pairs, <<task, i>>)
        BY <4>1, <4>3, <4>4, <4>5
      <4> QED BY <2>4, <4>6
    <3>2. Pairs # Down
      BY PairsIn
    <3>3. <<task, i>> \notin Range(Pairs)
      BY <2>1, <2>4, PairsIn DEF Frontier, Abreast
    <3>4. \A u \in Tasks : u < task => \A j \in Rollouts : <<u, j>> \in Range(Pairs)
      BY <2>1, <2>4, PairsIn DEF Frontier, Abreast, Complete
    <3>5. History!Record(task, i)
      <4>1. history = Pairs /\ history # Down
        BY <3>1, <3>2
      <4>2. <<task, i>> \notin History!Range(history)
        BY <3>3, <4>1 DEF Range, History!Range
      <4>3. \A u \in Tasks : u < task => \A j \in Rollouts : <<u, j>> \in History!Range(history)
        BY <3>4, <4>1 DEF Range, History!Range
      <4> QED BY <3>1, <4>1, <4>2, <4>3 DEF History!Record, History!Full
    <3> QED BY <2>1, <3>5 DEF History!Next
  <2> QED BY <2>2, <2>3, <2>4
<1>3. lines' = lines \/ \E i \in Rollouts : AppendRecord(i)
  BY DEF Next, vars, Launch, SkipBatch, BeginBatch, Work, Seed, SeedFails, Spawn, Retry, Finish,
         EndBatch, TruncatePool, SavePool, Exit, Crash, disk
<1> QED BY <1>1, <1>2, <1>3

(* The log of the batch loop, line by line and over all launches, deaths   *)
(* and failed futures, is a behaviour of EpisodeHistory: no rollout has two*)
(* lines, and no batch begins before those before it are full.             *)
THEOREM ImplementsHistory ==
  ASSUME TornWrites = FALSE PROVE Spec => HistorySpec
<1>1. Init => History!Init
  <2> SUFFICES ASSUME Init PROVE History!Init
      OBVIOUS
  <2>1. lines = << >> /\ log = {} /\ DOMAIN lines = {}
    BY LinesInit DEF Init
  <2>2. Intact
    BY <2>1 DEF Intact, Matching
  <2>3. Pairs = << >>
    BY <2>1 DEF Pairs
  <2> QED BY <2>2, <2>3 DEF History!Init
<1>2. Place /\ (Whole => Frontier) /\ [Next]_vars
        => [History!Next]_(IF Intact THEN Pairs ELSE Down)
  BY StepHistory DEF Whole
<1> QED BY <1>1, <1>2, Always, PTL DEF Spec, HistorySpec, History!Spec

-----------------------------------------------------------------------------
(* Lineages, as long as no process died and every record can be resumed    *)
(* from.                                                                   *)

Unbroken == crashes = 0 /\ Intact

LEMMA UnbrokenWhole == Unbroken => Whole
BY DEF Unbroken, Whole

LEMMA InitLineage == Init => Lineage
BY Names DEF Init, Lineage, Offers, Recorded

(* Steps between batches that leave the disk alone. *)
LEMMA RestingLineage ==
  ASSUME Lineage, phase \in {"down", "ready"}, phase' \in {"down", "ready"},
         UNCHANGED <<lines, poolFile, spawned, childDirs>>
  PROVE  Lineage'
BY DEF Lineage, Offers, RefilledPool, Complete, Recorded

LEMMA BeginLineage == ASSUME Place, Whole, Frontier, Lineage, BeginBatch PROVE Lineage'
<1>1. /\ phase = "ready" /\ phase' = "running" /\ task' = task /\ task \in Tasks
      /\ UNCHANGED <<lines, poolFile, spawned, childDirs, pool>>
  BY Names DEF BeginBatch, disk, Place, Tasks
<1>2. pool = poolFile /\ \A r \in log : r.task <= task
  BY <1>1, BatchFrontier DEF Frontier, Abreast
<1>3. ~Complete(log, task) /\ \A u \in Tasks : u < task => Complete(log, u)
  BY <1>1 DEF BeginBatch, Frontier, Abreast, Complete
<1>4. spawned[task] = {} /\ Offers(task)
  BY <1>1, <1>3 DEF Lineage
<1>5. \A t \in Tasks : t > task => spawned[t] = {}
  <2>1. TAKE t \in Tasks
  <2>2. HAVE t > task
  <2>3. ~Complete(log, t)
    <3>1. t \in Nat /\ task \in Nat /\ \A r \in log : r.task \in Nat
      BY <1>1, RecordedPart, Names
    <3>2. \A r \in log : r.task # t
      BY <1>2, <2>2, <3>1
    <3> QED BY <3>2, Names DEF Complete, Recorded
  <2> QED BY <1>1, <2>3 DEF Lineage
<1>6. pool = IF task = 0 THEN << >> ELSE RefilledPool(task - 1)
  BY <1>2, <1>4 DEF Offers
<1>7. \A i \in Rollouts : Parent(pool, i) \in childDirs \cup {Boot}
  <2>1. CASE task = 0
    BY <1>6, <2>1 DEF Parent
  <2>2. CASE task # 0
    <3>1. task - 1 \in Tasks
      BY <1>1, <2>2, Names DEF Tasks
    <3> QED BY <1>4, <1>6, <2>2, <3>1, RefilledType DEF Offers
  <2> QED BY <2>1, <2>2
<1> QED BY <1>1, <1>4, <1>5, <1>6, <1>7 DEF Lineage, RefilledPool

(* The pool of the batch under way names children of the batch before. *)
LEMMA PoolOfBefore ==
  ASSUME Place, Lineage, phase = "running", NEW i \in Rollouts, Parent(pool, i) # Boot
  PROVE  /\ task # 0 /\ task - 1 \in Tasks
         /\ Parent(pool, i) = <<task - 1, i>>
<1>1. task \in Tasks /\ task # 0
  BY DEF Lineage, Place, Parent
<1>2. task - 1 \in Tasks
  BY <1>1, Names DEF Tasks
<1> QED BY <1>1, <1>2, RefilledType DEF Lineage

LEMMA WorkLineage ==
  ASSUME Place, Lineage, NEW i \in Rollouts, Work(i) PROVE Lineage'
<1>1. phase = "running" /\ phase' = "running" /\ task' = task /\ pool' = pool /\ task \in Tasks
  BY DEF Work, Seed, SeedFails, Spawn, Retry, Finish, disk, process, rollout, Place
<1>2. CASE Seed(i)
  <2> DEFINE parent == Parent(pool, i)
  <2>1. spawned' = spawned /\ childDirs' = childDirs \ {parent}
    BY <1>2 DEF Seed
  <2>2. run'[i] # "queued" /\ \A j \in Rollouts \ {i} : run'[j] = run[j]
    BY <1>2 DEF Seed, Place, TypeOK
  <2>3. \A c \in childDirs : c \in Child
    BY DEF Place, TypeOK
  <2>4. parent \in childDirs => parent = <<task - 1, i>>
    BY <2>3, Names, <1>1, PoolOfBefore
  <2>5. \A k \in Rollouts : parent # <<task, k>>
    <3>1. task # task - 1 /\ Boot \notin Child
      BY <1>1, Names
    <3>2. \A k \in Rollouts : <<task, k>> \in Child
      BY <1>1 DEF Child
    <3> QED BY <1>1, <3>1, <3>2, PoolOfBefore
  <2>6. \A j \in Rollouts \ {i} : Parent(pool, j) # Boot => Parent(pool, j) # parent
    BY <1>1, PoolOfBefore
  <2>7. \A k \in spawned[task] : <<task, k>> \in childDirs'
    <3>1. spawned[task] \subseteq Rollouts
      BY <1>1 DEF Place, TypeOK
    <3> QED BY <1>1, <2>1, <2>5, <3>1 DEF Lineage
  <2>8. \A j \in Rollouts : run'[j] = "queued" => Parent(pool, j) \in childDirs' \cup {Boot}
    BY <1>1, <2>1, <2>2, <2>6 DEF Lineage
  <2> HIDE DEF parent
  <2> QED BY <1>1, <2>1, <2>7, <2>8 DEF Lineage, RefilledPool, Parent
<1>3. CASE Spawn(i)
  <2>1. /\ spawned' = [spawned EXCEPT ![task] = spawned[task] \cup {i}]
        /\ childDirs' = childDirs \cup {<<task, i>>} /\ run' = run
        /\ spawned \in [Tasks -> SUBSET Rollouts]
    BY <1>3 DEF Spawn, process, rollout, Place, TypeOK
  <2>2. \A t \in Tasks : t # task => spawned'[t] = spawned[t]
    BY <2>1
  <2>3. task # 0 => task - 1 \in Tasks /\ task - 1 # task
    BY <1>1, Names DEF Tasks
  <2>4. \A t \in Tasks : t > task => spawned'[t] = {}
    <3>1. \A t \in Tasks : t > task => t # task
      BY <1>1, Names
    <3> QED BY <1>1, <2>2, <3>1 DEF Lineage
  <2>5. \A k \in spawned'[task] : <<task, k>> \in childDirs'
    BY <1>1, <2>1 DEF Lineage
  <2>6. pool = IF task = 0 THEN << >> ELSE RefilledPool(task - 1)'
    BY <1>1, <2>2, <2>3 DEF Lineage, RefilledPool
  <2>7. \A j \in Rollouts : run'[j] = "queued" => Parent(pool, j) \in childDirs' \cup {Boot}
    BY <1>1, <2>1 DEF Lineage
  <2> QED BY <1>1, <2>4, <2>5, <2>6, <2>7 DEF Lineage, RefilledPool, Parent
<1>4. CASE SeedFails(i) \/ Retry(i) \/ Finish(i)
  <2>1. UNCHANGED <<lines, poolFile, spawned, childDirs>>
    BY <1>4 DEF SeedFails, Retry, Finish, disk
  <2>2. \A j \in Rollouts : run'[j] = "queued" => run[j] = "queued"
    BY <1>4 DEF SeedFails, Retry, Finish, Place, TypeOK
  <2> QED BY <1>1, <2>1, <2>2 DEF Lineage, RefilledPool, Parent
<1> QED BY <1>2, <1>3, <1>4 DEF Work

(* The batch is written: its children stay where they are. *)
LEMMA WrittenLineage ==
  ASSUME Place, Lineage,
         EndBatch \/ TruncatePool \/ \E i \in Rollouts : AppendRecord(i)
  PROVE  Lineage'
<1>1. /\ phase \in {"running", "append"} /\ phase' \in {"append", "save"} /\ task' = task
      /\ UNCHANGED <<spawned, childDirs>>
  BY DEF EndBatch, TruncatePool, AppendRecord, disk
<1> QED BY <1>1 DEF Lineage

LEMMA SaveLineage ==
  ASSUME Place, Frontier, Lineage, SavePool PROVE Lineage'
<1>1. /\ phase = "save" /\ phase' = "ready" /\ Unwritten = {} /\ poolFile' = RefilledPool(task)
      /\ UNCHANGED <<lines, spawned, childDirs>>
  BY DEF SavePool, Place
<1>2. /\ task \in Tasks /\ \A u \in Tasks : u <= task => Complete(log, u)
      /\ \A r \in log : r.task <= task
  BY <1>1, WrittenComplete DEF Frontier, Abreast
<1>3. ASSUME NEW t \in Tasks, ~Complete(log, t)
      PROVE  /\ Recorded(log, t) = {} /\ spawned[t] = {}
             /\ (\A u \in Tasks : u < t => Complete(log, u)) => t = task + 1
  <2>1. t \in Nat /\ task \in Nat /\ t <= LastTask /\ \A r \in log : r.task \in Nat
    BY <1>2, RecordedPart, Names DEF Tasks
  <2>2. t > task
    BY <1>2, <1>3, <2>1
  <2>3. Recorded(log, t) = {}
    BY <1>2, <2>1, <2>2 DEF Recorded
  <2>4. ASSUME t # task + 1 PROVE \E u \in Tasks : u < t /\ ~Complete(log, u)
    <3>1. task + 1 \in Tasks /\ task + 1 < t
      BY <2>1, <2>2, <2>4, Names DEF Tasks
    <3>2. \A r \in log : r.task # task + 1
      BY <1>2, <2>1
    <3>3. ~Complete(log, task + 1)
      BY <3>2, Names DEF Complete, Recorded
    <3> QED BY <3>1, <3>3
  <2> QED BY <1>1, <2>2, <2>3, <2>4 DEF Lineage
<1>4. task + 1 # 0 /\ (task + 1) - 1 = task
  BY <1>2, Names
<1>5. \A t \in Tasks : t = task + 1 => Offers(t)'
  <2>1. \A i \in spawned[task] : <<task, i>> \in childDirs
    BY <1>1 DEF Lineage
  <2> QED BY <1>1, <1>4, <2>1 DEF Offers, RefilledPool
<1> QED BY <1>1, <1>3, <1>5 DEF Lineage, Complete, Recorded

LEMMA StepLineage ==
  ASSUME Place, Whole => Frontier, Unbroken => Lineage, [Next]_vars, Unbroken'
  PROVE  Lineage'
<1>1. Whole'
  BY DEF Unbroken, Whole
<1>2. Whole /\ Frontier
  BY <1>1, WholeBefore
<1>3. crashes \in Nat
  BY BoundsAssumption DEF Place, TypeOK
<1>4. crashes = 0 /\ ~Crash
  <2>1. crashes' = crashes \/ crashes' = crashes + 1
    BY DEF Next, vars, Launch, SkipBatch, BeginBatch, Work, Seed, SeedFails, Spawn, Retry, Finish,
           EndBatch, AppendRecord, TruncatePool, SavePool, Exit, Crash
  <2>2. crashes' = 0
    BY DEF Unbroken
  <2>3. Crash => crashes' = crashes + 1
    BY DEF Crash
  <2> QED BY <1>3, <2>1, <2>2, <2>3
<1>5. Lineage
  BY <1>2, <1>4 DEF Unbroken, Whole
<1>6. CASE (\E step \in BOOLEAN : Launch(step)) \/ SkipBatch \/ Exit
  BY <1>5, <1>6, RestingLineage DEF Launch, SkipBatch, Exit, Stopped, disk
<1>7. CASE UNCHANGED vars
  BY <1>5, <1>7 DEF vars, disk, process, rollout, Lineage, Offers, RefilledPool, Complete, Recorded, Parent
<1> QED BY <1>2, <1>4, <1>5, <1>6, <1>7, BeginLineage, WorkLineage, WrittenLineage, SaveLineage DEF Next

LEMMA InLineage ==
  ASSUME Place, Lineage PROVE ChildrenFormNextPool /\ PooledChildrenHaveWorkspaces
<1>1. ChildrenFormNextPool
  <2> SUFFICES ASSUME phase = "running", task > 0, NEW i \in spawned[task - 1]
               PROVE  Parent(pool, i) = <<task - 1, i>>
    BY DEF ChildrenFormNextPool
  <2>1. task # 0 /\ task - 1 \in Tasks
    BY Names DEF Place, Tasks
  <2>2. i \in Rollouts
    BY <2>1 DEF Place, TypeOK
  <2> QED BY <2>1, <2>2, RefilledType DEF Lineage
<1>2. \A i \in Rollouts : run[i] = "queued" => phase = "running"
  BY DEF Place, TypeOK, Phases
<1> QED BY <1>1, <1>2 DEF Lineage, PooledChildrenHaveWorkspaces

(* docs/episode-runner.md:52: while no process dies and no OpenCode future *)
(* fails, each spawned child takes its place in the next pool and its      *)
(* workspace is there when its rollout starts.                             *)
THEOREM LineagesGoOn == Spec => []LineagesContinue
<1>1. Init => Place /\ (Whole => Frontier) /\ (Unbroken => Lineage)
  BY InitPlace, InitFrontier, InitLineage
<1>2. Place /\ (Whole => Frontier) /\ (Unbroken => Lineage) /\ [Next]_vars
        => Place' /\ (Whole' => Frontier') /\ (Unbroken' => Lineage')
  BY StepPlace, StepFrontier, StepLineage
<1>3. Place /\ (Unbroken => Lineage) => LineagesContinue
  BY InLineage DEF LineagesContinue, Unbroken
<1> QED BY <1>1, <1>2, <1>3, PTL DEF Spec

(* Every state of the disk and of the process is well formed. *)
THEOREM Types == Spec => []TypeOK
<1>1. Place => TypeOK
  BY DEF Place
<1> QED BY <1>1, InitPlace, StepPlace, PTL DEF Spec
=============================================================================
