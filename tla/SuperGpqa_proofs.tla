--------------------------- MODULE SuperGpqa_proofs ---------------------------
(* Proofs about retirement, for any problems, batches, launches and deaths. *)
EXTENDS SuperGpqa, TLAPS, FiniteSetTheorems

(* An outcome that solved something names a problem. *)
NamesProblem(r) == r.solved # {} => r.item \in Problems

Typing ==
  /\ TypeOK
  /\ scored = [i \in Rollouts |-> scored[i]]
  /\ \A r \in log : NamesProblem(r)
  /\ \A i \in Rollouts : NamesProblem(result[i][2])
  /\ history \subseteq log
  /\ phase \in {"running", "append"} => batch \in Batches

(* Records of the current batch are either from before, of rollouts that   *)
(* are then absent, or the results of this process.                        *)
IsResult(r) ==
  /\ result[r.rollout][1] # "absent"
  /\ r.item = result[r.rollout][2].item /\ r.solved = result[r.rollout][2].solved

Books ==
  phase \in {"running", "append"} =>
    \A r \in log : r.batch = batch =>
      \/ result[r.rollout][1] = "absent" /\ r \in history
      \/ phase = "append" /\ IsResult(r)

(* Later batches were only recorded by older processes, and what this one  *)
(* recorded and solved in earlier ones has been retired.                   *)
Ahead ==
  phase # "down" => \A r \in log :
    r.batch > batch \/ (phase = "ready" /\ r.batch = batch) => r \in history

Behind ==
  phase # "down" => \A r \in log :
    r.batch < batch => r \in history \/ (r.solved # {} => r.item \in retired)

(* Rollouts that are absent solved nothing. *)
AbsentIdle == \A i \in Rollouts : result[i][1] = "absent" => result[i][2].solved = {}

Sampled == phase = "running" => pool \cap LoadedSolved = {}

IInv ==
  Typing /\ Books /\ Ahead /\ Behind /\ AbsentIdle /\ Sampled /\ RetirementRecorded

LEMMA Nothings ==
  Nothing \in Outcome /\ Nothing.solved = {} /\ NamesProblem(Nothing)
BY DEF Nothing, Outcome, NamesProblem

LEMMA InitInv == Init => IInv
<1> SUFFICES ASSUME Init PROVE IInv
    OBVIOUS
<1>1. TypeOK
  <2>1. Cardinality({}) = 0
    BY FS_EmptySet
  <2>2. result \in [Rollouts -> Results]
    BY Nothings DEF Init, Results
  <2>3. \A i \in Rollouts : scored[i] \in Seq(Event) /\ Len(scored[i]) = 0
    BY DEF Init
  <2> QED BY <2>1, <2>2, <2>3, SuperGpqaAssumption DEF Init, TypeOK
<1>2. \A i \in Rollouts : result[i] = <<"absent", Nothing>>
  BY DEF Init
<1> QED BY <1>1, <1>2, Nothings DEF Init, IInv, Typing, Books, Ahead, Behind, AbsentIdle, Sampled,
         RetirementRecorded

(* What is loaded is a set of problems, each with a durable reason. *)
LEMMA Loaded ==
  ASSUME Typing, RetirementRecorded
  PROVE /\ LoadedSolved \in SUBSET Problems
        /\ retired \subseteq LoadedSolved
        /\ \A p \in LoadedSolved : \E r \in log : r.solved # {} /\ p \in r.solved \cup {r.item}
<1>1. \A r \in history : r \in log /\ r.solved \in SUBSET Problems /\ NamesProblem(r)
  BY DEF Typing, TypeOK, Record
<1>2. retired \in SUBSET Problems
  BY DEF Typing, TypeOK
<1> QED BY <1>1, <1>2 DEF LoadedSolved, NamesProblem, RetirementRecorded

(* The results of a batch whose records are all written. *)
LEMMA Solved ==
  ASSUME Typing, Books, AbsentIdle, phase = "append", Unwritten = {}
  PROVE \A p \in SolvedItems :
          p \in Problems /\ \E r \in log : r.solved # {} /\ p \in r.solved \cup {r.item}
<1> SUFFICES ASSUME NEW i \in Rollouts, result[i][2].solved # {}
             PROVE LET p == result[i][2].item IN
                   p \in Problems /\ \E r \in log : r.solved # {} /\ p \in r.solved \cup {r.item}
  BY DEF SolvedItems
<1>1. result[i][1] # "absent"
  BY DEF AbsentIdle
<1>2. i \in Recorded(batch)
  BY <1>1 DEF Unwritten
<1>3. PICK r \in log : r.batch = batch /\ r.rollout = i
  BY <1>2 DEF Recorded
<1>4. IsResult(r)
  BY <1>1, <1>3 DEF Books
<1> QED BY <1>3, <1>4 DEF IsResult, Typing, NamesProblem

(* A collected outcome. *)
LEMMA Collecting ==
  ASSUME NEW events \in Seq(Event)
  PROVE Collected(events) \in Outcome /\ NamesProblem(Collected(events))
<1>1. CASE events = << >>
  BY <1>1, Nothings DEF Collected
<1>2. CASE events # << >>
  <2>0. \A k \in DOMAIN events : events[k] \in Event
    OBVIOUS
  <2>4. Len(events) \in DOMAIN events
    BY <1>2
  <2>1. events[Len(events)].problem \in Problems
    BY <2>0, <2>4 DEF Event
  <2>2. \A k \in DOMAIN events : events[k].problem \in Problems
    BY <2>0 DEF Event
  <2>3. {events[k].problem : k \in {j \in DOMAIN events : events[j].correct}} \in SUBSET Problems
    BY <2>2
  <2> QED BY <1>2, <2>1, <2>3 DEF Collected, Outcome, NamesProblem
<1> QED BY <1>1, <1>2

LEMMA ClearedIsTyped ==
  ASSUME Cleared
  PROVE /\ pool' \in SUBSET Problems /\ Cardinality(pool') <= PoolSize
        /\ \A i \in Rollouts : scored'[i] \in Seq(Event) /\ Len(scored'[i]) <= MaxSubmissions
        /\ scored' = [i \in Rollouts |-> scored'[i]]
        /\ result' \in [Rollouts -> Results]
        /\ \A i \in Rollouts : result'[i] = <<"absent", Nothing>>
<1>1. Cardinality({}) = 0
  BY FS_EmptySet
<1>2. \A i \in Rollouts : scored'[i] = << >>
  BY DEF Cleared
<1> QED BY <1>1, <1>2, Nothings, SuperGpqaAssumption DEF Cleared, Results

-----------------------------------------------------------------------------
LEMMA StoppedKeeps ==
  ASSUME IInv, Stopped, log' = log,
         retired' \in SUBSET Problems,
         \A p \in retired' : \E r \in log : r.solved # {} /\ p \in r.solved \cup {r.item},
         launches' \in 0 .. MaxLaunches, crashes' \in 0 .. MaxCrashes
  PROVE IInv'
<1>1. Cleared
  BY DEF Stopped
<1>2. TypeOK'
  BY <1>1, ClearedIsTyped, SuperGpqaAssumption DEF IInv, Typing, TypeOK, Stopped
<1>3. Typing'
  BY <1>1, <1>2, ClearedIsTyped, Nothings DEF IInv, Typing, Stopped, NamesProblem
<1>4. AbsentIdle'
  BY <1>1, ClearedIsTyped, Nothings DEF AbsentIdle
<1> QED BY <1>3, <1>4 DEF IInv, Stopped, Books, Ahead, Behind, Sampled, RetirementRecorded

LEMMA LaunchKeeps == IInv /\ Launch => IInv'
<1> SUFFICES ASSUME IInv, Launch PROVE IInv'
    OBVIOUS
<1>1. TypeOK'
  BY SuperGpqaAssumption DEF IInv, Typing, TypeOK, Launch, Batches
<1>2. Typing'
  BY <1>1 DEF IInv, Typing, Launch, NamesProblem
<1> QED BY <1>2 DEF IInv, Launch, Books, Ahead, Behind, AbsentIdle, Sampled, RetirementRecorded

LEMMA PrepareKeeps == IInv /\ PrepareBatch => IInv'
<1> SUFFICES ASSUME IInv, PrepareBatch PROVE IInv'
    OBVIOUS
<1>1. /\ LoadedSolved \in SUBSET Problems /\ retired \subseteq LoadedSolved
      /\ \A p \in LoadedSolved : \E r \in log : r.solved # {} /\ p \in r.solved \cup {r.item}
  BY Loaded DEF IInv
<1>2. pool' \in SUBSET (Problems \ LoadedSolved) /\ Cardinality(pool') <= PoolSize
  BY SuperGpqaAssumption DEF PrepareBatch, Samples
<1>3. /\ result' \in [Rollouts -> Results]
      /\ \A i \in Rollouts : result'[i] \in {<<"absent", Nothing>>, <<"active", Nothing>>}
      /\ \A i \in Rollouts : result'[i][1] = "absent" <=> i \in Recorded(batch)
  BY Nothings DEF PrepareBatch, Prepared, Results
<1>4. TypeOK'
  BY <1>1, <1>2, <1>3 DEF IInv, Typing, TypeOK, PrepareBatch
<1>5. Typing'
  BY <1>3, <1>4, Nothings DEF IInv, Typing, PrepareBatch, NamesProblem
<1>6. AbsentIdle'
  BY <1>3, Nothings DEF AbsentIdle
<1>7. Books'
  <2> SUFFICES ASSUME NEW r \in log, r.batch = batch
               PROVE result'[r.rollout][1] = "absent" /\ r \in history
    BY DEF Books, PrepareBatch
  <2>1. r.rollout \in Recorded(batch) /\ r.rollout \in Rollouts
    BY DEF Recorded, IInv, Typing, TypeOK, Record
  <2> QED BY <2>1, <1>3 DEF IInv, Ahead, PrepareBatch
<1>8. LoadedSolved' = LoadedSolved
  BY DEF LoadedSolved, PrepareBatch
<1> QED BY <1>1, <1>2, <1>5, <1>6, <1>7, <1>8
        DEF IInv, Ahead, Behind, Sampled, RetirementRecorded, PrepareBatch

LEMMA SubmitKeeps ==
  ASSUME IInv, NEW i \in Rollouts, NEW problem \in Problems, NEW correct \in BOOLEAN,
         Submit(i, problem, correct)
  PROVE IInv'
<1>1. \A j \in Rollouts : scored'[j] \in Seq(Event) /\ Len(scored'[j]) <= MaxSubmissions
  <2> DEFINE event == [problem |-> problem, correct |-> correct]
  <2>1. event \in Event
    BY DEF Event
  <2>2. \A j \in Rollouts : scored[j] \in Seq(Event) /\ Len(scored[j]) <= MaxSubmissions
    BY DEF IInv, Typing, TypeOK
  <2>3. /\ Len(scored[i]) < MaxSubmissions
        /\ scored'[i] = Append(scored[i], event)
        /\ \A j \in Rollouts \ {i} : scored'[j] = scored[j]
    BY DEF Submit, IInv, Typing
  <2> HIDE DEF event
  <2>4. scored'[i] \in Seq(Event) /\ Len(scored'[i]) = Len(scored[i]) + 1
    BY <2>1, <2>2, <2>3
  <2> QED BY <2>2, <2>3, <2>4, SuperGpqaAssumption
<1>2. scored' = [j \in Rollouts |-> scored'[j]]
  BY DEF Submit, IInv, Typing
<1>3. TypeOK'
  BY <1>1 DEF IInv, Typing, TypeOK, Submit
<1>4. Typing'
  BY <1>2, <1>3 DEF IInv, Typing, Submit, NamesProblem
<1> QED BY <1>4 DEF IInv, Submit, Books, IsResult, Ahead, Behind, AbsentIdle, Sampled,
                    LoadedSolved, RetirementRecorded

LEMMA FinishKeeps ==
  ASSUME IInv, NEW i \in Rollouts, Finish(i) PROVE IInv'
<1>1. PICK r \in {<<"scored", Collected(scored[i])>>, <<"failed", Nothing>>} :
        result' = [result EXCEPT ![i] = r]
  BY DEF Finish
<1>2. r \in Results /\ r[1] # "absent" /\ NamesProblem(r[2])
  BY <1>1, Collecting, Nothings DEF IInv, Typing, TypeOK, Results
<1>3. /\ result' \in [Rollouts -> Results] /\ result'[i] = r
      /\ \A j \in Rollouts \ {i} : result'[j] = result[j]
  BY <1>1, <1>2 DEF IInv, Typing, TypeOK
<1>4. TypeOK'
  BY <1>3 DEF IInv, Typing, TypeOK, Finish
<1>5. Typing'
  BY <1>2, <1>3, <1>4 DEF IInv, Typing, Finish, NamesProblem
<1>6. Books'
  <2> SUFFICES ASSUME NEW s \in log, s.batch = batch
               PROVE result'[s.rollout][1] = "absent" /\ s \in history
    BY DEF Books, Finish
  <2>1. result[s.rollout][1] = "absent" /\ s \in history
    BY DEF IInv, Books, Finish
  <2>2. s.rollout \in Rollouts /\ s.rollout # i
    BY <2>1 DEF Finish, IInv, Typing, TypeOK, Record
  <2> QED BY <2>1, <2>2, <1>3
<1>7. AbsentIdle'
  BY <1>2, <1>3 DEF IInv, AbsentIdle
<1> QED BY <1>5, <1>6, <1>7 DEF IInv, Finish, Ahead, Behind, Sampled, LoadedSolved, RetirementRecorded

LEMMA AppendKeeps ==
  ASSUME IInv, NEW i \in Rollouts, AppendRecord(i) PROVE IInv'
<1> DEFINE new == [batch |-> batch, rollout |-> i,
                   item |-> result[i][2].item, solved |-> result[i][2].solved]
<1>1. /\ log' = log \cup {new} /\ phase = "append" /\ i \in Unwritten
      /\ UNCHANGED <<retired, phase, batch, history, pool, scored, result, launches, crashes>>
  BY DEF AppendRecord, process
<1>2. result[i] \in Results /\ result[i][1] # "absent"
  BY <1>1 DEF IInv, Typing, TypeOK, Unwritten
<1>3. result[i][2] \in Outcome
  BY <1>2, Nothings DEF Results
<1>4. new \in Record /\ NamesProblem(new)
  BY <1>1, <1>2, <1>3 DEF Record, Outcome, IInv, Typing, NamesProblem, Unwritten
<1>5. Typing'
  <2>1. TypeOK'
    BY <1>1, <1>4 DEF IInv, Typing, TypeOK
  <2> QED BY <1>1, <1>4, <2>1 DEF IInv, Typing, NamesProblem
<1>6. Books'
  BY <1>1, <1>2 DEF IInv, Books, IsResult
<1>7. Ahead' /\ Behind'
  <2>1. ~ new.batch > batch /\ ~ new.batch < batch
    BY <1>1 DEF IInv, Typing, Batches
  <2> QED BY <1>1, <2>1 DEF IInv, Ahead, Behind
<1> QED BY <1>1, <1>5, <1>6, <1>7
        DEF IInv, AbsentIdle, Sampled, LoadedSolved, RetirementRecorded

LEMMA FinalizeKeeps == IInv /\ FinalizeBatch => IInv'
<1> SUFFICES ASSUME IInv, FinalizeBatch PROVE IInv'
    OBVIOUS
<1>1. /\ LoadedSolved \in SUBSET Problems /\ retired \subseteq LoadedSolved
      /\ \A p \in LoadedSolved : \E r \in log : r.solved # {} /\ p \in r.solved \cup {r.item}
  BY Loaded DEF IInv
<1>2. \A p \in SolvedItems :
        p \in Problems /\ \E r \in log : r.solved # {} /\ p \in r.solved \cup {r.item}
  BY Solved DEF IInv, FinalizeBatch
<1>3. Cleared
  BY DEF FinalizeBatch
<1>4. batch \in Batches /\ batch' = batch + 1 /\ batch' \in 0 .. LastBatch + 1
  BY SuperGpqaAssumption DEF FinalizeBatch, IInv, Typing, Batches
<1>5. TypeOK'
  BY <1>1, <1>2, <1>3, <1>4, ClearedIsTyped DEF IInv, Typing, TypeOK, FinalizeBatch
<1>6. Typing'
  BY <1>3, <1>5, ClearedIsTyped, Nothings DEF IInv, Typing, FinalizeBatch, NamesProblem
<1>7. AbsentIdle'
  BY <1>3, ClearedIsTyped, Nothings DEF AbsentIdle
<1>8. \A r \in log : r.batch \in Batches /\ r.rollout \in Rollouts
  BY DEF IInv, Typing, TypeOK, Record
<1>9. Ahead'
  BY <1>4, <1>8 DEF IInv, Ahead, FinalizeBatch, Batches
<1>10. Behind'
  <2> SUFFICES ASSUME NEW r \in log, r.batch < batch + 1, r \notin history, r.solved # {}
               PROVE r.item \in LoadedSolved \cup SolvedItems
    BY <1>4 DEF Behind, FinalizeBatch
  <2>1. CASE r.batch < batch
    BY <2>1, <1>1 DEF IInv, Behind, FinalizeBatch
  <2>2. CASE r.batch = batch
    BY <2>2, <1>8 DEF IInv, Books, IsResult, FinalizeBatch, SolvedItems
  <2> QED BY <2>1, <2>2, <1>4, <1>8 DEF Batches
<1> QED BY <1>1, <1>2, <1>6, <1>7, <1>9, <1>10 DEF IInv, FinalizeBatch, Books, Sampled, RetirementRecorded

LEMMA StepKeeps == IInv /\ [Next]_vars => IInv'
<1> SUFFICES ASSUME IInv, [Next]_vars PROVE IInv'
    OBVIOUS
<1>1. CASE PoolExhausted
  <2>1. /\ LoadedSolved \in SUBSET Problems
        /\ \A p \in LoadedSolved : \E r \in log : r.solved # {} /\ p \in r.solved \cup {r.item}
    BY Loaded DEF IInv
  <2> QED BY <1>1, <2>1, StoppedKeeps DEF PoolExhausted, IInv, Typing, TypeOK
<1>2. CASE Exit
  BY <1>2, StoppedKeeps DEF Exit, IInv, Typing, TypeOK, RetirementRecorded
<1>3. CASE Crash
  <2>1. crashes' \in 0 .. MaxCrashes
    BY <1>3, SuperGpqaAssumption DEF Crash, IInv, Typing, TypeOK
  <2> QED BY <1>3, <2>1, StoppedKeeps DEF Crash, IInv, Typing, TypeOK, RetirementRecorded
<1>4. CASE EndBatch
  <2>1. TypeOK'
    BY <1>4 DEF EndBatch, IInv, Typing, TypeOK
  <2> QED BY <1>4, <2>1 DEF EndBatch, IInv, Typing, NamesProblem, Books, IsResult, Ahead, Behind,
          AbsentIdle, Sampled, RetirementRecorded
<1>5. CASE UNCHANGED vars
  <2>1. TypeOK'
    BY <1>5 DEF vars, IInv, Typing, TypeOK
  <2> QED BY <1>5, <2>1 DEF vars, IInv, Typing, NamesProblem, Books, IsResult, Ahead, Behind,
          AbsentIdle, Sampled, LoadedSolved, RetirementRecorded
<1> QED BY <1>1, <1>2, <1>3, <1>4, <1>5, LaunchKeeps, PrepareKeeps, FinalizeKeeps, SubmitKeeps,
        FinishKeeps, AppendKeeps DEF Next

(* What is solved and recorded is not in the pool of the batch at work. *)
LEMMA NeverOffered == IInv => LatestSolvedNeverOffered
<1> SUFFICES ASSUME IInv, phase = "running", NEW r \in log, r.item \in r.solved,
                    r.batch < batch \/ r \in history
             PROVE r.item \notin pool
  BY DEF LatestSolvedNeverOffered
<1>1. r.item \in LoadedSolved
  BY DEF IInv, Behind, LoadedSolved
<1> QED BY <1>1 DEF IInv, Sampled

(* Disk and process state keep their types, over any deaths. *)
THEOREM Types == Spec => []TypeOK
<1>1. IInv => TypeOK
  BY DEF IInv, Typing
<1> QED BY InitInv, StepKeeps, <1>1, PTL DEF Spec

(* No batch offers a problem that a recorded rollout of an earlier batch,  *)
(* or of an earlier process, solved with its last submission.              *)
THEOREM SolvedStaysAway == Spec => []LatestSolvedNeverOffered
BY InitInv, StepKeeps, NeverOffered, PTL DEF Spec

(* Every retired problem has a run record that justifies it.               *)
THEOREM RetiredForAReason == Spec => []RetirementRecorded
<1>1. IInv => RetirementRecorded
  BY DEF IInv
<1> QED BY InitInv, StepKeeps, <1>1, PTL DEF Spec
=============================================================================
