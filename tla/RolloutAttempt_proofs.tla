------------------------ MODULE RolloutAttempt_proofs ------------------------
(***************************************************************************)
(* Proofs about what runs during one attempt of a rollout: the OpenCode    *)
(* supervisor with its worker (OpenCodeRunner), and the spawn_child        *)
(* transactions of the rollouts of a batch (SpawnSlots).  The two share no *)
(* state; each theorem is about the specification of one of them.          *)
(*                                                                         *)
(* OpenCodeRunner, for any number of reconnects: the inductive invariant   *)
(* RunnerInv says how far the request and the session are (RequestFacts),  *)
(* that every line is handled or on its way in the pipe or the buffer, but *)
(* for the texts that were malformed (LineFacts), and that what the result *)
(* says cannot change once the supervisor is done (EndFacts).              *)
(*                                                                         *)
(* SpawnSlots, for any rollouts and any number of calls: types,            *)
(* completeness of recorded slots and one child per rollout under any      *)
(* fault, and - when the slots file can be read - recorded children that   *)
(* stay, honest answers, directories that are accounted for, and the       *)
(* refinement of ChildOpportunity.                                         *)
(***************************************************************************)
EXTENDS SpawnSlots, OpenCodeRunner, SequenceTheorems, TLAPS

-----------------------------------------------------------------------------
(* The supervisor and its worker.                                          *)

Content(s) == {s[i] : i \in DOMAIN s}
Pending == Content(buffer) \cup Content(pipe)
Events == {"busy", "idle", "error", "overflow"}

Early == {"start", "read", "spawn bridge", "announce bridge", "await bridge", "verify", "spawn server",
          "announce server", "await server", "connect", "create"}
Late == {"teardown", "stop server", "stop bridge", "report"}
Texts == {"turn_complete", "context_exhausted"}

(* The stream tells of the end of a session only when it has ended so.     *)
QueueTells == \A e \in {"idle", "overflow"} : e \in Content(queue) => session = e

(* How far the request is, what the session has done.                      *)
RequestFacts ==
  /\ worker \in Early => session = "none" /\ fate = "none"
  /\ worker \in Early \ {"create"} => stream = "none"
  /\ worker = "prompt" => session = "new"
  /\ worker \in {"fetch", "answer"} => session = "idle"
  /\ worker \in Late \cup {"exited"} <=> fate # "none" /\ worker # "killed"
  /\ fate = "complete" => session = "idle"
  /\ fate = "context_exhausted" => session = "overflow"
  /\ stream # "closed" => attempt <= MaxReconnects
  /\ QueueTells

(* Every announcement is handled or on its way, and every text too, but    *)
(* for one that was malformed; no line contradicts the fate of the         *)
(* request, and none is malformed while the worker runs.                   *)
LineFacts ==
  /\ announced \subseteq known.pids \cup Pending
  /\ Pending \cap Texts # {} \/ known.completed => fate \in Done
  /\ Pending \cap Codes # {} \/ known.error \in Codes => fate \in Codes
  /\ fate \in Done => Pending \cap Texts # {} \/ known.completed \/ known.malformed
  /\ known.malformed => worker \in Gone

(* From the drain on, the worker is gone, so that what the result says     *)
(* stays so.                                                               *)
EndFacts ==
  /\ supervisor \in {"drain", "sweep", "done"} => worker \in Gone
  /\ supervisor \in {"sweep", "done"} /\ ~ raised => buffer = <<>> /\ pipe = <<>>
  /\ supervisor # "done" => result = "none"
  /\ supervisor = "done" => result = Outcome
  /\ supervisor = "done" /\ ~ raised => \A p \in announced : process[p] # "up"

RunnerInv == RunnerTypeOK /\ RequestFacts /\ LineFacts /\ EndFacts

-----------------------------------------------------------------------------
(* Sequences of lines and of events.                                       *)

LEMMA ContentAppend ==
  ASSUME NEW S, NEW s \in Seq(S), NEW e \in S
  PROVE  Append(s, e) \in Seq(S) /\ Content(Append(s, e)) = Content(s) \cup {e}
<1>1. /\ Append(s, e) \in Seq(S) /\ DOMAIN Append(s, e) = DOMAIN s \cup {Len(s) + 1}
      /\ Append(s, e)[Len(s) + 1] = e /\ \A i \in DOMAIN s : Append(s, e)[i] = s[i]
  OBVIOUS
<1> QED BY <1>1 DEF Content

LEMMA ContentTail ==
  ASSUME NEW S, NEW s \in Seq(S), s # <<>>
  PROVE  /\ Head(s) \in S /\ Tail(s) \in Seq(S)
         /\ Content(s) = {Head(s)} \cup Content(Tail(s))
<1>1. /\ Head(s) = s[1] /\ s[1] \in S /\ Tail(s) \in Seq(S) /\ Len(s) \in Nat \ {0}
      /\ DOMAIN s = 1 .. Len(s)
      /\ Len(Tail(s)) = Len(s) - 1 /\ \A i \in 1 .. Len(Tail(s)) : Tail(s)[i] = s[i + 1]
  OBVIOUS
<1>2. DOMAIN Tail(s) = 1 .. Len(s) - 1
  BY <1>1
<1>3. ASSUME NEW i \in DOMAIN s PROVE s[i] \in {Head(s)} \cup Content(Tail(s))
  <2>1. CASE i = 1
    BY <1>1, <2>1
  <2>2. CASE i # 1
    <3>1. i - 1 \in DOMAIN Tail(s) /\ Tail(s)[i - 1] = s[i]
      BY <1>1, <1>2, <2>2
    <3> QED BY <3>1 DEF Content
  <2> QED BY <2>1, <2>2
<1>4. ASSUME NEW i \in DOMAIN Tail(s) PROVE Tail(s)[i] \in Content(s)
  <2>1. i + 1 \in DOMAIN s /\ Tail(s)[i] = s[i + 1]
    BY <1>1, <1>2
  <2> QED BY <2>1 DEF Content
<1>5. Head(s) \in Content(s)
  BY <1>1 DEF Content
<1> QED BY <1>1, <1>3, <1>4, <1>5 DEF Content

LEMMA ContentConcat ==
  ASSUME NEW S, NEW s \in Seq(S), NEW t \in Seq(S)
  PROVE  s \o t \in Seq(S) /\ Content(s \o t) = Content(s) \cup Content(t)
<1>1. /\ s \o t \in Seq(S) /\ Len(s) \in Nat /\ Len(t) \in Nat
      /\ DOMAIN s = 1 .. Len(s) /\ DOMAIN t = 1 .. Len(t) /\ DOMAIN (s \o t) = 1 .. Len(s) + Len(t)
      /\ \A i \in 1 .. Len(s) + Len(t) : (s \o t)[i] = IF i <= Len(s) THEN s[i] ELSE t[i - Len(s)]
  OBVIOUS
<1> DEFINE u == s \o t
<1> HIDE DEF u
<1>2. ASSUME NEW i \in DOMAIN u PROVE u[i] \in Content(s) \cup Content(t)
  <2>1. CASE i <= Len(s)
    BY <1>1, <2>1 DEF Content, u
  <2>2. CASE ~ (i <= Len(s))
    <3>1. i - Len(s) \in DOMAIN t /\ u[i] = t[i - Len(s)]
      BY <1>1, <2>2 DEF u
    <3> QED BY <3>1 DEF Content
  <2> QED BY <2>1, <2>2
<1>3. ASSUME NEW i \in DOMAIN s PROVE s[i] \in Content(u)
  <2>1. i \in DOMAIN u /\ u[i] = s[i]
    BY <1>1 DEF u
  <2> QED BY <2>1 DEF Content
<1>4. ASSUME NEW i \in DOMAIN t PROVE t[i] \in Content(u)
  <2>1. i + Len(s) \in DOMAIN u /\ u[i + Len(s)] = t[i]
    BY <1>1 DEF u
  <2> QED BY <2>1 DEF Content
<1> QED BY <1>1, <1>2, <1>3, <1>4 DEF Content, u

LEMMA Chunk ==
  ASSUME NEW S, NEW s \in Seq(S), NEW m \in Nat \ {0}, NEW n \in Nat, n <= Len(s), m <= n + 1
  PROVE  /\ SubSeq(s, m, n) \in Seq(S) /\ Len(SubSeq(s, m, n)) = n - m + 1
         /\ \A i \in 1 .. n - m + 1 : SubSeq(s, m, n)[i] = s[m + i - 1]
<1>1. \A i \in m .. n : s[i] \in S
  OBVIOUS
<1>2. /\ SubSeq(s, m, n) \in Seq(S) /\ Len(SubSeq(s, m, n)) = IF m <= n THEN n - m + 1 ELSE 0
      /\ \A i \in 1 .. n - m + 1 : SubSeq(s, m, n)[i] = s[m + i - 1]
  BY <1>1, SubSeqProperties, SMT
<1> QED BY <1>2

(* A chunk of the pipe, and what is left in it.                            *)
LEMMA ContentChunk ==
  ASSUME NEW S, NEW s \in Seq(S), s # <<>>, NEW n \in 1 .. Len(s)
  PROVE  LET a == SubSeq(s, 1, n)
             b == SubSeq(s, n + 1, Len(s))
         IN  /\ a \in Seq(S) /\ b \in Seq(S)
             /\ Content(s) = Content(a) \cup Content(b)
<1> DEFINE a == SubSeq(s, 1, n)
           b == SubSeq(s, n + 1, Len(s))
<1>1. /\ Len(s) \in Nat \ {0} /\ n \in Nat \ {0} /\ n <= Len(s) /\ DOMAIN s = 1 .. Len(s)
      /\ \A i \in 1 .. Len(s) : s[i] \in S
  OBVIOUS
<1>2. /\ a \in Seq(S) /\ Len(a) = n /\ \A i \in 1 .. n : a[i] = s[i]
  <2>1. n - 1 + 1 = n /\ \A i \in 1 .. n : 1 + i - 1 = i
    BY <1>1
  <2> QED BY <1>1, <2>1, Chunk
<1>3. /\ b \in Seq(S) /\ Len(b) = Len(s) - n /\ \A i \in 1 .. Len(s) - n : b[i] = s[i + n]
  <2> DEFINE m == n + 1
             last == Len(s)
  <2>1. /\ m \in Nat \ {0} /\ last \in Nat /\ last <= Len(s) /\ m <= last + 1
        /\ last - m + 1 = Len(s) - n /\ \A i \in 1 .. Len(s) - n : m + i - 1 = i + n
    BY <1>1
  <2>2. b = SubSeq(s, m, last)
    OBVIOUS
  <2> HIDE DEF m, last, b
  <2>3. /\ SubSeq(s, m, last) \in Seq(S) /\ Len(SubSeq(s, m, last)) = last - m + 1
        /\ \A i \in 1 .. last - m + 1 : SubSeq(s, m, last)[i] = s[m + i - 1]
    BY <2>1, Chunk
  <2> QED BY <2>1, <2>2, <2>3
<1> HIDE DEF a, b
<1>4. DOMAIN a = 1 .. n /\ DOMAIN b = 1 .. Len(s) - n
  BY <1>1, <1>2, <1>3
<1>5. ASSUME NEW i \in DOMAIN s PROVE s[i] \in Content(a) \cup Content(b)
  <2>1. CASE i <= n
    <3>1. i \in DOMAIN a /\ a[i] = s[i]
      BY <1>1, <1>2, <1>4, <2>1
    <3> QED BY <3>1 DEF Content
  <2>2. CASE n < i
    <3>1. i - n \in DOMAIN b /\ b[i - n] = s[i]
      BY <1>1, <1>3, <1>4, <2>2
    <3> QED BY <3>1 DEF Content
  <2> QED BY <1>1, <2>1, <2>2
<1>6. ASSUME NEW i \in DOMAIN a PROVE a[i] \in Content(s)
  <2>1. i \in DOMAIN s /\ a[i] = s[i]
    BY <1>1, <1>2, <1>4
  <2> QED BY <2>1 DEF Content
<1>7. ASSUME NEW i \in DOMAIN b PROVE b[i] \in Content(s)
  <2>1. i + n \in DOMAIN s /\ b[i] = s[i + n]
    BY <1>1, <1>3, <1>4
  <2> QED BY <2>1 DEF Content
<1> QED BY <1>2, <1>3, <1>5, <1>6, <1>7 DEF Content, a, b

-----------------------------------------------------------------------------
(* Types. *)

KnownType == [pids : SUBSET Processes, completed : BOOLEAN,
              error : {"", "malformed"} \cup Codes, malformed : BOOLEAN]

(* What handling a line does to each part of what is known.                *)
LEMMA Handled ==
  ASSUME NEW state \in KnownType, NEW line \in Lines
  PROVE  LET after == Handle(state, line)
         IN  /\ after \in KnownType
             /\ after.pids = state.pids \cup (IF line \in Processes THEN {line} ELSE {})
             /\ after.completed <=> state.completed \/ line \in Texts
             /\ after.error \in Codes => (line \in Codes /\ after.error = line) \/ state.error \in Codes
             /\ after.malformed <=> state.malformed \/ line = "piece"
<1>1. CASE line \in Processes
  <2>1. Handle(state, line) = [state EXCEPT !.pids = @ \cup {line}]
    BY <1>1 DEF Handle
  <2> QED BY <1>1, <2>1 DEF KnownType, Processes, Texts
<1>2. CASE line \in Codes
  <2>1. Handle(state, line) = [state EXCEPT !.error = line]
    BY <1>2 DEF Handle, Processes, Codes
  <2> QED BY <1>2, <2>1 DEF KnownType, Processes, Codes, Texts
<1>3. CASE line = "piece"
  <2>1. Handle(state, line) = [state EXCEPT !.malformed = TRUE,
                                            !.error = IF @ = "" THEN "malformed" ELSE @]
    BY <1>3 DEF Handle, Processes, Codes
  <2> QED BY <1>3, <2>1 DEF KnownType, Processes, Codes, Texts
<1>4. CASE line = "message"
  <2>1. Handle(state, line) = state
    BY <1>4 DEF Handle, Processes, Codes
  <2> QED BY <1>4, <2>1 DEF KnownType, Processes, Codes, Texts
<1>5. CASE line \in Texts
  <2>1. Handle(state, line) = [state EXCEPT !.completed = TRUE]
    BY <1>5 DEF Handle, Processes, Codes, Texts
  <2> QED BY <1>5, <2>1 DEF KnownType, Processes, Codes, Texts
<1> QED BY <1>1, <1>2, <1>3, <1>4, <1>5 DEF Lines, Spoken, Texts

USE ReconnectAssumption

(* The type invariant by the parts of the state.                           *)
SupervisorTypes ==
  /\ supervisor \in {"request", "poll", "clock", "select", "readline", "terminate", "grace",
                     "drain", "sweep", "done"}
  /\ request \in {"small", "large", "sent"} /\ expired \in BOOLEAN /\ timed_out \in BOOLEAN /\ raised \in BOOLEAN
  /\ buffer \in Seq(Lines) /\ known \in KnownType
  /\ result \in {"none", "raised", "timeout", "error", "completed"}
RequestTypes ==
  /\ worker \in Steps \cup Gone /\ fate \in {"none"} \cup Codes \cup Done
  /\ cancelled \in BOOLEAN /\ turnStarted \in BOOLEAN
PipeTypes == pipe \in Seq(Lines) /\ writing \in BOOLEAN /\ raw \subseteq Spoken
StreamTypes ==
  /\ queue \in Seq(Events)
  /\ stream \in {"none", "open", "dropped", "closed"} /\ attempt \in 0 .. MaxReconnects + 1
ProcessTypes ==
  /\ process \in [Processes -> {"none", "up", "dead"}]
  /\ announced \subseteq Processes /\ sandboxed \in BOOLEAN
SessionTypes == session \in Sessions /\ worked \in BOOLEAN

LEMMA TypeParts ==
  RunnerTypeOK <=> /\ SupervisorTypes /\ RequestTypes /\ PipeTypes
                   /\ StreamTypes /\ ProcessTypes /\ SessionTypes
  BY DEF RunnerTypeOK, SupervisorTypes, RequestTypes, PipeTypes, StreamTypes, ProcessTypes,
         SessionTypes, KnownType, Events

LEMMA TypePartsAfter ==
  RunnerTypeOK' <=> /\ SupervisorTypes' /\ RequestTypes' /\ PipeTypes'
                    /\ StreamTypes' /\ ProcessTypes' /\ SessionTypes'
  BY DEF RunnerTypeOK, SupervisorTypes, RequestTypes, PipeTypes, StreamTypes, ProcessTypes,
         SessionTypes, KnownType, Events

LEMMA Frame ==
  /\ SupervisorTypes /\ UNCHANGED supervising => SupervisorTypes'
  /\ RequestTypes /\ UNCHANGED requesting => RequestTypes'
  /\ PipeTypes /\ UNCHANGED output => PipeTypes'
  /\ StreamTypes /\ UNCHANGED streaming => StreamTypes'
  /\ ProcessTypes /\ UNCHANGED processes => ProcessTypes'
  /\ SessionTypes /\ UNCHANGED conversation => SessionTypes'
<1>1. SupervisorTypes /\ UNCHANGED supervising => SupervisorTypes'
  BY DEF SupervisorTypes, supervising
<1>2. RequestTypes /\ UNCHANGED requesting => RequestTypes'
  BY DEF RequestTypes, requesting
<1>3. PipeTypes /\ UNCHANGED output => PipeTypes'
  BY DEF PipeTypes, output
<1>4. StreamTypes /\ UNCHANGED streaming => StreamTypes'
  BY DEF StreamTypes, streaming
<1>5. ProcessTypes /\ UNCHANGED processes => ProcessTypes'
  BY DEF ProcessTypes, processes
<1>6. SessionTypes /\ UNCHANGED conversation => SessionTypes'
  BY DEF SessionTypes, conversation
<1> QED BY <1>1, <1>2, <1>3, <1>4, <1>5, <1>6

(* What a step of the worker does to its own variables.                    *)
LEMMA RequestMoves ==
  ASSUME RequestTypes
  PROVE  /\ \A step \in Steps \cup Gone : Goes(step) => RequestTypes'
         /\ \A code \in Codes \cup Done : Ends(code) => RequestTypes'
  BY DEF RequestTypes, Goes, Ends, Steps

LEMMA Members ==
  /\ Processes = {"bridge", "server"} /\ Processes \subseteq Lines /\ Codes \subseteq Lines
  /\ Texts \subseteq Lines /\ Texts \subseteq Spoken /\ Spoken \subseteq Lines
  /\ "message" \in Spoken /\ "piece" \in Lines
  /\ "context_exhausted" \in Done /\ "complete" \in Done
  /\ {"retryable", "fatal", "worker_timeout"} \subseteq Codes
  /\ {"start", "read", "spawn bridge", "announce bridge", "announce server", "await bridge",
      "await server", "verify", "connect", "spawn server", "create", "prompt", "running",
      "fetch", "answer", "teardown", "stop server", "stop bridge", "report"} \subseteq Steps
  /\ "exited" \in Gone /\ "killed" \in Gone
  BY DEF Processes, Lines, Codes, Texts, Done, Steps, Gone, Spoken

LEMMA Emitted ==
  ASSUME PipeTypes, NEW line \in Lines, Emit(line)
  PROVE  PipeTypes'
  BY ContentAppend DEF PipeTypes, Emit

LEMMA Spoke ==
  ASSUME PipeTypes, NEW line \in Spoken, Speak(line)
  PROVE  PipeTypes'
<1>1. line \in Lines
  BY Members
<1>2. Append(pipe, line) \in Seq(Lines)
  BY <1>1, ContentAppend DEF PipeTypes
<1> QED BY <1>2 DEF PipeTypes, Speak

LEMMA WorkerTypes ==
  ASSUME RunnerTypeOK, RequestFacts, WorkerStep
  PROVE  RunnerTypeOK'
<1> USE TypeParts, TypePartsAfter, Frame, RequestMoves, Members
<1>1. CASE \E p \in Processes : Spawn(p)
  <2>1. ProcessTypes' /\ RequestTypes'
    BY <1>1 DEF Spawn, ProcessTypes
  <2> QED BY <1>1, <2>1 DEF Spawn
<1>2. CASE \E p \in Processes : Announce(p)
  <2>1. PipeTypes'
    BY <1>2, Emitted DEF Announce
  <2>2. ProcessTypes' /\ RequestTypes'
    BY <1>2 DEF Announce, ProcessTypes
  <2> QED BY <1>2, <2>1, <2>2 DEF Announce
<1>3. CASE \E p \in Processes : Await(p)
  BY <1>3 DEF Await
<1>4. CASE \E p \in Processes : Stop(p)
  <2>1. ProcessTypes' /\ RequestTypes'
    BY <1>4 DEF Stop, ProcessTypes
  <2> QED BY <1>4, <2>1 DEF Stop
<1>5. CASE Verify
  BY <1>5 DEF Verify
<1>6. CASE Connect
  <2>1. StreamTypes'
    BY <1>6 DEF Connect, StreamTypes
  <2> QED BY <1>6, <2>1 DEF Connect
<1>7. CASE CreateSession
  <2>1. SessionTypes'
    BY <1>7 DEF CreateSession, SessionTypes, Sessions
  <2> QED BY <1>7, <2>1 DEF CreateSession
<1>8. CASE Prompt
  <2>1. SessionTypes' /\ RequestTypes'
    BY <1>8 DEF Prompt, SessionTypes, Sessions, RequestTypes, Goes
  <2> QED BY <1>8, <2>1 DEF Prompt
<1>9. CASE Observe
  <2>1. StreamTypes'
    BY <1>9, ContentTail DEF Observe, StreamTypes
  <2>2. Head(queue) \in Events
    BY <1>9, ContentTail DEF Observe, StreamTypes
  <2>3. PipeTypes'
    BY <1>9, <2>2, Spoke, Emitted DEF Observe, Texts, Events
  <2>4. RequestTypes'
    BY <1>9, <2>2 DEF Observe, RequestTypes, Goes, Ends, Events
  <2> QED BY <1>9, <2>1, <2>3, <2>4 DEF Observe
<1>10. CASE ClosedStream \/ Deadline \/ Cancel \/ Teardown
  BY <1>10 DEF ClosedStream, Deadline, Cancel, Teardown
<1>11. CASE Boot \/ ReadRequest \/ FetchMessages
  BY <1>11 DEF Boot, ReadRequest, FetchMessages
<1>12. CASE Report
  <2>1. PipeTypes'
    BY <1>12, Emitted DEF Report
  <2> QED BY <1>12, <2>1 DEF Report
<1>13. CASE Answer
  <2>1. PipeTypes'
    BY <1>13, Spoke DEF Answer, Texts
  <2> QED BY <1>13, <2>1 DEF Answer
<1>14. CASE BeginLine
  <2>1. PipeTypes'
    BY <1>14, ContentAppend DEF BeginLine, PipeTypes
  <2> QED BY <1>14, <2>1 DEF BeginLine
<1> QED BY <1>1, <1>2, <1>3, <1>4, <1>5, <1>6, <1>7, <1>8, <1>9, <1>10, <1>11, <1>12, <1>13,
           <1>14 DEF WorkerStep

LEMMA EnvironmentTypes ==
  ASSUME RunnerTypeOK, RequestFacts, Environment
  PROVE  RunnerTypeOK'
<1> USE TypeParts, TypePartsAfter, Frame
<1>1. ASSUME NEW e \in Events, Deliver(e), StreamTypes, UNCHANGED <<stream, attempt>>
      PROVE  StreamTypes'
  BY <1>1, ContentAppend DEF Deliver, StreamTypes
<1>2. CASE SessionBusy
  <2>1. StreamTypes' /\ SessionTypes'
    BY <1>1, <1>2 DEF SessionBusy, SessionTypes, Sessions, Events
  <2> QED BY <1>2, <2>1 DEF SessionBusy
<1>3. CASE \E e \in {"idle", "error", "overflow"} : SessionEnds(e)
  <2>1. StreamTypes' /\ SessionTypes'
    BY <1>1, <1>3 DEF SessionEnds, SessionTypes, Sessions, Events
  <2> QED BY <1>3, <2>1 DEF SessionEnds
<1>4. CASE Drop \/ Reconnect
  <2>1. StreamTypes'
    BY <1>4 DEF Drop, Reconnect, StreamTypes, RequestFacts
  <2> QED BY <1>4, <2>1 DEF Drop, Reconnect
<1>5. CASE ServerCrashes \/ \E p \in Processes : Orphaned(p)
  <2>1. ProcessTypes'
    BY <1>5 DEF ServerCrashes, Orphaned, ProcessTypes
  <2> QED BY <1>5, <2>1 DEF ServerCrashes, Orphaned
<1>6. CASE WorkerCrashes
  <2>1. RequestTypes'
    BY <1>6 DEF WorkerCrashes, RequestTypes, Gone
  <2> QED BY <1>6, <2>1 DEF WorkerCrashes
<1> QED BY <1>2, <1>3, <1>4, <1>5, <1>6 DEF Environment

LEMMA SupervisorTypesKept ==
  ASSUME RunnerTypeOK, SupervisorStep \/ DeadlinePasses \/ Raise
  PROVE  RunnerTypeOK'
<1> USE TypeParts, TypePartsAfter, Frame
<1>0. /\ buffer \in Seq(Lines) /\ pipe \in Seq(Lines) /\ known \in KnownType
      /\ writing \in BOOLEAN /\ raw \subseteq Spoken
  BY DEF SupervisorTypes, PipeTypes
<1>1. CASE SendRequest \/ Poll \/ Clock \/ Select \/ DeadlinePasses \/ Raise
  <2>1. SupervisorTypes' /\ UNCHANGED pipe /\ Keeps
    BY <1>1 DEF SendRequest, Poll, Clock, Select, DeadlinePasses, Raise, SupervisorTypes
  <2> QED BY <2>1 DEF Keeps, output
<1>2. CASE Fill \/ Join \/ ReadLine \/ Drain
  <2>1. buffer' \in Seq(Lines) /\ pipe' \in Seq(Lines) /\ known' \in KnownType
    <3>1. CASE Fill
      <4>1. PICK n \in 1 .. Len(pipe) :
              /\ buffer' = buffer \o SubSeq(pipe, 1, n)
              /\ pipe' = SubSeq(pipe, n + 1, Len(pipe))
        BY <3>1 DEF Fill
      <4>2. /\ pipe # <<>> /\ known' = known
            /\ SubSeq(pipe, 1, n) \in Seq(Lines) /\ SubSeq(pipe, n + 1, Len(pipe)) \in Seq(Lines)
        BY <1>0, <3>1, ContentChunk DEF Fill
      <4> QED BY <1>0, <4>1, <4>2, ContentConcat
    <3>2. CASE Join
      <4>1. buffer # <<>>
        BY <1>0, <3>2 DEF Join, Joins
      <4> QED BY <1>0, <3>2, <4>1, ContentTail DEF Join
    <3>3. CASE ReadLine /\ buffer = <<>>
      BY <1>0, <3>3 DEF ReadLine
    <3>4. CASE ReadLine /\ buffer # <<>>
      <4>1. Head(buffer) \in Lines /\ Tail(buffer) \in Seq(Lines)
        BY <1>0, <3>4, ContentTail
      <4> QED BY <1>0, <3>4, <4>1, Handled DEF ReadLine
    <3>5. CASE Drain /\ pipe # <<>>
      <4>1. buffer \o pipe \in Seq(Lines) /\ <<>> \in Seq(Lines)
        BY <1>0, ContentConcat
      <4> QED BY <1>0, <3>5, <4>1 DEF Drain
    <3>6. CASE Drain /\ pipe = <<>> /\ buffer # <<>>
      <4>1. Head(buffer) \in Lines /\ Tail(buffer) \in Seq(Lines)
        BY <1>0, <3>6, ContentTail
      <4> DEFINE line == IF Head(buffer) \in raw THEN "piece" ELSE Head(buffer)
      <4>2. line \in Lines
        BY <4>1, Members
      <4>3. known' = Handle(known, line) /\ buffer' = Tail(buffer) /\ pipe' = pipe
        BY <3>6 DEF Drain
      <4> HIDE DEF line
      <4> QED BY <1>0, <4>1, <4>2, <4>3, Handled
    <3>7. CASE Drain /\ pipe = <<>> /\ buffer = <<>>
      BY <1>0, <3>7 DEF Drain
    <3> QED BY <1>2, <3>1, <3>2, <3>3, <3>4, <3>5, <3>6, <3>7
  <2>2. /\ supervisor' \in {"poll", "sweep", supervisor} /\ Keeps
        /\ UNCHANGED <<request, expired, timed_out, raised, result>>
    BY <1>2 DEF Fill, Join, ReadLine, Drain
  <2>3. SupervisorTypes' /\ PipeTypes'
    BY <2>1, <2>2 DEF SupervisorTypes, PipeTypes, Keeps
  <2> QED BY <2>2, <2>3 DEF Keeps
<1>3. CASE Terminate
  <2>1. SupervisorTypes' /\ RequestTypes'
    BY <1>3 DEF Terminate, SupervisorTypes, RequestTypes
  <2> QED BY <1>3, <2>1 DEF Terminate
<1>4. CASE Grace
  <2>1. SupervisorTypes' /\ RequestTypes'
    BY <1>4 DEF Grace, SupervisorTypes, RequestTypes, Gone
  <2> QED BY <1>4, <2>1 DEF Grace
<1>6. CASE Sweep
  <2>1. SupervisorTypes' /\ ProcessTypes'
    BY <1>6 DEF Sweep, Killed, SupervisorTypes, ProcessTypes, Outcome
  <2> QED BY <1>6, <2>1 DEF Sweep
<1> QED BY <1>1, <1>2, <1>3, <1>4, <1>6 DEF SupervisorStep

LEMMA Types ==
  ASSUME RunnerTypeOK, RequestFacts, [RunnerNext]_runnerVars
  PROVE  RunnerTypeOK'
<1>1. CASE UNCHANGED runnerVars
  BY <1>1, TypeParts, TypePartsAfter, Frame
     DEF runnerVars, supervising, requesting, output, streaming, processes, conversation
<1> QED BY <1>1, WorkerTypes, EnvironmentTypes, SupervisorTypesKept DEF RunnerNext

-----------------------------------------------------------------------------
(* The request.                                                            *)

LEMMA Queued ==
  ASSUME RunnerTypeOK, QueueTells, queue # <<>>
  PROVE  /\ Head(queue) \in Events
         /\ Head(queue) \in {"idle", "overflow"} => session = Head(queue)
         /\ queue' = Tail(queue) /\ UNCHANGED session => QueueTells'
  BY TypeParts, ContentTail DEF StreamTypes, QueueTells

LEMMA Delivered ==
  ASSUME RunnerTypeOK, QueueTells, session \notin {"idle", "overflow"},
         NEW event \in Events, Deliver(event), session' = event
  PROVE  QueueTells'
  BY TypeParts, ContentAppend DEF StreamTypes, QueueTells, Deliver

LEMMA WorkerRequest ==
  ASSUME RunnerTypeOK, RequestFacts, WorkerStep
  PROVE  RequestFacts'
<1> USE DEF RequestFacts, Early, Late, Gone
<1>1. CASE \E p \in Processes : Spawn(p) \/ Announce(p)
  BY <1>1 DEF Spawn, Announce, Goes, Processes, streaming, conversation, QueueTells
<1>2. CASE \E p \in Processes : Await(p)
  BY <1>2 DEF Await, Goes, Ends, Processes, streaming, conversation, QueueTells
<1>3. CASE \E p \in Processes : Stop(p)
  BY <1>3 DEF Stop, Goes, Processes, streaming, conversation, QueueTells
<1>4. CASE Verify
  BY <1>4 DEF Verify, Goes, Ends, streaming, conversation, QueueTells
<1>5. CASE Connect
  BY <1>5 DEF Connect, Goes, Ends, conversation, QueueTells
<1>6. CASE CreateSession
  BY <1>6 DEF CreateSession, Goes, Ends, streaming, QueueTells
<1>7. CASE Prompt
  BY <1>7 DEF Prompt, Goes, streaming, QueueTells
<1>8. CASE Observe
  <2>1. QueueTells' /\ Head(queue) \in Events /\ UNCHANGED <<session, stream, attempt>>
        /\ (Head(queue) \in {"idle", "overflow"} => session = Head(queue))
    BY <1>8, Queued DEF Observe, conversation
  <2> HIDE DEF QueueTells
  <2> QED BY <1>8, <2>1 DEF Observe, Goes, Ends, Events
<1>9. CASE ClosedStream \/ Deadline \/ Cancel \/ Teardown
  BY <1>9 DEF ClosedStream, Deadline, Cancel, Teardown, Goes, Ends, streaming, conversation,
     QueueTells
<1>10. CASE FetchMessages \/ Answer
  BY <1>10 DEF FetchMessages, Answer, Goes, Ends, streaming, conversation, QueueTells
<1>11. CASE Report
  BY <1>11 DEF Report, Goes, streaming, conversation, QueueTells
<1>12. CASE Boot \/ ReadRequest
  BY <1>12 DEF Boot, ReadRequest, Goes, Ends, streaming, conversation, QueueTells
<1>13. CASE BeginLine
  BY <1>13 DEF BeginLine, requesting, streaming, conversation, QueueTells
<1> QED BY <1>1, <1>2, <1>3, <1>4, <1>5, <1>6, <1>7, <1>8, <1>9, <1>10, <1>11, <1>12, <1>13
        DEF WorkerStep

LEMMA Attempts ==
  ASSUME RunnerTypeOK, stream # "closed" => attempt <= MaxReconnects, Drop \/ Reconnect
  PROVE  stream \in {"open", "dropped"} /\ (stream' # "closed" => attempt' <= MaxReconnects)
<1>1. attempt \in Nat
  BY TypeParts DEF StreamTypes
<1>2. CASE Drop
  BY <1>1, <1>2 DEF Drop
<1>3. CASE Reconnect
  BY <1>1, <1>3 DEF Reconnect
<1> QED BY <1>2, <1>3

LEMMA EnvironmentRequest ==
  ASSUME RunnerTypeOK, RequestFacts, Environment
  PROVE  RequestFacts'
<1> USE DEF RequestFacts, Early, Late, Gone
<1>1. CASE SessionBusy
  <2>1. QueueTells'
    BY <1>1, Delivered DEF SessionBusy, Events
  <2> QED BY <1>1, <2>1 DEF SessionBusy, requesting
<1>2. CASE \E e \in {"idle", "error", "overflow"} : SessionEnds(e)
  <2>1. QueueTells'
    BY <1>2, Delivered DEF SessionEnds, Events
  <2> QED BY <1>2, <2>1 DEF SessionEnds, requesting
<1>3. CASE Drop \/ Reconnect
  <2>2. stream \in {"open", "dropped"} /\ (stream' # "closed" => attempt' <= MaxReconnects)
    BY <1>3, Attempts
  <2>3. UNCHANGED <<requesting, queue, conversation>>
    BY <1>3 DEF Drop, Reconnect
  <2> QED BY <2>2, <2>3 DEF requesting, conversation, QueueTells
<1>4. CASE ServerCrashes \/ \E p \in Processes : Orphaned(p)
  BY <1>4 DEF ServerCrashes, Orphaned, requesting, streaming, conversation, QueueTells
<1>5. CASE WorkerCrashes
  BY <1>5 DEF WorkerCrashes, streaming, conversation, QueueTells
<1> QED BY <1>1, <1>2, <1>3, <1>4, <1>5 DEF Environment

LEMMA SupervisorRequest ==
  ASSUME RunnerTypeOK, RequestFacts, SupervisorStep \/ DeadlinePasses \/ Raise
  PROVE  RequestFacts'
<1>1. CASE Grace
  BY <1>1 DEF Grace, RequestFacts, Early, Late, Gone, streaming, conversation, QueueTells
<1>2. CASE Terminate
  BY <1>2 DEF Terminate, RequestFacts, streaming, conversation, QueueTells
<1>3. CASE \/ SendRequest \/ Poll \/ Clock \/ Select \/ Fill \/ Join \/ ReadLine
           \/ Drain \/ Sweep \/ DeadlinePasses \/ Raise
  <2>1. UNCHANGED <<requesting, streaming, conversation>>
    BY <1>3 DEF SendRequest, Poll, Clock, Select, Fill, Join, ReadLine, Drain, Sweep,
       DeadlinePasses, Raise, Keeps
  <2> QED BY <2>1 DEF RequestFacts, QueueTells, requesting, streaming, conversation
<1> QED BY <1>1, <1>2, <1>3 DEF SupervisorStep

LEMMA RequestHolds ==
  ASSUME RunnerTypeOK, RequestFacts, [RunnerNext]_runnerVars
  PROVE  RequestFacts'
<1>1. CASE UNCHANGED runnerVars
  BY <1>1 DEF runnerVars, RequestFacts, QueueTells, requesting, streaming, conversation
<1> QED BY <1>1, WorkerRequest, EnvironmentRequest, SupervisorRequest DEF RunnerNext

-----------------------------------------------------------------------------
(* The lines.                                                              *)

(* A line of the worker: nothing is handled, and the line is on its way.   *)
LEMMA Emits ==
  ASSUME RunnerTypeOK, NEW line \in Lines, pipe' = Append(pipe, line), UNCHANGED supervising
  PROVE  Pending' = Pending \cup {line} /\ known' = known
  BY TypeParts, ContentAppend DEF PipeTypes, Pending, Content, supervising

LEMMA Quiet ==
  ASSUME UNCHANGED <<buffer, known, pipe>>
  PROVE  Pending' = Pending /\ known' = known
  BY DEF Pending, Content

(* The supervisor handles one of the lines on their way, or a text of them *)
(* as a piece once the worker is gone; or it only reads on.                *)
LEMMA Takes ==
  ASSUME RunnerTypeOK, EndFacts, Fill \/ Join \/ ReadLine \/ Drain
  PROVE  \/ /\ known' = known
            /\ Pending = Pending' \/ Pending = Pending' \cup {"piece"}
         \/ \E line, handled \in Lines :
              /\ Pending = Pending' \cup {line} /\ known' = Handle(known, handled)
              /\ handled = line \/ (handled = "piece" /\ line \in Spoken)
              /\ handled = "piece" => worker \in Gone
<1>1. /\ buffer \in Seq(Lines) /\ pipe \in Seq(Lines) /\ known \in KnownType
      /\ raw \subseteq Spoken
  BY TypeParts DEF SupervisorTypes, PipeTypes
<1>2. Content(<<>>) = {}
  BY DEF Content
<1>3. ASSUME buffer # <<>>
      PROVE  /\ Head(buffer) \in Lines
             /\ buffer' = Tail(buffer) /\ UNCHANGED pipe => Pending = Pending' \cup {Head(buffer)}
  <2>1. Head(buffer) \in Lines /\ Content(buffer) = {Head(buffer)} \cup Content(Tail(buffer))
    BY <1>1, <1>3, ContentTail
  <2> QED BY <2>1 DEF Pending, Content
<1>4. CASE Fill
  <2>1. PICK n \in 1 .. Len(pipe) :
          /\ buffer' = buffer \o SubSeq(pipe, 1, n)
          /\ pipe' = SubSeq(pipe, n + 1, Len(pipe))
    BY <1>4 DEF Fill
  <2> DEFINE a == SubSeq(pipe, 1, n)
             b == SubSeq(pipe, n + 1, Len(pipe))
  <2>2. a \in Seq(Lines) /\ b \in Seq(Lines) /\ Content(pipe) = Content(a) \cup Content(b)
    BY <1>1, <1>4, ContentChunk DEF Fill
  <2>3. buffer' = buffer \o a /\ pipe' = b
    BY <2>1
  <2> HIDE DEF a, b
  <2>4. Content(buffer \o a) = Content(buffer) \cup Content(a)
    BY <1>1, <2>2, ContentConcat
  <2>5. Pending' = Content(buffer \o a) \cup Content(b)
    BY <2>3 DEF Pending, Content
  <2>6. Pending' = Pending
    BY <2>2, <2>4, <2>5 DEF Pending
  <2> QED BY <1>4, <2>6 DEF Fill
<1>5. CASE Join
  <2>1. buffer # <<>> /\ Head(buffer) = "piece"
    BY <1>1, <1>5 DEF Join, Joins
  <2> QED BY <1>3, <1>5, <2>1 DEF Join
<1>6. CASE ReadLine
  <2>1. CASE buffer = <<>>
    BY <1>6, <2>1, Quiet DEF ReadLine
  <2>2. CASE buffer # <<>>
    <3>1. /\ known' = Handle(known, Head(buffer)) /\ Pending = Pending' \cup {Head(buffer)}
          /\ Head(buffer) \in Lines /\ (Head(buffer) = "piece" => worker \in Gone)
      BY <1>3, <1>6, <2>2 DEF ReadLine
    <3> QED BY <3>1
  <2> QED BY <2>1, <2>2
<1>7. CASE Drain
  <2>0. worker \in Gone
    BY <1>7 DEF Drain, EndFacts
  <2>1. CASE pipe # <<>>
    <3>1. buffer' = buffer \o pipe /\ pipe' = <<>> /\ known' = known
      BY <1>7, <2>1 DEF Drain
    <3>2. Content(buffer \o pipe) = Pending
      BY <1>1, ContentConcat DEF Pending
    <3>3. Pending' = Content(buffer \o pipe) \cup Content(<<>>)
      BY <3>1 DEF Pending, Content
    <3> QED BY <1>2, <3>1, <3>2, <3>3
  <2>2. CASE pipe = <<>> /\ buffer # <<>>
    <3> DEFINE handled == IF Head(buffer) \in raw THEN "piece" ELSE Head(buffer)
    <3>1. /\ known' = Handle(known, handled) /\ Pending = Pending' \cup {Head(buffer)}
          /\ Head(buffer) \in Lines
      BY <1>3, <1>7, <2>2 DEF Drain
    <3>2. handled \in Lines /\ (handled = Head(buffer) \/ (handled = "piece" /\ Head(buffer) \in Spoken))
      BY <1>1, <3>1, Members
    <3> HIDE DEF handled
    <3> QED BY <2>0, <3>1, <3>2
  <2>3. CASE pipe = <<>> /\ buffer = <<>>
    BY <1>7, <2>3, Quiet DEF Drain
  <2> QED BY <2>1, <2>2, <2>3
<1> QED BY <1>4, <1>5, <1>6, <1>7

LEMMA WorkerLines ==
  ASSUME RunnerTypeOK, RequestFacts, LineFacts, WorkerStep
  PROVE  LineFacts'
<1> USE Members DEF LineFacts, Texts, Codes, Done, output
<1>g. worker \notin Gone
  BY DEF WorkerStep, Spawn, Announce, Await, Stop, Boot, ReadRequest, Verify, Connect,
     CreateSession, Prompt, BeginLine, Observe, ClosedStream, Deadline, Cancel, FetchMessages,
     Answer, Teardown, Report, Gone, Processes
<1>m. ~ known.malformed
  BY <1>g
<1> USE <1>m
<1>0. worker \in Steps \ Late => fate = "none"
  BY TypeParts DEF RequestFacts, Steps, Late, Gone
<1>1. CASE \E p \in Processes : Spawn(p)
  BY <1>1, Quiet DEF Spawn, Goes, supervising
<1>2. CASE \E p \in Processes : Announce(p)
  <2>1. PICK p \in Processes : Announce(p)
    BY <1>2
  <2>2. Pending' = Pending \cup {p} /\ known' = known
    BY <2>1, Emits DEF Announce, Emit
  <2> QED BY <2>1, <2>2 DEF Announce, Goes
<1>3. CASE \E p \in Processes : Await(p)
  BY <1>0, <1>3, Quiet DEF Await, Goes, Ends, supervising, processes, Steps, Late
<1>4. CASE \E p \in Processes : Stop(p)
  BY <1>4, Quiet DEF Stop, Goes, supervising
<1>5. CASE Verify \/ Connect \/ CreateSession
  BY <1>0, <1>5, Quiet DEF Verify, Connect, CreateSession, Goes, Ends, supervising, processes,
     Steps, Late
<1>6. CASE Prompt
  BY <1>0, <1>6, Quiet DEF Prompt, Goes, supervising, processes, Steps, Late
<1>7. CASE Observe
  <2>1. Head(queue) \in Events
    BY <1>7, Queued DEF Observe, RequestFacts
  <2>2. CASE Head(queue) = "idle"
    BY <1>7, <2>2, Quiet DEF Observe, Goes, supervising, processes
  <2>5. CASE Head(queue) = "busy"
    <3>1. Pending' = Pending \cup {"message"} /\ known' = known
      BY <1>7, <2>5, Emits DEF Observe, Speak
    <3> QED BY <1>7, <2>5, <3>1 DEF Observe, processes, Processes
  <2>3. CASE Head(queue) = "overflow"
    <3>1. Pending' = Pending \cup {"context_exhausted"} /\ known' = known
      BY <1>7, <2>3, Emits DEF Observe, Speak
    <3> QED BY <1>0, <1>7, <2>3, <3>1 DEF Observe, Ends, processes, Steps, Late
  <2>4. CASE Head(queue) = "error"
    <3>1. Pending' = Pending \cup {"fatal"} /\ known' = known
      BY <1>7, <2>4, Emits DEF Observe, Emit
    <3> QED BY <1>0, <1>7, <2>4, <3>1 DEF Observe, Ends, processes, Steps, Late
  <2> QED BY <2>1, <2>2, <2>3, <2>4, <2>5 DEF Events
<1>8. CASE ClosedStream \/ Deadline \/ Cancel
  BY <1>0, <1>8, Quiet DEF ClosedStream, Deadline, Cancel, Ends, supervising, processes, Steps, Late
<1>9. CASE Teardown
  BY <1>9, Quiet DEF Teardown, Goes, supervising, processes
<1>10. CASE FetchMessages
  BY <1>0, <1>10, Quiet DEF FetchMessages, Goes, Ends, supervising, processes, Steps, Late
<1>11. CASE Answer
  <2>1. Pending' = Pending \cup {"turn_complete"} /\ known' = known
    BY <1>11, Emits DEF Answer, Speak
  <2> QED BY <1>0, <1>11, <2>1 DEF Answer, Ends, processes, Steps, Late
<1>13. CASE Boot \/ ReadRequest
  BY <1>0, <1>13, Quiet DEF Boot, ReadRequest, Goes, Ends, supervising, processes, Steps, Late
<1>14. CASE BeginLine
  <2>1. Pending' = Pending \cup {"piece"} /\ known' = known
    BY <1>14, Emits DEF BeginLine
  <2> QED BY <1>14, <2>1 DEF BeginLine, requesting, processes
<1>12. CASE Report
  <2>1. CASE fate \in Codes
    <3>1. Pending' = Pending \cup {fate} /\ known' = known
      BY <1>12, <2>1, Emits DEF Report, Emit
    <3> QED BY <1>12, <2>1, <3>1 DEF Report, Goes, processes
  <2>2. CASE fate \notin Codes
    BY <1>12, <2>2, Quiet DEF Report, Goes, supervising, processes
  <2> QED BY <2>1, <2>2
<1> QED BY <1>1, <1>2, <1>3, <1>4, <1>5, <1>6, <1>7, <1>8, <1>9, <1>10, <1>11, <1>12, <1>13,
           <1>14 DEF WorkerStep

LEMMA HandledLines ==
  ASSUME RunnerTypeOK, LineFacts, UNCHANGED <<announced, fate, worker>>,
         NEW line \in Lines, NEW handled \in Lines,
         Pending = Pending' \cup {line}, known' = Handle(known, handled),
         handled = line \/ (handled = "piece" /\ line \in Spoken),
         handled = "piece" => worker \in Gone
  PROVE  LineFacts'
<1>1. known \in KnownType /\ announced \subseteq Processes
  BY TypeParts DEF SupervisorTypes, ProcessTypes
<1>2. /\ known'.pids = known.pids \cup (IF handled \in Processes THEN {handled} ELSE {})
      /\ known'.completed <=> known.completed \/ handled \in Texts
      /\ known'.error \in Codes =>
           (handled \in Codes /\ known'.error = handled) \/ known.error \in Codes
      /\ known'.malformed <=> known.malformed \/ handled = "piece"
  BY <1>1, Handled
<1>3. announced \subseteq known'.pids \cup Pending'
  BY <1>1, <1>2 DEF LineFacts, Spoken, Processes
<1>4. Pending' \cap Texts # {} \/ known'.completed => fate \in Done
  BY <1>2 DEF LineFacts, Texts
<1>5. Pending' \cap Codes # {} \/ known'.error \in Codes => fate \in Codes
  BY <1>2 DEF LineFacts, Codes
<1>6. fate \in Done => Pending' \cap Texts # {} \/ known'.completed \/ known'.malformed
  BY <1>2 DEF LineFacts, Texts, Spoken
<1>7. known'.malformed => worker \in Gone
  BY <1>2 DEF LineFacts
<1> QED BY <1>3, <1>4, <1>5, <1>6, <1>7 DEF LineFacts

LEMMA LinesHold ==
  ASSUME RunnerTypeOK, RequestFacts, LineFacts, EndFacts, [RunnerNext]_runnerVars
  PROVE  LineFacts'
<1>1. CASE UNCHANGED <<buffer, known, pipe, announced, fate>> /\ (worker' = worker \/ worker' \in Gone)
  BY <1>1, Quiet DEF LineFacts
<1>2. CASE Environment
  BY <1>1, <1>2 DEF Environment, SessionBusy, SessionEnds, Drop, Reconnect, ServerCrashes,
     WorkerCrashes, Orphaned, supervising, requesting, output, processes, Gone
<1>3. CASE Fill \/ Join \/ ReadLine \/ Drain
  <2>1. UNCHANGED <<announced, fate, worker>>
    BY <1>3 DEF Fill, Join, ReadLine, Drain, Keeps, requesting, processes
  <2>2. CASE known' = known /\ (Pending = Pending' \/ Pending = Pending' \cup {"piece"})
    BY <2>1, <2>2, TypeParts DEF LineFacts, Texts, ProcessTypes, Processes, Codes
  <2> QED BY <1>3, <2>1, <2>2, Takes, HandledLines
<1>4. CASE SendRequest \/ Poll \/ Clock \/ Select \/ Terminate \/ Grace \/ Sweep \/ DeadlinePasses \/ Raise
  BY <1>1, <1>4 DEF SendRequest, Poll, Clock, Select, Terminate, Grace, Sweep, DeadlinePasses,
     Raise, Keeps, requesting, output, processes, Gone
<1>5. CASE UNCHANGED runnerVars
  BY <1>1, <1>5 DEF runnerVars, supervising, requesting, output, processes
<1> QED BY <1>2, <1>3, <1>4, <1>5, WorkerLines DEF RunnerNext, SupervisorStep

-----------------------------------------------------------------------------
(* The end of the attempt.                                                 *)

(* What the result depends on is settled once the supervisor is done.      *)
LEMMA ResultStays ==
  ASSUME RunnerTypeOK, EndFacts, [RunnerNext]_runnerVars, supervisor = "done"
  PROVE  /\ UNCHANGED <<supervisor, timed_out, raised, buffer, known, result, worker, fate, pipe,
                        announced>>
         /\ \A p \in Processes : process'[p] = "up" => process[p] = "up"
<1>0. worker \in Gone
  BY DEF EndFacts
<1>1. CASE WorkerStep
  BY <1>0, <1>1 DEF WorkerStep, Spawn, Announce, Await, Stop, Boot, ReadRequest, Verify, Connect,
     CreateSession, Prompt, BeginLine, Observe, ClosedStream, Deadline, Cancel, FetchMessages,
     Answer, Teardown, Report, Gone, Processes
<1>2. CASE SessionBusy \/ \E e \in {"idle", "error", "overflow"} : SessionEnds(e)
  BY <1>2 DEF SessionBusy, SessionEnds, supervising, requesting, output, processes
<1>3. CASE Drop \/ Reconnect \/ WorkerCrashes
  BY <1>0, <1>3 DEF Drop, Reconnect, WorkerCrashes
<1>4. CASE ServerCrashes \/ \E p \in Processes : Orphaned(p)
  BY <1>4, TypeParts DEF ServerCrashes, Orphaned, supervising, requesting, output, ProcessTypes
<1>5. CASE SupervisorStep \/ DeadlinePasses \/ Raise
  BY <1>5 DEF SupervisorStep, SendRequest, Poll, Clock, Select, Fill, Join, ReadLine, Terminate,
     Grace, Drain, Sweep, DeadlinePasses, Raise
<1>6. CASE UNCHANGED runnerVars
  BY <1>6 DEF runnerVars, supervising, requesting, output, processes
<1> QED BY <1>1, <1>2, <1>3, <1>4, <1>5, <1>6 DEF RunnerNext, Environment

LEMMA EndHolds ==
  ASSUME RunnerTypeOK, LineFacts, EndFacts, [RunnerNext]_runnerVars
  PROVE  EndFacts'
<1> USE DEF EndFacts
<1>1. CASE supervisor = "done"
  BY <1>1, ResultStays, TypeParts DEF Outcome, ReturnCode, ProcessTypes
<1>2. CASE UNCHANGED <<supervisor, raised, buffer, pipe, result, worker>> /\ supervisor # "done"
  BY <1>2
<1>3. CASE WorkerStep /\ supervisor # "done"
  <2>1. worker \notin Gone
    BY <1>3 DEF WorkerStep, Spawn, Announce, Await, Stop, Boot, ReadRequest, Verify, Connect,
       CreateSession, Prompt, BeginLine, Observe, ClosedStream, Deadline, Cancel, FetchMessages,
       Answer, Teardown, Report, Gone, Processes
  <2>2. UNCHANGED supervising
    BY <1>3 DEF WorkerStep, Spawn, Announce, Await, Stop, Boot, ReadRequest, Verify, Connect,
       CreateSession, Prompt, BeginLine, Observe, ClosedStream, Deadline, Cancel, FetchMessages,
       Answer, Teardown, Report
  <2> QED BY <1>3, <2>1, <2>2 DEF supervising
<1>4. CASE Environment /\ supervisor # "done"
  <2>1. UNCHANGED supervising /\ UNCHANGED pipe /\ (worker' = worker \/ worker' \in Gone)
    BY <1>4 DEF Environment, SessionBusy, SessionEnds, Drop, Reconnect, WorkerCrashes,
       ServerCrashes, Orphaned, requesting, output, Gone
  <2> QED BY <1>4, <2>1 DEF supervising
<1>5. CASE \/ SendRequest \/ Poll \/ Clock \/ Select \/ Fill \/ ReadLine
           \/ Terminate \/ Raise \/ DeadlinePasses
  BY <1>5 DEF SendRequest, Poll, Clock, Select, Fill, ReadLine, Terminate, Raise,
     DeadlinePasses, Keeps, requesting
<1>10. CASE Join
  BY <1>10 DEF Join, Keeps, requesting
<1>6. CASE Grace
  BY <1>6 DEF Grace, Gone
<1>7. CASE Drain
  <2>1. worker' \in Gone /\ UNCHANGED <<raised, result>> /\ supervisor' \in {"drain", "sweep"}
        /\ result = "none"
    BY <1>7 DEF Drain, Keeps, requesting
  <2>2. ASSUME supervisor' = "sweep" PROVE buffer' = <<>> /\ pipe' = <<>>
    BY <1>7, <2>2 DEF Drain
  <2> QED BY <2>1, <2>2
<1>8. CASE Sweep
  <2>1. supervisor = "sweep" /\ supervisor' = "done" /\ result' = Outcome
        /\ UNCHANGED <<timed_out, raised, buffer, known, worker, fate, pipe, announced>>
    BY <1>8 DEF Sweep, requesting, output
  <2>2. Outcome' = Outcome
    BY <2>1 DEF Outcome, ReturnCode
  <2>3. ASSUME ~ raised, NEW p \in announced PROVE process'[p] # "up"
    <3>1. Pending = {}
      BY <2>1, <2>3 DEF Pending, Content
    <3>2. p \in known.pids /\ p \in Processes
      BY <2>3, <3>1, TypeParts DEF LineFacts, ProcessTypes
    <3> QED BY <1>8, <3>2 DEF Sweep, Killed
  <2> QED BY <2>1, <2>2, <2>3
<1>9. CASE UNCHANGED runnerVars
  BY <1>1, <1>2, <1>9 DEF runnerVars, supervising, requesting, output
<1> QED BY <1>1, <1>3, <1>4, <1>5, <1>6, <1>7, <1>8, <1>9, <1>10 DEF RunnerNext, SupervisorStep

-----------------------------------------------------------------------------
LEMMA RunnerInductive == RunnerSpec => []RunnerInv
<1>0. 0 <= MaxReconnects /\ 0 \in 0 .. MaxReconnects + 1
  BY ReconnectAssumption
<1>1. RunnerInit => RunnerInv
  <2> SUFFICES ASSUME RunnerInit PROVE RunnerInv
    OBVIOUS
  <2>1. <<>> \in Seq(Lines) /\ <<>> \in Seq(Events) /\ Content(<<>>) = {}
    BY DEF Content
  <2>2. RunnerTypeOK
    <3>1. SupervisorTypes
      BY <2>1 DEF RunnerInit, SupervisorTypes, KnownType, Nothing
    <3>2. RequestTypes /\ PipeTypes
      BY <2>1 DEF RunnerInit, RequestTypes, PipeTypes, Steps
    <3>3. StreamTypes /\ ProcessTypes /\ SessionTypes
      <4>1. process \in [Processes -> {"none", "up", "dead"}]
        BY DEF RunnerInit
      <4>2. stream = "none" /\ attempt = 0 /\ 0 \in 0 .. MaxReconnects + 1
        BY <1>0 DEF RunnerInit
      <4> QED BY <2>1, <4>1, <4>2 DEF RunnerInit, StreamTypes, ProcessTypes, SessionTypes, Sessions
    <3> QED BY <3>1, <3>2, <3>3, TypeParts
  <2>3. RequestFacts
    <3>1. QueueTells
      BY <2>1 DEF RunnerInit, QueueTells
    <3>2. stream = "none" /\ attempt = 0 /\ 0 <= MaxReconnects
      BY <1>0 DEF RunnerInit
    <3>3. /\ worker = "start" /\ fate = "none" /\ session = "none"
      BY DEF RunnerInit
    <3> QED BY <3>1, <3>2, <3>3 DEF RequestFacts, Early, Late
  <2>4. LineFacts
    <3>1. /\ Pending = {} /\ announced = {} /\ fate = "none"
          /\ ~ known.completed /\ known.error = "" /\ ~ known.malformed
      BY <2>1 DEF RunnerInit, Pending, Nothing
    <3> QED BY <3>1 DEF LineFacts, Done, Codes
  <2>5. EndFacts
    BY DEF RunnerInit, EndFacts
  <2> QED BY <2>2, <2>3, <2>4, <2>5 DEF RunnerInv
<1>2. RunnerInv /\ [RunnerNext]_runnerVars => RunnerInv'
  BY Types, RequestHolds, LinesHold, EndHolds DEF RunnerInv
<1> QED BY <1>1, <1>2, PTL DEF RunnerSpec

(* The result of an attempt is that of its session: run_opencode_rollout    *)
(* returns "completed" only for a session that finished its turn or ran out *)
(* of context and whose text was handled; the turn of a worker that exited  *)
(* by itself only becomes a timeout or an error by the supervisor's own     *)
(* deadline or by malformed output, which is never found in what readline   *)
(* takes from a running worker.                                             *)
THEOREM OutcomeIsRight == RunnerSpec => []OutcomeIsTheSessions
<1>1. RunnerInv => OutcomeIsTheSessions
  <2> SUFFICES ASSUME RunnerInv PROVE OutcomeIsTheSessions
    OBVIOUS
  <2> USE DEF RunnerInv
  <2>1. result # "none" => supervisor = "done" /\ result = Outcome
    BY DEF EndFacts
  <2>2. ASSUME result = "completed" PROVE session \in {"idle", "overflow"} /\ known.completed
    <3>1. supervisor = "done" /\ ~ raised /\ fate \in Done /\ ~ known.malformed
      BY <2>1, <2>2 DEF Outcome, ReturnCode
    <3>2. Pending = {}
      BY <3>1 DEF EndFacts, Pending, Content
    <3> QED BY <3>1, <3>2 DEF RequestFacts, LineFacts, Done
  <2>3. ASSUME result \in {"timeout", "error"}, worker = "exited", fate \in Done
        PROVE  timed_out \/ known.malformed
    <3>1. known.error # "worker_timeout"
      BY <2>3 DEF LineFacts, Done, Codes
    <3> QED BY <2>1, <2>3, <3>1 DEF Outcome, ReturnCode
  <2>4. known.malformed => worker \in Gone
    BY DEF LineFacts
  <2> QED BY <2>2, <2>3, <2>4 DEF OutcomeIsTheSessions
<1> QED BY <1>1, RunnerInductive, PTL

(* run_opencode_rollout returns only when no process group that the worker  *)
(* announced still runs.                                                    *)
THEOREM NoneSurvives == RunnerSpec => []NoProcessSurvives
<1>1. RunnerInv => NoProcessSurvives
  BY DEF RunnerInv, EndFacts, NoProcessSurvives, Outcome
<1> QED BY <1>1, RunnerInductive, PTL

-----------------------------------------------------------------------------
(* The spawn_child transaction.                                            *)

USE OwnerAssumption, NoCallAssumption, ReadAssumption

(* A call's record can be told from every other call's. *)
LEMMA SlotFields ==
  ASSUME NEW c \in Calls
  PROVE  Slot(c) \in Slots /\ Slot(c).source = Owner[c] /\ Slot(c).child = c
  BY DEF Slot, Slots

(* Every record in the slots file is the record of the call it names. *)
LEMMA SlotOfChild ==
  ASSUME NEW s \in Slots
  PROVE  s.child \in Calls /\ s = Slot(s.child) /\ s.source = Owner[s.child]
  BY DEF Slot, Slots

LEMMA ReadableSlots ==
  ASSUME TypeOK, NEW list \in Readable
  PROVE  list \in SUBSET Slots /\ (ReadMayFail = FALSE => list = slots)
  BY DEF Readable, TypeOK

LEMMA TypeStep == TypeOK /\ [Next]_vars => TypeOK'
<1> SUFFICES ASSUME TypeOK, [Next]_vars PROVE TypeOK'
  OBVIOUS
<1> USE DEF TypeOK, DirStates, Places, Answers, Faults
<1>1. ASSUME NEW c \in Calls, Precheck(c) PROVE TypeOK'
  BY <1>1 DEF Precheck, Reply, Goto
<1>2. ASSUME NEW c \in Calls, Resolve(c) PROVE TypeOK'
  BY <1>2 DEF Resolve, Reply, Goto
<1>3. ASSUME NEW c \in Calls, Recheck(c) PROVE TypeOK'
  BY <1>3 DEF Recheck, LogOutcome, SetDir, Goto
<1>4. ASSUME NEW c \in Calls, Copy(c) PROVE TypeOK'
  BY <1>4 DEF Copy, Fail, Remove, Reply, SetDir, Goto
<1>5. ASSUME NEW c \in Calls, Revalidate(c) PROVE TypeOK'
  BY <1>5 DEF Revalidate, Fail, Remove, Reply, SetDir, Goto
<1>6. ASSUME NEW c \in Calls, Enter(c) PROVE TypeOK'
  <2>1. PICK list \in Readable :
          /\ seen' = [seen EXCEPT ![c] = list]
          /\ IF HasSlot(list, Owner[c])
               THEN LogOutcome(c, "already") /\ Remove(c) /\ UNCHANGED lock
               ELSE lock' = c /\ Goto(c, "manifest") /\ UNCHANGED <<outcome, dir, fault>>
    BY <1>6 DEF Enter
  <2>2. list \in SUBSET Slots
    BY ReadableSlots
  <2>3. seen' \in [Calls -> SUBSET Slots]
    BY <2>1, <2>2
  <2>4. QED
    BY <1>6, <2>1, <2>3 DEF Enter, LogOutcome, Remove, SetDir, Goto
<1>7. ASSUME NEW c \in Calls, WriteManifest(c) PROVE TypeOK'
  BY <1>7 DEF WriteManifest, Fail, Remove, Reply, SetDir, Goto
<1>8. ASSUME NEW c \in Calls, Publish(c) PROVE TypeOK'
  <2>1. slots' \in SUBSET Slots
    BY <1>8, SlotFields DEF Publish
  <2>2. QED
    BY <1>8, <2>1 DEF Publish, LogOutcome, Fail, Remove, Reply, SetDir, Goto
<1>9. ASSUME NEW c \in Calls, Log(c) PROVE TypeOK'
  BY <1>9 DEF Log, Reply, Goto
<1>10. ASSUME NEW c \in Calls, LockFails(c) \/ Kill(c) PROVE TypeOK'
  BY <1>10 DEF LockFails, Kill, Reply, Goto
<1>11. ASSUME NEW r \in Rollouts, EditWorkspace(r) PROVE TypeOK'
  BY <1>11 DEF EditWorkspace
<1>12. CASE UNCHANGED vars
  BY <1>12 DEF vars
<1>13. QED
  BY <1>1, <1>2, <1>3, <1>4, <1>5, <1>6, <1>7, <1>8, <1>9, <1>10, <1>11, <1>12
  DEF Next, Step

(* The variables of SpawnSlots stay in their types (the state of every     *)
(* handler of utils/child_spawn.py is one of the named places).            *)
THEOREM Typing == Spec => []TypeOK
<1>1. Init => TypeOK
  BY DEF Init, TypeOK, DirStates, Places, Answers, Faults, Slots
<1>2. QED
  BY <1>1, TypeStep, PTL DEF Spec

-----------------------------------------------------------------------------
(* A call whose child could be recorded already has left the transaction,  *)
(* and what it left behind is complete.                                    *)
Settled(s) == dir[s.child] = "complete" /\ pc[s.child] \in {"log", "done"}

(* From the revalidation on the directory holds a good copy. *)
Prepared(c) ==
  /\ pc[c] \in {"lock", "manifest"} => dir[c] = "copied"
  /\ pc[c] = "publish" => dir[c] = "complete"

(* Inductive: what the file holds, and what a handler read and will write  *)
(* back, is settled; a handler about to publish has its manifest.          *)
CompleteInv ==
  /\ TypeOK
  /\ \A s \in slots : Settled(s)
  /\ \A c \in Calls : \A s \in seen[c] : Settled(s)
  /\ \A c \in Calls : Prepared(c)

(* A step of call c moves only c's place and directory, and not once c is  *)
(* settled, so what is settled stays so.                                   *)
LEMMA SettledStable ==
  ASSUME CompleteInv, NEW c \in Calls, Step(c) \/ LockFails(c) \/ Kill(c),
         NEW s \in Slots, Settled(s)
  PROVE  Settled(s)'
<1> USE DEF CompleteInv, TypeOK, Settled
<1>1. s.child \in Calls
  BY SlotOfChild
<1>2. CASE s.child = c
  BY <1>1, <1>2 DEF Step, LockFails, Kill, Precheck, Resolve, Recheck, Copy, Revalidate, Enter,
     WriteManifest, Publish, Log, Reply, Goto
<1>3. CASE s.child # c
  BY <1>1, <1>3 DEF Step, LockFails, Kill, Precheck, Resolve, Recheck, Copy, Revalidate, Enter,
     WriteManifest, Publish, Log, Reply, Goto, SetDir, LogOutcome, Fail, Remove
<1>4. QED
  BY <1>2, <1>3

LEMMA CompleteStep == CompleteInv /\ [Next]_vars => CompleteInv'
<1> SUFFICES ASSUME CompleteInv, [Next]_vars PROVE CompleteInv'
  OBVIOUS
<1>1. TypeOK'
  BY TypeStep DEF CompleteInv
<1>2. ASSUME NEW c \in Calls, Step(c) \/ LockFails(c) \/ Kill(c) PROVE CompleteInv'
  <2>1. \A s \in Slots : Settled(s) => Settled(s)'
    BY <1>2, SettledStable
  <2>2. CASE Publish(c)
    <3>1. slots' \subseteq slots \cup seen[c] \cup {Slot(c)} /\ seen' = seen
      BY <2>2 DEF Publish
    <3>2. slots' = slots \/ Settled(Slot(c))'
      <4>1. CASE slots' = seen[c] \cup {Slot(c)} /\ LogOutcome(c, "spawned") /\ UNCHANGED <<dir, answer>>
        BY <2>2, <4>1, SlotFields DEF Publish, LogOutcome, Goto, CompleteInv, Prepared, TypeOK, Settled
      <4>2. CASE UNCHANGED slots
        BY <4>2
      <4>3. QED
        BY <2>2, <4>1, <4>2 DEF Publish
    <3>3. \A s \in slots' : Settled(s)'
      <4> SUFFICES ASSUME NEW s \in slots' PROVE Settled(s)'
        OBVIOUS
      <4>1. s \in Slots
        BY <1>1 DEF TypeOK
      <4>2. s \in slots \/ s \in seen[c] \/ s = Slot(c)
        BY <3>1
      <4>3. CASE s \in slots \/ s \in seen[c]
        BY <2>1, <4>1, <4>3 DEF CompleteInv
      <4>4. CASE s = Slot(c)
        BY <2>1, <3>2, <4>1, <4>4 DEF CompleteInv
      <4>5. QED
        BY <4>2, <4>3, <4>4
    <3>4. \A d \in Calls : \A s \in seen'[d] : Settled(s)'
      BY <2>1, <3>1 DEF CompleteInv, TypeOK
    <3>5. \A d \in Calls : Prepared(d)'
      BY <2>2 DEF Publish, CompleteInv, Prepared, TypeOK, LogOutcome, Fail, Remove, Reply, SetDir, Goto
    <3>6. QED
      BY <1>1, <3>3, <3>4, <3>5 DEF CompleteInv
  <2>3. CASE Enter(c)
    <3>1. PICK list \in Readable : seen' = [seen EXCEPT ![c] = list]
      BY <2>3 DEF Enter
    <3>2. slots' = slots /\ list \subseteq slots
      BY <2>3, <3>1 DEF Enter, Readable
    <3>3. \A s \in slots' : Settled(s)'
      BY <2>1, <3>2 DEF CompleteInv, TypeOK
    <3>4. \A d \in Calls : \A s \in seen'[d] : Settled(s)'
      BY <2>1, <3>1, <3>2 DEF CompleteInv, TypeOK
    <3>5. \A d \in Calls : Prepared(d)'
      BY <2>3 DEF Enter, CompleteInv, Prepared, TypeOK, LogOutcome, Remove, SetDir, Goto
    <3>6. QED
      BY <1>1, <3>3, <3>4, <3>5 DEF CompleteInv
  <2>4. CASE ~Publish(c) /\ ~Enter(c)
    <3>1. UNCHANGED <<slots, seen>>
      BY <1>2, <2>4 DEF Step, LockFails, Kill, Precheck, Resolve, Recheck, Copy, Revalidate,
         WriteManifest, Log
    <3>2. \A s \in slots' : Settled(s)'
      BY <2>1, <3>1 DEF CompleteInv, TypeOK
    <3>3. \A d \in Calls : \A s \in seen'[d] : Settled(s)'
      BY <2>1, <3>1 DEF CompleteInv, TypeOK
    <3>4. \A d \in Calls : Prepared(d)'
      BY <1>2, <2>4 DEF Step, LockFails, Kill, Precheck, Resolve, Recheck, Copy, Revalidate, WriteManifest,
         Log, CompleteInv, Prepared, TypeOK, LogOutcome, Fail, Remove, Reply, SetDir, Goto
    <3>5. QED
      BY <1>1, <3>2, <3>3, <3>4 DEF CompleteInv
  <2>5. QED
    BY <2>2, <2>3, <2>4
<1>3. ASSUME NEW r \in Rollouts, EditWorkspace(r) PROVE CompleteInv'
  BY <1>1, <1>3 DEF EditWorkspace, CompleteInv, Prepared, Settled
<1>4. CASE UNCHANGED vars
  BY <1>1, <1>4 DEF vars, CompleteInv, Prepared, Settled
<1>5. QED
  BY <1>2, <1>3, <1>4 DEF Next

(* Every recorded child has a copied, validated directory with a manifest, *)
(* whatever the parent does to the source, whichever writes and reads fail,*)
(* and whenever handlers are killed.                                       *)
THEOREM RecordedSlotsAreComplete == Spec => []RecordedSlotComplete
<1>1. Init => CompleteInv
  BY DEF Init, CompleteInv, Prepared, TypeOK, DirStates, Places, Answers, Faults, Slots
<1>2. CompleteInv => RecordedSlotComplete
  BY DEF CompleteInv, RecordedSlotComplete, Settled
<1>3. QED
  BY <1>1, <1>2, CompleteStep, PTL DEF Spec
-----------------------------------------------------------------------------
(* The list a handler read inside the lock, current or lost, names one     *)
(* child per rollout and none of its own rollout.                          *)
Single(list) == \A s, t \in list : s.source = t.source => s = t

SeenInv ==
  \A c \in Calls :
    pc[c] \in Locked => Single(seen[c]) /\ ~HasSlot(seen[c], Owner[c])

SingleInv == TypeOK /\ SeenInv /\ Single(slots)

LEMMA SingleStep == SingleInv /\ [Next]_vars => SingleInv'
<1> SUFFICES ASSUME SingleInv, [Next]_vars PROVE SingleInv'
  OBVIOUS
<1>1. TypeOK'
  BY TypeStep DEF SingleInv
<1> USE DEF SingleInv, SeenInv, TypeOK, Locked
<1>2. ASSUME NEW c \in Calls, Enter(c) PROVE SeenInv' /\ Single(slots')
  <2>1. PICK list \in Readable :
          /\ seen' = [seen EXCEPT ![c] = list]
          /\ IF HasSlot(list, Owner[c])
               THEN LogOutcome(c, "already") /\ Remove(c) /\ UNCHANGED lock
               ELSE lock' = c /\ Goto(c, "manifest") /\ UNCHANGED <<outcome, dir, fault>>
    BY <1>2 DEF Enter
  <2>2. Single(list) /\ slots' = slots
    BY <1>2 DEF Enter, Readable, Single
  <2>3. ASSUME NEW d \in Calls, pc'[d] \in Locked
        PROVE  Single(seen'[d]) /\ ~HasSlot(seen'[d], Owner[d])
    <3>1. CASE d = c
      BY <2>1, <2>2, <2>3, <3>1 DEF LogOutcome, Goto
    <3>2. CASE d # c
      BY <2>1, <2>3, <3>2 DEF LogOutcome, Goto
    <3>3. QED
      BY <3>1, <3>2
  <2>4. QED
    BY <2>2, <2>3
<1>3. ASSUME NEW c \in Calls, Publish(c) PROVE SeenInv' /\ Single(slots')
  <2>1. slots' = seen[c] \cup {Slot(c)} \/ slots' = slots
    BY <1>3 DEF Publish
  <2>2. Single(seen[c]) /\ ~HasSlot(seen[c], Owner[c])
    BY <1>3 DEF Publish
  <2>3. Single(slots')
    BY <2>1, <2>2, SlotFields DEF Single, HasSlot
  <2>4. SeenInv'
    BY <1>3 DEF Publish, LogOutcome, Fail, Remove, Reply, SetDir, Goto
  <2>5. QED
    BY <2>3, <2>4
<1>4. ASSUME NEW c \in Calls, Precheck(c) \/ Resolve(c) \/ Recheck(c) \/ Copy(c)
                              \/ Revalidate(c) \/ WriteManifest(c) \/ Log(c)
                              \/ LockFails(c) \/ Kill(c)
      PROVE  SeenInv' /\ Single(slots')
  <2>1. UNCHANGED <<slots, seen>>
    BY <1>4 DEF LockFails, Kill, Precheck, Resolve, Recheck, Copy, Revalidate, WriteManifest, Log
  <2>2. \A d \in Calls : pc'[d] \in Locked => pc[d] \in Locked
    BY <1>4 DEF LockFails, Kill, Precheck, Resolve, Recheck, Copy, Revalidate, WriteManifest, Log,
       LogOutcome, Fail, Remove, Reply, Goto
  <2>3. QED
    BY <2>1, <2>2
<1>5. ASSUME NEW r \in Rollouts, EditWorkspace(r) PROVE SeenInv' /\ Single(slots')
  BY <1>5 DEF EditWorkspace
<1>6. CASE UNCHANGED vars
  BY <1>6 DEF vars
<1>7. SeenInv' /\ Single(slots')
  BY <1>2, <1>3, <1>4, <1>5, <1>6 DEF Next, Step
<1>8. QED
  BY <1>1, <1>7 DEF SingleInv

(* The slots file never names two children of one source rollout, for any  *)
(* number of parallel calls and whichever reads and writes fail: the look  *)
(* under the lock decides, what it saw is written back with one more, and  *)
(* nobody else writes in between (_record_spawned_child).                  *)
THEOREM AtMostOneChild == Spec => []OneChildPerRollout
<1>1. Init => SingleInv
  BY DEF Init, SingleInv, SeenInv, Single, Locked, TypeOK, DirStates, Places, Answers, Faults, Slots
<1>2. SingleInv => OneChildPerRollout
  BY DEF SingleInv, Single, OneChildPerRollout
<1>3. QED
  BY <1>1, <1>2, SingleStep, PTL DEF Spec
-----------------------------------------------------------------------------
(* From here on the slots file can always be read.  A handler inside the   *)
(* lock then knows the current file and that its rollout is not in it.     *)
LockInv ==
  /\ \A c \in Calls : pc[c] \in Locked <=> lock = c
  /\ \A c \in Calls : pc[c] \in Locked => seen[c] = slots /\ ~HasSlot(slots, Owner[c])

(* What a handler will say, and has said, is what the file shows. *)
Other(c) == \E d \in Calls \ {c} : Slot(d) \in slots /\ Owner[d] = Owner[c]

AnswerInv ==
  \A c \in Calls :
    /\ pc[c] = "log" => outcome[c] # "none"
    /\ pc[c] = "log" /\ outcome[c] = "spawned" => Slot(c) \in slots
    /\ pc[c] = "log" /\ outcome[c] = "already" => Other(c)
    /\ pc[c] # "done" => answer[c] = "none"
    /\ answer[c] = "spawned" => Slot(c) \in slots
    /\ answer[c] = "already" => Other(c)

(* Inductive. *)
OneInv == CompleteInv /\ LockInv /\ OneChildPerRollout

(* Where a handler finds its rollout's slot before it recorded anything,   *)
(* that slot is another call's.                                            *)
LEMMA FoundIsOther ==
  ASSUME CompleteInv, NEW c \in Calls, pc[c] \notin {"log", "done"},
         HasSlot(slots, Owner[c])
  PROVE  Other(c)
<1>1. PICK s \in slots : s.source = Owner[c]
  BY DEF HasSlot
<1>2. s \in Slots
  BY DEF CompleteInv, TypeOK
<1>3. s.child \in Calls /\ s = Slot(s.child) /\ Owner[s.child] = Owner[c]
  BY <1>1, <1>2, SlotOfChild
<1>4. s.child # c
  BY <1>1 DEF CompleteInv, Settled
<1>5. QED
  BY <1>1, <1>3, <1>4 DEF Other

LEMMA NotFound ==
  ASSUME CompleteInv, NEW c \in Calls, ~HasSlot(slots, Owner[c]),
         NEW d \in Calls, Slot(d) \in slots
  PROVE  Owner[d] # Owner[c]
  BY SlotFields DEF HasSlot

(* Only Publish changes the file, and it adds the caller's record. *)
LEMMA SlotsChange ==
  ASSUME OneInv, [Next]_vars
  PROVE  \/ slots' = slots
         \/ \E c \in Calls : /\ pc[c] = "publish" /\ Publish(c)
                             /\ ~HasSlot(slots, Owner[c])
                             /\ slots' = slots \cup {Slot(c)}
<1>1. ASSUME NEW c \in Calls, Publish(c), slots' # slots
      PROVE  /\ pc[c] = "publish"
             /\ ~HasSlot(slots, Owner[c])
             /\ slots' = slots \cup {Slot(c)}
  BY <1>1 DEF OneInv, LockInv, Publish, Locked
<1>2. ASSUME NEW c \in Calls, Step(c) \/ LockFails(c) \/ Kill(c), ~Publish(c) PROVE slots' = slots
  BY <1>2 DEF Step, LockFails, Kill, Precheck, Resolve, Recheck, Copy, Revalidate, Enter,
     WriteManifest, Log
<1>3. ASSUME NEW r \in Rollouts, EditWorkspace(r) PROVE slots' = slots
  BY <1>3 DEF EditWorkspace
<1>4. CASE UNCHANGED vars
  BY <1>4 DEF vars
<1>5. QED
  BY <1>1, <1>2, <1>3, <1>4 DEF Next

LEMMA OneStep ==
  ASSUME ReadMayFail = FALSE
  PROVE  OneInv /\ [Next]_vars => OneInv'
<1> SUFFICES ASSUME OneInv, [Next]_vars PROVE OneInv'
  OBVIOUS
<1>1. CompleteInv'
  BY CompleteStep DEF OneInv
<1>2. OneChildPerRollout'
  <2>1. CASE slots' = slots
    BY <2>1 DEF OneInv, OneChildPerRollout
  <2>2. ASSUME NEW c \in Calls, ~HasSlot(slots, Owner[c]), slots' = slots \cup {Slot(c)}
        PROVE  OneChildPerRollout'
    BY <2>2, SlotFields DEF OneInv, OneChildPerRollout, HasSlot
  <2>3. QED
    BY <2>1, <2>2, SlotsChange
<1>3. LockInv'
  <2> USE DEF OneInv, CompleteInv, TypeOK, LockInv, Locked, Places
  <2>1. ASSUME NEW c \in Calls, Enter(c) PROVE LockInv'
    <3>1. PICK list \in Readable :
            /\ seen' = [seen EXCEPT ![c] = list]
            /\ IF HasSlot(list, Owner[c])
                 THEN LogOutcome(c, "already") /\ Remove(c) /\ UNCHANGED lock
                 ELSE lock' = c /\ Goto(c, "manifest") /\ UNCHANGED <<outcome, dir, fault>>
      BY <2>1 DEF Enter
    <3>2. list = slots /\ slots' = slots
      BY <2>1, ReadableSlots DEF Enter
    <3>3. \A d \in Calls : ~HasSlot(slots, Owner[d]) => ~HasSlot(slots', Owner[d])
      BY <3>2
    <3>4. QED
      BY <2>1, <3>1, <3>2, <3>3 DEF Enter, LogOutcome, Goto
  <2>2. ASSUME NEW c \in Calls, Publish(c) PROVE LockInv'
    BY <2>2 DEF Publish, LogOutcome, Fail, Remove, Reply, SetDir, Goto
  <2>3. ASSUME NEW c \in Calls, Precheck(c) \/ Resolve(c) \/ Recheck(c) \/ Copy(c)
                                \/ Revalidate(c) \/ WriteManifest(c) \/ Log(c)
                              \/ LockFails(c) \/ Kill(c)
        PROVE  LockInv'
    <3>1. UNCHANGED <<slots, seen>>
      BY <2>3 DEF LockFails, Kill, Precheck, Resolve, Recheck, Copy, Revalidate, WriteManifest, Log
    <3>2. \A d \in Calls : ~HasSlot(slots, Owner[d]) => ~HasSlot(slots', Owner[d])
      BY <3>1
    <3>3. \A d \in Calls : pc'[d] \in Locked => pc[d] \in Locked
      BY <2>3 DEF LockFails, Kill, Precheck, Resolve, Recheck, Copy, Revalidate, WriteManifest, Log,
         LogOutcome, Fail, Remove, Reply, Goto
    <3>4. \A d \in Calls : pc'[d] \in Locked <=> lock' = d
      BY <2>3 DEF LockFails, Kill, Precheck, Resolve, Recheck, Copy, Revalidate, WriteManifest, Log,
         LogOutcome, Fail, Remove, Reply, Goto
    <3>5. QED
      BY <3>1, <3>2, <3>3, <3>4
  <2>4. ASSUME NEW r \in Rollouts, EditWorkspace(r) PROVE LockInv'
    BY <2>4 DEF EditWorkspace, HasSlot
  <2>5. CASE UNCHANGED vars
    BY <2>5 DEF vars, HasSlot
  <2>6. QED
    BY <2>1, <2>2, <2>3, <2>4, <2>5 DEF Next, Step
<1>4. QED
  BY <1>1, <1>2, <1>3 DEF OneInv

LEMMA OneInit == Init => OneInv
  BY DEF Init, Prepared, OneInv, CompleteInv, TypeOK, DirStates, Places, Answers, Faults, Slots,
     LockInv, Locked, OneChildPerRollout

(* A recorded child stays recorded, whoever else calls afterwards. *)
THEOREM ChildrenStay ==
  ASSUME ReadMayFail = FALSE
  PROVE  Spec => RecordedChildrenKept
<1>1. OneInv /\ [Next]_vars => [slots \subseteq slots']_vars
  BY SlotsChange
<1>2. QED
  BY <1>1, OneInit, OneStep, PTL DEF Spec, RecordedChildrenKept
-----------------------------------------------------------------------------
(* What another call's record proves stays proved. *)
LEMMA OtherStays ==
  ASSUME OneInv, [Next]_vars, NEW c \in Calls, Other(c)
  PROVE  Other(c)'
<1>1. slots \subseteq slots'
  BY SlotsChange
<1>2. QED
  BY <1>1 DEF Other, Slot

LEMMA AnswerStep ==
  ASSUME ReadMayFail = FALSE
  PROVE  OneInv /\ AnswerInv /\ [Next]_vars => AnswerInv'
<1> SUFFICES ASSUME OneInv, AnswerInv, [Next]_vars PROVE AnswerInv'
  OBVIOUS
<1>1. CompleteInv /\ TypeOK
  BY DEF OneInv, CompleteInv
<1>2. \A d \in Calls : Slot(d) \in slots => Slot(d) \in slots'
  BY SlotsChange
<1>3. \A d \in Calls : Other(d) => Other(d)'
  BY OtherStays
<1>4. \A d \in Calls : Slot(d)' = Slot(d)
  BY DEF Slot
<1> USE DEF AnswerInv, TypeOK, Places
<1>5. ASSUME NEW c \in Calls, Precheck(c) PROVE AnswerInv'
  <2>1. PICK list \in Readable :
          IF HasSlot(list, Owner[c]) THEN Reply(c, "already")
                                     ELSE Goto(c, "resolve") /\ UNCHANGED answer
    BY <1>5 DEF Precheck
  <2>2. HasSlot(list, Owner[c]) => Other(c)
    BY <1>1, <1>5, <2>1, ReadableSlots, FoundIsOther DEF Precheck
  <2>3. QED
    BY <1>1, <1>2, <1>3, <1>4, <1>5, <2>1, <2>2 DEF Precheck, Reply, Goto
<1>6. ASSUME NEW c \in Calls, Recheck(c) PROVE AnswerInv'
  <2>1. PICK list \in Readable :
          IF HasSlot(list, Owner[c])
            THEN LogOutcome(c, "already") /\ UNCHANGED dir
            ELSE Goto(c, "copy") /\ SetDir(c, "made") /\ UNCHANGED outcome
    BY <1>6 DEF Recheck
  <2>2. HasSlot(list, Owner[c]) => Other(c)
    BY <1>1, <1>6, <2>1, ReadableSlots, FoundIsOther DEF Recheck
  <2>3. QED
    BY <1>1, <1>2, <1>3, <1>4, <1>6, <2>1, <2>2 DEF Recheck, LogOutcome, Goto
<1>7. ASSUME NEW c \in Calls, Enter(c) PROVE AnswerInv'
  <2>1. PICK list \in Readable :
          IF HasSlot(list, Owner[c])
            THEN LogOutcome(c, "already") /\ Remove(c) /\ UNCHANGED lock
            ELSE lock' = c /\ Goto(c, "manifest") /\ UNCHANGED <<outcome, dir, fault>>
    BY <1>7 DEF Enter
  <2>2. HasSlot(list, Owner[c]) => Other(c)
    BY <1>1, <1>7, <2>1, ReadableSlots, FoundIsOther DEF Enter
  <2>3. QED
    BY <1>1, <1>2, <1>3, <1>4, <1>7, <2>1, <2>2 DEF Enter, LogOutcome, Goto
<1>8. ASSUME NEW c \in Calls, Publish(c) PROVE AnswerInv'
  BY <1>1, <1>2, <1>3, <1>4, <1>8 DEF Publish, LogOutcome, Fail, Remove, Reply, SetDir, Goto
<1>9. ASSUME NEW c \in Calls, Log(c) PROVE AnswerInv'
  BY <1>1, <1>2, <1>3, <1>4, <1>9 DEF Log, Reply, Goto
<1>10. ASSUME NEW c \in Calls, Resolve(c) \/ Copy(c) \/ Revalidate(c) \/ WriteManifest(c)
                               \/ LockFails(c) \/ Kill(c)
       PROVE  AnswerInv'
  BY <1>1, <1>2, <1>3, <1>4, <1>10 DEF Resolve, Copy, Revalidate, WriteManifest, LockFails, Kill,
     Fail, Remove, Reply, SetDir, Goto
<1>11. ASSUME NEW r \in Rollouts, EditWorkspace(r) PROVE AnswerInv'
  BY <1>2, <1>3, <1>4, <1>11 DEF EditWorkspace
<1>12. CASE UNCHANGED vars
  BY <1>2, <1>3, <1>4, <1>12 DEF vars
<1>13. QED
  BY <1>5, <1>6, <1>7, <1>8, <1>9, <1>10, <1>11, <1>12 DEF Next, Step

LEMMA AnswerInit == Init => AnswerInv
  BY DEF Init, AnswerInv

(* What a tool call is told agrees with the slots file: "spawned" only to  *)
(* the recorded child's own call, "already" only when the rollout's child  *)
(* is another call's.                                                      *)
THEOREM AnswersAreHonest ==
  ASSUME ReadMayFail = FALSE
  PROVE  Spec => []AnswerMatchesSlots
<1>1. AnswerInv => AnswerMatchesSlots
  BY DEF AnswerInv, AnswerMatchesSlots, Other
<1>2. QED
  BY <1>1, OneInit, OneStep, AnswerInit, AnswerStep, PTL DEF Spec

-----------------------------------------------------------------------------
(* A handler makes its directory at the second look, and from there leaves *)
(* the transaction with its record, without the directory, killed, or with *)
(* a failure that nothing removed the directory after.                     *)
AccountInv ==
  \A c \in Calls :
    dir[c] # "absent" =>
      /\ pc[c] \notin {"idle", "resolve", "recheck"}
      /\ pc[c] = "log" => Slot(c) \in slots \/ fault[c] # "none"
      /\ pc[c] = "done" => Slot(c) \in slots \/ answer[c] = "killed" \/ fault[c] # "none"

LEMMA AccountStep ==
  ASSUME ReadMayFail = FALSE
  PROVE  OneInv /\ AccountInv /\ [Next]_vars => AccountInv'
<1> SUFFICES ASSUME OneInv, AccountInv, [Next]_vars PROVE AccountInv'
  OBVIOUS
<1>1. TypeOK
  BY DEF OneInv, CompleteInv
<1>2. \A d \in Calls : Slot(d) \in slots => Slot(d) \in slots'
  BY SlotsChange
<1>3. \A d \in Calls : Slot(d)' = Slot(d)
  BY DEF Slot
<1> USE DEF AccountInv, TypeOK, Places
<1>4. ASSUME NEW c \in Calls, Precheck(c) \/ Resolve(c) PROVE AccountInv'
  BY <1>1, <1>2, <1>3, <1>4 DEF Precheck, Resolve, Reply, Goto
<1>5. ASSUME NEW c \in Calls, Recheck(c) PROVE AccountInv'
  BY <1>1, <1>2, <1>3, <1>5 DEF Recheck, LogOutcome, SetDir, Goto
<1>6. ASSUME NEW c \in Calls, Copy(c) \/ Revalidate(c) \/ WriteManifest(c) PROVE AccountInv'
  BY <1>1, <1>2, <1>3, <1>6 DEF Copy, Revalidate, WriteManifest, Fail, Remove, Reply, SetDir, Goto
<1>7. ASSUME NEW c \in Calls, Enter(c) PROVE AccountInv'
  BY <1>1, <1>2, <1>3, <1>7 DEF Enter, LogOutcome, Remove, SetDir, Goto
<1>8. ASSUME NEW c \in Calls, Publish(c) PROVE AccountInv'
  BY <1>1, <1>2, <1>3, <1>8 DEF Publish, LogOutcome, Fail, Remove, Reply, SetDir, Goto
<1>9. ASSUME NEW c \in Calls, Log(c) \/ LockFails(c) \/ Kill(c) PROVE AccountInv'
  BY <1>1, <1>2, <1>3, <1>9 DEF Log, LockFails, Kill, Reply, Goto
<1>10. CASE (\E r \in Rollouts : EditWorkspace(r)) \/ UNCHANGED vars
  BY <1>2, <1>3, <1>10 DEF EditWorkspace, vars
<1>11. QED
  BY <1>4, <1>5, <1>6, <1>7, <1>8, <1>9, <1>10 DEF Next, Step

(* A refused child, a bad copy and a failed write leave no directory: an   *)
(* unrecorded one belongs to a handler that still runs, that was killed,   *)
(* that the lock file failed (child_spawn.py:244-250, outside both try     *)
(* blocks) or whose rmtree could not remove it.                            *)
THEOREM NothingLeftBehind ==
  ASSUME ReadMayFail = FALSE
  PROVE  Spec => []DirectoriesAccounted
<1>1. Init => AccountInv
  BY DEF Init, AccountInv
<1>2. AccountInv => DirectoriesAccounted
  BY DEF AccountInv, DirectoriesAccounted
<1>3. QED
  BY <1>1, <1>2, OneInit, OneStep, AccountStep, PTL DEF Spec

-----------------------------------------------------------------------------
(* ChildOf of an unchanged file, and of one with c's record added. *)
LEMMA ChildOfAdd ==
  ASSUME TypeOK, NEW c \in Calls, ~HasSlot(slots, Owner[c]), slots' = slots \cup {Slot(c)}
  PROVE  ChildOf[Owner[c]] = {} /\ ChildOf' = [ChildOf EXCEPT ![Owner[c]] = {c}]
<1>1. \A d \in Calls : Slot(d) \in slots => Owner[d] # Owner[c]
  BY SlotFields DEF HasSlot
<1>2. \A d \in Calls : Slot(d) \in slots' <=> Slot(d) \in slots \/ d = c
  BY DEF Slot
<1>3. Owner[c] \in Rollouts
  OBVIOUS
<1>4. ChildOf[Owner[c]] = {}
  BY <1>1, <1>3 DEF ChildOf
<1>5. ChildOf' = [r \in Rollouts |-> {d \in Calls : Owner[d] = r /\ Slot(d) \in slots'}]
  BY DEF ChildOf, Slot
<1>6. ASSUME NEW r \in Rollouts
      PROVE  {d \in Calls : Owner[d] = r /\ Slot(d) \in slots'}
             = IF r = Owner[c] THEN {c} ELSE ChildOf[r]
  BY <1>1, <1>2 DEF ChildOf
<1>7. [ChildOf EXCEPT ![Owner[c]] = {c}]
      = [r \in Rollouts |-> IF r = Owner[c] THEN {c} ELSE ChildOf[r]]
  BY DEF ChildOf
<1>8. QED
  BY <1>4, <1>5, <1>6, <1>7

(* The answer of one call changes at most once, and only as Tell allows. *)
LEMMA TellStep ==
  ASSUME OneInv, AnswerInv, [Next]_vars
  PROVE  \/ answer' = answer
         \/ \E c \in Calls : \E a \in Answers \ {"none"} :
              /\ answer[c] = "none"
              /\ answer' = [answer EXCEPT ![c] = a]
<1> USE DEF OneInv, CompleteInv, TypeOK, AnswerInv, Answers, Places
<1>1. ASSUME NEW c \in Calls, Step(c) \/ LockFails(c) \/ Kill(c), answer' # answer
      PROVE  /\ pc[c] # "done"
             /\ \E a \in Answers \ {"none"} : answer' = [answer EXCEPT ![c] = a]
  BY <1>1 DEF Step, LockFails, Kill, Precheck, Resolve, Recheck, Copy, Revalidate, Enter,
     WriteManifest, Publish, Log, Reply, Fail, Remove
<1>2. ASSUME NEW r \in Rollouts, EditWorkspace(r) PROVE answer' = answer
  BY <1>2 DEF EditWorkspace
<1>3. CASE UNCHANGED vars
  BY <1>3 DEF vars
<1>4. QED
  BY <1>1, <1>2, <1>3 DEF Next

(* The transaction implements the abstract child opportunity: publishing   *)
(* the slots file takes it, an answer tells of it, and everything else -   *)
(* looks, copies, the lock, kills of silent handlers - is invisible.       *)
THEOREM ImplementsOpportunity ==
  ASSUME ReadMayFail = FALSE
  PROVE  Spec => OpportunitySpec
<1>1. Init => Opportunity!Init
  BY DEF Init, Opportunity!Init, ChildOf
<1>2. OneInv /\ AnswerInv /\ [Next]_vars /\ OneInv' /\ AnswerInv'
        => [Opportunity!Next]_(Opportunity!vars)
  <2> SUFFICES ASSUME OneInv, AnswerInv, [Next]_vars, OneInv', AnswerInv'
               PROVE  Opportunity!Next \/ UNCHANGED <<ChildOf, answer>>
    BY DEF Opportunity!vars
  <2>1. TypeOK /\ TypeOK'
    BY DEF OneInv, CompleteInv
  <2>2. CASE slots' = slots
    <3>1. ChildOf' = ChildOf
      BY <2>2 DEF ChildOf, Slot
    <3>2. CASE answer' = answer
      BY <3>1, <3>2
    <3>3. ASSUME NEW c \in Calls, NEW a \in Answers \ {"none"},
                 answer[c] = "none", answer' = [answer EXCEPT ![c] = a]
          PROVE  Opportunity!Next
      <4>1. answer'[c] = a
        BY <2>1, <3>3 DEF TypeOK
      <4>2. a = "spawned" => c \in ChildOf[Owner[c]]
        <5>1. a = "spawned" => Slot(c) \in slots
          BY <2>2, <4>1 DEF AnswerInv, Slot
        <5>2. QED
          BY <5>1 DEF ChildOf
      <4>3. a = "already" => ChildOf[Owner[c]] \notin {{}, {c}}
        <5>1. a = "already" => Other(c)'
          BY <4>1 DEF AnswerInv
        <5>2. Other(c)' => \E d \in Calls \ {c} : d \in ChildOf[Owner[c]]
          BY <2>2 DEF Other, ChildOf, Slot
        <5>3. QED
          BY <5>1, <5>2
      <4>4. Opportunity!Tell(c, a)
        BY <3>1, <3>3, <4>2, <4>3 DEF Opportunity!Tell
      <4>5. QED
        BY <4>4 DEF Opportunity!Next, Opportunity!Answers, Answers
    <3>4. QED
      BY <2>2, <3>2, <3>3, TellStep
  <2>3. CASE slots' # slots
    <3>1. PICK c \in Calls : /\ pc[c] = "publish" /\ Publish(c)
                             /\ ~HasSlot(slots, Owner[c])
                             /\ slots' = slots \cup {Slot(c)}
      BY <2>3, SlotsChange
    <3>2. answer[c] = "none"
      BY <3>1 DEF AnswerInv
    <3>3. UNCHANGED answer
      BY <2>3, <3>1 DEF Publish
    <3>4. Opportunity!Take(c)
      BY <2>1, <3>1, <3>2, <3>3, ChildOfAdd DEF Opportunity!Take
    <3>5. QED
      BY <3>4 DEF Opportunity!Next
  <2>4. QED
    BY <2>2, <2>3
<1>3. QED
  BY <1>1, <1>2, OneInit, OneStep, AnswerInit, AnswerStep, PTL
  DEF Spec, OpportunitySpec, Opportunity!Spec
=============================================================================
