------------------------ MODULE DirectoryDecay_proofs ------------------------
(* Proofs about the guidance lease, for any guides, calls, K and counters. *)
EXTENDS DirectoryDecay, TLAPS, FiniteSetTheorems, FunctionTheorems, SequenceTheorems

Entry == [path : Paths, digest : Digests, expires : 0 .. Limit]
Epoch == [ordinal : 1 .. Limit, revision : 0 .. Limit, acknowledged : BOOLEAN,
          blocked : 0 .. Limit, admitted : SUBSET Calls, retained : SUBSET Nat]

Typed ==
  /\ TypeOK
  /\ entries \in Seq(Entry) /\ epochs \in Seq(Epoch) /\ Len(epochs) <= Limit

(* Requests are acknowledged in their order; only the last may be waiting. *)
Steps ==
  /\ pending => Current >= 1
  /\ \A e \in Requests : epochs[e].revision <= revision
  /\ \A e \in Requests : epochs[e].ordinal <= submitted \/ (pending /\ e = Current)
  /\ pending => /\ ~epochs[Current].acknowledged
                /\ epochs[Current].ordinal = submitted + 1
                /\ epochs[Current].retained = {k \in active : entries[k].expires >= submitted + 1}

OneRevisionLeased ==
  \A j, k \in active : entries[j].path = entries[k].path => j = k

(* A lease lasts to K steps after the last use of its guide, and each use  *)
(* that still matters has one.                                             *)
Leases ==
  /\ \A u \in uses : u[2] <= submitted
  /\ \A k \in active : \E u \in uses : u[1] = k /\ u[2] + K = entries[k].expires
  /\ \A u \in uses : u[2] + K > submitted =>
       \E k \in active : entries[k].path = entries[u[1]].path /\ entries[k].expires >= u[2] + K

IInv ==
  /\ Typed /\ Steps /\ OneRevisionLeased /\ Leases
  /\ ToolsSawTheirGuides /\ ShownForItsLifetime /\ OneRevisionShown /\ OpenGateShowsLease

-----------------------------------------------------------------------------
LEMMA Numbers == K \in Nat /\ K >= 1 /\ Limit \in Nat /\ K <= Limit
BY DecayAssumption

LEMMA InitInv == Init => IInv
<1> SUFFICES ASSUME Init PROVE IInv
    OBVIOUS
<1>1. Typed
  <2>1. entries = << >> /\ epochs = << >>
    BY DEF Init
  <2>2. entries \in Seq(Entry) /\ epochs \in Seq(Epoch) /\ Len(epochs) = 0
    BY <2>1
  <2>3. DOMAIN entries = {} /\ Requests = {}
    BY <2>1 DEF Requests
  <2>4. TypeOK
    <3>1. /\ submitted = 0 /\ revision = 0 /\ active = {} /\ pending \in BOOLEAN
          /\ failure \in {"none", "error", "overflow"} /\ uses = {} /\ ran = {}
      BY DEF Init
    <3>2. submitted \in 0 .. Limit /\ revision \in 0 .. Limit
      BY <3>1, Numbers
    <3>3. (\A k \in DOMAIN entries : FALSE) /\ (\A e \in Requests : FALSE)
      BY <2>3
    <3> QED BY <3>1, <3>2, <3>3 DEF TypeOK
  <2> QED BY <2>2, <2>4, Numbers DEF Typed
<1>2. Requests = {} /\ Current = 0
  BY DEF Init, Requests, Current
<1> QED BY <1>1, <1>2 DEF Init, IInv, Steps, OneRevisionLeased, Leases, ToolsSawTheirGuides,
           ShownForItsLifetime, OneRevisionShown, OpenGateShowsLease

LEMMA Indices ==
  ASSUME Typed
  PROVE  /\ Len(entries) \in Nat /\ DOMAIN entries = 1 .. Len(entries)
         /\ Current \in Nat /\ Requests = 1 .. Current /\ Current <= Limit
         /\ submitted \in Nat /\ revision \in Nat
         /\ \A k \in DOMAIN entries : entries[k] \in Entry
         /\ \A e \in Requests : epochs[e] \in Epoch /\ epochs[e].retained \subseteq DOMAIN entries
BY Numbers DEF Typed, TypeOK, Current, Requests

(* A request is projected. *)
LEMMA ProjectKeeps == ASSUME IInv, Project PROVE IInv'
<1> DEFINE new == [ordinal |-> submitted + 1, revision |-> revision, acknowledged |-> FALSE,
                   blocked |-> 0, admitted |-> {},
                   retained |-> {k \in active : entries[k].expires >= submitted + 1}]
           n == Current
<1>1. /\ ~pending /\ pending' /\ n < Limit /\ submitted < Limit /\ epochs' = Append(epochs, new)
      /\ UNCHANGED <<submitted, revision, entries, active, failure, uses, ran>>
  BY DEF Project
<1>2. Typed
  BY DEF IInv
<1>3. new \in Epoch /\ new.retained \subseteq DOMAIN entries
  <2>1. active \subseteq DOMAIN entries /\ DOMAIN entries \subseteq Nat
    BY <1>2, Indices DEF Typed, TypeOK
  <2>2. submitted + 1 \in 1 .. Limit /\ revision \in 0 .. Limit /\ 0 \in 0 .. Limit
    BY <1>1, <1>2, Numbers DEF Typed, TypeOK
  <2> QED BY <2>1, <2>2 DEF Epoch
<1>4. /\ epochs' \in Seq(Epoch) /\ Len(epochs') = n + 1 /\ epochs'[n + 1] = new
      /\ \A e \in 1 .. n : epochs'[e] = epochs[e]
      /\ DOMAIN epochs' = 1 .. n + 1
  BY <1>1, <1>2, <1>3, AppendProperties DEF Typed, Current
<1>5. n \in Nat /\ Requests = 1 .. n
  BY <1>2, Indices
<1>6. Current' = n + 1 /\ Requests' = 1 .. n + 1
  BY <1>4 DEF Current, Requests
<1> HIDE DEF n
<1>7. Typed'
  <2>1. \A e \in 1 .. n + 1 : epochs'[e] \in Epoch /\ epochs'[e].retained \subseteq DOMAIN entries
    BY <1>2, <1>3, <1>4, <1>5, Indices
  <2>2. \A e \in 1 .. n + 1 :
          epochs'[e] \in [ordinal : 1 .. Limit, revision : 0 .. Limit, acknowledged : BOOLEAN,
                          blocked : 0 .. Limit, admitted : SUBSET Calls,
                          retained : SUBSET (DOMAIN entries)]
    BY <2>1 DEF Epoch
  <2>3. ran \in SUBSET ((1 .. n + 1) \X Paths \X Digests)
    <3>1. ran \in SUBSET ((1 .. n) \X Paths \X Digests) /\ 1 .. n \subseteq 1 .. n + 1
      BY <1>2, <1>5 DEF Typed, TypeOK
    <3> QED BY <3>1
  <2>4. Len(epochs') <= Limit
    BY <1>1, <1>4, <1>5, Numbers
  <2> QED BY <1>1, <1>2, <1>4, <1>6, <2>2, <2>3, <2>4 DEF Typed, TypeOK
<1>8. Steps'
  <2>1. \A e \in 1 .. n : epochs[e].ordinal <= submitted
    BY <1>1, <1>5 DEF IInv, Steps
  <2>2. \A e \in 1 .. n + 1 : epochs'[e].revision <= revision
    BY <1>2, <1>4, <1>5, Indices DEF IInv, Steps
  <2> QED BY <1>1, <1>4, <1>5, <1>6, <2>1, <2>2 DEF Steps
<1>9. OneRevisionLeased' /\ Leases'
  BY <1>1 DEF IInv, OneRevisionLeased, Leases
<1>10. ToolsSawTheirGuides'
  <2>1. \A t \in ran : t[1] \in 1 .. n
    BY <1>2, <1>5 DEF Typed, TypeOK
  <2> QED BY <1>1, <1>4, <2>1 DEF IInv, ToolsSawTheirGuides
<1>11. ShownForItsLifetime'
  <2> SUFFICES ASSUME NEW e \in Requests'
               PROVE  /\ \A k \in epochs'[e].retained : \E u \in uses :
                           u[1] = k /\ u[2] < epochs'[e].ordinal /\ epochs'[e].ordinal <= u[2] + K
                      /\ \A u \in uses : u[2] < epochs'[e].ordinal /\ epochs'[e].ordinal <= u[2] + K =>
                           \E k \in epochs'[e].retained : entries[k].path = entries[u[1]].path
    <3>1. uses' = uses /\ entries' = entries
      BY <1>1
    <3> QED BY <3>1 DEF ShownForItsLifetime
  <2>1. CASE e \in 1 .. n
    BY <1>4, <1>5, <2>1 DEF IInv, ShownForItsLifetime
  <2>2. CASE e = n + 1
    <3>1. epochs'[e].ordinal = submitted + 1
          /\ epochs'[e].retained = {k \in active : entries[k].expires >= submitted + 1}
      BY <1>4, <2>2
    <3>2. submitted \in Nat /\ K \in Nat /\ (\A u \in uses : u[2] \in Nat)
          /\ (\A k \in active : entries[k].expires \in Nat)
      BY <1>2, Indices, Numbers DEF Typed, TypeOK, Entry
    <3>3. ASSUME NEW k \in active, entries[k].expires >= submitted + 1
          PROVE  \E u \in uses : u[1] = k /\ u[2] < submitted + 1 /\ submitted + 1 <= u[2] + K
      <4>1. PICK u \in uses : u[1] = k /\ u[2] + K = entries[k].expires
        BY DEF IInv, Leases
      <4>2. u[2] <= submitted
        BY DEF IInv, Leases
      <4> QED BY <3>2, <3>3, <4>1, <4>2
    <3>4. ASSUME NEW u \in uses, submitted + 1 <= u[2] + K
          PROVE  \E k \in active : entries[k].expires >= submitted + 1 /\ entries[k].path = entries[u[1]].path
      <4>1. u[2] + K > submitted
        BY <3>2, <3>4
      <4>2. PICK k \in active : entries[k].path = entries[u[1]].path /\ entries[k].expires >= u[2] + K
        BY <4>1 DEF IInv, Leases
      <4> QED BY <3>2, <3>4, <4>2
    <3> QED BY <3>1, <3>3, <3>4
  <2> QED BY <1>5, <1>6, <2>1, <2>2
<1>12. OneRevisionShown'
  BY <1>1, <1>4, <1>5, <1>6 DEF IInv, OneRevisionShown, OneRevisionLeased
<1>13. OpenGateShowsLease'
  BY <1>4, <1>6 DEF OpenGateShowsLease, Permitted
<1> QED BY <1>7, <1>8, <1>9, <1>10, <1>11, <1>12, <1>13 DEF IInv

(* The current request is acknowledged: it shows what stays leased. *)
LEMMA AcknowledgeKeeps == ASSUME IInv, Acknowledge PROVE IInv'
<1> DEFINE n == Current
<1>1. /\ pending /\ ~pending' /\ pending' \in BOOLEAN
      /\ active' = active \cap epochs[n].retained
      /\ submitted' = epochs[n].ordinal /\ failure' \in {"none", "error"}
      /\ active' # active => revision < Limit
      /\ revision' = IF active' = active THEN revision ELSE revision + 1
      /\ UNCHANGED <<entries, uses, ran>>
  BY DEF Acknowledge, LastAuditFails
<1>2. Typed /\ Steps
  BY DEF IInv
<1>3. n \in Nat /\ n >= 1 /\ Requests = 1 .. n /\ n \in Requests /\ epochs[n] \in Epoch
  BY <1>1, <1>2, Indices DEF Steps
<1>4. epochs' = [epochs EXCEPT ![n] = [epochs[n] EXCEPT !.acknowledged = TRUE, !.revision = revision']]
  BY DEF Acknowledge
<1>5. revision' \in 0 .. Limit /\ revision <= revision' /\ (active' = active => revision' = revision)
  BY <1>1, <1>2, Numbers DEF Typed, TypeOK
<1>6. /\ epochs'[n] = [epochs[n] EXCEPT !.acknowledged = TRUE, !.revision = revision']
      /\ \A e \in 1 .. n - 1 : epochs'[e] = epochs[e]
      /\ epochs' \in Seq(Epoch) /\ Len(epochs') = n /\ DOMAIN epochs' = 1 .. n
  <2>1. [epochs[n] EXCEPT !.acknowledged = TRUE, !.revision = revision'] \in Epoch
    BY <1>3, <1>5 DEF Epoch
  <2>2. n = Len(epochs) /\ epochs \in Seq(Epoch)
    BY <1>2 DEF Typed, Current
  <2>3. n \in 1 .. Len(epochs)
    BY <1>3, <2>2
  <2> DEFINE acknowledged == [epochs[n] EXCEPT !.acknowledged = TRUE, !.revision = revision']
  <2>4. acknowledged \in Epoch /\ epochs' = [epochs EXCEPT ![n] = acknowledged]
    BY <1>4, <2>1
  <2> HIDE DEF n, acknowledged
  <2>5. /\ epochs' \in Seq(Epoch) /\ Len(epochs') = Len(epochs)
        /\ \A e \in 1 .. Len(epochs) : epochs'[e] = IF e = n THEN acknowledged ELSE epochs[e]
    BY <2>2, <2>3, <2>4, ExceptSeq
  <2>6. epochs'[n] = acknowledged /\ \A e \in 1 .. n - 1 : epochs'[e] = epochs[e]
    BY <1>3, <2>2, <2>3, <2>5
  <2>7. DOMAIN epochs' = 1 .. n
    BY <2>2, <2>5, LenProperties
  <2> QED BY <2>2, <2>5, <2>6, <2>7 DEF acknowledged
<1>7. /\ epochs'[n].acknowledged /\ epochs'[n].revision = revision'
      /\ epochs'[n].ordinal = epochs[n].ordinal /\ epochs'[n].retained = epochs[n].retained
  BY <1>3, <1>6 DEF Epoch
<1>8. Current' = n /\ Requests' = 1 .. n
  BY <1>6 DEF Current, Requests
<1>9. \A e \in 1 .. n : /\ epochs'[e].ordinal = epochs[e].ordinal
                        /\ epochs'[e].retained = epochs[e].retained
  <2>1. TAKE e \in 1 .. n
  <2>2. e = n \/ e \in 1 .. n - 1
    BY <1>3
  <2> QED BY <1>6, <1>7, <2>2
<1>10. epochs[n].ordinal = submitted + 1 /\ submitted' = submitted + 1
       /\ epochs[n].retained = {k \in active : entries[k].expires >= submitted + 1}
  BY <1>1, <1>2 DEF Steps
<1>11. active' = epochs[n].retained
  BY <1>1, <1>10
<1> HIDE DEF n
<1>12. submitted \in Nat /\ submitted' \in 0 .. Limit
  BY <1>1, <1>2, <1>3, Indices, Numbers DEF Epoch
<1>13. Typed'
  <2>1. \A e \in 1 .. n : epochs'[e] \in Epoch /\ epochs'[e].retained \subseteq DOMAIN entries
    BY <1>2, <1>3, <1>6, <1>9, Indices
  <2>2. \A e \in 1 .. n :
          epochs'[e] \in [ordinal : 1 .. Limit, revision : 0 .. Limit, acknowledged : BOOLEAN,
                          blocked : 0 .. Limit, admitted : SUBSET Calls,
                          retained : SUBSET (DOMAIN entries)]
    BY <2>1 DEF Epoch
  <2>3. Len(epochs') <= Limit
    BY <1>2, <1>3, <1>6, Indices DEF n
  <2>4. active' \subseteq DOMAIN entries
    BY <1>1, <1>2 DEF Typed, TypeOK
  <2>5. ran \in SUBSET ((1 .. n) \X Paths \X Digests)
    BY <1>2, <1>3 DEF Typed, TypeOK
  <2>6. /\ entries \in Seq(Entry) /\ uses \in SUBSET ((DOMAIN entries) \X (0 .. Limit))
        /\ \A k \in DOMAIN entries :
              entries[k] \in [path : Paths, digest : Digests, expires : 0 .. Limit]
    BY <1>2 DEF Typed, TypeOK
  <2>7. TypeOK'
    BY <1>1, <1>5, <1>8, <1>12, <2>2, <2>4, <2>5, <2>6 DEF TypeOK
  <2> QED BY <1>1, <1>6, <2>3, <2>6, <2>7 DEF Typed
<1>14. Steps'
  <2>1. \A e \in 1 .. n : epochs'[e].revision <= revision'
    <3>1. TAKE e \in 1 .. n
    <3>2. CASE e = n
      BY <1>5, <1>7, <3>2
    <3>3. CASE e # n
      <4>1. e \in 1 .. n - 1 /\ epochs[e].revision <= revision /\ epochs[e] \in Epoch
        BY <1>2, <1>3, <3>3, Indices DEF Steps
      <4>2. epochs[e].revision \in Nat /\ revision \in Nat /\ revision' \in Nat
        BY <1>2, <1>5, <4>1, Indices DEF Epoch
      <4> QED BY <1>5, <1>6, <4>1, <4>2
    <3> QED BY <3>2, <3>3
  <2>2. \A e \in 1 .. n : epochs'[e].ordinal <= submitted'
    <3>1. TAKE e \in 1 .. n
    <3>2. CASE e = n
      BY <1>9, <1>10, <1>12, <3>2
    <3>3. CASE e # n
      <4>1. epochs[e].ordinal <= submitted /\ epochs[e] \in Epoch
        BY <1>2, <1>3, <3>3, Indices DEF Steps, n
      <4>2. epochs[e].ordinal \in Nat
        BY <4>1, Numbers DEF Epoch
      <4> QED BY <1>9, <1>10, <1>12, <4>1, <4>2
    <3> QED BY <3>2, <3>3
  <2> QED BY <1>1, <1>8, <2>1, <2>2 DEF Steps
<1>15. OneRevisionLeased'
  BY <1>1 DEF IInv, OneRevisionLeased
<1>16. Leases'
  <2>1. (\A u \in uses : u[2] \in Nat) /\ K \in Nat /\ \A k \in active : entries[k].expires \in Nat
    BY <1>2, Numbers, Indices DEF Typed, TypeOK, Entry
  <2>2. \A u \in uses : u[2] <= submitted'
    <3>1. \A u \in uses : u[2] <= submitted
      BY DEF IInv, Leases
    <3> QED BY <1>10, <1>12, <2>1, <3>1
  <2>3. ASSUME NEW u \in uses, u[2] + K > submitted'
        PROVE  \E k \in active' : entries[k].path = entries[u[1]].path /\ entries[k].expires >= u[2] + K
    <3>1. u[2] + K > submitted
      BY <1>10, <1>12, <2>1, <2>3
    <3>2. PICK k \in active : entries[k].path = entries[u[1]].path /\ entries[k].expires >= u[2] + K
      BY <3>1 DEF IInv, Leases
    <3>3. entries[k].expires >= submitted + 1
      BY <1>10, <1>12, <2>1, <2>3, <3>2
    <3> QED BY <1>10, <1>11, <3>2, <3>3
  <2>4. \A k \in active' : \E u \in uses : u[1] = k /\ u[2] + K = entries[k].expires
    BY <1>1 DEF IInv, Leases
  <2> QED BY <1>1, <2>2, <2>3, <2>4 DEF Leases
<1>17. ToolsSawTheirGuides'
  <2>1. \A t \in ran : t[1] \in 1 .. n
    BY <1>2, <1>3 DEF Typed, TypeOK
  <2> QED BY <1>1, <1>9, <2>1 DEF IInv, ToolsSawTheirGuides
<1>18. ShownForItsLifetime'
  BY <1>1, <1>3, <1>8, <1>9 DEF IInv, ShownForItsLifetime
<1>19. OneRevisionShown'
  BY <1>1, <1>3, <1>8, <1>9 DEF IInv, OneRevisionShown
<1>20. OpenGateShowsLease'
  BY <1>7, <1>8, <1>11 DEF OpenGateShowsLease
<1> QED BY <1>13, <1>14, <1>15, <1>16, <1>17, <1>18, <1>19, <1>20 DEF IInv

-----------------------------------------------------------------------------
(* Accesses: what they do to the entries. *)

Leased(g) == [path |-> g.path, digest |-> g.digest, expires |-> submitted + K]
Same(g, k) == g.path = entries[k].path /\ g.digest = entries[k].digest

LEMMA IsSequence ==
  ASSUME NEW S, NEW n \in Nat, NEW f \in [1 .. n -> S] PROVE f \in Seq(S) /\ Len(f) = n
OBVIOUS

LEMMA Joined ==
  ASSUME NEW s \in Seq(Entry), NEW t \in Seq(Entry)
  PROVE  /\ s \o t \in Seq(Entry) /\ Len(s \o t) = Len(s) + Len(t)
         /\ \A k \in 1 .. Len(s) + Len(t) : (s \o t)[k] = IF k <= Len(s) THEN s[k] ELSE t[k - Len(s)]
BY ConcatProperties

(* The fresh guides get one entry each. *)
LEMMA NewOnes ==
  ASSUME IInv, NEW guides \in Resolutions, submitted + K <= Limit,
         NEW new \in NewEntries(Fresh(guides))
  PROVE  /\ new \in Seq(Entry) /\ DOMAIN new = 1 .. Len(new) /\ Len(new) \in Nat
         /\ \A j \in 1 .. Len(new) : \E g \in Fresh(guides) : new[j] = Leased(g)
         /\ \A g \in Fresh(guides) : \E j \in 1 .. Len(new) : new[j] = Leased(g)
         /\ \A i, j \in 1 .. Len(new) : new[i].path = new[j].path => i = j
         /\ Fresh(guides) = {} => Len(new) = 0
<1> DEFINE fresh == Fresh(guides)
           n == Cardinality(fresh)
           T == {Leased(g) : g \in fresh}
<1>1. fresh \subseteq guides /\ guides \subseteq Guide /\ IsFiniteSet(guides)
      /\ \A g, h \in fresh : g.path = h.path => g = h
  BY DEF Fresh, Resolutions
<1>2. IsFiniteSet(fresh) /\ n \in Nat
  BY <1>1, FS_Subset, FS_CardinalityType
<1>3. new \in [1 .. n -> T] /\ \A i, j \in 1 .. n : new[i] = new[j] => i = j
  BY DEF NewEntries, Leased
<1>4. IsFiniteSet(T) /\ Cardinality(T) = n
  <2> DEFINE f == [g \in fresh |-> Leased(g)]
  <2>1. \A g, h \in fresh : Leased(g) = Leased(h) => g = h
    <3>1. TAKE g, h \in fresh
    <3>2. HAVE Leased(g) = Leased(h)
    <3>3. Leased(g).path = g.path /\ Leased(h).path = h.path
      BY DEF Leased
    <3> QED BY <1>1, <3>2, <3>3
  <2>2. f \in Bijection(fresh, T)
    BY <2>1 DEF Bijection, Injection, Surjection, IsInjective
  <2>3. ExistsBijection(fresh, T)
    BY <2>2 DEF ExistsBijection
  <2> QED BY <1>2, <2>3, FS_Bijection
<1>5. new \in Surjection(1 .. n, T)
  <2>1. new \in Injection(1 .. n, T)
    BY <1>3 DEF Injection, IsInjective
  <2>2. IsFiniteSet(1 .. n) /\ Cardinality(1 .. n) = n
    BY <1>2, FS_Interval
  <2> HIDE DEF n, T
  <2> QED BY <1>4, <2>1, <2>2, FS_Injection
<1>6. \A t \in T : \E j \in 1 .. n : new[j] = t
  BY <1>5 DEF Surjection
<1>7. T \subseteq Entry
  <2>1. submitted + K \in 0 .. Limit
    BY Numbers, Indices DEF IInv
  <2> QED BY <1>1, <2>1 DEF Leased, Entry, Guide
<1>8. new \in Seq(Entry) /\ Len(new) = n
  <2>1. new \in [1 .. n -> Entry]
    BY <1>3, <1>7
  <2> QED BY <1>2, <2>1, IsSequence
<1>9. \A j \in 1 .. n : \E g \in fresh : new[j] = Leased(g)
  BY <1>3
<1>10. \A i, j \in 1 .. n : new[i].path = new[j].path => i = j
  <2>1. TAKE i, j \in 1 .. n
  <2>2. HAVE new[i].path = new[j].path
  <2>3. PICK g, h \in fresh : new[i] = Leased(g) /\ new[j] = Leased(h)
    BY <1>9
  <2>4. g = h
    BY <1>1, <2>2, <2>3 DEF Leased
  <2> QED BY <1>3, <2>3, <2>4
<1>11. fresh = {} => n = 0
  BY FS_EmptySet
<1> HIDE DEF n
<1> QED BY <1>2, <1>3, <1>6, <1>8, <1>9, <1>10, <1>11

NewIds == Len(entries) + 1 .. Len(entries')

LEMMA LeaseFacts ==
  ASSUME IInv, NEW guides \in Resolutions, NEW e, Lease(e, guides)
  PROVE  /\ entries' \in Seq(Entry) /\ Len(entries') \in Nat /\ Len(entries) <= Len(entries')
         /\ \A k \in 1 .. Len(entries) :
              /\ entries'[k].path = entries[k].path /\ entries'[k].digest = entries[k].digest
              /\ entries'[k].expires =
                   IF k \in active /\ \E g \in guides : Same(g, k) THEN submitted + K
                   ELSE entries[k].expires
         /\ \A k \in NewIds : \E g \in Fresh(guides) : entries'[k] = Leased(g)
         /\ \A g \in Fresh(guides) : \E k \in NewIds : entries'[k] = Leased(g)
         /\ \A j, k \in NewIds : entries'[j].path = entries'[k].path => j = k
         /\ Fresh(guides) = {} => Len(entries') = Len(entries)
         /\ active' = (active \ Replaced(guides)) \cup NewIds
<1> DEFINE m == Len(entries)
           renewed == Renewed(guides)
<1>1. PICK new \in NewEntries(Fresh(guides)) :
        /\ entries' = renewed \o new
        /\ active' = (active \ Replaced(guides)) \cup (Len(entries) + 1 .. Len(entries'))
  BY DEF Lease
<1>2. submitted + K <= Limit
  BY DEF Lease
<1>3. /\ new \in Seq(Entry) /\ DOMAIN new = 1 .. Len(new) /\ Len(new) \in Nat
      /\ \A j \in 1 .. Len(new) : \E g \in Fresh(guides) : new[j] = Leased(g)
      /\ \A g \in Fresh(guides) : \E j \in 1 .. Len(new) : new[j] = Leased(g)
      /\ \A i, j \in 1 .. Len(new) : new[i].path = new[j].path => i = j
      /\ Fresh(guides) = {} => Len(new) = 0
  BY <1>2, NewOnes
<1>4. m \in Nat /\ DOMAIN entries = 1 .. m /\ \A k \in 1 .. m : entries[k] \in Entry
  BY Indices DEF IInv
<1>5. submitted + K \in 0 .. Limit
  BY <1>2, Numbers, Indices DEF IInv
<1>6. \A k \in 1 .. m :
        renewed[k] = IF k \in active /\ \E g \in guides : Same(g, k)
                       THEN [entries[k] EXCEPT !.expires = submitted + K] ELSE entries[k]
  BY <1>4 DEF Renewed, Same
<1>7. \A k \in 1 .. m :
        /\ renewed[k] \in Entry
        /\ renewed[k].path = entries[k].path /\ renewed[k].digest = entries[k].digest
        /\ renewed[k].expires = IF k \in active /\ \E g \in guides : Same(g, k) THEN submitted + K
                                ELSE entries[k].expires
  <2>1. TAKE k \in 1 .. m
  <2> DEFINE later == [entries[k] EXCEPT !.expires = submitted + K]
  <2>2. later \in Entry /\ later.path = entries[k].path /\ later.digest = entries[k].digest
        /\ later.expires = submitted + K
    BY <1>4, <1>5 DEF Entry
  <2> HIDE DEF later
  <2>3. renewed[k] = IF k \in active /\ \E g \in guides : Same(g, k) THEN later ELSE entries[k]
    BY <1>6 DEF later
  <2> HIDE DEF renewed
  <2> QED BY <1>4, <2>2, <2>3
<1>8. renewed \in Seq(Entry) /\ Len(renewed) = m
  <2>1. renewed \in [1 .. m -> Entry]
    <3>1. renewed = [k \in 1 .. m |-> renewed[k]]
      BY <1>4 DEF Renewed
    <3> HIDE DEF renewed
    <3> QED BY <1>7, <3>1
  <2> HIDE DEF renewed, m
  <2> QED BY <1>4, <2>1, IsSequence
<1> HIDE DEF renewed, m
<1>9. /\ entries' \in Seq(Entry) /\ Len(entries') = m + Len(new)
      /\ \A k \in 1 .. m + Len(new) : entries'[k] = IF k <= m THEN renewed[k] ELSE new[k - m]
  <2>1. /\ renewed \o new \in Seq(Entry) /\ Len(renewed \o new) = Len(renewed) + Len(new)
        /\ \A k \in 1 .. Len(renewed) + Len(new) :
              (renewed \o new)[k] = IF k <= Len(renewed) THEN renewed[k] ELSE new[k - Len(renewed)]
    BY <1>3, <1>8, Joined
  <2> QED BY <1>1, <1>8, <2>1
<1>10. \A k \in 1 .. m : entries'[k] = renewed[k]
  BY <1>3, <1>4, <1>9
<1>11. \A k \in m + 1 .. m + Len(new) : k - m \in 1 .. Len(new) /\ entries'[k] = new[k - m]
  BY <1>3, <1>4, <1>9
<1>12. \A j \in 1 .. Len(new) : m + j \in m + 1 .. m + Len(new) /\ entries'[m + j] = new[j]
  <2>1. TAKE j \in 1 .. Len(new)
  <2>2. m + j \in m + 1 .. m + Len(new) /\ (m + j) - m = j
    BY <1>3, <1>4
  <2> QED BY <1>11, <2>2
<1>13. NewIds = m + 1 .. m + Len(new)
  BY <1>9 DEF NewIds, m
<1>14. \A j, k \in NewIds : entries'[j].path = entries'[k].path => j = k
  <2>1. TAKE j, k \in NewIds
  <2>2. HAVE entries'[j].path = entries'[k].path
  <2>3. j - m = k - m
    BY <1>3, <1>11, <1>13, <2>2
  <2> QED BY <1>3, <1>4, <1>13, <2>3
<1>15. \A k \in NewIds : \E g \in Fresh(guides) : entries'[k] = Leased(g)
  BY <1>3, <1>11, <1>13
<1>16. \A g \in Fresh(guides) : \E k \in NewIds : entries'[k] = Leased(g)
  BY <1>3, <1>12, <1>13
<1>17. active' = (active \ Replaced(guides)) \cup NewIds
  BY <1>1 DEF NewIds
<1>18. Len(entries') \in Nat /\ m <= Len(entries') /\ (Fresh(guides) = {} => Len(entries') = m)
  BY <1>3, <1>4, <1>9
<1>19. \A k \in 1 .. m :
        /\ entries'[k].path = entries[k].path /\ entries'[k].digest = entries[k].digest
        /\ entries'[k].expires = IF k \in active /\ \E g \in guides : Same(g, k) THEN submitted + K
                                 ELSE entries[k].expires
  BY <1>7, <1>10
<1> QED BY <1>9, <1>14, <1>15, <1>16, <1>17, <1>18, <1>19 DEF m

-----------------------------------------------------------------------------
(* Accesses: what they do to the session. *)

(* Requests keep what they showed; gates and admitted calls may change. *)
Relabelled ==
  /\ epochs' \in Seq(Epoch) /\ Len(epochs') = Len(epochs)
  /\ \A x \in Requests :
       /\ epochs'[x].ordinal = epochs[x].ordinal /\ epochs'[x].revision = epochs[x].revision
       /\ epochs'[x].acknowledged = epochs[x].acknowledged
       /\ epochs'[x].retained = epochs[x].retained

LEMMA Regated ==
  ASSUME Typed, NEW e \in Requests, NEW b \in 0 .. Limit, NEW a \in SUBSET Calls,
         epochs' = [epochs EXCEPT ![e] = [epochs[e] EXCEPT !.blocked = b, !.admitted = a]]
  PROVE  Relabelled /\ epochs'[e].blocked = b
<1> DEFINE new == [epochs[e] EXCEPT !.blocked = b, !.admitted = a]
<1>1. epochs \in Seq(Epoch) /\ Requests = 1 .. Len(epochs) /\ epochs[e] \in Epoch
  BY Indices DEF Typed, Current
<1>2. /\ new \in Epoch /\ new.blocked = b /\ new.ordinal = epochs[e].ordinal
      /\ new.revision = epochs[e].revision /\ new.acknowledged = epochs[e].acknowledged
      /\ new.retained = epochs[e].retained
  BY <1>1 DEF Epoch
<1> HIDE DEF new
<1>3. epochs' = [epochs EXCEPT ![e] = new]
  BY DEF new
<1>4. /\ epochs' \in Seq(Epoch) /\ Len(epochs') = Len(epochs)
      /\ \A x \in 1 .. Len(epochs) : epochs'[x] = IF x = e THEN new ELSE epochs[x]
  BY <1>1, <1>2, <1>3, ExceptSeq
<1> QED BY <1>1, <1>2, <1>4 DEF Relabelled

LEMMA SameRequests ==
  ASSUME Relabelled PROVE Requests' = Requests /\ Current' = Current
BY DEF Relabelled, Requests, Current

(* A tool callback meets the request in flight: only a gate closes. *)
LEMMA PendingAccessKeeps ==
  ASSUME IInv, NEW e \in Requests, AccessPending(e) PROVE IInv'
<1>1. /\ pending /\ epochs[e].acknowledged
      /\ epochs' = [epochs EXCEPT ![e] = [epochs[e] EXCEPT !.blocked = Current]]
      /\ UNCHANGED <<submitted, revision, entries, active, pending, failure, uses, ran>>
  BY DEF AccessPending
<1>2. Typed
  BY DEF IInv
<1>3. epochs[e] \in Epoch /\ Current \in 0 .. Limit
  BY <1>2, Indices, Numbers
<1>4. Relabelled
  <2>1. epochs[e].admitted \in SUBSET Calls
    BY <1>3 DEF Epoch
  <2>2. [epochs[e] EXCEPT !.blocked = Current]
          = [epochs[e] EXCEPT !.blocked = Current, !.admitted = epochs[e].admitted]
    BY <1>3 DEF Epoch
  <2> QED BY <1>1, <1>2, <1>3, <2>1, <2>2, Regated
<1>5. Requests' = Requests /\ Current' = Current
  BY <1>4, SameRequests
<1>6. Typed'
  <2>1. \A x \in Requests : epochs'[x] \in Epoch /\ epochs'[x].retained \subseteq DOMAIN entries
    BY <1>2, <1>4, Indices DEF Relabelled, Current
  <2>2. \A x \in Requests :
          epochs'[x] \in [ordinal : 1 .. Limit, revision : 0 .. Limit, acknowledged : BOOLEAN,
                          blocked : 0 .. Limit, admitted : SUBSET Calls,
                          retained : SUBSET (DOMAIN entries)]
    BY <2>1 DEF Epoch
  <2>3. Len(epochs') <= Limit
    BY <1>2, <1>4 DEF Typed, Relabelled
  <2> QED BY <1>1, <1>2, <1>4, <1>5, <2>2, <2>3 DEF Typed, TypeOK, Relabelled
<1>7. Steps'
  <2>1. Current \in Requests
    BY <1>1, <1>2, Indices DEF IInv, Steps
  <2> QED BY <1>1, <1>4, <1>5, <2>1 DEF IInv, Steps, Relabelled
<1>8. OneRevisionLeased' /\ Leases'
  BY <1>1 DEF IInv, OneRevisionLeased, Leases
<1>9. ToolsSawTheirGuides'
  <2>1. \A t \in ran : t[1] \in Requests
    BY <1>2 DEF Typed, TypeOK
  <2> QED BY <1>1, <1>4, <2>1 DEF IInv, ToolsSawTheirGuides, Relabelled
<1>10. ShownForItsLifetime'
  BY <1>1, <1>4, <1>5 DEF IInv, ShownForItsLifetime, Relabelled
<1>11. OneRevisionShown'
  BY <1>1, <1>4, <1>5 DEF IInv, OneRevisionShown, Relabelled
<1>12. OpenGateShowsLease'
  <2>1. Current \in Requests /\ ~epochs[Current].acknowledged
    BY <1>1, <1>2, Indices DEF IInv, Steps
  <2> QED BY <1>4, <1>5, <2>1 DEF OpenGateShowsLease, Permitted, Relabelled
<1> QED BY <1>6, <1>7, <1>8, <1>9, <1>10, <1>11, <1>12 DEF IInv

(* What a tool needs to run: nothing new, and its request shows the lease. *)
Cleared(e, guides) == Fresh(guides) = {} /\ Permitted(epochs[e], revision)

(* A tool callback of the current request, "before" or "after". *)
LEMMA LeaseKeeps ==
  ASSUME IInv, NEW e \in Requests, NEW guides \in Resolutions, ~pending, e = Current,
         Lease(e, guides), Relabelled,
         Fresh(guides) = {} => (epochs'[e].blocked = 0 => epochs[e].blocked = 0),
         \/ ran' = ran
         \/ Cleared(e, guides) /\ ran' = ran \cup {<<e, g.path, g.digest>> : g \in guides}
  PROVE  IInv'
<1> DEFINE m == Len(entries)
           met == {k \in active' : \E g \in guides :
                     g.path = entries'[k].path /\ g.digest = entries'[k].digest}
<1>1. Typed /\ Steps
  BY DEF IInv
<1>2. /\ m \in Nat /\ DOMAIN entries = 1 .. m /\ K \in Nat /\ submitted \in Nat /\ revision \in Nat
      /\ \A k \in 1 .. m : entries[k] \in Entry /\ entries[k].expires \in Nat
      /\ active \subseteq 1 .. m /\ \A u \in uses : u[1] \in 1 .. m /\ u[2] \in Nat
      /\ \A u \in uses : u[2] <= submitted
  <2>1. /\ m \in Nat /\ DOMAIN entries = 1 .. m /\ K \in Nat /\ submitted \in Nat /\ revision \in Nat
        /\ \A k \in 1 .. m : entries[k] \in Entry
    BY <1>1, Indices, Numbers
  <2>2. \A k \in 1 .. m : entries[k].expires \in Nat
    <3>1. \A x \in Entry : x.expires \in Nat
      BY Numbers DEF Entry
    <3> QED BY <2>1, <3>1
  <2>3. active \subseteq 1 .. m /\ uses \in SUBSET ((1 .. m) \X (0 .. Limit))
    BY <1>1, <2>1 DEF Typed, TypeOK
  <2>4. \A u \in uses : u[1] \in 1 .. m /\ u[2] \in Nat
    BY <2>3, Numbers
  <2>5. \A u \in uses : u[2] <= submitted
    BY DEF IInv, Leases
  <2> QED BY <2>1, <2>2, <2>3, <2>4, <2>5
<1>3. /\ submitted' = submitted /\ pending' = pending /\ failure' \in {"none", "error"}
      /\ uses' = uses \cup {<<k, submitted>> : k \in met}
      /\ submitted + K <= Limit
      /\ revision' = IF Fresh(guides) = {} THEN revision ELSE revision + 1
      /\ Fresh(guides) # {} => revision < Limit
  BY DEF Lease, LastAuditFails
<1>4. /\ entries' \in Seq(Entry) /\ Len(entries') \in Nat /\ m <= Len(entries')
      /\ \A k \in 1 .. m :
           /\ entries'[k].path = entries[k].path /\ entries'[k].digest = entries[k].digest
           /\ entries'[k].expires = IF k \in active /\ \E g \in guides : Same(g, k) THEN submitted + K
                                    ELSE entries[k].expires
      /\ \A k \in NewIds : \E g \in Fresh(guides) : entries'[k] = Leased(g)
      /\ \A g \in Fresh(guides) : \E k \in NewIds : entries'[k] = Leased(g)
      /\ \A j, k \in NewIds : entries'[j].path = entries'[k].path => j = k
      /\ Fresh(guides) = {} => Len(entries') = m
      /\ active' = (active \ Replaced(guides)) \cup NewIds
  BY LeaseFacts
<1>5. Requests' = Requests /\ Current' = Current
  BY SameRequests
<1>6. NewIds = m + 1 .. Len(entries')
  BY DEF NewIds
<1> HIDE DEF m, met
<1>7. /\ DOMAIN entries' = 1 .. Len(entries') /\ 1 .. m \subseteq DOMAIN entries'
      /\ NewIds \subseteq DOMAIN entries' /\ active' \subseteq DOMAIN entries'
  <2>1. DOMAIN entries' = 1 .. Len(entries')
    BY <1>4, LenProperties
  <2>2. 1 .. m \subseteq 1 .. Len(entries') /\ NewIds \subseteq 1 .. Len(entries')
    BY <1>2, <1>4, <1>6
  <2> QED BY <1>2, <1>4, <2>1, <2>2
<1>8. Fresh(guides) = {} => active' = active /\ revision' = revision
  <2>1. Fresh(guides) = {} => Replaced(guides) = {}
    BY DEF Replaced
  <2>2. Fresh(guides) = {} => NewIds = {}
    BY <1>2, <1>4, <1>6
  <2> QED BY <1>3, <1>4, <2>1, <2>2
<1>9. \A k \in NewIds : \E g \in Fresh(guides) :
        /\ entries'[k].path = g.path /\ entries'[k].digest = g.digest
        /\ entries'[k].expires = submitted + K
  <2>1. \A g \in Fresh(guides) : Leased(g).path = g.path /\ Leased(g).digest = g.digest
                                 /\ Leased(g).expires = submitted + K
    BY DEF Leased
  <2>2. TAKE k \in NewIds
  <2>3. PICK g \in Fresh(guides) : entries'[k] = Leased(g)
    BY <1>4
  <2> QED BY <2>1, <2>3
<1>10. \A g \in Fresh(guides) : \E k \in NewIds :
         entries'[k].path = g.path /\ entries'[k].expires = submitted + K
  <2>1. TAKE g \in Fresh(guides)
  <2>2. Leased(g).path = g.path /\ Leased(g).expires = submitted + K
    BY DEF Leased
  <2>3. PICK k \in NewIds : entries'[k] = Leased(g)
    BY <1>4
  <2> QED BY <2>2, <2>3
<1>11. Fresh(guides) \subseteq guides
  BY DEF Fresh
<1>12. Typed'
  <2>1. \A x \in Requests : epochs'[x] \in Epoch /\ epochs'[x].retained \subseteq DOMAIN entries'
    <3>1. \A x \in Requests : x \in 1 .. Len(epochs') /\ epochs[x].retained \subseteq 1 .. m
      BY <1>1, <1>2, Indices DEF Relabelled, Current
    <3>2. \A x \in 1 .. Len(epochs') : epochs'[x] \in Epoch
      BY ElementOfSeq DEF Relabelled
    <3> QED BY <1>7, <3>1, <3>2 DEF Relabelled
  <2>2. \A x \in Requests :
          epochs'[x] \in [ordinal : 1 .. Limit, revision : 0 .. Limit, acknowledged : BOOLEAN,
                          blocked : 0 .. Limit, admitted : SUBSET Calls,
                          retained : SUBSET (DOMAIN entries')]
    BY <2>1 DEF Epoch
  <2>3. Len(epochs') <= Limit
    BY <1>1 DEF Typed, Relabelled
  <2>4. \A k \in DOMAIN entries' :
          entries'[k] \in [path : Paths, digest : Digests, expires : 0 .. Limit]
    BY <1>4, <1>7, ElementOfSeq DEF Entry
  <2>5. submitted' \in 0 .. Limit /\ revision' \in 0 .. Limit
    <3>1. submitted \in 0 .. Limit /\ revision \in 0 .. Limit
      BY <1>1 DEF Typed, TypeOK
    <3> QED BY <1>3, <3>1, Numbers
  <2>6. uses' \in SUBSET ((DOMAIN entries') \X (0 .. Limit))
    <3>1. uses \in SUBSET ((DOMAIN entries') \X (0 .. Limit))
      BY <1>1, <1>2, <1>7 DEF Typed, TypeOK
    <3>2. met \subseteq DOMAIN entries'
      BY <1>7 DEF met
    <3> QED BY <1>3, <2>5, <3>1, <3>2
  <2>7. ran' \in SUBSET (Requests \X Paths \X Digests)
    <3>1. ran \in SUBSET (Requests \X Paths \X Digests)
      BY <1>1 DEF Typed, TypeOK
    <3>2. \A g \in guides : g.path \in Paths /\ g.digest \in Digests
      BY DEF Resolutions, Guide
    <3> QED BY <3>1, <3>2
  <2>8. pending' \in BOOLEAN
    BY <1>1, <1>3 DEF Typed, TypeOK
  <2>9. TypeOK'
    BY <1>3, <1>5, <1>7, <2>2, <2>4, <2>5, <2>6, <2>7, <2>8 DEF TypeOK
  <2> QED BY <1>4, <2>3, <2>9 DEF Typed, Relabelled
<1>13. Steps'
  <2>1. \A x \in Requests : epochs[x].revision <= revision /\ epochs[x].revision \in Nat
    BY <1>1, Indices DEF Steps, Epoch
  <2>2. \A x \in Requests : epochs'[x].revision <= revision'
    BY <1>2, <1>3, <2>1 DEF Relabelled
  <2> QED BY <1>1, <1>3, <1>5, <2>2 DEF Steps, Relabelled
<1>14. OneRevisionLeased'
  <2> SUFFICES ASSUME NEW j \in active', NEW k \in active', entries'[j].path = entries'[k].path
               PROVE  j = k
    BY DEF OneRevisionLeased
  <2>1. ASSUME NEW i \in active, i \notin Replaced(guides), NEW l \in NewIds
        PROVE  entries'[i].path # entries'[l].path
    <3>1. \A g \in Fresh(guides) : entries[i].path # g.path
      BY <2>1 DEF Replaced
    <3> QED BY <1>2, <1>4, <1>9, <3>1
  <2>2. CASE j \in NewIds /\ k \in NewIds
    BY <1>4, <2>2
  <2>3. CASE j \notin NewIds /\ k \notin NewIds
    BY <1>2, <1>4, <2>3 DEF IInv, OneRevisionLeased
  <2> QED BY <1>4, <2>1, <2>2, <2>3
<1>15. Leases'
  <2>1. \A u \in uses' : u[2] <= submitted
    BY <1>2, <1>3
  <2>2. ASSUME NEW k \in active' PROVE \E u \in uses' : u[1] = k /\ u[2] + K = entries'[k].expires
    <3>1. CASE k \in met /\ entries'[k].expires = submitted + K
      <4>1. <<k, submitted>> \in uses'
        BY <1>3, <3>1
      <4> QED BY <3>1, <4>1
    <3>2. k \in NewIds => k \in met /\ entries'[k].expires = submitted + K
      BY <1>9, <1>11 DEF met
    <3>3. CASE k \in active /\ ~\E g \in guides : Same(g, k)
      <4>1. PICK u \in uses : u[1] = k /\ u[2] + K = entries[k].expires
        BY <3>3 DEF IInv, Leases
      <4>2. entries'[k].expires = entries[k].expires
        BY <1>2, <1>4, <3>3
      <4> QED BY <1>3, <4>1, <4>2
    <3>4. k \in active /\ (\E g \in guides : Same(g, k)) => k \in met /\ entries'[k].expires = submitted + K
      BY <1>2, <1>4 DEF met, Same
    <3> QED BY <1>4, <3>1, <3>2, <3>3, <3>4
  <2>3. ASSUME NEW u \in uses, u[2] + K > submitted
        PROVE  \E k \in active' : entries'[k].path = entries'[u[1]].path /\ entries'[k].expires >= u[2] + K
    <3>1. PICK k \in active : entries[k].path = entries[u[1]].path /\ entries[k].expires >= u[2] + K
      BY <2>3 DEF IInv, Leases
    <3>2. entries'[u[1]].path = entries[u[1]].path /\ u[2] + K <= submitted + K
      BY <1>2, <1>4
    <3>3. CASE k \in Replaced(guides)
      <4>1. PICK g \in Fresh(guides) : g.path = entries[k].path
        BY <3>3 DEF Replaced
      <4>2. PICK l \in NewIds : entries'[l].path = g.path /\ entries'[l].expires = submitted + K
        BY <1>10
      <4>3. l \in active' /\ submitted + K >= u[2] + K
        BY <1>2, <1>4, <3>2
      <4> QED BY <3>1, <3>2, <4>1, <4>2, <4>3
    <3>4. CASE k \notin Replaced(guides)
      <4>1. k \in active' /\ k \in 1 .. m
        BY <1>2, <1>4, <3>4
      <4>2. entries'[k].path = entries[k].path /\ entries'[k].expires \in {submitted + K, entries[k].expires}
        BY <1>4, <4>1
      <4>3. entries'[k].expires >= u[2] + K
        BY <1>2, <3>1, <3>2, <4>1, <4>2
      <4> QED BY <3>1, <3>2, <4>1, <4>2, <4>3
    <3> QED BY <3>3, <3>4
  <2>4. ASSUME NEW k \in met PROVE k \in active' /\ entries'[k].expires = submitted + K
    <3>1. k \in active' /\ \E g \in guides : g.path = entries'[k].path /\ g.digest = entries'[k].digest
      BY DEF met
    <3>2. CASE k \in NewIds
      BY <1>9, <3>1, <3>2
    <3>3. CASE k \in active
      BY <1>2, <1>4, <3>1, <3>3 DEF Same
    <3> QED BY <1>4, <3>1, <3>2, <3>3
  <2>5. ASSUME NEW u \in uses', u[2] + K > submitted
        PROVE  \E k \in active' : entries'[k].path = entries'[u[1]].path /\ entries'[k].expires >= u[2] + K
    <3>1. CASE u \in uses
      BY <2>3, <2>5, <3>1
    <3>2. ASSUME NEW k \in met, u = <<k, submitted>>
          PROVE  \E l \in active' : entries'[l].path = entries'[u[1]].path /\ entries'[l].expires >= u[2] + K
      <4>1. u[1] = k /\ u[2] + K = submitted + K /\ submitted + K \in Nat
        BY <1>2, <3>2
      <4>2. entries'[k].expires >= u[2] + K
        BY <2>4, <4>1
      <4> QED BY <2>4, <4>1, <4>2
    <3> QED BY <1>3, <3>1, <3>2
  <2> QED BY <1>3, <2>1, <2>2, <2>5 DEF Leases
<1>16. ToolsSawTheirGuides'
  <2>1. ASSUME NEW t \in ran
        PROVE  \E k \in epochs'[t[1]].retained : entries'[k].path = t[2] /\ entries'[k].digest = t[3]
    <3>1. t[1] \in Requests /\ epochs[t[1]].retained \subseteq 1 .. m
      BY <1>1, <1>2, Indices DEF Typed, TypeOK
    <3>2. PICK k \in epochs[t[1]].retained : entries[k].path = t[2] /\ entries[k].digest = t[3]
      BY DEF IInv, ToolsSawTheirGuides
    <3> QED BY <1>4, <3>1, <3>2 DEF Relabelled
  <2>2. ASSUME Cleared(e, guides), NEW g \in guides
        PROVE  \E k \in epochs'[e].retained : entries'[k].path = g.path /\ entries'[k].digest = g.digest
    <3>1. PICK k \in active : entries[k].path = g.path /\ entries[k].digest = g.digest
      BY <2>2 DEF Cleared, Fresh, Known
    <3>2. active = epochs[e].retained
      BY <2>2 DEF Cleared, IInv, OpenGateShowsLease
    <3> QED BY <1>2, <1>4, <3>1, <3>2 DEF Relabelled
  <2>3. ASSUME NEW t \in ran'
        PROVE  \E k \in epochs'[t[1]].retained : entries'[k].path = t[2] /\ entries'[k].digest = t[3]
    <3>1. CASE t \in ran
      BY <2>1, <3>1
    <3>2. CASE t \notin ran
      <4>1. Cleared(e, guides) /\ \E g \in guides : t = <<e, g.path, g.digest>>
        BY <3>2
      <4> QED BY <2>2, <4>1
    <3> QED BY <3>1, <3>2
  <2> QED BY <2>3 DEF ToolsSawTheirGuides
<1>17. ShownForItsLifetime'
  <2> SUFFICES ASSUME NEW x \in Requests'
               PROVE  /\ \A k \in epochs'[x].retained : \E u \in uses' :
                           u[1] = k /\ u[2] < epochs'[x].ordinal /\ epochs'[x].ordinal <= u[2] + K
                      /\ \A u \in uses' : u[2] < epochs'[x].ordinal /\ epochs'[x].ordinal <= u[2] + K =>
                           \E k \in epochs'[x].retained : entries'[k].path = entries'[u[1]].path
    BY DEF ShownForItsLifetime
  <2>1. /\ x \in Requests /\ epochs'[x].ordinal = epochs[x].ordinal
        /\ epochs'[x].retained = epochs[x].retained /\ epochs[x].retained \subseteq 1 .. m
    BY <1>1, <1>2, <1>5, Indices DEF Relabelled
  <2>2. epochs[x].ordinal <= submitted /\ epochs[x].ordinal \in Nat
    BY <1>1, <2>1, Indices, Numbers DEF Steps, Epoch
  <2>3. \A u \in uses' : u \in uses \/ u[2] = submitted
    BY <1>3
  <2>4. \A u \in uses' : u[2] < epochs[x].ordinal => u \in uses
    BY <1>2, <2>2, <2>3
  <2>5. ASSUME NEW u \in uses, u[2] < epochs[x].ordinal, epochs[x].ordinal <= u[2] + K
        PROVE  \E k \in epochs[x].retained : entries'[k].path = entries'[u[1]].path
    <3>1. PICK k \in epochs[x].retained : entries[k].path = entries[u[1]].path
      BY <2>1, <2>5 DEF IInv, ShownForItsLifetime
    <3> QED BY <1>2, <1>4, <2>1, <3>1
  <2>6. \A k \in epochs[x].retained : \E u \in uses :
          u[1] = k /\ u[2] < epochs[x].ordinal /\ epochs[x].ordinal <= u[2] + K
    BY <2>1 DEF IInv, ShownForItsLifetime
  <2> QED BY <1>3, <2>1, <2>4, <2>5, <2>6
<1>18. OneRevisionShown'
  <2>1. \A x \in Requests : epochs[x].retained \subseteq 1 .. m
    BY <1>1, <1>2, Indices
  <2> QED BY <1>4, <1>5, <2>1 DEF IInv, OneRevisionShown, Relabelled
<1>19. OpenGateShowsLease'
  <2> SUFFICES ASSUME Permitted(epochs'[e], revision') PROVE active' = epochs'[e].retained
    BY <1>5 DEF OpenGateShowsLease
  <2>1. epochs[e].revision <= revision /\ epochs[e].revision \in Nat /\ epochs'[e].revision = revision'
    BY <1>1, Indices DEF Steps, Permitted, Epoch
  <2>2. Fresh(guides) = {}
    BY <1>2, <1>3, <2>1 DEF Relabelled
  <2>3. Permitted(epochs[e], revision)
    BY <1>8, <2>2 DEF Permitted, Relabelled
  <2> QED BY <1>8, <2>2, <2>3 DEF IInv, OpenGateShowsLease, Relabelled
<1> QED BY <1>12, <1>13, <1>14, <1>15, <1>16, <1>17, <1>18, <1>19 DEF IInv

(* The "before" of a tool: it runs only with a cleared gate. *)
LEMMA BeforeKeeps ==
  ASSUME IInv, NEW e \in Requests, NEW c \in Calls, NEW guides \in Resolutions, Before(e, c, guides)
  PROVE  IInv'
<1> DEFINE gated == IF Fresh(guides) = {} THEN epochs[e] ELSE [epochs[e] EXCEPT !.blocked = Current]
           admits == Permitted(gated, revision')
           shown == [gated EXCEPT !.admitted = gated.admitted \cup {c}]
           b == IF Fresh(guides) = {} THEN epochs[e].blocked ELSE Current
           a == IF admits THEN epochs[e].admitted \cup {c} ELSE epochs[e].admitted
<1>1. /\ ~pending /\ e = Current /\ Lease(e, guides)
      /\ epochs' = [epochs EXCEPT ![e] = IF admits THEN shown ELSE gated]
      /\ ran' = IF admits /\ failure' = "none" THEN ran \cup {<<e, g.path, g.digest>> : g \in guides}
                ELSE ran
  BY DEF Before, Observed
<1>2. Typed
  BY DEF IInv
<1>3. epochs[e] \in Epoch /\ Current \in 1 .. Limit
  BY <1>1, <1>2, Indices, Numbers
<1>4. a \in SUBSET Calls /\ b \in 0 .. Limit
  BY <1>3 DEF Epoch
<1>5. gated.admitted = epochs[e].admitted /\ gated.blocked = b
  BY <1>3 DEF Epoch
<1>6. (IF admits THEN shown ELSE gated) = [epochs[e] EXCEPT !.blocked = b, !.admitted = a]
  <2>1. gated = [epochs[e] EXCEPT !.blocked = b, !.admitted = epochs[e].admitted]
    BY <1>3 DEF Epoch
  <2>2. shown = [epochs[e] EXCEPT !.blocked = b, !.admitted = epochs[e].admitted \cup {c}]
    BY <1>3, <1>5 DEF Epoch
  <2> QED BY <2>1, <2>2
<1>7. Relabelled /\ epochs'[e].blocked = b
  <2> HIDE DEF gated, shown, admits, a, b
  <2> QED BY <1>1, <1>2, <1>4, <1>6, Regated
<1>8. admits => Cleared(e, guides)
  <2>1. admits => Fresh(guides) = {}
    BY <1>3, <1>5 DEF Permitted
  <2>2. Fresh(guides) = {} => revision' = revision /\ gated = epochs[e]
    BY <1>1 DEF Lease
  <2> QED BY <2>1, <2>2 DEF Cleared
<1>9. Fresh(guides) = {} => (epochs'[e].blocked = 0 => epochs[e].blocked = 0)
  BY <1>7
<1> HIDE DEF admits
<1> QED BY <1>1, <1>7, <1>8, <1>9, LeaseKeeps

(* The "after" of a tool runs nothing. *)
LEMMA AfterKeeps ==
  ASSUME IInv, NEW e \in Requests, NEW c \in Calls, NEW guides \in Resolutions, After(e, c, guides)
  PROVE  IInv'
<1> DEFINE b == IF Fresh(guides) = {} THEN epochs[e].blocked ELSE Current
           a == epochs[e].admitted \ {c}
<1>1. /\ ~pending /\ e = Current /\ Lease(e, guides) /\ ran' = ran
  BY DEF After, Observed
<1>2. epochs' = [epochs EXCEPT ![e].admitted = @ \ {c},
                               ![e].blocked = IF Fresh(guides) = {} THEN @ ELSE Current]
  BY DEF After
<1>3. Typed
  BY DEF IInv
<1>4. epochs[e] \in Epoch /\ Current \in 1 .. Limit /\ e \in DOMAIN epochs
  <2>1. e \in DOMAIN epochs
    BY DEF Requests
  <2>2. epochs[e] \in Epoch /\ Current \in 1 .. Limit
    BY <1>1, <1>3, Indices, Numbers
  <2> QED BY <2>1, <2>2
<1>5. a \in SUBSET Calls /\ b \in 0 .. Limit
  BY <1>4 DEF Epoch
<1>6. epochs' = [epochs EXCEPT ![e] = [epochs[e] EXCEPT !.blocked = b, !.admitted = a]]
  BY <1>2, <1>4 DEF Epoch
<1>7. Relabelled /\ epochs'[e].blocked = b
  <2> HIDE DEF a, b
  <2> QED BY <1>3, <1>5, <1>6, Regated
<1>8. Fresh(guides) = {} => (epochs'[e].blocked = 0 => epochs[e].blocked = 0)
  BY <1>7
<1> QED BY <1>1, <1>7, <1>8, LeaseKeeps

(* Callbacks that throw, and steps of nothing. *)
LEMMA RestKeeps ==
  ASSUME IInv, CallbackFails \/ Overflow \/ UNCHANGED vars
  PROVE  IInv'
<1>1. UNCHANGED state /\ uses' = uses /\ ran' = ran /\ failure' \in {"none", "error", "overflow"}
  BY DEF CallbackFails, Overflow, vars, IInv, Typed, TypeOK
<1>2. /\ submitted' = submitted /\ revision' = revision /\ entries' = entries /\ active' = active
      /\ epochs' = epochs /\ pending' = pending
  BY <1>1 DEF state
<1>3. Requests' = Requests /\ Current' = Current
  BY <1>2 DEF Requests, Current
<1>4. Typed'
  BY <1>1, <1>2, <1>3 DEF IInv, Typed, TypeOK
<1>5. Steps' /\ OneRevisionLeased' /\ Leases'
  BY <1>1, <1>2, <1>3 DEF IInv, Steps, OneRevisionLeased, Leases
<1>6. ToolsSawTheirGuides' /\ ShownForItsLifetime'
  BY <1>1, <1>2, <1>3 DEF IInv, ToolsSawTheirGuides, ShownForItsLifetime
<1>7. OneRevisionShown' /\ OpenGateShowsLease'
  BY <1>1, <1>2, <1>3 DEF IInv, OneRevisionShown, OpenGateShowsLease
<1> QED BY <1>4, <1>5, <1>6, <1>7 DEF IInv

LEMMA StepKeeps == IInv /\ [Next]_vars => IInv'
<1> SUFFICES ASSUME IInv, [Next]_vars PROVE IInv'
    OBVIOUS
<1>1. CASE Project
  BY <1>1, ProjectKeeps
<1>2. CASE Acknowledge
  BY <1>2, AcknowledgeKeeps
<1>3. ASSUME NEW e \in Requests, AccessPending(e) PROVE IInv'
  BY <1>3, PendingAccessKeeps
<1>4. ASSUME NEW e \in Requests, NEW c \in Calls, NEW guides \in Resolutions, Before(e, c, guides)
      PROVE  IInv'
  BY <1>4, BeforeKeeps
<1>5. ASSUME NEW e \in Requests, NEW c \in Calls, NEW guides \in Resolutions, After(e, c, guides)
      PROVE  IInv'
  BY <1>5, AfterKeeps
<1>6. CASE CallbackFails \/ Overflow \/ UNCHANGED vars
  BY <1>6, RestKeeps
<1> QED BY <1>1, <1>2, <1>3, <1>4, <1>5, <1>6 DEF Next

LEMMA Always == Spec => []IInv
<1>1. Init => IInv
  BY InitInv
<1>2. IInv /\ [Next]_vars => IInv'
  BY StepKeeps
<1> QED BY <1>1, <1>2, PTL DEF Spec

-----------------------------------------------------------------------------
(* The session's state is always well formed. *)
THEOREM Types == Spec => []TypeOK
<1>1. IInv => TypeOK
  BY DEF IInv, Typed
<1> QED BY <1>1, Always, PTL

(* No tool runs before its directory's guides were shown to the request    *)
(* whose program called it (the gate of directory_decay.ts "before").      *)
THEOREM SawTheirGuides == Spec => []ToolsSawTheirGuides
<1>1. IInv => ToolsSawTheirGuides
  BY DEF IInv
<1> QED BY <1>1, Always, PTL

(* A guide is shown in exactly the K acknowledged steps after a use of it  *)
(* (transform's retained entries), for every K.                            *)
THEOREM LeaseExact == Spec => []ShownForItsLifetime
<1>1. IInv => ShownForItsLifetime
  BY DEF IInv
<1> QED BY <1>1, Always, PTL

(* A request never shows two revisions of one guide: a new revision takes  *)
(* the place of the leased one.                                            *)
THEOREM OneRevision == Spec => []OneRevisionShown
<1>1. IInv => OneRevisionShown
  BY DEF IInv
<1> QED BY <1>1, Always, PTL

(* A request with an open gate shows the whole lease, so that its tools    *)
(* need nothing it did not show (permitted in directory_decay.ts).         *)
THEOREM OpenGate == Spec => []OpenGateShowsLease
<1>1. IInv => OpenGateShowsLease
  BY DEF IInv
<1> QED BY <1>1, Always, PTL
=============================================================================
