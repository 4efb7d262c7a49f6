---------------------------- MODULE DirectoryDecay ----------------------------
(***************************************************************************)
(* The directory guidance lease of one OpenCode session                    *)
(* (workers/opencode/directory_decay.ts): nested AGENTS.md guides become   *)
(* visible in the request after the tool access that met them, stay for K  *)
(* acknowledged model steps, and a tool runs only when the request that    *)
(* produced it showed the guides the tool touches.                         *)
(*                                                                         *)
(* The plugin's callbacks share one promise queue per session, so each is  *)
(* one action here; they may come in any order, from the current request's *)
(* program, from older programs still running, and as retries.  A guide is *)
(* its path and digest; message text, anchors and audit records are left   *)
(* out, but every audit write and resolver call may fail.                  *)
(***************************************************************************)
EXTENDS Integers, Sequences, FiniteSets

CONSTANTS
  Paths, Digests,  \* AGENTS.md files and their revisions
  Calls,           \* tool call ids, each with its program and tool
  K,               \* --directory-agents-decay-steps
  Limit,           \* the largest counter value, 2^64 - 1 in the code
  MaxRequests,     \* bound: requests projected
  MaxEntries       \* bound: guide activations

ASSUME DecayAssumption ==
  /\ Limit \in Nat /\ K \in 1 .. Limit
  /\ MaxRequests \in Nat /\ MaxEntries \in Nat

VARIABLES
  submitted,  \* acknowledged model steps
  revision,   \* counts changes of the active set
  entries,    \* activations ever made, the id of an entry is its index (owned)
  active,     \* ids of the entries now leased
  epochs,     \* requests, oldest first; the last one is current
  pending,    \* is the current request not yet acknowledged?
  failure,    \* why the session is poisoned
  \* history
  uses,       \* <<id, step>>: an access met entry id at that step
  ran         \* <<request, path, digest>>: a tool ran that touched this guide

state == <<submitted, revision, entries, active, epochs, pending>>
vars == <<state, failure, uses, ran>>

Guide == [path : Paths, digest : Digests]
Requests == DOMAIN epochs
Current == Len(epochs)   \* also s.sequence

TypeOK ==
  /\ submitted \in 0 .. Limit /\ revision \in 0 .. Limit
  /\ \A k \in DOMAIN entries :
       entries[k] \in [path : Paths, digest : Digests, expires : 0 .. Limit]
  /\ active \subseteq DOMAIN entries
  /\ \A e \in Requests :
       epochs[e] \in [ordinal : 1 .. Limit, revision : 0 .. Limit, acknowledged : BOOLEAN,
                      blocked : 0 .. Limit, admitted : SUBSET Calls,
                      retained : SUBSET (DOMAIN entries)]
  /\ pending \in BOOLEAN
  /\ failure \in {"none", "error", "overflow"}
  /\ uses \in SUBSET ((DOMAIN entries) \X (0 .. Limit))
  /\ ran \in SUBSET (Requests \X Paths \X Digests)

Init ==
  /\ submitted = 0 /\ revision = 0 /\ entries = << >> /\ active = {}
  /\ epochs = << >> /\ pending = FALSE /\ failure = "none"
  /\ uses = {} /\ ran = {}

-----------------------------------------------------------------------------
(* What a resolver may return: finitely many guides, one of a path. *)
Resolutions ==
  {G \in SUBSET Guide : IsFiniteSet(G) /\ \A g, h \in G : g.path = h.path => g = h}

Known(g) == \E k \in active : entries[k].path = g.path /\ entries[k].digest = g.digest

(* permitted: the request is acknowledged, shows the active set, and no    *)
(* access of its program has activated a guide since.                      *)
Permitted(epoch, rev) == epoch.acknowledged /\ epoch.blocked = 0 /\ epoch.revision = rev

(* observe *)
Observed(e) ==
  /\ e = Current /\ epochs[e].acknowledged
  /\ epochs[e].revision = revision \/ epochs[e].blocked = Current

-----------------------------------------------------------------------------
(* Any callback may throw before it changes the session: a resolver or     *)
(* audit write fails, an identity is missing, duplicate, superseded or     *)
(* unknown, a request overlaps a pending one, an anchor disappears, an     *)
(* acknowledged request is submitted again.  serial() then poisons the     *)
(* session: every later callback throws, and a "before" that throws runs   *)
(* no tool.                                                                *)
CallbackFails ==
  /\ failure = "none"
  /\ failure' = "error"
  /\ UNCHANGED <<state, uses, ran>>

(* The callback's last audit write fails after the session has changed. *)
LastAuditFails == failure' \in {"none", "error"}

(* messages.transform for a new inference: the snapshot it is sent with.   *)
(* (The same inference again gets a copy of its snapshot: no change.)      *)
Project ==
  /\ failure = "none" /\ ~pending
  /\ Current < MaxRequests /\ Current < Limit /\ submitted < Limit
  /\ epochs' = Append(epochs, [ordinal |-> submitted + 1, revision |-> revision,
                               acknowledged |-> FALSE, blocked |-> 0, admitted |-> {},
                               retained |-> {k \in active : entries[k].expires >= submitted + 1}])
  /\ pending' = TRUE
  /\ UNCHANGED <<submitted, revision, entries, active, failure, uses, ran>>

(* The provider's first response metadata: the step counts, once, and the  *)
(* entries the request did not show expire.  (Acknowledged again: audit    *)
(* record only.)                                                           *)
Acknowledge ==
  /\ failure = "none" /\ pending
  /\ active' = active \cap epochs[Current].retained
  /\ active' # active => revision < Limit
  /\ submitted' = epochs[Current].ordinal
  /\ revision' = IF active' = active THEN revision ELSE revision + 1
  /\ epochs' = [epochs EXCEPT ![Current].acknowledged = TRUE, ![Current].revision = revision']
  /\ pending' = FALSE
  /\ LastAuditFails
  /\ UNCHANGED <<entries, uses, ran>>

(* A tool callback while the current request is in flight: a "before" is   *)
(* denied and closes its own program's gate for this sequence.             *)
AccessPending(e) ==
  /\ failure = "none" /\ pending
  /\ epochs[e].acknowledged
  /\ epochs' = [epochs EXCEPT ![e].blocked = Current]
  /\ UNCHANGED <<submitted, revision, entries, active, pending, failure, uses, ran>>

(* Guides not leased in this revision get a new entry and message. *)
Fresh(guides) == {g \in guides : ~Known(g)}

NewEntries(fresh) ==
  {s \in [1 .. Cardinality(fresh) -> {[path |-> g.path, digest |-> g.digest,
                                       expires |-> submitted + K] : g \in fresh}] :
     \A i, j \in DOMAIN s : s[i] = s[j] => i = j}

(* Mutation: a use does not renew the lease. *)
Mut_Renewed(guides) == entries

(* A renewal changes only the deadline. *)
Renewed(guides) ==
  [k \in DOMAIN entries |->
     IF k \in active /\ \E g \in guides : g.path = entries[k].path /\ g.digest = entries[k].digest
       THEN [entries[k] EXCEPT !.expires = submitted + K]
       ELSE entries[k]]

(* Mutation: the old revision stays beside the new one. *)
Mut_Replaced(guides) == {}

(* A new revision takes the place of the leased one. *)
Replaced(guides) == {k \in active : \E g \in Fresh(guides) : g.path = entries[k].path}

(* The lease part of an access: active set, entries, revision, gate.       *)
Lease(e, guides) ==
  /\ submitted + K <= Limit
  /\ Len(entries) + Cardinality(Fresh(guides)) <= MaxEntries
  /\ Fresh(guides) # {} => revision < Limit
  /\ \E new \in NewEntries(Fresh(guides)) :
       /\ entries' = Renewed(guides) \o new
       /\ active' = (active \ Replaced(guides)) \cup (Len(entries) + 1 .. Len(entries'))
  /\ revision' = IF Fresh(guides) = {} THEN revision ELSE revision + 1
  /\ uses' = uses \cup {<<k, submitted>> :
                k \in {j \in active' : \E g \in guides :
                         g.path = entries'[j].path /\ g.digest = entries'[j].digest}}
  /\ LastAuditFails
  /\ UNCHANGED <<submitted, pending>>

(* Mutation: a call is admitted without having been shown its guides. *)
Mut_BeforeAdmitsActive(e, c, guides) ==
  /\ failure = "none" /\ ~pending
  /\ Observed(e) /\ c \notin epochs[e].admitted
  /\ Lease(e, guides)
  /\ epochs' = [epochs EXCEPT ![e].admitted = @ \cup {c}]
  /\ ran' = IF failure' # "none" THEN ran
            ELSE ran \cup {<<e, g.path, g.digest>> : g \in guides}

(* tool.execute.before: the tool runs when its request showed everything   *)
(* it touches; otherwise it is denied and its program's gate stays closed. *)
Before(e, c, guides) ==
  /\ failure = "none" /\ ~pending
  /\ Observed(e) /\ c \notin epochs[e].admitted
  /\ Lease(e, guides)
  /\ LET gated == IF Fresh(guides) = {} THEN epochs[e] ELSE [epochs[e] EXCEPT !.blocked = Current]
         admits == Permitted(gated, revision')
     IN  /\ epochs' = [epochs EXCEPT ![e] =
                         IF admits THEN [gated EXCEPT !.admitted = @ \cup {c}] ELSE gated]
         /\ ran' = IF admits /\ failure' = "none"
                     THEN ran \cup {<<e, g.path, g.digest>> : g \in guides}
                     ELSE ran

(* Mutation: the fallback does not close the gate. *)
Mut_AfterKeepsGateOpen(e, c, guides) ==
  /\ failure = "none" /\ ~pending
  /\ Observed(e) /\ c \in epochs[e].admitted
  /\ Lease(e, guides)
  /\ epochs' = [epochs EXCEPT ![e].admitted = @ \ {c}, ![e].revision = revision']
  /\ UNCHANGED ran

(* tool.execute.after: the fallback for scopes the "before" could not see. *)
After(e, c, guides) ==
  /\ failure = "none" /\ ~pending
  /\ Observed(e) /\ c \in epochs[e].admitted
  /\ Lease(e, guides)
  /\ epochs' = [epochs EXCEPT ![e].admitted = @ \ {c},
                              ![e].blocked = IF Fresh(guides) = {} THEN @ ELSE Current]
  /\ UNCHANGED ran

(* add() throws "Directory decay counter overflow" and poisons the session.*)
Overflow ==
  /\ failure = "none"
  /\ \/ ~pending /\ (Current = Limit \/ submitted = Limit)
     \/ pending /\ revision = Limit /\ ~ active \subseteq epochs[Current].retained
     \/ /\ ~pending
        /\ \E e \in Requests : Observed(e)
        /\ submitted + K > Limit \/ revision = Limit
  /\ failure' = "overflow"
  /\ UNCHANGED <<state, uses, ran>>

Next ==
  \/ Project \/ Acknowledge \/ CallbackFails \/ Overflow
  \/ \E e \in Requests :
       \/ AccessPending(e)
       \/ \E c \in Calls, guides \in Resolutions : Before(e, c, guides) \/ After(e, c, guides)

Spec == Init /\ [][Next]_vars

-----------------------------------------------------------------------------
(* No tool runs before its directory's guide was shown: the request whose  *)
(* program made the call carried every guide, in the revision the tool     *)
(* touched, whatever older programs, siblings and fallbacks did meanwhile. *)
ToolsSawTheirGuides ==
  \A t \in ran :
    \E k \in epochs[t[1]].retained : entries[k].path = t[2] /\ entries[k].digest = t[3]

(* A request shows a guide exactly in the K steps after one of its uses    *)
(* (docs/directory-guidance-decay.md, "Decay mechanics": steps s+1 through *)
(* s+K), whatever was retried, denied, renewed or unacknowledged between;  *)
(* only a new revision of the file replaces it earlier.                    *)
ShownForItsLifetime ==
  \A e \in Requests :
    LET Due(u) == u[2] < epochs[e].ordinal /\ epochs[e].ordinal <= u[2] + K
    IN  /\ \A k \in epochs[e].retained : \E u \in uses : u[1] = k /\ Due(u)
        /\ \A u \in uses : Due(u) =>
             \E k \in epochs[e].retained : entries[k].path = entries[u[1]].path

(* No request shows two revisions of one file. *)
OneRevisionShown ==
  \A e \in Requests : \A j, k \in epochs[e].retained :
    entries[j].path = entries[k].path => j = k

(* While a request's program may still run tools, the leased guides are    *)
(* exactly those the request showed.                                       *)
OpenGateShowsLease ==
  \A e \in Requests :
    e = Current /\ Permitted(epochs[e], revision) => active = epochs[e].retained
=============================================================================
