----------------------- MODULE DirectoryGuides_proofs -----------------------
(***************************************************************************)
(* The cumulative guide gate: what the hook reads off a command line       *)
(* (ShellScopes), and when a guide so found is claimed, shown and allowed  *)
(* to admit a call (GuideGate).                                            *)
(*                                                                         *)
(* ShellScopes, for any directory trees and links, every set of names and  *)
(* every line: as long as no name leads the shell elsewhere than the hook's *)
(* sight says, what the hook claims to know is what the shell has          *)
(* (KnownStateIsExact), so that each transition and each git scope it      *)
(* reports was made, and of a line without doubts all are reported.        *)
(* The argument is a simulation.  EffectIsExact says that the effect the   *)
(* hook computes for a command is what the command does to the shell when  *)
(* it runs; DecisionIsRight says that a command the hook takes (leaves     *)
(* out) does (does not) run.  A doubtful command keeps only what both      *)
(* outcomes share.  The operands of git -C are followed link by link where *)
(* the hook goes by their names (ChainIsGits).                             *)
(*                                                                         *)
(* GuideGate, for any directories, calls, revisions and attempts: GateInv. *)
(* Without the latch a waiting call has seen whatever the session shows,   *)
(* so that a call admitted with nothing new has seen all the hook found;   *)
(* and the anchored groups are the first ones managed, each with its place *)
(* in the last request, so that the next request only adds behind it.      *)
(***************************************************************************)
EXTENDS ShellScopes, GuideGate, NaturalsInduction, WellFoundedInduction, TLAPS

(* The naturals that are less, as the relation of the library's theorems   *)
(* on well-foundedness.                                                    *)
Less == {ss \in Nat \X Nat : ss[1] < ss[2]}

LEMMA Least ==
  ASSUME NEW T \in SUBSET Nat, T # {}
  PROVE  \E x \in T : \A y \in T : x <= y
<1>1. IsWellFoundedOn(Less, Nat)
  BY NatLessThanWellFounded DEF OpToRel, Less
<1>2. T \subseteq Nat
  OBVIOUS
<1>3. PICK x \in T : \A y \in T : ~ (<<y, x>> \in Less)
  <2>1. \E x \in T : \A y \in T : ~ (<<y, x>> \in Less)
    BY <1>1, <1>2, WFMin, Zenon
  <2> QED BY <2>1, Zenon
<1>4. ASSUME NEW y \in T PROVE x <= y
  <2>1. x \in Nat /\ y \in Nat /\ ~ (<<y, x>> \in Less)
    BY <1>2, <1>3
  <2>2. ~ (y < x)
    BY <2>1 DEF Less
  <2> QED BY <2>1, <2>2
<1> QED BY <1>4

(* Induction over a set.                                                   *)
LEMMA Induct ==
  ASSUME NEW T \in SUBSET Nat, 0 \in T, \A n \in T : n + 1 \in T
  PROVE  T = Nat
<1>1. SUFFICES ASSUME T # Nat PROVE FALSE
  OBVIOUS
<1>2. PICK x \in Nat \ T : \A y \in Nat \ T : x <= y
  BY <1>1, Least
<1>3. x - 1 \in T
  BY <1>2
<1> QED BY <1>2, <1>3

-----------------------------------------------------------------------------
(* The hook beside the shell.                                              *)

Typing ==
  /\ sight \in Trees /\ tree \in Trees /\ strayed \in BOOLEAN
  /\ current \in Path \cup {Unknown}
  /\ stack # Unknown => stack \in Seq(Path \cup {Unknown})
  /\ previous_status \in Statuses
  /\ cwd \in Path /\ dirstack \in Seq(Path)
  /\ status \in {"true", "false"}
  /\ line = "running"
  /\ position \in Nat

(* The shell's side of a state that the hook's claims <<c, s, st>> fit. *)
Fits(c, s, dir, dirs) ==
  /\ c # Unknown => c = dir
  /\ s # Unknown =>
       /\ Len(s) = Len(dirs)
       /\ \A i \in 1..Len(s) : s[i] # Unknown => s[i] = dirs[i]

IInv == Typing /\ KnownStateIsExact /\ TransitionsWereMade

LEMMA SightIsPath ==
  ASSUME Typing, NEW p \in Path, NEW n \in Names
  PROVE  /\ Sight[p][n] \in Path \cup {Missing} /\ Ground[p][n] \in Path \cup {Missing}
         /\ Sight[p][n] = IF Walk[p][n] \in sight THEN Walk[p][n] ELSE Missing
         /\ Ground[p][n] = IF Walk[p][n] \in tree THEN Real[Walk[p][n]] ELSE Missing
<1>1. sight \subseteq Path /\ tree \subseteq Path /\ Real \in [Path -> Path]
  BY TreeAssumption DEF Typing
<1> QED BY <1>1 DEF Sight, Ground

LEMMA LookupIsRight ==
  ASSUME Typing, Fits(current, stack, cwd, dirstack), NEW n \in Names, Decides(n)
  PROVE  Lookup(current, n) = Sight[cwd][n] /\ Sight[cwd][n] \in Path \cup {Missing}
<1>1. cwd \in Path /\ Start \in Path /\ Sight[cwd][n] \in Path \cup {Missing}
  BY TreeAssumption, SightIsPath DEF Typing
<1>2. CASE current = Unknown
  <2>1. n \in Absolute /\ Lookup(current, n) = Sight[Start][n]
    BY <1>2 DEF Decides, Lookup
  <2>2. Walk[Start][n] = Walk[cwd][n]
    BY <1>1, <2>1, TreeAssumption
  <2> QED BY <1>1, <2>1, <2>2, SightIsPath
<1>3. CASE current # Unknown
  BY <1>1, <1>3 DEF Fits, Lookup
<1> QED BY <1>2, <1>3

LEMMA Commands ==
  ASSUME NEW c \in Command
  PROVE  \/ c.name \in {"true", "false", "plain", "dynamic", "popd", "popdN"}
            /\ c.arg = Dynamic
         \/ c.name \in Changes /\ c.arg \in Names \cup {Dynamic}
         \/ c.name = "git"
BY DEF Command, Changes

(* The effect computed for a command fits what the command does when it    *)
(* runs.                                                                   *)
Exact(e) ==
  /\ e.current \in Path \cup {Unknown}
  /\ e.stack # Unknown => e.stack \in Seq(Path \cup {Unknown})
  /\ Fits(e.current, e.stack, cwd', dirstack')
  /\ e.status \in Statuses
  /\ e.status # "unknown" => e.status = status'
  /\ e.moves \subseteq visited'

LEMMA SameIsExact ==
  ASSUME Typing, Fits(current, stack, cwd, dirstack), NEW s \in Statuses,
         UNCHANGED <<cwd, dirstack>>, s # "unknown" => s = status'
  PROVE  Exact(Same(s))
BY DEF Same, Exact, Typing, Fits, Statuses

LEMMA EnteredIsExact ==
  ASSUME Typing, Fits(current, stack, cwd, dirstack),
         NEW c, c.name \in Changes, c.arg \in Names, Decides(c.arg),
         CdLiteral(c), ~ strayed', Sight[cwd][c.arg] # Missing
  PROVE  Exact(Entered(c))
<1> DEFINE e == Entered(c)
           l == Lookup(current, c.arg)
<1>1. l = Sight[cwd][c.arg] /\ l \in Path
  BY LookupIsRight
<1>2. Goes(c, c.arg) = l
  BY <1>1 DEF CdLiteral
<1>3. /\ cwd' = l /\ status' = "true"
      /\ dirstack' = IF c.name = "pushd" THEN Append(dirstack, cwd) ELSE dirstack
      /\ visited' = visited \cup {Real[l]}
  <2>1. l # Missing
    BY <1>1
  <2> QED BY <1>2, <2>1 DEF CdLiteral
<1>4. /\ e.current = l /\ e.status = "true" /\ e.moves = {Real[l]}
      /\ e.stack = IF c.name = "pushd" /\ stack # Unknown THEN Append(stack, current) ELSE stack
  BY DEF Entered
<1> HIDE DEF e, l
<1>5. CASE c.name = "pushd" /\ stack # Unknown
  <2>1. /\ stack \in Seq(Path \cup {Unknown}) /\ current \in Path \cup {Unknown}
        /\ dirstack \in Seq(Path) /\ cwd \in Path
        /\ e.stack = Append(stack, current) /\ dirstack' = Append(dirstack, cwd)
    BY <1>3, <1>4, <1>5 DEF Typing
  <2>2. e.stack \in Seq(Path \cup {Unknown}) /\ Len(e.stack) = Len(stack) + 1
    BY <2>1
  <2>3. Len(dirstack') = Len(e.stack)
    BY <1>5, <2>1 DEF Fits
  <2>4. ASSUME NEW i \in 1..Len(e.stack), e.stack[i] # Unknown
        PROVE  e.stack[i] = dirstack'[i]
    <3>1. CASE i = Len(stack) + 1
      <4>1. e.stack[i] = current /\ current # Unknown
        BY <2>1, <2>4, <3>1
      <4>2. Len(dirstack) = Len(stack)
        BY <1>5 DEF Fits
      <4>3. dirstack'[i] = cwd
        BY <2>1, <3>1, <4>2
      <4> QED BY <4>1, <4>3 DEF Fits
    <3>2. CASE i # Len(stack) + 1
      <4>1. i \in 1..Len(stack) /\ e.stack[i] = stack[i] /\ dirstack'[i] = dirstack[i]
        BY <1>5, <2>1, <2>2, <3>2 DEF Fits
      <4> QED BY <1>5, <2>4, <4>1 DEF Fits
    <3> QED BY <3>1, <3>2
  <2>5. Fits(e.current, e.stack, cwd', dirstack')
    BY <1>3, <1>4, <2>3, <2>4 DEF Fits
  <2> QED BY <1>1, <1>3, <1>4, <2>2, <2>5 DEF Exact, Statuses, e
<1>6. CASE ~ (c.name = "pushd" /\ stack # Unknown)
  <2>1. e.stack = stack /\ (stack # Unknown => dirstack' = dirstack)
    BY <1>3, <1>4, <1>6
  <2>2. Fits(e.current, e.stack, cwd', dirstack')
    BY <1>3, <1>4, <2>1 DEF Fits
  <2> QED BY <1>1, <1>3, <1>4, <2>1, <2>2 DEF Exact, Statuses, Typing, e
<1> QED BY <1>5, <1>6

LEMMA ChangeIsExact ==
  ASSUME Typing, Fits(current, stack, cwd, dirstack),
         NEW c \in Command, c.name \in Changes, Execute(c), ~ strayed'
  PROVE  Exact(Change(c))
<1>1. c.arg \in Names \cup {Dynamic}
  BY Commands DEF Changes
<1>2. c.arg # Dynamic => CdLiteral(c)
  BY DEF Execute, Plain, CdAdrift, CdDynamic, AnyStack, Popd, Git, Changes
<1>3. CASE ~ Decides(c.arg)
  <2>1. /\ Change(c).current = Unknown /\ Change(c).status = "unknown" /\ Change(c).moves = {}
        /\ Change(c).stack = IF c.name = "pushd" THEN Unknown ELSE stack
    BY <1>3 DEF Change, Same
  <2>2. c.name # "pushd" => dirstack' = dirstack
    <3>1. c.arg = Dynamic => CdDynamic(c) \/ c.name = "pushd"
      BY DEF Execute, Plain, CdLiteral, CdAdrift, AnyStack, Popd, Git, Changes
    <3> QED BY <1>2, <3>1 DEF CdLiteral, CdDynamic, Elsewhere
  <2> QED BY <2>1, <2>2 DEF Exact, Fits, Typing, Statuses
<1>4. CASE Decides(c.arg)
  <2>1. c.arg \in Names /\ CdLiteral(c)
    BY <1>1, <1>2, <1>4 DEF Decides
  <2>2. Goes(c, c.arg) = Sight[cwd][c.arg] /\ Lookup(current, c.arg) = Sight[cwd][c.arg]
    BY <1>4, <2>1, LookupIsRight DEF CdLiteral
  <2>3. CASE Sight[cwd][c.arg] = Missing
    <3>1. Change(c) = Same("false")
      BY <1>4, <2>2, <2>3 DEF Change
    <3>2. status' = "false" /\ UNCHANGED <<cwd, dirstack>>
      BY <2>1, <2>2, <2>3 DEF CdLiteral
    <3> QED BY <3>1, <3>2, SameIsExact DEF Statuses
  <2>4. CASE Sight[cwd][c.arg] # Missing
    <3>1. Change(c) = Entered(c)
      BY <1>4, <2>2, <2>4 DEF Change
    <3> QED BY <1>4, <2>1, <2>4, <3>1, EnteredIsExact
  <2> QED BY <2>3, <2>4
<1> QED BY <1>3, <1>4

LEMMA PopIsExact ==
  ASSUME Typing, Fits(current, stack, cwd, dirstack),
         NEW c \in Command, c.name = "popd", Execute(c), ~ strayed'
  PROVE  Exact(Pop)
<1>1. Popd(c)
  BY DEF Execute, Plain, CdLiteral, CdAdrift, CdDynamic, AnyStack, Popd, Git, Changes
<1>2. CASE stack = Unknown
  <2>1. Pop.current = Unknown /\ Pop.stack = Unknown /\ Pop.status = "unknown" /\ Pop.moves = {}
    BY <1>2 DEF Pop, Same
  <2> QED BY <2>1 DEF Exact, Fits, Statuses
<1>3. CASE stack # Unknown /\ stack = <<>>
  <2>1. dirstack = <<>>
    BY <1>3 DEF Typing, Fits
  <2>2. Pop = Same("false") /\ status' = "false" /\ UNCHANGED <<cwd, dirstack>>
    BY <1>1, <1>3, <2>1 DEF Pop, Popd
  <2> QED BY <2>2, SameIsExact DEF Statuses
<1>4. CASE stack # Unknown /\ stack # <<>>
  <2>1. /\ stack \in Seq(Path \cup {Unknown}) /\ dirstack \in Seq(Path)
        /\ Len(stack) = Len(dirstack) /\ Len(stack) \in Nat \ {0}
        /\ \A i \in 1..Len(stack) : stack[i] # Unknown => stack[i] = dirstack[i]
    BY <1>4 DEF Typing, Fits
  <2> DEFINE top == stack[Len(stack)]
             k == Len(stack) - 1
  <2>2. dirstack # <<>>
    BY <2>1
  <2>3. /\ cwd' = dirstack[Len(stack)] /\ dirstack' = SubSeq(dirstack, 1, k)
        /\ status' = "true" /\ visited' = visited \cup {Real[dirstack[Len(stack)]]}
    <3>1. Last(dirstack) \in tree
      BY <1>1, <2>2 DEF Popd
    <3> QED BY <1>1, <2>1, <2>2, <3>1 DEF Popd, Last, Front
  <2>4. /\ Pop.current = top /\ Pop.stack = SubSeq(stack, 1, k) /\ Pop.status = "true"
        /\ Pop.moves = {Real[p] : p \in {top} \ {Unknown}}
    BY <1>4 DEF Pop, Last, Front
  <2>5. top \in Path \cup {Unknown} /\ (top # Unknown => top = cwd')
    BY <2>1, <2>3
  <2>6. /\ SubSeq(stack, 1, k) \in Seq(Path \cup {Unknown})
        /\ Len(SubSeq(stack, 1, k)) = k /\ Len(SubSeq(dirstack, 1, k)) = k
        /\ \A i \in 1..k : /\ SubSeq(stack, 1, k)[i] = stack[i]
                          /\ SubSeq(dirstack, 1, k)[i] = dirstack[i]
                          /\ i \in 1..Len(stack)
    BY <2>1
  <2>7. Fits(Pop.current, Pop.stack, cwd', dirstack')
    <3>1. Len(Pop.stack) = k /\ Len(dirstack') = k
      BY <2>3, <2>4, <2>6
    <3>2. ASSUME NEW i \in 1..k, Pop.stack[i] # Unknown
          PROVE  Pop.stack[i] = dirstack'[i]
      <4>1. Pop.stack[i] = stack[i] /\ dirstack'[i] = dirstack[i] /\ i \in 1..Len(stack)
        BY <2>3, <2>4, <2>6
      <4> QED BY <2>1, <3>2, <4>1
    <3> QED BY <2>4, <2>5, <3>1, <3>2 DEF Fits
  <2>8. Pop.moves \subseteq visited'
    BY <2>3, <2>4, <2>5
  <2> QED BY <2>3, <2>4, <2>5, <2>6, <2>7, <2>8 DEF Exact, Statuses
<1> QED BY <1>2, <1>3, <1>4

LEMMA EffectIsExact ==
  ASSUME Typing, Fits(current, stack, cwd, dirstack),
         NEW c \in Command, Execute(c), ~ strayed'
  PROVE  Exact(Effect(c))
<1>1. CASE c.name \in {"true", "false"}
  <2>1. Effect(c) = Same(c.name) /\ Ends(c.name)
    BY <1>1 DEF Effect, Execute, Plain, CdLiteral, CdAdrift, CdDynamic, AnyStack, Popd, Git, Changes
  <2> QED BY <1>1, <2>1, SameIsExact DEF Ends, Statuses
<1>2. CASE c.name \in Changes
  <2>1. Effect(c) = Change(c)
    BY <1>2 DEF Effect, Changes
  <2> QED BY <1>2, <2>1, ChangeIsExact
<1>3. CASE c.name = "popd"
  <2>1. Effect(c) = Pop
    BY <1>3 DEF Effect, Changes
  <2> QED BY <1>3, <2>1, PopIsExact
<1>4. CASE c.name = "git"
  <2>1. /\ Effect(c).current = current /\ Effect(c).stack = stack
        /\ Effect(c).status = "unknown" /\ Effect(c).moves = {}
    BY <1>4 DEF Effect, Same, Changes
  <2>2. UNCHANGED <<cwd, dirstack>>
    BY <1>4 DEF Execute, Plain, CdLiteral, CdAdrift, CdDynamic, AnyStack, Popd, Git, Changes
  <2> QED BY <2>1, <2>2 DEF Exact, Typing, Fits, Statuses
<1>5. CASE c.name \in {"dynamic", "popdN"}
  <2>1. /\ Effect(c).current = Unknown /\ Effect(c).stack = Unknown
        /\ Effect(c).status = "unknown" /\ Effect(c).moves = {}
    BY <1>5 DEF Effect, Lost, Same, Changes
  <2> QED BY <2>1 DEF Exact, Fits, Statuses
<1>6. CASE c.name = "plain"
  <2>1. Effect(c) = Same("unknown")
    BY <1>6 DEF Effect, Changes
  <2>2. UNCHANGED <<cwd, dirstack>>
    BY <1>6 DEF Execute, Plain, Ends, CdLiteral, CdAdrift, CdDynamic, AnyStack, Popd, Git, Changes
  <2> QED BY <2>1, <2>2, SameIsExact DEF Statuses
<1> QED BY <1>1, <1>2, <1>3, <1>4, <1>5, <1>6, Commands

(* A command the hook follows runs, and one it passes over does not.       *)
LEMMA DecisionIsRight ==
  ASSUME Typing, ~ strayed, KnownStateIsExact, NEW sep \in Separators, position = 0 => sep = "semi"
  PROVE  /\ ShouldRun(sep) = "true" => Runs(sep)
         /\ ShouldRun(sep) = "false" => ~ Runs(sep)
         /\ ShouldRun(sep) \in Statuses
<1>1. sep # "semi" /\ previous_status # "unknown" => previous_status = status
  <2>1. sep # "semi" => position > 0
    BY DEF Typing
  <2>2. previous_status # "unknown" /\ position > 0 => previous_status = status
    BY Zenon DEF KnownStateIsExact
  <2> QED BY <2>1, <2>2
<1> QED BY <1>1 DEF ShouldRun, Runs, Negation, Separators, Statuses, Typing

LEMMA KnownIsFits ==
  ASSUME ~ strayed
  PROVE  KnownStateIsExact <=>
    /\ Fits(current, stack, cwd, dirstack)
    /\ previous_status # "unknown" /\ position > 0 => previous_status = status
BY DEF KnownStateIsExact, Fits

LEMMA ShellTyping ==
  ASSUME Typing, NEW c \in Command, Execute(c)
  PROVE  /\ cwd' \in Path /\ dirstack' \in Seq(Path)
         /\ status' \in {"true", "false"} /\ line' = "running"
         /\ tree' \in Trees /\ strayed' \in BOOLEAN /\ (strayed => strayed')
         /\ visited \subseteq visited'
<1> USE DEF Typing
<1>1. CASE Plain(c)
  BY <1>1 DEF Plain, Ends
<1>2. CASE CdLiteral(c)
  <2>1. CASE Goes(c, c.arg) = Missing
    BY <1>2, <2>1 DEF CdLiteral
  <2>2. CASE Goes(c, c.arg) # Missing
    <3>1. c.arg \in Names
      BY <1>2, Commands DEF CdLiteral, Changes
    <3>2. Real[cwd] \in Path /\ tree \subseteq Path
      BY TreeAssumption
    <3>3. Goes(c, c.arg) \in Path
      BY <2>2, <3>1, <3>2, SightIsPath DEF Goes
    <3> QED BY <1>2, <2>2, <3>3 DEF CdLiteral
  <2> QED BY <2>1, <2>2
<1>3. tree' \in Trees => tree' \subseteq Path
  BY TreeAssumption
<1>4. Stacks \subseteq Seq(Path)
  BY DEF Stacks
<1>5. CASE CdAdrift(c) \/ CdDynamic(c) \/ AnyStack(c)
  <2>1. /\ tree' \in Trees
        /\ Elsewhere(Stacks) \/ Elsewhere({dirstack})
    BY <1>5 DEF CdAdrift, CdDynamic, AnyStack
  <2>2. strayed' \in BOOLEAN /\ (strayed => strayed')
    BY <1>5, Zenon DEF CdAdrift, CdDynamic, AnyStack
  <2>3. /\ cwd' \in tree' \cup {cwd} /\ dirstack' \in Stacks \cup {dirstack}
        /\ status' \in {"true", "false"} /\ line' = line /\ visited \subseteq visited'
    BY <2>1 DEF Elsewhere
  <2>4. cwd' \in Path /\ dirstack' \in Seq(Path)
    BY <1>3, <1>4, <2>1, <2>3
  <2> QED BY <2>1, <2>2, <2>3, <2>4
<1>6. CASE Popd(c)
  <2>1. CASE dirstack = <<>> \/ Last(dirstack) \notin tree
    BY <1>6, <2>1 DEF Popd
  <2>2. CASE ~ (dirstack = <<>> \/ Last(dirstack) \notin tree)
    <3>1. Last(dirstack) \in Path /\ Front(dirstack) \in Seq(Path)
      BY <2>2 DEF Last, Front
    <3> QED BY <1>6, <2>2, <3>1 DEF Popd
  <2> QED BY <2>1, <2>2
<1>7. CASE Git(c)
  <2>1. strayed' \in BOOLEAN /\ (strayed => strayed')
    <3>1. CASE GitLiteral(c)
      <4> DEFINE apart == ~ Agree(LogicalTrail(c.arg), GitTrail(c.arg))
      <4>1. strayed' = (strayed \/ apart)
        BY <3>1 DEF GitLiteral
      <4> HIDE DEF apart
      <4> QED BY <4>1
    <3>2. CASE GitElsewhere(c)
      <4>1. strayed' = strayed \/ strayed' = TRUE
        BY <3>2, Zenon DEF GitElsewhere
      <4> QED BY <4>1
    <3> QED BY <1>7, <3>1, <3>2 DEF Git
  <2>2. /\ tree' \in Trees /\ status' \in {"true", "false"}
        /\ UNCHANGED <<cwd, dirstack, line, visited>>
    BY <1>7 DEF Git
  <2> QED BY <2>1, <2>2
<1> QED BY <1>1, <1>2, <1>5, <1>6, <1>7 DEF Execute

HookTyping ==
  /\ current \in Path \cup {Unknown}
  /\ stack # Unknown => stack \in Seq(Path \cup {Unknown})
  /\ previous_status \in Statuses

(* The hook keeps to its types whatever the shell does. *)
LEMMA EffectTyping ==
  ASSUME Typing, NEW c \in Command
  PROVE  LET e == Effect(c)
         IN  /\ e.current \in Path \cup {Unknown}
             /\ e.stack # Unknown => e.stack \in Seq(Path \cup {Unknown})
             /\ e.status \in Statuses
<1> USE DEF Typing
<1>1. \A s \in Statuses :
        /\ Same(s).current \in Path \cup {Unknown}
        /\ Same(s).stack # Unknown => Same(s).stack \in Seq(Path \cup {Unknown})
        /\ Same(s).status \in Statuses
  <2>1. ASSUME NEW s \in Statuses
        PROVE  Same(s).current = current /\ Same(s).stack = stack /\ Same(s).status = s
    BY DEF Same
  <2> QED BY <2>1
<1>2. CASE c.name \in {"true", "false"}
  <2>1. Effect(c) = Same(c.name)
    BY <1>2 DEF Effect, Changes
  <2>2. c.name \in Statuses
    BY <1>2 DEF Statuses
  <2> QED BY <1>1, <2>1, <2>2
<1>3. CASE c.name \in Changes
  <2>1. Effect(c) = Change(c) /\ c.arg \in Names \cup {Dynamic}
    BY <1>3, Commands DEF Effect, Changes
  <2>2. CASE ~ Decides(c.arg)
    BY <2>1, <2>2 DEF Change, Same, Statuses
  <2>3. CASE Decides(c.arg) /\ Lookup(current, c.arg) = Missing
    BY <1>1, <2>1, <2>3 DEF Change, Statuses
  <2>4. CASE Decides(c.arg) /\ Lookup(current, c.arg) # Missing
    <3>1. Effect(c) = Entered(c)
      BY <2>1, <2>4 DEF Change
    <3>2. c.arg \in Names /\ Start \in Path
      BY <2>1, <2>4, TreeAssumption DEF Decides
    <3>3. Lookup(current, c.arg) \in Path
      BY <2>4, <3>2, SightIsPath DEF Lookup
    <3> QED BY <3>1, <3>3 DEF Entered, Statuses
  <2> QED BY <2>2, <2>3, <2>4
<1>4. CASE c.name = "popd"
  <2>1. Effect(c) = Pop
    BY <1>4 DEF Effect, Changes
  <2>2. CASE stack = Unknown
    BY <2>1, <2>2 DEF Pop, Same, Statuses
  <2>3. CASE stack # Unknown /\ stack = <<>>
    BY <1>1, <2>1, <2>3 DEF Pop, Statuses
  <2>4. CASE stack # Unknown /\ stack # <<>>
    <3>1. Last(stack) \in Path \cup {Unknown} /\ Front(stack) \in Seq(Path \cup {Unknown})
      BY <2>4 DEF Last, Front
    <3> QED BY <2>1, <2>4, <3>1 DEF Pop, Statuses
  <2> QED BY <2>2, <2>3, <2>4
<1>5. CASE c.name = "git"
  BY <1>5 DEF Effect, Same, Statuses, Changes
<1>6. CASE c.name \in {"dynamic", "popdN"}
  BY <1>6 DEF Effect, Lost, Same, Statuses, Changes
<1>7. CASE c.name = "plain"
  BY <1>1, <1>7 DEF Effect, Statuses, Changes
<1> QED BY <1>2, <1>3, <1>4, <1>5, <1>6, <1>7, Commands

LEMMA StepTyping ==
  ASSUME Typing, NEW sep \in Separators, NEW c \in Command, Step(sep, c)
  PROVE  Typing' /\ (strayed => strayed') /\ position' > 0
<1>1. HookTyping'
  <2>1. HookTyping
    BY DEF Typing, HookTyping
  <2>2. CASE UNCHANGED hook
    BY <2>1, <2>2 DEF hook, HookTyping
  <2>3. CASE Follow(c)
    BY <2>3, EffectTyping DEF Follow, HookTyping
  <2>4. CASE Doubt(sep, c)
    BY <2>1, <2>4, EffectTyping DEF Doubt, HookTyping, Statuses
  <2> QED BY <2>2, <2>3, <2>4 DEF Step, Analyse
<1>2. position' \in Nat /\ position' > 0 /\ sight' \in Trees
  BY DEF Step, Typing
<1>3. CASE Execute(c)
  <2>1. /\ cwd' \in Path /\ dirstack' \in Seq(Path)
        /\ status' \in {"true", "false"} /\ line' = "running"
        /\ tree' \in Trees /\ strayed' \in BOOLEAN /\ (strayed => strayed')
    BY <1>3, ShellTyping
  <2> QED BY <1>1, <1>2, <2>1 DEF Typing, HookTyping
<1>4. CASE UNCHANGED shell
  BY <1>1, <1>2, <1>4 DEF Typing, HookTyping, shell
<1> QED BY <1>3, <1>4 DEF Step

(* A command that runs keeps the invariant whatever the hook decided; one  *)
(* that does not run is never followed.                                    *)
LEMMA StepKeeps ==
  ASSUME IInv, NEW sep \in Separators, NEW c \in Command, Step(sep, c)
  PROVE  IInv'
<1>0. Typing' /\ (strayed => strayed')
  BY StepTyping DEF IInv
<1> SUFFICES ASSUME ~ strayed' PROVE IInv'
  BY <1>0 DEF IInv, KnownStateIsExact, TransitionsWereMade
<1>1. /\ Typing /\ ~ strayed /\ KnownStateIsExact /\ Fits(current, stack, cwd, dirstack)
      /\ transitions \subseteq visited
  BY <1>0, KnownIsFits DEF IInv, TransitionsWereMade
<1>2. position' = position + 1 /\ position' \in Nat
  BY <1>1 DEF Step, Typing
<1>3. /\ ShouldRun(sep) = "true" => Runs(sep)
      /\ ShouldRun(sep) = "false" => ~ Runs(sep)
      /\ ShouldRun(sep) \in Statuses
  BY <1>1, DecisionIsRight DEF Step
<1> DEFINE e == Effect(c)
           Shell == /\ cwd' \in Path /\ dirstack' \in Seq(Path)
                    /\ status' \in {"true", "false"} /\ line' = "running"
                    /\ visited \subseteq visited'
           Hook == /\ current' \in Path \cup {Unknown}
                   /\ stack' # Unknown => stack' \in Seq(Path \cup {Unknown})
                   /\ previous_status' \in Statuses
                   /\ Fits(current', stack', cwd', dirstack')
                   /\ previous_status' # "unknown" => previous_status' = status'
                   /\ transitions' \subseteq visited'
<1>4. CASE Runs(sep)
  <2>1. Execute(c)
    BY <1>4 DEF Step
  <2>2. Shell
    BY <1>1, <2>1, ShellTyping
  <2>3. Exact(e)
    BY <1>1, <2>1, EffectIsExact
  <2> HIDE DEF e
  <2>4. ASSUME Follow(c) PROVE Hook
    <3>1. /\ current' = e.current /\ stack' = e.stack /\ previous_status' = e.status
          /\ transitions' = transitions \cup e.moves
      BY <2>4 DEF Follow, e
    <3>2. Fits(current', stack', cwd', dirstack') /\ transitions' \subseteq visited'
      BY <1>1, <2>2, <2>3, <3>1 DEF Exact
    <3> QED BY <2>3, <3>1, <3>2 DEF Exact
  <2>5. ASSUME Doubt(sep, c) PROVE Hook
    <3>1. /\ current' = IF e.current = current THEN current ELSE Unknown
          /\ stack' = IF e.stack = stack THEN stack ELSE Unknown
          /\ previous_status' \in {e.status, "unknown"}
          /\ transitions' = transitions
      BY <2>5 DEF Doubt, e
    <3>2. Fits(current', stack', cwd', dirstack')
      BY <2>3, <3>1 DEF Exact, Fits
    <3>3. /\ current' \in Path \cup {Unknown} /\ previous_status' \in Statuses
          /\ stack' # Unknown => stack' \in Seq(Path \cup {Unknown})
          /\ previous_status' # "unknown" => previous_status' = status'
      BY <1>1, <2>3, <3>1 DEF Exact, Typing, Statuses
    <3>4. transitions' \subseteq visited'
      BY <1>1, <2>2, <3>1
    <3> QED BY <3>2, <3>3, <3>4
  <2>6. Follow(c) \/ Doubt(sep, c)
    BY <1>3, <1>4 DEF Step, Analyse
  <2>7. Hook
    BY <2>4, <2>5, <2>6
  <2> QED BY <1>0, <2>7 DEF IInv, TransitionsWereMade, KnownStateIsExact, Fits
<1>5. CASE ~ Runs(sep)
  <2>1. UNCHANGED shell
    BY <1>5 DEF Step
  <2>2. Shell
    BY <1>1, <2>1 DEF shell, Typing
  <2>3. ASSUME UNCHANGED hook, ShouldRun(sep) = "false" PROVE Hook
    <3>1. previous_status # "unknown" => previous_status = status
      BY <2>3, <1>1 DEF ShouldRun, Negation, Separators, KnownStateIsExact, Step, Typing
    <3>2. /\ current' = current /\ stack' = stack /\ previous_status' = previous_status
          /\ transitions' = transitions /\ cwd' = cwd /\ dirstack' = dirstack
          /\ status' = status /\ visited' = visited
      BY <2>1, <2>3 DEF hook, shell
    <3> QED BY <1>1, <3>1, <3>2 DEF Typing
  <2>4. ASSUME Doubt(sep, c), ShouldRun(sep) = "unknown" PROVE Hook
    <3>1. /\ current' = IF e.current = current THEN current ELSE Unknown
          /\ stack' = IF e.stack = stack THEN stack ELSE Unknown
          /\ previous_status' = IF <<sep, e.status>> \in {<<"and", "false">>, <<"or", "true">>}
                                THEN e.status ELSE "unknown"
          /\ transitions' = transitions
      BY <2>4 DEF Doubt
    <3>2. Fits(current', stack', cwd', dirstack')
      BY <1>1, <2>1, <3>1 DEF Fits, shell
    <3>3. previous_status' # "unknown" => previous_status' = status'
      BY <1>1, <1>5, <2>1, <2>4, <3>1 DEF Runs, Typing, shell, Separators
    <3>4. previous_status' \in Statuses
      BY <3>1 DEF Statuses
    <3>5. /\ current' \in Path \cup {Unknown}
          /\ stack' # Unknown => stack' \in Seq(Path \cup {Unknown})
      BY <1>1, <3>1 DEF Typing
    <3>6. transitions' \subseteq visited'
      BY <1>1, <2>1, <3>1 DEF shell
    <3> QED BY <3>2, <3>3, <3>4, <3>5, <3>6
  <2>5. ShouldRun(sep) # "true" /\ Analyse(sep, c)
    BY <1>3, <1>5 DEF Step
  <2>6. \/ UNCHANGED hook /\ ShouldRun(sep) = "false"
        \/ Doubt(sep, c) /\ ShouldRun(sep) = "unknown"
    BY <2>5 DEF Analyse
  <2>7. Hook
    BY <2>3, <2>4, <2>6
  <2> QED BY <1>0, <2>7 DEF IInv, TransitionsWereMade, KnownStateIsExact, Fits
<1> QED BY <1>4, <1>5

LEMMA Start0 == Init => IInv
<1> SUFFICES ASSUME Init PROVE IInv
  OBVIOUS
<1>1. strayed \in BOOLEAN
  BY Zenon DEF Init
<1>2. Typing
  BY <1>1, TreeAssumption DEF Init, Typing, Statuses
<1>3. KnownStateIsExact /\ TransitionsWereMade
  BY TreeAssumption DEF Init, KnownStateIsExact, TransitionsWereMade
<1> QED BY <1>2, <1>3 DEF IInv

(* What the hook knows of a command line is so, and each transition it     *)
(* reports was made, for all trees and links, until a name leads the shell *)
(* elsewhere than the tree the hook sees (_literal_shell_scopes).          *)
THEOREM Soundness == Spec => [](KnownStateIsExact /\ TransitionsWereMade)
<1>1. IInv /\ [Next]_vars => IInv'
  <2>1. ASSUME IInv, Next PROVE IInv'
    BY <2>1, StepKeeps DEF Next
  <2>2. ASSUME IInv, UNCHANGED vars PROVE IInv'
    BY <2>2 DEF vars, hook, shell, IInv, Typing, KnownStateIsExact, TransitionsWereMade
  <2> QED BY <2>1, <2>2
<1>2. IInv => KnownStateIsExact /\ TransitionsWereMade
  BY DEF IInv
<1> QED BY <1>1, <1>2, Start0, PTL DEF Spec

-----------------------------------------------------------------------------
(* The operands of git -C.                                                 *)

IsTrail(f, step, first, rest, n) ==
  f = [i \in 0..n |-> IF i = 0 THEN first
                      ELSE IF f[i - 1] = Missing THEN Missing ELSE step[f[i - 1]][rest[i]]]

(* A trail exists, by induction on its length, so that Trail is one.       *)
LEMMA TrailExists ==
  ASSUME NEW step, NEW first, NEW rest, NEW n \in Nat
  PROVE  \E f : IsTrail(f, step, first, rest, n)
<1> DEFINE T == {k \in Nat : \E f : IsTrail(f, step, first, rest, k)}
<1>1. 0 \in T
  <2> DEFINE f == [i \in 0..0 |-> first]
  <2>1. IsTrail(f, step, first, rest, 0)
    BY DEF IsTrail
  <2> QED BY <2>1
<1>2. ASSUME NEW k \in T PROVE k + 1 \in T
  <2>1. PICK f : IsTrail(f, step, first, rest, k)
    OBVIOUS
  <2> DEFINE g == [i \in 0..(k + 1) |->
                     IF i <= k THEN f[i]
                     ELSE IF f[k] = Missing THEN Missing ELSE step[f[k]][rest[k + 1]]]
  <2>2. k \in Nat
    OBVIOUS
  <2>3. \A i \in 0..k : f[i] = IF i = 0 THEN first
                               ELSE IF f[i - 1] = Missing THEN Missing ELSE step[f[i - 1]][rest[i]]
    BY <2>1 DEF IsTrail
  <2>4. ASSUME NEW i \in 0..(k + 1)
        PROVE  g[i] = IF i = 0 THEN first
                      ELSE IF g[i - 1] = Missing THEN Missing ELSE step[g[i - 1]][rest[i]]
    <3>1. CASE i = k + 1
      <4>1. i # 0 /\ i - 1 = k /\ g[i - 1] = f[k] /\ ~ (i <= k)
        BY <2>2, <3>1
      <4> QED BY <2>2, <3>1, <4>1
    <3>2. CASE i # k + 1
      <4>1. i \in 0..k /\ g[i] = f[i] /\ (i # 0 => g[i - 1] = f[i - 1])
        BY <2>2, <3>2
      <4> QED BY <2>3, <4>1
    <3> QED BY <3>1, <3>2
  <2> DEFINE h == [i \in 0..(k + 1) |->
                     IF i = 0 THEN first
                     ELSE IF g[i - 1] = Missing THEN Missing ELSE step[g[i - 1]][rest[i]]]
  <2>5. g = h
    <3>1. \A i \in 0..(k + 1) : g[i] = h[i]
      BY <2>4
    <3> QED BY <3>1, Zenon
  <2>6. IsTrail(g, step, first, rest, k + 1)
    BY <2>5, Zenon DEF IsTrail
  <2> QED BY <2>2, <2>6
<1> HIDE DEF T
<1>3. T = Nat
  BY <1>1, <1>2, Induct DEF T
<1> QED BY <1>3 DEF T

LEMMA TrailIsTrail ==
  ASSUME NEW step, NEW first, NEW rest \in Seq(Names)
  PROVE  IsTrail(Trail(step, first, rest), step, first, rest, Len(rest))
<1>1. \E f : IsTrail(f, step, first, rest, Len(rest))
  <2>1. Len(rest) \in Nat
    OBVIOUS
  <2> QED BY <2>1, TrailExists
<1> QED BY <1>1 DEF IsTrail, Trail

(* The paths of a trail are paths, by induction on their number. *)
LEMMA TrailInPath ==
  ASSUME Typing, NEW first \in Path \cup {Missing}, NEW rest \in Seq(Names)
  PROVE  \A i \in 0..Len(rest) : Trail(Sight, first, rest)[i] \in Path \cup {Missing}
<1> DEFINE f == Trail(Sight, first, rest)
           T == {i \in Nat : i <= Len(rest) => f[i] \in Path \cup {Missing}}
<1>1. \A i \in 0..Len(rest) :
        f[i] = IF i = 0 THEN first
               ELSE IF f[i - 1] = Missing THEN Missing ELSE Sight[f[i - 1]][rest[i]]
  <2>1. IsTrail(f, Sight, first, rest, Len(rest))
    BY TrailIsTrail
  <2> HIDE DEF f
  <2> QED BY <2>1 DEF IsTrail
<1> HIDE DEF f
<1>2. Len(rest) \in Nat
  OBVIOUS
<1>3. 0 \in T
  BY <1>1, <1>2
<1>4. ASSUME NEW i \in T PROVE i + 1 \in T
  <2>1. SUFFICES ASSUME i + 1 <= Len(rest) PROVE f[i + 1] \in Path \cup {Missing}
    OBVIOUS
  <2>2. i \in Nat /\ f[i] \in Path \cup {Missing} /\ i + 1 \in 0..Len(rest)
        /\ i + 1 # 0 /\ (i + 1) - 1 = i
    BY <1>2, <2>1
  <2>3. rest[i + 1] \in Names
    BY <2>1, <2>2
  <2>4. f[i + 1] = IF f[i] = Missing THEN Missing ELSE Sight[f[i]][rest[i + 1]]
    BY <1>1, <2>2
  <2> QED BY <2>2, <2>3, <2>4, SightIsPath
<1> HIDE DEF T
<1>5. T \in SUBSET Nat
  BY DEF T
<1>6. T = Nat
  BY <1>3, <1>4, <1>5, Induct
<1> QED BY <1>2, <1>6 DEF T, f

(* Where the trails agree, the hook rejects all of the operands or reports *)
(* the directories that git changed to.                                    *)
LEMMA ChainIsGits ==
  ASSUME Typing, NEW o \in Seq(Names), o # <<>>, Agree(LogicalTrail(o), GitTrail(o))
  PROVE  LET scopes == Chain(Sight[cwd][Head(o)], Tail(o))
             entered == {GitTrail(o)[i] : i \in DOMAIN GitTrail(o)} \ {Missing}
         IN  scopes = {} \/ scopes = entered
<1> DEFINE n == Head(o)
           rest == Tail(o)
           f == LogicalTrail(o)
           g == GitTrail(o)
<1>1. n \in Names /\ rest \in Seq(Names) /\ cwd \in Path
  BY DEF Typing
<1>2. DOMAIN f = 0..Len(rest) /\ DOMAIN g = 0..Len(rest)
  <2>1. /\ IsTrail(f, Sight, Sight[cwd][n], rest, Len(rest))
        /\ IsTrail(g, Ground, Ground[Real[cwd]][n], rest, Len(rest))
    BY <1>1, TrailIsTrail DEF LogicalTrail, GitTrail
  <2> HIDE DEF f, g, n, rest
  <2> QED BY <2>1 DEF IsTrail
<1>3. \A i \in 0..Len(rest) : f[i] \in Path \cup {Missing}
  BY <1>1, SightIsPath, TrailInPath DEF LogicalTrail
<1>4. \A i \in 0..Len(rest) : g[i] = IF f[i] = Missing THEN Missing ELSE Real[f[i]]
  <2>1. Agree(f, g)
    OBVIOUS
  <2> HIDE DEF f, g, rest
  <2> QED BY <1>2, <2>1 DEF Agree
<1>5. Chain(Sight[cwd][n], rest) = Behind(f)
  BY DEF Chain, LogicalTrail
<1> HIDE DEF f, g, rest, n
<1>6. CASE \E i \in DOMAIN f : f[i] = Missing
  BY <1>5, <1>6 DEF Behind, n, rest
<1>7. CASE ~ \E i \in DOMAIN f : f[i] = Missing
  <2>1. \A i \in 0..Len(rest) : g[i] = Real[f[i]] /\ g[i] # Missing
    BY <1>2, <1>3, <1>4, <1>7, TreeAssumption
  <2>2. Behind(f) = {g[i] : i \in DOMAIN g} \ {Missing}
    BY <1>2, <1>7, <2>1 DEF Behind
  <2> QED BY <1>5, <2>2 DEF g, rest, n
<1> QED BY <1>6, <1>7

(* No operand leads on from nowhere.                                       *)
LEMMA ChainFromNowhere ==
  ASSUME NEW rest \in Seq(Names)
  PROVE  Chain(Missing, rest) = {}
<1> DEFINE f == Trail(Sight, Missing, rest)
<1>1. IsTrail(f, Sight, Missing, rest, Len(rest)) /\ Len(rest) \in Nat
  BY TrailIsTrail
<1>2. Chain(Missing, rest) = Behind(f)
  BY DEF Chain
<1> HIDE DEF f
<1>3. 0 \in DOMAIN f /\ f[0] = Missing
  BY <1>1 DEF IsTrail
<1> QED BY <1>2, <1>3 DEF Behind

(* What the hook reports of one command that runs, the shell did; and if   *)
(* it could decide the command, it reports all.                            *)
LEMMA GitReports ==
  ASSUME Typing, Fits(current, stack, cwd, dirstack),
         NEW c \in Command, c.name = "git", c.arg # Dynamic, Git(c), ~ strayed'
  PROVE  LET scopes == GitScopes(current, c.arg)
         IN  scopes = {} \/ used' = used \cup scopes
<1> DEFINE n == Head(c.arg)
           rest == Tail(c.arg)
           scopes == GitScopes(current, c.arg)
<1>1. c.arg \in Seq(Names) /\ c.arg # <<>> /\ n \in Names /\ rest \in Seq(Names)
  <2>1. c.arg \in Operands
    BY DEF Command, Changes
  <2>2. c.arg \in Seq(Names) /\ c.arg # <<>>
    BY <2>1, TreeAssumption
  <2> QED BY <2>2
<1>2. /\ scopes = Chain(Lookup(current, n), rest)
      /\ used' = used \cup ({GitTrail(c.arg)[i] : i \in DOMAIN GitTrail(c.arg)} \ {Missing})
      /\ Agree(LogicalTrail(c.arg), GitTrail(c.arg))
  BY DEF GitScopes, Git, GitLiteral, GitElsewhere
<1> HIDE DEF scopes
<1>3. CASE Decides(n)
  <2>1. Lookup(current, n) = Sight[cwd][n]
    BY <1>1, <1>3, LookupIsRight
  <2> QED BY <1>1, <1>2, <2>1, ChainIsGits DEF scopes
<1>4. CASE ~ Decides(n)
  <2>1. Lookup(current, n) = Missing
    BY <1>1, <1>4, TreeAssumption DEF Lookup, Decides
  <2> QED BY <1>1, <1>2, <2>1, ChainFromNowhere DEF scopes
<1> QED BY <1>3, <1>4

Reports(e, c) ==
  /\ e.scopes \subseteq used'
  /\ used \subseteq used'
  /\ (/\ e.current # Unknown /\ e.stack # Unknown
      /\ ~ (c.name = "git" /\ e.scopes = {}))
       => visited' \subseteq visited \cup e.moves /\ used' \subseteq used \cup e.scopes

LEMMA EffectReports ==
  ASSUME Typing, Fits(current, stack, cwd, dirstack),
         NEW c \in Command, Execute(c), ~ strayed'
  PROVE  Reports(Effect(c), c)
<1>1. CASE c.name \in {"true", "false"}
  <2>1. Effect(c) = Same(c.name) /\ Ends(c.name)
    BY <1>1 DEF Effect, Execute, Plain, CdLiteral, CdAdrift, CdDynamic, AnyStack, Popd, Git, Changes
  <2> QED BY <2>1 DEF Same, Ends, Reports
<1>2. CASE c.name \in Changes
  <2>1. Effect(c) = Change(c) /\ c.name # "git"
    BY <1>2 DEF Effect, Changes
  <2>2. c.arg \in Names \cup {Dynamic}
    BY <1>2, Commands DEF Changes
  <2>3. used' = used /\ Change(c).scopes = {}
    <3>1. used' = used
      BY <1>2 DEF Execute, Plain, Ends, CdLiteral, CdAdrift, CdDynamic, Elsewhere, AnyStack, Popd, Git, Changes
    <3> QED BY <3>1 DEF Change, Same, Entered
  <2>4. CASE ~ Decides(c.arg)
    <3>1. Change(c).current = Unknown
      BY <2>4 DEF Change, Same
    <3> QED BY <2>1, <2>3, <3>1 DEF Reports
  <2>5. CASE Decides(c.arg)
    <3>1. c.arg \in Names /\ CdLiteral(c)
      BY <1>2, <2>2, <2>5 DEF Decides, Execute, Plain, CdAdrift, CdDynamic, AnyStack, Popd, Git, Changes
    <3>2. Goes(c, c.arg) = Sight[cwd][c.arg] /\ Lookup(current, c.arg) = Sight[cwd][c.arg]
      BY <2>5, <3>1, LookupIsRight DEF CdLiteral
    <3>3. CASE Sight[cwd][c.arg] = Missing
      <4>1. visited' = visited
        BY <3>1, <3>2, <3>3 DEF CdLiteral
      <4> QED BY <2>1, <2>3, <4>1 DEF Reports
    <3>4. CASE Sight[cwd][c.arg] # Missing
      <4>1. Change(c).moves = {Real[Sight[cwd][c.arg]]}
        BY <2>5, <3>2, <3>4 DEF Change, Entered
      <4>2. visited' = visited \cup {Real[Sight[cwd][c.arg]]}
        BY <3>1, <3>2, <3>4 DEF CdLiteral
      <4> QED BY <2>1, <2>3, <4>1, <4>2 DEF Reports
    <3> QED BY <3>3, <3>4
  <2> QED BY <2>4, <2>5
<1>3. CASE c.name = "popd"
  <2>1. Effect(c) = Pop /\ Popd(c) /\ used' = used /\ Pop.scopes = {}
    <3>1. Popd(c)
      BY <1>3 DEF Execute, Plain, CdLiteral, CdAdrift, CdDynamic, AnyStack, Popd, Git, Changes
    <3>2. used' = used
      BY <3>1 DEF Popd, Ends
    <3> QED BY <1>3, <3>1, <3>2 DEF Effect, Changes, Pop, Same
  <2>2. CASE stack = Unknown
    <3>1. Pop.current = Unknown
      BY <2>2 DEF Pop, Same
    <3> QED BY <2>1, <3>1 DEF Reports
  <2>3. CASE stack # Unknown
    <3>1. /\ stack \in Seq(Path \cup {Unknown}) /\ dirstack \in Seq(Path)
          /\ Len(stack) = Len(dirstack)
          /\ \A i \in 1..Len(stack) : stack[i] # Unknown => stack[i] = dirstack[i]
      BY <2>3 DEF Typing, Fits
    <3>2. CASE stack = <<>>
      <4>1. dirstack = <<>>
        BY <3>1, <3>2
      <4>2. visited' = visited
        BY <2>1, <4>1 DEF Popd, Ends
      <4> QED BY <2>1, <4>2 DEF Reports
    <3>3. CASE stack # <<>>
      <4>1. Len(stack) \in 1..Len(stack) /\ dirstack # <<>>
        BY <3>1, <3>3
      <4>2. /\ Pop.current = stack[Len(stack)]
            /\ Pop.moves = {Real[p] : p \in {stack[Len(stack)]} \ {Unknown}}
        BY <2>3, <3>3 DEF Pop, Last
      <4>3. visited' = visited \cup {Real[dirstack[Len(stack)]]}
        <5>1. Last(dirstack) \in tree
          BY <2>1, <4>1 DEF Popd
        <5> QED BY <2>1, <3>1, <4>1, <5>1 DEF Popd, Last
      <4>4. Pop.current # Unknown => Pop.moves = {Real[dirstack[Len(stack)]]}
        BY <3>1, <4>1, <4>2
      <4> QED BY <2>1, <4>3, <4>4 DEF Reports
    <3> QED BY <3>2, <3>3
  <2> QED BY <2>2, <2>3
<1>4. CASE c.name = "git"
  <2>1. /\ Effect(c).scopes = GitScopes(current, c.arg) /\ Effect(c).current = current
        /\ Effect(c).moves = {}
    BY <1>4 DEF Effect, Same, Changes
  <2>2. Git(c) /\ visited' = visited
    BY <1>4 DEF Execute, Plain, CdLiteral, CdAdrift, CdDynamic, AnyStack, Popd, Git, Changes
  <2>3. CASE c.arg = Dynamic
    <3>1. GitScopes(current, c.arg) = {} /\ used \subseteq used'
      BY <2>2, <2>3 DEF GitScopes, Git, GitLiteral, GitElsewhere
    <3> QED BY <1>4, <2>1, <2>3, <3>1 DEF Reports
  <2>4. CASE c.arg # Dynamic
    <3>1. used \subseteq used'
      BY <2>2, <2>4 DEF Git, GitLiteral, GitElsewhere
    <3> QED BY <1>4, <2>1, <2>2, <2>4, <3>1, GitReports DEF Reports
  <2> QED BY <2>3, <2>4
<1>5. CASE c.name \in {"dynamic", "popdN"}
  <2>1. Effect(c).current = Unknown /\ Effect(c).scopes = {}
    BY <1>5 DEF Effect, Lost, Same, Changes
  <2>2. used' = used
    BY <1>5 DEF Execute, Plain, Ends, CdLiteral, CdAdrift, CdDynamic, AnyStack, Elsewhere, Popd, Git, Changes
  <2> QED BY <2>1, <2>2 DEF Reports
<1>6. CASE c.name = "plain"
  <2>1. Effect(c) = Same("unknown")
    BY <1>6 DEF Effect, Changes
  <2>2. UNCHANGED <<visited, used>>
    BY <1>6 DEF Execute, Plain, Ends, CdLiteral, CdAdrift, CdDynamic, AnyStack, Popd, Git, Changes
  <2> QED BY <2>1, <2>2 DEF Same, Reports
<1> QED BY <1>1, <1>2, <1>3, <1>4, <1>5, <1>6, Commands

ScopeInv == IInv /\ GitScopesWereUsed /\ NothingLeftOut

LEMMA ScopesKept ==
  ASSUME ScopeInv, NEW sep \in Separators, NEW c \in Command, Step(sep, c)
  PROVE  GitScopesWereUsed' /\ NothingLeftOut'
<1>0. Typing /\ (strayed => strayed')
  BY StepTyping DEF ScopeInv, IInv
<1> SUFFICES ASSUME ~ strayed' PROVE GitScopesWereUsed' /\ NothingLeftOut'
  BY DEF GitScopesWereUsed, NothingLeftOut
<1>1. /\ Typing /\ ~ strayed /\ Fits(current, stack, cwd, dirstack)
      /\ directories \subseteq used
      /\ ~ doubted => visited \subseteq transitions /\ used \subseteq directories
  BY <1>0, KnownIsFits DEF ScopeInv, IInv, GitScopesWereUsed, NothingLeftOut
<1>2. /\ ShouldRun(sep) = "true" => Runs(sep)
      /\ ShouldRun(sep) \in Statuses
  BY <1>1, DecisionIsRight DEF Step, ScopeInv, IInv
<1>3. CASE Runs(sep)
  <2>1. Reports(Effect(c), c)
    BY <1>1, <1>3, EffectReports DEF Step
  <2> DEFINE e == Effect(c)
  <2>2. ShouldRun(sep) # "false"
    BY <1>1, <1>3, DecisionIsRight DEF Step, ScopeInv, IInv
  <2>3. CASE Follow(c)
    <3>1. /\ transitions' = transitions \cup e.moves /\ directories' = directories \cup e.scopes
          /\ doubted' = (doubted \/ Unknown \in {e.current, e.stack}
                                 \/ (c.name = "git" /\ e.scopes = {}))
      BY <2>3 DEF Follow
    <3> HIDE DEF e
    <3>2. directories' \subseteq used'
      BY <1>1, <2>1, <3>1 DEF Reports, e
    <3>3. ~ doubted' => visited' \subseteq transitions' /\ used' \subseteq directories'
      BY <1>1, <2>1, <3>1 DEF Reports, e
    <3> QED BY <3>2, <3>3 DEF GitScopesWereUsed, NothingLeftOut
  <2>4. CASE Doubt(sep, c)
    BY <1>1, <2>1, <2>4 DEF Doubt, Reports, GitScopesWereUsed, NothingLeftOut
  <2> QED BY <1>2, <2>2, <2>3, <2>4 DEF Step, Analyse
<1>4. CASE ~ Runs(sep)
  <2>1. UNCHANGED shell /\ ShouldRun(sep) # "true"
    BY <1>2, <1>4 DEF Step
  <2>2. UNCHANGED hook \/ Doubt(sep, c)
    BY <2>1 DEF Step, Analyse
  <2>3. CASE UNCHANGED hook
    BY <1>1, <2>1, <2>3 DEF hook, shell, GitScopesWereUsed, NothingLeftOut
  <2>4. CASE Doubt(sep, c)
    BY <1>1, <2>1, <2>4 DEF Doubt, shell, GitScopesWereUsed, NothingLeftOut
  <2> QED BY <2>2, <2>3, <2>4
<1> QED BY <1>3, <1>4

LEMMA Scopes ==
  Spec => [](GitScopesWereUsed /\ NothingLeftOut)
<1>1. Init => ScopeInv
  BY Start0 DEF Init, ScopeInv, GitScopesWereUsed, NothingLeftOut
<1>2. ScopeInv /\ [Next]_vars => ScopeInv'
  <2>1. ASSUME ScopeInv, NEW sep \in Separators, NEW c \in Command, Step(sep, c) PROVE ScopeInv'
    BY <2>1, StepKeeps, ScopesKept DEF ScopeInv
  <2>2. ASSUME ScopeInv, UNCHANGED vars PROVE ScopeInv'
    BY <2>2 DEF vars, hook, shell, ScopeInv, IInv, Typing, KnownStateIsExact, TransitionsWereMade,
       GitScopesWereUsed, NothingLeftOut
  <2> QED BY <2>1, <2>2 DEF Next
<1>3. ScopeInv => GitScopesWereUsed /\ NothingLeftOut
  BY DEF ScopeInv
<1> QED BY <1>1, <1>2, <1>3, PTL DEF Spec

(* Whatever the operands, and of whatever number: each directory reported  *)
(* for a git -C is one that git, which follows the operands one by one and *)
(* link by link, changed to (_git_directory_operands), until the hook's    *)
(* trail of names and git's lead apart.                                    *)
THEOREM NothingInvented == Spec => []GitScopesWereUsed
BY Scopes, PTL

(* Of a line without doubts, every directory that the shell entered or gave *)
(* to git is reported (literal_shell_directory_scopes), whatever its other  *)
(* commands make or remove, until a name leads elsewhere than in the tree   *)
(* the hook sees.                                                           *)
THEOREM NothingLost == Spec => []NothingLeftOut
BY Scopes, PTL

-----------------------------------------------------------------------------
(* The gate.                                                               *)

Entry == [guides : SUBSET Guides, anchor : 0 .. MaxMessages]
Waiting(c) == stage[c] \in {"asked", "queued"}

(* A call waits in the queue at most once for its admission, and nothing   *)
(* else decides about it meanwhile.                                        *)
QueueFacts ==
  /\ \A i \in DOMAIN queue : queue[i].phase = "before" => stage[queue[i].call] = "queued"
  /\ \A i, j \in DOMAIN queue :
       i # j /\ queue[i].phase = "before" /\ queue[j].phase = "before"
         => queue[i].call # queue[j].call
  /\ hook_process = "claimed" => queue # <<>>
  /\ hook_process = "none" => claimed = {}

(* Whatever is activated and not yet projected keeps the latch; without    *)
(* the latch, a call that waits has seen all that the session shows.       *)
LatchFacts ==
  /\ \A k \in DOMAIN managed : managed[k].anchor = 0 => latch
  /\ ~ latch => \A c \in Calls : Waiting(c) => system \cup Injected(managed) \subseteq visible[c]
  /\ \A c \in Calls : needed[c] \subseteq ledger

(* The last request holds each message up to its last one and each group   *)
(* of guides that has a place.                                             *)
SentFacts ==
  /\ \A k \in DOMAIN managed : managed[k].anchor <= messages
  /\ \A j, k \in DOMAIN managed : j < k /\ managed[j].anchor = 0 => managed[k].anchor = 0
  /\ \A i \in sent :
       /\ i.message \in 1 .. messages
       /\ \/ i = [message |-> i.message, place |-> 0, guides |-> {}]
          \/ /\ i.place \in DOMAIN managed /\ managed[i.place].anchor # 0
             /\ i = [message |-> managed[i.place].anchor, place |-> i.place,
                     guides |-> managed[i.place].guides]
       /\ \A m \in 1 .. i.message : [message |-> m, place |-> 0, guides |-> {}] \in sent
  /\ \A k \in DOMAIN managed : managed[k].anchor # 0 =>
       [message |-> managed[k].anchor, place |-> k, guides |-> managed[k].guides] \in sent

GateInv == GateTypeOK /\ LedgerAccounts /\ QueueFacts /\ LatchFacts /\ SentFacts /\ IssuerSawGuides

-----------------------------------------------------------------------------
(* The model's operators.                                                  *)

LEMMA LoadedGuides ==
  ASSUME GateTypeOK, NEW dirs \in SUBSET Dirs
  PROVE  Loaded(dirs) \in SUBSET Guides
<1>1. ASSUME NEW d \in dirs, revision[d] # 0 PROVE <<d, revision[d]>> \in Guides
  <2>1. revision[d] \in 1 .. Revisions[d]
    BY <1>1, GateAssumption DEF GateTypeOK
  <2> QED BY <2>1 DEF Guides
<1> QED BY <1>1 DEF Loaded

(* The head of the queue and what is left without it.                      *)
LEMMA HeadServed ==
  ASSUME GateTypeOK, queue # <<>>
  PROVE  /\ Head(queue) = queue[1] /\ 1 \in DOMAIN queue
         /\ Head(queue) \in [call : Calls, phase : Phases] /\ Head(queue).call \in Calls
         /\ Tail(queue) \in Seq([call : Calls, phase : Phases])
         /\ \A i \in DOMAIN Tail(queue) :
              Tail(queue)[i] = queue[i + 1] /\ i + 1 \in DOMAIN queue /\ i + 1 # 1
<1> DEFINE S == [call : Calls, phase : Phases]
<1>1. queue \in Seq(S) /\ Len(queue) \in Nat \ {0} /\ DOMAIN queue = 1 .. Len(queue)
  BY DEF GateTypeOK
<1>2. \A e \in S : e.call \in Calls
  OBVIOUS
<1> HIDE DEF S
<1>3. Head(queue) = queue[1] /\ 1 \in DOMAIN queue /\ queue[1] \in S
  BY <1>1
<1>4. /\ Tail(queue) \in Seq(S) /\ Len(Tail(queue)) = Len(queue) - 1
      /\ \A i \in 1 .. Len(Tail(queue)) : Tail(queue)[i] = queue[i + 1]
  BY <1>1
<1>5. DOMAIN Tail(queue) = 1 .. Len(queue) - 1
  BY <1>4
<1>6. \A i \in DOMAIN Tail(queue) : i + 1 \in DOMAIN queue /\ i + 1 # 1
  BY <1>1, <1>5
<1> QED BY <1>1, <1>2, <1>3, <1>4, <1>6 DEF S

LEMMA QueueCalls ==
  ASSUME GateTypeOK
  PROVE  \A i \in DOMAIN queue : queue[i].call \in Calls
<1> DEFINE S == [call : Calls, phase : Phases]
<1>1. queue \in Seq(S)
  BY DEF GateTypeOK
<1>2. \A e \in S : e.call \in Calls
  OBVIOUS
<1> HIDE DEF S
<1>3. \A i \in DOMAIN queue : queue[i] \in S
  BY <1>1
<1> QED BY <1>2, <1>3

LEMMA Appended ==
  ASSUME NEW S, NEW s \in Seq(S), NEW e \in S
  PROVE  /\ Append(s, e) \in Seq(S) /\ DOMAIN Append(s, e) = DOMAIN s \cup {Len(s) + 1}
         /\ Append(s, e)[Len(s) + 1] = e /\ Len(s) + 1 \notin DOMAIN s
         /\ \A i \in DOMAIN s : Append(s, e)[i] = s[i] /\ i < Len(s) + 1
OBVIOUS

LEMMA EntryTyping ==
  ASSUME GateTypeOK
  PROVE  /\ managed \in Seq(Entry)
         /\ \A k \in DOMAIN managed :
              managed[k].guides \in SUBSET Guides /\ managed[k].anchor \in 0 .. MaxMessages
         /\ Injected(managed) \in SUBSET Guides
<1>1. managed \in Seq(Entry)
  BY DEF GateTypeOK, Entry
<1>2. \A k \in DOMAIN managed : managed[k] \in Entry
  BY <1>1
<1>3. \A k \in DOMAIN managed :
        managed[k].guides \in SUBSET Guides /\ managed[k].anchor \in 0 .. MaxMessages
  BY <1>2 DEF Entry
<1> QED BY <1>1, <1>3 DEF Injected

(* Anchoring changes no group and no earlier anchor.                       *)
LEMMA AnchoredKeeps ==
  ASSUME GateTypeOK
  PROVE  /\ Anchored \in Seq(Entry) /\ DOMAIN Anchored = DOMAIN managed
         /\ \A k \in DOMAIN managed :
              /\ Anchored[k].guides = managed[k].guides
              /\ Anchored[k].anchor = IF managed[k].anchor = 0 THEN messages ELSE managed[k].anchor
         /\ Injected(Anchored) = Injected(managed)
<1>1. managed \in Seq(Entry) /\ messages \in 1 .. MaxMessages /\ MaxMessages \in Nat
  BY EntryTyping, GateAssumption DEF GateTypeOK
<1>2. ASSUME NEW k \in DOMAIN managed
      PROVE  /\ Anchored[k] \in Entry /\ Anchored[k].guides = managed[k].guides
             /\ Anchored[k].anchor = IF managed[k].anchor = 0 THEN messages ELSE managed[k].anchor
  <2>1. /\ Anchored[k] = IF managed[k].anchor = 0 THEN [managed[k] EXCEPT !.anchor = messages]
                          ELSE managed[k]
        /\ messages \in 0 .. MaxMessages
    BY <1>1 DEF Anchored
  <2>2. managed[k] \in Entry
    BY <1>1
  <2> QED BY <2>1, <2>2 DEF Entry
<1>3. DOMAIN Anchored = DOMAIN managed /\ DOMAIN managed = 1 .. Len(managed) /\ Len(managed) \in Nat
  BY <1>1 DEF Anchored
<1>4. Anchored \in Seq(Entry)
  <2>1. Anchored = [k \in 1 .. Len(managed) |-> Anchored[k]]
    BY <1>3 DEF Anchored
  <2> QED BY <1>2, <1>3, <2>1
<1> QED BY <1>2, <1>3, <1>4 DEF Injected

(* What a claim, delivered or not, adds.                                   *)
LEMMA Activation ==
  ASSUME GateTypeOK, Activate(claimed)
  PROVE  \/ claimed = {} /\ UNCHANGED <<managed, latch>>
         \/ /\ claimed # {} /\ latch' = TRUE
            /\ managed' = Append(managed, [guides |-> claimed, anchor |-> 0])
            /\ [guides |-> claimed, anchor |-> 0] \in Entry
            /\ Injected(managed') = Injected(managed) \cup claimed
            /\ managed' \in Seq(Entry)
<1>1. CASE claimed = {}
  BY <1>1 DEF Activate
<1>2. CASE claimed # {}
  <2> DEFINE e == [guides |-> claimed, anchor |-> 0]
  <2>1. e \in Entry /\ managed \in Seq(Entry) /\ e.guides = claimed
    BY EntryTyping, GateAssumption DEF GateTypeOK, Entry
  <2>2. managed' = Append(managed, e) /\ latch' = TRUE
    BY <1>2 DEF Activate
  <2> HIDE DEF e
  <2>3. /\ managed' \in Seq(Entry) /\ DOMAIN managed' = DOMAIN managed \cup {Len(managed) + 1}
        /\ managed'[Len(managed) + 1] = e
        /\ \A i \in DOMAIN managed : managed'[i] = managed[i]
    BY <2>1, <2>2, Appended
  <2>4. Injected(managed') = Injected(managed) \cup claimed
    BY <2>1, <2>3 DEF Injected
  <2> QED BY <1>2, <2>1, <2>2, <2>3, <2>4 DEF e
<1> QED BY <1>1, <1>2

-----------------------------------------------------------------------------
(* Types.                                                                  *)

LEMMA GateTypeStep ==
  ASSUME GateTypeOK, GateNext
  PROVE  GateTypeOK'
<1> USE GateAssumption
<1>1. CASE Project
  <2>1. managed' \in Seq(Entry)
    BY <1>1, AnchoredKeeps DEF Project
  <2> QED BY <1>1, <2>1 DEF Project, GateTypeOK, Entry
<1>2. CASE RetryRequest
  BY <1>2 DEF RetryRequest, plugin, history, GateTypeOK
<1>3. CASE Respond
  <2>1. PICK asked \in (SUBSET {c \in Calls : stage[c] = "idle"}) \ {{}} :
          /\ stage' = [c \in Calls |-> IF c \in asked THEN "asked" ELSE stage[c]]
          /\ \E s \in [asked -> SUBSET Dirs] :
               scope' = [c \in Calls |-> IF c \in asked THEN s[c] ELSE scope[c]]
          /\ visible' = [c \in Calls |-> IF c \in asked THEN system \cup Shown ELSE visible[c]]
    BY <1>3 DEF Respond
  <2>2. Shown \in SUBSET Guides
    BY EntryTyping DEF Shown
  <2>3. scope' \in [Calls -> SUBSET Dirs]
    BY <2>1 DEF GateTypeOK
  <2>4. messages' \in 1 .. MaxMessages
    BY <1>3 DEF Respond, GateTypeOK
  <2> QED BY <1>3, <2>1, <2>2, <2>3, <2>4 DEF Respond, GateTypeOK, plugin
<1>4. CASE Deny
  BY <1>4, HeadServed DEF Deny, Serving, Forget, GateTypeOK
<1>5. CASE AnswerBefore
  <2>1. managed' \in Seq(Entry) /\ latch' \in BOOLEAN
    BY <1>5, Activation, EntryTyping DEF AnswerBefore, GateTypeOK
  <2>2. Head(queue).call \in Calls /\ queue' \in Seq([call : Calls, phase : Phases])
    BY <1>5, HeadServed DEF AnswerBefore, Serving, ServedHead
  <2> QED BY <1>5, <2>1, <2>2 DEF AnswerBefore, ServedHead, Forget, GateTypeOK, Entry
<1>6. CASE AnswerAfter
  <2>1. managed' \in Seq(Entry) /\ latch' \in BOOLEAN
    BY <1>6, Activation, EntryTyping DEF AnswerAfter, GateTypeOK
  <2>2. Head(queue).call \in Calls /\ queue' \in Seq([call : Calls, phase : Phases])
    BY <1>6, HeadServed DEF AnswerAfter, Serving, ServedHead
  <2> QED BY <1>6, <2>1, <2>2 DEF AnswerAfter, ServedHead, history, GateTypeOK, Entry
<1>7. CASE \E phase \in Phases : Claim(phase)
  <2>1. PICK phase \in Phases : Claim(phase)
    BY <1>7
  <2> DEFINE c == Head(queue).call
  <2>2. c \in Calls
    BY <2>1, HeadServed DEF Claim, Serving
  <2>3. Loaded(scope[c]) \in SUBSET Guides
    BY <2>2, LoadedGuides DEF GateTypeOK
  <2> QED BY <2>1, <2>2, <2>3 DEF Claim, Unseen, host, GateTypeOK
<1>8. CASE HookFails
  BY <1>8, HeadServed DEF HookFails, Serving, ServedHead, GateTypeOK
<1>9. CASE RetryWorker
  <2>1. revision' \in [Dirs -> Nat] /\ \A d \in Dirs : revision'[d] <= Revisions[d]
    BY <1>9 DEF RetryWorker, GateTypeOK
  <2>2. messages' \in 1 .. MaxMessages /\ attempt' \in 1 .. MaxAttempts
    BY <1>9 DEF RetryWorker, NewSession, GateTypeOK
  <2>3. queue' = <<>> /\ managed' = <<>> /\ latch' = FALSE /\ hook_process' = "none"
        /\ ledger' = ledger /\ lost' = ledger /\ claimed' = {} /\ system' = {} /\ turn' = "act"
    BY <1>9 DEF RetryWorker, NewSession
  <2>4. /\ stage' = [c \in Calls |-> "idle"] /\ scope' = [c \in Calls |-> {}]
        /\ after' = [c \in Calls |-> "none"] /\ needed' = [c \in Calls |-> {}]
        /\ visible' = [c \in Calls |-> {}]
    BY <1>9 DEF RetryWorker, NewSession
  <2>5. queue' \in Seq([call : Calls, phase : Phases]) /\ managed' \in Seq(Entry)
    BY <2>3
  <2>6. /\ stage' \in [Calls -> {"idle", "asked", "queued", "running", "done"}]
        /\ scope' \in [Calls -> SUBSET Dirs] /\ after' \in [Calls -> {"none", "due", "queued"}]
        /\ visible' \in [Calls -> SUBSET Guides] /\ needed' \in [Calls -> SUBSET Guides]
    BY <2>4
  <2> QED BY <2>1, <2>2, <2>3, <2>5, <2>6 DEF GateTypeOK, Entry
<1>10. ASSUME NEW c \in Calls, EnqueueBefore(c) PROVE GateTypeOK'
  <2>1. [call |-> c, phase |-> "before"] \in [call : Calls, phase : Phases]
    BY DEF Phases
  <2> QED BY <1>10, <2>1 DEF EnqueueBefore, history, GateTypeOK
<1>11. ASSUME NEW c \in Calls, EnqueueAfter(c) PROVE GateTypeOK'
  <2>1. [call |-> c, phase |-> "after"] \in [call : Calls, phase : Phases]
    BY DEF Phases
  <2> QED BY <1>11, <2>1 DEF EnqueueAfter, history, GateTypeOK
<1>12. ASSUME NEW c \in Calls, Finish(c) PROVE GateTypeOK'
  BY <1>12 DEF Finish, Forget, plugin, GateTypeOK
<1>13. ASSUME NEW d \in Dirs, Edit(d) PROVE GateTypeOK'
  <2>1. PICK r \in 0 .. Revisions[d] : revision' = [revision EXCEPT ![d] = r]
    BY <1>13 DEF Edit
  <2>2. revision' \in [Dirs -> Nat] /\ \A e \in Dirs : revision'[e] <= Revisions[e]
    BY <2>1 DEF GateTypeOK
  <2> QED BY <1>13, <2>2 DEF Edit, plugin, host, history, GateTypeOK
<1> QED BY <1>1, <1>2, <1>3, <1>4, <1>5, <1>6, <1>7, <1>8, <1>9, <1>10, <1>11, <1>12, <1>13
        DEF GateNext, Serve
-----------------------------------------------------------------------------
(* The ledger: a claim takes only what nobody has, and an answer, a death  *)
(* or a new attempt moves a whole group.                                   *)

LEMMA LedgerStep ==
  ASSUME GateTypeOK, LedgerAccounts, QueueFacts, GateNext
  PROVE  LedgerAccounts'
<1> DEFINE Books == <<ledger, system, claimed, lost, managed>>
<1>1. ASSUME UNCHANGED Books PROVE LedgerAccounts'
  BY <1>1 DEF LedgerAccounts, Injected
<1>2. CASE Project
  <2>1. /\ managed' = Anchored /\ UNCHANGED <<ledger, system, claimed, lost>>
    BY <1>2 DEF Project
  <2>2. /\ DOMAIN managed' = DOMAIN managed /\ Injected(managed)' = Injected(managed)
        /\ \A k \in DOMAIN managed : managed'[k].guides = managed[k].guides
    BY <2>1, AnchoredKeeps
  <2> QED BY <2>1, <2>2 DEF LedgerAccounts
<1>3. ASSUME AnswerBefore \/ AnswerAfter PROVE LedgerAccounts'
  <2>1. /\ Activate(claimed) /\ claimed' = {} /\ UNCHANGED <<ledger, system, lost>>
    BY <1>3 DEF AnswerBefore, AnswerAfter, ServedHead, history
  <2>2. CASE claimed = {}
    BY <1>1, <2>1, <2>2 DEF Activate
  <2>3. CASE claimed # {}
    <3> DEFINE e == [guides |-> claimed, anchor |-> 0]
    <3>1. /\ managed' = Append(managed, e) /\ e \in Entry
          /\ Injected(managed') = Injected(managed) \cup claimed
      BY <2>1, <2>3, Activation
    <3>2. managed \in Seq(Entry) /\ e.guides = claimed
      BY EntryTyping
    <3> HIDE DEF e
    <3>3. /\ DOMAIN managed' = DOMAIN managed \cup {Len(managed) + 1}
          /\ managed'[Len(managed) + 1] = e
          /\ \A i \in DOMAIN managed : managed'[i] = managed[i]
      BY <3>1, <3>2, Appended
    <3>4. \A k \in DOMAIN managed : managed[k].guides \cap claimed = {}
      BY DEF LedgerAccounts, Injected
    <3>5. \A j, k \in DOMAIN managed' : j # k => managed'[j].guides \cap managed'[k].guides = {}
      BY <3>2, <3>3, <3>4 DEF LedgerAccounts
    <3> QED BY <2>1, <3>1, <3>5 DEF LedgerAccounts
  <2> QED BY <2>2, <2>3
<1>4. ASSUME NEW phase \in Phases, Claim(phase) PROVE LedgerAccounts'
  <2>1. claimed = {} /\ ledger' = ledger \cup claimed' /\ claimed' \cap ledger = {}
        /\ UNCHANGED <<system, lost, managed>>
    BY <1>4 DEF Claim, Unseen, QueueFacts
  <2> QED BY <2>1 DEF LedgerAccounts, Injected
<1>5. CASE HookFails
  BY <1>5 DEF HookFails, ServedHead, LedgerAccounts, Injected
<1>6. CASE RetryWorker
  BY <1>6 DEF RetryWorker, NewSession, LedgerAccounts, Injected
<1>7. CASE RetryRequest \/ Respond \/ Deny
  BY <1>1, <1>7 DEF RetryRequest, Respond, Deny, plugin, history
<1>8. ASSUME NEW c \in Calls, EnqueueBefore(c) \/ EnqueueAfter(c) \/ Finish(c) PROVE LedgerAccounts'
  BY <1>1, <1>8 DEF EnqueueBefore, EnqueueAfter, Finish, plugin, history
<1>9. ASSUME NEW d \in Dirs, Edit(d) PROVE LedgerAccounts'
  BY <1>1, <1>9 DEF Edit, plugin, history
<1> QED BY <1>2, <1>3, <1>4, <1>5, <1>6, <1>7, <1>8, <1>9 DEF GateNext, Serve

-----------------------------------------------------------------------------
(* The queue.                                                              *)

(* Serving the head leaves the others as they are.                         *)
LEMMA QueueTail ==
  ASSUME GateTypeOK, QueueFacts, queue # <<>>, queue' = Tail(queue),
         hook_process' = "none", claimed' = {},
         \A c \in Calls : c # Head(queue).call => stage'[c] = stage[c],
         Head(queue).phase = "before" \/ stage' = stage
  PROVE  QueueFacts'
<1>1. /\ Head(queue) = queue[1] /\ 1 \in DOMAIN queue
      /\ \A i \in DOMAIN queue' : queue'[i] = queue[i + 1] /\ i + 1 \in DOMAIN queue /\ i + 1 # 1
  BY HeadServed
<1>2. \A i \in DOMAIN queue : queue[i].call \in Calls
  BY QueueCalls
<1>3. ASSUME NEW i \in DOMAIN queue', queue'[i].phase = "before"
      PROVE  stage'[queue'[i].call] = "queued"
  <2>1. queue'[i] = queue[i + 1] /\ i + 1 \in DOMAIN queue /\ i + 1 # 1
    BY <1>1
  <2>2. stage[queue[i + 1].call] = "queued" /\ queue[i + 1].call \in Calls
    BY <1>2, <1>3, <2>1 DEF QueueFacts
  <2>3. Head(queue).phase = "before" => queue[i + 1].call # Head(queue).call
    BY <1>1, <1>3, <2>1 DEF QueueFacts
  <2> QED BY <2>1, <2>2, <2>3
<1>4. ASSUME NEW i \in DOMAIN queue', NEW j \in DOMAIN queue',
             i # j, queue'[i].phase = "before", queue'[j].phase = "before"
      PROVE  queue'[i].call # queue'[j].call
  <2>1. DOMAIN queue' \subseteq Nat
    BY HeadServed
  <2>2. i + 1 # j + 1
    BY <1>4, <2>1
  <2> QED BY <1>1, <1>4, <2>2 DEF QueueFacts
<1> QED BY <1>3, <1>4 DEF QueueFacts

LEMMA QueueStep ==
  ASSUME GateTypeOK, QueueFacts, GateNext
  PROVE  QueueFacts'
<1>1. ASSUME UNCHANGED <<queue, hook_process, claimed>>,
             \A c \in Calls : stage[c] = "queued" => stage'[c] = "queued"
      PROVE  QueueFacts'
  <2>1. \A i \in DOMAIN queue : queue[i].call \in Calls
    BY QueueCalls
  <2> QED BY <1>1, <2>1 DEF QueueFacts
<1>2. CASE Project \/ RetryRequest
  BY <1>1, <1>2 DEF Project, RetryRequest, plugin
<1>3. CASE Respond
  <2>1. \A c \in Calls : stage[c] = "queued" => stage'[c] = "queued"
    BY <1>3 DEF Respond
  <2> QED BY <1>1, <1>3, <2>1 DEF Respond, plugin
<1>4. CASE Deny
  <2>1. claimed = {} /\ queue # <<>> /\ Head(queue).phase = "before"
    BY <1>4 DEF Deny, Serving, QueueFacts
  <2>2. \A c \in Calls : c # Head(queue).call => stage'[c] = stage[c]
    BY <1>4 DEF Deny, GateTypeOK
  <2> QED BY <1>4, <2>1, <2>2, QueueTail DEF Deny
<1>5. CASE AnswerBefore
  <2>1. queue # <<>> /\ Head(queue).phase = "before"
    BY <1>5 DEF AnswerBefore, Serving
  <2>2. \A c \in Calls : c # Head(queue).call => stage'[c] = stage[c]
    BY <1>5 DEF AnswerBefore, GateTypeOK
  <2> QED BY <1>5, <2>1, <2>2, QueueTail DEF AnswerBefore, ServedHead
<1>6. CASE AnswerAfter
  BY <1>6, QueueTail DEF AnswerAfter, Serving, ServedHead
<1>7. ASSUME NEW phase \in Phases, Claim(phase) PROVE QueueFacts'
  BY <1>7 DEF Claim, Serving, host, QueueFacts
<1>8. CASE HookFails
  <2>1. \A c \in Calls : c # Head(queue).call => stage'[c] = stage[c]
    BY <1>8 DEF HookFails, GateTypeOK
  <2>2. Head(queue).phase = "before" \/ stage' = stage
    BY <1>8 DEF HookFails, Serving
  <2> QED BY <1>8, <2>1, <2>2, QueueTail DEF HookFails, ServedHead
<1>9. CASE RetryWorker
  BY <1>9 DEF RetryWorker, NewSession, QueueFacts
<1>10. ASSUME NEW c \in Calls, EnqueueBefore(c) PROVE QueueFacts'
  <2> DEFINE e == [call |-> c, phase |-> "before"]
             S == [call : Calls, phase : Phases]
  <2>1. /\ queue' = Append(queue, e) /\ stage[c] = "asked" /\ stage' = [stage EXCEPT ![c] = "queued"]
        /\ UNCHANGED <<hook_process, claimed>> /\ queue \in Seq(S) /\ e \in S
        /\ e.call = c
    BY <1>10 DEF EnqueueBefore, GateTypeOK, Phases
  <2> HIDE DEF e
  <2>2. /\ DOMAIN queue' = DOMAIN queue \cup {Len(queue) + 1}
        /\ queue'[Len(queue) + 1] = e /\ \A i \in DOMAIN queue : queue'[i] = queue[i]
    BY <2>1, Appended
  <2>3. \A i \in DOMAIN queue : queue[i].phase = "before" => queue[i].call # c
    BY <2>1 DEF QueueFacts
  <2>4. \A i \in DOMAIN queue' : queue'[i].phase = "before" => stage'[queue'[i].call] = "queued"
    BY <2>1, <2>2, <2>3 DEF QueueFacts, GateTypeOK
  <2>5. \A i, j \in DOMAIN queue' :
          i # j /\ queue'[i].phase = "before" /\ queue'[j].phase = "before"
            => queue'[i].call # queue'[j].call
    BY <2>1, <2>2, <2>3 DEF QueueFacts
  <2>6. queue' # <<>>
    BY <2>1
  <2> QED BY <2>1, <2>4, <2>5, <2>6 DEF QueueFacts
<1>11. ASSUME NEW c \in Calls, EnqueueAfter(c) PROVE QueueFacts'
  <2> DEFINE e == [call |-> c, phase |-> "after"]
             S == [call : Calls, phase : Phases]
  <2>1. /\ queue' = Append(queue, e) /\ UNCHANGED <<stage, hook_process, claimed>>
        /\ queue \in Seq(S) /\ e \in S /\ e.phase # "before"
    BY <1>11 DEF EnqueueAfter, GateTypeOK, Phases
  <2> HIDE DEF e
  <2>2. /\ DOMAIN queue' = DOMAIN queue \cup {Len(queue) + 1}
        /\ queue'[Len(queue) + 1] = e /\ \A i \in DOMAIN queue : queue'[i] = queue[i]
    BY <2>1, Appended
  <2>3. queue' # <<>>
    BY <2>1
  <2> QED BY <2>1, <2>2, <2>3 DEF QueueFacts
<1>12. ASSUME NEW c \in Calls, Finish(c) PROVE QueueFacts'
  BY <1>1, <1>12 DEF Finish, plugin, GateTypeOK
<1>13. ASSUME NEW d \in Dirs, Edit(d) PROVE QueueFacts'
  BY <1>1, <1>13 DEF Edit, plugin, host
<1> QED BY <1>2, <1>3, <1>4, <1>5, <1>6, <1>7, <1>8, <1>9, <1>10, <1>11, <1>12, <1>13
        DEF GateNext, Serve
-----------------------------------------------------------------------------
(* The latch and what the calls have seen.                                 *)

LEMMA LatchStep ==
  ASSUME GateInv, GateTypeOK', GateNext
  PROVE  LatchFacts' /\ IssuerSawGuides'
<1> USE DEF GateInv
<1>1. ASSUME UNCHANGED <<managed, latch, system, ledger, lost>>,
             NEW c \in Calls, stage'[c] \in {"idle", "done", "queued"},
             stage'[c] = "queued" => Waiting(c),
             \A d \in Calls : d # c => stage'[d] = stage[d],
             \A d \in Calls : /\ visible'[d] = visible[d] \/ (d = c /\ stage'[c] \in {"idle", "done"})
                             /\ needed'[d] \subseteq needed[d]
      PROVE  LatchFacts' /\ IssuerSawGuides'
  <2>1. \A d \in Calls : Waiting(d)' => Waiting(d) /\ visible'[d] = visible[d]
    BY <1>1 DEF Waiting
  <2>2. \A d \in Calls : stage'[d] = "running" =>
          stage[d] = "running" /\ visible'[d] = visible[d]
    BY <1>1
  <2>3. LatchFacts'
    BY <1>1, <2>1 DEF LatchFacts
  <2>4. IssuerSawGuides'
    BY <1>1, <2>2 DEF IssuerSawGuides
  <2> QED BY <2>3, <2>4
<1>2. CASE Project
  <2>1. /\ managed' = Anchored /\ UNCHANGED <<system, stage, visible, needed, lost, ledger>>
        /\ \A c \in Calls : Ended(c)
    BY <1>2 DEF Project
  <2>2. \A k \in DOMAIN managed' : managed'[k].anchor # 0
    <3>1. messages # 0
      BY DEF GateTypeOK
    <3> QED BY <2>1, <3>1, AnchoredKeeps
  <2>3. \A c \in Calls : ~ Waiting(c)'
    BY <2>1 DEF Ended, Waiting
  <2> QED BY <2>1, <2>2, <2>3 DEF LatchFacts, IssuerSawGuides
<1>3. CASE RetryRequest
  BY <1>3 DEF RetryRequest, plugin, history, LatchFacts, IssuerSawGuides, Waiting
<1>4. CASE Respond
  <2>1. PICK asked \in SUBSET Calls :
          /\ \A c \in asked : stage[c] = "idle" /\ stage'[c] = "asked" /\ visible'[c] = system \cup Shown
          /\ \A c \in Calls \ asked : stage'[c] = stage[c] /\ visible'[c] = visible[c]
    BY <1>4 DEF Respond
  <2>2. UNCHANGED <<ledger, system, managed, latch, needed, lost>>
    BY <1>4 DEF Respond, plugin
  <2>3. ~ latch => Shown = Injected(managed)
    BY DEF LatchFacts, Shown, Injected
  <2>4. LatchFacts'
    BY <2>1, <2>2, <2>3 DEF LatchFacts, Waiting
  <2>5. IssuerSawGuides'
    BY <2>1, <2>2 DEF IssuerSawGuides
  <2> QED BY <2>4, <2>5
<1>5. CASE Deny
  <2>1. PICK c \in Calls : c = Head(queue).call
    BY <1>5, HeadServed DEF Deny, Serving
  <2>2. /\ stage' = [stage EXCEPT ![c] = "idle"] /\ visible' = [visible EXCEPT ![c] = {}]
        /\ needed' = [needed EXCEPT ![c] = {}] /\ UNCHANGED <<managed, latch, system, ledger, lost>>
    BY <1>5, <2>1 DEF Deny, Forget
  <2>3. /\ stage'[c] = "idle"
        /\ \A d \in Calls : d # c => stage'[d] = stage[d] /\ visible'[d] = visible[d]
        /\ \A d \in Calls : needed'[d] \subseteq needed[d]
    BY <2>1, <2>2 DEF GateTypeOK, Waiting
  <2> QED BY <1>1, <2>1, <2>2, <2>3
<1>6. CASE AnswerBefore
  <2> DEFINE c == Head(queue).call
  <2>1. /\ c \in Calls /\ stage[c] = "queued"
    BY <1>6, HeadServed DEF AnswerBefore, Serving, QueueFacts
  <2>2. Activate(claimed) /\ UNCHANGED <<ledger, system, lost>> /\ claimed' = {}
    BY <1>6 DEF AnswerBefore, ServedHead
  <2> HIDE DEF c
  <2>3. CASE latch'
    <3>1. /\ stage' = [stage EXCEPT ![c] = "idle"] /\ visible' = [visible EXCEPT ![c] = {}]
          /\ needed' = [needed EXCEPT ![c] = {}]
      BY <1>6, <2>3 DEF AnswerBefore, Forget, c
    <3>2. LatchFacts'
      BY <2>2, <2>3, <3>1 DEF LatchFacts, GateTypeOK
    <3>3. IssuerSawGuides'
      BY <2>2, <3>1 DEF IssuerSawGuides, GateTypeOK
    <3> QED BY <3>2, <3>3
  <2>4. CASE ~ latch'
    <3>1. stage' = [stage EXCEPT ![c] = "running"] /\ UNCHANGED <<visible, needed>>
      BY <1>6, <2>4 DEF AnswerBefore, c
    <3>2. claimed = {} /\ UNCHANGED <<managed, latch>>
      BY <2>2, <2>4, Activation
    <3>3. ~ latch /\ system \cup Injected(managed) \subseteq visible[c] /\ needed[c] \subseteq ledger
      BY <2>1, <2>4, <3>2 DEF LatchFacts, Waiting
    <3>4. needed[c] \subseteq visible[c] \cup lost
      BY <3>2, <3>3 DEF LedgerAccounts
    <3>5. LatchFacts'
      BY <2>1, <2>2, <3>1, <3>2 DEF LatchFacts, Waiting, GateTypeOK
    <3>6. IssuerSawGuides'
      BY <2>1, <2>2, <3>1, <3>4 DEF IssuerSawGuides, GateTypeOK
    <3> QED BY <3>5, <3>6
  <2> QED BY <2>3, <2>4
<1>7. CASE AnswerAfter
  <2>1. Activate(claimed) /\ UNCHANGED <<ledger, system, lost, stage, visible, needed>>
    BY <1>7 DEF AnswerAfter, history
  <2>2. latch' \/ UNCHANGED <<managed, latch>>
    BY <2>1, Activation
  <2> QED BY <2>1, <2>2 DEF LatchFacts, IssuerSawGuides, Waiting
<1>8. ASSUME NEW phase \in Phases, Claim(phase) PROVE LatchFacts' /\ IssuerSawGuides'
  <2>1. PICK c \in Calls : c = Head(queue).call
    BY <1>8, HeadServed DEF Claim, Serving
  <2>2. /\ queue # <<>> /\ Head(queue).phase = phase /\ claimed' = Unseen(scope[c])
        /\ ledger' = ledger \cup claimed'
        /\ needed' = IF phase = "before" THEN [needed EXCEPT ![c] = Loaded(scope[c])] ELSE needed
        /\ UNCHANGED <<system, managed, latch, stage, visible, lost>>
    BY <1>8, <2>1 DEF Claim, Serving, host
  <2>3. phase = "before" => stage[c] = "queued"
    BY <2>1, <2>2, HeadServed DEF QueueFacts
  <2>4. Loaded(scope[c]) \subseteq ledger'
    BY <2>2 DEF Unseen
  <2>5. ASSUME NEW d \in Calls
        PROVE  needed'[d] \subseteq ledger' /\ (stage[d] = "running" => needed'[d] = needed[d])
    <3>1. needed'[d] = IF phase = "before" /\ d = c THEN Loaded(scope[c]) ELSE needed[d]
      BY <2>2 DEF GateTypeOK
    <3>2. needed[d] \subseteq ledger'
      BY <2>2 DEF LatchFacts
    <3> QED BY <2>3, <2>4, <3>1, <3>2
  <2>6. LatchFacts'
    BY <2>2, <2>5 DEF LatchFacts, Waiting
  <2>7. IssuerSawGuides'
    BY <2>2, <2>5 DEF IssuerSawGuides
  <2> QED BY <2>6, <2>7
<1>9. CASE HookFails
  <2> DEFINE c == Head(queue).call
  <2>1. /\ lost' = lost \cup claimed /\ queue # <<>>
        /\ UNCHANGED <<ledger, system, managed, latch, visible, needed>>
    BY <1>9 DEF HookFails
  <2>2. CASE Serving("before")
    <3>1. /\ stage' = [stage EXCEPT ![c] = "running"] /\ ~ latch /\ c \in Calls /\ stage[c] = "queued"
      BY <1>9, <2>2, HeadServed DEF HookFails, Serving, QueueFacts
    <3> HIDE DEF c
    <3>2. system \cup Injected(managed) \subseteq visible[c] /\ needed[c] \subseteq ledger
      BY <3>1 DEF LatchFacts, Waiting
    <3>3. needed[c] \subseteq visible[c] \cup lost'
      BY <2>1, <3>2 DEF LedgerAccounts
    <3>4. LatchFacts'
      BY <2>1, <3>1 DEF LatchFacts, Waiting, GateTypeOK
    <3>5. IssuerSawGuides'
      BY <2>1, <3>1, <3>3 DEF IssuerSawGuides, GateTypeOK
    <3> QED BY <3>4, <3>5
  <2>3. CASE ~ Serving("before")
    <3>1. stage' = stage
      BY <1>9, <2>3 DEF HookFails
    <3> QED BY <2>1, <3>1 DEF LatchFacts, IssuerSawGuides, Waiting
  <2> QED BY <2>2, <2>3
<1>10. CASE RetryWorker
  <2>1. /\ managed' = <<>> /\ stage' = [c \in Calls |-> "idle"] /\ needed' = [c \in Calls |-> {}]
    BY <1>10 DEF RetryWorker, NewSession
  <2> QED BY <2>1 DEF LatchFacts, IssuerSawGuides, Waiting
<1>11. ASSUME NEW c \in Calls, EnqueueBefore(c) PROVE LatchFacts' /\ IssuerSawGuides'
  <2>1. /\ stage' = [stage EXCEPT ![c] = "queued"] /\ stage[c] = "asked"
        /\ UNCHANGED <<managed, latch, system, ledger, lost, visible, needed>>
    BY <1>11 DEF EnqueueBefore, history
  <2>2. stage'[c] = "queued" /\ Waiting(c) /\ \A d \in Calls : d # c => stage'[d] = stage[d]
    BY <2>1 DEF GateTypeOK, Waiting
  <2> QED BY <1>1, <2>1, <2>2
<1>12. ASSUME NEW c \in Calls, EnqueueAfter(c) PROVE LatchFacts' /\ IssuerSawGuides'
  BY <1>12 DEF EnqueueAfter, history, LatchFacts, IssuerSawGuides, Waiting
<1>13. ASSUME NEW c \in Calls, Finish(c) PROVE LatchFacts' /\ IssuerSawGuides'
  <2>1. /\ stage' = [stage EXCEPT ![c] = "done"] /\ visible' = [visible EXCEPT ![c] = {}]
        /\ needed' = [needed EXCEPT ![c] = {}] /\ UNCHANGED <<managed, latch, system, ledger, lost>>
    BY <1>13 DEF Finish, Forget, plugin
  <2>2. /\ stage'[c] = "done"
        /\ \A d \in Calls : d # c => stage'[d] = stage[d] /\ visible'[d] = visible[d]
        /\ \A d \in Calls : needed'[d] \subseteq needed[d]
    BY <2>1 DEF GateTypeOK, Waiting
  <2> QED BY <1>1, <2>1, <2>2
<1>14. ASSUME NEW d \in Dirs, Edit(d) PROVE LatchFacts' /\ IssuerSawGuides'
  BY <1>14 DEF Edit, plugin, host, history, LatchFacts, IssuerSawGuides, Waiting
<1> QED BY <1>2, <1>3, <1>4, <1>5, <1>6, <1>7, <1>8, <1>9, <1>10, <1>11, <1>12, <1>13, <1>14
        DEF GateNext, Serve
-----------------------------------------------------------------------------
(* The requests.                                                           *)

Message(m) == [message |-> m, place |-> 0, guides |-> {}]
Group(k) == [message |-> managed[k].anchor, place |-> k, guides |-> managed[k].guides]

(* A request only adds, behind what was sent.                              *)
LEMMA ProjectGrows ==
  ASSUME GateTypeOK, SentFacts, Project
  PROVE  /\ sent \subseteq sent'
         /\ \A i \in sent, j \in sent' \ sent : Precedes(i, j)
         /\ SentFacts'
<1>1. /\ managed' = Anchored /\ sent' = Request(Anchored, messages) /\ messages' = messages
      /\ messages \in Nat \ {0}
  BY DEF Project, GateTypeOK
<1>2. /\ DOMAIN Anchored = DOMAIN managed /\ DOMAIN managed \subseteq Nat \ {0}
      /\ \A k \in DOMAIN managed :
           /\ Anchored[k].guides = managed[k].guides /\ managed[k].anchor \in Nat
           /\ Anchored[k].anchor = IF managed[k].anchor = 0 THEN messages ELSE managed[k].anchor
  BY AnchoredKeeps, EntryTyping
<1> DEFINE New(k) == [message |-> Anchored[k].anchor, place |-> k, guides |-> Anchored[k].guides]
<1>3. \A i : i \in sent' <=> \/ \E m \in 1 .. messages : i = Message(m)
                             \/ \E k \in DOMAIN managed : i = New(k)
  BY <1>1, <1>2 DEF Request, Message
<1>4. \A k \in DOMAIN managed : managed[k].anchor # 0 => New(k) = Group(k) /\ Group(k) \in sent
  BY <1>2 DEF SentFacts, Group
<1>5. ASSUME NEW i \in sent
      PROVE  /\ i.message \in 1 .. messages /\ i \in sent'
             /\ \A m \in 1 .. i.message : Message(m) \in sent
             /\ \/ i.place = 0
                \/ i.place \in DOMAIN managed /\ managed[i.place].anchor # 0
  <2>1. /\ i.message \in 1 .. messages /\ \A m \in 1 .. i.message : Message(m) \in sent
    BY DEF SentFacts, Message
  <2>2. CASE i = Message(i.message)
    BY <1>3, <2>1, <2>2 DEF Message
  <2>3. CASE i.place \in DOMAIN managed /\ managed[i.place].anchor # 0 /\ i = Group(i.place)
    BY <1>3, <1>4, <2>1, <2>3
  <2> QED BY <2>1, <2>2, <2>3 DEF SentFacts, Message, Group
<1>6. ASSUME NEW i \in sent, NEW j \in sent' \ sent PROVE Precedes(i, j)
  <2>1. CASE \E m \in 1 .. messages : j = Message(m)
    <3>1. PICK m \in 1 .. messages : j = Message(m)
      BY <2>1
    <3>2. ~ (m <= i.message)
      BY <1>1, <1>5, <1>6, <3>1
    <3> QED BY <1>1, <1>5, <3>1, <3>2 DEF Precedes, Message
  <2>2. CASE \E k \in DOMAIN managed : j = New(k)
    <3>1. PICK k \in DOMAIN managed : j = New(k)
      BY <2>2
    <3>2. managed[k].anchor = 0
      BY <1>4, <1>6, <3>1
    <3>3. j.message = messages /\ j.place = k
      BY <1>2, <3>1, <3>2
    <3>4. i.place < k
      BY <1>2, <1>5, <3>2 DEF SentFacts
    <3> QED BY <1>1, <1>5, <3>3, <3>4 DEF Precedes
  <2> QED BY <1>3, <2>1, <2>2
<1>7. SentFacts'
  <2>1. \A k \in DOMAIN managed' : managed'[k].anchor \in 1 .. messages
    BY <1>1, <1>2 DEF SentFacts
  <2>2. \A k \in DOMAIN managed' :
          [message |-> managed'[k].anchor, place |-> k, guides |-> managed'[k].guides] \in sent'
    BY <1>1, <1>2, <1>3
  <2>3. \A m \in 1 .. messages : Message(m) \in sent'
    BY <1>3
  <2>4. ASSUME NEW i \in sent'
        PROVE  /\ i.message \in 1 .. messages
               /\ \/ i = Message(i.message)
                  \/ /\ i.place \in DOMAIN managed' /\ managed'[i.place].anchor # 0
                     /\ i = [message |-> managed'[i.place].anchor, place |-> i.place,
                             guides |-> managed'[i.place].guides]
               /\ \A m \in 1 .. i.message : Message(m) \in sent'
    <3>1. CASE \E m \in 1 .. messages : i = Message(m)
      BY <1>1, <2>3, <3>1 DEF Message
    <3>2. CASE \E k \in DOMAIN managed : i = New(k)
      <4>1. PICK k \in DOMAIN managed' :
              i = [message |-> managed'[k].anchor, place |-> k, guides |-> managed'[k].guides]
        BY <1>1, <1>2, <3>2
      <4>2. i.message \in 1 .. messages /\ i.place = k /\ managed'[k].anchor # 0
        BY <2>1, <4>1
      <4> QED BY <1>1, <2>3, <4>1, <4>2
    <3> QED BY <1>3, <3>1, <3>2
  <2> QED BY <1>1, <2>1, <2>2, <2>4 DEF SentFacts, Message
<1> QED BY <1>5, <1>6, <1>7

LEMMA SentStep ==
  ASSUME GateTypeOK, SentFacts, GateNext
  PROVE  /\ SentFacts'
         /\ attempt' = attempt =>
              /\ sent \subseteq sent'
              /\ \A i \in sent, j \in sent' \ sent : Precedes(i, j)
<1>1. CASE Project
  BY <1>1, ProjectGrows
<1>2. ASSUME UNCHANGED <<managed, sent>>, messages' \in {messages, messages + 1}
      PROVE  SentFacts'
  <2>1. /\ messages \in Nat /\ \A k \in DOMAIN managed : managed[k].anchor \in Nat
    BY EntryTyping DEF GateTypeOK
  <2>2. \A k \in DOMAIN managed' : managed'[k].anchor <= messages'
    BY <1>2, <2>1 DEF SentFacts
  <2>3. \A i \in sent' : i.message \in 1 .. messages'
    BY <1>2, <2>1 DEF SentFacts
  <2> QED BY <1>2, <2>2, <2>3 DEF SentFacts
<1>3. ASSUME Activate(claimed), UNCHANGED <<messages, sent>>
      PROVE  SentFacts'
  <2>1. CASE claimed = {}
    BY <1>2, <1>3, <2>1 DEF Activate
  <2>2. CASE claimed # {}
    <3> DEFINE e == [guides |-> claimed, anchor |-> 0]
    <3>1. /\ managed' = Append(managed, e) /\ e \in Entry /\ managed \in Seq(Entry)
          /\ e.anchor = 0
      BY <1>3, <2>2, Activation, EntryTyping
    <3> HIDE DEF e
    <3>2. /\ DOMAIN managed' = DOMAIN managed \cup {Len(managed) + 1}
          /\ managed'[Len(managed) + 1] = e /\ Len(managed) + 1 \notin DOMAIN managed
          /\ \A i \in DOMAIN managed : managed'[i] = managed[i] /\ i < Len(managed) + 1
      BY <3>1, Appended
    <3>3. \A k \in DOMAIN managed' : managed'[k].anchor <= messages'
      BY <1>3, <3>1, <3>2 DEF SentFacts, GateTypeOK
    <3>4. ASSUME NEW j \in DOMAIN managed', NEW k \in DOMAIN managed', j < k,
                 managed'[j].anchor = 0
          PROVE  managed'[k].anchor = 0
      <4>1. DOMAIN managed \subseteq Nat /\ Len(managed) \in Nat
        BY <3>1
      <4>2. CASE k = Len(managed) + 1
        BY <3>1, <3>2, <4>2
      <4>3. CASE k # Len(managed) + 1
        BY <3>2, <3>4, <4>1, <4>3 DEF SentFacts
      <4> QED BY <4>2, <4>3
    <3>5. \A k \in DOMAIN managed' : managed'[k].anchor # 0 =>
            [message |-> managed'[k].anchor, place |-> k, guides |-> managed'[k].guides] \in sent'
      BY <1>3, <3>1, <3>2 DEF SentFacts
    <3>6. ASSUME NEW i \in sent
          PROVE  \/ i = Message(i.message)
                 \/ /\ i.place \in DOMAIN managed' /\ managed'[i.place].anchor # 0
                    /\ i = [message |-> managed'[i.place].anchor, place |-> i.place,
                            guides |-> managed'[i.place].guides]
      BY <3>2 DEF SentFacts, Message
    <3>7. \A i \in sent : i.message \in 1 .. messages' /\ \A m \in 1 .. i.message : Message(m) \in sent'
      BY <1>3 DEF SentFacts, Message
    <3> QED BY <1>3, <3>3, <3>4, <3>5, <3>6, <3>7 DEF SentFacts, Message
  <2> QED BY <2>1, <2>2
<1>4. CASE AnswerBefore \/ AnswerAfter
  BY <1>3, <1>4 DEF AnswerBefore, AnswerAfter, history
<1>5. CASE RetryWorker
  <2>1. attempt' # attempt /\ sent' = {} /\ managed' = <<>>
    BY <1>5 DEF RetryWorker, NewSession, GateTypeOK
  <2> QED BY <2>1 DEF SentFacts
<1>6. CASE RetryRequest \/ Respond \/ Deny \/ HookFails
  BY <1>2, <1>6 DEF RetryRequest, Respond, Deny, HookFails, plugin, history
<1>7. ASSUME NEW phase \in Phases, Claim(phase) PROVE SentFacts' /\ sent' = sent
  BY <1>2, <1>7 DEF Claim, host
<1>8. ASSUME NEW c \in Calls, EnqueueBefore(c) \/ EnqueueAfter(c) \/ Finish(c)
      PROVE  SentFacts' /\ sent' = sent
  BY <1>2, <1>8 DEF EnqueueBefore, EnqueueAfter, Finish, plugin, history
<1>9. ASSUME NEW d \in Dirs, Edit(d) PROVE SentFacts' /\ sent' = sent
  BY <1>2, <1>9 DEF Edit, plugin, host, history
<1>10. ASSUME sent' = sent PROVE \A j \in sent' \ sent : FALSE
  BY <1>10
<1>11. sent' = sent \/ Project \/ RetryWorker
  BY <1>7, <1>8, <1>9 DEF GateNext, Serve, RetryRequest, Respond, Deny, HookFails, AnswerBefore,
     AnswerAfter, plugin, history
<1> QED BY <1>1, <1>4, <1>5, <1>6, <1>7, <1>8, <1>9, <1>10, <1>11 DEF GateNext, Serve

-----------------------------------------------------------------------------
LEMMA GateStart == GateInit => GateInv
<1> SUFFICES ASSUME GateInit PROVE GateInv
  OBVIOUS
<1> USE GateAssumption
<1>1. revision \in [Dirs -> Nat] /\ \A d \in Dirs : revision[d] <= Revisions[d]
  BY DEF GateInit
<1>2. Loaded({Root}) \in SUBSET Guides
  BY <1>1 DEF Loaded, Guides
<1>3. GateTypeOK
  <2>1. queue \in Seq([call : Calls, phase : Phases]) /\ managed \in Seq(Entry)
    BY DEF GateInit
  <2>2. /\ stage \in [Calls -> {"idle", "asked", "queued", "running", "done"}]
        /\ scope \in [Calls -> SUBSET Dirs] /\ after \in [Calls -> {"none", "due", "queued"}]
        /\ visible \in [Calls -> SUBSET Guides] /\ needed \in [Calls -> SUBSET Guides]
    BY DEF GateInit
  <2>3. ledger = Loaded({Root}) /\ system = ledger /\ lost = {} /\ claimed = {}
    BY DEF GateInit
  <2>4. /\ messages = 1 /\ attempt = 1 /\ latch = FALSE /\ turn = "act" /\ hook_process = "none"
    BY DEF GateInit
  <2>5. ledger \in SUBSET Guides /\ system \in SUBSET Guides /\ lost \in SUBSET Guides
        /\ claimed \in SUBSET Guides
    BY <1>2, <2>3
  <2>6. messages \in 1 .. MaxMessages /\ attempt \in 1 .. MaxAttempts
    BY <2>4
  <2> HIDE GateAssumption
  <2> QED BY <1>1, <2>1, <2>2, <2>4, <2>5, <2>6 DEF GateTypeOK, Entry
<1>4. LedgerAccounts /\ QueueFacts /\ LatchFacts /\ SentFacts /\ IssuerSawGuides
  BY DEF GateInit, LedgerAccounts, Injected, QueueFacts, LatchFacts, SentFacts, IssuerSawGuides, Waiting
<1> QED BY <1>3, <1>4 DEF GateInv

LEMMA GateInvStep == GateInv /\ [GateNext]_gateVars => GateInv'
<1>1. ASSUME GateInv, GateNext PROVE GateInv'
  BY <1>1, GateTypeStep, LedgerStep, QueueStep, LatchStep, SentStep DEF GateInv
<1>2. ASSUME GateInv, UNCHANGED gateVars PROVE GateInv'
  BY <1>2 DEF GateInv, gateVars, plugin, host, history, GateTypeOK, LedgerAccounts, Injected,
     QueueFacts, LatchFacts, Waiting, SentFacts, IssuerSawGuides
<1> QED BY <1>1, <1>2

(* The state of plugin, hook and host keeps its type for any directories,  *)
(* calls, revisions and attempts.                                          *)
THEOREM GateTypes == GateSpec => []GateTypeOK
<1>1. GateInv => GateTypeOK
  BY DEF GateInv
<1> QED BY <1>1, GateStart, GateInvStep, PTL DEF GateSpec

(* A call that the plugin admits answers a request with every guide that   *)
(* its hook found for it, except what was lost with a hook or a worker     *)
(* that died (tool.execute.before).                                        *)
THEOREM GuidesBeforeTools == GateSpec => []IssuerSawGuides
<1>1. GateInv => IssuerSawGuides
  BY DEF GateInv
<1> QED BY <1>1, GateStart, GateInvStep, PTL DEF GateSpec

(* The ledger of claimed guides accounts for each guide once: it is shown, *)
(* about to be, or lost with a hook or a worker that died (_claim_unseen). *)
THEOREM LedgerIsAccounted == GateSpec => []LedgerAccounts
<1>1. GateInv => LedgerAccounts
  BY DEF GateInv
<1> QED BY <1>1, GateStart, GateInvStep, PTL DEF GateSpec

(* Within an attempt no request takes back, moves or goes before anything  *)
(* an earlier one sent (experimental.chat.messages.transform).             *)
THEOREM PrefixKept == GateSpec => RequestsGrow
<1>1. GateInv /\ [GateNext]_gateVars =>
        [attempt' = attempt => /\ sent \subseteq sent'
                               /\ \A i \in sent, j \in sent' \ sent : Precedes(i, j)]_gateVars
  BY SentStep DEF GateInv
<1> QED BY <1>1, GateStart, GateInvStep, PTL DEF GateSpec, RequestsGrow
=============================================================================
