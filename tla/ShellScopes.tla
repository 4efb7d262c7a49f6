---------------------------- MODULE ShellScopes ----------------------------
(***************************************************************************)
(* What the guide hook says a shell command line did, beside what the      *)
(* shell does.  The hook never runs the line: _literal_shell_scopes of     *)
(* src/utils/directory_agents_hook.py goes over its simple commands,       *)
(* keeping a directory, a directory stack and an exit status that are      *)
(* known or None (Unknown here), and reports the directories that the line *)
(* must have entered (transitions) or handed to git -C (directories).  The *)
(* guides of those directories are then injected, so that a report the     *)
(* shell does not honour delivers the guide of a directory nobody went to. *)
(*                                                                         *)
(* A step takes one simple command with the separator before it.  The      *)
(* lexer is abstracted: a command is its name and its arguments, and a     *)
(* word that is not a literal is Dynamic.                                  *)
(*                                                                         *)
(* The hook looks at the tree of one moment: before the line (PreToolUse)  *)
(* or after it (PostToolUse), while the commands of the line make and      *)
(* remove directories.  A tree is the set of the paths that lead to a      *)
(* directory; Walk[p][n] is the logical path that the name n means from p  *)
(* (Missing: a place no tree has), Real[p] the path without links.         *)
(***************************************************************************)
EXTENDS Integers, Sequences, SequencesExt

CONSTANTS
  Path,        \* logical paths of directories
  Names,       \* operands of cd, pushd and git -C
  Absolute,    \* those that begin with "/"
  Walk,        \* where a name leads from a path
  Real,        \* the path behind the links of a path
  Trees,       \* the trees there may be: sets of paths
  Start,       \* the directory the line starts in, resolved
  Operands,    \* the git -C operand lists tried, not empty
  Unknown, Missing, Dynamic,
  MaxCommands  \* bound on the length of the line

ASSUME TreeAssumption ==
  /\ Absolute \subseteq Names
  /\ Walk \in [Path -> [Names -> Path \cup {Missing}]]
  /\ Real \in [Path -> Path] /\ \A p \in Path : Real[Real[p]] = Real[p]
  /\ Trees \subseteq SUBSET Path
  /\ \A t \in Trees, p \in Path : p \in t => Real[p] \in t
  /\ Start \in Path /\ Real[Start] = Start
  /\ {Unknown, Missing} \cap Path = {}
  /\ Dynamic \notin Names /\ Dynamic \notin Operands
  /\ \A o \in Operands : o \in Seq(Names) /\ o # <<>>
  /\ \A p, q \in Path, n \in Absolute : Walk[p][n] = Walk[q][n]

VARIABLES
  \* the hook
  sight,       \* the tree it looks at
  current, stack, previous_status, transitions, directories,
  doubted,     \* history: something of the line was not decided
  \* the shell
  cwd, dirstack, status, line,
  visited,     \* history: the directories it changed to
  used,        \* history: the directories git changed to
  tree,        \* the directories that exist now
  strayed,     \* history: a name led elsewhere than the hook's sight says
  position     \* commands so far

hook == <<current, stack, previous_status, transitions, directories, doubted>>
shell == <<cwd, dirstack, status, line, visited, used, tree, strayed>>
vars == <<hook, shell, sight, position>>

Statuses == {"true", "false", "unknown"}
Changes == {"cd", "cdP", "pushd"}

(* cdP is cd -P; popdN a popd with an index or an option. *)
Command ==
  [name : {"true", "false", "plain", "dynamic", "popd", "popdN"},
   arg : {Dynamic}]
  \cup [name : Changes, arg : Names \cup {Dynamic}]
  \cup [name : {"git"}, arg : Operands \cup {Dynamic}]

(* Which tree the hook sees is left open: it may be that of the start, that *)
(* of the end, or one that a parallel call has changed in between.         *)
Init ==
  /\ sight \in Trees /\ tree \in Trees /\ Start \in tree
  /\ current = Start /\ stack = <<>> /\ previous_status = "unknown"
  /\ transitions = {} /\ directories = {} /\ doubted = FALSE
  /\ cwd = Start /\ dirstack = <<>> /\ status = "true" /\ line = "running"
  /\ visited = {} /\ used = {} /\ strayed = FALSE
  /\ position = 0

-----------------------------------------------------------------------------
(* The hook.                                                               *)

(* _change_directory: the logical path, if it leads to a directory of the  *)
(* tree the hook sees.                                                     *)
Sight ==
  [p \in Path |-> [n \in Names |->
     IF Walk[p][n] \in sight THEN Walk[p][n] ELSE Missing]]

(* A relative target from an unknown directory is none. *)
Lookup(from, n) ==
  IF from # Unknown THEN Sight[from][n]
  ELSE IF n \in Absolute THEN Sight[Start][n] ELSE Missing

Decides(n) == n # Dynamic /\ (current # Unknown \/ n \in Absolute)

Negation(s) == CASE s = "true" -> "false" [] s = "false" -> "true" [] OTHER -> s

(* should_run of a command behind the separator sep. *)
ShouldRun(sep) ==
  CASE sep = "semi" -> "true"
    [] sep = "and" -> previous_status
    [] sep = "or" -> Negation(previous_status)

Same(s) == [current |-> current, stack |-> stack, status |-> s,
            moves |-> {}, scopes |-> {}]
Lost == [Same("unknown") EXCEPT !.current = Unknown, !.stack = Unknown]

Entered(c) ==
  LET logical == Lookup(current, c.arg)
  IN  [current |-> logical, status |-> "true",
       moves |-> {Real[logical]}, scopes |-> {},
       stack |-> IF c.name = "pushd" /\ stack # Unknown
                 THEN Append(stack, current) ELSE stack]

Change(c) ==
  IF ~ Decides(c.arg)
  THEN [Same("unknown") EXCEPT !.current = Unknown,
                               !.stack = IF c.name = "pushd" THEN Unknown ELSE @]
  ELSE IF Lookup(current, c.arg) = Missing THEN Same("false") ELSE Entered(c)

(* Mutation: popd is followed, its directory not reported. *)
Mut_PopUnreported ==
  IF stack = Unknown THEN Lost
  ELSE IF stack = <<>> THEN Same("false")
  ELSE [Same("true") EXCEPT !.current = Last(stack), !.stack = Front(stack)]

Pop ==
  IF stack = Unknown THEN [Same("unknown") EXCEPT !.current = Unknown]
  ELSE IF stack = <<>> THEN Same("false")
  ELSE [current |-> Last(stack), stack |-> Front(stack), status |-> "true",
        moves |-> {Real[p] : p \in {Last(stack)} \ {Unknown}}, scopes |-> {}]

(* The paths that operands lead through, each from the one before.         *)
Trail(step, first, rest) ==
  LET path[i \in 0..Len(rest)] ==
        IF i = 0 THEN first
        ELSE IF path[i - 1] = Missing THEN Missing ELSE step[path[i - 1]][rest[i]]
  IN  path

(* The directories behind them; an operand that leads nowhere rejects all. *)
Behind(trail) ==
  IF \E i \in DOMAIN trail : trail[i] = Missing THEN {}
  ELSE {Real[trail[i]] : i \in DOMAIN trail}

(* _git_directory_operands: every operand in turn, from the logical path   *)
(* of the one before.                                                      *)
Chain(first, rest) == Behind(Trail(Sight, first, rest))

(* Mutation: every operand is taken from the directory of the shell. *)
Mut_OperandsFromShell(from, operands) ==
  IF operands = Dynamic THEN {}
  ELSE Behind([i \in DOMAIN operands |-> Lookup(from, operands[i])])

GitScopes(from, operands) ==
  IF operands = Dynamic THEN {} ELSE Chain(Lookup(from, Head(operands)), Tail(operands))

(* What the hook makes of one command, were it to run. *)
Effect(c) ==
  CASE c.name \in {"true", "false"} -> Same(c.name)
    [] c.name \in Changes -> Change(c)
    [] c.name = "popd" -> Pop
    [] c.name = "git" -> [Same("unknown") EXCEPT !.scopes = GitScopes(current, c.arg)]
    [] c.name \in {"dynamic", "popdN"} -> Lost
    [] OTHER -> Same("unknown")

(* A command that must run: its effect is taken over. *)
Follow(c) ==
  LET e == Effect(c) IN
  /\ current' = e.current /\ stack' = e.stack
  /\ previous_status' = e.status
  /\ transitions' = transitions \cup e.moves
  /\ directories' = directories \cup e.scopes
  /\ doubted' = (doubted \/ Unknown \in {e.current, e.stack}
                         \/ (c.name = "git" /\ e.scopes = {}))

(* Mutation: no merge with the outcome in which the command does not run. *)
Mut_DoubtKeepsEffect(sep, c) ==
  LET e == Effect(c) IN
  /\ current' = e.current
  /\ stack' = e.stack
  /\ previous_status' = "unknown"
  /\ doubted' = TRUE
  /\ UNCHANGED <<transitions, directories>>

(* A command that may run: what both outcomes agree on is kept, and none   *)
(* of its scopes is reported.                                              *)
Doubt(sep, c) ==
  LET e == Effect(c) IN
  /\ current' = IF e.current = current THEN current ELSE Unknown
  /\ stack' = IF e.stack = stack THEN stack ELSE Unknown
  /\ previous_status' = IF <<sep, e.status>> \in {<<"and", "false">>, <<"or", "true">>}
                        THEN e.status ELSE "unknown"
  /\ doubted' = TRUE
  /\ UNCHANGED <<transitions, directories>>

(* One turn of the loop of _literal_shell_scopes. *)
Analyse(sep, c) ==
  \/ ShouldRun(sep) = "false" /\ UNCHANGED hook
  \/ ShouldRun(sep) = "true" /\ Follow(c)
  \/ ShouldRun(sep) = "unknown" /\ Doubt(sep, c)

-----------------------------------------------------------------------------
(* The shell.                                                              *)

Runs(sep) ==
  /\ line = "running"
  /\ CASE sep = "semi" -> TRUE
       [] sep = "and" -> status = "true"
       [] sep = "or" -> status = "false"

Ends(s) ==
  status' = s /\ UNCHANGED <<cwd, dirstack, line, visited, used, tree, strayed>>

(* A command of any other name: mkdir, rm, mv, ln are among them. *)
Plain(c) ==
  \/ c.name \in {"true", "false"} /\ Ends(c.name)
  \/ /\ c.name = "plain"
     /\ tree' \in Trees /\ status' \in {"true", "false"}
     /\ UNCHANGED <<cwd, dirstack, line, visited, used, strayed>>

(* Where a path leads that is followed link by link, as chdir does. *)
Ground ==
  [p \in Path |-> [n \in Names |->
     IF Walk[p][n] \in tree THEN Real[Walk[p][n]] ELSE Missing]]

(* Where a cd or pushd of the literal name n leads: to the logical path,   *)
(* or else to the physical one; only there with -P.                        *)
Goes(c, n) ==
  IF c.name # "cdP" /\ Walk[cwd][n] \in tree THEN Walk[cwd][n] ELSE Ground[Real[cwd]][n]

(* The shell's directory is gone and the name is relative. *)
Adrift(n) == cwd \notin tree /\ n \notin Absolute

CdLiteral(c) ==
  /\ c.name \in Changes /\ c.arg # Dynamic /\ ~ Adrift(c.arg)
  /\ strayed' = (strayed \/ Goes(c, c.arg) # Sight[cwd][c.arg])
  /\ IF Goes(c, c.arg) = Missing
     THEN status' = "false" /\ UNCHANGED <<cwd, dirstack, visited>>
     ELSE /\ cwd' = Goes(c, c.arg) /\ status' = "true"
          /\ dirstack' = IF c.name = "pushd" THEN Append(dirstack, cwd) ELSE dirstack
          /\ visited' = visited \cup {Real[cwd']}
  /\ UNCHANGED <<line, used, tree>>

(* A target the hook cannot read leads anywhere or fails; pushd without an *)
(* argument exchanges, +n rotates.                                         *)
Elsewhere(stacks) ==
  /\ \/ cwd' \in tree' /\ visited' = visited \cup {Real[cwd']}
     \/ UNCHANGED <<cwd, visited>>
  /\ dirstack' \in stacks /\ status' \in {"true", "false"}
  /\ UNCHANGED <<line, used>>

Stacks == {dirstack, <<>>, <<cwd>>, Append(dirstack, cwd)}

CdAdrift(c) ==
  /\ c.name \in Changes /\ c.arg # Dynamic /\ Adrift(c.arg)
  /\ strayed' = TRUE /\ tree' = tree
  /\ Elsewhere(Stacks)

CdDynamic(c) ==
  /\ c.name \in {"cd", "cdP"} /\ c.arg = Dynamic
  /\ UNCHANGED <<tree, strayed>>
  /\ Elsewhere({dirstack})

(* The word of a dynamic command may be any command's name. *)
AnyStack(c) ==
  /\ c.name \in {"pushd", "popdN", "dynamic"} /\ c.arg = Dynamic
  /\ tree' \in IF c.name = "dynamic" THEN Trees ELSE {tree}
  /\ UNCHANGED strayed
  /\ Elsewhere(Stacks)

(* The hook takes the top of its stack without a look at the tree. *)
Popd(c) ==
  /\ c.name = "popd"
  /\ IF dirstack = <<>> \/ Last(dirstack) \notin tree
     THEN status' = "false" /\ UNCHANGED <<cwd, dirstack, visited>>
     ELSE /\ cwd' = Last(dirstack) /\ dirstack' = Front(dirstack) /\ status' = "true"
          /\ visited' = visited \cup {Real[cwd']}
  /\ strayed' = (strayed \/ (dirstack # <<>> /\ Last(dirstack) \notin tree))
  /\ UNCHANGED <<line, used, tree>>

(* git changes directory with each operand, physically, and ends at the    *)
(* first that leads nowhere.                                               *)
GitTrail(operands) == Trail(Ground, Ground[Real[cwd]][Head(operands)], Tail(operands))

(* The logical trail the hook would follow from the shell's directory.     *)
LogicalTrail(operands) == Trail(Sight, Sight[cwd][Head(operands)], Tail(operands))

Agree(logical, physical) ==
  \A i \in DOMAIN logical :
    physical[i] = IF logical[i] = Missing THEN Missing ELSE Real[logical[i]]

GitLiteral(c) ==
  /\ c.arg # Dynamic /\ ~ Adrift(Head(c.arg))
  /\ used' = used \cup ({GitTrail(c.arg)[i] : i \in DOMAIN GitTrail(c.arg)} \ {Missing})
  /\ strayed' = (strayed \/ ~ Agree(LogicalTrail(c.arg), GitTrail(c.arg)))

GitElsewhere(c) ==
  /\ \/ c.arg = Dynamic /\ strayed' = strayed
     \/ c.arg # Dynamic /\ Adrift(Head(c.arg)) /\ strayed' = TRUE
  /\ \E some \in SUBSET tree : used' = used \cup {Real[p] : p \in some}

Git(c) ==
  /\ c.name = "git"
  /\ GitLiteral(c) \/ GitElsewhere(c)
  /\ tree' \in Trees /\ status' \in {"true", "false"}
  /\ UNCHANGED <<cwd, dirstack, line, visited>>

Execute(c) ==
  \/ Plain(c) \/ CdLiteral(c) \/ CdAdrift(c) \/ CdDynamic(c)
  \/ AnyStack(c) \/ Popd(c) \/ Git(c)

-----------------------------------------------------------------------------
Separators == {"semi", "and", "or"}

Step(sep, c) ==
  /\ position < MaxCommands
  /\ position = 0 => sep = "semi"
  /\ Analyse(sep, c)
  /\ \/ Runs(sep) /\ Execute(c)
     \/ ~ Runs(sep) /\ UNCHANGED shell
  /\ position' = position + 1
  /\ UNCHANGED sight

Next == \E sep \in Separators, c \in Command : Step(sep, c)

Spec == Init /\ [][Next]_vars

(* PreToolUse alone: the hook sees the tree that the line starts with. *)
BeforeSpec == Init /\ sight = tree /\ [][Next]_vars

(* Outside the subset, and not refused: _UNSUPPORTED_COMMANDS names the    *)
(* words of compound commands only, so that exit is taken for a command    *)
(* that leaves the directory and the rest of the line alone.               *)
Exit(sep) ==
  /\ 0 < position /\ position < MaxCommands
  /\ Analyse(sep, [name |-> "plain", arg |-> Dynamic])
  /\ Runs(sep)
  /\ line' = "exited"
  /\ position' = position + 1
  /\ UNCHANGED <<cwd, dirstack, status, visited, used, tree, strayed, sight>>

ExitSpec == Init /\ [][Next \/ \E sep \in Separators : Exit(sep)]_vars

-----------------------------------------------------------------------------
TypeOK ==
  /\ sight \in Trees /\ tree \in Trees /\ strayed \in BOOLEAN
  /\ current \in Path \cup {Unknown}
  /\ stack \in Seq(Path \cup {Unknown}) \cup {Unknown}
  /\ previous_status \in Statuses
  /\ transitions \subseteq Path /\ directories \subseteq Path
  /\ doubted \in BOOLEAN
  /\ cwd \in Path /\ dirstack \in Seq(Path)
  /\ status \in {"true", "false"}
  /\ line \in {"running", "exited"}
  /\ visited \subseteq Path /\ used \subseteq Path
  /\ position \in Nat

(* What the hook claims to know is so: as long as every name the shell     *)
(* followed led where the hook's sight says (~ strayed), its directory,    *)
(* its stack and its status are the shell's, wherever they are not None.   *)
KnownStateIsExact ==
  ~ strayed =>
    /\ current # Unknown => current = cwd
    /\ stack # Unknown =>
         /\ Len(stack) = Len(dirstack)
         /\ \A i \in 1..Len(stack) : stack[i] # Unknown => stack[i] = dirstack[i]
    /\ previous_status # "unknown" /\ position > 0 => previous_status = status

(* Every directory the hook reports as a cd, pushd or popd of the command  *)
(* line ("statically executed", literal_shell_directory_transitions) is    *)
(* one the shell went to, whatever the statuses of the commands the hook   *)
(* cannot read and whatever they make or remove, up to the first name that *)
(* leads the shell elsewhere than the tree the hook sees.                  *)
TransitionsWereMade == ~ strayed => transitions \subseteq visited

(* So for git -C: every directory of a reported operand list, the later    *)
(* operands resolved from the earlier, is one that git changed to.         *)
GitScopesWereUsed == ~ strayed => directories \subseteq used

(* The other direction: as long as every command could also be decided,    *)
(* each directory the shell entered or gave to git is reported, those that *)
(* popd returns to included; its guide is not left out.  (A git whose      *)
(* operands are rejected as a whole is one that was not decided.)          *)
NothingLeftOut ==
  ~ strayed /\ ~ doubted => visited \subseteq transitions /\ used \subseteq directories

(* The same without the reservation, as the docs promise them. *)
EveryTransitionWasMade == transitions \subseteq visited
EveryGitScopeWasUsed == directories \subseteq used
=============================================================================
