--------------------------- MODULE MCShellScopes ---------------------------
EXTENDS ShellScopes

(* The directory "s" with the directories "a" and "a/b" and the link "l"   *)
(* to "a/b", whose parent is not the directory of the link.                *)
MCPath == {"s", "s/a", "s/a/b", "s/l"}
MCNames == {"a", "b", "l", "..", "/a"}
MCWalk ==
  [p \in MCPath |-> [n \in MCNames |->
     CASE n = "/a" -> "s/a"
       [] p = "s" /\ n = "a" -> "s/a"
       [] p = "s" /\ n = "l" -> "s/l"
       [] p = "s/a" /\ n = "b" -> "s/a/b"
       [] p = "s/a/b" /\ n = ".." -> "s/a"
       [] p \in {"s/a", "s/l"} /\ n = ".." -> "s"
       [] OTHER -> Missing]]
MCReal == [p \in MCPath |-> IF p = "s/l" THEN "s/a/b" ELSE p]
MCOperands == {<<"l">>, <<"a", "b">>, <<"a", "..">>, <<"l", "..">>, <<"/a", "l">>}

(* With "a/b", and without it: the link leads nowhere then. *)
MCTrees == {MCPath, {"s", "s/a"}}
OneTree == {MCPath}

(* Without links. *)
PlainPath == {"s", "s/a", "s/a/b"}
PlainNames == {"a", "b", "..", "/a"}
PlainWalk == [p \in PlainPath |-> [n \in PlainNames |-> MCWalk[p][n]]]
PlainReal == [p \in PlainPath |-> p]
PlainTrees == {PlainPath, {"s", "s/a"}}
=============================================================================
