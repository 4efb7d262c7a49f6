----------------------------- MODULE MCGuideGate -----------------------------
(* Two calls over the root and one more directory, two worker attempts.    *)
(* A guide that is removed and another one that appears stand for a change *)
(* of revision.                                                            *)
EXTENDS GuideGate

CONSTANT Other
MCDirs == {Root, Other}
MCRevisions == [d \in MCDirs |-> 1]
=============================================================================
