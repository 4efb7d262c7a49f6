-------------------------- MODULE MCDirectoryDecay --------------------------
(* TLC instance of DirectoryDecay: two paths that can coexist, two         *)
(* revisions so that one can replace the other.                            *)
EXTENDS DirectoryDecay, TLC

MCSymmetry == Permutations(Paths) \cup Permutations(Digests)
=============================================================================
