-------------------------- MODULE MCControlIteration --------------------------
(* TLC instance of ControlIteration: session ids are interchangeable. *)
EXTENDS ControlIteration, TLC

SessionSymmetry == Permutations(Sessions)
=============================================================================
