--------------------------- MODULE MCPublication ---------------------------
(* The publication of one class by interchangeable manager processes.      *)
EXTENDS Publication, TLC

Symmetry == Permutations(Process)
=============================================================================
