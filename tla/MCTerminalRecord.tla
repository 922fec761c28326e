-------------------------- MODULE MCTerminalRecord --------------------------
(* TerminalRecord on a small instance: the two statuses are interchangeable. *)
EXTENDS TerminalRecord, TLC

CONSTANTS s1, s2

MCStatuses == {s1, s2}
Symmetry == Permutations(MCStatuses)
=============================================================================
