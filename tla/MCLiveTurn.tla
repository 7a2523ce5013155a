----------------------------- MODULE MCLiveTurn -----------------------------
(* Instances of LiveTurn for TLC. *)
EXTENDS LiveTurn, TLC

CONSTANTS p, q, c, d

Symmetry == Permutations(Plates) \cup Permutations(Columns)
=============================================================================
