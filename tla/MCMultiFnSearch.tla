--------------------------- MODULE MCMultiFnSearch ---------------------------
(* Instances of MultiFnSearch for TLC. *)
EXTENDS MultiFnSearch

CONSTANTS a, b, c, d

FourVals == {a, b, c, d}
Symmetry == Permutations(FourVals)
=============================================================================
