------------------------------ MODULE MCVector ------------------------------
(* Instances of Vector for TLC. *)
EXTENDS Vector, TLC

CONSTANTS s1, s2, t1, t2

TwoSlots == {s1, s2}
TwoTransients == {t1, t2}
UpTo7 == 0 .. 7
FirstLeaves == {0, 3}
Symmetry == Permutations(TwoSlots) \cup Permutations(TwoTransients)
=============================================================================
