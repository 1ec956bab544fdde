------------------------------ MODULE MCVarRoot ------------------------------
(* Instances of VarRoot for TLC: d is a dynamic Var, s is not. *)
EXTENDS VarRoot, TLC

CONSTANTS g1, g2, d, s

TwoGoroutines == {g1, g2}
BothVars == {d, s}
OnlyD == {d}
TwoValues == {0, 1}
Flip == [x \in TwoValues |-> 1 - x]

Symmetry == Permutations(TwoGoroutines)
=============================================================================
