--------------------------- MODULE MCThreadBindings ---------------------------
(* Instances of ThreadBindings for TLC: d is a dynamic Var, a is not. *)
EXTENDS ThreadBindings

CONSTANTS g1, g2, d, a

TwoGoroutines == {g1, g2}
OneGoroutine == {g1}
BothVars == {d, a}
OnlyD == {d}
TwoValues == {0, 1}
\* (binding [d 1] ...) and (binding [d 1 a 1] ...), which cannot succeed.
SomeForms == {[v \in {d} |-> 1], [v \in {d, a} |-> 1]}

Symmetry == Permutations(TwoGoroutines)
=============================================================================
