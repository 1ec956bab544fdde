----------------------------- MODULE MCMultiFn -----------------------------
(* Instances of MultiFn for TLC: a and b are unrelated, c derives from either *)
(* or both.                                                                   *)
EXTENDS MultiFn

CONSTANTS g1, g2, a, b, c, m1, m2

TwoGoroutines == {g1, g2}
TwoMethods == {m1, m2}
OneMethodEach == {<<a, m1>>, <<b, m2>>}
OnlyC == {c}
AandB == {a, b}
Vals == {a, b, c}
Parents(x) == [v \in Vals |-> IF v = c THEN x ELSE {}]
SomeHierarchies == {Parents({a}), Parents({a, b})}
=============================================================================
