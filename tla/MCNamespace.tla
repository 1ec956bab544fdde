---------------------------- MODULE MCNamespace ----------------------------
(* Instances of Namespace for TLC: one namespace refers to two others, one of *)
(* which refers to the other as well.                                        *)
EXTENDS Namespace, TLC

CONSTANTS g1, g2, user, core, lib, x, y, al

TwoGoroutines == {g1, g2}
ThreeNamespaces == {user, core, lib}
TwoSymbols == {x, y}
OneAlias == {al}
OneSeeded == {y}
Referring == {<<user, core>>, <<user, lib>>, <<lib, core>>}
OneDefined == {<<core, x>>, <<lib, x>>}
NoneOrX == {{}, {x}}
Symmetry == Permutations(TwoGoroutines)
OneList == {<<<<x, y>>, <<x, x>>>>}
=============================================================================
