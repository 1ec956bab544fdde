----------------------------- MODULE MCNsLoader -----------------------------
(* Instances of NsLoader for TLC: b's body calls a's loader, and a's its own, *)
(* as it does when it reads one of its own Vars before it is defined.        *)
EXTENDS NsLoader, TLC

CONSTANTS g1, g2, g3, a, b

ThreeGoroutines == {g1, g2, g3}
TwoLoaders == {a, b}
Chain == (a :> {a}) @@ (b :> {a})
=============================================================================
