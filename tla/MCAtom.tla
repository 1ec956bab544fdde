------------------------------- MODULE MCAtom -------------------------------
(* Instances of Atom for TLC. *)
EXTENDS Atom, TLC

CONSTANTS g1, g2

TwoGoroutines == {g1, g2}
TwoValues == 0 .. 1
Flip == [v \in TwoValues |-> 1 - v]

SomeCalls ==
  {[kind |-> "swap", f |-> Flip]} \cup [kind : {"reset"}, new : TwoValues]
    \cup [kind : {"cas"}, old : TwoValues, new : TwoValues]
SomeValidators == {TwoValues, {0}}

Symmetry == Permutations(TwoGoroutines)
=============================================================================
