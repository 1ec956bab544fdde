------------------------------ MODULE OnceCell ------------------------------
(***************************************************************************)
(* What lazy sequences, delays, promises and futures promise: an object    *)
(* gets an outcome once, and nobody who asks gets another one, or gets one *)
(* before.  The exception of an object that tries again may give way to    *)
(* another exception, but never to a value, and a value to nothing.        *)
(***************************************************************************)
CONSTANTS
  Objects,
  Retried,     \* the objects that try again after an exception
  Outcomes,
  Exceptions,  \* the outcomes that are exceptions
  Unset        \* not an outcome

VARIABLES
  cell,  \* the outcome of each object
  got    \* the outcomes that calls on it have had

cellVars == <<cell, got>>

CellInit ==
  /\ cell = [o \in Objects |-> Unset]
  /\ got = [o \in Objects |-> {}]

Answered(o) == got' = [got EXCEPT ![o] = @ \cup {cell'[o]}]

\* The first call may have its answer in the same step.
Settle(o) ==
  /\ cell[o] = Unset
  /\ cell'[o] \in Outcomes
  /\ cell' = [cell EXCEPT ![o] = cell'[o]]
  /\ UNCHANGED got \/ Answered(o)

FailAgain(o) ==
  /\ o \in Retried /\ cell[o] \in Exceptions
  /\ cell'[o] \in Exceptions
  /\ cell' = [cell EXCEPT ![o] = cell'[o]]
  /\ UNCHANGED got

Answer(o) ==
  /\ cell[o] # Unset
  /\ UNCHANGED cell
  /\ Answered(o)

CellNext == \E o \in Objects : Settle(o) \/ FailAgain(o) \/ Answer(o)

CellSpec == CellInit /\ [][CellNext]_cellVars
=============================================================================
