-------------------------- MODULE AtomicReference --------------------------
(***************************************************************************)
(* What an Atom promises (swap!, reset! and compare-and-set! of            *)
(* clojure.core): every operation takes effect at one moment between its   *)
(* call and its return, and returns what it did at that moment.            *)
(* compare-and-set! may fail although the values are identical, and a      *)
(* validator may refuse any operation, which then changes nothing.         *)
(***************************************************************************)
CONSTANTS
  G,        \* goroutines
  Values,   \* values of the Atom
  Calls,    \* the calls goroutines make
  Idle,     \* no call
  Pending,  \* the result of a call that has not taken effect
  Refused   \* the exception of a validator

VARIABLES
  val,      \* the value of the Atom
  call,     \* the call each goroutine is in, or Idle
  result    \* its result, or Pending

vars == <<val, call, result>>

Init ==
  /\ val \in Values
  /\ call = [g \in G |-> Idle]
  /\ result = [g \in G |-> Pending]

Begin(g) ==
  /\ call[g] = Idle
  /\ \E c \in Calls : call' = [call EXCEPT ![g] = c]
  /\ UNCHANGED <<val, result>>

\* The operation changes the value from val to new and will return r.
Effect(g, new, r) ==
  /\ val' = new
  /\ result' = [result EXCEPT ![g] = r]
  /\ UNCHANGED call

TakeEffect(g) ==
  /\ call[g] # Idle /\ result[g] = Pending
  /\ LET c == call[g]
     IN \/ c.kind = "swap" /\ Effect(g, c.f[val], c.f[val])
        \/ c.kind = "reset" /\ Effect(g, c.new, c.new)
        \/ c.kind = "cas" /\ val = c.old /\ Effect(g, c.new, TRUE)
        \/ c.kind = "cas" /\ Effect(g, val, FALSE)
        \/ Effect(g, val, Refused)

Return(g) ==
  /\ result[g] # Pending
  /\ call' = [call EXCEPT ![g] = Idle]
  /\ result' = [result EXCEPT ![g] = Pending]
  /\ UNCHANGED val

Next == \E g \in G : Begin(g) \/ TakeEffect(g) \/ Return(g)

Spec == Init /\ [][Next]_vars
=============================================================================
