------------------------------- MODULE Calls -------------------------------
(***************************************************************************)
(* The calls that goroutines make on objects which have a value later:     *)
(* lazy and mapped sequences, delays, promises and futures (modules        *)
(* LazySeq, MappedSeq, Delay and Promise, composed in Deferred).           *)
(*                                                                         *)
(* A worker is the goroutine of a future (AgentSubmit in pkg/lang/agent.go)*)
(* and makes one call, the body of the future.  Nothing recovers its       *)
(* panics, which end the process; a panic in another goroutine ends its    *)
(* call.                                                                   *)
(***************************************************************************)
EXTENDS Naturals

CONSTANTS
  G,          \* goroutines
  Workers,    \* those of futures
  Objects,    \* lazy and mapped sequences, delays, promises and futures
  MaxCalls,   \* the number of calls made (a bound of the model)
  NoOne,      \* holds no lock
  Nil,        \* nil
  Exceptions  \* what functions panic with and objects keep, to rethrow it

ASSUME CallsAssumption ==
  Workers \subseteq G /\ NoOne \notin G /\ Nil \notin Exceptions /\ MaxCalls \in Nat

VARIABLES
  op,    \* the call each goroutine is in
  got,   \* history: the outcomes that calls on an object have had
  calls  \* how many calls have been made

callVars == <<op, got, calls>>

Idle == [at |-> "idle"]
Unborn == [at |-> "unborn"]    \* a worker whose future does not exist yet
Exited == [at |-> "exited"]
Crashed == [at |-> "crashed"]
OnceDone == [at |-> "once done"]  \* the state of a sync.Once whose function has ended
InCall(g, kind, at) == op[g].at = at /\ op[g].kind = kind

CallsInit ==
  /\ op = [g \in G |-> IF g \in Workers THEN Unborn ELSE Idle]
  /\ got = [o \in Objects |-> {}]
  /\ calls = 0

\* The process is there.
Running == \A g \in G : op[g] # Crashed

Begin(g, call) ==
  /\ op[g] = Idle /\ calls < MaxCalls
  /\ op' = [op EXCEPT ![g] = call]
  /\ calls' = calls + 1
  /\ UNCHANGED got

Goto(g, at) ==
  /\ op' = [op EXCEPT ![g].at = at]
  /\ UNCHANGED <<got, calls>>

AfterCall(g, value) == IF g \in Workers THEN [at |-> "returned", value |-> value] ELSE Idle

\* The call returns a value that says nothing of the object's: a timeout, a refused delivery.
ReturnAnyway(g, value) ==
  /\ op' = [op EXCEPT ![g] = AfterCall(g, value)]
  /\ UNCHANGED <<got, calls>>

\* The call returns the value of its object, ...
Return(g, value) ==
  /\ op' = [op EXCEPT ![g] = AfterCall(g, value)]
  /\ got' = [got EXCEPT ![op[g].obj] = @ \cup {value}]
  /\ UNCHANGED calls

PanicTo(g) == IF g \in Workers THEN Crashed ELSE Idle

\* ... or panics, with an exception of its own, ...
Panic(g) ==
  /\ op' = [op EXCEPT ![g] = PanicTo(g)]
  /\ UNCHANGED <<got, calls>>

\* ... or with the one that the object keeps.
Rethrow(g, exception) ==
  /\ op' = [op EXCEPT ![g] = PanicTo(g)]
  /\ got' = [got EXCEPT ![op[g].obj] = @ \cup {exception}]
  /\ UNCHANGED calls
=============================================================================
