-------------------------------- MODULE Atom --------------------------------
(***************************************************************************)
(* Atoms (pkg/lang/atom.go).  The state is an atomic pointer to a Box that *)
(* is never written again: an operation loads the pointer, computes,       *)
(* validates and swaps the pointer if it is still the one it loaded.       *)
(* Watches and the validator have a lock of their own, taken for one read  *)
(* or write at a time, and nothing holds it across an operation.           *)
(*                                                                         *)
(* A Box is an identity and a value.  An identity that no pointer has any  *)
(* more may be allocated again.  A validator is the set of values it       *)
(* accepts, Values standing for nil, and of the watches only whether there *)
(* are any matters.  Identical values are equal here: Go slices of one     *)
(* array, which Identical does not tell apart, are left out.               *)
(*                                                                         *)
(* Operators whose name ends in _Fault are the bugs that the properties    *)
(* are tried against; nothing else uses them.                              *)
(***************************************************************************)
EXTENDS Integers, FiniteSets

CONSTANTS
  G,           \* goroutines
  Values,      \* values of the Atom
  Calls,       \* the calls of swap!, reset! and compare-and-set! made
  Validators,  \* the validators set
  Idle,        \* no call
  Pending,     \* the result of a call that has not taken effect
  Refused      \* the exception "Invalid reference state"

ASSUME AtomAssumption ==
  /\ IsFiniteSet(G)
  /\ Validators \subseteq SUBSET Values
  /\ \A c \in Calls :
       \/ c.kind = "swap" /\ c.f \in [Values -> Values]
       \/ c.kind = "reset" /\ c.new \in Values
       \/ c.kind = "cas" /\ c.old \in Values /\ c.new \in Values
  /\ Idle \notin Calls
  /\ Pending \notin Values /\ Pending \notin BOOLEAN /\ Pending # Refused
  /\ Refused \notin BOOLEAN

VARIABLES
  state,      \* a.state: the current Box
  validator,  \* a.validator
  watched,    \* are there watches in a.watches?
  op,         \* what each goroutine is in the middle of
  raced       \* history: SetValidator has overlapped another operation

vars == <<state, validator, watched, op, raced>>

Boxes == [id : 1 .. Cardinality(G) + 2, val : Values]
NoBox == [id |-> 0]
Resting == [at |-> "idle", call |-> Idle, old |-> NoBox, result |-> Pending]
Busy(g) == op[g].at # "idle"

Init ==
  /\ state \in [id : {1}, val : Values]
  /\ validator = Values
  /\ watched = FALSE
  /\ op = [g \in G |-> Resting]
  /\ raced = FALSE

NewBox_Fault(v) == [id |-> 3 - state.id, val |-> v]

\* NewBox: one that no pointer of a running operation refers to.
NewBox(v) ==
  [id |-> CHOOSE i \in 1 .. Cardinality(G) + 2 :
            i # state.id /\ \A g \in G : ~Busy(g) \/ op[g].old.id # i,
   val |-> v]

Advance(g, at) == op' = [op EXCEPT ![g].at = at]
Finish(g, r) == op' = [op EXCEPT ![g].at = "returned", ![g].result = r]

-----------------------------------------------------------------------------
(* Swap, Swap0, Swap1, Swap2, Reset and CompareAndSet.                     *)

\* Reset is not validated.
Begin_Fault(g, c) ==
  /\ ~Busy(g)
  /\ op' = [op EXCEPT ![g] =
              [at |-> "load", call |-> c, old |-> NoBox, result |-> Pending,
               new |-> IF c.kind = "swap" THEN state.val ELSE c.new,
               seen |-> {state.val}, written |-> FALSE]]
  /\ raced' = (raced \/ \E h \in G : op[h].at = "install")
  /\ UNCHANGED <<state, validator, watched>>

\* Reset validates first; the others load.  seen and written are history: the values
\* the Atom has had since, and whether a Box has been installed.
Begin(g, c) ==
  /\ ~Busy(g)
  /\ op' = [op EXCEPT ![g] =
              [at |-> IF c.kind = "reset" THEN "validate" ELSE "load",
               call |-> c, old |-> NoBox, result |-> Pending,
               new |-> IF c.kind = "swap" THEN state.val ELSE c.new,
               seen |-> {state.val}, written |-> FALSE]]
  /\ raced' = (raced \/ \E h \in G : op[h].at = "install")
  /\ UNCHANGED <<state, validator, watched>>

\* CompareAndSet compares the wrong argument.
Load_Fault(g) ==
  /\ op[g].at = "load"
  /\ LET c == op[g].call
         loaded == [op[g] EXCEPT !.old = state]
     IN op' = [op EXCEPT ![g] =
                 CASE c.kind = "swap" -> [loaded EXCEPT !.at = "validate", !.new = c.f[state.val]]
                   [] c.kind = "reset" -> [loaded EXCEPT !.at = "compare"]
                   [] c.kind = "cas" /\ state.val = c.new -> [loaded EXCEPT !.at = "validate"]
                   [] OTHER -> [loaded EXCEPT !.at = "returned", !.result = FALSE]]
  /\ UNCHANGED <<state, validator, watched, raced>>

\* a.state.Load(), and in Swap the call of the function.
Load(g) ==
  /\ op[g].at = "load"
  /\ LET c == op[g].call
         loaded == [op[g] EXCEPT !.old = state]
     IN op' = [op EXCEPT ![g] =
                 CASE c.kind = "swap" -> [loaded EXCEPT !.at = "validate", !.new = c.f[state.val]]
                   [] c.kind = "reset" -> [loaded EXCEPT !.at = "compare"]
                   [] c.kind = "cas" /\ state.val = c.old -> [loaded EXCEPT !.at = "validate"]
                   [] OTHER -> [loaded EXCEPT !.at = "returned", !.result = FALSE]]
  /\ UNCHANGED <<state, validator, watched, raced>>

\* validate: the exception leaves the operation.
Validate(g) ==
  /\ op[g].at = "validate"
  /\ IF op[g].new \notin validator THEN Finish(g, Refused)
     ELSE Advance(g, IF op[g].call.kind = "reset" THEN "load" ELSE "compare")
  /\ UNCHANGED <<state, validator, watched, raced>>

\* An identical value needs no new Box unless there are watches to notify.
Compare(g) ==
  /\ op[g].at = "compare"
  /\ Advance(g, IF op[g].old.val = op[g].new /\ ~watched THEN "keep" ELSE "set")
  /\ UNCHANGED <<state, validator, watched, raced>>

Success(g) == IF op[g].call.kind = "cas" THEN TRUE ELSE op[g].new

\* A lost race: Swap and Reset start again, CompareAndSet returns false.
Lose(g) == IF op[g].call.kind = "cas" THEN Finish(g, FALSE) ELSE Advance(g, "load")

\* CompareAndSwap(old, old).
Keep(g) ==
  /\ op[g].at = "keep"
  /\ IF state.id = op[g].old.id THEN Finish(g, Success(g)) ELSE Lose(g)
  /\ UNCHANGED <<state, validator, watched, raced>>

\* History: the operations in progress see the new value.
Observe(h, v) ==
  IF Busy(h) /\ op[h].call # Idle
  THEN [op[h] EXCEPT !.seen = @ \cup {v}, !.written = TRUE] ELSE op[h]

\* The new Box is stored over whatever there is.
Set_Fault(g) ==
  /\ op[g].at = "set"
  /\ state' = NewBox(op[g].new)
  /\ op' = [h \in G |->
              IF h = g THEN [op[g] EXCEPT !.at = "notify", !.result = Success(g)]
              ELSE Observe(h, op[g].new)]
  /\ UNCHANGED <<validator, watched, raced>>

\* CompareAndSwap(old, NewBox(new)), or in Reset the unconditional Swap, whose result
\* is the old state the watches hear of.
Set(g) ==
  /\ op[g].at = "set"
  /\ IF op[g].call.kind # "reset" /\ state.id # op[g].old.id
     THEN Lose(g) /\ UNCHANGED state
     ELSE /\ state' = NewBox(op[g].new)
          /\ op' = [h \in G |->
                      IF h = g THEN [op[g] EXCEPT !.at = "notify", !.old = state,
                                                  !.result = Success(g)]
                      ELSE Observe(h, op[g].new)]
  /\ UNCHANGED <<validator, watched, raced>>

\* notifyWatches returns; Return: the caller has the result.
Notify(g) ==
  /\ op[g].at = "notify"
  /\ Advance(g, "returned")
  /\ UNCHANGED <<state, validator, watched, raced>>

Return(g) ==
  /\ op[g].at = "returned"
  /\ op' = [op EXCEPT ![g] = Resting]
  /\ UNCHANGED <<state, validator, watched, raced>>

-----------------------------------------------------------------------------
(* Watches and the validator.                                              *)

\* AddWatch and RemoveWatch.
ChangeWatches ==
  /\ watched' = ~watched
  /\ UNCHANGED <<state, validator, op, raced>>

\* SetValidator tries the validator on the current value: a refusal changes nothing.
TryValidator(g, accepted) ==
  /\ ~Busy(g) /\ state.val \in accepted
  /\ op' = [op EXCEPT ![g] = [at |-> "install", call |-> Idle, old |-> NoBox,
                              result |-> Pending, accepted |-> accepted]]
  /\ raced' = (raced \/ \E h \in G : Busy(h))
  /\ UNCHANGED <<state, validator, watched>>

InstallValidator(g) ==
  /\ op[g].at = "install"
  /\ validator' = op[g].accepted
  /\ op' = [op EXCEPT ![g] = Resting]
  /\ UNCHANGED <<state, watched, raced>>

-----------------------------------------------------------------------------
Next ==
  \/ ChangeWatches
  \/ \E g \in G :
       \/ \E c \in Calls : Begin(g, c)
       \/ Load(g)
       \/ Validate(g)
       \/ Compare(g)
       \/ Keep(g)
       \/ Set(g)
       \/ Notify(g)
       \/ Return(g)
       \/ \E accepted \in Validators : TryValidator(g, accepted)
       \/ InstallValidator(g)

Spec == Init /\ [][Next]_vars

-----------------------------------------------------------------------------
(* Properties.                                                             *)

\* Every variable has its type, and a Box is immutable: whoever holds a pointer to the
\* current Box read the current value through it.
TypeOK ==
  /\ state \in Boxes
  /\ validator \in Validators \cup {Values}
  /\ \A g \in G : op[g].old \in Boxes \cup {NoBox}
  /\ \A g \in G : op[g].at \notin {"idle", "notify", "returned"} /\ op[g].old.id = state.id
                    => op[g].old = state

\* The Atom is an atomic reference: every swap! applies its function to the value it
\* replaces, every operation takes effect once, between call and return, however
\* often it had to retry, and returns what it did.
Abstract == INSTANCE AtomicReference
              WITH val <- state.val,
                   call <- [g \in G |-> op[g].call],
                   result <- [g \in G |-> op[g].result]
ImplementsAtomicReference == Abstract!Spec

\* The watches hear of the change that was made: the old value they are called with is
\* the one the new value has replaced, also when other operations came in between.
WatchesHearTheChange ==
  [][\A g \in G : op[g].at # "notify" /\ op'[g].at = "notify" =>
       op'[g].old.val = state.val /\ op'[g].new = state'.val]_vars

\* The value is one the validator accepts, as long as SetValidator has not overlapped
\* another operation: then either may miss the other.
ValueAccepted == ~raced => state.val \in validator

FailedCas(g) == op[g].at = "returned" /\ op[g].call.kind = "cas" /\ op[g].result = FALSE

\* compare-and-set! returns false only if the value was another one than old at some
\* moment of the call, or something was written meanwhile.
CasFailureJustified ==
  \A g \in G : FailedCas(g) => op[g].seen # {op[g].call.old} \/ op[g].written
=============================================================================
