----------------------------- MODULE AtomProofs -----------------------------
(***************************************************************************)
(* Proofs about Atom, for any goroutines, values, calls and validators:    *)
(* type correctness, the refinement of AtomicReference, and what           *)
(* validators, watches and compare-and-set! promise.                       *)
(***************************************************************************)
EXTENDS Atom, FiniteSetTheorems, TLAPS

Results == Values \cup BOOLEAN \cup {Pending, Refused}
Working == {"validate", "compare", "keep", "set"}

\* What a goroutine may be in the middle of: a call, or SetValidator.
Callings ==
  [at : Working \cup {"load", "notify", "returned"}, call : Calls, old : Boxes \cup {NoBox},
   result : Results, new : Values, seen : SUBSET Values, written : BOOLEAN]
Installings ==
  [at : {"install"}, call : {Idle}, old : {NoBox}, result : {Pending}, accepted : Validators]
Operations == {Resting} \cup Callings \cup Installings

\* The types of the variables.
Types ==
  /\ state \in Boxes
  /\ validator \in Validators \cup {Values}
  /\ watched \in BOOLEAN
  /\ op \in [G -> Operations]
  /\ raced \in BOOLEAN

\* A Box that a call has a pointer to stays what it was when it was loaded.
BoxImmutable(o) ==
  o.at \in Working \cup {"load"} /\ o.old.id = state.id => o.old = state

\* What a call has computed from the Box it has loaded.
Computed(o) ==
  LET c == o.call
  IN /\ o.at \in {"compare", "keep", "set"} => o.old \in Boxes
     /\ o.at \in Working /\ c.kind # "reset" => o.old \in Boxes
     /\ o.at = "keep" => o.old.val = o.new
     /\ c.kind = "swap" /\ o.at \in Working => o.new = c.f[o.old.val]
     /\ c.kind # "swap" => o.new = c.new
     /\ c.kind = "cas" /\ o.at \in Working => o.old.val = c.old
     /\ c.kind = "cas" /\ o.at = "notify" => o.result = TRUE

\* A call has no result until it takes effect, and one from then on.
Effective(o) == o.result = Pending <=> o.at \in Working \cup {"load"}

\* History: seen has the current value, as long as nothing has been written the Box loaded
\* is the current one, and compare-and-set! has not failed for nothing.
Observed(o) ==
  /\ o.at \in Working \cup {"load"} => state.val \in o.seen
  /\ o.at \in Working /\ ~o.written => o.old \in {NoBox, state}
  /\ o.at = "returned" /\ o.call.kind = "cas" /\ o.result = FALSE
       => o.written \/ \E v \in o.seen : v # o.call.old

CallSound(o) == BoxImmutable(o) /\ Computed(o) /\ Effective(o) /\ Observed(o)
CallsSound == \A g \in G : op[g] \in Callings => CallSound(op[g])

\* While SetValidator runs nothing else does, unless it is a race.
ValidatorAlone ==
  ~raced => \A g, h \in G : op[g].at = "install" /\ h # g => op[h] = Resting

\* What is about to be stored is accepted by the validator, and what is stored too.
Validated(o) ==
  o \in Callings /\ (\/ o.at \in {"compare", "keep", "set"}
                     \/ o.at = "load" /\ o.call.kind = "reset")
NewAccepted ==
  ~raced => /\ state.val \in validator
            /\ \A g \in G : Validated(op[g]) => op[g].new \in validator
            /\ \A g \in G : op[g].at = "install" => state.val \in op[g].accepted

IInv ==
  /\ Types
  /\ CallsSound
  /\ ValidatorAlone
  /\ NewAccepted

-----------------------------------------------------------------------------
(* Operations, calls and Boxes.                                            *)

LEMMA KindsOfCalls ==
  ASSUME NEW c \in Calls
  PROVE  /\ c.kind \in {"swap", "reset", "cas"}
         /\ c.kind = "swap" => c.f \in [Values -> Values]
         /\ c.kind # "swap" => c.new \in Values
         /\ c.kind = "cas" => c.old \in Values
         /\ c # Idle
  BY AtomAssumption

LEMMA KindsOfOperations ==
  ASSUME Types, NEW g \in G
  PROVE  /\ op[g].at = "idle" => op[g] = Resting
         /\ op[g].at = "install" => op[g] \in Installings
         /\ op[g].at \notin {"idle", "install"} <=> op[g] \in Callings
         /\ op[g].call # Idle <=> op[g] \in Callings
         /\ op[g].old \in Boxes \cup {NoBox} /\ op[g].result \in Results
<1>1. op[g] \in Operations
  BY DEF Types
<1>2. CASE op[g] = Resting
  BY <1>2, AtomAssumption DEF Resting, Callings, Working, Results
<1>3. CASE op[g] \in Installings
  BY <1>3, AtomAssumption DEF Installings, Callings, Working, Results
<1>4. CASE op[g] \in Callings
  BY <1>4, AtomAssumption DEF Callings, Working
<1> QED
  BY <1>1, <1>2, <1>3, <1>4 DEF Operations

LEMMA BoxIds == Cardinality(G) \in Nat /\ \A b \in Boxes : b.id \in Nat /\ b.id # NoBox.id
  BY AtomAssumption, FS_CardinalityType DEF Boxes, NoBox

\* There is always an identity that no pointer has, and a new Box gets one.
LEMMA NewBoxIsNew ==
  ASSUME Types, NEW v \in Values
  PROVE  /\ NewBox(v) \in Boxes /\ NewBox(v).val = v
         /\ NewBox(v).id # state.id
         /\ \A g \in G : op[g].at # "idle" => op[g].old.id # NewBox(v).id
<1> DEFINE n == Cardinality(G)
           Ids == 1 .. n + 2
           Held == {op[g].old.id : g \in G}
           Free(i) == i # state.id /\ \A g \in G : ~Busy(g) \/ op[g].old.id # i
<1>1. n \in Nat /\ IsFiniteSet(G)
  BY AtomAssumption, FS_CardinalityType
<1>2. IsFiniteSet(Held) /\ Cardinality(Held) <= n
  <2> DEFINE f == [g \in G |-> op[g].old.id]
  <2>1. f \in Surjection(G, Held)
    BY DEF Surjection
  <2> QED
    BY <1>1, <2>1, FS_Surjection
<1>3. IsFiniteSet(Held \cup {state.id}) /\ Cardinality(Held \cup {state.id}) <= n + 1
  <2> HIDE DEF Held, n
  <2>1. Cardinality(Held) \in Nat
    BY <1>2, FS_CardinalityType
  <2>2. /\ IsFiniteSet(Held \cup {state.id})
        /\ \/ Cardinality(Held \cup {state.id}) = Cardinality(Held)
           \/ Cardinality(Held \cup {state.id}) = Cardinality(Held) + 1
    BY <1>2, FS_AddElement
  <2> QED
    BY <1>1, <1>2, <2>1, <2>2
<1>4. IsFiniteSet(Ids) /\ Cardinality(Ids) = n + 2
  BY <1>1, FS_Interval
<1>5. \E i \in Ids : i \notin Held \cup {state.id}
  <2> SUFFICES ASSUME Ids \subseteq Held \cup {state.id} PROVE FALSE
    OBVIOUS
  <2>1. Cardinality(Ids) <= Cardinality(Held \cup {state.id})
    BY <1>3, FS_Subset
  <2> QED
    BY <1>1, <1>3, <1>4, <2>1, FS_CardinalityType
<1>6. \E i \in Ids : Free(i)
  BY <1>5
<1> DEFINE id == CHOOSE i \in Ids : Free(i)
<1>7. id \in Ids /\ Free(id)
  BY <1>6
<1>8. NewBox(v) = [id |-> id, val |-> v]
  BY DEF NewBox
<1> HIDE DEF id, Ids
<1>9. NewBox(v) \in Boxes
  BY <1>7, <1>8 DEF Boxes, Ids
<1> QED
  BY <1>7, <1>8, <1>9 DEF Busy

-----------------------------------------------------------------------------
(* The initial states and the steps.                                       *)

LEMMA InitInvariant == Init => IInv
<1> SUFFICES ASSUME Init PROVE IInv
  OBVIOUS
<1> USE DEF Init
<1>1. \A g \in G : op[g] = Resting /\ op[g].at = "idle"
  BY DEF Resting
<1>2. Types
  <2>1. 1 \in 1 .. Cardinality(G) + 2
    BY BoxIds
  <2>2. state \in Boxes
    BY <2>1 DEF Boxes
  <2>3. op \in [G -> Operations]
    BY DEF Operations
  <2> QED
    BY <2>2, <2>3 DEF Types
<1>3. \A g \in G : op[g] \notin Callings
  BY <1>1, <1>2, KindsOfOperations
<1>4. CallsSound /\ ValidatorAlone
  BY <1>1, <1>3 DEF CallsSound, ValidatorAlone
<1>5. NewAccepted
  BY <1>1, <1>3 DEF NewAccepted, Validated
<1> QED
  BY <1>2, <1>4, <1>5 DEF IInv

\* A step of one call that leaves the Box and the validator alone.
LEMMA CallMoves ==
  ASSUME IInv, NEW g \in G, op[g] \in Callings, NEW o \in Callings \cup {Resting},
         op' = [op EXCEPT ![g] = o],
         UNCHANGED <<state, validator, watched, raced>>,
         o \in Callings => CallSound(o),
         ~raced /\ Validated(o) => o.new \in validator
  PROVE  IInv'
<1>1. op'[g] = o /\ \A h \in G : h # g => op'[h] = op[h]
  BY DEF IInv, Types
<1>2. Types'
  BY DEF IInv, Types, Operations
<1>3. CallsSound'
  BY <1>1 DEF IInv, CallsSound, CallSound, BoxImmutable, Computed, Effective, Observed
<1>4. o.at # "install"
  BY DEF Callings, Working, Resting
<1>5. op[g] # Resting
  BY DEF Callings, Working, Resting
<1>6. ValidatorAlone'
  BY <1>1, <1>4, <1>5 DEF IInv, ValidatorAlone
<1>7. NewAccepted'
  BY <1>1, <1>4 DEF IInv, NewAccepted, Validated
<1> QED
  BY <1>2, <1>3, <1>6, <1>7 DEF IInv

LEMMA BeginInvariant ==
  ASSUME IInv, NEW g \in G, NEW c \in Calls, Begin(g, c)
  PROVE  IInv'
<1> DEFINE o == [at |-> IF c.kind = "reset" THEN "validate" ELSE "load",
                 call |-> c, old |-> NoBox, result |-> Pending,
                 new |-> IF c.kind = "swap" THEN state.val ELSE c.new,
                 seen |-> {state.val}, written |-> FALSE]
<1>1. /\ ~Busy(g) /\ op' = [op EXCEPT ![g] = o]
      /\ raced' = (raced \/ \E h \in G : op[h].at = "install")
      /\ UNCHANGED <<state, validator, watched>>
  BY DEF Begin
<1>2. Types /\ state.val \in Values
  BY DEF IInv, Types, Boxes
<1>3. o \in Callings
  BY <1>2, KindsOfCalls DEF Callings, Working, Results
<1>4. CallSound(o)
  <2>1. o.at \in {"validate", "load"} /\ o.old = NoBox /\ state \in Boxes
    BY <1>2 DEF Types
  <2>2. BoxImmutable(o) /\ Observed(o) /\ Effective(o)
    BY <2>1, BoxIds DEF BoxImmutable, Observed, Effective, Working
  <2>3. Computed(o)
    BY KindsOfCalls DEF Computed, Working
  <2> QED
    BY <2>2, <2>3 DEF CallSound
<1>5. ~Validated(o)
  BY DEF Validated
<1>6. o.at # "install" /\ o.at # "idle"
  OBVIOUS
<1> HIDE DEF o
<1>7. op'[g] = o /\ \A h \in G : h # g => op'[h] = op[h]
  BY <1>1, <1>2 DEF Types
<1>8. Types'
  BY <1>1, <1>2, <1>3 DEF Types, Operations
<1>9. CallsSound'
  BY <1>1, <1>4, <1>7 DEF IInv, CallsSound, CallSound, BoxImmutable, Computed, Effective, Observed
<1>10. ValidatorAlone'
  BY <1>1, <1>6, <1>7 DEF ValidatorAlone
<1>11. NewAccepted'
  <2>1. ~raced' => ~raced
    BY <1>1
  <2>2. \A h \in G : Validated(op'[h]) => op'[h] = op[h]
    BY <1>5, <1>7
  <2>3. \A h \in G : op'[h].at = "install" => op'[h] = op[h]
    BY <1>6, <1>7
  <2> QED
    BY <1>1, <2>1, <2>2, <2>3 DEF IInv, NewAccepted, Validated
<1> QED
  BY <1>8, <1>9, <1>10, <1>11 DEF IInv

LEMMA LoadInvariant ==
  ASSUME IInv, NEW g \in G, Load(g)
  PROVE  IInv'
<1> DEFINE c == op[g].call
           loaded == [op[g] EXCEPT !.old = state]
           o == CASE c.kind = "swap" -> [loaded EXCEPT !.at = "validate", !.new = c.f[state.val]]
                  [] c.kind = "reset" -> [loaded EXCEPT !.at = "compare"]
                  [] c.kind = "cas" /\ state.val = c.old -> [loaded EXCEPT !.at = "validate"]
                  [] OTHER -> [loaded EXCEPT !.at = "returned", !.result = FALSE]
<1>1. /\ op[g].at = "load" /\ op' = [op EXCEPT ![g] = o]
      /\ UNCHANGED <<state, validator, watched, raced>>
  BY DEF Load
<1>2. Types /\ state \in Boxes /\ state.val \in Values
  BY DEF IInv, Types, Boxes
<1>3. op[g] \in Callings /\ c \in Calls
  BY <1>1, <1>2, KindsOfOperations DEF Callings
<1>4. CallSound(op[g])
  BY <1>3 DEF IInv, CallsSound
<1>5. op[g].result = Pending /\ state.val \in op[g].seen /\ (c.kind # "swap" => op[g].new = c.new)
  BY <1>1, <1>4 DEF CallSound, Computed, Effective, Observed, Working
<1>6. /\ c.kind \in {"swap", "reset", "cas"}
      /\ c.kind = "swap" => c.f[state.val] \in Values
  <2>1. /\ c.kind \in {"swap", "reset", "cas"}
        /\ c.kind = "swap" => c.f \in [Values -> Values]
    BY <1>3, KindsOfCalls
  <2> QED
    BY <1>2, <2>1
<1>7. CASE c.kind = "swap"
  <2>1. o = [op[g] EXCEPT !.old = state, !.at = "validate", !.new = c.f[state.val]]
    BY <1>7
  <2>2. /\ o \in Callings /\ o.old = state /\ o.at = "validate" /\ o.new = c.f[state.val]
        /\ o.call = c /\ o.result = Pending /\ o.seen = op[g].seen
    BY <1>2, <1>3, <1>5, <1>6, <1>7, <2>1 DEF Callings, Working
  <2> HIDE DEF o, c
  <2>3. CallSound(o)
    BY <1>2, <1>5, <1>7, <2>2 DEF CallSound, BoxImmutable, Computed, Effective, Observed, Working
  <2>4. ~Validated(o)
    BY <2>2 DEF Validated
  <2> QED
    BY <1>1, <1>3, <2>2, <2>3, <2>4, CallMoves
<1>8. CASE c.kind = "reset"
  <2>1. o = [op[g] EXCEPT !.old = state, !.at = "compare"]
    BY <1>8
  <2>2. /\ o \in Callings /\ o.old = state /\ o.at = "compare" /\ o.new = op[g].new
        /\ o.call = c /\ o.result = Pending /\ o.seen = op[g].seen
    BY <1>2, <1>3, <1>5, <2>1 DEF Callings, Working
  <2>3. ~raced => op[g].new \in validator
    BY <1>1, <1>3, <1>8 DEF IInv, NewAccepted, Validated
  <2> HIDE DEF o, c
  <2>4. CallSound(o)
    BY <1>2, <1>5, <1>8, <2>2 DEF CallSound, BoxImmutable, Computed, Effective, Observed, Working
  <2> QED
    BY <1>1, <1>3, <2>2, <2>3, <2>4, CallMoves
<1>9. CASE c.kind = "cas" /\ state.val = c.old
  <2>1. o = [op[g] EXCEPT !.old = state, !.at = "validate"]
    BY <1>9
  <2>2. /\ o \in Callings /\ o.old = state /\ o.at = "validate" /\ o.new = op[g].new
        /\ o.call = c /\ o.result = Pending /\ o.seen = op[g].seen
    BY <1>2, <1>3, <1>5, <2>1 DEF Callings, Working
  <2> HIDE DEF o, c
  <2>3. CallSound(o)
    BY <1>2, <1>5, <1>9, <2>2 DEF CallSound, BoxImmutable, Computed, Effective, Observed, Working
  <2>4. ~Validated(o)
    BY <1>9, <2>2 DEF Validated
  <2> QED
    BY <1>1, <1>3, <2>2, <2>3, <2>4, CallMoves
<1>10. CASE c.kind = "cas" /\ state.val # c.old
  <2>1. o = [op[g] EXCEPT !.old = state, !.at = "returned", !.result = FALSE]
    BY <1>10
  <2>2. /\ o \in Callings /\ o.old = state /\ o.at = "returned" /\ o.new = op[g].new
        /\ o.call = c /\ o.result = FALSE /\ o.seen = op[g].seen
    BY <1>2, <1>3, <1>5, <2>1 DEF Callings, Working, Results
  <2> HIDE DEF o, c
  <2>3. CallSound(o)
    BY <1>2, <1>5, <1>10, <2>2, AtomAssumption
       DEF CallSound, BoxImmutable, Computed, Effective, Observed, Working
  <2>4. ~Validated(o)
    BY <2>2 DEF Validated
  <2> QED
    BY <1>1, <1>3, <2>2, <2>3, <2>4, CallMoves
<1> QED
  BY <1>6, <1>7, <1>8, <1>9, <1>10

LEMMA ValidateInvariant ==
  ASSUME IInv, NEW g \in G, Validate(g)
  PROVE  IInv'
<1>1. /\ op[g].at = "validate"
      /\ UNCHANGED <<state, validator, watched, raced>>
  BY DEF Validate
<1>2. op[g] \in Callings
  BY <1>1, KindsOfOperations DEF IInv
<1>3. CallSound(op[g])
  BY <1>2 DEF IInv, CallsSound
<1>4. CASE op[g].new \notin validator
  <2> DEFINE o == [op[g] EXCEPT !.at = "returned", !.result = Refused]
  <2>1. op' = [op EXCEPT ![g] = o]
    BY <1>4 DEF Validate, Finish
  <2>2. /\ o \in Callings /\ o.at = "returned" /\ o.result = Refused /\ o.call = op[g].call
        /\ o.new = op[g].new
    BY <1>2 DEF Callings, Results
  <2> HIDE DEF o
  <2>3. CallSound(o)
    BY <1>1, <1>3, <2>2, AtomAssumption
       DEF CallSound, BoxImmutable, Computed, Effective, Observed, Working
  <2>4. ~Validated(o)
    BY <2>2 DEF Validated
  <2> QED
    BY <1>1, <1>2, <2>1, <2>2, <2>3, <2>4, CallMoves
<1>5. CASE op[g].new \in validator
  <2> DEFINE at == IF op[g].call.kind = "reset" THEN "load" ELSE "compare"
             o == [op[g] EXCEPT !.at = at]
  <2>1. op' = [op EXCEPT ![g] = o]
    BY <1>5 DEF Validate, Advance
  <2>2. /\ o \in Callings /\ o.at = at /\ o.result = op[g].result /\ o.call = op[g].call
        /\ o.new = op[g].new /\ o.old = op[g].old /\ o.seen = op[g].seen /\ o.written = op[g].written
    BY <1>2 DEF Callings, Working
  <2> HIDE DEF o
  <2>3. CallSound(o)
    BY <1>1, <1>3, <2>2 DEF CallSound, BoxImmutable, Computed, Effective, Observed, Working
  <2> QED
    BY <1>1, <1>2, <1>5, <2>1, <2>2, <2>3, CallMoves
<1> QED
  BY <1>4, <1>5

LEMMA CompareInvariant ==
  ASSUME IInv, NEW g \in G, Compare(g)
  PROVE  IInv'
<1> DEFINE at == IF op[g].old.val = op[g].new /\ ~watched THEN "keep" ELSE "set"
           o == [op[g] EXCEPT !.at = at]
<1>1. /\ op[g].at = "compare" /\ op' = [op EXCEPT ![g] = o]
      /\ UNCHANGED <<state, validator, watched, raced>>
  BY DEF Compare, Advance
<1>2. op[g] \in Callings
  BY <1>1, KindsOfOperations DEF IInv
<1>3. CallSound(op[g])
  BY <1>2 DEF IInv, CallsSound
<1>4. /\ o \in Callings /\ o.at = at /\ o.result = op[g].result /\ o.call = op[g].call
      /\ o.new = op[g].new /\ o.old = op[g].old /\ o.seen = op[g].seen /\ o.written = op[g].written
  BY <1>2 DEF Callings, Working
<1>5. ~raced => op[g].new \in validator
  BY <1>1, <1>2 DEF IInv, NewAccepted, Validated
<1> HIDE DEF o
<1>6. CallSound(o)
  BY <1>1, <1>3, <1>4 DEF CallSound, BoxImmutable, Computed, Effective, Observed, Working
<1> QED
  BY <1>1, <1>2, <1>4, <1>5, <1>6, CallMoves

\* compare-and-set! has lost against a Box that has been installed since.
LEMMA LoseInvariant ==
  ASSUME IInv, NEW g \in G, op[g].at \in {"keep", "set"}, state.id # op[g].old.id, Lose(g),
         UNCHANGED <<state, validator, watched, raced>>
  PROVE  IInv'
<1>1. op[g] \in Callings
  BY KindsOfOperations DEF IInv
<1>2. CallSound(op[g])
  BY <1>1 DEF IInv, CallsSound
<1>3. op[g].written
  BY <1>2, BoxIds DEF CallSound, Computed, Observed, Working
<1>4. ~raced => op[g].new \in validator
  BY <1>1 DEF IInv, NewAccepted, Validated
<1>5. CASE op[g].call.kind = "cas"
  <2> DEFINE o == [op[g] EXCEPT !.at = "returned", !.result = FALSE]
  <2>1. op' = [op EXCEPT ![g] = o]
    BY <1>5 DEF Lose, Finish
  <2>2. /\ o \in Callings /\ o.at = "returned" /\ o.result = FALSE /\ o.call = op[g].call
        /\ o.new = op[g].new /\ o.written = op[g].written
    BY <1>1 DEF Callings, Results
  <2> HIDE DEF o
  <2>3. CallSound(o)
    BY <1>2, <1>3, <2>2, AtomAssumption
       DEF CallSound, BoxImmutable, Computed, Effective, Observed, Working
  <2> QED
    BY <1>1, <1>4, <2>1, <2>2, <2>3, CallMoves
<1>6. CASE op[g].call.kind # "cas"
  <2> DEFINE o == [op[g] EXCEPT !.at = "load"]
  <2>1. op' = [op EXCEPT ![g] = o]
    BY <1>6 DEF Lose, Advance
  <2>2. /\ o \in Callings /\ o.at = "load" /\ o.result = op[g].result /\ o.call = op[g].call
        /\ o.new = op[g].new /\ o.old = op[g].old /\ o.seen = op[g].seen
    BY <1>1 DEF Callings
  <2> HIDE DEF o
  <2>3. CallSound(o)
    BY <1>2, <1>6, <2>2 DEF CallSound, BoxImmutable, Computed, Effective, Observed, Working
  <2> QED
    BY <1>1, <1>4, <2>1, <2>2, <2>3, CallMoves
<1> QED
  BY <1>5, <1>6

LEMMA SuccessIsResult ==
  ASSUME NEW g \in G, op[g] \in Callings
  PROVE  /\ Success(g) \in Results /\ Success(g) # Pending
         /\ op[g].call.kind = "cas" => Success(g) = TRUE
  BY AtomAssumption DEF Success, Results, Callings

LEMMA KeepInvariant ==
  ASSUME IInv, NEW g \in G, Keep(g)
  PROVE  IInv'
<1>1. op[g].at = "keep" /\ UNCHANGED <<state, validator, watched, raced>>
  BY DEF Keep
<1>2. op[g] \in Callings
  BY <1>1, KindsOfOperations DEF IInv
<1>3. CallSound(op[g])
  BY <1>2 DEF IInv, CallsSound
<1>4. CASE state.id = op[g].old.id
  <2> DEFINE o == [op[g] EXCEPT !.at = "returned", !.result = Success(g)]
  <2>1. op' = [op EXCEPT ![g] = o]
    BY <1>4 DEF Keep, Finish
  <2>2. /\ o \in Callings /\ o.at = "returned" /\ o.result = Success(g) /\ o.call = op[g].call
        /\ o.new = op[g].new
    BY <1>2, SuccessIsResult DEF Callings
  <2> HIDE DEF o
  <2>3. CallSound(o)
    BY <1>2, <1>3, <2>2, SuccessIsResult
       DEF CallSound, BoxImmutable, Computed, Effective, Observed, Working
  <2>4. ~Validated(o)
    BY <2>2 DEF Validated
  <2> QED
    BY <1>1, <1>2, <2>1, <2>2, <2>3, <2>4, CallMoves
<1>5. CASE state.id # op[g].old.id
  BY <1>1, <1>5, LoseInvariant DEF Keep
<1> QED
  BY <1>4, <1>5

LEMMA ObserveCall ==
  ASSUME Types, NEW h \in G, NEW v \in Values, op[h] \in Callings
  PROVE  LET o == Observe(h, v)
         IN /\ o \in Callings /\ o.written /\ o.seen = op[h].seen \cup {v}
            /\ o.at = op[h].at /\ o.call = op[h].call /\ o.old = op[h].old
            /\ o.result = op[h].result /\ o.new = op[h].new
<1>1. Busy(h) /\ op[h].call # Idle
  BY KindsOfOperations DEF Busy, Callings, Working
<1> DEFINE seen == op[h].seen \cup {v}
<1>2. seen \in SUBSET Values
  BY DEF Callings
<1>3. Observe(h, v) = [op[h] EXCEPT !.seen = seen, !.written = TRUE]
  BY <1>1 DEF Observe
<1>4. seen = op[h].seen \cup {v}
  OBVIOUS
<1> HIDE DEF seen
<1>5. Observe(h, v) \in Callings
  BY <1>2, <1>3 DEF Callings
<1> QED
  BY <1>3, <1>4, <1>5 DEF Callings

\* The new Box is another one than any that a call has loaded, so that everyone who has
\* loaded the one it replaces will notice.
LEMMA SetInvariant ==
  ASSUME IInv, NEW g \in G, Set(g)
  PROVE  IInv'
<1>1. op[g].at = "set" /\ UNCHANGED <<validator, watched, raced>>
  BY DEF Set
<1>2. op[g] \in Callings /\ Types
  BY <1>1, KindsOfOperations DEF IInv
<1>3. CallSound(op[g])
  BY <1>2 DEF IInv, CallsSound
<1>4. CASE op[g].call.kind # "reset" /\ state.id # op[g].old.id
  BY <1>1, <1>4, LoseInvariant DEF Set
<1>5. CASE op[g].call.kind = "reset" \/ state.id = op[g].old.id
  <2> DEFINE o == [op[g] EXCEPT !.at = "notify", !.old = state, !.result = Success(g)]
             v == op[g].new
  <2>1. state' = NewBox(v) /\ op' = [h \in G |-> IF h = g THEN o ELSE Observe(h, v)]
    BY <1>5 DEF Set
  <2>2. v \in Values /\ state \in Boxes
    BY <1>2 DEF Callings, Types
  <2>3. /\ state' \in Boxes /\ state'.val = v
        /\ \A h \in G : op[h].at # "idle" => op[h].old.id # state'.id
    BY <1>2, <2>1, <2>2, NewBoxIsNew
  <2>4. /\ o \in Callings /\ o.at = "notify" /\ o.result = Success(g) /\ o.call = op[g].call
        /\ o.new = op[g].new
    BY <1>2, <2>2, SuccessIsResult DEF Callings
  <2>5. ASSUME NEW h \in G, h # g, op[h] \notin Callings
        PROVE  op'[h] = op[h]
    BY <1>2, <2>1, <2>5, KindsOfOperations DEF Observe
  <2>6. ASSUME NEW h \in G, h # g, op[h] \in Callings
        PROVE  /\ op'[h] \in Callings /\ op'[h].written /\ v \in op'[h].seen
               /\ op'[h].at = op[h].at /\ op'[h].call = op[h].call /\ op'[h].old = op[h].old
               /\ op'[h].result = op[h].result /\ op'[h].new = op[h].new
    <3>1. op'[h] = Observe(h, v)
      BY <2>1, <2>6
    <3> QED
      BY <1>2, <2>2, <2>6, <3>1, ObserveCall
  <2>7. op'[g] = o
    BY <2>1
  <2> HIDE DEF o, v
  <2>8. Types'
    <3>1. \A h \in G : op'[h] \in Operations
      BY <1>2, <2>4, <2>5, <2>6, <2>7 DEF Types, Operations
    <3>2. op' \in [G -> Operations]
      BY <2>1, <3>1
    <3> QED
      BY <1>1, <1>2, <2>3, <3>2 DEF Types
  <2>9. CallsSound'
    <3> SUFFICES ASSUME NEW h \in G, op'[h] \in Callings
                 PROVE  (CallSound(op[h]))'
      BY DEF CallsSound
    <3>1. CASE h = g
      BY <1>2, <1>3, <2>4, <2>7, <3>1, SuccessIsResult
         DEF CallSound, BoxImmutable, Computed, Effective, Observed, Working
    <3>2. CASE h # g
      <4>1. op[h] \in Callings
        BY <2>5, <3>2
      <4>2. /\ op'[h].written /\ v \in op'[h].seen
            /\ op'[h].at = op[h].at /\ op'[h].call = op[h].call /\ op'[h].old = op[h].old
            /\ op'[h].result = op[h].result /\ op'[h].new = op[h].new
        BY <2>6, <3>2, <4>1
      <4>3. CallSound(op[h])
        BY <4>1 DEF IInv, CallsSound
      <4>4. op[h].at \in Working \cup {"load"} => op[h].old.id # state'.id
        BY <2>3 DEF Working
      <4>5. (BoxImmutable(op[h]))'
        BY <4>2, <4>4 DEF BoxImmutable
      <4>6. (Computed(op[h]) /\ Effective(op[h]))'
        BY <4>2, <4>3 DEF CallSound, Computed, Effective
      <4>7. (Observed(op[h]))'
        BY <2>3, <4>2, <4>3 DEF CallSound, Observed
      <4> QED
        BY <4>5, <4>6, <4>7 DEF CallSound
    <3> QED
      BY <3>1, <3>2
  <2>10. op[g] # Resting
    BY <1>1 DEF Resting
  <2>11. \A h \in G : (op'[h].at = "install" \/ op'[h].at = "idle") => op'[h] = op[h]
    <3> SUFFICES ASSUME NEW h \in G, op'[h].at = "install" \/ op'[h].at = "idle"
                 PROVE  op'[h] = op[h]
      OBVIOUS
    <3>1. h # g
      BY <2>4, <2>7
    <3>2. op[h] \notin Callings
      BY <2>6, <3>1 DEF Callings, Working
    <3> QED
      BY <2>5, <3>1, <3>2
  <2>12. ~raced => \A h \in G : op[h].at # "install"
    BY <1>1, <2>10 DEF IInv, ValidatorAlone
  <2>13. ValidatorAlone'
    BY <1>1, <2>11, <2>12 DEF ValidatorAlone
  <2>14. NewAccepted'
    <3> SUFFICES ASSUME ~raced
                 PROVE  /\ state'.val \in validator
                        /\ \A h \in G : Validated(op'[h]) => op'[h].new \in validator
                        /\ \A h \in G : op'[h].at = "install" => state'.val \in op'[h].accepted
      BY <1>1 DEF NewAccepted, Validated
    <3>1. state'.val \in validator
      BY <1>1, <1>2, <2>3 DEF IInv, NewAccepted, Validated, v
    <3>2. ASSUME NEW h \in G, Validated(op'[h])
          PROVE  op'[h].new \in validator
      <4>1. h # g
        BY <2>4, <2>7, <3>2 DEF Validated
      <4>2. op[h] \in Callings
        BY <2>5, <3>2, <4>1 DEF Validated
      <4>3. Validated(op[h]) /\ op'[h].new = op[h].new
        BY <2>6, <3>2, <4>1, <4>2 DEF Validated
      <4> QED
        BY <4>3 DEF IInv, NewAccepted
    <3>3. \A h \in G : op'[h].at # "install"
      BY <2>11, <2>12
    <3> QED
      BY <3>1, <3>2, <3>3
  <2> QED
    BY <2>8, <2>9, <2>13, <2>14 DEF IInv
<1> QED
  BY <1>4, <1>5

LEMMA NotifyInvariant ==
  ASSUME IInv, NEW g \in G, Notify(g)
  PROVE  IInv'
<1> DEFINE o == [op[g] EXCEPT !.at = "returned"]
<1>1. /\ op[g].at = "notify" /\ op' = [op EXCEPT ![g] = o]
      /\ UNCHANGED <<state, validator, watched, raced>>
  BY DEF Notify, Advance
<1>2. op[g] \in Callings
  BY <1>1, KindsOfOperations DEF IInv
<1>3. CallSound(op[g])
  BY <1>2 DEF IInv, CallsSound
<1>4. /\ o \in Callings /\ o.at = "returned" /\ o.result = op[g].result /\ o.call = op[g].call
      /\ o.new = op[g].new
  BY <1>2 DEF Callings
<1> HIDE DEF o
<1>5. CallSound(o) /\ ~Validated(o)
  BY <1>1, <1>3, <1>4
     DEF CallSound, BoxImmutable, Computed, Effective, Observed, Working, Validated
<1> QED
  BY <1>1, <1>2, <1>4, <1>5, CallMoves

LEMMA ReturnInvariant ==
  ASSUME IInv, NEW g \in G, Return(g)
  PROVE  IInv'
<1>1. op[g] \in Callings /\ Resting \notin Callings
  BY KindsOfOperations DEF IInv, Return, Callings, Resting, Working
<1>2. ~Validated(Resting)
  BY <1>1 DEF Validated
<1> QED
  BY <1>1, <1>2, CallMoves DEF Return

LEMMA ChangeWatchesInvariant ==
  ASSUME IInv, ChangeWatches
  PROVE  IInv'
<1> USE DEF ChangeWatches
<1>1. watched' \in BOOLEAN
  BY DEF IInv, Types
<1>2. Types'
  BY <1>1 DEF IInv, Types
<1>3. (CallsSound /\ ValidatorAlone /\ NewAccepted)'
  BY DEF IInv, CallsSound, CallSound, BoxImmutable, Computed, Effective, Observed,
     ValidatorAlone, NewAccepted, Validated
<1> QED
  BY <1>2, <1>3 DEF IInv

LEMMA TryValidatorInvariant ==
  ASSUME IInv, NEW g \in G, NEW accepted \in Validators, TryValidator(g, accepted)
  PROVE  IInv'
<1> DEFINE o == [at |-> "install", call |-> Idle, old |-> NoBox,
                 result |-> Pending, accepted |-> accepted]
<1>1. /\ ~Busy(g) /\ state.val \in accepted /\ op' = [op EXCEPT ![g] = o]
      /\ raced' = (raced \/ \E h \in G : Busy(h))
      /\ UNCHANGED <<state, validator, watched>>
  BY DEF TryValidator
<1>2. /\ o \in Installings /\ o \notin Callings /\ o.at = "install" /\ o.accepted = accepted
  BY DEF Installings, Callings, Working
<1> HIDE DEF o
<1>3. op'[g] = o /\ \A h \in G : h # g => op'[h] = op[h]
  BY <1>1 DEF IInv, Types
<1>4. Types'
  BY <1>1, <1>2 DEF IInv, Types, Operations
<1>5. CallsSound'
  BY <1>1, <1>2, <1>3 DEF IInv, CallsSound, CallSound, BoxImmutable, Computed, Effective, Observed
<1>6. ~raced' => ~raced /\ \A h \in G : op[h] = Resting /\ op[h].at = "idle"
  BY <1>1, KindsOfOperations DEF IInv, Busy
<1>7. ValidatorAlone'
  BY <1>3, <1>6 DEF ValidatorAlone
<1>8. NewAccepted'
  <2> SUFFICES ASSUME ~raced'
               PROVE  /\ state.val \in validator
                      /\ \A h \in G : Validated(op'[h]) => op'[h].new \in validator
                      /\ \A h \in G : op'[h].at = "install" => state.val \in op'[h].accepted
    BY <1>1 DEF NewAccepted, Validated
  <2>1. state.val \in validator
    BY <1>6 DEF IInv, NewAccepted
  <2>2. \A h \in G : ~Validated(op'[h])
    BY <1>2, <1>3, <1>6 DEF Validated
  <2>3. \A h \in G : op'[h].at = "install" => h = g
    BY <1>3, <1>6
  <2> QED
    BY <1>1, <1>2, <1>3, <2>1, <2>2, <2>3
<1> QED
  BY <1>4, <1>5, <1>7, <1>8 DEF IInv

LEMMA InstallValidatorInvariant ==
  ASSUME IInv, NEW g \in G, InstallValidator(g)
  PROVE  IInv'
<1>1. /\ op[g].at = "install" /\ validator' = op[g].accepted /\ op' = [op EXCEPT ![g] = Resting]
      /\ UNCHANGED <<state, watched, raced>>
  BY DEF InstallValidator
<1>2. op[g] \in Installings
  BY <1>1, KindsOfOperations DEF IInv
<1>3. op'[g] = Resting /\ \A h \in G : h # g => op'[h] = op[h]
  BY <1>1 DEF IInv, Types
<1>4. Resting \notin Callings /\ Resting.at = "idle"
  BY DEF Resting, Callings, Working
<1>5. Types'
  BY <1>1, <1>2 DEF IInv, Types, Operations, Installings
<1>6. CallsSound'
  BY <1>1, <1>3, <1>4 DEF IInv, CallsSound, CallSound, BoxImmutable, Computed, Effective, Observed
<1>7. ~raced => \A h \in G : op'[h] = Resting
  BY <1>1, <1>3 DEF IInv, ValidatorAlone
<1>8. ValidatorAlone'
  BY <1>1, <1>7 DEF ValidatorAlone
<1>9. NewAccepted'
  BY <1>1, <1>4, <1>7 DEF IInv, NewAccepted, Validated
<1> QED
  BY <1>5, <1>6, <1>8, <1>9 DEF IInv

LEMMA NextInvariant == IInv /\ [Next]_vars => IInv'
<1> SUFFICES ASSUME IInv, [Next]_vars PROVE IInv'
  OBVIOUS
<1>1. CASE UNCHANGED vars
  BY <1>1 DEF vars, IInv, Types, CallsSound, CallSound, BoxImmutable, Computed, Effective, Observed,
     ValidatorAlone, NewAccepted, Validated
<1>2. CASE ChangeWatches
  BY <1>2, ChangeWatchesInvariant
<1>3. ASSUME NEW g \in G, \E c \in Calls : Begin(g, c)
      PROVE  IInv'
  BY <1>3, BeginInvariant
<1>4. ASSUME NEW g \in G,
             Load(g) \/ Validate(g) \/ Compare(g) \/ Keep(g) \/ Set(g) \/ Notify(g) \/ Return(g)
      PROVE  IInv'
  BY <1>4, LoadInvariant, ValidateInvariant, CompareInvariant, KeepInvariant, SetInvariant,
     NotifyInvariant, ReturnInvariant
<1>5. ASSUME NEW g \in G,
             (\E accepted \in Validators : TryValidator(g, accepted)) \/ InstallValidator(g)
      PROVE  IInv'
  BY <1>5, TryValidatorInvariant, InstallValidatorInvariant
<1> QED
  BY <1>1, <1>2, <1>3, <1>4, <1>5 DEF Next

-----------------------------------------------------------------------------
(* The theorems.                                                           *)

\* The strengthened invariant holds in every reachable state.
THEOREM Invariance == Spec => []IInv
  BY InitInvariant, NextInvariant, PTL DEF Spec

\* Every variable keeps its type, and a pointer to the current Box was a pointer to it
\* when it was loaded: the comparison of pointers in CompareAndSwap has no ABA problem.
THEOREM TypeCorrect == Spec => []TypeOK
<1>1. IInv => TypeOK
  <2> SUFFICES ASSUME IInv PROVE TypeOK
    OBVIOUS
  <2>1. ASSUME NEW g \in G, op[g].at \notin {"idle", "notify", "returned"},
               op[g].old.id = state.id
        PROVE  op[g].old = state
    <3>1. CASE op[g] \in Callings
      BY <2>1, <3>1 DEF IInv, CallsSound, CallSound, BoxImmutable, Callings
    <3>2. CASE op[g] \notin Callings
      <4>1. op[g] \in Installings
        BY <2>1, <3>2, KindsOfOperations DEF IInv
      <4> QED
        BY <2>1, <4>1, BoxIds DEF IInv, Types, Installings
    <3> QED
      BY <3>1, <3>2
  <2> QED
    BY <2>1, KindsOfOperations DEF IInv, Types, TypeOK
<1> QED
  BY <1>1, Invariance, PTL

\* The value is one that the validator accepts, unless SetValidator has overlapped
\* another operation.
THEOREM ValueIsAccepted == Spec => []ValueAccepted
<1>1. IInv => ValueAccepted
  BY DEF IInv, NewAccepted, ValueAccepted
<1> QED
  BY <1>1, Invariance, PTL

\* compare-and-set! does not fail without a reason.
THEOREM CasFailsForAReason == Spec => []CasFailureJustified
<1>1. IInv => CasFailureJustified
  <2> SUFFICES ASSUME IInv, NEW g \in G, FailedCas(g)
               PROVE  op[g].seen # {op[g].call.old} \/ op[g].written
    BY DEF CasFailureJustified
  <2>1. op[g] \in Callings
    BY KindsOfOperations DEF IInv, FailedCas
  <2>2. op[g].written \/ \E v \in op[g].seen : v # op[g].call.old
    BY <2>1 DEF IInv, CallsSound, CallSound, Observed, FailedCas
  <2> QED
    BY <2>2
<1> QED
  BY <1>1, Invariance, PTL

-----------------------------------------------------------------------------
(* Refinement: the steps of Atom are steps of AtomicReference or stutter.  *)

\* A step of goroutine g that changes neither the value nor the call and the result.
LEMMA Stutters ==
  ASSUME Types, NEW g \in G, NEW o, op' = [op EXCEPT ![g] = o],
         o.call = op[g].call, o.result = op[g].result, state'.val = state.val
  PROVE  UNCHANGED Abstract!vars
<1>1. \A h \in G : op'[h].call = op[h].call /\ op'[h].result = op[h].result
  BY DEF Types
<1> QED
  BY <1>1 DEF Abstract!vars

\* A step that gives the call of goroutine g its result and leaves the other calls.
LEMMA TakesEffect ==
  ASSUME Types, NEW g \in G, op[g] \in Callings, op[g].result = Pending,
         op'[g].call = op[g].call,
         \A h \in G : h # g => op'[h].call = op[h].call /\ op'[h].result = op[h].result,
         LET c == op[g].call
             r == op'[g].result
             Effect(new, result) == state'.val = new /\ r = result
         IN \/ c.kind = "swap" /\ Effect(c.f[state.val], c.f[state.val])
            \/ c.kind = "reset" /\ Effect(c.new, c.new)
            \/ c.kind = "cas" /\ state.val = c.old /\ Effect(c.new, TRUE)
            \/ c.kind = "cas" /\ Effect(state.val, FALSE)
            \/ Effect(state.val, Refused)
  PROVE  Abstract!TakeEffect(g)
<1> DEFINE call == [h \in G |-> op[h].call]
           result == [h \in G |-> op[h].result]
<1>1. call[g] = op[g].call /\ call[g] # Idle /\ result[g] = Pending
  BY KindsOfOperations
<1>2. call' = call /\ result' = [result EXCEPT ![g] = op'[g].result]
  OBVIOUS
<1> QED
  BY <1>1, <1>2 DEF Abstract!TakeEffect, Abstract!Effect

LEMMA BeginRefines ==
  ASSUME IInv, NEW g \in G, NEW c \in Calls, Begin(g, c)
  PROVE  Abstract!Begin(g)
<1>1. op[g] = Resting /\ state' = state
  BY KindsOfOperations DEF IInv, Begin, Busy
<1>2. /\ op'[g].call = c /\ op'[g].result = Pending
      /\ \A h \in G : h # g => op'[h] = op[h]
  BY DEF Begin, IInv, Types
<1>3. op[g].call = Idle /\ op[g].result = Pending
  BY <1>1 DEF Resting
<1> DEFINE call == [h \in G |-> op[h].call]
           result == [h \in G |-> op[h].result]
<1>4. call[g] = Idle /\ call' = [call EXCEPT ![g] = c]
  BY <1>2, <1>3
<1>5. result' = result
  BY <1>2, <1>3
<1> QED
  BY <1>1, <1>4, <1>5 DEF Abstract!Begin

LEMMA LoadRefines ==
  ASSUME IInv, NEW g \in G, Load(g)
  PROVE  Abstract!TakeEffect(g) \/ UNCHANGED Abstract!vars
<1> DEFINE c == op[g].call
           loaded == [op[g] EXCEPT !.old = state]
           o == CASE c.kind = "swap" -> [loaded EXCEPT !.at = "validate", !.new = c.f[state.val]]
                  [] c.kind = "reset" -> [loaded EXCEPT !.at = "compare"]
                  [] c.kind = "cas" /\ state.val = c.old -> [loaded EXCEPT !.at = "validate"]
                  [] OTHER -> [loaded EXCEPT !.at = "returned", !.result = FALSE]
<1>1. op[g].at = "load" /\ op' = [op EXCEPT ![g] = o] /\ state' = state
  BY DEF Load
<1>2. Types /\ op[g] \in Callings /\ c \in Calls
  BY <1>1, KindsOfOperations DEF IInv, Callings
<1>3. op[g].result = Pending
  BY <1>1, <1>2 DEF IInv, CallsSound, CallSound, Effective
<1>4. c.kind \in {"swap", "reset", "cas"}
  BY <1>2, KindsOfCalls
<1>5. loaded \in Callings /\ loaded.call = c /\ loaded.result = op[g].result
  BY <1>2 DEF IInv, Types, Callings
<1>6. CASE c.kind = "cas" /\ state.val # c.old
  <2>1. o = [loaded EXCEPT !.at = "returned", !.result = FALSE]
    BY <1>6
  <2>2. o.call = c /\ o.result = FALSE
    BY <1>5, <2>1 DEF Callings
  <2> HIDE DEF o
  <2>3. op'[g] = o /\ \A h \in G : h # g => op'[h] = op[h]
    BY <1>1, <1>2 DEF Types
  <2> QED
    BY <1>1, <1>2, <1>3, <1>6, <2>2, <2>3, TakesEffect
<1>7. CASE ~(c.kind = "cas" /\ state.val # c.old)
  <2>1. \/ o = [loaded EXCEPT !.at = "validate", !.new = c.f[state.val]]
        \/ o = [loaded EXCEPT !.at = "compare"]
        \/ o = [loaded EXCEPT !.at = "validate"]
    BY <1>4, <1>7
  <2>2. o.call = c /\ o.result = op[g].result
    BY <1>5, <2>1 DEF Callings
  <2> HIDE DEF o
  <2> QED
    BY <1>1, <1>2, <2>2, Stutters
<1> QED
  BY <1>6, <1>7

LEMMA ValidateRefines ==
  ASSUME IInv, NEW g \in G, Validate(g)
  PROVE  Abstract!TakeEffect(g) \/ UNCHANGED Abstract!vars
<1>1. op[g].at = "validate" /\ state' = state
  BY DEF Validate
<1>2. Types /\ op[g] \in Callings
  BY <1>1, KindsOfOperations DEF IInv
<1>3. op[g].result = Pending
  BY <1>1, <1>2 DEF IInv, CallsSound, CallSound, Effective, Working
<1>4. CASE op[g].new \notin validator
  <2> DEFINE o == [op[g] EXCEPT !.at = "returned", !.result = Refused]
  <2>1. op' = [op EXCEPT ![g] = o]
    BY <1>4 DEF Validate, Finish
  <2>2. o.call = op[g].call /\ o.result = Refused
    BY <1>2 DEF Callings
  <2> HIDE DEF o
  <2>3. op'[g] = o /\ \A h \in G : h # g => op'[h] = op[h]
    BY <1>2, <2>1 DEF Types
  <2> QED
    BY <1>1, <1>2, <1>3, <2>2, <2>3, TakesEffect
<1>5. CASE op[g].new \in validator
  <2> DEFINE at == IF op[g].call.kind = "reset" THEN "load" ELSE "compare"
             o == [op[g] EXCEPT !.at = at]
  <2>1. op' = [op EXCEPT ![g] = o]
    BY <1>5 DEF Validate, Advance
  <2>2. o.call = op[g].call /\ o.result = op[g].result
    BY <1>2 DEF Callings
  <2> HIDE DEF o
  <2> QED
    BY <1>1, <1>2, <2>1, <2>2, Stutters
<1> QED
  BY <1>4, <1>5

\* A lost race is a failed compare-and-set!; swap! and reset! start again.
LEMMA LoseRefines ==
  ASSUME IInv, NEW g \in G, op[g].at \in {"keep", "set"}, Lose(g), state' = state
  PROVE  Abstract!TakeEffect(g) \/ UNCHANGED Abstract!vars
<1>1. Types /\ op[g] \in Callings
  BY KindsOfOperations DEF IInv
<1>2. op[g].result = Pending
  BY <1>1 DEF IInv, CallsSound, CallSound, Effective, Working
<1>3. CASE op[g].call.kind = "cas"
  <2> DEFINE o == [op[g] EXCEPT !.at = "returned", !.result = FALSE]
  <2>1. op' = [op EXCEPT ![g] = o]
    BY <1>3 DEF Lose, Finish
  <2>2. o.call = op[g].call /\ o.result = FALSE
    BY <1>1 DEF Callings
  <2> HIDE DEF o
  <2>3. op'[g] = o /\ \A h \in G : h # g => op'[h] = op[h]
    BY <1>1, <2>1 DEF Types
  <2> QED
    BY <1>1, <1>2, <1>3, <2>2, <2>3, TakesEffect
<1>4. CASE op[g].call.kind # "cas"
  <2> DEFINE o == [op[g] EXCEPT !.at = "load"]
  <2>1. op' = [op EXCEPT ![g] = o]
    BY <1>4 DEF Lose, Advance
  <2>2. o.call = op[g].call /\ o.result = op[g].result
    BY <1>1 DEF Callings
  <2> HIDE DEF o
  <2> QED
    BY <1>1, <2>1, <2>2, Stutters
<1> QED
  BY <1>3, <1>4

\* An operation that wins the race replaces the value it has computed its own from.
LEMMA WinRefines ==
  ASSUME IInv, NEW g \in G, op[g].at \in {"keep", "set"},
         op[g].call.kind # "reset" => state = op[g].old,
         state'.val = op[g].new,
         op'[g].call = op[g].call, op'[g].result = Success(g),
         \A h \in G : h # g => op'[h].call = op[h].call /\ op'[h].result = op[h].result
  PROVE  Abstract!TakeEffect(g)
<1>1. Types /\ op[g] \in Callings /\ op[g].call \in Calls
  BY KindsOfOperations DEF IInv, Callings
<1>2. op[g].result = Pending /\ Computed(op[g])
  BY <1>1 DEF IInv, CallsSound, CallSound, Effective, Working
<1>3. op[g].call.kind \in {"swap", "reset", "cas"}
  BY <1>1, KindsOfCalls
<1>4. CASE op[g].call.kind = "swap"
  <2>1. op[g].new = op[g].call.f[state.val] /\ Success(g) = op[g].new
    BY <1>2, <1>4 DEF Computed, Working, Success
  <2> QED
    BY <1>1, <1>2, <1>4, <2>1, TakesEffect
<1>5. CASE op[g].call.kind = "reset"
  <2>1. op[g].new = op[g].call.new /\ Success(g) = op[g].new
    BY <1>2, <1>5 DEF Computed, Success
  <2> QED
    BY <1>1, <1>2, <1>5, <2>1, TakesEffect
<1>6. CASE op[g].call.kind = "cas"
  <2>1. op[g].new = op[g].call.new /\ state.val = op[g].call.old /\ Success(g) = TRUE
    BY <1>2, <1>6 DEF Computed, Working, Success
  <2> QED
    BY <1>1, <1>2, <1>6, <2>1, TakesEffect
<1> QED
  BY <1>3, <1>4, <1>5, <1>6

LEMMA KeepRefines ==
  ASSUME IInv, NEW g \in G, Keep(g)
  PROVE  Abstract!TakeEffect(g) \/ UNCHANGED Abstract!vars
<1>1. op[g].at = "keep" /\ state' = state
  BY DEF Keep
<1>2. Types /\ op[g] \in Callings
  BY <1>1, KindsOfOperations DEF IInv
<1>3. CASE state.id = op[g].old.id
  <2> DEFINE o == [op[g] EXCEPT !.at = "returned", !.result = Success(g)]
  <2>1. op' = [op EXCEPT ![g] = o]
    BY <1>3 DEF Keep, Finish
  <2>2. o.call = op[g].call /\ o.result = Success(g)
    BY <1>2 DEF Callings
  <2>3. state = op[g].old /\ op[g].old.val = op[g].new
    BY <1>1, <1>2, <1>3 DEF IInv, CallsSound, CallSound, BoxImmutable, Computed, Working
  <2> HIDE DEF o
  <2>4. op'[g] = o /\ \A h \in G : h # g => op'[h] = op[h]
    BY <1>2, <2>1 DEF Types
  <2> QED
    BY <1>1, <2>2, <2>3, <2>4, WinRefines
<1>4. CASE state.id # op[g].old.id
  BY <1>1, <1>4, LoseRefines DEF Keep
<1> QED
  BY <1>3, <1>4

LEMMA SetRefines ==
  ASSUME IInv, NEW g \in G, Set(g)
  PROVE  Abstract!TakeEffect(g) \/ UNCHANGED Abstract!vars
<1>1. op[g].at = "set"
  BY DEF Set
<1>2. Types /\ op[g] \in Callings
  BY <1>1, KindsOfOperations DEF IInv
<1>3. CASE op[g].call.kind # "reset" /\ state.id # op[g].old.id
  BY <1>1, <1>3, LoseRefines DEF Set
<1>4. CASE op[g].call.kind = "reset" \/ state.id = op[g].old.id
  <2> DEFINE o == [op[g] EXCEPT !.at = "notify", !.old = state, !.result = Success(g)]
             v == op[g].new
  <2>1. state' = NewBox(v) /\ op' = [h \in G |-> IF h = g THEN o ELSE Observe(h, v)]
    BY <1>4 DEF Set
  <2>2. v \in Values
    BY <1>2 DEF Callings
  <2>3. state'.val = v
    BY <1>2, <2>1, <2>2, NewBoxIsNew
  <2>4. o.call = op[g].call /\ o.result = Success(g)
    BY <1>2 DEF Callings
  <2>5. op[g].call.kind # "reset" => state = op[g].old
    BY <1>1, <1>2, <1>4 DEF IInv, CallsSound, CallSound, BoxImmutable, Working
  <2> HIDE DEF o, v
  <2>6. op'[g] = o
    BY <2>1
  <2>7. ASSUME NEW h \in G, h # g
        PROVE  op'[h].call = op[h].call /\ op'[h].result = op[h].result
    <3>1. op'[h] = Observe(h, v)
      BY <2>1, <2>7
    <3>2. op[h] \notin Callings => Observe(h, v) = op[h]
      BY <1>2, KindsOfOperations DEF Observe
    <3> QED
      BY <1>2, <2>2, <3>1, <3>2, ObserveCall
  <2> QED
    BY <1>1, <2>3, <2>4, <2>5, <2>6, <2>7, WinRefines DEF v
<1> QED
  BY <1>3, <1>4

LEMMA ReturnRefines ==
  ASSUME IInv, NEW g \in G, Return(g)
  PROVE  Abstract!Return(g)
<1>1. /\ op[g].at = "returned" /\ op[g] \in Callings /\ state' = state
      /\ op' = [op EXCEPT ![g] = Resting]
  BY KindsOfOperations DEF IInv, Return
<1>2. op[g].result # Pending
  BY <1>1 DEF IInv, CallsSound, CallSound, Effective, Working
<1>3. /\ op'[g].call = Idle /\ op'[g].result = Pending
      /\ \A h \in G : h # g => op'[h] = op[h]
  BY <1>1 DEF IInv, Types, Resting
<1> DEFINE call == [h \in G |-> op[h].call]
           result == [h \in G |-> op[h].result]
<1>4. call' = [call EXCEPT ![g] = Idle]
  BY <1>3
<1>5. result[g] # Pending /\ result' = [result EXCEPT ![g] = Pending]
  BY <1>2, <1>3
<1> QED
  BY <1>1, <1>4, <1>5 DEF Abstract!Return

\* compare, notify and the steps of SetValidator, which the abstraction does not see.
LEMMA OthersRefine ==
  ASSUME IInv, NEW g \in G,
         \/ Compare(g) \/ Notify(g)
         \/ \E accepted \in Validators : TryValidator(g, accepted)
         \/ InstallValidator(g)
  PROVE  UNCHANGED Abstract!vars
<1>1. Types
  BY DEF IInv
<1>2. ASSUME NEW at, op' = [op EXCEPT ![g] = [op[g] EXCEPT !.at = at]],
             op[g] \in Callings, state' = state
      PROVE  UNCHANGED Abstract!vars
  <2> DEFINE o == [op[g] EXCEPT !.at = at]
  <2>1. o.call = op[g].call /\ o.result = op[g].result
    BY <1>2 DEF Callings
  <2> HIDE DEF o
  <2> QED
    BY <1>1, <1>2, <2>1, Stutters DEF o
<1>3. CASE Compare(g)
  BY <1>1, <1>2, <1>3, KindsOfOperations DEF Compare, Advance
<1>4. CASE Notify(g)
  BY <1>1, <1>2, <1>4, KindsOfOperations DEF Notify, Advance
<1>5. ASSUME NEW accepted \in Validators, TryValidator(g, accepted)
      PROVE  UNCHANGED Abstract!vars
  <2> DEFINE o == [at |-> "install", call |-> Idle, old |-> NoBox,
                   result |-> Pending, accepted |-> accepted]
  <2>1. op[g] = Resting
    BY <1>1, <1>5, KindsOfOperations DEF TryValidator, Busy
  <2>2. o.call = op[g].call /\ o.result = op[g].result
    BY <2>1 DEF Resting
  <2>3. op' = [op EXCEPT ![g] = o] /\ state' = state
    BY <1>5 DEF TryValidator
  <2> HIDE DEF o
  <2> QED
    BY <1>1, <2>2, <2>3, Stutters
<1>6. CASE InstallValidator(g)
  <2>1. op[g] \in Installings
    BY <1>1, <1>6, KindsOfOperations DEF InstallValidator
  <2>2. Resting.call = op[g].call /\ Resting.result = op[g].result
    BY <2>1 DEF Resting, Installings
  <2>3. op' = [op EXCEPT ![g] = Resting] /\ state' = state
    BY <1>6 DEF InstallValidator
  <2> QED
    BY <1>1, <2>2, <2>3, Stutters
<1> QED
  BY <1>3, <1>4, <1>5, <1>6

LEMMA NextRefines == IInv /\ [Next]_vars => [Abstract!Next]_(Abstract!vars)
<1> SUFFICES ASSUME IInv, [Next]_vars PROVE Abstract!Next \/ UNCHANGED Abstract!vars
  OBVIOUS
<1>1. CASE UNCHANGED vars \/ ChangeWatches
  BY <1>1 DEF vars, ChangeWatches, Abstract!vars
<1>2. ASSUME NEW g \in G, \E c \in Calls : Begin(g, c)
      PROVE  Abstract!Begin(g)
  BY <1>2, BeginRefines
<1>3. ASSUME NEW g \in G, Load(g) \/ Validate(g) \/ Keep(g) \/ Set(g)
      PROVE  Abstract!TakeEffect(g) \/ UNCHANGED Abstract!vars
  BY <1>3, LoadRefines, ValidateRefines, KeepRefines, SetRefines
<1>4. ASSUME NEW g \in G, Return(g)
      PROVE  Abstract!Return(g)
  BY <1>4, ReturnRefines
<1>5. ASSUME NEW g \in G,
             \/ Compare(g) \/ Notify(g)
             \/ \E accepted \in Validators : TryValidator(g, accepted)
             \/ InstallValidator(g)
      PROVE  UNCHANGED Abstract!vars
  BY <1>5, OthersRefine
<1> QED
  BY <1>1, <1>2, <1>3, <1>4, <1>5 DEF Next, Abstract!Next

LEMMA InitRefines == Init => Abstract!Init
  BY DEF Init, Resting, Abstract!Init

\* swap!, reset! and compare-and-set! are linearizable.
THEOREM Linearizable == Spec => ImplementsAtomicReference
  BY InitRefines, Invariance, NextRefines, PTL DEF Spec, ImplementsAtomicReference, Abstract!Spec

\* The watches are called with the value that the operation has replaced.
THEOREM WatchesHear == Spec => WatchesHearTheChange
<1>1. ASSUME IInv, [Next]_vars, NEW g \in G, op[g].at # "notify", op'[g].at = "notify"
      PROVE  op'[g].old.val = state.val /\ op'[g].new = state'.val
  <2>1. Types /\ op'[g] # op[g]
    BY <1>1 DEF IInv
  <2>2. \A h \in G : \A o : op' = [op EXCEPT ![h] = o] => h = g /\ o.at = "notify"
    BY <1>1, <2>1 DEF Types
  <2>3. ASSUME NEW h \in G, NEW at, Advance(h, at)
        PROVE  h = g /\ at = "notify"
    <3> DEFINE o == [op[h] EXCEPT !.at = at]
    <3>1. op' = [op EXCEPT ![h] = o] /\ o.at = at
      BY <2>1, <2>3 DEF Advance, Types, Operations, Resting, Callings, Installings
    <3> HIDE DEF o
    <3> QED
      BY <2>2, <3>1
  <2>4. ASSUME NEW h \in G, NEW r, Finish(h, r)
        PROVE  FALSE
    <3> DEFINE o == [op[h] EXCEPT !.at = "returned", !.result = r]
    <3>1. op' = [op EXCEPT ![h] = o] /\ o.at = "returned"
      <4>1. op' = [op EXCEPT ![h] = o]
        BY <2>4 DEF Finish
      <4>2. o.at = "returned"
        BY <2>1 DEF Types, Operations, Resting, Callings, Installings
      <4> QED
        BY <4>1, <4>2
    <3> HIDE DEF o
    <3> QED
      BY <2>2, <3>1
  <2>5. ASSUME NEW h \in G, Lose(h) PROVE FALSE
    <3>1. Finish(h, FALSE) \/ Advance(h, "load")
      BY <2>5 DEF Lose
    <3>2. ~Finish(h, FALSE)
      BY <2>4
    <3>3. Advance(h, "load") => "load" = "notify"
      BY <2>3
    <3> QED
      BY <3>1, <3>2, <3>3
  <2>6. ASSUME NEW h \in G, Set(h)
        PROVE  op'[g].old.val = state.val /\ op'[g].new = state'.val
    <3>1. op[h] \in Callings /\ op[h].new \in Values
      BY <2>1, <2>6, KindsOfOperations DEF Set, Callings
    <3>2. /\ state' = NewBox(op[h].new)
          /\ op' = [k \in G |->
                      IF k = h THEN [op[h] EXCEPT !.at = "notify", !.old = state,
                                                  !.result = Success(h)]
                      ELSE Observe(k, op[h].new)]
      BY <2>5, <2>6 DEF Set
    <3>3. CASE h = g
      <4>1. op'[g] = [op[g] EXCEPT !.at = "notify", !.old = state, !.result = Success(g)]
        BY <3>2, <3>3
      <4>2. op'[g].old = state /\ op'[g].new = op[g].new
        BY <3>1, <3>3, <4>1 DEF Callings
      <4>3. state'.val = op[g].new
        BY <2>1, <3>1, <3>2, <3>3, NewBoxIsNew
      <4> QED
        BY <4>2, <4>3
    <3>4. CASE h # g
      <4>1. op'[g] = Observe(g, op[h].new)
        BY <3>2, <3>4
      <4>2. op[g] \in Callings
        BY <2>1, <4>1, KindsOfOperations DEF Observe
      <4> QED
        BY <1>1, <2>1, <3>1, <4>1, <4>2, ObserveCall
    <3> QED
      BY <3>3, <3>4
  <2>7. ASSUME NEW h \in G, NEW c \in Calls, Begin(h, c) PROVE FALSE
    <3> DEFINE o == [at |-> IF c.kind = "reset" THEN "validate" ELSE "load",
                     call |-> c, old |-> NoBox, result |-> Pending,
                     new |-> IF c.kind = "swap" THEN state.val ELSE c.new,
                     seen |-> {state.val}, written |-> FALSE]
    <3>1. op' = [op EXCEPT ![h] = o] /\ o.at # "notify"
      BY <2>7 DEF Begin
    <3> HIDE DEF o
    <3> QED
      BY <2>2, <3>1
  <2>8. ASSUME NEW h \in G, Load(h) PROVE FALSE
    <3>1. op[h] \in Callings /\ op[h].at = "load"
      BY <2>1, <2>8, KindsOfOperations DEF Load
    <3> DEFINE c == op[h].call
               loaded == [op[h] EXCEPT !.old = state]
               o == CASE c.kind = "swap" -> [loaded EXCEPT !.at = "validate", !.new = c.f[state.val]]
                      [] c.kind = "reset" -> [loaded EXCEPT !.at = "compare"]
                      [] c.kind = "cas" /\ state.val = c.old -> [loaded EXCEPT !.at = "validate"]
                      [] OTHER -> [loaded EXCEPT !.at = "returned", !.result = FALSE]
    <3>2. c.kind \in {"swap", "reset", "cas"}
      BY <3>1, KindsOfCalls DEF Callings
    <3>3. loaded \in Callings
      BY <2>1, <3>1 DEF Types, Callings
    <3>4. \/ o = [loaded EXCEPT !.at = "validate", !.new = c.f[state.val]]
          \/ o = [loaded EXCEPT !.at = "compare"]
          \/ o = [loaded EXCEPT !.at = "validate"]
          \/ o = [loaded EXCEPT !.at = "returned", !.result = FALSE]
      BY <3>2
    <3>5. op' = [op EXCEPT ![h] = o]
      BY <2>8 DEF Load
    <3> HIDE DEF o, loaded
    <3>6. o.at # "notify"
      BY <3>3, <3>4 DEF Callings
    <3> QED
      BY <2>2, <3>5, <3>6
  <2>9. ASSUME NEW h \in G, Validate(h) \/ Compare(h) PROVE FALSE
    BY <2>3, <2>4, <2>9 DEF Validate, Compare
  <2>10. ASSUME NEW h \in G, Keep(h) \/ Notify(h) PROVE FALSE
    BY <2>3, <2>4, <2>5, <2>10 DEF Keep, Notify
  <2>11. ASSUME NEW h \in G, Return(h) \/ InstallValidator(h) PROVE FALSE
    BY <2>2, <2>11 DEF Return, InstallValidator, Resting
  <2>12. ASSUME NEW h \in G, NEW accepted \in Validators, TryValidator(h, accepted) PROVE FALSE
    <3> DEFINE o == [at |-> "install", call |-> Idle, old |-> NoBox,
                     result |-> Pending, accepted |-> accepted]
    <3>1. op' = [op EXCEPT ![h] = o] /\ o.at # "notify"
      BY <2>12 DEF TryValidator
    <3> HIDE DEF o
    <3> QED
      BY <2>2, <3>1
  <2> QED
    BY <1>1, <2>6, <2>7, <2>8, <2>9, <2>10, <2>11, <2>12 DEF Next, vars, ChangeWatches
<1>2. IInv /\ [Next]_vars =>
        \A g \in G : op[g].at # "notify" /\ op'[g].at = "notify" =>
          op'[g].old.val = state.val /\ op'[g].new = state'.val
  BY <1>1
<1> QED
  BY <1>2, Invariance, PTL DEF Spec, WatchesHearTheChange
=============================================================================
