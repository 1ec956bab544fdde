--------------------------- MODULE DeferredProofs ---------------------------
(***************************************************************************)
(* Proofs about Deferred.  Each component has an inductive invariant of    *)
(* its own, which the steps of the others keep because they leave its      *)
(* variable alone and no call of its kind moves.                           *)
(***************************************************************************)
EXTENDS Deferred, FoldLemmas

Results == Colls \cup MappedValues \cup DelayValues \cup Delivered \cup Promises \cup {Nil, TimedOut}
Links == LazySeqs \cup Colls \cup {Nil}

-----------------------------------------------------------------------------
(* The calls.                                                              *)

Resting == {Idle, Unborn, Exited, Crashed}
Endings == [at : {"returned", "close future"}, value : Results]
SeqCalls == [kind : {"seq"}, obj : LazySeqs, cur : Links,
             at : {"seqMtx", "realizeMtx", "body", "read", "take", "store"}]
MapCalls == [kind : {"map"}, obj : MappedSeqs, at : {"once", "apply"}]
ForceCalls == [kind : {"force"}, obj : Delays, at : {"check", "lock", "body", "result"}]
DeliverCalls == [kind : {"deliver"}, obj : Promises, value : Delivered, at : {"once", "store", "close"}]
AwaitCalls == [kind : {"await"}, obj : Promises \cup Futures, timed : BOOLEAN, at : {"wait"}]

Calling == SeqCalls \cup MapCalls \cup ForceCalls \cup DeliverCalls \cup AwaitCalls

CallTypes ==
  /\ op \in [G -> Resting \cup Endings \cup Calling]
  /\ \A g \in G \ Workers : op[g] \in {Idle} \cup Calling
  /\ got \in [Objects -> SUBSET (Results \cup Exceptions)]

\* Is g in a call on its object that holds something of it?
Seeking(g) == \E at \in {"realizeMtx", "body", "read", "take", "store"} : In(g, at)
Settling(g) == Delivering(g, "store") \/ Delivering(g, "close")

\* Nothing is still to come in what the bodies return.
LEMMA PendingIsNone == \A s \in LazySeqs : Returns[s] \subseteq Links /\ Pending \notin Returns[s]
<1>1. Pending \notin LazySeqs /\ Pending \notin Colls /\ Pending # Nil
  <2>1. Pending \notin Objects /\ Pending \notin Colls /\ Pending # Nil
    BY DeferredAssumption
  <2> QED
    BY <2>1, LazySeqAssumption
<1>2. \A s \in LazySeqs : Returns[s] \subseteq LazySeqs \cup Colls \cup {Nil}
  BY LazySeqAssumption
<1> QED
  BY <1>1, <1>2 DEF Links

-----------------------------------------------------------------------------
(* The inductive invariants.                                               *)

LazyRecords ==
  [fn : BOOLEAN, sv : Links, seq : Colls \cup {Nil}, realizeMtx : G \cup {NoOne},
   seqMtx : G \cup {NoOne}, produced : Links \cup {Pending}, lost : SUBSET {"panic", "race"}]

\* Who is past seqMtx holds it, and nobody else does.
SeqMtxHeld ==
  /\ \A g \in G : Seeking(g) => lazy[op[g].obj].seqMtx = g
  /\ \A s \in LazySeqs : lazy[s].seqMtx # NoOne =>
       Seeking(lazy[s].seqMtx) /\ op[lazy[s].seqMtx].obj = s

\* Who is in realize holds realizeMtx, and the body is called only when it has not
\* returned.
RealizeMtxHeld ==
  /\ \A g \in G :
       /\ In(g, "body") => lazy[op[g].cur].realizeMtx = g /\ lazy[op[g].cur].fn
       /\ In(g, "read") => lazy[op[g].cur].realizeMtx = g /\ ~lazy[op[g].cur].fn
  /\ \A s \in LazySeqs : lazy[s].realizeMtx # NoOne =>
       LET g == lazy[s].realizeMtx
       IN (In(g, "body") \/ In(g, "read")) /\ op[g].cur = s

\* Where a Seq may be; beyond its own realize it has taken the value.
SeqPositions ==
  \A g \in G :
    /\ In(g, "seqMtx") \/ In(g, "take") => op[g].cur = op[g].obj
    /\ In(g, "realizeMtx") \/ In(g, "body") \/ In(g, "read") => op[g].cur \in LazySeqs
    /\ In(g, "store") => op[g].cur \notin LazySeqs
    /\ In(g, "take") => ~lazy[op[g].obj].fn
    /\ Seeking(g) /\ op[g].cur # op[g].obj =>
         ~lazy[op[g].obj].fn /\ lazy[op[g].obj].sv = Nil

\* A lazy sequence has nothing before its body has returned.
NothingUnrun ==
  \A s \in LazySeqs :
    /\ lazy[s].fn <=> lazy[s].produced = Pending
    /\ lazy[s].fn => lazy[s].sv = Nil /\ lazy[s].seq = Nil
    /\ lazy[s].produced \in Returns[s] \cup {Pending}
    /\ lazy[s].sv \in {Nil, lazy[s].produced}

LazyInv ==
  /\ lazy \in [LazySeqs -> LazyRecords]
  /\ SeqMtxHeld
  /\ RealizeMtxHeld
  /\ SeqPositions
  /\ NothingUnrun

MappedInv ==
  /\ mapped \in [MappedSeqs -> [once : G \cup {NoOne, OnceDone}, value : MappedValues \cup {Nil}]]
  /\ \A g \in G : Mapping(g, "apply") => mapped[op[g].obj].once = g
  /\ \A m \in MappedSeqs :
       /\ mapped[m].once \in G => Mapping(mapped[m].once, "apply") /\ op[mapped[m].once].obj = m
       /\ mapped[m].once # OnceDone => mapped[m].value = Nil

DelayInv ==
  /\ delay \in [Delays -> [fn : BOOLEAN, val : DelayValues \cup {Nil}, exception : Exceptions \cup {Nil},
                           mtx : G \cup {NoOne, NoMutex}]]
  /\ \A g \in G :
       /\ Forcing(g, "body") => delay[op[g].obj].mtx = g /\ delay[op[g].obj].fn
       /\ Forcing(g, "result") => ~delay[op[g].obj].fn \/ delay[op[g].obj].exception # Nil
  /\ \A d \in Delays :
       /\ delay[d].mtx \in G => Forcing(delay[d].mtx, "body") /\ op[delay[d].mtx].obj = d
       /\ delay[d].mtx = NoMutex => ~delay[d].fn

PromiseInv ==
  /\ promise \in [Promises -> [once : G \cup {NoOne, OnceDone}, val : Delivered \cup {Nil}, done : BOOLEAN]]
  /\ \A g \in G : Settling(g) => promise[op[g].obj].once = g
  /\ \A p \in Promises :
       /\ promise[p].once \in G => Settling(promise[p].once) /\ op[promise[p].once].obj = p
       /\ promise[p].done => promise[p].once = OnceDone

\* A future is done when its worker has exited.
FutureInv ==
  /\ future \in [Futures -> [res : Results, done : BOOLEAN]]
  /\ \A w \in Workers : future[FutureOf[w]].done <=> op[w] = Exited

IInv == CallTypes /\ LazyInv /\ MappedInv /\ DelayInv /\ PromiseInv /\ FutureInv

-----------------------------------------------------------------------------
(* What the ends and the moves of a call do.                               *)

\* Only g's call changes, and nobody learns an outcome.
Moves(g) ==
  /\ op' \in [G -> Resting \cup Endings \cup Calling]
  /\ \A h \in G \ {g} : op'[h] = op[h]
  /\ got' = got

\* The atoms of "at" a call of g has: what its record says in every call.
LEMMA GotoKeepsSeq ==
  ASSUME CallTypes, NEW g \in G, NEW at, Goto(g, at), op[g] \in SeqCalls,
         at \in {"realizeMtx", "body", "read", "take", "store"}
  PROVE  /\ CallTypes' /\ Moves(g)
         /\ op'[g] \in SeqCalls /\ op'[g].at = at
         /\ op'[g].obj = op[g].obj /\ op'[g].cur = op[g].cur
<1> DEFINE o == [op[g] EXCEPT !.at = at]
<1>1. op' = [op EXCEPT ![g] = o] /\ got' = got
  BY DEF Goto
<1>2. o \in SeqCalls /\ o.at = at /\ o.obj = op[g].obj /\ o.cur = op[g].cur
  BY DEF SeqCalls
<1> HIDE DEF o
<1>3. op'[g] = o /\ o \in Calling
  BY <1>1, <1>2 DEF CallTypes, Calling
<1> QED
  BY <1>1, <1>2, <1>3 DEF CallTypes, Moves

LEMMA GotoKeepsMap ==
  ASSUME CallTypes, NEW g \in G, NEW at, Goto(g, at), op[g] \in MapCalls, at \in {"once", "apply"}
  PROVE  /\ CallTypes' /\ Moves(g)
         /\ op'[g] \in MapCalls /\ op'[g].at = at /\ op'[g].obj = op[g].obj
<1> DEFINE o == [op[g] EXCEPT !.at = at]
<1>1. op' = [op EXCEPT ![g] = o] /\ got' = got
  BY DEF Goto
<1>2. o \in MapCalls /\ o.at = at /\ o.obj = op[g].obj
  BY DEF MapCalls
<1> HIDE DEF o
<1>3. op'[g] = o /\ o \in Calling
  BY <1>1, <1>2 DEF CallTypes, Calling
<1> QED
  BY <1>1, <1>2, <1>3 DEF CallTypes, Moves

LEMMA GotoKeepsForce ==
  ASSUME CallTypes, NEW g \in G, NEW at, Goto(g, at), op[g] \in ForceCalls,
         at \in {"check", "lock", "body", "result"}
  PROVE  /\ CallTypes' /\ Moves(g)
         /\ op'[g] \in ForceCalls /\ op'[g].at = at /\ op'[g].obj = op[g].obj
<1> DEFINE o == [op[g] EXCEPT !.at = at]
<1>1. op' = [op EXCEPT ![g] = o] /\ got' = got
  BY DEF Goto
<1>2. o \in ForceCalls /\ o.at = at /\ o.obj = op[g].obj
  BY DEF ForceCalls
<1> HIDE DEF o
<1>3. op'[g] = o /\ o \in Calling
  BY <1>1, <1>2 DEF CallTypes, Calling
<1> QED
  BY <1>1, <1>2, <1>3 DEF CallTypes, Moves

LEMMA GotoKeepsDeliver ==
  ASSUME CallTypes, NEW g \in G, NEW at, Goto(g, at), op[g] \in DeliverCalls,
         at \in {"once", "store", "close"}
  PROVE  /\ CallTypes' /\ Moves(g)
         /\ op'[g] \in DeliverCalls /\ op'[g].at = at
         /\ op'[g].obj = op[g].obj /\ op'[g].value = op[g].value
<1> DEFINE o == [op[g] EXCEPT !.at = at]
<1>1. op' = [op EXCEPT ![g] = o] /\ got' = got
  BY DEF Goto
<1>2. o \in DeliverCalls /\ o.at = at /\ o.obj = op[g].obj /\ o.value = op[g].value
  BY DEF DeliverCalls
<1> HIDE DEF o
<1>3. op'[g] = o /\ o \in Calling
  BY <1>1, <1>2 DEF CallTypes, Calling
<1> QED
  BY <1>1, <1>2, <1>3 DEF CallTypes, Moves

\* The call has ended, and g is in none.
Ends(g) == op'[g] \in Resting \cup Endings /\ op'[g] \notin {Unborn, Exited}

LEMMA ReturnEnds ==
  ASSUME CallTypes, NEW g \in G, op[g] \in Calling, NEW v \in Results,
         op' = [op EXCEPT ![g] = AfterCall(g, v)]
  PROVE  /\ op' \in [G -> Resting \cup Endings \cup Calling]
         /\ \A h \in G \ {g} : op'[h] = op[h]
         /\ \A h \in G \ Workers : op'[h] \in {Idle} \cup Calling
         /\ Ends(g)
<1>1. AfterCall(g, v) \in Resting \cup Endings /\ AfterCall(g, v) \notin {Unborn, Exited}
  BY DEF AfterCall, Resting, Endings, Idle, Unborn, Exited
<1>2. g \notin Workers => AfterCall(g, v) = Idle
  BY DEF AfterCall
<1> QED
  BY <1>1, <1>2 DEF CallTypes, Ends

LEMMA ReturnAnywayEnds ==
  ASSUME CallTypes, NEW g \in G, op[g] \in Calling, NEW v \in Results, ReturnAnyway(g, v)
  PROVE  CallTypes' /\ Moves(g) /\ Ends(g)
BY ReturnEnds DEF ReturnAnyway, CallTypes, Moves

LEMMA PanicEnds ==
  ASSUME CallTypes, NEW g \in G, op[g] \in Calling, op' = [op EXCEPT ![g] = PanicTo(g)]
  PROVE  /\ op' \in [G -> Resting \cup Endings \cup Calling]
         /\ \A h \in G \ {g} : op'[h] = op[h]
         /\ \A h \in G \ Workers : op'[h] \in {Idle} \cup Calling
         /\ Ends(g)
<1>1. PanicTo(g) \in Resting /\ PanicTo(g) \notin {Unborn, Exited}
  BY DEF PanicTo, Resting, Crashed, Idle, Unborn, Exited
<1>2. g \notin Workers => PanicTo(g) = Idle
  BY DEF PanicTo
<1> QED
  BY <1>1, <1>2 DEF CallTypes, Ends

LEMMA PanicEndsCall ==
  ASSUME CallTypes, NEW g \in G, op[g] \in Calling, Panic(g)
  PROVE  CallTypes' /\ Moves(g) /\ Ends(g)
BY PanicEnds DEF Panic, CallTypes, Moves

\* The call returns what it has learned of its object.
Learns(g, v) ==
  /\ op' \in [G -> Resting \cup Endings \cup Calling]
  /\ \A h \in G \ {g} : op'[h] = op[h]
  /\ got' = [got EXCEPT ![op[g].obj] = @ \cup {v}]

LEMMA ObjectsOfCalls ==
  ASSUME NEW c \in Calling
  PROVE  c.obj \in Objects
BY DeferredAssumption DEF Calling, SeqCalls, MapCalls, ForceCalls, DeliverCalls, AwaitCalls

LEMMA LearnedTypes ==
  ASSUME CallTypes, NEW o \in Objects, NEW v \in Results \cup Exceptions
  PROVE  [got EXCEPT ![o] = @ \cup {v}] \in [Objects -> SUBSET (Results \cup Exceptions)]
BY DEF CallTypes

LEMMA ReturnLearns ==
  ASSUME CallTypes, NEW g \in G, op[g] \in Calling, NEW v \in Results, Return(g, v)
  PROVE  CallTypes' /\ Learns(g, v) /\ Ends(g)
<1>1. op[g].obj \in Objects
  BY ObjectsOfCalls
<1>2. got' \in [Objects -> SUBSET (Results \cup Exceptions)]
  BY <1>1, LearnedTypes DEF Return
<1> QED
  BY <1>2, ReturnEnds DEF Return, CallTypes, Learns

LEMMA RethrowLearns ==
  ASSUME CallTypes, NEW g \in G, op[g] \in Calling, NEW e \in Exceptions, Rethrow(g, e)
  PROVE  CallTypes' /\ Learns(g, e) /\ Ends(g)
<1>1. op[g].obj \in Objects
  BY ObjectsOfCalls
<1>2. got' \in [Objects -> SUBSET (Results \cup Exceptions)]
  BY <1>1, LearnedTypes DEF Rethrow
<1> QED
  BY <1>2, PanicEnds DEF Rethrow, CallTypes, Learns

-----------------------------------------------------------------------------
(* A call is of one kind, and steps of the others do not concern it.       *)

\* g holds nothing of a lazy sequence, a mapped one, a delay or a promise.
NoSeq(g) == ~Seeking(g) /\ ~In(g, "seqMtx")
NoMap(g) == ~Mapping(g, "apply")
NoForce(g) == ~Forcing(g, "body") /\ ~Forcing(g, "result")
NoDeliver(g) == ~Settling(g)

LEMMA WhereResting ==
  /\ Idle.at = "idle" /\ Unborn.at = "unborn" /\ Exited.at = "exited" /\ Crashed.at = "crashed"
  /\ \A e \in Endings : e.at \in {"returned", "close future"}
<1>1. Idle.at = "idle"
  BY DEF Idle
<1>2. Unborn.at = "unborn"
  BY DEF Unborn
<1>3. Exited.at = "exited"
  BY DEF Exited
<1>4. Crashed.at = "crashed"
  BY DEF Crashed
<1>5. \A e \in Endings : e.at \in {"returned", "close future"}
  BY DEF Endings
<1> QED
  BY <1>1, <1>2, <1>3, <1>4, <1>5

\* Where a call stands: what is at rest or has ended has no kind.
LEMMA Calls ==
  ASSUME CallTypes, NEW g \in G,
         op[g].at \notin {"idle", "unborn", "exited", "crashed", "returned", "close future"}
  PROVE  op[g] \in Calling
<1>1. op[g] \notin Resting
  BY WhereResting DEF Resting
<1>2. op[g] \notin Endings
  BY WhereResting
<1> QED
  BY <1>1, <1>2 DEF CallTypes

LEMMA KindOfCall ==
  ASSUME NEW c \in Calling
  PROVE  /\ c.kind = "seq" => c \in SeqCalls
         /\ c.kind = "map" => c \in MapCalls
         /\ c.kind = "force" => c \in ForceCalls
         /\ c.kind = "deliver" => c \in DeliverCalls
         /\ c.kind = "await" => c \in AwaitCalls
<1>1. c \in SeqCalls => c.kind = "seq"
  BY DEF SeqCalls
<1>2. c \in MapCalls => c.kind = "map"
  BY DEF MapCalls
<1>3. c \in ForceCalls => c.kind = "force"
  BY DEF ForceCalls
<1>4. c \in DeliverCalls => c.kind = "deliver"
  BY DEF DeliverCalls
<1>5. c \in AwaitCalls => c.kind = "await"
  BY DEF AwaitCalls
<1> QED
  BY <1>1, <1>2, <1>3, <1>4, <1>5 DEF Calling

LEMMA KindOf ==
  ASSUME CallTypes, NEW g \in G
  PROVE  /\ Seeking(g) \/ In(g, "seqMtx") => op[g] \in SeqCalls
         /\ Mapping(g, "once") \/ Mapping(g, "apply") => op[g] \in MapCalls
         /\ Forcing(g, "check") \/ Forcing(g, "lock") \/ Forcing(g, "body") \/ Forcing(g, "result") =>
              op[g] \in ForceCalls
         /\ Settling(g) \/ Delivering(g, "once") => op[g] \in DeliverCalls
         /\ InCall(g, "await", "wait") => op[g] \in AwaitCalls
BY Calls, KindOfCall DEF Seeking, In, Mapping, Forcing, Settling, Delivering, InCall

\* What g holds of the other kinds of object, before and after.
LEMMA OneKind ==
  ASSUME NEW g \in G
  PROVE  /\ op[g] \in SeqCalls => NoMap(g) /\ NoForce(g) /\ NoDeliver(g) /\ op[g] # Exited
         /\ op[g] \in MapCalls => NoSeq(g) /\ NoForce(g) /\ NoDeliver(g) /\ op[g] # Exited
         /\ op[g] \in ForceCalls => NoSeq(g) /\ NoMap(g) /\ NoDeliver(g) /\ op[g] # Exited
         /\ op[g] \in DeliverCalls => NoSeq(g) /\ NoMap(g) /\ NoForce(g) /\ op[g] # Exited
         /\ op[g] \in AwaitCalls =>
              NoSeq(g) /\ NoMap(g) /\ NoForce(g) /\ NoDeliver(g) /\ op[g] # Exited
         /\ op[g] \in Endings \cup {Idle, Unborn, Exited, Crashed} =>
              NoSeq(g) /\ NoMap(g) /\ NoForce(g) /\ NoDeliver(g)
<1> USE DEF NoSeq, NoMap, NoForce, NoDeliver, Seeking, Settling, In, Mapping, Forcing, Delivering, InCall
<1>1. op[g] \in SeqCalls => NoMap(g) /\ NoForce(g) /\ NoDeliver(g) /\ op[g] # Exited
  BY DEF SeqCalls, Exited
<1>2. op[g] \in MapCalls => NoSeq(g) /\ NoForce(g) /\ NoDeliver(g) /\ op[g] # Exited
  BY DEF MapCalls, Exited
<1>3. op[g] \in ForceCalls => NoSeq(g) /\ NoMap(g) /\ NoDeliver(g) /\ op[g] # Exited
  BY DEF ForceCalls, Exited
<1>4. op[g] \in DeliverCalls => NoSeq(g) /\ NoMap(g) /\ NoForce(g) /\ op[g] # Exited
  BY DEF DeliverCalls, Exited
<1>5. op[g] \in AwaitCalls =>
        NoSeq(g) /\ NoMap(g) /\ NoForce(g) /\ NoDeliver(g) /\ op[g] # Exited
  BY DEF AwaitCalls, Exited
<1>6. op[g] \in Endings \cup {Idle, Unborn, Exited, Crashed} =>
        NoSeq(g) /\ NoMap(g) /\ NoForce(g) /\ NoDeliver(g)
  <2>1. op[g] \in Endings \cup {Idle, Unborn, Exited, Crashed} =>
          op[g].at \in {"returned", "close future", "idle", "unborn", "exited", "crashed"}
    BY WhereResting
  <2> QED
    BY <2>1
<1> QED
  BY <1>1, <1>2, <1>3, <1>4, <1>5, <1>6

LEMMA OneKindNext ==
  ASSUME NEW g \in G
  PROVE  /\ op'[g] \in SeqCalls => NoMap(g)' /\ NoForce(g)' /\ NoDeliver(g)' /\ op'[g] # Exited
         /\ op'[g] \in MapCalls => NoSeq(g)' /\ NoForce(g)' /\ NoDeliver(g)' /\ op'[g] # Exited
         /\ op'[g] \in ForceCalls => NoSeq(g)' /\ NoMap(g)' /\ NoDeliver(g)' /\ op'[g] # Exited
         /\ op'[g] \in DeliverCalls => NoSeq(g)' /\ NoMap(g)' /\ NoForce(g)' /\ op'[g] # Exited
         /\ op'[g] \in AwaitCalls =>
              NoSeq(g)' /\ NoMap(g)' /\ NoForce(g)' /\ NoDeliver(g)' /\ op'[g] # Exited
         /\ op'[g] \in Endings \cup {Idle, Unborn, Exited, Crashed} =>
              NoSeq(g)' /\ NoMap(g)' /\ NoForce(g)' /\ NoDeliver(g)'
<1> USE DEF NoSeq, NoMap, NoForce, NoDeliver, Seeking, Settling, In, Mapping, Forcing, Delivering, InCall
<1>1. op'[g] \in SeqCalls => NoMap(g)' /\ NoForce(g)' /\ NoDeliver(g)' /\ op'[g] # Exited
  BY DEF SeqCalls, Exited
<1>2. op'[g] \in MapCalls => NoSeq(g)' /\ NoForce(g)' /\ NoDeliver(g)' /\ op'[g] # Exited
  BY DEF MapCalls, Exited
<1>3. op'[g] \in ForceCalls => NoSeq(g)' /\ NoMap(g)' /\ NoDeliver(g)' /\ op'[g] # Exited
  BY DEF ForceCalls, Exited
<1>4. op'[g] \in DeliverCalls => NoSeq(g)' /\ NoMap(g)' /\ NoForce(g)' /\ op'[g] # Exited
  BY DEF DeliverCalls, Exited
<1>5. op'[g] \in AwaitCalls =>
        NoSeq(g)' /\ NoMap(g)' /\ NoForce(g)' /\ NoDeliver(g)' /\ op'[g] # Exited
  BY DEF AwaitCalls, Exited
<1>6. op'[g] \in Endings \cup {Idle, Unborn, Exited, Crashed} =>
        NoSeq(g)' /\ NoMap(g)' /\ NoForce(g)' /\ NoDeliver(g)'
  <2>1. op'[g] \in Endings \cup {Idle, Unborn, Exited, Crashed} =>
          op'[g].at \in {"returned", "close future", "idle", "unborn", "exited", "crashed"}
    BY WhereResting
  <2> QED
    BY <2>1
<1> QED
  BY <1>1, <1>2, <1>3, <1>4, <1>5, <1>6

LEMMA EndsHoldsNothing ==
  ASSUME NEW g \in G, Ends(g)
  PROVE  NoSeq(g)' /\ NoMap(g)' /\ NoForce(g)' /\ NoDeliver(g)' /\ op'[g] # Exited
BY OneKindNext DEF Ends, Resting

-----------------------------------------------------------------------------
(* A component whose variable stays, and whose calls that hold something   *)
(* do not move, keeps its invariant.                                       *)

LEMMA LazyKept ==
  ASSUME LazyInv, lazy' = lazy,
         \A h \in G : op'[h] = op[h]
           \/ (~Seeking(h) /\ ~Seeking(h)' /\ (In(h, "seqMtx")' => op'[h].cur = op'[h].obj))
  PROVE  LazyInv'
<1>1. \A h \in G : Seeking(h)' => op'[h] = op[h] /\ Seeking(h)
  BY DEF Seeking, In, InCall
<1>2. NoOne \notin G /\ \A s \in LazySeqs : {lazy[s].seqMtx, lazy[s].realizeMtx} \subseteq G \cup {NoOne}
  BY CallsAssumption DEF LazyInv, LazyRecords
<1>3. SeqMtxHeld'
  <2>1. ASSUME NEW s \in LazySeqs, lazy'[s].seqMtx # NoOne
        PROVE  (Seeking(lazy[s].seqMtx) /\ op[lazy[s].seqMtx].obj = s)'
    <3>1. PICK h \in G : h = lazy[s].seqMtx
      BY <1>2, <2>1
    <3>2. Seeking(h) /\ op[h].obj = s
      BY <2>1, <3>1 DEF LazyInv, SeqMtxHeld
    <3>3. op'[h] = op[h]
      BY <3>2
    <3> QED
      BY <3>1, <3>2, <3>3 DEF Seeking, In, InCall
  <2>2. \A h \in G : Seeking(h)' => lazy'[op'[h].obj].seqMtx = h
    BY <1>1 DEF LazyInv, SeqMtxHeld
  <2> QED
    BY <2>1, <2>2 DEF SeqMtxHeld
<1>4. RealizeMtxHeld'
  <2>1. ASSUME NEW s \in LazySeqs, lazy'[s].realizeMtx # NoOne
        PROVE  LET g == lazy[s].realizeMtx
               IN ((In(g, "body") \/ In(g, "read")) /\ op[g].cur = s)'
    <3>1. PICK h \in G : h = lazy[s].realizeMtx
      BY <1>2, <2>1
    <3>2. (In(h, "body") \/ In(h, "read")) /\ op[h].cur = s
      BY <2>1, <3>1 DEF LazyInv, RealizeMtxHeld
    <3>3. op'[h] = op[h]
      BY <3>2 DEF Seeking
    <3> QED
      BY <3>1, <3>2, <3>3 DEF In, InCall
  <2>2. ASSUME NEW h \in G
        PROVE  /\ In(h, "body")' => lazy'[op'[h].cur].realizeMtx = h /\ lazy'[op'[h].cur].fn
               /\ In(h, "read")' => lazy'[op'[h].cur].realizeMtx = h /\ ~lazy'[op'[h].cur].fn
    BY <1>1 DEF LazyInv, RealizeMtxHeld, Seeking, In, InCall
  <2> QED
    BY <2>1, <2>2 DEF RealizeMtxHeld
<1>5. SeqPositions'
  <2>1. ASSUME NEW h \in G, op'[h] = op[h]
        PROVE  /\ In(h, "seqMtx")' \/ In(h, "take")' => op'[h].cur = op'[h].obj
               /\ In(h, "realizeMtx")' \/ In(h, "body")' \/ In(h, "read")' => op'[h].cur \in LazySeqs
               /\ In(h, "store")' => op'[h].cur \notin LazySeqs
               /\ In(h, "take")' => ~lazy'[op'[h].obj].fn
               /\ Seeking(h)' /\ op'[h].cur # op'[h].obj =>
                    ~lazy'[op'[h].obj].fn /\ lazy'[op'[h].obj].sv = Nil
    BY <2>1, <1>1 DEF LazyInv, SeqPositions, In, InCall
  <2>2. ASSUME NEW h \in G, op'[h] # op[h]
        PROVE  /\ In(h, "seqMtx")' \/ In(h, "take")' => op'[h].cur = op'[h].obj
               /\ In(h, "realizeMtx")' \/ In(h, "body")' \/ In(h, "read")' => op'[h].cur \in LazySeqs
               /\ In(h, "store")' => op'[h].cur \notin LazySeqs
               /\ In(h, "take")' => ~lazy'[op'[h].obj].fn
               /\ Seeking(h)' /\ op'[h].cur # op'[h].obj =>
                    ~lazy'[op'[h].obj].fn /\ lazy'[op'[h].obj].sv = Nil
    <3>1. ~Seeking(h)' /\ (In(h, "seqMtx")' => op'[h].cur = op'[h].obj)
      BY <2>2
    <3> QED
      BY <3>1 DEF Seeking
  <2> QED
    BY <2>1, <2>2 DEF SeqPositions
<1>6. NothingUnrun'
  BY DEF LazyInv, NothingUnrun
<1> QED
  BY <1>3, <1>4, <1>5, <1>6 DEF LazyInv

LEMMA MappedKept ==
  ASSUME MappedInv, mapped' = mapped, \A h \in G : op'[h] = op[h] \/ (NoMap(h) /\ NoMap(h)')
  PROVE  MappedInv'
<1>1. \A h \in G : Mapping(h, "apply")' <=> Mapping(h, "apply")
  BY DEF NoMap, Mapping, InCall
<1>2. \A h \in G : Mapping(h, "apply") => op'[h] = op[h]
  BY DEF NoMap
<1> QED
  BY <1>1, <1>2 DEF MappedInv

LEMMA DelayKept ==
  ASSUME DelayInv, delay' = delay, \A h \in G : op'[h] = op[h] \/ (NoForce(h) /\ NoForce(h)')
  PROVE  DelayInv'
<1>1. \A h \in G : /\ Forcing(h, "body")' <=> Forcing(h, "body")
                   /\ Forcing(h, "result")' <=> Forcing(h, "result")
  BY DEF NoForce, Forcing, InCall
<1>2. \A h \in G : Forcing(h, "body") \/ Forcing(h, "result") => op'[h] = op[h]
  BY DEF NoForce
<1> QED
  BY <1>1, <1>2 DEF DelayInv

LEMMA PromiseKept ==
  ASSUME PromiseInv, promise' = promise, \A h \in G : op'[h] = op[h] \/ (NoDeliver(h) /\ NoDeliver(h)')
  PROVE  PromiseInv'
<1>1. \A h \in G : Settling(h)' <=> Settling(h)
  BY DEF NoDeliver, Settling, Delivering, InCall
<1>2. \A h \in G : Settling(h) => op'[h] = op[h]
  BY DEF NoDeliver
<1> QED
  BY <1>1, <1>2 DEF PromiseInv

LEMMA FutureKept ==
  ASSUME FutureInv, future' = future,
         \A h \in G : op'[h] = op[h] \/ (op[h] # Exited /\ op'[h] # Exited)
  PROVE  FutureInv'
BY CallsAssumption DEF FutureInv

\* Only g moves.
Alone(g) == \A h \in G \ {g} : op'[h] = op[h]

LEMMA SeqAlone ==
  ASSUME IInv, NEW g \in G, Alone(g), op[g] \in SeqCalls, op'[g] \in SeqCalls \/ Ends(g),
         UNCHANGED <<mapped, delay, promiseVars>>
  PROVE  MappedInv' /\ DelayInv' /\ PromiseInv' /\ FutureInv'
<1>1. NoMap(g) /\ NoForce(g) /\ NoDeliver(g) /\ op[g] # Exited
  BY OneKind
<1>2. NoMap(g)' /\ NoForce(g)' /\ NoDeliver(g)' /\ op'[g] # Exited
  BY OneKindNext, EndsHoldsNothing
<1>map. MappedInv'
  <2>1. \A h \in G : op'[h] = op[h] \/ (NoMap(h) /\ NoMap(h)')
    BY <1>1, <1>2 DEF Alone, NoMap, Mapping, InCall
  <2> QED
    BY <2>1, MappedKept DEF IInv
<1>force. DelayInv'
  <2>1. \A h \in G : op'[h] = op[h] \/ (NoForce(h) /\ NoForce(h)')
    BY <1>1, <1>2 DEF Alone, NoForce, Forcing, InCall
  <2> QED
    BY <2>1, DelayKept DEF IInv
<1>deliver. PromiseInv'
  <2>1. \A h \in G : op'[h] = op[h] \/ (NoDeliver(h) /\ NoDeliver(h)')
    BY <1>1, <1>2 DEF Alone, NoDeliver, Settling, Delivering, InCall
  <2> QED
    BY <2>1, PromiseKept DEF IInv, promiseVars
<1>future. FutureInv'
  <2>1. \A h \in G : op'[h] = op[h] \/ (op[h] # Exited /\ op'[h] # Exited)
    BY <1>1, <1>2 DEF Alone
  <2> QED
    BY <2>1, FutureKept DEF IInv, promiseVars
<1> QED
  BY <1>map, <1>force, <1>deliver, <1>future

LEMMA MapAlone ==
  ASSUME IInv, NEW g \in G, Alone(g), op[g] \in MapCalls, op'[g] \in MapCalls \/ Ends(g),
         UNCHANGED <<lazy, delay, promiseVars>>
  PROVE  LazyInv' /\ DelayInv' /\ PromiseInv' /\ FutureInv'
<1>1. NoSeq(g) /\ NoForce(g) /\ NoDeliver(g) /\ op[g] # Exited
  BY OneKind
<1>2. NoSeq(g)' /\ NoForce(g)' /\ NoDeliver(g)' /\ op'[g] # Exited
  BY OneKindNext, EndsHoldsNothing
<1>seq. LazyInv'
  <2>1. \A h \in G : op'[h] = op[h]
          \/ (~Seeking(h) /\ ~Seeking(h)' /\ (In(h, "seqMtx")' => op'[h].cur = op'[h].obj))
    BY <1>1, <1>2 DEF Alone, NoSeq, Seeking, In, InCall
  <2> QED
    BY <2>1, LazyKept DEF IInv
<1>force. DelayInv'
  <2>1. \A h \in G : op'[h] = op[h] \/ (NoForce(h) /\ NoForce(h)')
    BY <1>1, <1>2 DEF Alone, NoForce, Forcing, InCall
  <2> QED
    BY <2>1, DelayKept DEF IInv
<1>deliver. PromiseInv'
  <2>1. \A h \in G : op'[h] = op[h] \/ (NoDeliver(h) /\ NoDeliver(h)')
    BY <1>1, <1>2 DEF Alone, NoDeliver, Settling, Delivering, InCall
  <2> QED
    BY <2>1, PromiseKept DEF IInv, promiseVars
<1>future. FutureInv'
  <2>1. \A h \in G : op'[h] = op[h] \/ (op[h] # Exited /\ op'[h] # Exited)
    BY <1>1, <1>2 DEF Alone
  <2> QED
    BY <2>1, FutureKept DEF IInv, promiseVars
<1> QED
  BY <1>seq, <1>force, <1>deliver, <1>future

LEMMA ForceAlone ==
  ASSUME IInv, NEW g \in G, Alone(g), op[g] \in ForceCalls, op'[g] \in ForceCalls \/ Ends(g),
         UNCHANGED <<lazy, mapped, promiseVars>>
  PROVE  LazyInv' /\ MappedInv' /\ PromiseInv' /\ FutureInv'
<1>1. NoSeq(g) /\ NoMap(g) /\ NoDeliver(g) /\ op[g] # Exited
  BY OneKind
<1>2. NoSeq(g)' /\ NoMap(g)' /\ NoDeliver(g)' /\ op'[g] # Exited
  BY OneKindNext, EndsHoldsNothing
<1>seq. LazyInv'
  <2>1. \A h \in G : op'[h] = op[h]
          \/ (~Seeking(h) /\ ~Seeking(h)' /\ (In(h, "seqMtx")' => op'[h].cur = op'[h].obj))
    BY <1>1, <1>2 DEF Alone, NoSeq, Seeking, In, InCall
  <2> QED
    BY <2>1, LazyKept DEF IInv
<1>map. MappedInv'
  <2>1. \A h \in G : op'[h] = op[h] \/ (NoMap(h) /\ NoMap(h)')
    BY <1>1, <1>2 DEF Alone, NoMap, Mapping, InCall
  <2> QED
    BY <2>1, MappedKept DEF IInv
<1>deliver. PromiseInv'
  <2>1. \A h \in G : op'[h] = op[h] \/ (NoDeliver(h) /\ NoDeliver(h)')
    BY <1>1, <1>2 DEF Alone, NoDeliver, Settling, Delivering, InCall
  <2> QED
    BY <2>1, PromiseKept DEF IInv, promiseVars
<1>future. FutureInv'
  <2>1. \A h \in G : op'[h] = op[h] \/ (op[h] # Exited /\ op'[h] # Exited)
    BY <1>1, <1>2 DEF Alone
  <2> QED
    BY <2>1, FutureKept DEF IInv, promiseVars
<1> QED
  BY <1>seq, <1>map, <1>deliver, <1>future

LEMMA PromiseAlone ==
  ASSUME IInv, NEW g \in G, Alone(g), op[g] \in DeliverCalls \cup AwaitCalls \cup Endings,
         op'[g] \in DeliverCalls \cup AwaitCalls \cup Endings \cup {Exited} \/ Ends(g),
         UNCHANGED <<lazy, mapped, delay>>
  PROVE  LazyInv' /\ MappedInv' /\ DelayInv'
<1>1. NoSeq(g) /\ NoMap(g) /\ NoForce(g)
  BY OneKind
<1>2. NoSeq(g)' /\ NoMap(g)' /\ NoForce(g)'
  BY OneKindNext, EndsHoldsNothing
<1>seq. LazyInv'
  <2>1. \A h \in G : op'[h] = op[h]
          \/ (~Seeking(h) /\ ~Seeking(h)' /\ (In(h, "seqMtx")' => op'[h].cur = op'[h].obj))
    BY <1>1, <1>2 DEF Alone, NoSeq, Seeking, In, InCall
  <2> QED
    BY <2>1, LazyKept DEF IInv
<1>map. MappedInv'
  <2>1. \A h \in G : op'[h] = op[h] \/ (NoMap(h) /\ NoMap(h)')
    BY <1>1, <1>2 DEF Alone, NoMap, Mapping, InCall
  <2> QED
    BY <2>1, MappedKept DEF IInv
<1>force. DelayInv'
  <2>1. \A h \in G : op'[h] = op[h] \/ (NoForce(h) /\ NoForce(h)')
    BY <1>1, <1>2 DEF Alone, NoForce, Forcing, InCall
  <2> QED
    BY <2>1, DelayKept DEF IInv
<1> QED
  BY <1>seq, <1>map, <1>force

-----------------------------------------------------------------------------
(* Lazy sequences.  Each part of LazyInv is kept by what a step does to    *)
(* the fields and the call it speaks of.                                   *)

LEMMA SeqTypes ==
  ASSUME CallTypes, NEW g \in G, Seeking(g) \/ In(g, "seqMtx")
  PROVE  op[g] \in SeqCalls /\ op[g].obj \in LazySeqs /\ op[g].cur \in Links
BY KindOf DEF SeqCalls

\* g goes on with the lock on its object.
LEMMA SeqMtxKept ==
  ASSUME IInv, NEW g \in G, Alone(g), Seeking(g), Seeking(g)', op'[g].obj = op[g].obj,
         \A s \in LazySeqs : lazy'[s].seqMtx = lazy[s].seqMtx
  PROVE  SeqMtxHeld'
<1>1. NoOne \notin G /\ \A s \in LazySeqs : lazy[s].seqMtx \in G \cup {NoOne}
  BY CallsAssumption DEF IInv, LazyInv, LazyRecords
<1>2. \A h \in G : Seeking(h)' => Seeking(h) /\ op'[h].obj = op[h].obj
  BY DEF Alone, Seeking, In, InCall
<1>3. \A h \in G : Seeking(h) => Seeking(h)' /\ op'[h].obj = op[h].obj /\ op[h].obj \in LazySeqs
  <2>1. \A h \in G : Seeking(h) => op[h].obj \in LazySeqs
    BY SeqTypes DEF IInv
  <2> QED
    BY <2>1 DEF Alone, Seeking, In, InCall
<1>4. \A h \in G : Seeking(h)' => lazy'[op'[h].obj].seqMtx = h
  BY <1>2, <1>3 DEF IInv, LazyInv, SeqMtxHeld
<1>5. ASSUME NEW s \in LazySeqs, lazy'[s].seqMtx # NoOne
      PROVE  (Seeking(lazy[s].seqMtx) /\ op[lazy[s].seqMtx].obj = s)'
  <2>1. PICK h \in G : h = lazy[s].seqMtx
    BY <1>1, <1>5
  <2>2. h = lazy'[s].seqMtx /\ Seeking(h) /\ op[h].obj = s
    BY <1>5, <2>1 DEF IInv, LazyInv, SeqMtxHeld
  <2>3. Seeking(h)' /\ op'[h].obj = s
    BY <1>3, <2>2
  <2> QED
    BY <2>2, <2>3 DEF Seeking, In, InCall
<1> QED
  BY <1>4, <1>5 DEF SeqMtxHeld

\* g is out of Seq and has released the lock.
LEMMA SeqMtxReleased ==
  ASSUME IInv, NEW g \in G, Alone(g), ~Seeking(g)',
         \A s \in LazySeqs : lazy'[s].seqMtx = IF lazy[s].seqMtx = g THEN NoOne ELSE lazy[s].seqMtx
  PROVE  SeqMtxHeld'
<1>1. NoOne \notin G /\ \A s \in LazySeqs : lazy[s].seqMtx \in G \cup {NoOne}
  BY CallsAssumption DEF IInv, LazyInv, LazyRecords
<1>2. \A h \in G : Seeking(h)' => h # g /\ Seeking(h) /\ op'[h] = op[h] /\ op[h].obj \in LazySeqs
  <2>1. \A h \in G : Seeking(h) => op[h].obj \in LazySeqs
    BY SeqTypes DEF IInv
  <2> QED
    BY <2>1 DEF Alone, Seeking, In, InCall
<1>3. \A h \in G : Seeking(h)' => lazy'[op'[h].obj].seqMtx = h
  BY <1>2 DEF IInv, LazyInv, SeqMtxHeld
<1>4. ASSUME NEW s \in LazySeqs, lazy'[s].seqMtx # NoOne
      PROVE  (Seeking(lazy[s].seqMtx) /\ op[lazy[s].seqMtx].obj = s)'
  <2>1. PICK h \in G : h = lazy[s].seqMtx /\ h # g
    BY <1>1, <1>4
  <2>2. h = lazy'[s].seqMtx /\ Seeking(h) /\ op[h].obj = s
    BY <1>1, <1>4, <2>1 DEF IInv, LazyInv, SeqMtxHeld
  <2>3. op'[h] = op[h]
    BY <2>1 DEF Alone
  <2> QED
    BY <2>2, <2>3 DEF Seeking, In, InCall
<1> QED
  BY <1>3, <1>4 DEF SeqMtxHeld

Realizing(g) == In(g, "body") \/ In(g, "read")

\* g is out of realize and has released the lock if it had one.
LEMMA RealizeMtxReleased ==
  ASSUME IInv, NEW g \in G, Alone(g), ~Realizing(g)',
         \A s \in LazySeqs :
           /\ lazy'[s].fn = lazy[s].fn
           /\ lazy'[s].realizeMtx = IF lazy[s].realizeMtx = g THEN NoOne ELSE lazy[s].realizeMtx
  PROVE  RealizeMtxHeld'
<1>1. NoOne \notin G /\ \A s \in LazySeqs : lazy[s].realizeMtx \in G \cup {NoOne}
  BY CallsAssumption DEF IInv, LazyInv, LazyRecords
<1>2. \A h \in G : Realizing(h)' => h # g /\ op'[h] = op[h] /\ Realizing(h) /\ op[h].cur \in LazySeqs
  <2>1. \A h \in G : Realizing(h) => op[h].cur \in LazySeqs
    BY DEF IInv, LazyInv, SeqPositions, Realizing
  <2> QED
    BY <2>1 DEF Alone, Realizing, In, InCall
<1>3. ASSUME NEW h \in G
      PROVE  /\ In(h, "body")' => lazy'[op'[h].cur].realizeMtx = h /\ lazy'[op'[h].cur].fn
             /\ In(h, "read")' => lazy'[op'[h].cur].realizeMtx = h /\ ~lazy'[op'[h].cur].fn
  BY <1>2 DEF IInv, LazyInv, RealizeMtxHeld, Realizing, In, InCall
<1>4. ASSUME NEW s \in LazySeqs, lazy'[s].realizeMtx # NoOne
      PROVE  LET h == lazy[s].realizeMtx
             IN ((In(h, "body") \/ In(h, "read")) /\ op[h].cur = s)'
  <2>1. PICK h \in G : h = lazy[s].realizeMtx /\ h # g
    BY <1>1, <1>4
  <2>2. h = lazy'[s].realizeMtx /\ (In(h, "body") \/ In(h, "read")) /\ op[h].cur = s
    BY <1>1, <1>4, <2>1 DEF IInv, LazyInv, RealizeMtxHeld
  <2>3. op'[h] = op[h]
    BY <2>1 DEF Alone
  <2> QED
    BY <2>2, <2>3 DEF In, InCall
<1> QED
  BY <1>3, <1>4 DEF RealizeMtxHeld

\* What SeqPositions says of g.
SeqPosition(g) ==
  /\ In(g, "seqMtx") \/ In(g, "take") => op[g].cur = op[g].obj
  /\ In(g, "realizeMtx") \/ In(g, "body") \/ In(g, "read") => op[g].cur \in LazySeqs
  /\ In(g, "store") => op[g].cur \notin LazySeqs
  /\ In(g, "take") => ~lazy[op[g].obj].fn
  /\ Seeking(g) /\ op[g].cur # op[g].obj =>
       ~lazy[op[g].obj].fn /\ lazy[op[g].obj].sv = Nil

LEMMA SeqPositionsKept ==
  ASSUME IInv, NEW g \in G, Alone(g), SeqPosition(g)',
         \A s \in LazySeqs : /\ lazy'[s].fn => lazy[s].fn
                             /\ lazy[s].fn \/ lazy'[s].sv \in {lazy[s].sv, Nil}
  PROVE  SeqPositions'
<1>1. ASSUME NEW h \in G \ {g} PROVE SeqPosition(h)'
  <2>1. op'[h] = op[h]
    BY DEF Alone
  <2>2. SeqPosition(h)
    BY DEF IInv, LazyInv, SeqPositions, SeqPosition
  <2>3. Seeking(h) => op[h].obj \in LazySeqs
    BY SeqTypes DEF IInv
  <2> QED
    BY <2>1, <2>2, <2>3 DEF SeqPosition, Seeking, In, InCall
<1>2. \A h \in G : SeqPosition(h)'
  BY <1>1
<1> QED
  BY <1>2 DEF SeqPositions, SeqPosition

\* l is locks but for the mutexes that g has released.
UnlockedBy(g, locks, l) ==
  \A s \in LazySeqs :
    /\ l[s].fn = locks[s].fn /\ l[s].sv = locks[s].sv /\ l[s].seq = locks[s].seq
    /\ l[s].produced = locks[s].produced /\ l[s].lost = locks[s].lost
    /\ l[s].realizeMtx = IF locks[s].realizeMtx = g THEN NoOne ELSE locks[s].realizeMtx
    /\ l[s].seqMtx = IF locks[s].seqMtx = g THEN NoOne ELSE locks[s].seqMtx

LEMMA UnlockedFields ==
  ASSUME NEW g \in G, NEW locks \in [LazySeqs -> LazyRecords]
  PROVE  Unlocked(g, locks) \in [LazySeqs -> LazyRecords] /\ UnlockedBy(g, locks, Unlocked(g, locks))
<1> DEFINE l == Unlocked(g, locks)
<1>1. ASSUME NEW s \in LazySeqs
      PROVE  /\ l[s] \in LazyRecords
             /\ l[s].fn = locks[s].fn /\ l[s].sv = locks[s].sv /\ l[s].seq = locks[s].seq
             /\ l[s].produced = locks[s].produced /\ l[s].lost = locks[s].lost
             /\ l[s].realizeMtx = IF locks[s].realizeMtx = g THEN NoOne ELSE locks[s].realizeMtx
             /\ l[s].seqMtx = IF locks[s].seqMtx = g THEN NoOne ELSE locks[s].seqMtx
  <2> DEFINE k == locks[s]
             a == IF k.realizeMtx = g THEN NoOne ELSE k.realizeMtx
             b == IF k.seqMtx = g THEN NoOne ELSE k.seqMtx
             m == [k EXCEPT !.realizeMtx = a]
             r == [m EXCEPT !.seqMtx = b]
  <2>1. k \in LazyRecords /\ a \in G \cup {NoOne} /\ b \in G \cup {NoOne}
    BY DEF LazyRecords
  <2>2. l[s] = [k EXCEPT !.realizeMtx = a, !.seqMtx = b]
    BY DEF Unlocked
  <2> HIDE DEF k, a, b, l
  <2>3. m \in LazyRecords /\ m.fn = k.fn /\ m.sv = k.sv /\ m.seq = k.seq /\ m.produced = k.produced
        /\ m.lost = k.lost /\ m.realizeMtx = a /\ m.seqMtx = k.seqMtx
    BY <2>1 DEF LazyRecords
  <2>4. l[s] = r
    BY <2>1, <2>2 DEF LazyRecords
  <2> HIDE DEF m
  <2>5. r \in LazyRecords /\ r.fn = m.fn /\ r.sv = m.sv /\ r.seq = m.seq /\ r.produced = m.produced
        /\ r.lost = m.lost /\ r.realizeMtx = m.realizeMtx /\ r.seqMtx = b
    BY <2>1, <2>3 DEF LazyRecords
  <2> HIDE DEF r
  <2> QED
    BY <2>3, <2>4, <2>5 DEF k, a, b
<1>2. l = [s \in LazySeqs |-> l[s]]
  BY DEF Unlocked
<1> HIDE DEF l
<1>3. l \in [LazySeqs -> LazyRecords]
  BY <1>1, <1>2
<1> QED
  BY <1>1, <1>3 DEF UnlockedBy, l

\* What a step may do to the fields of a lazy sequence other than its locks, apart from
\* the end of its body.
LEMMA NothingUnrunKept ==
  ASSUME IInv,
         \A s \in LazySeqs :
           /\ lazy'[s].fn = lazy[s].fn /\ lazy'[s].produced = lazy[s].produced
           /\ lazy'[s].sv \in {lazy[s].sv, Nil}
           /\ lazy'[s].seq # lazy[s].seq => ~lazy[s].fn
  PROVE  NothingUnrun'
BY DEF IInv, LazyInv, NothingUnrun

\* The invariant of lazy sequences and what the others keep of a step of theirs.
SeqStepKeeps(g) == CallTypes' /\ LazyInv' /\ Alone(g) /\ (op'[g] \in SeqCalls \/ Ends(g))

\* What a step leaves of a lazy sequence.
SameBody(s) ==
  /\ lazy'[s].fn = lazy[s].fn /\ lazy'[s].produced = lazy[s].produced
  /\ lazy'[s].sv = lazy[s].sv /\ lazy'[s].seq = lazy[s].seq
SameLocks(s) == lazy'[s].realizeMtx = lazy[s].realizeMtx /\ lazy'[s].seqMtx = lazy[s].seqMtx
SameLost(s) == lazy'[s].lost = lazy[s].lost
Released(g, s) ==
  /\ lazy'[s].realizeMtx = IF lazy[s].realizeMtx = g THEN NoOne ELSE lazy[s].realizeMtx
  /\ lazy'[s].seqMtx = IF lazy[s].seqMtx = g THEN NoOne ELSE lazy[s].seqMtx

\* g goes on in its Seq.
GoesOn(g, at, cur) ==
  /\ op'[g] \in SeqCalls /\ op'[g].at = at /\ op'[g].cur = cur /\ op'[g].obj = op[g].obj

LEMMA LockSeqDoes ==
  ASSUME IInv, NEW g \in G, LockSeq(g)
  PROVE  /\ In(g, "seqMtx") /\ op[g] \in SeqCalls /\ op[g].obj \in LazySeqs /\ op[g].cur = op[g].obj
         /\ lazy[op[g].obj].seqMtx = NoOne
         /\ CallTypes' /\ Moves(g) /\ GoesOn(g, "realizeMtx", op[g].obj)
         /\ lazy' \in [LazySeqs -> LazyRecords]
         /\ \A t \in LazySeqs :
              /\ SameBody(t) /\ SameLost(t) /\ lazy'[t].realizeMtx = lazy[t].realizeMtx
              /\ lazy'[t].seqMtx = IF t = op[g].obj THEN g ELSE lazy[t].seqMtx
<1> DEFINE s == op[g].obj
<1>1. In(g, "seqMtx") /\ op[g] \in SeqCalls /\ s \in LazySeqs /\ op[g].cur = s /\ lazy[s].seqMtx = NoOne
  BY SeqTypes DEF IInv, LockSeq, LazyInv, SeqPositions
<1>2. CallTypes' /\ Moves(g) /\ GoesOn(g, "realizeMtx", s)
  BY <1>1, GotoKeepsSeq DEF IInv, LockSeq, GoesOn
<1> DEFINE r == [lazy[s] EXCEPT !.seqMtx = g]
<1>3. lazy' = [lazy EXCEPT ![s] = r] /\ lazy[s] \in LazyRecords /\ lazy \in [LazySeqs -> LazyRecords]
  BY <1>1 DEF LockSeq, IInv, LazyInv
<1>4. /\ r \in LazyRecords /\ r.fn = lazy[s].fn /\ r.sv = lazy[s].sv /\ r.seq = lazy[s].seq
      /\ r.produced = lazy[s].produced /\ r.lost = lazy[s].lost
      /\ r.realizeMtx = lazy[s].realizeMtx /\ r.seqMtx = g
  BY <1>3 DEF LazyRecords
<1> HIDE DEF s, r
<1>5. /\ lazy' \in [LazySeqs -> LazyRecords]
      /\ \A t \in LazySeqs :
           /\ SameBody(t) /\ SameLost(t) /\ lazy'[t].realizeMtx = lazy[t].realizeMtx
           /\ lazy'[t].seqMtx = IF t = s THEN g ELSE lazy[t].seqMtx
  BY <1>1, <1>3, <1>4 DEF SameBody, SameLost
<1> QED
  BY <1>1, <1>2, <1>5 DEF s

LEMMA LockSeqKeeps ==
  ASSUME IInv, NEW g \in G, LockSeq(g)
  PROVE  SeqStepKeeps(g)
<1> DEFINE s == op[g].obj
<1>1. In(g, "seqMtx") /\ op[g] \in SeqCalls /\ s \in LazySeqs /\ op[g].cur = s /\ lazy[s].seqMtx = NoOne
  BY LockSeqDoes
<1>2. /\ CallTypes' /\ Alone(g) /\ op'[g] \in SeqCalls /\ op'[g].at = "realizeMtx"
      /\ op'[g].obj = s /\ op'[g].cur = s
  BY LockSeqDoes DEF Moves, Alone, GoesOn
<1>3. /\ lazy' \in [LazySeqs -> LazyRecords]
      /\ \A t \in LazySeqs :
           /\ lazy'[t].fn = lazy[t].fn /\ lazy'[t].sv = lazy[t].sv /\ lazy'[t].seq = lazy[t].seq
           /\ lazy'[t].produced = lazy[t].produced /\ lazy'[t].realizeMtx = lazy[t].realizeMtx
           /\ lazy'[t].seqMtx = IF t = s THEN g ELSE lazy[t].seqMtx
  BY LockSeqDoes DEF SameBody
<1> HIDE DEF s
<1>4. op'[g].kind = "seq" /\ op[g].kind = "seq" /\ g # NoOne
  BY <1>1, <1>2, CallsAssumption DEF SeqCalls
<1>5. SeqMtxHeld'
  <2>1. \A h \in G : Seeking(h) => h # g /\ op[h].obj \in LazySeqs
    BY <1>1, SeqTypes DEF IInv, Seeking, In, InCall
  <2>2. ASSUME NEW h \in G, Seeking(h)' PROVE lazy'[op'[h].obj].seqMtx = h
    <3>1. CASE h = g
      BY <1>1, <1>2, <1>3, <3>1
    <3>2. CASE h # g
      <4>1. op'[h] = op[h] /\ Seeking(h)
        BY <1>2, <2>2, <3>2 DEF Alone, Seeking, In, InCall
      <4>2. lazy[op[h].obj].seqMtx = h /\ h # NoOne /\ op[h].obj \in LazySeqs
        BY <2>1, <4>1, CallsAssumption DEF IInv, LazyInv, SeqMtxHeld
      <4> QED
        BY <1>1, <1>3, <4>1, <4>2
    <3> QED
      BY <3>1, <3>2
  <2>3. ASSUME NEW t \in LazySeqs, lazy'[t].seqMtx # NoOne
        PROVE  (Seeking(lazy[t].seqMtx) /\ op[lazy[t].seqMtx].obj = t)'
    <3>1. CASE t = s
      <4>1. lazy'[t].seqMtx = g
        BY <1>3, <3>1
      <4>2. Seeking(g)'
        BY <1>2, <1>4 DEF Seeking, In, InCall
      <4> QED
        BY <1>2, <3>1, <4>1, <4>2 DEF Seeking, In, InCall
    <3>2. CASE t # s
      <4>1. lazy'[t].seqMtx = lazy[t].seqMtx /\ lazy[t].seqMtx \in G
        BY <1>3, <2>3, <3>2 DEF IInv, LazyInv, LazyRecords
      <4>2. PICK h \in G : h = lazy[t].seqMtx
        BY <4>1
      <4>3. Seeking(h) /\ op[h].obj = t
        BY <2>3, <4>1, <4>2 DEF IInv, LazyInv, SeqMtxHeld
      <4>4. op'[h] = op[h] /\ lazy'[t].seqMtx = h
        BY <1>2, <2>1, <4>1, <4>2, <4>3 DEF Alone
      <4> QED
        BY <4>3, <4>4 DEF Seeking, In, InCall
    <3> QED
      BY <3>1, <3>2
  <2> QED
    BY <2>2, <2>3 DEF SeqMtxHeld
<1>6. RealizeMtxHeld'
  <2>1. ~Realizing(g)'
    BY <1>2 DEF Realizing, In, InCall
  <2>2. \A t \in LazySeqs : lazy[t].realizeMtx # g
    BY <1>1, <1>4 DEF IInv, LazyInv, RealizeMtxHeld, In, InCall
  <2> QED
    BY <1>2, <1>3, <2>1, <2>2, RealizeMtxReleased
<1>7. SeqPositions'
  <2>1. SeqPosition(g)'
    BY <1>1, <1>2 DEF SeqPosition, In, InCall
  <2> QED
    BY <1>2, <1>3, <2>1, SeqPositionsKept
<1>8. NothingUnrun'
  BY <1>3, NothingUnrunKept
<1> QED
  BY <1>2, <1>3, <1>5, <1>6, <1>7, <1>8 DEF SeqStepKeeps, LazyInv

LEMMA RealizeDoes ==
  ASSUME IInv, NEW g \in G, Realize(g)
  PROVE  /\ In(g, "realizeMtx") /\ op[g] \in SeqCalls /\ op[g].cur \in LazySeqs
         /\ lazy[op[g].cur].realizeMtx = NoOne
         /\ CallTypes' /\ Moves(g)
         /\ GoesOn(g, IF lazy[op[g].cur].fn THEN "body" ELSE "read", op[g].cur)
         /\ lazy' \in [LazySeqs -> LazyRecords]
         /\ \A t \in LazySeqs :
              /\ SameBody(t) /\ SameLost(t) /\ lazy'[t].seqMtx = lazy[t].seqMtx
              /\ lazy'[t].realizeMtx = IF t = op[g].cur THEN g ELSE lazy[t].realizeMtx
<1> DEFINE s == op[g].cur
<1>1. In(g, "realizeMtx") /\ op[g] \in SeqCalls /\ s \in LazySeqs /\ lazy[s].realizeMtx = NoOne
  BY SeqTypes DEF IInv, Realize, LazyInv, SeqPositions, Seeking
<1>2. CallTypes' /\ Moves(g) /\ GoesOn(g, IF lazy[op[g].cur].fn THEN "body" ELSE "read", s)
  BY <1>1, GotoKeepsSeq DEF IInv, Realize, GoesOn
<1> DEFINE r == [lazy[s] EXCEPT !.realizeMtx = g]
<1>3. lazy' = [lazy EXCEPT ![s] = r] /\ lazy[s] \in LazyRecords /\ lazy \in [LazySeqs -> LazyRecords]
  BY <1>1 DEF Realize, IInv, LazyInv
<1>4. /\ r \in LazyRecords /\ r.fn = lazy[s].fn /\ r.sv = lazy[s].sv /\ r.seq = lazy[s].seq
      /\ r.produced = lazy[s].produced /\ r.lost = lazy[s].lost
      /\ r.realizeMtx = g /\ r.seqMtx = lazy[s].seqMtx
  BY <1>3 DEF LazyRecords
<1> HIDE DEF s, r
<1>5. /\ lazy' \in [LazySeqs -> LazyRecords]
      /\ \A t \in LazySeqs :
           /\ SameBody(t) /\ SameLost(t) /\ lazy'[t].seqMtx = lazy[t].seqMtx
           /\ lazy'[t].realizeMtx = IF t = s THEN g ELSE lazy[t].realizeMtx
  BY <1>1, <1>3, <1>4 DEF SameBody, SameLost
<1> QED
  BY <1>1, <1>2, <1>5 DEF s

LEMMA RealizeKeeps ==
  ASSUME IInv, NEW g \in G, Realize(g)
  PROVE  SeqStepKeeps(g)
<1> DEFINE s == op[g].cur
           at == IF lazy[s].fn THEN "body" ELSE "read"
<1>1. In(g, "realizeMtx") /\ op[g] \in SeqCalls /\ s \in LazySeqs /\ lazy[s].realizeMtx = NoOne
  BY RealizeDoes
<1>2. /\ CallTypes' /\ Alone(g) /\ op'[g] \in SeqCalls /\ op'[g].at = at
      /\ op'[g].obj = op[g].obj /\ op'[g].cur = s
  BY RealizeDoes DEF Moves, Alone, GoesOn
<1>3. /\ lazy' \in [LazySeqs -> LazyRecords]
      /\ \A t \in LazySeqs :
           /\ lazy'[t].fn = lazy[t].fn /\ lazy'[t].sv = lazy[t].sv /\ lazy'[t].seq = lazy[t].seq
           /\ lazy'[t].produced = lazy[t].produced /\ lazy'[t].seqMtx = lazy[t].seqMtx
           /\ lazy'[t].realizeMtx = IF t = s THEN g ELSE lazy[t].realizeMtx
  BY RealizeDoes DEF SameBody
<1>4. op'[g].kind = "seq" /\ op[g].kind = "seq" /\ g # NoOne
  BY <1>1, <1>2, CallsAssumption DEF SeqCalls
<1>5. Seeking(g) /\ Seeking(g)'
  BY <1>1, <1>2, <1>4 DEF Seeking, In, InCall
<1> HIDE DEF s
<1>6. SeqMtxHeld'
  BY <1>2, <1>3, <1>5, SeqMtxKept
<1>7. RealizeMtxHeld'
  <2>1. ASSUME NEW h \in G
        PROVE  /\ In(h, "body")' => lazy'[op'[h].cur].realizeMtx = h /\ lazy'[op'[h].cur].fn
               /\ In(h, "read")' => lazy'[op'[h].cur].realizeMtx = h /\ ~lazy'[op'[h].cur].fn
    <3>1. CASE h = g
      BY <1>1, <1>2, <1>3, <3>1 DEF In, InCall
    <3>2. CASE h # g
      <4>1. op'[h] = op[h]
        BY <1>2, <3>2 DEF Alone
      <4>2. (In(h, "body") \/ In(h, "read")) => lazy[op[h].cur].realizeMtx = h /\ op[h].cur \in LazySeqs
        BY DEF IInv, LazyInv, SeqPositions, RealizeMtxHeld
      <4>3. (In(h, "body") \/ In(h, "read")) => op[h].cur # s
        BY <1>1, <4>2, CallsAssumption
      <4> QED
        BY <1>3, <4>1, <4>2, <4>3 DEF IInv, LazyInv, RealizeMtxHeld, In, InCall
    <3> QED
      BY <3>1, <3>2
  <2>2. ASSUME NEW t \in LazySeqs, lazy'[t].realizeMtx # NoOne
        PROVE  LET h == lazy[t].realizeMtx
               IN ((In(h, "body") \/ In(h, "read")) /\ op[h].cur = t)'
    <3>1. CASE t = s
      <4>1. lazy'[t].realizeMtx = g
        BY <1>3, <3>1
      <4> QED
        BY <1>2, <1>4, <3>1, <4>1 DEF In, InCall
    <3>2. CASE t # s
      <4>1. lazy'[t].realizeMtx = lazy[t].realizeMtx /\ lazy[t].realizeMtx \in G
        BY <1>3, <2>2, <3>2 DEF IInv, LazyInv, LazyRecords
      <4>2. PICK h \in G : h = lazy[t].realizeMtx
        BY <4>1
      <4>3. (In(h, "body") \/ In(h, "read")) /\ op[h].cur = t
        BY <2>2, <4>1, <4>2 DEF IInv, LazyInv, RealizeMtxHeld
      <4>4. h # g
        BY <1>1, <4>3 DEF In, InCall
      <4>5. op'[h] = op[h] /\ lazy'[t].realizeMtx = h
        BY <1>2, <4>1, <4>2, <4>4 DEF Alone
      <4> QED
        BY <4>3, <4>5 DEF In, InCall
    <3> QED
      BY <3>1, <3>2
  <2> QED
    BY <2>1, <2>2 DEF RealizeMtxHeld
<1>8. SeqPositions'
  <2>1. SeqPosition(g)
    BY DEF IInv, LazyInv, SeqPositions, SeqPosition
  <2>2. op[g].obj \in LazySeqs /\ (op[g].obj # s => ~lazy[op[g].obj].fn /\ lazy[op[g].obj].sv = Nil)
    BY <1>5, <2>1, SeqTypes DEF SeqPosition, IInv, s
  <2>3. SeqPosition(g)'
    BY <1>1, <1>2, <1>3, <2>2 DEF SeqPosition, In, InCall
  <2> QED
    BY <1>2, <1>3, <2>3, SeqPositionsKept
<1>9. NothingUnrun'
  BY <1>3, NothingUnrunKept
<1> QED
  BY <1>2, <1>3, <1>6, <1>7, <1>8, <1>9 DEF SeqStepKeeps, LazyInv

LEMMA BodyReturnsDoes ==
  ASSUME IInv, NEW g \in G, BodyReturns(g)
  PROVE  /\ In(g, "body") /\ op[g] \in SeqCalls /\ op[g].cur \in LazySeqs
         /\ lazy[op[g].cur].fn /\ lazy[op[g].cur].realizeMtx = g
         /\ CallTypes' /\ Moves(g) /\ GoesOn(g, "read", op[g].cur)
         /\ lazy' \in [LazySeqs -> LazyRecords]
         /\ \A t \in LazySeqs : SameLocks(t) /\ SameLost(t) /\ (t # op[g].cur => SameBody(t))
         /\ LET r == lazy'[op[g].cur]
            IN ~r.fn /\ r.seq = Nil /\ r.sv = r.produced /\ r.produced \in Returns[op[g].cur]
<1> DEFINE s == op[g].cur
<1>1. /\ In(g, "body") /\ op[g] \in SeqCalls /\ s \in LazySeqs
      /\ lazy[s].fn /\ lazy[s].realizeMtx = g /\ lazy[s].seq = Nil
  BY SeqTypes DEF IInv, BodyReturns, LazyInv, SeqPositions, RealizeMtxHeld, NothingUnrun, Seeking
<1>2. CallTypes' /\ Moves(g) /\ GoesOn(g, "read", s)
  BY <1>1, GotoKeepsSeq DEF IInv, BodyReturns, GoesOn
<1>3. PICK v \in Returns[s] : lazy' = [lazy EXCEPT ![s].sv = v, ![s].fn = FALSE, ![s].produced = v]
  BY DEF BodyReturns
<1> DEFINE a == [lazy[s] EXCEPT !.sv = v]
           b == [a EXCEPT !.fn = FALSE]
           r == [b EXCEPT !.produced = v]
<1>4. lazy' = [lazy EXCEPT ![s] = r] /\ lazy[s] \in LazyRecords /\ lazy \in [LazySeqs -> LazyRecords]
  BY <1>1, <1>3 DEF IInv, LazyInv
<1>5. v \in Links
  BY <1>1, LazySeqAssumption DEF Links
<1>6. /\ a \in LazyRecords /\ a.fn = lazy[s].fn /\ a.sv = v /\ a.seq = lazy[s].seq
      /\ a.produced = lazy[s].produced /\ a.lost = lazy[s].lost
      /\ a.realizeMtx = lazy[s].realizeMtx /\ a.seqMtx = lazy[s].seqMtx
  BY <1>4, <1>5 DEF LazyRecords
<1> HIDE DEF a
<1>7. /\ b \in LazyRecords /\ b.fn = FALSE /\ b.sv = a.sv /\ b.seq = a.seq
      /\ b.produced = a.produced /\ b.lost = a.lost
      /\ b.realizeMtx = a.realizeMtx /\ b.seqMtx = a.seqMtx
  BY <1>6 DEF LazyRecords
<1> HIDE DEF b
<1>8. /\ r \in LazyRecords /\ r.fn = b.fn /\ r.sv = b.sv /\ r.seq = b.seq
      /\ r.produced = v /\ r.lost = b.lost
      /\ r.realizeMtx = b.realizeMtx /\ r.seqMtx = b.seqMtx
  BY <1>5, <1>7 DEF LazyRecords
<1> HIDE DEF s, r
<1>9. /\ lazy' \in [LazySeqs -> LazyRecords]
      /\ \A t \in LazySeqs : SameLocks(t) /\ SameLost(t) /\ (t # s => SameBody(t))
      /\ lazy'[s] = r
  BY <1>1, <1>4, <1>6, <1>7, <1>8 DEF SameBody, SameLost, SameLocks
<1>10. ~r.fn /\ r.seq = Nil /\ r.sv = r.produced /\ r.produced \in Returns[s]
  BY <1>1, <1>6, <1>7, <1>8
<1> QED
  BY <1>1, <1>2, <1>9, <1>10 DEF s

LEMMA BodyReturnsKeeps ==
  ASSUME IInv, NEW g \in G, BodyReturns(g)
  PROVE  SeqStepKeeps(g)
<1> DEFINE s == op[g].cur
<1>1. In(g, "body") /\ op[g] \in SeqCalls /\ s \in LazySeqs /\ lazy[s].fn /\ lazy[s].realizeMtx = g
  BY BodyReturnsDoes
<1>2. /\ CallTypes' /\ Alone(g) /\ op'[g] \in SeqCalls /\ op'[g].at = "read"
      /\ op'[g].obj = op[g].obj /\ op'[g].cur = s
  BY BodyReturnsDoes DEF Moves, Alone, GoesOn
<1>3. /\ lazy' \in [LazySeqs -> LazyRecords]
      /\ \A t \in LazySeqs :
           /\ lazy'[t].seqMtx = lazy[t].seqMtx /\ lazy'[t].realizeMtx = lazy[t].realizeMtx
           /\ t # s => /\ lazy'[t].fn = lazy[t].fn /\ lazy'[t].sv = lazy[t].sv
                       /\ lazy'[t].seq = lazy[t].seq /\ lazy'[t].produced = lazy[t].produced
  BY BodyReturnsDoes DEF SameBody, SameLocks
<1>4. /\ ~lazy'[s].fn /\ lazy'[s].seq = Nil /\ lazy'[s].sv = lazy'[s].produced
      /\ lazy'[s].produced \in Returns[s]
  BY BodyReturnsDoes
<1>5. op'[g].kind = "seq" /\ op[g].kind = "seq" /\ g # NoOne
  BY <1>1, <1>2, CallsAssumption DEF SeqCalls
<1>6. Seeking(g) /\ Seeking(g)'
  BY <1>1, <1>2, <1>5 DEF Seeking, In, InCall
<1> HIDE DEF s
<1>7. SeqMtxHeld'
  BY <1>2, <1>3, <1>6, SeqMtxKept
<1>8. RealizeMtxHeld'
  <2>1. ASSUME NEW h \in G
        PROVE  /\ In(h, "body")' => lazy'[op'[h].cur].realizeMtx = h /\ lazy'[op'[h].cur].fn
               /\ In(h, "read")' => lazy'[op'[h].cur].realizeMtx = h /\ ~lazy'[op'[h].cur].fn
    <3>1. CASE h = g
      BY <1>1, <1>2, <1>3, <1>4, <3>1 DEF In, InCall
    <3>2. CASE h # g
      <4>1. op'[h] = op[h]
        BY <1>2, <3>2 DEF Alone
      <4>2. (In(h, "body") \/ In(h, "read")) => lazy[op[h].cur].realizeMtx = h /\ op[h].cur \in LazySeqs
        BY DEF IInv, LazyInv, SeqPositions, RealizeMtxHeld
      <4>3. (In(h, "body") \/ In(h, "read")) => op[h].cur # s
        BY <1>1, <3>2, <4>2
      <4> QED
        BY <1>3, <4>1, <4>2, <4>3 DEF IInv, LazyInv, RealizeMtxHeld, In, InCall
    <3> QED
      BY <3>1, <3>2
  <2>2. ASSUME NEW t \in LazySeqs, lazy'[t].realizeMtx # NoOne
        PROVE  LET h == lazy[t].realizeMtx
               IN ((In(h, "body") \/ In(h, "read")) /\ op[h].cur = t)'
    <3>1. lazy'[t].realizeMtx = lazy[t].realizeMtx /\ lazy[t].realizeMtx \in G
      BY <1>3, <2>2 DEF IInv, LazyInv, LazyRecords
    <3>2. PICK h \in G : h = lazy[t].realizeMtx
      BY <3>1
    <3>3. (In(h, "body") \/ In(h, "read")) /\ op[h].cur = t /\ lazy'[t].realizeMtx = h
      BY <2>2, <3>1, <3>2 DEF IInv, LazyInv, RealizeMtxHeld
    <3>4. CASE h = g
      BY <1>2, <1>5, <3>3, <3>4 DEF In, InCall, s
    <3>5. CASE h # g
      <4>1. op'[h] = op[h]
        BY <1>2, <3>5 DEF Alone
      <4> QED
        BY <3>3, <4>1 DEF In, InCall
    <3> QED
      BY <3>4, <3>5
  <2> QED
    BY <2>1, <2>2 DEF RealizeMtxHeld
<1>9. SeqPositions'
  <2>1. SeqPosition(g)
    BY DEF IInv, LazyInv, SeqPositions, SeqPosition
  <2>2. op[g].obj \in LazySeqs /\ (op[g].obj # s => ~lazy[op[g].obj].fn /\ lazy[op[g].obj].sv = Nil)
    BY <1>6, <2>1, SeqTypes DEF SeqPosition, IInv, s
  <2>3. SeqPosition(g)'
    BY <1>1, <1>2, <1>3, <2>2 DEF SeqPosition, In, InCall
  <2>4. \A t \in LazySeqs : /\ lazy'[t].fn => lazy[t].fn
                            /\ lazy[t].fn \/ lazy'[t].sv \in {lazy[t].sv, Nil}
    BY <1>1, <1>3, <1>4
  <2> QED
    BY <1>2, <2>3, <2>4, SeqPositionsKept
<1>10. NothingUnrun'
  <2>1. lazy'[s].produced # Pending
    BY <1>1, <1>4, PendingIsNone
  <2> QED
    BY <1>1, <1>3, <1>4, <2>1 DEF IInv, LazyInv, NothingUnrun
<1> QED
  BY <1>2, <1>3, <1>7, <1>8, <1>9, <1>10 DEF SeqStepKeeps, LazyInv

\* A Seq that ends releases its locks, and may have stored its sequence.
EndsSeq(g) ==
  /\ Seeking(g) /\ op[g] \in SeqCalls
  /\ CallTypes' /\ Alone(g) /\ Ends(g)
  /\ lazy' \in [LazySeqs -> LazyRecords]
  /\ \A t \in LazySeqs :
       /\ Released(g, t)
       /\ lazy'[t].fn = lazy[t].fn /\ lazy'[t].produced = lazy[t].produced
       /\ lazy'[t].sv = lazy[t].sv
       /\ lazy'[t].seq # lazy[t].seq => In(g, "store") /\ t = op[g].obj /\ lazy'[t].seq = op[g].cur

LEMMA EndsSeqKeeps ==
  ASSUME IInv, NEW g \in G, EndsSeq(g)
  PROVE  SeqStepKeeps(g)
<1>1. ~Seeking(g)' /\ ~Realizing(g)' /\ NoSeq(g)'
  BY EndsHoldsNothing DEF EndsSeq, NoSeq, Seeking, Realizing
<1>2. SeqMtxHeld'
  BY <1>1, SeqMtxReleased DEF EndsSeq, Released
<1>3. RealizeMtxHeld'
  BY <1>1, RealizeMtxReleased DEF EndsSeq, Released
<1>4. SeqPositions'
  <2>1. SeqPosition(g)'
    BY <1>1 DEF SeqPosition, NoSeq, Seeking
  <2>2. \A t \in LazySeqs : /\ lazy'[t].fn => lazy[t].fn
                            /\ lazy[t].fn \/ lazy'[t].sv \in {lazy[t].sv, Nil}
    BY DEF EndsSeq
  <2> QED
    BY <2>1, <2>2, SeqPositionsKept DEF EndsSeq
<1>5. NothingUnrun'
  <2>1. \A t \in LazySeqs : lazy'[t].seq # lazy[t].seq => ~lazy[t].fn
    <3>1. In(g, "store") => ~lazy[op[g].obj].fn
      <4>1. op[g].obj \in LazySeqs
        BY DEF EndsSeq, SeqCalls
      <4>2. In(g, "store") => op[g].cur # op[g].obj /\ Seeking(g)
        BY <4>1 DEF IInv, LazyInv, SeqPositions, Seeking
      <4> QED
        BY <4>2 DEF IInv, LazyInv, SeqPositions
    <3> QED
      BY <3>1 DEF EndsSeq
  <2> QED
    BY <2>1, NothingUnrunKept DEF EndsSeq
<1> QED
  BY <1>2, <1>3, <1>4, <1>5 DEF SeqStepKeeps, EndsSeq, LazyInv

\* A value that Seq has taken is lost.
WithLost(o, how) == [lazy EXCEPT ![o].lost = @ \cup {how}]

LostOnly(o, how, l) ==
  \A t \in LazySeqs :
    /\ l[t].fn = lazy[t].fn /\ l[t].sv = lazy[t].sv /\ l[t].seq = lazy[t].seq
    /\ l[t].produced = lazy[t].produced
    /\ l[t].realizeMtx = lazy[t].realizeMtx /\ l[t].seqMtx = lazy[t].seqMtx
    /\ l[t].lost = IF t = o THEN lazy[t].lost \cup {how} ELSE lazy[t].lost

LEMMA LostFields ==
  ASSUME lazy \in [LazySeqs -> LazyRecords], NEW o \in LazySeqs, NEW how \in {"panic", "race"}
  PROVE  WithLost(o, how) \in [LazySeqs -> LazyRecords] /\ LostOnly(o, how, WithLost(o, how))
<1> DEFINE lost == lazy[o].lost \cup {how}
           r == [lazy[o] EXCEPT !.lost = lost]
           l == WithLost(o, how)
<1>1. l = [lazy EXCEPT ![o] = r] /\ lazy[o] \in LazyRecords
  BY DEF WithLost
<1>2. lost \in SUBSET {"panic", "race"}
  BY <1>1 DEF LazyRecords
<1> HIDE DEF lost, l
<1>3. /\ r \in LazyRecords /\ r.fn = lazy[o].fn /\ r.sv = lazy[o].sv /\ r.seq = lazy[o].seq
      /\ r.produced = lazy[o].produced
      /\ r.realizeMtx = lazy[o].realizeMtx /\ r.seqMtx = lazy[o].seqMtx /\ r.lost = lost
  BY <1>1, <1>2 DEF LazyRecords
<1> HIDE DEF r
<1>4. /\ l \in [LazySeqs -> LazyRecords]
      /\ l[o] = r
      /\ \A t \in LazySeqs \ {o} : l[t] = lazy[t]
  BY <1>1, <1>3
<1> QED
  BY <1>3, <1>4 DEF LostOnly, lost, l

\* A Seq that panics leaves the bodies alone, and may lose the value it has taken.
LEMMA SeqPanics ==
  ASSUME IInv, NEW g \in G, Seeking(g), Panic(g), NEW how \in {"panic", "race"},
         NEW l, l \in {lazy, WithLost(op[g].obj, how)}, lazy' = Unlocked(g, l)
  PROVE  /\ EndsSeq(g) /\ Moves(g)
         /\ \A t \in LazySeqs : lazy'[t].seq = lazy[t].seq /\ lazy'[t].lost = l[t].lost
<1>1. op[g] \in SeqCalls /\ op[g].obj \in LazySeqs
  BY SeqTypes DEF IInv
<1>2. CallTypes' /\ Moves(g) /\ Ends(g)
  BY <1>1, PanicEndsCall DEF IInv, Calling
<1>3. lazy \in [LazySeqs -> LazyRecords]
  BY DEF IInv, LazyInv
<1>4. /\ l \in [LazySeqs -> LazyRecords]
      /\ l = lazy \/ LostOnly(op[g].obj, how, l)
  BY <1>1, <1>3, LostFields
<1>5. lazy' \in [LazySeqs -> LazyRecords] /\ UnlockedBy(g, l, lazy')
  BY <1>4, UnlockedFields
<1>6. \A t \in LazySeqs :
        /\ l[t].fn = lazy[t].fn /\ l[t].sv = lazy[t].sv /\ l[t].seq = lazy[t].seq
        /\ l[t].produced = lazy[t].produced
        /\ l[t].realizeMtx = lazy[t].realizeMtx /\ l[t].seqMtx = lazy[t].seqMtx
  <2>1. CASE l = lazy
    BY <2>1
  <2>2. CASE LostOnly(op[g].obj, how, l)
    BY <2>2 DEF LostOnly
  <2> QED
    BY <1>4, <2>1, <2>2
<1>7. \A t \in LazySeqs :
        /\ lazy'[t].fn = lazy[t].fn /\ lazy'[t].sv = lazy[t].sv /\ lazy'[t].seq = lazy[t].seq
        /\ lazy'[t].produced = lazy[t].produced /\ Released(g, t)
  BY <1>5, <1>6 DEF UnlockedBy, Released
<1>8. \A t \in LazySeqs : lazy'[t].lost = l[t].lost
  BY <1>5 DEF UnlockedBy
<1>9. Alone(g)
  BY <1>2 DEF Moves, Alone
<1>10. lazy' \in [LazySeqs -> LazyRecords]
  BY <1>5
<1> QED
  BY <1>1, <1>2, <1>7, <1>8, <1>9, <1>10 DEF EndsSeq

LEMMA BodyPanicsDoes ==
  ASSUME IInv, NEW g \in G, BodyPanics(g)
  PROVE  /\ In(g, "body") /\ EndsSeq(g) /\ Moves(g)
         /\ \A t \in LazySeqs :
              /\ lazy'[t].seq = lazy[t].seq
              /\ lazy'[t].lost = IF t = op[g].obj /\ op[g].cur # t THEN lazy[t].lost \cup {"panic"}
                                 ELSE lazy[t].lost
<1>1. In(g, "body") /\ Seeking(g) /\ op[g].obj \in LazySeqs /\ lazy \in [LazySeqs -> LazyRecords]
  BY SeqTypes DEF IInv, LazyInv, BodyPanics, Seeking
<1> DEFINE l == Lost(g)
<1>2. l = IF op[g].cur = op[g].obj THEN lazy ELSE WithLost(op[g].obj, "panic")
  BY DEF Lost, WithLost
<1>3. Panic(g) /\ lazy' = Unlocked(g, l)
  BY DEF BodyPanics
<1> HIDE DEF l
<1>4. /\ EndsSeq(g) /\ Moves(g)
      /\ \A t \in LazySeqs : lazy'[t].seq = lazy[t].seq /\ lazy'[t].lost = l[t].lost
  BY <1>1, <1>2, <1>3, SeqPanics
<1>5. CASE op[g].cur = op[g].obj
  BY <1>1, <1>2, <1>4, <1>5
<1>6. CASE op[g].cur # op[g].obj
  <2>1. LostOnly(op[g].obj, "panic", l)
    BY <1>1, <1>2, <1>6, LostFields
  <2>2. \A t \in LazySeqs :
          l[t].lost = IF t = op[g].obj THEN lazy[t].lost \cup {"panic"} ELSE lazy[t].lost
    BY <2>1 DEF LostOnly
  <2> QED
    BY <1>1, <1>4, <1>6, <2>2
<1> QED
  BY <1>5, <1>6

LEMMA TornReadDoes ==
  ASSUME IInv, NEW g \in G, TornRead(g)
  PROVE  /\ In(g, "read") /\ op[g].cur # op[g].obj /\ EndsSeq(g) /\ Moves(g)
         /\ \A t \in LazySeqs :
              /\ lazy'[t].seq = lazy[t].seq
              /\ lazy'[t].lost = IF t = op[g].obj THEN lazy[t].lost \cup {"race"} ELSE lazy[t].lost
<1>1. /\ In(g, "read") /\ Seeking(g) /\ op[g].obj \in LazySeqs /\ lazy \in [LazySeqs -> LazyRecords]
      /\ op[g].cur # op[g].obj
  BY SeqTypes DEF IInv, LazyInv, TornRead, Seeking
<1> DEFINE l == WithLost(op[g].obj, "race")
<1>2. Panic(g) /\ lazy' = Unlocked(g, l) /\ l \in {lazy, l}
  BY DEF TornRead, WithLost
<1>3. LostOnly(op[g].obj, "race", l)
  BY <1>1, LostFields
<1>4. /\ EndsSeq(g) /\ Moves(g)
      /\ \A t \in LazySeqs : lazy'[t].seq = lazy[t].seq /\ lazy'[t].lost = l[t].lost
  BY <1>1, <1>2, SeqPanics
<1> HIDE DEF l
<1>5. \A t \in LazySeqs :
        l[t].lost = IF t = op[g].obj THEN lazy[t].lost \cup {"race"} ELSE lazy[t].lost
  BY <1>3 DEF LostOnly
<1> QED
  BY <1>1, <1>4, <1>5

LEMMA StoreDoes ==
  ASSUME IInv, NEW g \in G, Store(g)
  PROVE  /\ In(g, "store") /\ EndsSeq(g) /\ op[g].obj \in LazySeqs /\ op[g].cur \in Colls \cup {Nil}
         /\ Learns(g, op[g].cur)
         /\ lazy'[op[g].obj].seq = op[g].cur
         /\ \A t \in LazySeqs : SameLost(t) /\ (t # op[g].obj => lazy'[t].seq = lazy[t].seq)
<1> DEFINE s == op[g].obj
           v == op[g].cur
<1>1. In(g, "store") /\ Seeking(g) /\ op[g] \in SeqCalls /\ s \in LazySeqs /\ v \in Colls \cup {Nil}
  <2>1. In(g, "store") /\ Seeking(g)
    BY DEF Store, Seeking
  <2>2. op[g] \in SeqCalls /\ s \in LazySeqs /\ v \in Links
    BY <2>1, SeqTypes DEF IInv
  <2>3. v \notin LazySeqs
    BY <2>1 DEF IInv, LazyInv, SeqPositions
  <2> QED
    BY <2>1, <2>2, <2>3 DEF Links
<1>2. CallTypes' /\ Learns(g, v) /\ Ends(g)
  <2>1. v \in Results /\ op[g] \in Calling
    BY <1>1 DEF Results, Calling
  <2> QED
    BY <2>1, ReturnLearns DEF IInv, Store
<1>3. lazy \in [LazySeqs -> LazyRecords]
  BY DEF IInv, LazyInv
<1> DEFINE l == Unlocked(g, lazy)
           r == [l[s] EXCEPT !.seq = v]
<1>4. lazy' = [l EXCEPT ![s] = r]
  BY DEF Store
<1>5. /\ l \in [LazySeqs -> LazyRecords]
      /\ \A t \in LazySeqs :
           /\ l[t].fn = lazy[t].fn /\ l[t].sv = lazy[t].sv /\ l[t].seq = lazy[t].seq
           /\ l[t].produced = lazy[t].produced /\ l[t].lost = lazy[t].lost
           /\ l[t].realizeMtx = IF lazy[t].realizeMtx = g THEN NoOne ELSE lazy[t].realizeMtx
           /\ l[t].seqMtx = IF lazy[t].seqMtx = g THEN NoOne ELSE lazy[t].seqMtx
  <2>1. l \in [LazySeqs -> LazyRecords] /\ UnlockedBy(g, lazy, l)
    BY <1>3, UnlockedFields
  <2> HIDE DEF l
  <2>2. \A t \in LazySeqs :
          /\ l[t].fn = lazy[t].fn /\ l[t].sv = lazy[t].sv /\ l[t].seq = lazy[t].seq
          /\ l[t].produced = lazy[t].produced /\ l[t].lost = lazy[t].lost
          /\ l[t].realizeMtx = IF lazy[t].realizeMtx = g THEN NoOne ELSE lazy[t].realizeMtx
          /\ l[t].seqMtx = IF lazy[t].seqMtx = g THEN NoOne ELSE lazy[t].seqMtx
    BY <2>1 DEF UnlockedBy
  <2> QED
    BY <2>1, <2>2
<1> HIDE DEF l
<1>6. /\ r \in LazyRecords /\ r.fn = l[s].fn /\ r.sv = l[s].sv /\ r.seq = v
      /\ r.produced = l[s].produced /\ r.lost = l[s].lost
      /\ r.realizeMtx = l[s].realizeMtx /\ r.seqMtx = l[s].seqMtx
  BY <1>1, <1>5 DEF LazyRecords
<1> HIDE DEF r, s
<1>7. /\ lazy' \in [LazySeqs -> LazyRecords]
      /\ lazy'[s] = r
      /\ \A t \in LazySeqs : t # s => lazy'[t] = l[t]
  BY <1>1, <1>4, <1>5, <1>6
<1>8. \A t \in LazySeqs :
        /\ lazy'[t].fn = lazy[t].fn /\ lazy'[t].sv = lazy[t].sv
        /\ lazy'[t].produced = lazy[t].produced /\ lazy'[t].lost = lazy[t].lost
        /\ Released(g, t)
        /\ lazy'[t].seq = IF t = s THEN v ELSE lazy[t].seq
  <2>1. ASSUME NEW t \in LazySeqs, t = s
        PROVE  /\ lazy'[t].fn = lazy[t].fn /\ lazy'[t].sv = lazy[t].sv
               /\ lazy'[t].produced = lazy[t].produced /\ lazy'[t].lost = lazy[t].lost
               /\ Released(g, t) /\ lazy'[t].seq = v
    BY <1>5, <1>6, <1>7, <2>1 DEF Released
  <2>2. ASSUME NEW t \in LazySeqs, t # s
        PROVE  /\ lazy'[t].fn = lazy[t].fn /\ lazy'[t].sv = lazy[t].sv
               /\ lazy'[t].produced = lazy[t].produced /\ lazy'[t].lost = lazy[t].lost
               /\ Released(g, t) /\ lazy'[t].seq = lazy[t].seq
    BY <1>5, <1>7, <2>2 DEF Released
  <2> QED
    BY <2>1, <2>2
<1> QED
  BY <1>1, <1>2, <1>7, <1>8 DEF EndsSeq, Learns, Alone, SameLost, s

LEMMA FollowDoes ==
  ASSUME CallTypes, NEW g \in G, op[g] \in SeqCalls, NEW v \in Links, Follow(g, v)
  PROVE  /\ CallTypes' /\ Moves(g)
         /\ GoesOn(g, IF v \in LazySeqs THEN "realizeMtx" ELSE "store", v)
<1> DEFINE at == IF v \in LazySeqs THEN "realizeMtx" ELSE "store"
           a == [op[g] EXCEPT !.at = at]
           o == [a EXCEPT !.cur = v]
<1>1. at \in {"realizeMtx", "store"}
  OBVIOUS
<1>2. op' = [op EXCEPT ![g] = [op[g] EXCEPT !.at = at, !.cur = v]] /\ got' = got
  BY DEF Follow, CallTypes
<1> HIDE DEF at
<1>3. a \in SeqCalls /\ a.at = at /\ a.obj = op[g].obj /\ a.cur = op[g].cur
  BY <1>1 DEF SeqCalls
<1>4. op' = [op EXCEPT ![g] = o]
  BY <1>2 DEF SeqCalls
<1> HIDE DEF a
<1>5. o \in SeqCalls /\ o.at = at /\ o.obj = op[g].obj /\ o.cur = v
  BY <1>3 DEF SeqCalls
<1> HIDE DEF o
<1>6. op'[g] = o /\ o \in Calling
  BY <1>4, <1>5 DEF CallTypes, Calling
<1>7. CallTypes' /\ Moves(g)
  BY <1>2, <1>4, <1>6 DEF CallTypes, Moves
<1> QED
  BY <1>5, <1>6, <1>7 DEF GoesOn, at

\* g looks at its lazy sequence, with the lock on it.
LEMMA TakePosition ==
  ASSUME IInv, NEW g \in G, In(g, "take")
  PROVE  /\ Seeking(g) /\ op[g] \in SeqCalls /\ op[g].obj \in LazySeqs /\ op[g].cur = op[g].obj
         /\ lazy \in [LazySeqs -> LazyRecords] /\ ~lazy[op[g].obj].fn
<1>1. Seeking(g)
  BY DEF Seeking
<1> QED
  BY <1>1, SeqTypes DEF IInv, LazyInv, SeqPositions

\* It returns the sequence that is stored there ...
LEMMA TakeNothingDoes ==
  ASSUME IInv, NEW g \in G, Take(g), lazy[op[g].obj].sv = Nil
  PROVE  /\ EndsSeq(g) /\ Learns(g, lazy[op[g].obj].seq)
         /\ \A t \in LazySeqs : SameLost(t) /\ lazy'[t].seq = lazy[t].seq
<1>1. In(g, "take") /\ lazy' = Unlocked(g, lazy) /\ Return(g, lazy[op[g].obj].seq)
  BY DEF Take
<1>2. /\ Seeking(g) /\ op[g] \in SeqCalls /\ op[g].obj \in LazySeqs
      /\ lazy \in [LazySeqs -> LazyRecords]
  BY <1>1, TakePosition
<1>3. lazy[op[g].obj].seq \in Results
  BY <1>2 DEF LazyRecords, Results
<1>4. CallTypes' /\ Learns(g, lazy[op[g].obj].seq) /\ Ends(g)
  BY <1>1, <1>2, <1>3, ReturnLearns DEF IInv, Calling
<1>5. lazy' \in [LazySeqs -> LazyRecords] /\ UnlockedBy(g, lazy, lazy')
  BY <1>1, <1>2, UnlockedFields
<1>6. \A t \in LazySeqs :
        /\ lazy'[t].fn = lazy[t].fn /\ lazy'[t].sv = lazy[t].sv /\ lazy'[t].seq = lazy[t].seq
        /\ lazy'[t].produced = lazy[t].produced /\ Released(g, t) /\ SameLost(t)
  BY <1>5 DEF UnlockedBy, Released, SameLost
<1> QED
  BY <1>2, <1>4, <1>5, <1>6 DEF EndsSeq, Learns, Alone

\* ... or takes the value.
LEMMA TakeDoes ==
  ASSUME IInv, NEW g \in G, Take(g), lazy[op[g].obj].sv # Nil
  PROVE  /\ In(g, "take") /\ op[g].obj \in LazySeqs /\ op[g] \in SeqCalls /\ op[g].cur = op[g].obj
         /\ ~lazy[op[g].obj].fn
         /\ CallTypes' /\ Moves(g)
         /\ GoesOn(g, IF lazy[op[g].obj].sv \in LazySeqs THEN "realizeMtx" ELSE "store",
                   lazy[op[g].obj].sv)
         /\ lazy' \in [LazySeqs -> LazyRecords]
         /\ \A t \in LazySeqs :
              /\ SameLocks(t) /\ SameLost(t)
              /\ lazy'[t].fn = lazy[t].fn /\ lazy'[t].produced = lazy[t].produced
              /\ lazy'[t].seq = lazy[t].seq
              /\ lazy'[t].sv = IF t = op[g].obj THEN Nil ELSE lazy[t].sv
<1> DEFINE s == op[g].obj
           v == lazy[s].sv
<1>1. In(g, "take") /\ lazy' = [lazy EXCEPT ![s].sv = Nil] /\ Follow(g, v)
  BY DEF Take
<1>2. /\ op[g] \in SeqCalls /\ s \in LazySeqs /\ op[g].cur = s /\ ~lazy[s].fn
      /\ lazy \in [LazySeqs -> LazyRecords]
  BY <1>1, TakePosition
<1>3. v \in Links
  BY <1>2 DEF LazyRecords
<1>4. CallTypes' /\ Moves(g) /\ GoesOn(g, IF v \in LazySeqs THEN "realizeMtx" ELSE "store", v)
  BY <1>1, <1>2, <1>3, FollowDoes DEF IInv
<1> DEFINE r == [lazy[s] EXCEPT !.sv = Nil]
<1>5. lazy' = [lazy EXCEPT ![s] = r] /\ lazy[s] \in LazyRecords
  BY <1>1, <1>2
<1>6. /\ r \in LazyRecords /\ r.fn = lazy[s].fn /\ r.sv = Nil /\ r.seq = lazy[s].seq
      /\ r.produced = lazy[s].produced /\ r.lost = lazy[s].lost
      /\ r.realizeMtx = lazy[s].realizeMtx /\ r.seqMtx = lazy[s].seqMtx
  BY <1>5 DEF LazyRecords, Links
<1> HIDE DEF s, r
<1>7. /\ lazy' \in [LazySeqs -> LazyRecords] /\ lazy'[s] = r
      /\ \A t \in LazySeqs \ {s} : lazy'[t] = lazy[t]
  BY <1>2, <1>5, <1>6
<1>8. \A t \in LazySeqs :
        /\ SameLocks(t) /\ SameLost(t)
        /\ lazy'[t].fn = lazy[t].fn /\ lazy'[t].produced = lazy[t].produced
        /\ lazy'[t].seq = lazy[t].seq
        /\ lazy'[t].sv = IF t = s THEN Nil ELSE lazy[t].sv
  BY <1>6, <1>7 DEF SameLocks, SameLost
<1>9. lazy' \in [LazySeqs -> LazyRecords]
  BY <1>7
<1> QED
  BY <1>1, <1>2, <1>4, <1>8, <1>9 DEF s

\* Where g is when it goes on.
LEMMA NextSeqPosition ==
  ASSUME NEW g \in G, NEW at, NEW c, GoesOn(g, at, c), op[g].obj \in LazySeqs,
         at \in {"realizeMtx", "body", "read", "take"} => c \in LazySeqs,
         at = "seqMtx" \/ at = "take" => c = op[g].obj,
         at = "store" => c \notin LazySeqs,
         at = "take" \/ c # op[g].obj => ~lazy'[op[g].obj].fn,
         c # op[g].obj => lazy'[op[g].obj].sv = Nil
  PROVE  SeqPosition(g)'
BY DEF GoesOn, SeqPosition, In, InCall

LEMMA TakeKeeps ==
  ASSUME IInv, NEW g \in G, Take(g)
  PROVE  SeqStepKeeps(g)
<1> DEFINE s == op[g].obj
           v == lazy[s].sv
           at == IF v \in LazySeqs THEN "realizeMtx" ELSE "store"
<1>1. CASE v = Nil
  BY <1>1, TakeNothingDoes, EndsSeqKeeps
<1>2. CASE v # Nil
  <2>1. In(g, "take") /\ s \in LazySeqs /\ op[g] \in SeqCalls /\ op[g].cur = s /\ ~lazy[s].fn
    BY <1>2, TakeDoes
  <2>2. CallTypes' /\ Alone(g) /\ GoesOn(g, at, v) /\ lazy' \in [LazySeqs -> LazyRecords]
    BY <1>2, TakeDoes DEF Moves, Alone
  <2>3. \A t \in LazySeqs :
          /\ SameLocks(t) /\ lazy'[t].fn = lazy[t].fn /\ lazy'[t].produced = lazy[t].produced
          /\ lazy'[t].seq = lazy[t].seq
          /\ lazy'[t].sv = IF t = s THEN Nil ELSE lazy[t].sv
    BY <1>2, TakeDoes
  <2>4. at \in {"realizeMtx", "store"} /\ (at = "store" <=> v \notin LazySeqs)
    OBVIOUS
  <2> HIDE DEF s, v, at
  <2>5. Seeking(g) /\ Seeking(g)' /\ ~Realizing(g)'
    BY <2>1, <2>2, <2>4 DEF Seeking, Realizing, In, InCall, GoesOn, SeqCalls
  <2>6. SeqMtxHeld'
    BY <2>2, <2>3, <2>5, SeqMtxKept DEF GoesOn, SameLocks
  <2>7. RealizeMtxHeld'
    <3>1. \A t \in LazySeqs : lazy[t].realizeMtx # g
      BY <2>1, CallsAssumption DEF IInv, LazyInv, RealizeMtxHeld, In, InCall
    <3> QED
      BY <2>2, <2>3, <2>5, <3>1, RealizeMtxReleased DEF SameLocks
  <2>8. SeqPositions'
    <3>1. ~lazy'[s].fn /\ lazy'[s].sv = Nil
      BY <2>1, <2>3
    <3>2. SeqPosition(g)'
      BY <2>1, <2>2, <2>4, <3>1, NextSeqPosition DEF s
    <3> QED
      BY <2>2, <2>3, <3>2, SeqPositionsKept
  <2>9. NothingUnrun'
    BY <2>3, NothingUnrunKept
  <2> QED
    BY <2>2, <2>6, <2>7, <2>8, <2>9 DEF SeqStepKeeps, LazyInv, GoesOn
<1> QED
  BY <1>1, <1>2

\* realize gives its lock back.
OutOfRealize(s) == [lazy EXCEPT ![s].realizeMtx = NoOne]

OnlyUnlocked(s, l) ==
  \A t \in LazySeqs :
    /\ l[t].fn = lazy[t].fn /\ l[t].sv = lazy[t].sv /\ l[t].seq = lazy[t].seq
    /\ l[t].produced = lazy[t].produced /\ l[t].lost = lazy[t].lost
    /\ l[t].seqMtx = lazy[t].seqMtx
    /\ l[t].realizeMtx = IF t = s THEN NoOne ELSE lazy[t].realizeMtx

LEMMA OutOfRealizeFields ==
  ASSUME lazy \in [LazySeqs -> LazyRecords], NEW s \in LazySeqs
  PROVE  OutOfRealize(s) \in [LazySeqs -> LazyRecords] /\ OnlyUnlocked(s, OutOfRealize(s))
<1> DEFINE r == [lazy[s] EXCEPT !.realizeMtx = NoOne]
           l == OutOfRealize(s)
<1>1. l = [lazy EXCEPT ![s] = r] /\ lazy[s] \in LazyRecords
  BY DEF OutOfRealize
<1> HIDE DEF l
<1>2. /\ r \in LazyRecords /\ r.fn = lazy[s].fn /\ r.sv = lazy[s].sv /\ r.seq = lazy[s].seq
      /\ r.produced = lazy[s].produced /\ r.lost = lazy[s].lost
      /\ r.realizeMtx = NoOne /\ r.seqMtx = lazy[s].seqMtx
  BY <1>1 DEF LazyRecords
<1> HIDE DEF r
<1>3. /\ l \in [LazySeqs -> LazyRecords]
      /\ l[s] = r
      /\ \A t \in LazySeqs \ {s} : l[t] = lazy[t]
  BY <1>1, <1>2
<1>4. OnlyUnlocked(s, l)
  BY <1>2, <1>3 DEF OnlyUnlocked
<1> QED
  BY <1>3, <1>4 DEF l

\* What Seq takes for the value of cur is what it had when it was settled, unless it races.
Races(g) == lazy[op[g].cur].sv = Nil /\ Taken(op[g].cur)

LEMMA ReadPosition ==
  ASSUME IInv, NEW g \in G, In(g, "read")
  PROVE  /\ Seeking(g) /\ op[g] \in SeqCalls /\ op[g].obj \in LazySeqs /\ op[g].cur \in LazySeqs
         /\ lazy \in [LazySeqs -> LazyRecords] /\ ~lazy[op[g].cur].fn
         /\ \A t \in LazySeqs : lazy[t].realizeMtx = g <=> t = op[g].cur
<1>1. Seeking(g)
  BY DEF Seeking
<1>2. \A t \in LazySeqs : lazy[t].realizeMtx = g => t = op[g].cur
  BY CallsAssumption DEF IInv, LazyInv, RealizeMtxHeld
<1>3. ~lazy[op[g].cur].fn /\ lazy[op[g].cur].realizeMtx = g
  BY DEF IInv, LazyInv, RealizeMtxHeld
<1> QED
  BY <1>1, <1>2, <1>3, SeqTypes DEF IInv, LazyInv, SeqPositions

\* What realize leaves when it ends.
LeavesRealize(g) ==
  \A t \in LazySeqs :
    /\ SameBody(t) /\ lazy'[t].seqMtx = lazy[t].seqMtx
    /\ lazy'[t].realizeMtx = IF lazy[t].realizeMtx = g THEN NoOne ELSE lazy[t].realizeMtx

LEMMA ReadOwnDoes ==
  ASSUME IInv, NEW g \in G, ReadValue(g), op[g].cur = op[g].obj
  PROVE  /\ In(g, "read") /\ CallTypes' /\ Moves(g) /\ GoesOn(g, "take", op[g].obj)
         /\ lazy' \in [LazySeqs -> LazyRecords] /\ LeavesRealize(g)
         /\ \A t \in LazySeqs : SameLost(t)
<1> DEFINE s == op[g].cur
<1>1. In(g, "read") /\ lazy' = OutOfRealize(s) /\ Goto(g, "take")
  BY DEF ReadValue, OutOfRealize
<1>2. CallTypes' /\ Moves(g) /\ GoesOn(g, "take", op[g].obj)
  BY <1>1, ReadPosition, GotoKeepsSeq DEF IInv, GoesOn
<1>3. lazy' \in [LazySeqs -> LazyRecords] /\ OnlyUnlocked(s, lazy')
  BY <1>1, ReadPosition, OutOfRealizeFields
<1>4. \A t \in LazySeqs : lazy[t].realizeMtx = g <=> t = s
  BY <1>1, ReadPosition
<1> HIDE DEF s
<1>5. LeavesRealize(g)
  BY <1>3, <1>4 DEF OnlyUnlocked, LeavesRealize, SameBody
<1>6. \A t \in LazySeqs : SameLost(t)
  BY <1>3 DEF OnlyUnlocked, SameLost
<1> QED
  BY <1>1, <1>2, <1>3, <1>5, <1>6

LEMMA ReadInnerDoes ==
  ASSUME IInv, NEW g \in G, ReadValue(g), op[g].cur # op[g].obj
  PROVE  /\ In(g, "read") /\ CallTypes' /\ Moves(g) /\ Value(op[g].cur) \in Links
         /\ GoesOn(g, IF Value(op[g].cur) \in LazySeqs THEN "realizeMtx" ELSE "store",
                   Value(op[g].cur))
         /\ lazy' \in [LazySeqs -> LazyRecords] /\ LeavesRealize(g)
         /\ \A t \in LazySeqs :
              lazy'[t].lost = IF t = op[g].obj /\ Races(g) THEN lazy[t].lost \cup {"race"}
                              ELSE lazy[t].lost
<1> DEFINE s == op[g].cur
           o == op[g].obj
           v == Value(s)
           u == OutOfRealize(s)
           lost == IF Races(g) THEN u[o].lost \cup {"race"} ELSE u[o].lost
           r == [u[o] EXCEPT !.lost = lost]
<1>1. In(g, "read") /\ Follow(g, v) /\ lazy' = [u EXCEPT ![o] = r]
  BY DEF ReadValue, OutOfRealize, Races
<1>2. /\ op[g] \in SeqCalls /\ s \in LazySeqs /\ o \in LazySeqs /\ lazy \in [LazySeqs -> LazyRecords]
      /\ \A t \in LazySeqs : lazy[t].realizeMtx = g <=> t = s
  BY <1>1, ReadPosition
<1>3. v \in Links
  BY <1>2 DEF Value, LazyRecords, Links
<1>4. CallTypes' /\ Moves(g) /\ GoesOn(g, IF v \in LazySeqs THEN "realizeMtx" ELSE "store", v)
  BY <1>1, <1>2, <1>3, FollowDoes DEF IInv
<1>5. u \in [LazySeqs -> LazyRecords] /\ OnlyUnlocked(s, u)
  BY <1>2, OutOfRealizeFields
<1> HIDE DEF u, s, o, v
<1>6. u[o] \in LazyRecords /\ lost \in SUBSET {"panic", "race"}
  BY <1>2, <1>5 DEF LazyRecords
<1> HIDE DEF lost
<1>7. /\ r \in LazyRecords /\ r.fn = u[o].fn /\ r.sv = u[o].sv /\ r.seq = u[o].seq
      /\ r.produced = u[o].produced /\ r.lost = lost
      /\ r.realizeMtx = u[o].realizeMtx /\ r.seqMtx = u[o].seqMtx
  BY <1>6 DEF LazyRecords
<1> HIDE DEF r
<1>8. /\ lazy' \in [LazySeqs -> LazyRecords] /\ lazy'[o] = r
      /\ \A t \in LazySeqs \ {o} : lazy'[t] = u[t]
  BY <1>1, <1>2, <1>5, <1>7
<1>9. \A t \in LazySeqs :
        /\ lazy'[t].fn = u[t].fn /\ lazy'[t].sv = u[t].sv /\ lazy'[t].seq = u[t].seq
        /\ lazy'[t].produced = u[t].produced
        /\ lazy'[t].realizeMtx = u[t].realizeMtx /\ lazy'[t].seqMtx = u[t].seqMtx
        /\ lazy'[t].lost = IF t = o THEN lost ELSE u[t].lost
  BY <1>7, <1>8
<1>10. LeavesRealize(g)
  BY <1>2, <1>5, <1>9 DEF OnlyUnlocked, LeavesRealize, SameBody
<1>11. \A t \in LazySeqs :
         lazy'[t].lost = IF t = o /\ Races(g) THEN lazy[t].lost \cup {"race"} ELSE lazy[t].lost
  <2>1. \A t \in LazySeqs : u[t].lost = lazy[t].lost
    BY <1>5 DEF OnlyUnlocked
  <2>2. u[o].lost = lazy[o].lost
    BY <1>2, <2>1
  <2>3. lost = IF Races(g) THEN lazy[o].lost \cup {"race"} ELSE lazy[o].lost
    BY <2>2 DEF lost
  <2>4. CASE Races(g)
    BY <1>9, <2>1, <2>3, <2>4
  <2>5. CASE ~Races(g)
    BY <1>9, <2>1, <2>3, <2>5
  <2> QED
    BY <2>4, <2>5
<1> QED
  BY <1>1, <1>3, <1>4, <1>8, <1>10, <1>11 DEF s, o, v

LEMMA ReadValueKeeps ==
  ASSUME IInv, NEW g \in G, ReadValue(g)
  PROVE  SeqStepKeeps(g)
<1> DEFINE s == op[g].cur
           o == op[g].obj
           v == Value(s)
<1>1. PICK at, c : /\ GoesOn(g, at, c) /\ at \in {"take", "realizeMtx", "store"}
                   /\ at = "take" => c = o /\ s = o
                   /\ at # "take" => s # o
                   /\ at = "realizeMtx" => c \in LazySeqs
                   /\ at = "store" => c \notin LazySeqs
  <2>1. CASE s = o
    BY <2>1, ReadOwnDoes
  <2>2. CASE s # o
    <3>1. GoesOn(g, IF v \in LazySeqs THEN "realizeMtx" ELSE "store", v)
      BY <2>2, ReadInnerDoes
    <3> HIDE DEF s, o, v
    <3>2. CASE v \in LazySeqs
      BY <2>2, <3>1, <3>2
    <3>3. CASE v \notin LazySeqs
      BY <2>2, <3>1, <3>3
    <3> QED
      BY <3>2, <3>3
  <2> QED
    BY <2>1, <2>2
<1>2. /\ In(g, "read") /\ CallTypes' /\ Alone(g)
      /\ lazy' \in [LazySeqs -> LazyRecords] /\ LeavesRealize(g)
  BY ReadOwnDoes, ReadInnerDoes DEF Moves, Alone
<1>3. /\ Seeking(g) /\ op[g] \in SeqCalls /\ o \in LazySeqs /\ s \in LazySeqs
      /\ lazy \in [LazySeqs -> LazyRecords] /\ ~lazy[s].fn
  BY <1>2, ReadPosition
<1>4. Seeking(g)' /\ ~Realizing(g)'
  BY <1>1 DEF Seeking, Realizing, In, InCall, GoesOn, SeqCalls
<1>5. \A t \in LazySeqs :
        /\ lazy'[t].fn = lazy[t].fn /\ lazy'[t].sv = lazy[t].sv /\ lazy'[t].seq = lazy[t].seq
        /\ lazy'[t].produced = lazy[t].produced /\ lazy'[t].seqMtx = lazy[t].seqMtx
        /\ lazy'[t].realizeMtx = IF lazy[t].realizeMtx = g THEN NoOne ELSE lazy[t].realizeMtx
  BY <1>2 DEF LeavesRealize, SameBody
<1>6. SeqMtxHeld'
  BY <1>1, <1>2, <1>3, <1>4, <1>5, SeqMtxKept DEF GoesOn
<1>7. RealizeMtxHeld'
  BY <1>2, <1>4, <1>5, RealizeMtxReleased
<1>8. SeqPositions'
  <2>1. s # o => ~lazy[o].fn /\ lazy[o].sv = Nil
    BY <1>3 DEF IInv, LazyInv, SeqPositions
  <2>2. ~lazy'[o].fn /\ (s # o => lazy'[o].sv = Nil)
    BY <1>3, <1>5, <2>1
  <2> HIDE DEF s, v
  <2>3. SeqPosition(g)'
    BY <1>1, <1>3, <2>2, NextSeqPosition
  <2> QED
    BY <1>2, <1>5, <2>3, SeqPositionsKept
<1>9. NothingUnrun'
  BY <1>5, NothingUnrunKept
<1> QED
  BY <1>1, <1>2, <1>6, <1>7, <1>8, <1>9 DEF SeqStepKeeps, LazyInv, GoesOn

LEMMA LazySeqStepKeeps ==
  ASSUME IInv, NEW g \in G, LazySeqStep(g)
  PROVE  SeqStepKeeps(g) /\ op[g] \in SeqCalls
<1>1. CASE LockSeq(g) BY <1>1, LockSeqKeeps, LockSeqDoes
<1>2. CASE Realize(g) BY <1>2, RealizeKeeps, RealizeDoes
<1>3. CASE BodyReturns(g) BY <1>3, BodyReturnsKeeps, BodyReturnsDoes
<1>4. CASE BodyPanics(g) BY <1>4, BodyPanicsDoes, EndsSeqKeeps DEF EndsSeq
<1>5. CASE ReadValue(g)
  <2>1. In(g, "read")
    BY <1>5 DEF ReadValue
  <2> QED
    BY <1>5, <2>1, ReadValueKeeps, ReadPosition
<1>6. CASE TornRead(g) BY <1>6, TornReadDoes, EndsSeqKeeps DEF EndsSeq
<1>7. CASE Take(g)
  <2>1. In(g, "take")
    BY <1>7 DEF Take
  <2> QED
    BY <1>7, <2>1, TakeKeeps, TakePosition
<1>8. CASE Store(g) BY <1>8, StoreDoes, EndsSeqKeeps DEF EndsSeq
<1> QED
  BY <1>1, <1>2, <1>3, <1>4, <1>5, <1>6, <1>7, <1>8 DEF LazySeqStep

-----------------------------------------------------------------------------
(* Mapped sequences.                                                       *)

MappedRecords == [once : G \cup {NoOne, OnceDone}, value : MappedValues \cup {Nil}]

\* The mapped sequence of g's call gets the fields r, the others stay.
MappedBecomes(g, once, value) ==
  /\ mapped' \in [MappedSeqs -> MappedRecords]
  /\ mapped'[op[g].obj].once = once /\ mapped'[op[g].obj].value = value
  /\ \A m \in MappedSeqs \ {op[g].obj} : mapped'[m] = mapped[m]

LEMMA MappedSet ==
  ASSUME MappedInv, NEW g \in G, op[g].obj \in MappedSeqs,
         NEW once \in G \cup {NoOne, OnceDone}, NEW value \in MappedValues \cup {Nil},
         NEW r, r = [once |-> once, value |-> value], mapped' = [mapped EXCEPT ![op[g].obj] = r]
  PROVE  MappedBecomes(g, once, value)
<1>1. r \in MappedRecords /\ r.once = once /\ r.value = value
  BY DEF MappedRecords
<1>2. mapped \in [MappedSeqs -> MappedRecords]
  BY DEF MappedInv, MappedRecords
<1>3. mapped'[op[g].obj] = r /\ mapped' \in [MappedSeqs -> MappedRecords]
  BY <1>1, <1>2
<1> QED
  BY <1>1, <1>2, <1>3 DEF MappedBecomes

LEMMA MapTypes ==
  ASSUME IInv, NEW g \in G, Mapping(g, "once") \/ Mapping(g, "apply")
  PROVE  /\ op[g] \in MapCalls /\ op[g] \in Calling /\ op[g].obj \in MappedSeqs
         /\ mapped[op[g].obj] \in MappedRecords
<1>1. op[g] \in MapCalls
  BY KindOf DEF IInv
<1>2. op[g].obj \in MappedSeqs
  BY <1>1 DEF MapCalls
<1>3. op[g] \in Calling
  BY <1>1 DEF Calling
<1> QED
  BY <1>1, <1>2, <1>3 DEF IInv, MappedInv, MappedRecords

LEMMA EnterValueOnceDoes ==
  ASSUME IInv, NEW g \in G, EnterValueOnce(g)
  PROVE  /\ CallTypes' /\ Moves(g) /\ op[g] \in MapCalls
         /\ op'[g] \in MapCalls /\ op'[g].at = "apply" /\ op'[g].obj = op[g].obj
         /\ mapped[op[g].obj].once = NoOne
         /\ MappedBecomes(g, g, mapped[op[g].obj].value)
<1> DEFINE m == op[g].obj
<1>1. /\ Mapping(g, "once") /\ mapped[m].once = NoOne /\ Goto(g, "apply")
      /\ mapped' = [mapped EXCEPT ![m].once = g]
  BY DEF EnterValueOnce
<1>2. op[g] \in MapCalls /\ m \in MappedSeqs /\ mapped[m] \in MappedRecords
  BY <1>1, MapTypes
<1>3. /\ CallTypes' /\ Moves(g) /\ op'[g] \in MapCalls
      /\ op'[g].at = "apply" /\ op'[g].obj = m
  BY <1>1, <1>2, GotoKeepsMap DEF IInv
<1>4. [mapped[m] EXCEPT !.once = g] = [once |-> g, value |-> mapped[m].value]
  BY <1>2 DEF MappedRecords
<1>5. mapped[m].value \in MappedValues \cup {Nil}
  BY <1>2 DEF MappedRecords
<1>6. mapped' = [mapped EXCEPT ![m] = [once |-> g, value |-> mapped[m].value]]
  <2>1. mapped' = [mapped EXCEPT ![m] = [mapped[m] EXCEPT !.once = g]]
    BY <1>1, <1>2 DEF IInv, MappedInv
  <2> QED
    BY <1>4, <2>1
<1>7. MappedBecomes(g, g, mapped[m].value)
  BY <1>2, <1>5, <1>6, MappedSet DEF IInv
<1> QED
  BY <1>1, <1>2, <1>3, <1>7

\* What the end of the function of map leaves.
Applied(g) ==
  /\ Mapping(g, "apply") /\ op[g] \in MapCalls /\ Alone(g) /\ got' = got /\ CallTypes'
  /\ \E v \in MappedValues \cup {Nil} : MappedBecomes(g, OnceDone, v)

LEMMA FunctionReturnsDoes ==
  ASSUME IInv, NEW g \in G, FunctionReturns(g)
  PROVE  Applied(g) /\ op'[g] \in MapCalls /\ op'[g].at = "once"
<1>1. Mapping(g, "apply") /\ Goto(g, "once")
  BY DEF FunctionReturns
<1>2. PICK v \in MappedValues : mapped' = [mapped EXCEPT ![op[g].obj] = [once |-> OnceDone, value |-> v]]
  BY DEF FunctionReturns
<1>3. op[g] \in MapCalls /\ op[g].obj \in MappedSeqs
  BY <1>1, MapTypes
<1>4. CallTypes' /\ Moves(g) /\ op'[g] \in MapCalls /\ op'[g].at = "once"
  BY <1>1, <1>3, GotoKeepsMap DEF IInv
<1>5. MappedBecomes(g, OnceDone, v)
  BY <1>2, <1>3, MappedSet DEF IInv
<1> QED
  BY <1>1, <1>3, <1>4, <1>5 DEF Applied, Moves, Alone

LEMMA FunctionPanicsDoes ==
  ASSUME IInv, NEW g \in G, FunctionPanics(g)
  PROVE  Applied(g) /\ Ends(g)
<1> DEFINE m == op[g].obj
<1>1. Mapping(g, "apply") /\ Panic(g) /\ mapped' = [mapped EXCEPT ![m].once = OnceDone]
  BY DEF FunctionPanics
<1>2. op[g] \in MapCalls /\ op[g] \in Calling /\ m \in MappedSeqs /\ mapped[m] \in MappedRecords
  BY <1>1, MapTypes
<1>3. CallTypes' /\ Moves(g) /\ Ends(g)
  BY <1>1, <1>2, PanicEndsCall DEF IInv
<1>4. [mapped[m] EXCEPT !.once = OnceDone] = [once |-> OnceDone, value |-> mapped[m].value]
  BY <1>2 DEF MappedRecords
<1>5. mapped[m].value \in MappedValues \cup {Nil}
  BY <1>2 DEF MappedRecords
<1>6. mapped' = [mapped EXCEPT ![m] = [once |-> OnceDone, value |-> mapped[m].value]]
  <2>1. mapped' = [mapped EXCEPT ![m] = [mapped[m] EXCEPT !.once = OnceDone]]
    BY <1>1, <1>2 DEF IInv, MappedInv
  <2> QED
    BY <1>4, <2>1
<1>7. MappedBecomes(g, OnceDone, mapped[m].value)
  BY <1>2, <1>5, <1>6, MappedSet DEF IInv
<1> QED
  BY <1>1, <1>2, <1>3, <1>5, <1>7 DEF Applied, Moves, Alone

LEMMA MappedResultDoes ==
  ASSUME IInv, NEW g \in G, MappedResult(g)
  PROVE  /\ CallTypes' /\ op[g] \in MapCalls /\ Ends(g) /\ mapped' = mapped
         /\ Mapping(g, "once") /\ mapped[op[g].obj].once = OnceDone
         /\ mapped[op[g].obj].value \in MappedValues \cup {Nil}
         /\ Learns(g, mapped[op[g].obj].value)
<1>1. /\ Mapping(g, "once") /\ mapped[op[g].obj].once = OnceDone /\ mapped' = mapped
      /\ Return(g, mapped[op[g].obj].value)
  BY DEF MappedResult
<1>2. op[g] \in MapCalls /\ op[g] \in Calling /\ mapped[op[g].obj] \in MappedRecords
  BY <1>1, MapTypes
<1>3. mapped[op[g].obj].value \in MappedValues \cup {Nil}
  BY <1>2 DEF MappedRecords
<1>4. mapped[op[g].obj].value \in Results
  BY <1>3 DEF Results
<1> QED
  BY <1>1, <1>2, <1>3, <1>4, ReturnLearns DEF IInv

\* What a step of a call on a mapped sequence keeps.
MapStepKeeps(g) ==
  /\ CallTypes' /\ MappedInv' /\ Alone(g) /\ op[g] \in MapCalls /\ (op'[g] \in MapCalls \/ Ends(g))

LEMMA AppliedKeeps ==
  ASSUME IInv, NEW g \in G, Applied(g), NoMap(g)'
  PROVE  MappedInv'
<1> DEFINE m == op[g].obj
<1>1. PICK v \in MappedValues \cup {Nil} : MappedBecomes(g, OnceDone, v)
  BY DEF Applied
<1>2. Mapping(g, "apply") /\ m \in MappedSeqs /\ mapped[m].once = g
  BY DEF Applied, MapCalls, IInv, MappedInv
<1>3. \A h \in G : Mapping(h, "apply")' => h # g /\ Mapping(h, "apply") /\ op'[h] = op[h]
  BY DEF Applied, Alone, NoMap, Mapping, InCall
<1>4. \A h \in G : Mapping(h, "apply")' => mapped'[op'[h].obj].once = h
  <2>1. SUFFICES ASSUME NEW h \in G, Mapping(h, "apply")'
                 PROVE  mapped'[op'[h].obj].once = h
    OBVIOUS
  <2>2. h # g /\ Mapping(h, "apply") /\ op'[h] = op[h]
    BY <1>3, <2>1
  <2>3. mapped[op[h].obj].once = h /\ op[h].obj \in MappedSeqs /\ op[h].obj # m
    BY <1>2, <2>2, MapTypes DEF IInv, MappedInv
  <2> QED
    BY <1>1, <2>2, <2>3 DEF MappedBecomes
<1>5. ASSUME NEW n \in MappedSeqs
      PROVE  /\ mapped'[n].once \in G => (Mapping(mapped[n].once, "apply") /\ op[mapped[n].once].obj = n)'
             /\ mapped'[n].once # OnceDone => mapped'[n].value = Nil
  <2>1. CASE n = m
    BY <1>1, <2>1, DeferredAssumption DEF MappedBecomes
  <2>2. CASE n # m
    <3>1. mapped'[n] = mapped[n]
      BY <1>1, <2>2 DEF MappedBecomes
    <3>2. mapped[n].once \in G => /\ mapped[n].once # g
                                  /\ Mapping(mapped[n].once, "apply") /\ op[mapped[n].once].obj = n
      BY <2>2 DEF IInv, MappedInv
    <3>3. mapped[n].once \in G => op'[mapped[n].once] = op[mapped[n].once]
      BY <3>2 DEF Applied, Alone
    <3> QED
      BY <3>1, <3>2, <3>3 DEF Mapping, InCall, IInv, MappedInv
  <2> QED
    BY <2>1, <2>2
<1>6. mapped' \in [MappedSeqs -> MappedRecords]
  BY <1>1 DEF MappedBecomes
<1> QED
  BY <1>4, <1>5, <1>6 DEF MappedInv, MappedRecords

LEMMA EnterValueOnceKeeps ==
  ASSUME IInv, NEW g \in G, EnterValueOnce(g)
  PROVE  MapStepKeeps(g)
<1> DEFINE m == op[g].obj
<1>1. /\ CallTypes' /\ Alone(g) /\ op[g] \in MapCalls
      /\ op'[g] \in MapCalls /\ op'[g].at = "apply" /\ op'[g].obj = m
      /\ mapped[m].once = NoOne /\ MappedBecomes(g, g, mapped[m].value)
  BY EnterValueOnceDoes DEF Moves, Alone
<1>2. m \in MappedSeqs /\ mapped' \in [MappedSeqs -> MappedRecords]
  BY <1>1 DEF MapCalls, MappedBecomes
<1>3. Mapping(g, "apply")'
  BY <1>1 DEF Mapping, InCall, MapCalls
<1>4. NoOne \notin G /\ NoOne # OnceDone
  BY CallsAssumption, DeferredAssumption
<1>5. ~Mapping(g, "apply")
  BY <1>1, <1>4 DEF IInv, MappedInv
<1>6. \A h \in G : Mapping(h, "apply")' => mapped'[op'[h].obj].once = h
  <2>1. SUFFICES ASSUME NEW h \in G, Mapping(h, "apply")', h # g
                 PROVE  mapped'[op'[h].obj].once = h
    BY <1>1 DEF MappedBecomes
  <2>2. op'[h] = op[h] /\ Mapping(h, "apply")
    BY <1>1, <2>1 DEF Alone, Mapping, InCall
  <2>3. mapped[op[h].obj].once = h /\ op[h].obj \in MappedSeqs /\ op[h].obj # m
    BY <1>1, <1>4, <2>2, MapTypes DEF IInv, MappedInv
  <2> QED
    BY <1>1, <2>2, <2>3 DEF MappedBecomes
<1>7. ASSUME NEW n \in MappedSeqs
      PROVE  /\ mapped'[n].once \in G => (Mapping(mapped[n].once, "apply") /\ op[mapped[n].once].obj = n)'
             /\ mapped'[n].once # OnceDone => mapped'[n].value = Nil
  <2>1. CASE n = m
    <3>1. mapped'[n].once = g /\ mapped'[n].value = mapped[m].value
      BY <1>1, <2>1 DEF MappedBecomes
    <3>2. mapped[m].value = Nil
      BY <1>1, <1>2, <1>4 DEF IInv, MappedInv
    <3> QED
      BY <1>1, <1>3, <2>1, <3>1, <3>2 DEF Mapping, InCall
  <2>2. CASE n # m
    <3>1. mapped'[n] = mapped[n]
      BY <1>1, <2>2 DEF MappedBecomes
    <3>2. mapped[n].once \in G => /\ mapped[n].once # g
                                  /\ Mapping(mapped[n].once, "apply") /\ op[mapped[n].once].obj = n
      BY <1>5 DEF IInv, MappedInv
    <3>3. mapped[n].once \in G => op'[mapped[n].once] = op[mapped[n].once]
      BY <1>1, <3>2 DEF Alone
    <3> QED
      BY <3>1, <3>2, <3>3 DEF Mapping, InCall, IInv, MappedInv
  <2> QED
    BY <2>1, <2>2
<1> QED
  BY <1>1, <1>2, <1>6, <1>7 DEF MapStepKeeps, MappedInv, MappedRecords

LEMMA MappedStepKeeps ==
  ASSUME IInv, NEW g \in G, MappedStep(g)
  PROVE  MapStepKeeps(g)
<1>1. CASE EnterValueOnce(g)
  BY <1>1, EnterValueOnceKeeps
<1>2. CASE FunctionReturns(g)
  <2>1. Applied(g) /\ op'[g] \in MapCalls /\ op'[g].at = "once"
    BY <1>2, FunctionReturnsDoes
  <2>2. NoMap(g)'
    BY <2>1 DEF NoMap, Mapping, InCall
  <2> QED
    BY <2>1, <2>2, AppliedKeeps DEF Applied, MapStepKeeps
<1>3. CASE FunctionPanics(g)
  <2>1. Applied(g) /\ Ends(g)
    BY <1>3, FunctionPanicsDoes
  <2> QED
    BY <2>1, EndsHoldsNothing, AppliedKeeps DEF Applied, MapStepKeeps
<1>4. CASE MappedResult(g)
  <2>1. CallTypes' /\ Alone(g) /\ op[g] \in MapCalls /\ Ends(g) /\ mapped' = mapped /\ Mapping(g, "once")
    BY <1>4, MappedResultDoes DEF Learns, Alone
  <2>2. NoMap(g) /\ NoMap(g)'
    BY <2>1, EndsHoldsNothing DEF NoMap, Mapping, InCall
  <2>3. \A h \in G : op'[h] = op[h] \/ (NoMap(h) /\ NoMap(h)')
    BY <2>1, <2>2 DEF Alone, NoMap, Mapping, InCall
  <2> QED
    BY <2>1, <2>3, MappedKept DEF IInv, MapStepKeeps
<1> QED
  BY <1>1, <1>2, <1>3, <1>4 DEF MappedStep

-----------------------------------------------------------------------------
(* Delays.                                                                 *)

DelayRecords ==
  [fn : BOOLEAN, val : DelayValues \cup {Nil}, exception : Exceptions \cup {Nil},
   mtx : G \cup {NoOne, NoMutex}]

\* The delay d gets the fields r, the others stay.
DelayBecomes(d, r) ==
  /\ delay' \in [Delays -> DelayRecords]
  /\ delay'[d] = r
  /\ \A e \in Delays \ {d} : delay'[e] = delay[e]

LEMMA DelaySet ==
  ASSUME DelayInv, NEW d \in Delays, NEW r \in DelayRecords, delay' = [delay EXCEPT ![d] = r]
  PROVE  DelayBecomes(d, r)
BY DEF DelayInv, DelayRecords, DelayBecomes

LEMMA ForceTypes ==
  ASSUME IInv, NEW g \in G,
         Forcing(g, "check") \/ Forcing(g, "lock") \/ Forcing(g, "body") \/ Forcing(g, "result")
  PROVE  /\ op[g] \in ForceCalls /\ op[g] \in Calling /\ op[g].obj \in Delays
         /\ delay[op[g].obj] \in DelayRecords
<1>1. op[g] \in ForceCalls
  BY KindOf DEF IInv
<1>2. op[g].obj \in Delays
  BY <1>1 DEF ForceCalls
<1>3. op[g] \in Calling
  BY <1>1 DEF Calling
<1> QED
  BY <1>1, <1>2, <1>3 DEF IInv, DelayInv, DelayRecords

\* A step of a call that goes on, or ends.
ForceGoesOn(g, at) ==
  /\ CallTypes' /\ Moves(g) /\ op[g] \in ForceCalls
  /\ op'[g] \in ForceCalls /\ op'[g].at = at /\ op'[g].obj = op[g].obj

LEMMA CheckMutexDoes ==
  ASSUME IInv, NEW g \in G, CheckMutex(g)
  PROVE  \/ ForceGoesOn(g, "lock") /\ delay' = delay
         \/ ForceGoesOn(g, "result") /\ delay' = delay /\ delay[op[g].obj].mtx = NoMutex
<1>1. op[g] \in ForceCalls
  BY ForceTypes DEF CheckMutex
<1>2. CASE delay[op[g].obj].mtx = NoMutex
  <2>1. Goto(g, "result") /\ delay' = delay
    BY <1>2 DEF CheckMutex
  <2> QED
    BY <1>1, <1>2, <2>1, GotoKeepsForce DEF IInv, ForceGoesOn
<1>3. CASE delay[op[g].obj].mtx # NoMutex
  <2>1. Goto(g, "lock") /\ delay' = delay
    BY <1>3 DEF CheckMutex
  <2> QED
    BY <1>1, <2>1, GotoKeepsForce DEF IInv, ForceGoesOn
<1> QED
  BY <1>2, <1>3

LEMMA LockDelayDoes ==
  ASSUME IInv, NEW g \in G, LockDelay(g)
  PROVE  /\ Forcing(g, "lock") /\ delay[op[g].obj].mtx \in {NoOne, NoMutex}
         /\ \/ /\ ForceGoesOn(g, "body") /\ delay[op[g].obj].fn
               /\ DelayBecomes(op[g].obj, [delay[op[g].obj] EXCEPT !.mtx = g])
            \/ ForceGoesOn(g, "result") /\ ~delay[op[g].obj].fn /\ delay' = delay
<1> DEFINE d == op[g].obj
<1>1. Forcing(g, "lock") /\ delay[d].mtx \in {NoOne, NoMutex}
  BY DEF LockDelay
<1>2. op[g] \in ForceCalls /\ d \in Delays /\ delay[d] \in DelayRecords
  BY <1>1, ForceTypes
<1>3. CASE delay[d].fn
  <2>1. Goto(g, "body") /\ delay' = [delay EXCEPT ![d].mtx = g]
    BY <1>3 DEF LockDelay
  <2>2. [delay[d] EXCEPT !.mtx = g] \in DelayRecords
    BY <1>2 DEF DelayRecords
  <2>3. delay' = [delay EXCEPT ![d] = [delay[d] EXCEPT !.mtx = g]]
    BY <1>2, <2>1 DEF IInv, DelayInv
  <2>4. DelayBecomes(d, [delay[d] EXCEPT !.mtx = g])
    BY <1>2, <2>2, <2>3, DelaySet DEF IInv
  <2>5. ForceGoesOn(g, "body")
    BY <1>2, <2>1, GotoKeepsForce DEF IInv, ForceGoesOn
  <2> QED
    BY <1>1, <1>3, <2>4, <2>5
<1>4. CASE ~delay[d].fn
  <2>1. Goto(g, "result") /\ delay' = delay
    BY <1>4 DEF LockDelay
  <2>2. ForceGoesOn(g, "result")
    BY <1>2, <2>1, GotoKeepsForce DEF IInv, ForceGoesOn
  <2> QED
    BY <1>1, <1>4, <2>1, <2>2
<1> QED
  BY <1>3, <1>4

\* What a delay is after its body, which was run for g.
LEMMA DelayBodyReturnsDoes ==
  ASSUME IInv, NEW g \in G, DelayBodyReturns(g)
  PROVE  /\ Forcing(g, "body") /\ ForceGoesOn(g, "result")
         /\ \E r \in DelayRecords :
              /\ ~r.fn /\ r.mtx = NoMutex /\ r.exception = delay[op[g].obj].exception
              /\ DelayBecomes(op[g].obj, r)
<1> DEFINE d == op[g].obj
<1>1. Forcing(g, "body") /\ Goto(g, "result")
  BY DEF DelayBodyReturns
<1>2. PICK v \in DelayValues :
        delay' = [delay EXCEPT ![d] = [@ EXCEPT !.fn = FALSE, !.val = v, !.mtx = NoMutex]]
  BY DEF DelayBodyReturns
<1> DEFINE r == [delay[d] EXCEPT !.fn = FALSE, !.val = v, !.mtx = NoMutex]
<1>3. op[g] \in ForceCalls /\ d \in Delays /\ delay[d] \in DelayRecords
  BY <1>1, ForceTypes
<1>4. r \in DelayRecords /\ ~r.fn /\ r.mtx = NoMutex /\ r.exception = delay[d].exception
  BY <1>3 DEF DelayRecords
<1>5. delay' = [delay EXCEPT ![d] = r]
  BY <1>2, <1>3 DEF IInv, DelayInv
<1> HIDE DEF r
<1>6. DelayBecomes(d, r)
  BY <1>3, <1>4, <1>5, DelaySet DEF IInv
<1>7. ForceGoesOn(g, "result")
  BY <1>1, <1>3, GotoKeepsForce DEF IInv, ForceGoesOn
<1> QED
  BY <1>1, <1>4, <1>6, <1>7

LEMMA DelayBodyPanicsDoes ==
  ASSUME IInv, NEW g \in G, DelayBodyPanics(g)
  PROVE  /\ Forcing(g, "body") /\ ForceGoesOn(g, "result")
         /\ \E r \in DelayRecords :
              /\ r.exception \in Exceptions /\ r.mtx = NoOne /\ r.fn = delay[op[g].obj].fn
              /\ DelayBecomes(op[g].obj, r)
<1> DEFINE d == op[g].obj
<1>1. Forcing(g, "body") /\ Goto(g, "result")
  BY DEF DelayBodyPanics
<1>2. PICK e \in Exceptions :
        delay' = [delay EXCEPT ![d] = [@ EXCEPT !.exception = e, !.mtx = NoOne]]
  BY DEF DelayBodyPanics
<1> DEFINE r == [delay[d] EXCEPT !.exception = e, !.mtx = NoOne]
<1>3. op[g] \in ForceCalls /\ d \in Delays /\ delay[d] \in DelayRecords
  BY <1>1, ForceTypes
<1>4. r \in DelayRecords /\ r.exception \in Exceptions /\ r.mtx = NoOne /\ r.fn = delay[d].fn
  BY <1>3 DEF DelayRecords
<1>5. delay' = [delay EXCEPT ![d] = r]
  BY <1>2, <1>3 DEF IInv, DelayInv
<1> HIDE DEF r
<1>6. DelayBecomes(d, r)
  BY <1>3, <1>4, <1>5, DelaySet DEF IInv
<1>7. ForceGoesOn(g, "result")
  BY <1>1, <1>3, GotoKeepsForce DEF IInv, ForceGoesOn
<1> QED
  BY <1>1, <1>4, <1>6, <1>7

LEMMA ForceResultDoes ==
  ASSUME IInv, NEW g \in G, ForceResult(g)
  PROVE  /\ Forcing(g, "result") /\ op[g] \in ForceCalls /\ CallTypes' /\ Ends(g) /\ delay' = delay
         /\ IF delay[op[g].obj].exception # Nil THEN Learns(g, delay[op[g].obj].exception)
            ELSE Learns(g, delay[op[g].obj].val)
<1> DEFINE d == op[g].obj
<1>1. Forcing(g, "result") /\ delay' = delay
  BY DEF ForceResult
<1>2. op[g] \in ForceCalls /\ op[g] \in Calling /\ delay[d] \in DelayRecords
  BY <1>1, ForceTypes
<1>3. CASE delay[d].exception # Nil
  <2> DEFINE e == delay[d].exception
  <2>1. e \in Exceptions /\ Rethrow(g, e)
    BY <1>2, <1>3 DEF ForceResult, DelayRecords
  <2> HIDE DEF e
  <2>2. CallTypes' /\ Learns(g, e) /\ Ends(g)
    BY <1>2, <2>1, RethrowLearns DEF IInv
  <2> QED
    BY <1>1, <1>2, <1>3, <2>2 DEF e
<1>4. CASE delay[d].exception = Nil
  <2>1. Return(g, delay[d].val)
    BY <1>4 DEF ForceResult
  <2>2. delay[d].val \in Results
    BY <1>2 DEF DelayRecords, Results
  <2> QED
    BY <1>1, <1>2, <1>4, <2>1, <2>2, ReturnLearns DEF IInv
<1> QED
  BY <1>3, <1>4

LEMMA TornExceptionDoes ==
  ASSUME IInv, NEW g \in G, TornException(g)
  PROVE  /\ Forcing(g, "result") /\ op[g] \in ForceCalls /\ CallTypes' /\ Ends(g) /\ Moves(g)
         /\ delay' = delay
<1>1. Forcing(g, "result") /\ delay' = delay /\ Panic(g)
  BY DEF TornException
<1>2. op[g] \in ForceCalls /\ op[g] \in Calling
  BY <1>1, ForceTypes
<1> QED
  BY <1>1, <1>2, PanicEndsCall DEF IInv

ForceStepKeeps(g) ==
  /\ CallTypes' /\ DelayInv' /\ Alone(g) /\ op[g] \in ForceCalls
  /\ (op'[g] \in ForceCalls \/ Ends(g))

\* The delay of g's call gets other fields, and g goes on at "body" or "result".
LEMMA DelayStoredKeeps ==
  ASSUME IInv, NEW g \in G, op[g] \in ForceCalls, Forcing(g, "lock") \/ Forcing(g, "body"),
         delay[op[g].obj].mtx \notin G \ {g},
         NEW at \in {"body", "result"}, ForceGoesOn(g, at),
         NEW r \in DelayRecords, DelayBecomes(op[g].obj, r),
         at = "body" => r.mtx = g /\ r.fn,
         at = "result" => r.mtx \notin G /\ (~r.fn \/ r.exception # Nil),
         r.mtx = NoMutex => ~r.fn,
         ~delay[op[g].obj].fn => ~r.fn,
         delay[op[g].obj].exception # Nil => r.exception # Nil
  PROVE  DelayInv'
<1> DEFINE d == op[g].obj
<1>1. d \in Delays /\ delay' \in [Delays -> DelayRecords] /\ delay'[d] = r
  BY DEF ForceCalls, DelayBecomes
<1>2. /\ \A h \in G \ {g} : op'[h] = op[h]
      /\ op'[g] \in ForceCalls /\ op'[g].at = at /\ op'[g].obj = d
  BY DEF ForceGoesOn, Moves
<1>3. ASSUME NEW h \in G, h # g, Forcing(h, "body")
      PROVE  op[h].obj \in Delays /\ op[h].obj # d
  <2>1. op[h].obj \in Delays /\ delay[op[h].obj].mtx = h
    BY <1>3, ForceTypes DEF IInv, DelayInv
  <2> QED
    BY <1>3, <2>1
<1>4. ASSUME NEW h \in G
      PROVE  /\ Forcing(h, "body")' => delay'[op'[h].obj].mtx = h /\ delay'[op'[h].obj].fn
             /\ Forcing(h, "result")' => ~delay'[op'[h].obj].fn \/ delay'[op'[h].obj].exception # Nil
  <2>1. CASE h = g
    BY <1>1, <1>2, <2>1 DEF Forcing, InCall
  <2>2. CASE h # g
    <3>1. op'[h] = op[h]
      BY <1>2, <2>2
    <3>2. ASSUME Forcing(h, "body")
          PROVE  delay'[op[h].obj].mtx = h /\ delay'[op[h].obj].fn
      BY <1>3, <2>2, <3>2 DEF DelayBecomes, IInv, DelayInv
    <3>3. ASSUME Forcing(h, "result")
          PROVE  ~delay'[op[h].obj].fn \/ delay'[op[h].obj].exception # Nil
      <4>1. op[h].obj \in Delays /\ (~delay[op[h].obj].fn \/ delay[op[h].obj].exception # Nil)
        BY <3>3, ForceTypes DEF IInv, DelayInv
      <4>2. CASE op[h].obj = d
        BY <1>1, <4>1, <4>2
      <4>3. CASE op[h].obj # d
        BY <4>1, <4>3 DEF DelayBecomes
      <4> QED
        BY <4>2, <4>3
    <3> QED
      BY <3>1, <3>2, <3>3 DEF Forcing, InCall
  <2> QED
    BY <2>1, <2>2
<1>5. ASSUME NEW e \in Delays
      PROVE  /\ delay'[e].mtx \in G => (Forcing(delay[e].mtx, "body") /\ op[delay[e].mtx].obj = e)'
             /\ delay'[e].mtx = NoMutex => ~delay'[e].fn
  <2>1. CASE e = d
    <3>1. delay'[e] = r
      BY <1>1, <2>1
    <3>2. r.mtx \in G => at = "body" /\ r.mtx = g
      OBVIOUS
    <3>3. op'[g].kind = "force"
      BY <1>2 DEF ForceCalls
    <3> QED
      BY <1>2, <2>1, <3>1, <3>2, <3>3 DEF Forcing, InCall
  <2>2. CASE e # d
    <3>1. delay'[e] = delay[e]
      BY <2>2 DEF DelayBecomes
    <3>2. delay[e].mtx \in G => /\ delay[e].mtx # g
                                /\ Forcing(delay[e].mtx, "body") /\ op[delay[e].mtx].obj = e
      BY <2>2 DEF IInv, DelayInv
    <3>3. delay[e].mtx \in G => op'[delay[e].mtx] = op[delay[e].mtx]
      BY <1>2, <3>2
    <3> QED
      BY <3>1, <3>2, <3>3 DEF Forcing, InCall, IInv, DelayInv
  <2> QED
    BY <2>1, <2>2
<1> QED
  BY <1>1, <1>4, <1>5 DEF DelayInv, DelayRecords

\* g takes no lock and goes on, or ends.
LEMMA DelayUnchangedKeeps ==
  ASSUME IInv, NEW g \in G, Alone(g), op[g] \in ForceCalls, delay' = delay, ~Forcing(g, "body"),
         ~Forcing(g, "body")',
         Forcing(g, "result")' => /\ op'[g].obj \in Delays
                                  /\ ~delay[op'[g].obj].fn \/ delay[op'[g].obj].exception # Nil
  PROVE  DelayInv'
<1>1. \A h \in G : Forcing(h, "body") \/ Forcing(h, "body")' => op'[h] = op[h]
  BY DEF Alone
<1>2. \A h \in G : Forcing(h, "body")' <=> Forcing(h, "body")
  BY DEF Alone, Forcing, InCall
<1>3. ASSUME NEW h \in G, Forcing(h, "result")'
      PROVE  ~delay'[op'[h].obj].fn \/ delay'[op'[h].obj].exception # Nil
  <2>1. CASE h = g
    BY <1>3, <2>1
  <2>2. CASE h # g
    <3>1. op'[h] = op[h] /\ Forcing(h, "result")
      BY <1>3, <2>2 DEF Alone, Forcing, InCall
    <3> QED
      BY <3>1 DEF IInv, DelayInv
  <2> QED
    BY <2>1, <2>2
<1> QED
  BY <1>1, <1>2, <1>3 DEF IInv, DelayInv

LEMMA DelayStepKeeps ==
  ASSUME IInv, NEW g \in G, DelayStep(g)
  PROVE  ForceStepKeeps(g)
<1> DEFINE d == op[g].obj
<1>0. NoOne \notin G /\ NoMutex \notin G /\ NoMutex # NoOne
  BY CallsAssumption, DeferredAssumption
<1>1. CASE CheckMutex(g)
  <2>1. PICK at \in {"lock", "result"} : /\ ForceGoesOn(g, at) /\ delay' = delay
                                         /\ at = "result" => delay[d].mtx = NoMutex
    BY <1>1, CheckMutexDoes
  <2>2. Forcing(g, "check") /\ ~Forcing(g, "body")
    BY <1>1 DEF CheckMutex, Forcing, InCall
  <2>3. d \in Delays /\ op'[g].obj = d /\ op'[g].at = at
    BY <2>1 DEF ForceGoesOn, ForceCalls
  <2>4. ~Forcing(g, "body")' /\ (Forcing(g, "result")' => ~delay[d].fn)
    BY <2>1, <2>3 DEF Forcing, InCall, IInv, DelayInv
  <2>5. DelayInv'
    BY <2>1, <2>2, <2>3, <2>4, DelayUnchangedKeeps DEF ForceGoesOn, Moves, Alone
  <2> QED
    BY <2>1, <2>5 DEF ForceGoesOn, ForceStepKeeps, Moves, Alone
<1>2. CASE LockDelay(g)
  <2>1. /\ Forcing(g, "lock") /\ delay[d].mtx \in {NoOne, NoMutex}
        /\ \/ /\ ForceGoesOn(g, "body") /\ delay[d].fn
              /\ DelayBecomes(d, [delay[d] EXCEPT !.mtx = g])
           \/ ForceGoesOn(g, "result") /\ ~delay[d].fn /\ delay' = delay
    BY <1>2, LockDelayDoes
  <2>2. op[g] \in ForceCalls /\ d \in Delays /\ delay[d] \in DelayRecords
    BY <2>1, ForceTypes
  <2>3. CASE /\ ForceGoesOn(g, "body") /\ delay[d].fn
             /\ DelayBecomes(d, [delay[d] EXCEPT !.mtx = g])
    <3> DEFINE r == [delay[d] EXCEPT !.mtx = g]
    <3>1. /\ r \in DelayRecords /\ r.mtx = g /\ r.fn = delay[d].fn
          /\ r.exception = delay[d].exception
      BY <2>2 DEF DelayRecords
    <3>2. DelayBecomes(d, r)
      BY <2>3
    <3> HIDE DEF r
    <3>3. delay[d].mtx \notin G \ {g} /\ r.mtx # NoMutex
      BY <1>0, <2>1, <3>1
    <3>4. DelayInv'
      BY <2>1, <2>2, <2>3, <3>1, <3>2, <3>3, DelayStoredKeeps
    <3> QED
      BY <2>3, <3>4 DEF ForceGoesOn, ForceStepKeeps, Moves, Alone
  <2>4. CASE ForceGoesOn(g, "result") /\ ~delay[d].fn /\ delay' = delay
    <3>1. d \in Delays /\ op'[g].obj = d /\ op'[g].at = "result"
      BY <2>2, <2>4 DEF ForceGoesOn
    <3>2. ~Forcing(g, "body") /\ ~Forcing(g, "body")'
      BY <2>1, <3>1 DEF Forcing, InCall
    <3>3. DelayInv'
      BY <2>2, <2>4, <3>1, <3>2, DelayUnchangedKeeps DEF ForceGoesOn, Moves, Alone
    <3> QED
      BY <2>4, <3>3 DEF ForceGoesOn, ForceStepKeeps, Moves, Alone
  <2> QED
    BY <2>1, <2>3, <2>4
<1>3. CASE DelayBodyReturns(g)
  <2>1. Forcing(g, "body") /\ ForceGoesOn(g, "result")
    BY <1>3, DelayBodyReturnsDoes
  <2>2. PICK r \in DelayRecords : /\ ~r.fn /\ r.mtx = NoMutex /\ r.exception = delay[d].exception
                                  /\ DelayBecomes(d, r)
    BY <1>3, DelayBodyReturnsDoes
  <2>3. delay[d].mtx = g /\ op[g] \in ForceCalls
    BY <2>1, ForceTypes DEF IInv, DelayInv
  <2>4. DelayInv'
    BY <1>0, <2>1, <2>2, <2>3, DelayStoredKeeps
  <2> QED
    BY <2>1, <2>4 DEF ForceGoesOn, ForceStepKeeps, Moves, Alone
<1>4. CASE DelayBodyPanics(g)
  <2>1. Forcing(g, "body") /\ ForceGoesOn(g, "result")
    BY <1>4, DelayBodyPanicsDoes
  <2>2. PICK r \in DelayRecords :
          /\ r.exception \in Exceptions /\ r.mtx = NoOne /\ r.fn = delay[d].fn
          /\ DelayBecomes(d, r)
    BY <1>4, DelayBodyPanicsDoes
  <2>3. delay[d].mtx = g /\ op[g] \in ForceCalls
    BY <2>1, ForceTypes DEF IInv, DelayInv
  <2>4. r.exception # Nil
    BY <2>2, CallsAssumption
  <2>5. delay[d].fn /\ r.mtx # NoMutex /\ r.mtx \notin G
    BY <1>0, <2>1, <2>2 DEF IInv, DelayInv
  <2>6. DelayInv'
    BY <2>1, <2>2, <2>3, <2>4, <2>5, DelayStoredKeeps
  <2> QED
    BY <2>1, <2>6 DEF ForceGoesOn, ForceStepKeeps, Moves, Alone
<1>5. CASE ForceResult(g) \/ TornException(g)
  <2>1. /\ Forcing(g, "result") /\ op[g] \in ForceCalls /\ CallTypes' /\ Ends(g) /\ delay' = delay
        /\ Alone(g)
    BY <1>5, ForceResultDoes, TornExceptionDoes DEF Learns, Moves, Alone
  <2>2. ~Forcing(g, "body") /\ NoForce(g)'
    BY <2>1, EndsHoldsNothing DEF Forcing, InCall
  <2>3. DelayInv'
    BY <2>1, <2>2, DelayUnchangedKeeps DEF NoForce
  <2> QED
    BY <2>1, <2>3 DEF ForceStepKeeps
<1> QED
  BY <1>1, <1>2, <1>3, <1>4, <1>5 DEF DelayStep

-----------------------------------------------------------------------------
(* Promises and futures.                                                   *)

PromiseRecords == [once : G \cup {NoOne, OnceDone}, val : Delivered \cup {Nil}, done : BOOLEAN]
FutureRecords == [res : Results, done : BOOLEAN]

\* The promise p gets the fields r, the others stay.
PromiseBecomes(p, r) ==
  /\ promise' \in [Promises -> PromiseRecords]
  /\ promise'[p] = r
  /\ \A q \in Promises \ {p} : promise'[q] = promise[q]

LEMMA PromiseSet ==
  ASSUME PromiseInv, NEW p \in Promises, NEW r \in PromiseRecords, promise' = [promise EXCEPT ![p] = r]
  PROVE  PromiseBecomes(p, r)
BY DEF PromiseInv, PromiseRecords, PromiseBecomes

LEMMA DeliverTypes ==
  ASSUME IInv, NEW g \in G, Settling(g) \/ Delivering(g, "once")
  PROVE  /\ op[g] \in DeliverCalls /\ op[g] \in Calling /\ op[g].obj \in Promises
         /\ op[g].value \in Delivered /\ promise[op[g].obj] \in PromiseRecords
<1>1. op[g] \in DeliverCalls
  BY KindOf DEF IInv
<1>2. op[g].obj \in Promises /\ op[g].value \in Delivered
  BY <1>1 DEF DeliverCalls
<1>3. op[g] \in Calling
  BY <1>1 DEF Calling
<1> QED
  BY <1>1, <1>2, <1>3 DEF IInv, PromiseInv, PromiseRecords

DeliverGoesOn(g, at) ==
  /\ CallTypes' /\ Moves(g) /\ op[g] \in DeliverCalls
  /\ op'[g] \in DeliverCalls /\ op'[g].at = at /\ op'[g].obj = op[g].obj

LEMMA EnterOnceDoes ==
  ASSUME IInv, NEW g \in G, EnterOnce(g)
  PROVE  /\ DeliverGoesOn(g, "store") /\ promise[op[g].obj].once = NoOne /\ future' = future
         /\ PromiseBecomes(op[g].obj, [promise[op[g].obj] EXCEPT !.once = g])
<1> DEFINE p == op[g].obj
<1>1. /\ Delivering(g, "once") /\ promise[p].once = NoOne /\ Goto(g, "store")
      /\ promise' = [promise EXCEPT ![p].once = g] /\ future' = future
  BY DEF EnterOnce
<1>2. op[g] \in DeliverCalls /\ p \in Promises /\ promise[p] \in PromiseRecords
  BY <1>1, DeliverTypes
<1>3. [promise[p] EXCEPT !.once = g] \in PromiseRecords
  BY <1>2 DEF PromiseRecords
<1>4. promise' = [promise EXCEPT ![p] = [promise[p] EXCEPT !.once = g]]
  BY <1>1, <1>2 DEF IInv, PromiseInv
<1>5. PromiseBecomes(p, [promise[p] EXCEPT !.once = g])
  BY <1>2, <1>3, <1>4, PromiseSet DEF IInv
<1>6. DeliverGoesOn(g, "store")
  BY <1>1, <1>2, GotoKeepsDeliver DEF IInv, DeliverGoesOn
<1> QED
  BY <1>1, <1>5, <1>6

LEMMA RefuseDeliveryDoes ==
  ASSUME IInv, NEW g \in G, RefuseDelivery(g)
  PROVE  /\ CallTypes' /\ Moves(g) /\ Ends(g) /\ op[g] \in DeliverCalls /\ Delivering(g, "once")
         /\ UNCHANGED promiseVars
<1>1. Delivering(g, "once") /\ ReturnAnyway(g, Nil) /\ UNCHANGED promiseVars
  BY DEF RefuseDelivery
<1>2. op[g] \in DeliverCalls /\ op[g] \in Calling /\ Nil \in Results
  BY <1>1, DeliverTypes DEF Results
<1> QED
  BY <1>1, <1>2, ReturnAnywayEnds DEF IInv

LEMMA StoreDeliveredDoes ==
  ASSUME IInv, NEW g \in G, StoreDelivered(g)
  PROVE  /\ Delivering(g, "store") /\ future' = future
         /\ CallTypes' /\ Moves(g) /\ op[g] \in DeliverCalls
         /\ \E r \in PromiseRecords :
              /\ r.done = promise[op[g].obj].done
              /\ PromiseBecomes(op[g].obj, r)
              /\ \/ r.once = OnceDone /\ Ends(g)
                 \/ r.once = promise[op[g].obj].once /\ DeliverGoesOn(g, "close")
<1> DEFINE p == op[g].obj
           v == op[g].value
<1>1. Delivering(g, "store") /\ future' = future
  BY DEF StoreDelivered
<1>2. /\ op[g] \in DeliverCalls /\ op[g] \in Calling /\ p \in Promises /\ v \in Delivered
      /\ promise[p] \in PromiseRecords
  BY <1>1, DeliverTypes DEF Settling
<1>3. CASE v = Nil
  <2> DEFINE r == [promise[p] EXCEPT !.once = OnceDone]
  <2>1. promise' = [promise EXCEPT ![p].once = OnceDone] /\ Panic(g)
    BY <1>3 DEF StoreDelivered
  <2>2. r \in PromiseRecords /\ r.done = promise[p].done /\ r.once = OnceDone
    BY <1>2 DEF PromiseRecords
  <2>3. promise' = [promise EXCEPT ![p] = r]
    BY <1>2, <2>1 DEF IInv, PromiseInv
  <2> HIDE DEF r
  <2>4. PromiseBecomes(p, r)
    BY <1>2, <2>2, <2>3, PromiseSet DEF IInv
  <2>5. CallTypes' /\ Moves(g) /\ Ends(g)
    BY <1>2, <2>1, PanicEndsCall DEF IInv
  <2> QED
    BY <1>1, <1>2, <2>2, <2>4, <2>5
<1>4. CASE v # Nil
  <2> DEFINE r == [promise[p] EXCEPT !.val = v]
  <2>1. promise' = [promise EXCEPT ![p].val = v] /\ Goto(g, "close")
    BY <1>4 DEF StoreDelivered
  <2>2. r \in PromiseRecords /\ r.done = promise[p].done /\ r.once = promise[p].once
    BY <1>2 DEF PromiseRecords
  <2>3. promise' = [promise EXCEPT ![p] = r]
    BY <1>2, <2>1 DEF IInv, PromiseInv
  <2> HIDE DEF r
  <2>4. PromiseBecomes(p, r)
    BY <1>2, <2>2, <2>3, PromiseSet DEF IInv
  <2>5. DeliverGoesOn(g, "close")
    BY <1>2, <2>1, GotoKeepsDeliver DEF IInv, DeliverGoesOn
  <2>6. CallTypes' /\ Moves(g)
    BY <2>5 DEF DeliverGoesOn
  <2> QED
    BY <1>1, <1>2, <2>2, <2>4, <2>5, <2>6
<1> QED
  BY <1>3, <1>4

LEMMA CloseDoneDoes ==
  ASSUME IInv, NEW g \in G, CloseDone(g)
  PROVE  /\ Delivering(g, "close") /\ future' = future
         /\ CallTypes' /\ Moves(g) /\ Ends(g) /\ op[g] \in DeliverCalls
         /\ \E r \in PromiseRecords :
              /\ r.done /\ r.once = OnceDone /\ r.val = promise[op[g].obj].val
              /\ PromiseBecomes(op[g].obj, r)
<1> DEFINE p == op[g].obj
           r == [promise[p] EXCEPT !.once = OnceDone, !.done = TRUE]
<1>1. /\ Delivering(g, "close") /\ future' = future /\ ReturnAnyway(g, p)
      /\ promise' = [promise EXCEPT ![p] = [@ EXCEPT !.once = OnceDone, !.done = TRUE]]
  BY DEF CloseDone
<1>2. op[g] \in DeliverCalls /\ op[g] \in Calling /\ p \in Promises /\ promise[p] \in PromiseRecords
  BY <1>1, DeliverTypes DEF Settling
<1>3. r \in PromiseRecords /\ r.done /\ r.once = OnceDone /\ r.val = promise[p].val
  BY <1>2 DEF PromiseRecords
<1>4. promise' = [promise EXCEPT ![p] = r]
  BY <1>1, <1>2 DEF IInv, PromiseInv
<1> HIDE DEF r
<1>5. PromiseBecomes(p, r)
  BY <1>2, <1>3, <1>4, PromiseSet DEF IInv
<1>6. p \in Results
  BY <1>2 DEF Results
<1>7. CallTypes' /\ Moves(g) /\ Ends(g)
  BY <1>1, <1>2, <1>6, ReturnAnywayEnds DEF IInv
<1> QED
  BY <1>1, <1>2, <1>3, <1>5, <1>7

LEMMA AwaitTypes ==
  ASSUME IInv, NEW g \in G, InCall(g, "await", "wait")
  PROVE  /\ op[g] \in AwaitCalls /\ op[g] \in Calling /\ op[g].obj \in Promises \cup Futures
         /\ Cell(op[g].obj).val \in Results
<1>1. op[g] \in AwaitCalls
  BY KindOf DEF IInv
<1>2. op[g].obj \in Promises \cup Futures
  BY <1>1 DEF AwaitCalls
<1>3. op[g] \in Calling
  BY <1>1 DEF Calling
<1>4. Cell(op[g].obj).val \in Results
  <2> DEFINE o == op[g].obj
  <2>1. CASE o \in Promises
    <3>1. promise[o].val \in Delivered \cup {Nil}
      BY <2>1 DEF IInv, PromiseInv
    <3>2. Cell(o).val = promise[o].val
      BY <2>1 DEF Cell
    <3> QED
      BY <3>1, <3>2 DEF Results
  <2>2. CASE o \notin Promises
    <3>1. future[o].res \in Results
      BY <1>2, <2>2 DEF IInv, FutureInv
    <3>2. Cell(o).val = future[o].res
      BY <2>2 DEF Cell
    <3> QED
      BY <3>1, <3>2
  <2> QED
    BY <2>1, <2>2
<1> QED
  BY <1>1, <1>2, <1>3, <1>4

LEMMA AwaitDoes ==
  ASSUME IInv, NEW g \in G, Await(g)
  PROVE  /\ CallTypes' /\ Ends(g) /\ op[g] \in AwaitCalls /\ UNCHANGED promiseVars
         /\ Cell(op[g].obj).done /\ Learns(g, Cell(op[g].obj).val)
BY AwaitTypes, ReturnLearns DEF Await, IInv

LEMMA TimeOutDoes ==
  ASSUME IInv, NEW g \in G, TimeOut(g)
  PROVE  CallTypes' /\ Moves(g) /\ Ends(g) /\ op[g] \in AwaitCalls /\ UNCHANGED promiseVars
<1>1. op[g] \in AwaitCalls /\ op[g] \in Calling
  BY AwaitTypes DEF TimeOut
<1>2. TimedOut \in Results
  BY DEF Results
<1>3. ReturnAnyway(g, TimedOut) \/ Panic(g)
  BY DEF TimeOut
<1> QED
  BY <1>1, <1>2, <1>3, ReturnAnywayEnds, PanicEndsCall DEF IInv, TimeOut

\* What has returned is the worker of a future.
LEMMA EndingOf ==
  ASSUME CallTypes, NEW w \in G, op[w].at \in {"returned", "close future"}
  PROVE  /\ op[w] \in Endings /\ w \in Workers /\ op[w].value \in Results
<1>1. op[w] \notin Resting
  BY WhereResting DEF Resting
<1>2. op[w] \notin Calling
  BY DEF Calling, SeqCalls, MapCalls, ForceCalls, DeliverCalls, AwaitCalls
<1>3. op[w] \in Endings
  BY <1>1, <1>2 DEF CallTypes
<1>4. w \in Workers
  BY <1>1, <1>2 DEF CallTypes, Resting
<1> QED
  BY <1>3, <1>4 DEF Endings

LEMMA StoreResultDoes ==
  ASSUME IInv, NEW w \in G, StoreResult(w)
  PROVE  /\ w \in Workers /\ op[w] \in Endings /\ op'[w] \in Endings /\ CallTypes' /\ Moves(w)
         /\ promise' = promise /\ future' \in [Futures -> FutureRecords]
         /\ \A f \in Futures : future'[f].done = future[f].done
         /\ \A f \in Futures \ {FutureOf[w]} : future'[f] = future[f]
<1> DEFINE f == FutureOf[w]
           o == [op[w] EXCEPT !.at = "close future"]
           r == [future[f] EXCEPT !.res = op[w].value]
<1>1. /\ op[w].at = "returned" /\ promise' = promise /\ got' = got
      /\ op' = [op EXCEPT ![w] = o]
      /\ future' = [future EXCEPT ![f].res = op[w].value]
  BY DEF StoreResult, Goto
<1>2. op[w] \in Endings /\ w \in Workers /\ op[w].value \in Results
  BY <1>1, EndingOf DEF IInv
<1>3. f \in Futures
  BY <1>2 DEF Futures
<1>4. future \in [Futures -> FutureRecords] /\ future[f] \in FutureRecords
  BY <1>3 DEF IInv, FutureInv, FutureRecords
<1>5. r \in FutureRecords /\ r.done = future[f].done
  BY <1>2, <1>4 DEF FutureRecords
<1>6. future' = [future EXCEPT ![f] = r]
  BY <1>1, <1>3, <1>4
<1>7. o \in Endings
  BY <1>2 DEF Endings
<1> HIDE DEF r, o
<1>8. CallTypes' /\ Moves(w) /\ op'[w] \in Endings
  BY <1>1, <1>2, <1>7 DEF IInv, CallTypes, Moves
<1>9. /\ future' \in [Futures -> FutureRecords]
      /\ \A e \in Futures : future'[e].done = future[e].done
      /\ \A e \in Futures \ {f} : future'[e] = future[e]
  BY <1>3, <1>4, <1>5, <1>6
<1> QED
  BY <1>1, <1>2, <1>8, <1>9

LEMMA CloseFutureDoes ==
  ASSUME IInv, NEW w \in G, CloseFuture(w)
  PROVE  /\ w \in Workers /\ op[w] \in Endings /\ op'[w] = Exited /\ CallTypes' /\ Moves(w)
         /\ promise' = promise /\ future' \in [Futures -> FutureRecords]
         /\ \A f \in Futures : future'[f].res = future[f].res
         /\ \A f \in Futures \ {FutureOf[w]} : future'[f] = future[f]
         /\ future'[FutureOf[w]].done /\ ~future[FutureOf[w]].done
<1> DEFINE f == FutureOf[w]
           r == [future[f] EXCEPT !.done = TRUE]
<1>1. /\ op[w].at = "close future" /\ promise' = promise /\ got' = got
      /\ op' = [op EXCEPT ![w] = Exited]
      /\ future' = [future EXCEPT ![f].done = TRUE]
  BY DEF CloseFuture
<1>2. op[w] \in Endings /\ w \in Workers
  BY <1>1, EndingOf DEF IInv
<1>3. f \in Futures
  BY <1>2 DEF Futures
<1>4. future \in [Futures -> FutureRecords] /\ future[f] \in FutureRecords
  BY <1>3 DEF IInv, FutureInv, FutureRecords
<1>5. r \in FutureRecords /\ r.done /\ r.res = future[f].res
  BY <1>4 DEF FutureRecords
<1>6. future' = [future EXCEPT ![f] = r]
  BY <1>1, <1>3, <1>4
<1>7. Exited \in Resting
  BY DEF Resting
<1>8. CallTypes' /\ Moves(w) /\ op'[w] = Exited
  BY <1>1, <1>2, <1>7 DEF IInv, CallTypes, Moves
<1> HIDE DEF r
<1>9. /\ future' \in [Futures -> FutureRecords]
      /\ \A e \in Futures : future'[e].res = future[e].res
      /\ \A e \in Futures \ {f} : future'[e] = future[e]
      /\ future'[f].done
  BY <1>3, <1>4, <1>5, <1>6
<1>10. ~future[f].done
  <2>1. op[w] # Exited
    BY <1>1, WhereResting
  <2> QED
    BY <1>2, <2>1 DEF IInv, FutureInv
<1> QED
  BY <1>1, <1>2, <1>8, <1>9, <1>10

\* What a step of a call on a promise or future keeps, or one of a worker that has
\* returned.
AwaitStepKeeps(g) ==
  /\ CallTypes' /\ PromiseInv' /\ FutureInv' /\ Alone(g)
  /\ op[g] \in DeliverCalls \cup AwaitCalls \cup Endings
  /\ op'[g] \in DeliverCalls \cup AwaitCalls \cup Endings \cup {Exited} \/ Ends(g)

\* The promise of g's call gets other fields.
LEMMA PromiseStoredKeeps ==
  ASSUME IInv, NEW g \in G, Alone(g), op[g] \in DeliverCalls,
         promise[op[g].obj].once \notin G \ {g},
         NEW r \in PromiseRecords, PromiseBecomes(op[g].obj, r),
         r.done => r.once = OnceDone,
         \/ r.once = g /\ Settling(g)' /\ op'[g].obj = op[g].obj
         \/ r.once = OnceDone /\ ~Settling(g)'
  PROVE  PromiseInv'
<1> DEFINE p == op[g].obj
<1>0. OnceDone \notin G
  BY DeferredAssumption
<1>1. p \in Promises /\ promise' \in [Promises -> PromiseRecords] /\ promise'[p] = r
  BY DEF DeliverCalls, PromiseBecomes
<1>2. ASSUME NEW h \in G, Settling(h)'
      PROVE  promise'[op'[h].obj].once = h
  <2>1. CASE h = g
    BY <1>1, <1>2, <2>1
  <2>2. CASE h # g
    <3>1. op'[h] = op[h] /\ Settling(h)
      BY <1>2, <2>2 DEF Alone, Settling, Delivering, InCall
    <3>2. promise[op[h].obj].once = h /\ op[h].obj \in Promises
      BY <3>1, DeliverTypes DEF IInv, PromiseInv
    <3>3. op[h].obj # p
      BY <2>2, <3>2
    <3>4. promise'[op[h].obj] = promise[op[h].obj]
      BY <3>2, <3>3 DEF PromiseBecomes
    <3> QED
      BY <3>1, <3>2, <3>4
  <2> QED
    BY <2>1, <2>2
<1>3. ASSUME NEW q \in Promises
      PROVE  /\ promise'[q].once \in G => (Settling(promise[q].once) /\ op[promise[q].once].obj = q)'
             /\ promise'[q].done => promise'[q].once = OnceDone
  <2>1. CASE q = p
    BY <1>0, <1>1, <2>1 DEF Settling, Delivering, InCall
  <2>2. CASE q # p
    <3>1. promise'[q] = promise[q]
      BY <2>2 DEF PromiseBecomes
    <3>2. promise[q].once \in G => /\ promise[q].once # g
                                   /\ Settling(promise[q].once) /\ op[promise[q].once].obj = q
      BY <2>2 DEF IInv, PromiseInv
    <3>3. promise[q].once \in G => op'[promise[q].once] = op[promise[q].once]
      BY <3>2 DEF Alone
    <3> QED
      BY <3>1, <3>2, <3>3 DEF Settling, Delivering, InCall, IInv, PromiseInv
  <2> QED
    BY <2>1, <2>2
<1> QED
  BY <1>1, <1>2, <1>3 DEF PromiseInv, PromiseRecords

\* g neither leaves once.Do nor gets into it, and does not exit.
LEMMA PromiseUnchangedKeeps ==
  ASSUME IInv, NEW g \in G, Alone(g), NoDeliver(g), NoDeliver(g)', promise' = promise
  PROVE  PromiseInv'
<1>1. \A h \in G : op'[h] = op[h] \/ (NoDeliver(h) /\ NoDeliver(h)')
  BY DEF Alone, NoDeliver, Settling, Delivering, InCall
<1> QED
  BY <1>1, PromiseKept DEF IInv

LEMMA FutureUnchangedKeeps ==
  ASSUME IInv, NEW g \in G, Alone(g), op[g] # Exited, op'[g] # Exited, future' = future
  PROVE  FutureInv'
<1>1. \A h \in G : op'[h] = op[h] \/ (op[h] # Exited /\ op'[h] # Exited)
  BY DEF Alone
<1> QED
  BY <1>1, FutureKept DEF IInv

LEMMA PromiseStepKeeps ==
  ASSUME IInv, NEW g \in G, PromiseStep(g)
  PROVE  AwaitStepKeeps(g)
<1> DEFINE p == op[g].obj
<1>0. OnceDone \notin G /\ NoOne # OnceDone /\ NoOne \notin G
  BY CallsAssumption, DeferredAssumption
<1>1. CASE EnterOnce(g)
  <2> DEFINE r == [promise[p] EXCEPT !.once = g]
  <2>1. /\ DeliverGoesOn(g, "store") /\ promise[p].once = NoOne /\ future' = future
        /\ PromiseBecomes(p, r)
    BY <1>1, EnterOnceDoes
  <2>2. /\ CallTypes' /\ Alone(g) /\ op[g] \in DeliverCalls /\ op'[g] \in DeliverCalls
        /\ op'[g].at = "store" /\ op'[g].obj = p
    BY <2>1 DEF DeliverGoesOn, Moves, Alone
  <2>3. p \in Promises /\ promise[p] \in PromiseRecords /\ ~promise[p].done
    BY <1>0, <2>1, <2>2 DEF DeliverCalls, IInv, PromiseInv, PromiseRecords
  <2>4. r \in PromiseRecords /\ r.once = g /\ ~r.done
    BY <2>3 DEF PromiseRecords
  <2> HIDE DEF r
  <2>5. Settling(g)'
    BY <2>2 DEF Settling, Delivering, InCall, DeliverCalls
  <2>6. PromiseInv'
    BY <1>0, <2>1, <2>2, <2>4, <2>5, PromiseStoredKeeps
  <2>7. FutureInv'
    BY <2>1, <2>2, FutureUnchangedKeeps, OneKind, OneKindNext
  <2> QED
    BY <2>2, <2>6, <2>7 DEF AwaitStepKeeps
<1>2. CASE RefuseDelivery(g)
  <2>1. /\ CallTypes' /\ Alone(g) /\ Ends(g) /\ op[g] \in DeliverCalls /\ Delivering(g, "once")
        /\ promise' = promise /\ future' = future
    BY <1>2, RefuseDeliveryDoes DEF Moves, Alone, promiseVars
  <2>2. NoDeliver(g) /\ NoDeliver(g)'
    BY <2>1, EndsHoldsNothing DEF NoDeliver, Settling, Delivering, InCall
  <2>3. op[g] # Exited /\ op'[g] # Exited
    BY <2>1, OneKind, EndsHoldsNothing
  <2> QED
    BY <2>1, <2>2, <2>3, PromiseUnchangedKeeps, FutureUnchangedKeeps DEF AwaitStepKeeps
<1>3. CASE StoreDelivered(g)
  <2>1. /\ Delivering(g, "store") /\ future' = future
        /\ CallTypes' /\ Alone(g) /\ op[g] \in DeliverCalls
    BY <1>3, StoreDeliveredDoes DEF Moves, Alone
  <2>2. PICK r \in PromiseRecords :
          /\ r.done = promise[p].done
          /\ PromiseBecomes(p, r)
          /\ \/ r.once = OnceDone /\ Ends(g)
             \/ r.once = promise[p].once /\ DeliverGoesOn(g, "close")
    BY <1>3, StoreDeliveredDoes
  <2>3. p \in Promises /\ promise[p].once = g /\ ~promise[p].done
    BY <1>0, <2>1 DEF DeliverCalls, IInv, PromiseInv, Settling
  <2>4. CASE r.once = OnceDone /\ Ends(g)
    <3>1. NoDeliver(g)' /\ op'[g] # Exited /\ op[g] # Exited
      BY <2>1, <2>4, EndsHoldsNothing, OneKind
    <3>2. PromiseInv'
      BY <2>1, <2>2, <2>3, <2>4, <3>1, PromiseStoredKeeps DEF NoDeliver
    <3> QED
      BY <2>1, <2>4, <3>1, <3>2, FutureUnchangedKeeps DEF AwaitStepKeeps
  <2>5. CASE r.once = promise[p].once /\ DeliverGoesOn(g, "close")
    <3>1. op'[g] \in DeliverCalls /\ op'[g].at = "close" /\ op'[g].obj = p
      BY <2>5 DEF DeliverGoesOn
    <3>2. Settling(g)'
      BY <3>1 DEF Settling, Delivering, InCall, DeliverCalls
    <3>3. PromiseInv'
      BY <2>1, <2>2, <2>3, <2>5, <3>1, <3>2, PromiseStoredKeeps
    <3>4. op'[g] # Exited /\ op[g] # Exited
      BY <2>1, <3>1, OneKind, OneKindNext
    <3> QED
      BY <2>1, <3>1, <3>3, <3>4, FutureUnchangedKeeps DEF AwaitStepKeeps
  <2> QED
    BY <2>2, <2>4, <2>5
<1>4. CASE CloseDone(g)
  <2>1. /\ Delivering(g, "close") /\ future' = future
        /\ CallTypes' /\ Alone(g) /\ Ends(g) /\ op[g] \in DeliverCalls
    BY <1>4, CloseDoneDoes DEF Moves, Alone
  <2>2. PICK r \in PromiseRecords : /\ r.done /\ r.once = OnceDone /\ r.val = promise[p].val
                                    /\ PromiseBecomes(p, r)
    BY <1>4, CloseDoneDoes
  <2>3. promise[p].once = g
    BY <2>1 DEF IInv, PromiseInv, Settling
  <2>4. NoDeliver(g)' /\ op'[g] # Exited /\ op[g] # Exited
    BY <2>1, EndsHoldsNothing, OneKind
  <2>5. PromiseInv'
    BY <2>1, <2>2, <2>3, <2>4, PromiseStoredKeeps DEF NoDeliver
  <2> QED
    BY <2>1, <2>4, <2>5, FutureUnchangedKeeps DEF AwaitStepKeeps
<1>5. CASE Await(g) \/ TimeOut(g)
  <2>1. /\ CallTypes' /\ Alone(g) /\ Ends(g) /\ op[g] \in AwaitCalls
        /\ promise' = promise /\ future' = future
    BY <1>5, AwaitDoes, TimeOutDoes DEF Moves, Learns, Alone, promiseVars
  <2>2. NoDeliver(g) /\ NoDeliver(g)'
    BY <2>1, EndsHoldsNothing, OneKind
  <2>3. op[g] # Exited /\ op'[g] # Exited
    BY <2>1, OneKind, EndsHoldsNothing
  <2> QED
    BY <2>1, <2>2, <2>3, PromiseUnchangedKeeps, FutureUnchangedKeeps DEF AwaitStepKeeps
<1>6. CASE StoreResult(g)
  <2>1. /\ g \in Workers /\ op[g] \in Endings /\ op'[g] \in Endings /\ CallTypes' /\ Alone(g)
        /\ promise' = promise /\ future' \in [Futures -> FutureRecords]
        /\ \A f \in Futures : future'[f].done = future[f].done
    BY <1>6, StoreResultDoes DEF Moves, Alone
  <2>2. NoDeliver(g) /\ NoDeliver(g)'
    BY <2>1, OneKind, OneKindNext
  <2>3. op[g] # Exited /\ op'[g] # Exited
    <3>1. op[g].at # "exited" /\ op'[g].at # "exited"
      BY <2>1, WhereResting
    <3> QED
      BY <3>1, WhereResting
  <2>4. \A w \in Workers : w \in G /\ FutureOf[w] \in Futures
    BY CallsAssumption DEF Futures
  <2>5. FutureInv'
    <3>1. ASSUME NEW w \in Workers
          PROVE  future'[FutureOf[w]].done <=> op'[w] = Exited
      <4>1. future'[FutureOf[w]].done = future[FutureOf[w]].done
        BY <2>1, <2>4
      <4>2. op'[w] = Exited <=> op[w] = Exited
        BY <2>1, <2>3, <2>4 DEF Alone
      <4> QED
        BY <4>1, <4>2 DEF IInv, FutureInv
    <3> QED
      BY <2>1, <3>1 DEF FutureInv, FutureRecords
  <2> QED
    BY <2>1, <2>2, <2>5, PromiseUnchangedKeeps DEF AwaitStepKeeps
<1>7. CASE CloseFuture(g)
  <2>1. /\ g \in Workers /\ op[g] \in Endings /\ op'[g] = Exited /\ CallTypes' /\ Alone(g)
        /\ promise' = promise /\ future' \in [Futures -> FutureRecords]
        /\ \A f \in Futures \ {FutureOf[g]} : future'[f] = future[f]
        /\ future'[FutureOf[g]].done
    BY <1>7, CloseFutureDoes DEF Moves, Alone
  <2>2. NoDeliver(g) /\ NoDeliver(g)'
    BY <2>1, OneKind, OneKindNext
  <2>4. \A w \in Workers : w \in G /\ FutureOf[w] \in Futures /\ (FutureOf[w] = FutureOf[g] => w = g)
    BY <2>1, CallsAssumption, PromiseAssumption DEF Futures
  <2>5. FutureInv'
    <3>1. ASSUME NEW w \in Workers
          PROVE  future'[FutureOf[w]].done <=> op'[w] = Exited
      <4>1. CASE w = g
        BY <2>1, <4>1
      <4>2. CASE w # g
        <5>1. future'[FutureOf[w]] = future[FutureOf[w]]
          BY <2>1, <2>4, <4>2
        <5>2. op'[w] = op[w]
          BY <2>1, <2>4, <4>2 DEF Alone
        <5> QED
          BY <5>1, <5>2 DEF IInv, FutureInv
      <4> QED
        BY <4>1, <4>2
    <3> QED
      BY <2>1, <3>1 DEF FutureInv, FutureRecords
  <2> QED
    BY <2>1, <2>2, <2>5, PromiseUnchangedKeeps DEF AwaitStepKeeps
<1> QED
  BY <1>1, <1>2, <1>3, <1>4, <1>5, <1>6, <1>7 DEF PromiseStep

-----------------------------------------------------------------------------
(* A goroutine begins a call, or a worker is made.                         *)

\* A call that has begun holds nothing.
LEMMA NewCalls ==
  ASSUME NEW c \in AllCalls
  PROVE  /\ c \in Calling /\ c.at \in {"seqMtx", "once", "check", "wait"}
         /\ c.at = "seqMtx" => c.cur = c.obj
<1>1. ASSUME NEW s \in LazySeqs, c = SeqCall(s)
      PROVE  c \in SeqCalls /\ c.at = "seqMtx" /\ c.cur = c.obj
  BY <1>1 DEF SeqCall, SeqCalls, Links
<1>2. ASSUME NEW m \in MappedSeqs, c = RealizeCall(m)
      PROVE  c \in MapCalls /\ c.at = "once"
  BY <1>2 DEF RealizeCall, MapCalls
<1>3. ASSUME NEW d \in Delays, c = ForceCall(d)
      PROVE  c \in ForceCalls /\ c.at = "check"
  BY <1>3 DEF ForceCall, ForceCalls
<1>4. ASSUME NEW p \in Promises, NEW v \in Delivered, c = DeliverCall(p, v)
      PROVE  c \in DeliverCalls /\ c.at = "once"
  BY <1>4 DEF DeliverCall, DeliverCalls
<1>5. ASSUME NEW o \in Promises \cup Futures, NEW timed \in BOOLEAN, c = AwaitCall(o, timed)
      PROVE  c \in AwaitCalls /\ c.at = "wait"
  BY <1>5 DEF AwaitCall, AwaitCalls
<1> QED
  BY <1>1, <1>2, <1>3, <1>4, <1>5 DEF AllCalls, Calling

\* Nobody holds anything more or less, and the call or the future is as it was.
LEMMA HoldNothing ==
  ASSUME IInv, UNCHANGED <<lazy, mapped, delay, promiseVars>>,
         \A h \in G : \/ op'[h] = op[h]
                      \/ /\ op[h].at \in {"idle", "unborn"}
                         /\ op'[h].at \in {"idle", "seqMtx", "once", "check", "wait"}
                         /\ op'[h].at = "seqMtx" => op'[h].cur = op'[h].obj
  PROVE  LazyInv' /\ MappedInv' /\ DelayInv' /\ PromiseInv' /\ FutureInv'
<1>1. \A h \in G : op'[h] = op[h]
        \/ (~Seeking(h) /\ ~Seeking(h)' /\ (In(h, "seqMtx")' => op'[h].cur = op'[h].obj))
  BY DEF Seeking, In, InCall
<1>2. \A h \in G : op'[h] = op[h] \/ (NoMap(h) /\ NoMap(h)')
  BY DEF NoMap, Mapping, InCall
<1>3. \A h \in G : op'[h] = op[h] \/ (NoForce(h) /\ NoForce(h)')
  BY DEF NoForce, Forcing, InCall
<1>4. \A h \in G : op'[h] = op[h] \/ (NoDeliver(h) /\ NoDeliver(h)')
  BY DEF NoDeliver, Settling, Delivering, InCall
<1>5. \A h \in G : op'[h] = op[h] \/ (op[h] # Exited /\ op'[h] # Exited)
  BY WhereResting
<1> QED
  BY <1>1, <1>2, <1>3, <1>4, <1>5, LazyKept, MappedKept, DelayKept, PromiseKept, FutureKept
     DEF IInv, promiseVars

LEMMA StartKeeps ==
  ASSUME IInv, NEW g \in G, Start(g)
  PROVE  IInv' /\ got' = got /\ UNCHANGED <<lazy, mapped, delay, promiseVars>>
<1>1. UNCHANGED <<lazy, mapped, delay>>
  BY DEF Start
<1>2. ASSUME NEW c \in AllCalls, Begin(g, c), UNCHANGED promiseVars
      PROVE  IInv' /\ got' = got
  <2>1. op[g] = Idle /\ op' = [op EXCEPT ![g] = c] /\ got' = got
    BY <1>2 DEF Begin
  <2>2. /\ c \in Calling /\ c.at \in {"seqMtx", "once", "check", "wait"}
        /\ c.at = "seqMtx" => c.cur = c.obj
    BY NewCalls
  <2>3. CallTypes'
    BY <2>1, <2>2 DEF IInv, CallTypes
  <2>4. op[g].at = "idle" /\ op'[g] = c /\ \A h \in G \ {g} : op'[h] = op[h]
    BY <2>1, WhereResting DEF IInv, CallTypes
  <2>5. LazyInv' /\ MappedInv' /\ DelayInv' /\ PromiseInv' /\ FutureInv'
    BY <1>1, <1>2, <2>2, <2>4, HoldNothing
  <2> QED
    BY <2>1, <2>3, <2>5 DEF IInv
<1>3. ASSUME NEW w \in Workers, Submit(g, w)
      PROVE  IInv' /\ got' = got /\ UNCHANGED promiseVars
  <2>1. op[w] = Unborn /\ op' = [op EXCEPT ![w] = Idle] /\ got' = got /\ UNCHANGED promiseVars
    BY <1>3 DEF Submit
  <2>2. w \in G /\ Idle \in Resting
    BY CallsAssumption DEF Resting
  <2>3. CallTypes'
    BY <2>1, <2>2 DEF IInv, CallTypes
  <2>4. op[w].at = "unborn" /\ op'[w].at = "idle" /\ \A h \in G \ {w} : op'[h] = op[h]
    BY <2>1, <2>2, WhereResting DEF IInv, CallTypes
  <2>5. LazyInv' /\ MappedInv' /\ DelayInv' /\ PromiseInv' /\ FutureInv'
    BY <1>1, <2>1, <2>4, HoldNothing
  <2> QED
    BY <2>1, <2>3, <2>5 DEF IInv
<1> QED
  BY <1>1, <1>2, <1>3 DEF Start

-----------------------------------------------------------------------------
(* Type correctness.                                                       *)

LEMMA InitInv ==
  ASSUME Init
  PROVE  IInv
<1> USE DEF Init, CallsInit, LazyInit, MappedInit, DelayInit, PromiseInit
<1>1. \A g \in G : op[g] = IF g \in Workers THEN Unborn ELSE Idle
  OBVIOUS
<1>2. CallTypes
  BY DEF CallTypes, Resting
<1>3. \A g \in G : op[g].at \in {"idle", "unborn"} /\ op[g] # Exited
  BY <1>1, WhereResting
<1>4. \A g \in G : NoSeq(g) /\ NoMap(g) /\ NoForce(g) /\ NoDeliver(g)
  BY <1>1, OneKind
<1>5. LazyInv
  <2>1. NewLazySeq \in LazyRecords
    BY DEF NewLazySeq, LazyRecords, Links
  <2>2. \A s \in LazySeqs : lazy[s] = NewLazySeq
    OBVIOUS
  <2>3. /\ NewLazySeq.fn /\ NewLazySeq.sv = Nil /\ NewLazySeq.seq = Nil
        /\ NewLazySeq.realizeMtx = NoOne /\ NewLazySeq.seqMtx = NoOne
        /\ NewLazySeq.produced = Pending
    BY DEF NewLazySeq
  <2>4. lazy \in [LazySeqs -> LazyRecords]
    BY <2>1
  <2>5. SeqMtxHeld /\ NothingUnrun
    BY <1>4, <2>2, <2>3 DEF SeqMtxHeld, NoSeq, NothingUnrun
  <2>6. \A g \in G : \A at \in {"seqMtx", "realizeMtx", "body", "read", "take", "store"} : ~In(g, at)
    BY <1>3 DEF In, InCall
  <2>7. RealizeMtxHeld
    BY <2>2, <2>3, <2>6 DEF RealizeMtxHeld
  <2>8. SeqPositions
    BY <1>4, <2>6 DEF SeqPositions, NoSeq
  <2> QED
    BY <2>4, <2>5, <2>7, <2>8 DEF LazyInv
<1>6. MappedInv
  <2>1. \A m \in MappedSeqs : mapped[m].once = NoOne /\ mapped[m].value = Nil
    BY DEF NewMappedSeq
  <2>2. mapped \in [MappedSeqs -> [once : G \cup {NoOne, OnceDone}, value : MappedValues \cup {Nil}]]
    BY DEF NewMappedSeq
  <2> QED
    BY <1>4, <2>1, <2>2, CallsAssumption DEF MappedInv, NoMap
<1>7. DelayInv
  <2>1. \A d \in Delays : delay[d].mtx = NoOne
    BY DEF NewDelay
  <2>2. delay \in [Delays -> [fn : BOOLEAN, val : DelayValues \cup {Nil}, exception : Exceptions \cup {Nil},
                              mtx : G \cup {NoOne, NoMutex}]]
    BY DEF NewDelay
  <2>3. NoOne \notin G /\ NoOne # NoMutex
    BY CallsAssumption, DeferredAssumption
  <2> QED
    BY <1>4, <2>1, <2>2, <2>3 DEF DelayInv, NoForce
<1>8. PromiseInv
  <2>1. \A p \in Promises : promise[p].once = NoOne /\ ~promise[p].done
    BY DEF NewPromise
  <2>2. promise \in [Promises -> [once : G \cup {NoOne, OnceDone}, val : Delivered \cup {Nil},
                                  done : BOOLEAN]]
    BY DEF NewPromise
  <2> QED
    BY <1>4, <2>1, <2>2, CallsAssumption DEF PromiseInv, NoDeliver
<1>9. FutureInv
  <2>1. \A f \in Futures : ~future[f].done
    BY DEF NewFuture
  <2>2. future \in [Futures -> [res : Results, done : BOOLEAN]]
    BY DEF NewFuture, Results
  <2> QED
    BY <1>3, <2>1, <2>2, CallsAssumption DEF FutureInv, Futures
<1> QED
  BY <1>2, <1>5, <1>6, <1>7, <1>8, <1>9 DEF IInv

LEMMA ContinueKeeps ==
  ASSUME IInv, NEW g \in G, Continue(g)
  PROVE  IInv'
<1>1. CASE LazySeqStep(g) /\ UNCHANGED <<mapped, delay, promiseVars>>
  BY <1>1, LazySeqStepKeeps, SeqAlone DEF SeqStepKeeps, IInv
<1>2. CASE MappedStep(g) /\ UNCHANGED <<lazy, delay, promiseVars>>
  BY <1>2, MappedStepKeeps, MapAlone DEF MapStepKeeps, IInv
<1>3. CASE DelayStep(g) /\ UNCHANGED <<lazy, mapped, promiseVars>>
  BY <1>3, DelayStepKeeps, ForceAlone DEF ForceStepKeeps, IInv
<1>4. CASE PromiseStep(g) /\ UNCHANGED <<lazy, mapped, delay>>
  BY <1>4, PromiseStepKeeps, PromiseAlone DEF AwaitStepKeeps, IInv
<1> QED
  BY <1>1, <1>2, <1>3, <1>4 DEF Continue

LEMMA StutterKeeps ==
  ASSUME IInv, UNCHANGED vars
  PROVE  IInv'
BY DEF vars, callVars, promiseVars, IInv, CallTypes, LazyInv, MappedInv, DelayInv, PromiseInv, FutureInv,
       SeqMtxHeld, RealizeMtxHeld, SeqPositions, NothingUnrun, Seeking, Settling, In, Mapping, Forcing,
       Delivering, InCall

\* What is true of the locks and of the calls stays true.
THEOREM Invariance == Spec => []IInv
<1>1. IInv /\ [Next]_vars => IInv'
  BY StartKeeps, ContinueKeeps, StutterKeeps DEF Next
<1> QED
  BY <1>1, InitInv, PTL DEF Spec

LEMMA TypesHold ==
  ASSUME IInv
  PROVE  TypeOK
<1>0. NoOne \notin G
  BY CallsAssumption
<1>1. got \in [Objects -> SUBSET (Colls \cup MappedValues \cup DelayValues \cup Delivered \cup Promises
                                    \cup Exceptions \cup {Nil, TimedOut})]
  <2>1. Results \cup Exceptions = Colls \cup MappedValues \cup DelayValues \cup Delivered \cup Promises
                                    \cup Exceptions \cup {Nil, TimedOut}
    BY DEF Results
  <2> QED
    BY <2>1 DEF IInv, CallTypes
<1>2. ASSUME NEW s \in LazySeqs
      PROVE  /\ lazy[s].realizeMtx # NoOne =>
                  LET g == lazy[s].realizeMtx
                  IN op[g].at \in {"body", "read"} /\ op[g].cur = s
             /\ lazy[s].seqMtx # NoOne => op[lazy[s].seqMtx].obj = s
  BY DEF IInv, LazyInv, SeqMtxHeld, RealizeMtxHeld, In, InCall
<1>3. \A g \in G : In(g, "body") => lazy[op[g].cur].realizeMtx = g
  BY DEF IInv, LazyInv, RealizeMtxHeld
<1>4. \A m \in MappedSeqs :
        mapped[m].once \in {NoOne, OnceDone} \cup {g \in G : Mapping(g, "apply") /\ op[g].obj = m}
  BY DEF IInv, MappedInv
<1>5. \A d \in Delays : delay[d].mtx \in {NoOne, NoMutex} \cup {g \in G : Forcing(g, "body")}
  BY DEF IInv, DelayInv
<1>6. \A p \in Promises :
        promise[p].once \in {NoOne, OnceDone} \cup
          {g \in G : Delivering(g, "store") \/ Delivering(g, "close")}
  BY DEF IInv, PromiseInv, Settling
<1> QED
  BY <1>1, <1>2, <1>3, <1>4, <1>5, <1>6 DEF TypeOK

\* Every variable keeps its type, and no panic leaves a lock of a lazy sequence, an
\* element of map, a delay or a promise behind, whoever calls what in which order.
THEOREM TypeCorrect == Spec => []TypeOK
BY Invariance, TypesHold, PTL

-----------------------------------------------------------------------------
(* What a body has returned stays.                                         *)

ProducedStays == \A s \in LazySeqs : lazy[s].produced # Pending => lazy'[s].produced = lazy[s].produced
MappedStays == \A m \in MappedSeqs : mapped[m].once = OnceDone => mapped'[m] = mapped[m]
DelayStays == \A d \in Delays : ~delay[d].fn => delay'[d].val = delay[d].val /\ ~delay'[d].fn

LEMMA SeqStepReturnsOnce ==
  ASSUME IInv, NEW g \in G, LazySeqStep(g)
  PROVE  ProducedStays
<1> USE DEF ProducedStays
<1>1. CASE LockSeq(g) BY <1>1, LockSeqDoes DEF SameBody
<1>2. CASE Realize(g) BY <1>2, RealizeDoes DEF SameBody
<1>3. CASE BodyReturns(g)
  <2>1. op[g].cur \in LazySeqs /\ lazy[op[g].cur].fn
    BY <1>3, BodyReturnsDoes
  <2>2. lazy[op[g].cur].produced = Pending
    BY <2>1 DEF IInv, LazyInv, NothingUnrun
  <2>3. \A t \in LazySeqs : t # op[g].cur => SameBody(t)
    BY <1>3, BodyReturnsDoes
  <2> QED
    BY <2>2, <2>3 DEF SameBody
<1>4. CASE BodyPanics(g) BY <1>4, BodyPanicsDoes DEF EndsSeq
<1>5. CASE ReadValue(g) BY <1>5, ReadOwnDoes, ReadInnerDoes DEF LeavesRealize, SameBody
<1>6. CASE TornRead(g) BY <1>6, TornReadDoes DEF EndsSeq
<1>7. CASE Take(g) BY <1>7, TakeNothingDoes, TakeDoes DEF EndsSeq
<1>8. CASE Store(g) BY <1>8, StoreDoes DEF EndsSeq
<1> QED
  BY <1>1, <1>2, <1>3, <1>4, <1>5, <1>6, <1>7, <1>8 DEF LazySeqStep

LEMMA MappedStepReturnsOnce ==
  ASSUME IInv, NEW g \in G, MappedStep(g)
  PROVE  MappedStays
<1> USE DEF MappedStays
<1>0. OnceDone \notin G /\ NoOne # OnceDone
  BY DeferredAssumption
<1>1. CASE EnterValueOnce(g)
  BY <1>0, <1>1, EnterValueOnceDoes DEF MappedBecomes
<1>2. CASE FunctionReturns(g) \/ FunctionPanics(g)
  <2>1. Applied(g)
    BY <1>2, FunctionReturnsDoes, FunctionPanicsDoes
  <2>2. mapped[op[g].obj].once = g
    BY <2>1 DEF Applied, IInv, MappedInv
  <2> QED
    BY <1>0, <2>1, <2>2 DEF Applied, MappedBecomes
<1>3. CASE MappedResult(g)
  BY <1>3, MappedResultDoes
<1> QED
  BY <1>1, <1>2, <1>3 DEF MappedStep

LEMMA DelayStepReturnsOnce ==
  ASSUME IInv, NEW g \in G, DelayStep(g)
  PROVE  DelayStays
<1> USE DEF DelayStays
<1>1. CASE CheckMutex(g) BY <1>1, CheckMutexDoes
<1>2. CASE LockDelay(g) BY <1>2, LockDelayDoes DEF DelayBecomes
<1>3. CASE DelayBodyReturns(g) \/ DelayBodyPanics(g)
  <2>1. Forcing(g, "body") /\ \A d \in Delays \ {op[g].obj} : delay'[d] = delay[d]
    BY <1>3, DelayBodyReturnsDoes, DelayBodyPanicsDoes DEF DelayBecomes
  <2>2. delay[op[g].obj].fn
    BY <2>1 DEF IInv, DelayInv
  <2> QED
    BY <2>1, <2>2
<1>4. CASE ForceResult(g) BY <1>4, ForceResultDoes
<1>5. CASE TornException(g) BY <1>5, TornExceptionDoes
<1> QED
  BY <1>1, <1>2, <1>3, <1>4, <1>5 DEF DelayStep

\* No body and no function of map is run again once it has returned, and nothing replaces
\* what it has returned.
THEOREM BodiesRunOnce == Spec => BodiesReturnOnce
<1>1. ASSUME IInv, [Next]_vars
      PROVE  ProducedStays /\ MappedStays /\ DelayStays
  <2> USE DEF ProducedStays, MappedStays, DelayStays
  <2>1. ASSUME NEW g \in G, Start(g)
        PROVE  ProducedStays /\ MappedStays /\ DelayStays
    BY <1>1, <2>1, StartKeeps
  <2>2. ASSUME NEW g \in G, Continue(g)
        PROVE  ProducedStays /\ MappedStays /\ DelayStays
    BY <1>1, <2>2, SeqStepReturnsOnce, MappedStepReturnsOnce, DelayStepReturnsOnce DEF Continue
  <2>3. ASSUME UNCHANGED vars
        PROVE  ProducedStays /\ MappedStays /\ DelayStays
    BY <2>3 DEF vars
  <2> QED
    BY <1>1, <2>1, <2>2, <2>3 DEF Next
<1>2. IInv /\ [Next]_vars =>
        [/\ \A s \in LazySeqs : lazy[s].produced # Pending => lazy'[s].produced = lazy[s].produced
         /\ \A m \in MappedSeqs : mapped[m].once = OnceDone => mapped'[m] = mapped[m]
         /\ \A d \in Delays : ~delay[d].fn => delay'[d].val = delay[d].val /\ ~delay'[d].fn]_vars
  BY <1>1 DEF ProducedStays, MappedStays, DelayStays
<1> QED
  BY <1>2, Invariance, PTL DEF Spec, BodiesReturnOnce

-----------------------------------------------------------------------------
(* The cells that are set once.                                            *)

\* The outcome of an object of each kind, before and after.
LEMMA OutcomeOf ==
  ASSUME NEW o \in Objects
  PROVE  /\ o \in LazySeqs =>
              /\ Outcome(o) = IF Settled(o) THEN lazy[o].seq ELSE Pending
              /\ Outcome(o)' = IF Settled(o)' THEN lazy'[o].seq ELSE Pending
         /\ o \in MappedSeqs =>
              /\ Outcome(o) = IF mapped[o].once = OnceDone THEN mapped[o].value ELSE Pending
              /\ Outcome(o)' = IF mapped'[o].once = OnceDone THEN mapped'[o].value ELSE Pending
         /\ o \in Delays =>
              /\ Outcome(o) = IF delay[o].exception # Nil THEN delay[o].exception
                              ELSE IF delay[o].fn THEN Pending ELSE delay[o].val
              /\ Outcome(o)' = IF delay'[o].exception # Nil THEN delay'[o].exception
                               ELSE IF delay'[o].fn THEN Pending ELSE delay'[o].val
         /\ o \in Promises =>
              /\ Outcome(o) = IF promise[o].done THEN promise[o].val ELSE Pending
              /\ Outcome(o)' = IF promise'[o].done THEN promise'[o].val ELSE Pending
         /\ o \in Futures =>
              /\ Outcome(o) = IF future[o].done THEN future[o].res ELSE Pending
              /\ Outcome(o)' = IF future'[o].done THEN future'[o].res ELSE Pending
<1>1. CASE o \in LazySeqs
  <2>1. o \notin MappedSeqs /\ o \notin Delays /\ o \notin Promises /\ o \notin Futures
    BY <1>1, DeferredAssumption
  <2> QED
    BY <1>1, <2>1 DEF Outcome
<1>2. CASE o \in MappedSeqs
  <2>1. o \notin LazySeqs /\ o \notin Delays /\ o \notin Promises /\ o \notin Futures
    BY <1>2, DeferredAssumption
  <2> QED
    BY <1>2, <2>1 DEF Outcome
<1>3. CASE o \in Delays
  <2>1. o \notin LazySeqs /\ o \notin MappedSeqs /\ o \notin Promises /\ o \notin Futures
    BY <1>3, DeferredAssumption
  <2> QED
    BY <1>3, <2>1 DEF Outcome
<1>4. CASE o \in Promises
  <2>1. o \notin LazySeqs /\ o \notin MappedSeqs /\ o \notin Delays /\ o \notin Futures
    BY <1>4, DeferredAssumption
  <2>2. /\ Cell(o).done = promise[o].done /\ Cell(o).val = promise[o].val
        /\ Cell(o)'.done = promise'[o].done /\ Cell(o)'.val = promise'[o].val
    BY <1>4 DEF Cell
  <2> QED
    BY <1>4, <2>1, <2>2 DEF Outcome
<1>5. CASE o \in Futures
  <2>1. o \notin LazySeqs /\ o \notin MappedSeqs /\ o \notin Delays /\ o \notin Promises
    BY <1>5, DeferredAssumption
  <2>2. /\ Cell(o).done = future[o].done /\ Cell(o).val = future[o].res
        /\ Cell(o)'.done = future'[o].done /\ Cell(o)'.val = future'[o].res
    BY <2>1 DEF Cell
  <2> QED
    BY <1>5, <2>1, <2>2 DEF Outcome
<1> QED
  BY <1>1, <1>2, <1>3, <1>4, <1>5, DeferredAssumption

\* What has an outcome has one that a call may return or rethrow.
CellOutcomes ==
  Colls \cup MappedValues \cup DelayValues \cup Delivered \cup Objects \cup Exceptions
    \cup {Nil, TimedOut}

LEMMA ResultsAreOutcomes == Results \subseteq CellOutcomes /\ Pending \notin CellOutcomes
<1>1. Promises \subseteq Objects
  BY PromiseAssumption
<1>2. Pending \notin CellOutcomes
  BY DeferredAssumption DEF CellOutcomes
<1> QED
  BY <1>1, <1>2 DEF Results, CellOutcomes

LEMMA OutcomesAreOutcomes ==
  ASSUME IInv, NEW o \in Objects
  PROVE  Outcome(o) \in CellOutcomes \cup {Pending}
<1>1. CASE o \in LazySeqs
  <2>1. lazy[o].seq \in Colls \cup {Nil}
    BY <1>1 DEF IInv, LazyInv, LazyRecords
  <2> QED
    BY <1>1, <2>1, OutcomeOf DEF CellOutcomes
<1>2. CASE o \in MappedSeqs
  <2>1. mapped[o].value \in MappedValues \cup {Nil}
    BY <1>2 DEF IInv, MappedInv
  <2> QED
    BY <1>2, <2>1, OutcomeOf DEF CellOutcomes
<1>3. CASE o \in Delays
  <2>1. delay[o].val \in DelayValues \cup {Nil} /\ delay[o].exception \in Exceptions \cup {Nil}
    BY <1>3 DEF IInv, DelayInv
  <2> QED
    BY <1>3, <2>1, OutcomeOf DEF CellOutcomes
<1>4. CASE o \in Promises
  <2>1. promise[o].val \in Delivered \cup {Nil}
    BY <1>4 DEF IInv, PromiseInv
  <2> QED
    BY <1>4, <2>1, OutcomeOf DEF CellOutcomes
<1>5. CASE o \in Futures
  <2>1. future[o].res \in Results
    BY <1>5 DEF IInv, FutureInv
  <2> QED
    BY <1>5, <2>1, OutcomeOf, ResultsAreOutcomes
<1> QED
  BY <1>1, <1>2, <1>3, <1>4, <1>5, DeferredAssumption

Same(o) == Outcome(o)' = Outcome(o)

\* A delay that has thrown an exception has another one.
FailsAgain(o) ==
  o \in Delays /\ Outcome(o) \in Exceptions /\ Outcome(o)' \in Exceptions /\ got' = got

\* The step settles o, or answers a call on it, or replaces its exception, or does nothing
\* that a caller could tell; and so much of the other objects of S.
CellStays(S, o) ==
  /\ \A p \in S \ {o} : Same(p)
  /\ Outcome(o) # Pending => Same(o) \/ FailsAgain(o)
  /\ \/ got' = got
     \/ got' = [got EXCEPT ![o] = @ \cup {Outcome(o)'}] /\ Outcome(o)' # Pending

\* What a component that does not move leaves.
LEMMA LazySame ==
  ASSUME lazy' = lazy, \A h \in G : op'[h] = op[h] \/ (~Seeking(h) /\ ~Seeking(h)')
  PROVE  \A s \in LazySeqs : Same(s)
<1>1. ASSUME NEW s \in LazySeqs
      PROVE  Taken(s)' <=> Taken(s)
  BY DEF Taken, Seeking, In, InCall
<1>2. \A s \in LazySeqs : Settled(s)' <=> Settled(s)
  BY <1>1 DEF Settled
<1> QED
  BY <1>2, OutcomeOf, LazySeqAssumption DEF Same

LEMMA MappedSame == mapped' = mapped => \A m \in MappedSeqs : Same(m)
BY OutcomeOf, MappedAssumption DEF Same

LEMMA DelaySame == delay' = delay => \A d \in Delays : Same(d)
BY OutcomeOf, DelayAssumption DEF Same

LEMMA PromiseSame == promise' = promise => \A p \in Promises : Same(p)
BY OutcomeOf, PromiseAssumption DEF Same

LEMMA FutureSame == future' = future => \A f \in Futures : Same(f)
BY OutcomeOf, PromiseAssumption DEF Same, Futures

\* A call that starts has not come to any object yet.
LEMMA StartMoves ==
  ASSUME IInv, NEW g \in G, Start(g)
  PROVE  \A h \in G : op'[h] = op[h] \/ (~Seeking(h) /\ ~Seeking(h)')
<1>1. ASSUME NEW c \in AllCalls, Begin(g, c)
      PROVE  \A h \in G : op'[h] = op[h] \/ (~Seeking(h) /\ ~Seeking(h)')
  <2>1. op[g] = Idle /\ op' = [op EXCEPT ![g] = c]
    BY <1>1 DEF Begin
  <2>2. op[g].at = "idle" /\ op'[g].at \in {"seqMtx", "once", "check", "wait"}
    BY <2>1, NewCalls, WhereResting DEF IInv, CallTypes
  <2>3. \A h \in G \ {g} : op'[h] = op[h]
    BY <2>1 DEF IInv, CallTypes
  <2> QED
    BY <2>2, <2>3 DEF Seeking, In, InCall
<1>2. ASSUME NEW w \in Workers, Submit(g, w)
      PROVE  \A h \in G : op'[h] = op[h] \/ (~Seeking(h) /\ ~Seeking(h)')
  <2>1. op[w] = Unborn /\ op' = [op EXCEPT ![w] = Idle] /\ w \in G
    BY <1>2, CallsAssumption DEF Submit
  <2>2. op[w].at = "unborn" /\ op'[w].at = "idle"
    BY <2>1, WhereResting DEF IInv, CallTypes
  <2>3. \A h \in G \ {w} : op'[h] = op[h]
    BY <2>1 DEF IInv, CallTypes
  <2> QED
    BY <2>2, <2>3 DEF Seeking, In, InCall
<1> QED
  BY <1>1, <1>2 DEF Start

LEMMA StartCell ==
  ASSUME IInv, NEW g \in G, Start(g)
  PROVE  got' = got /\ \A o \in Objects : Same(o)
<1>1. got' = got /\ UNCHANGED <<lazy, mapped, delay, promiseVars>>
  BY StartKeeps
<1>2. \A h \in G : op'[h] = op[h] \/ (~Seeking(h) /\ ~Seeking(h)')
  BY StartMoves
<1> QED
  BY <1>1, <1>2, LazySame, MappedSame, DelaySame, PromiseSame, FutureSame, DeferredAssumption
     DEF promiseVars

\* A lazy sequence is taken by who holds its lock, if that is past it.
LEMMA TakenNow ==
  ASSUME IInv, NEW g \in G, Seeking(g), NEW o \in LazySeqs, op[g].obj = o
  PROVE  Taken(o) <=> op[g].cur # o
<1>1. \A h \in G : Seeking(h) /\ op[h].obj = o => h = g
  BY DEF IInv, LazyInv, SeqMtxHeld
<1>2. In(g, "take") => op[g].cur = o
  BY DEF IInv, LazyInv, SeqPositions
<1> QED
  BY <1>1, <1>2 DEF Taken, Seeking

LEMMA TakenNext ==
  ASSUME LazyInv', NEW g \in G, Seeking(g)', NEW o \in LazySeqs, op'[g].obj = o
  PROVE  Taken(o)' <=> op'[g].cur # o
<1>1. \A h \in G : Seeking(h)' /\ op'[h].obj = o => h = g
  BY DEF LazyInv, SeqMtxHeld
<1>2. In(g, "take")' => op'[g].cur = o
  BY DEF LazyInv, SeqPositions
<1> QED
  BY <1>1, <1>2 DEF Taken, Seeking

\* Nobody has taken it any more when that call has ended.
LEMMA TakenEnds ==
  ASSUME IInv, NEW g \in G, Seeking(g), Alone(g), Ends(g), NEW o \in LazySeqs, op[g].obj = o
  PROVE  ~Taken(o)'
<1>1. \A h \in G : Seeking(h) /\ op[h].obj = o => h = g
  BY DEF IInv, LazyInv, SeqMtxHeld
<1>2. ~Seeking(g)'
  BY EndsHoldsNothing DEF NoSeq
<1>3. \A h \in G : Seeking(h)' => h # g /\ Seeking(h) /\ op'[h] = op[h]
  BY <1>2 DEF Alone, Seeking, In, InCall
<1>4. \A h \in G : Seeking(h)' => op'[h].obj # o
  BY <1>1, <1>3
<1> QED
  BY <1>4 DEF Taken, Seeking

LEMMA TakenOthers ==
  ASSUME NEW g \in G, Alone(g),
         (op'[g] \in SeqCalls /\ op'[g].obj = op[g].obj) \/ Ends(g),
         NEW t \in LazySeqs, t # op[g].obj
  PROVE  Taken(t)' <=> Taken(t)
<1>1. Ends(g) => ~Seeking(g)'
  BY EndsHoldsNothing DEF NoSeq
<1>2. \A h \in G \ {g} : op'[h] = op[h]
  BY DEF Alone
<1>3. ASSUME NEW at \in {"realizeMtx", "body", "read", "store"}
      PROVE  ~(In(g, at) /\ op[g].obj = t) /\ ~(In(g, at)' /\ op'[g].obj = t)
  BY <1>1 DEF Seeking
<1> QED
  BY <1>2, <1>3 DEF Taken, In, InCall

\* So much of a lazy sequence decides its outcome.
SameFields(t) ==
  lazy'[t].fn = lazy[t].fn /\ lazy'[t].sv = lazy[t].sv /\ lazy'[t].seq = lazy[t].seq

LEMMA SameOutcome ==
  ASSUME NEW t \in LazySeqs, SameFields(t), Taken(t)' <=> Taken(t)
  PROVE  Same(t)
<1>1. Settled(t)' <=> Settled(t)
  BY DEF Settled, SameFields
<1>2. t \in Objects
  BY LazySeqAssumption
<1> QED
  BY <1>1, <1>2, OutcomeOf DEF Same, SameFields

\* A step of g in Seq(o) that answers nobody: it changes nothing of o that tells, or o has
\* no outcome yet.
LEMMA SeqGoesOn ==
  ASSUME IInv, NEW g \in G, NEW o \in LazySeqs, op[g].obj = o, Moves(g),
         (op'[g] \in SeqCalls /\ op'[g].obj = op[g].obj) \/ Ends(g),
         \A t \in LazySeqs \ {o} : SameFields(t),
         \/ SameFields(o) /\ (Taken(o)' <=> Taken(o))
         \/ lazy[o].fn \/ lazy[o].sv # Nil \/ Taken(o)
  PROVE  CellStays(LazySeqs, o)
<1>1. o \in Objects
  BY LazySeqAssumption
<1>2. \A t \in LazySeqs \ {o} : Same(t)
  BY TakenOthers, SameOutcome DEF Moves, Alone
<1>3. Outcome(o) # Pending => Settled(o)
  BY <1>1, OutcomeOf
<1>4. Outcome(o) # Pending => Same(o)
  BY <1>3, SameOutcome DEF Settled
<1> QED
  BY <1>2, <1>4 DEF Moves, CellStays

\* One that ends it with the sequence that is in o then.
LEMMA SeqAnswers ==
  ASSUME IInv, NEW g \in G, NEW o \in LazySeqs, op[g].obj = o, Seeking(g), Alone(g), Ends(g),
         \A t \in LazySeqs \ {o} : SameFields(t),
         ~lazy'[o].fn, lazy'[o].sv = Nil,
         NEW v \in Colls \cup {Nil}, lazy'[o].seq = v, Learns(g, v),
         SameFields(o) \/ Taken(o)
  PROVE  CellStays(LazySeqs, o)
<1>1. o \in Objects
  BY LazySeqAssumption
<1>2. \A t \in LazySeqs \ {o} : Same(t)
  BY TakenOthers, SameOutcome
<1>3. ~Taken(o)'
  BY TakenEnds
<1>4. Settled(o)'
  BY <1>3 DEF Settled
<1>5. Outcome(o)' = v
  BY <1>1, <1>4, OutcomeOf
<1>6. v # Pending
  BY DeferredAssumption
<1>7. Outcome(o) # Pending => Same(o)
  <2>1. SUFFICES ASSUME Outcome(o) # Pending PROVE Same(o)
    OBVIOUS
  <2>2. Settled(o) /\ Outcome(o) = lazy[o].seq
    BY <1>1, <2>1, OutcomeOf
  <2>3. SameFields(o)
    BY <2>2 DEF Settled
  <2> QED
    BY <1>5, <2>2, <2>3 DEF Same, SameFields
<1> QED
  BY <1>2, <1>5, <1>6, <1>7 DEF Learns, CellStays

\* The same call at the same place means the same taker.
LEMMA TakenStays ==
  ASSUME IInv, NEW g \in G, NEW o \in LazySeqs, op[g].obj = o, LazyInv',
         Seeking(g)', op'[g].obj = o, op'[g].cur = op[g].cur,
         Seeking(g) \/ (lazy[o].seqMtx = NoOne /\ op[g].cur = o)
  PROVE  Taken(o)' <=> Taken(o)
<1>1. Taken(o)' <=> op[g].cur # o
  BY TakenNext
<1>2. Taken(o) <=> op[g].cur # o
  <2>1. CASE Seeking(g)
    BY <2>1, TakenNow
  <2>2. CASE lazy[o].seqMtx = NoOne /\ op[g].cur = o
    <3>1. \A h \in G : Seeking(h) => op[h].obj # o
      BY <2>2, CallsAssumption DEF IInv, LazyInv, SeqMtxHeld
    <3> QED
      BY <2>2, <3>1 DEF Taken, Seeking
  <2> QED
    BY <2>1, <2>2
<1> QED
  BY <1>1, <1>2

LEMMA SeqMoves ==
  ASSUME IInv, NEW g \in G, NEW o \in LazySeqs, op[g].obj = o, Moves(g), LazyInv',
         Seeking(g)' /\ op'[g] \in SeqCalls, op'[g].obj = o, op'[g].cur = op[g].cur,
         Seeking(g) \/ (lazy[o].seqMtx = NoOne /\ op[g].cur = o),
         \A t \in LazySeqs : SameFields(t)
  PROVE  CellStays(LazySeqs, o)
BY TakenStays, SeqGoesOn

LEMMA LazySeqStepCell ==
  ASSUME IInv, NEW g \in G, LazySeqStep(g), NEW o \in LazySeqs, op[g].obj = o
  PROVE  \E t \in LazySeqs : CellStays(LazySeqs, t)
<1>0. LazyInv' /\ Alone(g) /\ op[g] \in SeqCalls
  BY LazySeqStepKeeps DEF SeqStepKeeps
<1>1. CASE LockSeq(g)
  <2>1. /\ op[g].cur = o /\ lazy[o].seqMtx = NoOne /\ Moves(g) /\ GoesOn(g, "realizeMtx", o)
        /\ \A t \in LazySeqs : SameFields(t)
    BY <1>1, LockSeqDoes DEF SameBody, SameFields
  <2>2. Seeking(g)' /\ op'[g] \in SeqCalls /\ op'[g].obj = o /\ op'[g].cur = op[g].cur
    BY <2>1 DEF GoesOn, SeqCalls, Seeking, In, InCall
  <2> QED
    BY <1>0, <2>1, <2>2, SeqMoves
<1>2. CASE Realize(g)
  <2>1. /\ In(g, "realizeMtx") /\ Moves(g)
        /\ GoesOn(g, IF lazy[op[g].cur].fn THEN "body" ELSE "read", op[g].cur)
        /\ \A t \in LazySeqs : SameFields(t)
    BY <1>2, RealizeDoes DEF SameBody, SameFields
  <2>2. Seeking(g)' /\ op'[g] \in SeqCalls /\ op'[g].obj = o /\ op'[g].cur = op[g].cur
    BY <2>1 DEF GoesOn, SeqCalls, Seeking, In, InCall
  <2>3. Seeking(g)
    BY <2>1 DEF Seeking
  <2> QED
    BY <1>0, <2>1, <2>2, <2>3, SeqMoves
<1>3. CASE BodyReturns(g)
  <2> DEFINE s == op[g].cur
  <2>1. /\ In(g, "body") /\ Moves(g) /\ GoesOn(g, "read", s) /\ s \in LazySeqs /\ lazy[s].fn
        /\ \A t \in LazySeqs : t # s => SameFields(t)
    BY <1>3, BodyReturnsDoes DEF SameBody, SameFields
  <2>2. Seeking(g) /\ Seeking(g)' /\ op'[g] \in SeqCalls /\ op'[g].obj = o /\ op'[g].cur = s
    BY <2>1 DEF GoesOn, SeqCalls, Seeking, In, InCall
  <2>3. CASE s = o
    BY <1>0, <2>1, <2>2, <2>3, SeqGoesOn
  <2>4. CASE s # o
    \* The step may settle the inner one, whose value is nil then.
    <3>1. op' \in [G -> Resting \cup Endings \cup Calling] /\ got' = got
      BY <2>1 DEF Moves
    <3>2. \A t \in LazySeqs \ {o, s} : Same(t)
      BY <1>0, <2>1, <2>2, TakenOthers, SameOutcome
    <3>3. Taken(o) /\ Taken(o)'
      BY <1>0, <2>2, <2>4, TakenNow, TakenNext
    <3>4. Same(o)
      BY <2>1, <2>4, <3>3, SameOutcome
    <3>5. Outcome(s) = Pending
      BY <2>1, OutcomeOf, LazySeqAssumption DEF Settled
    <3> QED
      BY <2>1, <3>1, <3>2, <3>4, <3>5 DEF CellStays
  <2> QED
    BY <2>3, <2>4
<1>4. CASE BodyPanics(g) \/ TornRead(g)
  <2>1. /\ EndsSeq(g) /\ Moves(g) /\ Seeking(g) /\ Ends(g)
        /\ \A t \in LazySeqs : SameFields(t)
        /\ In(g, "body") \/ op[g].cur # o
    BY <1>4, BodyPanicsDoes, TornReadDoes DEF EndsSeq, SameFields
  <2>2. CASE op[g].cur = o
    <3>1. lazy[o].fn
      BY <2>1, <2>2 DEF IInv, LazyInv, RealizeMtxHeld
    <3> QED
      BY <2>1, <3>1, SeqGoesOn
  <2>3. CASE op[g].cur # o
    <3>1. Taken(o)
      BY <2>1, <2>3, TakenNow
    <3> QED
      BY <2>1, <3>1, SeqGoesOn
  <2> QED
    BY <2>2, <2>3
<1>5. CASE ReadValue(g)
  <2>1. In(g, "read") /\ Seeking(g)
    BY <1>5 DEF ReadValue, Seeking
  <2>2. Moves(g) /\ \A t \in LazySeqs : SameFields(t)
    BY <1>5, ReadOwnDoes, ReadInnerDoes DEF LeavesRealize, SameBody, SameFields
  <2>3. op'[g] \in SeqCalls /\ op'[g].obj = o
    BY <1>5, ReadOwnDoes, ReadInnerDoes DEF GoesOn
  <2>4. CASE op[g].cur = o
    <3>1. GoesOn(g, "take", o)
      BY <1>5, <2>4, ReadOwnDoes
    <3>2. Seeking(g)' /\ op'[g].cur = op[g].cur
      BY <2>4, <3>1 DEF GoesOn, SeqCalls, Seeking, In, InCall
    <3> QED
      BY <1>0, <2>1, <2>2, <2>3, <3>2, SeqMoves
  <2>5. CASE op[g].cur # o
    <3>1. Taken(o)
      BY <2>1, <2>5, TakenNow
    <3> QED
      BY <2>2, <2>3, <3>1, SeqGoesOn
  <2> QED
    BY <2>4, <2>5
<1>6. CASE Take(g)
  <2>1. In(g, "take") /\ Seeking(g) /\ op[g].cur = o /\ ~lazy[o].fn
    BY <1>6, TakePosition DEF Take
  <2>2. CASE lazy[o].sv = Nil
    <3>1. /\ EndsSeq(g) /\ Ends(g) /\ Learns(g, lazy[o].seq)
          /\ \A t \in LazySeqs : SameFields(t)
      BY <1>6, <2>2, TakeNothingDoes DEF EndsSeq, SameFields
    <3>2. lazy[o].seq \in Colls \cup {Nil}
      BY DEF IInv, LazyInv, LazyRecords
    <3>3. ~lazy'[o].fn /\ lazy'[o].sv = Nil /\ lazy'[o].seq = lazy[o].seq
      BY <2>1, <2>2, <3>1 DEF SameFields
    <3> QED
      BY <1>0, <2>1, <3>1, <3>2, <3>3, SeqAnswers
  <2>3. CASE lazy[o].sv # Nil
    <3>1. Moves(g) /\ op'[g] \in SeqCalls /\ op'[g].obj = o
      BY <1>6, <2>3, TakeDoes DEF GoesOn
    <3>2. \A t \in LazySeqs \ {o} : SameFields(t)
      BY <1>6, <2>3, TakeDoes DEF SameFields
    <3> QED
      BY <2>3, <3>1, <3>2, SeqGoesOn
  <2> QED
    BY <2>2, <2>3
<1>7. CASE Store(g)
  <2>1. /\ In(g, "store") /\ EndsSeq(g) /\ Ends(g) /\ Seeking(g)
        /\ op[g].cur \in Colls \cup {Nil} /\ Learns(g, op[g].cur) /\ lazy'[o].seq = op[g].cur
    BY <1>7, StoreDoes DEF EndsSeq
  <2>2. \A t \in LazySeqs \ {o} : SameFields(t)
    BY <1>7, StoreDoes DEF EndsSeq, SameFields
  <2>3. op[g].cur # o
    BY <2>1, LazySeqAssumption
  <2>4. Taken(o) /\ ~lazy[o].fn /\ lazy[o].sv = Nil
    BY <2>1, <2>3, TakenNow DEF IInv, LazyInv, SeqPositions
  <2>5. ~lazy'[o].fn /\ lazy'[o].sv = Nil
    BY <2>1, <2>4 DEF EndsSeq
  <2> QED
    BY <1>0, <2>1, <2>2, <2>4, <2>5, SeqAnswers
<1> QED
  BY <1>1, <1>2, <1>3, <1>4, <1>5, <1>6, <1>7 DEF LazySeqStep

LEMMA MappedStepCell ==
  ASSUME IInv, NEW g \in G, MappedStep(g), NEW o \in MappedSeqs, op[g].obj = o
  PROVE  CellStays(MappedSeqs, o)
<1>0. OnceDone \notin G /\ NoOne # OnceDone /\ o \in Objects
  BY DeferredAssumption
<1>1. CASE EnterValueOnce(g)
  <2>1. /\ got' = got /\ mapped[o].once = NoOne /\ mapped'[o].once = g
        /\ \A m \in MappedSeqs \ {o} : mapped'[m] = mapped[m]
    BY <1>1, EnterValueOnceDoes DEF Moves, MappedBecomes
  <2>2. Outcome(o) = Pending
    BY <1>0, <2>1, OutcomeOf
  <2> QED
    BY <2>1, <2>2, OutcomeOf, DeferredAssumption DEF CellStays, Same
<1>2. CASE FunctionReturns(g) \/ FunctionPanics(g)
  <2>1. Applied(g)
    BY <1>2, FunctionReturnsDoes, FunctionPanicsDoes
  <2>2. mapped[o].once = g /\ got' = got /\ \A m \in MappedSeqs \ {o} : mapped'[m] = mapped[m]
    BY <2>1 DEF Applied, IInv, MappedInv, MappedBecomes
  <2>3. Outcome(o) = Pending
    BY <1>0, <2>2, OutcomeOf
  <2> QED
    BY <2>2, <2>3, OutcomeOf, DeferredAssumption DEF CellStays, Same
<1>3. CASE MappedResult(g)
  <2>1. /\ mapped' = mapped /\ mapped[o].once = OnceDone
        /\ mapped[o].value \in MappedValues \cup {Nil} /\ Learns(g, mapped[o].value)
    BY <1>3, MappedResultDoes
  <2>2. Outcome(o)' = mapped[o].value /\ mapped[o].value # Pending
    BY <1>0, <2>1, OutcomeOf, DeferredAssumption
  <2> QED
    BY <2>1, <2>2, MappedSame DEF CellStays, Learns
<1> QED
  BY <1>1, <1>2, <1>3 DEF MappedStep

LEMMA DelayStepCell ==
  ASSUME IInv, NEW g \in G, DelayStep(g), NEW o \in Delays, op[g].obj = o
  PROVE  CellStays(Delays, o)
<1>0. o \in Objects
  BY DeferredAssumption
<1>1. CASE CheckMutex(g)
  <2>1. got' = got /\ delay' = delay
    BY <1>1, CheckMutexDoes DEF ForceGoesOn, Moves
  <2> QED
    BY <2>1, DelaySame DEF CellStays
<1>2. CASE LockDelay(g)
  <2>1. got' = got /\ \A d \in Delays \ {o} : delay'[d] = delay[d]
    BY <1>2, LockDelayDoes DEF ForceGoesOn, Moves, DelayBecomes
  <2>2. delay[o] \in DelayRecords
    BY DEF IInv, DelayInv, DelayRecords
  <2>3. delay'[o] \in {delay[o], [delay[o] EXCEPT !.mtx = g]}
    BY <1>2, LockDelayDoes DEF DelayBecomes
  <2>4. /\ delay'[o].fn = delay[o].fn /\ delay'[o].val = delay[o].val
        /\ delay'[o].exception = delay[o].exception
    BY <2>2, <2>3 DEF DelayRecords
  <2> QED
    BY <2>1, <2>4, OutcomeOf, DeferredAssumption DEF CellStays, Same
<1>3. CASE DelayBodyReturns(g)
  <2>1. /\ Forcing(g, "body") /\ got' = got /\ \A d \in Delays \ {o} : delay'[d] = delay[d]
        /\ delay'[o].exception = delay[o].exception
    BY <1>3, DelayBodyReturnsDoes DEF ForceGoesOn, Moves, DelayBecomes
  <2>2. delay[o].fn
    BY <2>1 DEF IInv, DelayInv
  <2>3. Outcome(o) # Pending => Same(o)
    BY <1>0, <2>1, <2>2, OutcomeOf DEF Same
  <2> QED
    BY <2>1, <2>3, OutcomeOf, DeferredAssumption DEF CellStays, Same
<1>4. CASE DelayBodyPanics(g)
  <2>1. /\ Forcing(g, "body") /\ got' = got /\ \A d \in Delays \ {o} : delay'[d] = delay[d]
        /\ delay'[o].exception \in Exceptions
    BY <1>4, DelayBodyPanicsDoes DEF ForceGoesOn, Moves, DelayBecomes
  <2>2. delay[o].fn /\ delay[o].exception \in Exceptions \cup {Nil}
    BY <2>1 DEF IInv, DelayInv
  <2>3. Outcome(o)' \in Exceptions
    BY <1>0, <2>1, OutcomeOf, CallsAssumption
  <2>4. Outcome(o) # Pending => FailsAgain(o)
    BY <1>0, <2>1, <2>2, <2>3, OutcomeOf, CallsAssumption DEF FailsAgain
  <2>5. \A d \in Delays \ {o} : Same(d)
    BY <2>1, OutcomeOf, DeferredAssumption DEF Same
  <2> QED
    BY <2>1, <2>4, <2>5 DEF CellStays
<1>5. CASE ForceResult(g)
  <2>1. /\ Forcing(g, "result") /\ delay' = delay
        /\ IF delay[o].exception # Nil THEN Learns(g, delay[o].exception)
           ELSE Learns(g, delay[o].val)
    BY <1>5, ForceResultDoes
  <2>2. ~delay[o].fn \/ delay[o].exception # Nil
    BY <2>1 DEF IInv, DelayInv
  <2>3. delay[o].val \in DelayValues \cup {Nil} /\ delay[o].exception \in Exceptions \cup {Nil}
    BY DEF IInv, DelayInv
  <2>4. Learns(g, Outcome(o)') /\ Outcome(o)' # Pending
    BY <1>0, <2>1, <2>2, <2>3, OutcomeOf, DeferredAssumption
  <2> QED
    BY <2>1, <2>4, DelaySame DEF CellStays, Learns
<1>6. CASE TornException(g)
  <2>1. got' = got /\ delay' = delay
    BY <1>6, TornExceptionDoes DEF Moves
  <2> QED
    BY <2>1, DelaySame DEF CellStays
<1> QED
  BY <1>1, <1>2, <1>3, <1>4, <1>5, <1>6 DEF DelayStep

LEMMA PromiseStepCell ==
  ASSUME IInv, NEW g \in G, PromiseStep(g)
  PROVE  \E o \in Promises \cup Futures : CellStays(Promises \cup Futures, o)
<1>0. /\ OnceDone \notin G /\ NoOne # OnceDone
      /\ Promises \subseteq Objects /\ Futures \subseteq Objects /\ Promises \cap Futures = {}
  BY DeferredAssumption
<1>1. CASE EnterOnce(g) \/ StoreDelivered(g) \/ CloseDone(g)
  <2> DEFINE p == op[g].obj
  <2>1. /\ op[g] \in DeliverCalls /\ future' = future /\ got' = got
        /\ \A q \in Promises \ {p} : promise'[q] = promise[q]
    BY <1>1, EnterOnceDoes, StoreDeliveredDoes, CloseDoneDoes DEF DeliverGoesOn, Moves, PromiseBecomes
  <2>2. p \in Promises
    BY <2>1 DEF DeliverCalls
  <2>3. ~promise[p].done
    <3>1. promise[p].once # OnceDone
      <4>1. CASE EnterOnce(g)
        BY <1>0, <4>1, EnterOnceDoes
      <4>2. CASE StoreDelivered(g) \/ CloseDone(g)
        BY <1>0, <4>2 DEF StoreDelivered, CloseDone, IInv, PromiseInv, Settling
      <4> QED
        BY <1>1, <4>1, <4>2
    <3> QED
      BY <2>2, <3>1 DEF IInv, PromiseInv
  <2> HIDE DEF p
  <2>4. Outcome(p) = Pending
    BY <1>0, <2>2, <2>3, OutcomeOf
  <2>5. \A f \in Futures : Same(f)
    BY <2>1, FutureSame
  <2>6. PICK o \in Promises : o = p
    BY <2>2
  <2>7. Outcome(o) = Pending
    BY <1>0, <2>3, <2>6, OutcomeOf
  <2>8. \A q \in Promises \ {o} : Same(q)
    BY <1>0, <2>1, <2>6, OutcomeOf DEF Same
  <2> QED
    BY <2>1, <2>5, <2>7, <2>8 DEF CellStays
<1>2. CASE Await(g)
  <2>1. PICK o : o = op[g].obj
    OBVIOUS
  <2>2. /\ op[g] \in AwaitCalls /\ promise' = promise /\ future' = future
        /\ Cell(o).done /\ Learns(g, Cell(o).val)
    BY <1>2, <2>1, AwaitDoes DEF promiseVars
  <2>3. o \in Promises \cup Futures
    BY <2>1, <2>2 DEF AwaitCalls
  <2>4. /\ o \in Promises => Cell(o).done = promise[o].done /\ Cell(o).val = promise[o].val
        /\ o \notin Promises => Cell(o).done = future[o].done /\ Cell(o).val = future[o].res
    BY DEF Cell
  <2>5. Outcome(o)' = Cell(o).val
    BY <1>0, <2>2, <2>3, <2>4, OutcomeOf
  <2>6. Cell(o).val # Pending
    <3>1. Cell(op[g].obj).val \in Results
      BY <1>2, AwaitTypes DEF Await
    <3> QED
      BY <2>1, <3>1, ResultsAreOutcomes
  <2>7. \A q \in Promises \cup Futures : Same(q)
    BY <2>2, PromiseSame, FutureSame
  <2> QED
    BY <2>1, <2>2, <2>3, <2>5, <2>6, <2>7 DEF CellStays, Learns
<1>3. CASE RefuseDelivery(g) \/ TimeOut(g)
  <2>1. promise' = promise /\ future' = future /\ got' = got
    BY <1>3, RefuseDeliveryDoes, TimeOutDoes DEF Moves, promiseVars
  <2>2. \A q \in Promises \cup Futures : Same(q)
    BY <2>1, PromiseSame, FutureSame
  <2>3. op[g].obj \in Promises \cup Futures
    BY <1>3, RefuseDeliveryDoes, TimeOutDoes DEF DeliverCalls, AwaitCalls
  <2> QED
    BY <2>1, <2>2, <2>3 DEF CellStays
<1>4. CASE StoreResult(g) \/ CloseFuture(g)
  <2>1. PICK o : o = FutureOf[g]
    OBVIOUS
  <2>2. /\ g \in Workers /\ promise' = promise /\ got' = got /\ op[g] # Exited
        /\ \A f \in Futures \ {o} : future'[f] = future[f]
    <3>1. op[g].at # "exited"
      BY <1>4 DEF StoreResult, CloseFuture
    <3> QED
      BY <1>4, <2>1, <3>1, WhereResting, StoreResultDoes, CloseFutureDoes DEF Moves
  <2>3. o \in Futures /\ ~future[o].done
    BY <2>1, <2>2 DEF Futures, IInv, FutureInv
  <2>4. Outcome(o) = Pending
    BY <1>0, <2>3, OutcomeOf
  <2>5. \A f \in Futures \ {o} : Same(f)
    BY <1>0, <2>2, OutcomeOf DEF Same
  <2>6. \A p \in Promises : Same(p)
    BY <2>2, PromiseSame
  <2> QED
    BY <2>2, <2>3, <2>4, <2>5, <2>6 DEF CellStays
<1> QED
  BY <1>1, <1>2, <1>3, <1>4 DEF PromiseStep

\* A call of another kind moves.
LEMMA SeqsNotMoved ==
  ASSUME IInv, NEW g \in G, Alone(g),
         op[g] \in MapCalls \cup ForceCalls \cup DeliverCalls \cup AwaitCalls \cup Endings,
         op'[g] \in MapCalls \cup ForceCalls \cup DeliverCalls \cup AwaitCalls \cup Endings \cup {Exited}
           \/ Ends(g)
  PROVE  \A h \in G : op'[h] = op[h] \/ (~Seeking(h) /\ ~Seeking(h)')
<1>1. NoSeq(g) /\ NoSeq(g)'
  BY OneKind, OneKindNext, EndsHoldsNothing
<1> QED
  BY <1>1 DEF Alone, NoSeq

LEMMA LazyNotMoved ==
  ASSUME IInv, NEW g \in G, Alone(g), lazy' = lazy,
         op[g] \in MapCalls \cup ForceCalls \cup DeliverCalls \cup AwaitCalls \cup Endings,
         op'[g] \in MapCalls \cup ForceCalls \cup DeliverCalls \cup AwaitCalls \cup Endings \cup {Exited}
           \/ Ends(g)
  PROVE  \A s \in LazySeqs : Same(s)
BY SeqsNotMoved, LazySame

LEMMA ContinueCell ==
  ASSUME IInv, NEW g \in G, Continue(g)
  PROVE  \E o \in Objects : CellStays(Objects, o)
<1>0. /\ Objects = LazySeqs \cup MappedSeqs \cup Delays \cup Promises \cup Futures
      /\ LazySeqs \cap (MappedSeqs \cup Delays \cup Promises \cup Futures) = {}
      /\ MappedSeqs \cap (Delays \cup Promises \cup Futures) = {}
      /\ Delays \cap (Promises \cup Futures) = {}
  BY DeferredAssumption
<1>1. CASE LazySeqStep(g) /\ UNCHANGED <<mapped, delay, promiseVars>>
  <2>1. PICK o \in LazySeqs : o = op[g].obj
    BY <1>1, LazySeqStepKeeps DEF SeqCalls
  <2>2. PICK t \in LazySeqs : CellStays(LazySeqs, t)
    BY <1>1, <2>1, LazySeqStepCell
  <2>3. /\ \A m \in MappedSeqs : Same(m)
        /\ \A d \in Delays : Same(d)
        /\ \A p \in Promises : Same(p)
        /\ \A f \in Futures : Same(f)
    BY <1>1, MappedSame, DelaySame, PromiseSame, FutureSame DEF promiseVars
  <2> QED
    BY <1>0, <2>2, <2>3 DEF CellStays
<1>2. CASE MappedStep(g) /\ UNCHANGED <<lazy, delay, promiseVars>>
  <2>1. Alone(g) /\ op[g] \in MapCalls /\ (op'[g] \in MapCalls \/ Ends(g))
    BY <1>2, MappedStepKeeps DEF MapStepKeeps
  <2>2. PICK o \in MappedSeqs : o = op[g].obj
    BY <2>1 DEF MapCalls
  <2>3. CellStays(MappedSeqs, o)
    BY <1>2, <2>2, MappedStepCell
  <2>4. /\ \A s \in LazySeqs : Same(s)
        /\ \A d \in Delays : Same(d)
        /\ \A p \in Promises : Same(p)
        /\ \A f \in Futures : Same(f)
    BY <1>2, <2>1, LazyNotMoved, DelaySame, PromiseSame, FutureSame DEF promiseVars
  <2> QED
    BY <1>0, <2>3, <2>4 DEF CellStays
<1>3. CASE DelayStep(g) /\ UNCHANGED <<lazy, mapped, promiseVars>>
  <2>1. Alone(g) /\ op[g] \in ForceCalls /\ (op'[g] \in ForceCalls \/ Ends(g))
    BY <1>3, DelayStepKeeps DEF ForceStepKeeps
  <2>2. PICK o \in Delays : o = op[g].obj
    BY <2>1 DEF ForceCalls
  <2>3. CellStays(Delays, o)
    BY <1>3, <2>2, DelayStepCell
  <2>4. /\ \A s \in LazySeqs : Same(s)
        /\ \A m \in MappedSeqs : Same(m)
        /\ \A p \in Promises : Same(p)
        /\ \A f \in Futures : Same(f)
    BY <1>3, <2>1, LazyNotMoved, MappedSame, PromiseSame, FutureSame DEF promiseVars
  <2> QED
    BY <1>0, <2>3, <2>4 DEF CellStays
<1>4. CASE PromiseStep(g) /\ UNCHANGED <<lazy, mapped, delay>>
  <2>1. /\ Alone(g) /\ op[g] \in DeliverCalls \cup AwaitCalls \cup Endings
        /\ op'[g] \in DeliverCalls \cup AwaitCalls \cup Endings \cup {Exited} \/ Ends(g)
    BY <1>4, PromiseStepKeeps DEF AwaitStepKeeps
  <2>2. PICK o \in Promises \cup Futures : CellStays(Promises \cup Futures, o)
    BY <1>4, PromiseStepCell
  <2>3. /\ \A s \in LazySeqs : Same(s)
        /\ \A m \in MappedSeqs : Same(m)
        /\ \A d \in Delays : Same(d)
    BY <1>4, <2>1, LazyNotMoved, MappedSame, DelaySame
  <2> QED
    BY <1>0, <2>2, <2>3 DEF CellStays
<1> QED
  BY <1>1, <1>2, <1>3, <1>4 DEF Continue

OutcomesTyped == \A o \in Objects : Outcome(o) \in CellOutcomes \cup {Pending}

LEMMA InitRefines ==
  ASSUME Init
  PROVE  Once!CellInit
<1>1. \A s \in LazySeqs : lazy[s].fn
  BY DEF Init, LazyInit, NewLazySeq
<1>2. \A m \in MappedSeqs : mapped[m].once # OnceDone
  BY DeferredAssumption DEF Init, MappedInit, NewMappedSeq
<1>3. \A d \in Delays : delay[d].fn /\ delay[d].exception = Nil
  BY DEF Init, DelayInit, NewDelay
<1>4. \A p \in Promises : ~promise[p].done
  BY DEF Init, PromiseInit, NewPromise
<1>5. \A f \in Futures : ~future[f].done
  BY DEF Init, PromiseInit, NewFuture
<1>6. ASSUME NEW o \in Objects
      PROVE  Outcome(o) = Pending
  <2>1. CASE o \in LazySeqs BY <1>1, <2>1, OutcomeOf DEF Settled
  <2>2. CASE o \in MappedSeqs BY <1>2, <2>2, OutcomeOf
  <2>3. CASE o \in Delays BY <1>3, <2>3, OutcomeOf
  <2>4. CASE o \in Promises BY <1>4, <2>4, OutcomeOf
  <2>5. CASE o \in Futures BY <1>5, <2>5, OutcomeOf
  <2> QED
    BY <2>1, <2>2, <2>3, <2>4, <2>5, DeferredAssumption
<1>7. got = [o \in Objects |-> {}]
  BY DEF Init, CallsInit
<1> QED
  BY <1>6, <1>7 DEF Once!CellInit

\* A step that leaves the other cells is one of the specification of cells, or none.
LEMMA EffectRefines ==
  ASSUME NEW o \in Objects, CellStays(Objects, o), OutcomesTyped'
  PROVE  Once!CellNext \/ UNCHANGED Once!cellVars
<1> DEFINE c == [p \in Objects |-> Outcome(p)]
           v == c'[o]
<1>1. c' = [p \in Objects |-> Outcome(p)']
  OBVIOUS
<1>2. v = Outcome(o)' /\ c[o] = Outcome(o)
  BY <1>1
<1>3. \A p \in Objects \ {o} : c'[p] = c[p]
  BY <1>1 DEF CellStays, Same
<1>4. c' = [c EXCEPT ![o] = v]
  BY <1>1, <1>3
<1>5. v \in CellOutcomes \cup {Pending}
  BY <1>2 DEF OutcomesTyped
<1>6. \/ c[o] # Pending => c' = c
      \/ o \in Delays /\ c[o] \in Exceptions /\ v \in Exceptions /\ got' = got
  <2>1. CASE c[o] # Pending => v = c[o]
    BY <1>1, <1>3, <2>1
  <2>2. CASE FailsAgain(o)
    BY <1>2, <2>2 DEF FailsAgain
  <2> QED
    BY <1>2, <2>1, <2>2 DEF CellStays, Same
<1>7. got' = got \/ (got' = [got EXCEPT ![o] = @ \cup {v}] /\ v # Pending)
  BY <1>2 DEF CellStays
<1>8. c[o] = Pending /\ v = Pending => c' = c
  BY <1>1, <1>3
<1> HIDE DEF c, v
<1>9. CASE c[o] = Pending /\ v = Pending
  BY <1>7, <1>8, <1>9 DEF Once!cellVars, c
<1>10. CASE c[o] = Pending /\ v # Pending
  <2>1. v \in CellOutcomes
    BY <1>5, <1>10
  <2>2. Once!Settle(o)
    BY <1>4, <1>7, <1>10, <2>1 DEF Once!Settle, Once!Answered, CellOutcomes, c, v
  <2> QED
    BY <2>2 DEF Once!CellNext
<1>11. CASE o \in Delays /\ c[o] \in Exceptions /\ v \in Exceptions /\ got' = got
  <2>1. Once!FailAgain(o)
    BY <1>4, <1>11 DEF Once!FailAgain, c, v
  <2> QED
    BY <2>1 DEF Once!CellNext
<1>12. CASE c[o] # Pending /\ c' = c /\ got' = got
  BY <1>12 DEF Once!cellVars, c
<1>13. CASE c[o] # Pending /\ c' = c /\ got' # got
  <2>1. Once!Answer(o)
    BY <1>7, <1>13 DEF Once!Answer, Once!Answered, c, v
  <2> QED
    BY <2>1 DEF Once!CellNext
<1> QED
  BY <1>6, <1>9, <1>10, <1>11, <1>12, <1>13

LEMMA NextRefines ==
  ASSUME IInv, OutcomesTyped', [Next]_vars
  PROVE  Once!CellNext \/ UNCHANGED Once!cellVars
<1>1. ASSUME got' = got, \A o \in Objects : Same(o)
      PROVE  UNCHANGED Once!cellVars
  BY <1>1 DEF Same, Once!cellVars
<1>2. ASSUME NEW g \in G, Start(g)
      PROVE  UNCHANGED Once!cellVars
  BY <1>1, <1>2, StartCell
<1>3. ASSUME NEW g \in G, Continue(g)
      PROVE  Once!CellNext \/ UNCHANGED Once!cellVars
  BY <1>3, ContinueCell, EffectRefines
<1>4. ASSUME UNCHANGED vars
      PROVE  UNCHANGED Once!cellVars
  <2>1. got' = got /\ op' = op /\ lazy' = lazy /\ UNCHANGED <<mapped, delay, promise, future>>
    BY <1>4 DEF vars, callVars, promiseVars
  <2>2. \A o \in Objects : Same(o)
    BY <2>1, LazySame, MappedSame, DelaySame, PromiseSame, FutureSame, DeferredAssumption
  <2> QED
    BY <1>1, <2>1, <2>2
<1> QED
  BY <1>2, <1>3, <1>4 DEF Next

\* Lazy sequences, elements of map, delays, promises and futures are cells that are set
\* once: whoever asks, and however the steps of the goroutines fall, nobody gets another
\* value, or gets one before it is there; and a delay that has thrown an exception throws
\* that one or a later one of its function, and never has a value.
THEOREM RefinesOnceCell == Spec => ImplementsOnceCell
<1>1. IInv => OutcomesTyped
  BY OutcomesAreOutcomes DEF OutcomesTyped
<1>2. IInv /\ OutcomesTyped' /\ [Next]_vars => [Once!CellNext]_(Once!cellVars)
  BY NextRefines
<1> QED
  BY <1>1, <1>2, InitRefines, Invariance, PTL DEF Spec, ImplementsOnceCell, Once!CellSpec

-----------------------------------------------------------------------------
(* The sequence that Seq stores is the one the bodies lead to, as long as  *)
(* no value has been lost and the bodies do not return one another in a    *)
(* circle.  A set is closed when it has what the bodies in it returned; v  *)
(* is reached from t when it is in every closed set that has t.            *)

Closed(C) == \A t \in C : t \in LazySeqs => lazy[t].produced \in C \cup {Pending}
Reaches(t, v) == \A C \in SUBSET Links : t \in C /\ Closed(C) => v \in C
ReachesNext(t, v) == \A C \in SUBSET Links : t \in C /\ Closed(C)' => v \in C

NoLost == \A s \in LazySeqs : lazy[s].lost = {}

\* A Seq has come from its object to the lazy sequence it is at, and what it has stored is
\* what it came to in the end.
Chained ==
  /\ \A g \in G : Seeking(g) /\ op[g].cur # op[g].obj => Reaches(lazy[op[g].obj].produced, op[g].cur)
  /\ \A s \in LazySeqs : Settled(s) => Reaches(lazy[s].produced, lazy[s].seq)

\* The bodies do not return one another in a circle.
Nested(depth) ==
  /\ depth \in [LazySeqs -> 1 .. Cardinality(LazySeqs)]
  /\ \A s \in LazySeqs : \A t \in Returns[s] \cap LazySeqs : depth[t] < depth[s]

LEMMA ReachesStays ==
  ASSUME ProducedStays, NEW t, NEW v, Reaches(t, v)
  PROVE  ReachesNext(t, v)
<1>1. ASSUME NEW C \in SUBSET Links, Closed(C)'
      PROVE  Closed(C)
  BY <1>1 DEF Closed, ProducedStays
<1> QED
  BY <1>1 DEF Reaches, ReachesNext

\* What has returned has returned something.
LEMMA ReturnedProduced ==
  ASSUME IInv, NEW s \in LazySeqs, ~lazy[s].fn
  PROVE  /\ lazy[s].produced \in Returns[s] /\ lazy[s].produced \in Links
         /\ lazy[s].produced # Pending /\ lazy[s].sv \in {Nil, lazy[s].produced}
BY PendingIsNone DEF IInv, LazyInv, NothingUnrun

\* What is reached through a body that has returned is also reached from before.
LEMMA ReachesOn ==
  ASSUME IInv, NEW t, NEW c \in LazySeqs, Reaches(t, c), ~lazy[c].fn
  PROVE  /\ Reaches(t, lazy[c].produced)
         /\ \A v : Reaches(lazy[c].produced, v) => Reaches(t, v)
<1>1. lazy[c].produced # Pending
  BY ReturnedProduced
<1> QED
  BY <1>1 DEF Reaches, Closed

LEMMA DepthDecreases ==
  ASSUME IInv, NEW depth, Nested(depth), IsFiniteSet(LazySeqs), NEW o \in LazySeqs, ~lazy[o].fn,
         NEW v \in LazySeqs, Reaches(lazy[o].produced, v)
  PROVE  depth[v] < depth[o]
<1> DEFINE C == {u \in Links : u \in LazySeqs => depth[u] < depth[o]}
<1>0. \A s \in LazySeqs : depth[s] \in Nat
  BY FS_CardinalityType DEF Nested
<1>1. lazy[o].produced \in C
  BY ReturnedProduced DEF Nested
<1>2. Closed(C)
  <2>1. ASSUME NEW t \in C, t \in LazySeqs, lazy[t].produced # Pending
        PROVE  lazy[t].produced \in C
    <3>1. lazy[t].produced \in Returns[t] /\ lazy[t].produced \in Links
      BY <2>1, PendingIsNone DEF IInv, LazyInv, NothingUnrun
    <3>2. lazy[t].produced \in LazySeqs => depth[lazy[t].produced] < depth[t]
      BY <2>1, <3>1 DEF Nested
    <3>3. depth[t] < depth[o]
      BY <2>1
    <3> QED
      BY <1>0, <2>1, <3>1, <3>2, <3>3
  <2> QED
    BY <2>1 DEF Closed
<1>3. v \in C
  BY <1>1, <1>2 DEF Reaches
<1> QED
  BY <1>3

\* What keeps Chained in a step of g.
LEMMA ChainedNext ==
  ASSUME IInv, Chained, NEW g \in G, Alone(g), ProducedStays,
         Seeking(g)' /\ op'[g].cur # op'[g].obj =>
           ReachesNext(lazy'[op'[g].obj].produced, op'[g].cur),
         \A s \in LazySeqs : Settled(s)' =>
           \/ Settled(s) /\ lazy'[s].seq = lazy[s].seq
           \/ ReachesNext(lazy'[s].produced, lazy'[s].seq)
  PROVE  Chained'
<1>1. ASSUME NEW h \in G, h # g, Seeking(h)', op'[h].cur # op'[h].obj
      PROVE  ReachesNext(lazy'[op'[h].obj].produced, op'[h].cur)
  <2>1. op'[h] = op[h] /\ Seeking(h)
    BY <1>1 DEF Alone, Seeking, In, InCall
  <2>2. op[h].obj \in LazySeqs /\ ~lazy[op[h].obj].fn
    BY <1>1, <2>1, SeqTypes DEF IInv, LazyInv, SeqPositions
  <2>3. Reaches(lazy[op[h].obj].produced, op[h].cur)
    BY <1>1, <2>1 DEF Chained
  <2>4. lazy'[op[h].obj].produced = lazy[op[h].obj].produced
    BY <2>2, ReturnedProduced DEF ProducedStays
  <2> QED
    BY <2>1, <2>3, <2>4, ReachesStays
<1>2. ASSUME NEW s \in LazySeqs, Settled(s)'
      PROVE  ReachesNext(lazy'[s].produced, lazy'[s].seq)
  <2>1. CASE Settled(s) /\ lazy'[s].seq = lazy[s].seq
    <3>1. Reaches(lazy[s].produced, lazy[s].seq)
      BY <2>1 DEF Chained
    <3>2. lazy'[s].produced = lazy[s].produced
      BY <2>1, ReturnedProduced DEF Settled, ProducedStays
    <3> QED
      BY <2>1, <3>1, <3>2, ReachesStays
  <2> QED
    BY <1>2, <2>1
<1>3. ASSUME NEW h \in G, Seeking(h)', op'[h].cur # op'[h].obj
      PROVE  ReachesNext(lazy'[op'[h].obj].produced, op'[h].cur)
  BY <1>1, <1>3
<1> QED
  BY <1>2, <1>3 DEF Chained, Reaches, ReachesNext

\* A step of something else.
LEMMA ChainedUnmoved ==
  ASSUME Chained, lazy' = lazy, \A h \in G : op'[h] = op[h] \/ (~Seeking(h) /\ ~Seeking(h)')
  PROVE  Chained'
<1>1. \A h \in G : Seeking(h)' => op'[h] = op[h] /\ Seeking(h)
  BY DEF Seeking, In, InCall
<1>2. \A C : Closed(C)' <=> Closed(C)
  BY DEF Closed
<1>3. \A t, v : ReachesNext(t, v) <=> Reaches(t, v)
  BY <1>2 DEF Reaches, ReachesNext
<1>4. \A s \in LazySeqs : Settled(s)' <=> Settled(s)
  <2>1. ASSUME NEW s \in LazySeqs
        PROVE  Taken(s)' <=> Taken(s)
    BY DEF Taken, Seeking, In, InCall
  <2> QED
    BY <2>1 DEF Settled
<1>5. ASSUME NEW h \in G, Seeking(h)', op'[h].cur # op'[h].obj
      PROVE  ReachesNext(lazy'[op'[h].obj].produced, op'[h].cur)
  BY <1>1, <1>3, <1>5 DEF Chained
<1>6. ASSUME NEW s \in LazySeqs, Settled(s)'
      PROVE  ReachesNext(lazy'[s].produced, lazy'[s].seq)
  BY <1>3, <1>4, <1>6 DEF Chained
<1> QED
  BY <1>5, <1>6 DEF Chained, Reaches, ReachesNext

\* No loss is forgotten.
LEMMA LostStays ==
  ASSUME IInv, NEW g \in G, LazySeqStep(g), NoLost'
  PROVE  NoLost
<1> USE DEF NoLost
<1>1. CASE LockSeq(g) BY <1>1, LockSeqDoes DEF SameLost
<1>2. CASE Realize(g) BY <1>2, RealizeDoes DEF SameLost
<1>3. CASE BodyReturns(g) BY <1>3, BodyReturnsDoes DEF SameLost
<1>4. CASE BodyPanics(g) BY <1>4, BodyPanicsDoes
<1>5. CASE ReadValue(g) BY <1>5, ReadOwnDoes, ReadInnerDoes DEF SameLost
<1>6. CASE TornRead(g) BY <1>6, TornReadDoes
<1>7. CASE Take(g) BY <1>7, TakeNothingDoes, TakeDoes DEF SameLost
<1>8. CASE Store(g) BY <1>8, StoreDoes DEF SameLost
<1> QED
  BY <1>1, <1>2, <1>3, <1>4, <1>5, <1>6, <1>7, <1>8 DEF LazySeqStep

\* Lazy sequences other than that of g's call are settled as they were.
LEMMA OthersSettled ==
  ASSUME NEW g \in G, Alone(g),
         (op'[g] \in SeqCalls /\ op'[g].obj = op[g].obj) \/ Ends(g),
         NEW t \in LazySeqs, t # op[g].obj, SameFields(t), Settled(t)'
  PROVE  Settled(t) /\ lazy'[t].seq = lazy[t].seq
BY TakenOthers DEF Settled, SameFields

\* g goes on in Seq(o) where it was, and its object stays.
LEMMA StaysChained ==
  ASSUME IInv, Chained, NEW g \in G, NEW o \in LazySeqs, op[g].obj = o, Moves(g), LazyInv',
         ProducedStays, Seeking(g)' /\ op'[g] \in SeqCalls, op'[g].obj = o, op'[g].cur = op[g].cur,
         Seeking(g) \/ (lazy[o].seqMtx = NoOne /\ op[g].cur = o),
         \A t \in LazySeqs : SameFields(t)
  PROVE  Chained'
<1>1. Alone(g)
  BY DEF Moves, Alone
<1>2. ASSUME op'[g].cur # op'[g].obj
      PROVE  ReachesNext(lazy'[op'[g].obj].produced, op'[g].cur)
  <2>1. Seeking(g) /\ op[g].cur # op[g].obj
    BY <1>2
  <2>2. ~lazy[o].fn /\ Reaches(lazy[o].produced, op[g].cur)
    BY <2>1 DEF Chained, IInv, LazyInv, SeqPositions
  <2>3. lazy'[o].produced = lazy[o].produced
    BY <2>2, ReturnedProduced DEF ProducedStays
  <2> QED
    BY <2>2, <2>3, ReachesStays
<1>3. ASSUME NEW t \in LazySeqs, Settled(t)'
      PROVE  Settled(t) /\ lazy'[t].seq = lazy[t].seq
  <2>1. CASE t = o
    <3>1. Taken(t)' <=> Taken(t)
      BY <2>1, TakenStays
    <3> QED
      BY <1>3, <3>1 DEF Settled, SameFields
  <2>2. CASE t # o
    BY <1>1, <1>3, <2>2, OthersSettled
  <2> QED
    BY <2>1, <2>2
<1> QED
  BY <1>1, <1>2, <1>3, ChainedNext

\* g goes on to v, which is reached from its object.
LEMMA FollowsChained ==
  ASSUME IInv, Chained, NEW g \in G, NEW o \in LazySeqs, op[g].obj = o, Moves(g), LazyInv',
         ProducedStays, NEW depth, Nested(depth), IsFiniteSet(LazySeqs),
         NEW v, Seeking(g)' /\ op'[g] \in SeqCalls, op'[g].obj = o, op'[g].cur = v,
         ~lazy[o].fn, Reaches(lazy[o].produced, v),
         \A t \in LazySeqs \ {o} : SameFields(t)
  PROVE  Chained'
<1>1. Alone(g)
  BY DEF Moves, Alone
<1>2. ReachesNext(lazy'[o].produced, v)
  <2>1. lazy'[o].produced = lazy[o].produced
    BY ReturnedProduced DEF ProducedStays
  <2> QED
    BY <2>1, ReachesStays
<1>3. v # o
  <2>1. ASSUME v = o
        PROVE  FALSE
    <3>1. depth[o] < depth[o] /\ depth[o] \in Nat
      BY <2>1, DepthDecreases, FS_CardinalityType DEF Nested
    <3> QED
      BY <3>1
  <2> QED
    BY <2>1
<1>4. ~Settled(o)'
  BY <1>3, TakenNext DEF Settled
<1>5. ASSUME NEW t \in LazySeqs, Settled(t)'
      PROVE  Settled(t) /\ lazy'[t].seq = lazy[t].seq
  BY <1>1, <1>4, <1>5, OthersSettled
<1> QED
  BY <1>1, <1>2, <1>5, ChainedNext

\* g's call ends.
LEMMA EndsChained ==
  ASSUME IInv, Chained, NEW g \in G, NEW o \in LazySeqs, op[g].obj = o, Alone(g), Ends(g),
         ProducedStays, \A t \in LazySeqs \ {o} : SameFields(t),
         Settled(o)' => \/ Settled(o) /\ lazy'[o].seq = lazy[o].seq
                        \/ ReachesNext(lazy'[o].produced, lazy'[o].seq)
  PROVE  Chained'
<1>1. ~Seeking(g)'
  BY EndsHoldsNothing DEF NoSeq
<1>2. ASSUME NEW t \in LazySeqs, Settled(t)'
      PROVE  \/ Settled(t) /\ lazy'[t].seq = lazy[t].seq
             \/ ReachesNext(lazy'[t].produced, lazy'[t].seq)
  BY <1>2, OthersSettled
<1> QED
  BY <1>1, <1>2, ChainedNext

LEMMA BodyReturnsChained ==
  ASSUME IInv, Chained, NEW g \in G, NEW o \in LazySeqs, op[g].obj = o, LazyInv',
         ProducedStays, BodyReturns(g)
  PROVE  Chained'
<1> DEFINE s == op[g].cur
<1>1. /\ In(g, "body") /\ Moves(g) /\ GoesOn(g, "read", s) /\ s \in LazySeqs /\ lazy[s].fn
      /\ \A t \in LazySeqs : t # s => SameFields(t)
  BY BodyReturnsDoes DEF SameBody, SameFields
<1>2. lazy'[s].seq = Nil /\ lazy'[s].sv = lazy'[s].produced
  BY BodyReturnsDoes
<1>3. Seeking(g) /\ Seeking(g)' /\ op'[g] \in SeqCalls /\ op'[g].obj = o /\ op'[g].cur = s
  BY <1>1 DEF GoesOn, SeqCalls, Seeking, In, InCall
<1>4. Alone(g)
  BY <1>1 DEF Moves, Alone
<1>5. ASSUME s # o
      PROVE  ReachesNext(lazy'[o].produced, s)
  <2>1. ~lazy[o].fn /\ Reaches(lazy[o].produced, s)
    BY <1>3, <1>5 DEF Chained, IInv, LazyInv, SeqPositions
  <2>2. lazy'[o].produced = lazy[o].produced
    BY <2>1, ReturnedProduced DEF ProducedStays
  <2> QED
    BY <2>1, <2>2, ReachesStays
<1>6. ASSUME NEW t \in LazySeqs, Settled(t)'
      PROVE  \/ Settled(t) /\ lazy'[t].seq = lazy[t].seq
             \/ ReachesNext(lazy'[t].produced, lazy'[t].seq)
  <2>1. CASE t = s
    <3>1. lazy'[t].produced = Nil /\ lazy'[t].seq = Nil
      BY <1>2, <1>6, <2>1 DEF Settled
    <3> QED
      BY <3>1 DEF ReachesNext
  <2>2. CASE t = o /\ t # s
    <3>1. Taken(t)'
      BY <1>3, <2>2, TakenNext
    <3> QED
      BY <1>6, <3>1 DEF Settled
  <2>3. CASE t # o /\ t # s
    BY <1>1, <1>3, <1>4, <1>6, <2>3, OthersSettled
  <2> QED
    BY <2>1, <2>2, <2>3
<1> HIDE DEF s
<1> QED
  BY <1>3, <1>4, <1>5, <1>6, ChainedNext

LEMMA ReadInnerChained ==
  ASSUME IInv, Chained, NEW g \in G, NEW o \in LazySeqs, op[g].obj = o, LazyInv',
         ProducedStays, NEW depth, Nested(depth), IsFiniteSet(LazySeqs), NoLost',
         ReadValue(g), op[g].cur # o
  PROVE  Chained'
<1> DEFINE s == op[g].cur
           v == Value(s)
<1>1. /\ In(g, "read") /\ Moves(g)
      /\ GoesOn(g, IF v \in LazySeqs THEN "realizeMtx" ELSE "store", v)
      /\ \A t \in LazySeqs : SameFields(t)
  BY ReadInnerDoes DEF LeavesRealize, SameBody, SameFields
<1>2. ~Races(g)
  <2>1. ASSUME Races(g)
        PROVE  FALSE
    <3>1. lazy'[o].lost = lazy[o].lost \cup {"race"}
      BY <2>1, ReadInnerDoes
    <3> QED
      BY <3>1 DEF NoLost
  <2> QED
    BY <2>1
<1>3. s \in LazySeqs /\ ~lazy[s].fn /\ Seeking(g)
  BY <1>1, ReadPosition
<1>4. ~lazy[o].fn /\ Reaches(lazy[o].produced, s)
  BY <1>3 DEF Chained, IInv, LazyInv, SeqPositions
<1>5. Reaches(lazy[o].produced, v)
  <2>1. CASE lazy[s].sv # Nil
    <3>1. v = lazy[s].produced
      BY <1>3, <2>1, ReturnedProduced DEF Value
    <3> QED
      BY <1>3, <1>4, <3>1, ReachesOn
  <2>2. CASE lazy[s].sv = Nil
    <3>1. Settled(s) /\ v = lazy[s].seq
      BY <1>2, <1>3, <2>2 DEF Races, Settled, Value
    <3>2. Reaches(lazy[s].produced, v)
      BY <1>3, <3>1 DEF Chained
    <3> QED
      BY <1>3, <1>4, <3>2, ReachesOn
  <2> QED
    BY <2>1, <2>2
<1>6. Seeking(g)' /\ op'[g] \in SeqCalls /\ op'[g].obj = o /\ op'[g].cur = v
  BY <1>1 DEF GoesOn, SeqCalls, Seeking, In, InCall
<1> HIDE DEF s, v
<1> QED
  BY <1>1, <1>4, <1>5, <1>6, FollowsChained

LEMMA LazySeqStepChained ==
  ASSUME IInv, NoLost => Chained, NEW g \in G, LazySeqStep(g),
         NEW depth, Nested(depth), IsFiniteSet(LazySeqs), NoLost'
  PROVE  Chained'
<1>0. LazyInv' /\ Alone(g) /\ op[g] \in SeqCalls /\ ProducedStays /\ Chained
  BY LazySeqStepKeeps, SeqStepReturnsOnce, LostStays DEF SeqStepKeeps
<1>o. PICK o \in LazySeqs : o = op[g].obj
  BY <1>0 DEF SeqCalls
<1>1. CASE LockSeq(g)
  <2>1. /\ op[g].cur = o /\ lazy[o].seqMtx = NoOne /\ Moves(g) /\ GoesOn(g, "realizeMtx", o)
        /\ \A t \in LazySeqs : SameFields(t)
    BY <1>1, <1>o, LockSeqDoes DEF SameBody, SameFields
  <2>2. Seeking(g)' /\ op'[g] \in SeqCalls /\ op'[g].obj = o /\ op'[g].cur = op[g].cur
    BY <1>o, <2>1 DEF GoesOn, SeqCalls, Seeking, In, InCall
  <2> QED
    BY <1>0, <1>o, <2>1, <2>2, StaysChained
<1>2. CASE Realize(g)
  <2>1. /\ In(g, "realizeMtx") /\ Moves(g)
        /\ GoesOn(g, IF lazy[op[g].cur].fn THEN "body" ELSE "read", op[g].cur)
        /\ \A t \in LazySeqs : SameFields(t)
    BY <1>2, RealizeDoes DEF SameBody, SameFields
  <2>2. Seeking(g)' /\ op'[g] \in SeqCalls /\ op'[g].obj = o /\ op'[g].cur = op[g].cur
    BY <1>o, <2>1 DEF GoesOn, SeqCalls, Seeking, In, InCall
  <2>3. Seeking(g)
    BY <2>1 DEF Seeking
  <2> QED
    BY <1>0, <1>o, <2>1, <2>2, <2>3, StaysChained
<1>3. CASE BodyReturns(g)
  BY <1>0, <1>o, <1>3, BodyReturnsChained
<1>4. CASE BodyPanics(g)
  <2>1. /\ EndsSeq(g) /\ Seeking(g) /\ Ends(g) /\ In(g, "body")
        /\ \A t \in LazySeqs : SameFields(t)
    BY <1>4, BodyPanicsDoes DEF EndsSeq, SameFields
  <2>2. op[g].cur = o
    <3>1. ASSUME op[g].cur # o
          PROVE  lazy'[o].lost = lazy[o].lost \cup {"panic"}
      BY <1>4, <1>o, <3>1, BodyPanicsDoes
    <3> QED
      BY <3>1 DEF NoLost
  <2>3. lazy[o].fn
    BY <2>1, <2>2 DEF IInv, LazyInv, RealizeMtxHeld
  <2>4. ~Settled(o)'
    BY <2>1, <2>3 DEF Settled, SameFields
  <2> QED
    BY <1>0, <1>o, <2>1, <2>4, EndsChained
<1>5. CASE ReadValue(g) /\ op[g].cur = o
  <2>1. In(g, "read") /\ Seeking(g)
    BY <1>5 DEF ReadValue, Seeking
  <2>2. Moves(g) /\ (\A t \in LazySeqs : SameFields(t)) /\ GoesOn(g, "take", o)
    BY <1>5, <1>o, ReadOwnDoes DEF LeavesRealize, SameBody, SameFields
  <2>3. Seeking(g)' /\ op'[g] \in SeqCalls /\ op'[g].obj = o /\ op'[g].cur = op[g].cur
    BY <1>5, <1>o, <2>2 DEF GoesOn, SeqCalls, Seeking, In, InCall
  <2> QED
    BY <1>0, <1>o, <2>1, <2>2, <2>3, StaysChained
<1>6. CASE ReadValue(g) /\ op[g].cur # o
  BY <1>0, <1>o, <1>6, ReadInnerChained
<1>7. CASE TornRead(g)
  <2>1. lazy'[o].lost = lazy[o].lost \cup {"race"}
    BY <1>7, <1>o, TornReadDoes
  <2> QED
    BY <2>1 DEF NoLost
<1>8. CASE Take(g) /\ lazy[o].sv = Nil
  <2>1. In(g, "take") /\ Seeking(g) /\ op[g].cur = o /\ ~lazy[o].fn
    BY <1>8, <1>o, TakePosition DEF Take
  <2>2. EndsSeq(g) /\ Ends(g) /\ \A t \in LazySeqs : SameFields(t)
    BY <1>8, <1>o, TakeNothingDoes DEF EndsSeq, SameFields
  <2>3. Settled(o) /\ lazy'[o].seq = lazy[o].seq
    BY <1>8, <1>o, <2>1, <2>2, TakenNow DEF Settled, SameFields
  <2> QED
    BY <1>0, <1>o, <2>2, <2>3, EndsChained
<1>9. CASE Take(g) /\ lazy[o].sv # Nil
  <2>1. /\ Moves(g) /\ ~lazy[o].fn
        /\ GoesOn(g, IF lazy[o].sv \in LazySeqs THEN "realizeMtx" ELSE "store", lazy[o].sv)
    BY <1>9, <1>o, TakeDoes
  <2>2. \A t \in LazySeqs \ {o} : SameFields(t)
    BY <1>9, <1>o, TakeDoes DEF SameFields
  <2>3. lazy[o].sv = lazy[o].produced
    BY <1>9, <2>1, ReturnedProduced
  <2>4. Seeking(g)' /\ op'[g] \in SeqCalls /\ op'[g].obj = o /\ op'[g].cur = lazy[o].sv
    BY <1>o, <2>1 DEF GoesOn, SeqCalls, Seeking, In, InCall
  <2>5. Reaches(lazy[o].produced, lazy[o].sv)
    BY <2>3 DEF Reaches
  <2> QED
    BY <1>0, <1>o, <2>1, <2>2, <2>4, <2>5, FollowsChained
<1>10. CASE Store(g)
  <2>1. /\ In(g, "store") /\ EndsSeq(g) /\ Ends(g) /\ Seeking(g)
        /\ op[g].cur \in Colls \cup {Nil} /\ lazy'[o].seq = op[g].cur
    BY <1>10, <1>o, StoreDoes DEF EndsSeq
  <2>2. \A t \in LazySeqs \ {o} : SameFields(t)
    BY <1>10, <1>o, StoreDoes DEF EndsSeq, SameFields
  <2>3. op[g].cur # o
    BY <2>1, LazySeqAssumption
  <2>4. Reaches(lazy[o].produced, op[g].cur) /\ ~lazy[o].fn
    BY <1>0, <1>o, <2>1, <2>3 DEF Chained, IInv, LazyInv, SeqPositions
  <2>5. lazy'[o].produced = lazy[o].produced
    BY <1>0, <2>4, ReturnedProduced DEF ProducedStays
  <2>6. ReachesNext(lazy'[o].produced, lazy'[o].seq)
    BY <1>0, <2>1, <2>4, <2>5, ReachesStays
  <2> QED
    BY <1>0, <1>o, <2>1, <2>2, <2>6, EndsChained
<1> QED
  BY <1>1, <1>2, <1>3, <1>4, <1>5, <1>6, <1>7, <1>8, <1>9, <1>10 DEF LazySeqStep


\* What Chase follows.
ChaseOf == LazySeqs \cup Colls \cup {Nil, Pending}

LEMMA ChaseEquation ==
  ASSUME IInv
  PROVE  \A n \in Nat : \A v \in ChaseOf :
           chase[n][v] = IF n = 0 \/ v \notin LazySeqs THEN v ELSE chase[n - 1][lazy[v].produced]
<1> DEFINE base == [v \in ChaseOf |-> v]
           K == [ChaseOf -> ChaseOf]
           Next1(W) == [v \in ChaseOf |-> IF v \notin LazySeqs THEN v ELSE W[lazy[v].produced]]
           F == [W \in K |-> Next1(W)]
           Step(f, n) == [v \in ChaseOf |->
             IF n = 0 \/ v \notin LazySeqs THEN v ELSE f[n - 1][lazy[v].produced]]
<1>1. \A v \in LazySeqs : lazy[v].produced \in ChaseOf
  BY DEF IInv, LazyInv, LazyRecords, Links, ChaseOf
<1>2. base \in K /\ F \in [K -> K]
  BY <1>1
<1>3. PICK f \in [Nat -> K] : IsIteration(f, base, F)
  <2> HIDE DEF base, F, K
  <2> QED
    BY <1>2, IterationExists
<1>4. ASSUME NEW n \in Nat
      PROVE  f[n] = Step(f, n)
  <2>1. f[n] = IF n = 0 THEN base ELSE F[f[n - 1]]
    <3> HIDE DEF base, F, K
    <3>1. f = [i \in Nat |-> IF i = 0 THEN base ELSE F[f[i - 1]]]
      BY <1>3 DEF IsIteration
    <3> QED
      BY <3>1
  <2>2. CASE n = 0
    BY <2>1, <2>2
  <2>3. CASE n # 0
    <3>1. n - 1 \in Nat /\ f[n - 1] \in K
      BY <1>3, <2>3
    <3>2. F[f[n - 1]] = Next1(f[n - 1])
      BY <3>1
    <3> QED
      BY <2>1, <2>3, <3>2
  <2> QED
    BY <2>2, <2>3
<1>5. f = [n \in Nat |-> Step(f, n)]
  <2> HIDE DEF K, Step
  <2> QED
    BY <1>3, <1>4
<1>6. chase = [n \in Nat |-> Step(chase, n)]
  BY <1>5 DEF chase, ChaseOf
<1>7. \A n \in Nat : chase[n] = Step(chase, n)
  <2> HIDE DEF Step
  <2> QED
    BY <1>6
<1>8. ASSUME NEW n \in Nat, NEW v \in ChaseOf
      PROVE  chase[n][v] = IF n = 0 \/ v \notin LazySeqs THEN v ELSE chase[n - 1][lazy[v].produced]
  <2>1. chase[n] = [w \in ChaseOf |->
                      IF n = 0 \/ w \notin LazySeqs THEN w ELSE chase[n - 1][lazy[w].produced]]
    BY <1>7
  <2> QED
    BY <2>1
<1> QED
  BY <1>8

\* Beyond its depth there is nothing more to follow.
LEMMA ChaseEnds ==
  ASSUME IInv, NEW depth, Nested(depth), IsFiniteSet(LazySeqs)
  PROVE  \A n \in Nat : \A w \in ChaseOf :
           (w \in LazySeqs => depth[w] <= n) => chase[n + 1][w] = chase[n][w]
<1> DEFINE Ended(n) == \A w \in ChaseOf :
             (w \in LazySeqs => depth[w] <= n) => chase[n + 1][w] = chase[n][w]
           T == {n \in Nat : ~Ended(n)}
<1>0. \A s \in LazySeqs : depth[s] \in Nat \ {0}
  BY FS_CardinalityType DEF Nested
<1>1. ASSUME T # {}
      PROVE  FALSE
  <2>1. PICK n \in T : \A j \in T : n <= j
    <3> T \subseteq Nat
      OBVIOUS
    <3> HIDE DEF T
    <3> QED
      BY <1>1, SmallestNat
  <2>2. PICK w \in ChaseOf : (w \in LazySeqs => depth[w] <= n) /\ chase[n + 1][w] # chase[n][w]
    OBVIOUS
  <2>3. n \in Nat /\ n + 1 \in Nat /\ n + 1 # 0 /\ (n + 1) - 1 = n
    OBVIOUS
  <2>4. w \in LazySeqs
    BY <2>2, <2>3, ChaseEquation
  <2>5. n # 0
    BY <1>0, <2>2, <2>4
  <2>6. n - 1 \in Nat /\ n - 1 \notin T /\ (n - 1) + 1 = n
    <3>1. \A j \in T : j \in Nat /\ n <= j
      BY <2>1
    <3> HIDE DEF T
    <3> QED
      BY <2>3, <2>5, <3>1
  <2>7. PICK p \in ChaseOf : p = lazy[w].produced /\ (p \in LazySeqs => depth[p] < depth[w])
    <3>1. lazy[w].produced \in Returns[w] \cup {Pending} /\ lazy[w].produced \in Links \cup {Pending}
      BY <2>4 DEF IInv, LazyInv, NothingUnrun, LazyRecords
    <3>2. Pending \notin LazySeqs
      BY DeferredAssumption, LazySeqAssumption
    <3> QED
      BY <2>4, <3>1, <3>2 DEF Nested, ChaseOf, Links
  <2>8. chase[n + 1][w] = chase[n][p] /\ chase[n][w] = chase[n - 1][p]
    BY <2>3, <2>4, <2>5, <2>7, ChaseEquation
  <2>9. p \in LazySeqs => depth[p] <= n - 1
    BY <1>0, <2>2, <2>3, <2>4, <2>7
  <2>10. chase[n][p] = chase[n - 1][p]
    <3>1. Ended(n - 1)
      BY <2>6
    <3> QED
      BY <2>6, <2>9, <3>1
  <2> QED
    BY <2>2, <2>8, <2>10
<1> QED
  BY <1>1

\* A lazy sequence leads where what its body has returned leads.
LEMMA ChaseFollows ==
  ASSUME IInv, NEW depth, Nested(depth), IsFiniteSet(LazySeqs), NEW t \in LazySeqs
  PROVE  lazy[t].produced \in ChaseOf /\ Chase(t) = Chase(lazy[t].produced)
<1> DEFINE N == Cardinality(LazySeqs)
           p == lazy[t].produced
<1>1. N \in Nat /\ N - 1 \in Nat /\ N # 0 /\ (N - 1) + 1 = N
  <2>1. N \in Nat /\ N # 0
    BY FS_CardinalityType, FS_EmptySet
  <2> HIDE DEF N
  <2> QED
    BY <2>1
<1>2. p \in ChaseOf /\ (p \in LazySeqs => depth[p] <= N - 1)
  <2>1. p \in Returns[t] \cup {Pending} /\ p \in Links \cup {Pending}
    BY DEF IInv, LazyInv, NothingUnrun, LazyRecords
  <2>2. Pending \notin LazySeqs
    BY DeferredAssumption, LazySeqAssumption
  <2>3. p \in LazySeqs => depth[p] < depth[t] /\ depth[p] \in 1 .. N
    BY <2>1, <2>2 DEF Nested
  <2>4. depth[t] \in 1 .. N
    BY DEF Nested
  <2>5. p \in LazySeqs => depth[p] <= N - 1
    <3> HIDE DEF N, p
    <3> QED
      BY <1>1, <2>3, <2>4
  <2> QED
    BY <2>1, <2>5 DEF ChaseOf, Links
<1>3. t \in ChaseOf
  BY DEF ChaseOf
<1>4. chase[N][t] = chase[N - 1][p]
  <2> HIDE DEF N
  <2> QED
    BY <1>1, <1>3, ChaseEquation
<1>5. chase[N][p] = chase[N - 1][p]
  <2> HIDE DEF N, p
  <2>1. chase[(N - 1) + 1][p] = chase[N - 1][p]
    BY <1>1, <1>2, ChaseEnds
  <2> QED
    BY <1>1, <2>1
<1> QED
  BY <1>2, <1>4, <1>5 DEF Chase

LEMMA ReachedIsChased ==
  ASSUME IInv, NEW depth, Nested(depth), IsFiniteSet(LazySeqs), NEW s \in LazySeqs, ~lazy[s].fn,
         NEW v \in Colls \cup {Nil}, Reaches(lazy[s].produced, v)
  PROVE  v = Chase(s)
<1> DEFINE C == {u \in Links : Chase(u) = Chase(s)}
<1>1. \A t \in LazySeqs : Chase(t) = Chase(lazy[t].produced)
  BY ChaseFollows
<1>2. lazy[s].produced \in C
  BY <1>1, ReturnedProduced
<1>3. Closed(C)
  <2>1. ASSUME NEW t \in C, t \in LazySeqs, lazy[t].produced # Pending
        PROVE  lazy[t].produced \in C
    <3>1. lazy[t].produced \in Links
      BY <2>1 DEF IInv, LazyInv, LazyRecords
    <3> QED
      BY <1>1, <2>1, <3>1
  <2> QED
    BY <2>1 DEF Closed
<1>4. v \in C
  <2> HIDE DEF C
  <2>1. C \in SUBSET Links
    BY DEF C
  <2> QED
    BY <1>2, <1>3, <2>1 DEF Reaches
<1>5. v \in ChaseOf /\ v \notin LazySeqs /\ Cardinality(LazySeqs) \in Nat
  BY LazySeqAssumption, FS_CardinalityType DEF ChaseOf
<1>6. Chase(v) = v
  BY <1>5, ChaseEquation DEF Chase
<1> QED
  BY <1>4, <1>6

\* The inductive invariant of the sequences that Seq stores.
KeptInv == IInv /\ (NoLost => Chained)

LEMMA KeptStep ==
  ASSUME KeptInv, [Next]_vars, IInv', NEW depth, Nested(depth), IsFiniteSet(LazySeqs)
  PROVE  KeptInv'
<1> USE DEF KeptInv
<1>1. ASSUME lazy' = lazy, \A h \in G : op'[h] = op[h] \/ (~Seeking(h) /\ ~Seeking(h)')
      PROVE  KeptInv'
  BY <1>1, ChainedUnmoved DEF NoLost
<1>2. ASSUME NEW g \in G, Start(g)
      PROVE  KeptInv'
  BY <1>1, <1>2, StartMoves, StartKeeps
<1>3. ASSUME NEW g \in G, Continue(g)
      PROVE  KeptInv'
  <2>1. CASE LazySeqStep(g)
    BY <2>1, LazySeqStepChained
  <2>2. CASE MappedStep(g) /\ UNCHANGED <<lazy, delay, promiseVars>>
    <3>1. Alone(g) /\ op[g] \in MapCalls /\ (op'[g] \in MapCalls \/ Ends(g))
      BY <2>2, MappedStepKeeps DEF MapStepKeeps
    <3> QED
      BY <1>1, <2>2, <3>1, SeqsNotMoved
  <2>3. CASE DelayStep(g) /\ UNCHANGED <<lazy, mapped, promiseVars>>
    <3>1. Alone(g) /\ op[g] \in ForceCalls /\ (op'[g] \in ForceCalls \/ Ends(g))
      BY <2>3, DelayStepKeeps DEF ForceStepKeeps
    <3> QED
      BY <1>1, <2>3, <3>1, SeqsNotMoved
  <2>4. CASE PromiseStep(g) /\ UNCHANGED <<lazy, mapped, delay>>
    <3>1. /\ Alone(g) /\ op[g] \in DeliverCalls \cup AwaitCalls \cup Endings
          /\ op'[g] \in DeliverCalls \cup AwaitCalls \cup Endings \cup {Exited} \/ Ends(g)
      BY <2>4, PromiseStepKeeps DEF AwaitStepKeeps
    <3> QED
      BY <1>1, <2>4, <3>1, SeqsNotMoved
  <2> QED
    BY <1>3, <2>1, <2>2, <2>3, <2>4 DEF Continue
<1>4. ASSUME UNCHANGED vars
      PROVE  KeptInv'
  BY <1>1, <1>4 DEF vars, callVars
<1> QED
  BY <1>2, <1>3, <1>4 DEF Next

\* LazySeqKeepsValue (of LazySeq.Seq and its realize): what Seq has stored is what the
\* bodies' values lead to, whatever the interleaving of the Seqs of it and of those it
\* contains, unless a value has been lost; for bodies that do not return one another in
\* a circle.
THEOREM LazySeqsKeepValues ==
  ASSUME NEW CONSTANT depth, Nested(depth), IsFiniteSet(LazySeqs)
  PROVE  Spec => []LazySeqKeepsValue
<1>1. Init => KeptInv
  <2>1. ASSUME Init
        PROVE  Chained
    <3>1. \A s \in LazySeqs : ~Settled(s)
      BY <2>1 DEF Init, LazyInit, NewLazySeq, Settled
    <3>2. \A g \in G : ~Seeking(g)
      BY <2>1, WhereResting DEF Init, CallsInit, Seeking, In, InCall
    <3> QED
      BY <3>1, <3>2 DEF Chained
  <2> QED
    BY <2>1, InitInv DEF KeptInv
<1>2. KeptInv /\ IInv' /\ [Next]_vars => KeptInv'
  BY KeptStep
<1>3. KeptInv => LazySeqKeepsValue
  <2>1. ASSUME KeptInv, NoLost, NEW s \in LazySeqs, Settled(s)
        PROVE  lazy[s].seq = Chase(s)
    <3>1. lazy[s].seq \in Colls \cup {Nil} /\ ~lazy[s].fn /\ Reaches(lazy[s].produced, lazy[s].seq)
      BY <2>1 DEF KeptInv, IInv, LazyInv, LazyRecords, Settled, Chained
    <3> QED
      BY <2>1, <3>1, ReachedIsChased DEF KeptInv
  <2> QED
    BY <2>1 DEF LazySeqKeepsValue, NoLost
<1> QED
  BY <1>1, <1>2, <1>3, Invariance, PTL DEF Spec
=============================================================================
