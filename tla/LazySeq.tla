------------------------------ MODULE LazySeq ------------------------------
(***************************************************************************)
(* Lazy sequences (pkg/lang/lazyseq.go).  Seq runs the body of a lazy      *)
(* sequence and of the lazy sequences that bodies return, until one has    *)
(* returned something else, and stores that.  seqMtx covers all of Seq,    *)
(* realizeMtx only realize; Seq of an outer lazy sequence calls realize of *)
(* the inner ones and does not take their seqMtx.                          *)
(*                                                                         *)
(* Operators whose name ends in _Fault are the bugs that the properties    *)
(* are tried against; nothing else uses them.                              *)
(***************************************************************************)
EXTENDS Calls, FiniteSets

CONSTANTS
  LazySeqs,  \* lazy sequences
  Colls,     \* sequences that are not lazy
  Returns    \* what the body of each lazy sequence may return

ASSUME LazySeqAssumption ==
  /\ LazySeqs \subseteq Objects /\ LazySeqs \cap (Colls \cup {Nil}) = {}
  /\ Returns \in [LazySeqs -> SUBSET (LazySeqs \cup Colls \cup {Nil})]

VARIABLE lazy  \* the fields of each lazy sequence

Pending == [at |-> "pending"]

\* produced and lost are history: what the body has returned, and how the value got lost.
NewLazySeq ==
  [fn |-> TRUE, sv |-> Nil, seq |-> Nil, realizeMtx |-> NoOne, seqMtx |-> NoOne,
   produced |-> Pending, lost |-> {}]

LazyInit == lazy = [s \in LazySeqs |-> NewLazySeq]

\* Seq(s); cur is the lazy sequence that is being realized.
SeqCall(s) == [kind |-> "seq", at |-> "seqMtx", obj |-> s, cur |-> s]
In(g, at) == InCall(g, "seq", at)

\* Has a goroutine taken the value of s and not stored the sequence yet?
Taken(s) == \E g \in G : /\ \E at \in {"realizeMtx", "body", "read", "store"} : In(g, at)
                          /\ op[g].obj = s /\ op[g].cur # s

-----------------------------------------------------------------------------
LockSeq(g) ==
  /\ In(g, "seqMtx") /\ lazy[op[g].obj].seqMtx = NoOne
  /\ lazy' = [lazy EXCEPT ![op[g].obj].seqMtx = g]
  /\ Goto(g, "realizeMtx")

\* realize up to the call of the body.
Realize(g) ==
  LET s == op[g].cur
  IN /\ In(g, "realizeMtx") /\ lazy[s].realizeMtx = NoOne
     /\ lazy' = [lazy EXCEPT ![s].realizeMtx = g]
     /\ Goto(g, IF lazy[s].fn THEN "body" ELSE "read")

BodyReturns(g) ==
  LET s == op[g].cur
  IN /\ In(g, "body")
     /\ \E v \in Returns[s] :
          lazy' = [lazy EXCEPT ![s].sv = v, ![s].fn = FALSE, ![s].produced = v]
     /\ Goto(g, "read")

Unlocked(g, locks) == [s \in LazySeqs |->
  [locks[s] EXCEPT !.realizeMtx = IF @ = g THEN NoOne ELSE @,
                   !.seqMtx = IF @ = g THEN NoOne ELSE @]]

\* A panic in a nested realize loses the value that Seq has taken.
Lost(g) == IF op[g].cur = op[g].obj THEN lazy
           ELSE [lazy EXCEPT ![op[g].obj].lost = @ \cup {"panic"}]

\* Unlocking is not deferred.
BodyPanics_Fault(g) ==
  /\ In(g, "body")
  /\ lazy' = Lost(g)
  /\ Panic(g)

\* The body stays, to be run again; the locks are released by defer.
BodyPanics(g) ==
  /\ In(g, "body")
  /\ lazy' = Unlocked(g, Lost(g))
  /\ Panic(g)

\* The next lazy sequence is realized; anything else is the sequence to store.
Follow(g, v) ==
  /\ op' = [op EXCEPT ![g].at = IF v \in LazySeqs THEN "realizeMtx" ELSE "store", ![g].cur = v]
  /\ UNCHANGED <<got, calls>>

\* The stored sequence is forgotten.
Value_Fault(s) == lazy[s].sv

\* What realize returns.
Value(s) == IF lazy[s].sv # Nil THEN lazy[s].sv ELSE lazy[s].seq

\* realize returns.  Nobody looks at what the first realize of a Seq returns.
ReadValue(g) ==
  LET s == op[g].cur
      unlocked == [lazy EXCEPT ![s].realizeMtx = NoOne]
  IN /\ In(g, "read")
     /\ \/ /\ s = op[g].obj
           /\ lazy' = unlocked
           /\ Goto(g, "take")
        \/ /\ s # op[g].obj
           /\ lazy' = [unlocked EXCEPT ![op[g].obj].lost =
                         IF lazy[s].sv = Nil /\ Taken(s) THEN @ \cup {"race"} ELSE @]
           /\ Follow(g, Value(s))

\* The two words of s.sv are read while another goroutine sets s.sv to nil: the type
\* of a lazy sequence and no pointer.
TornRead(g) ==
  LET s == op[g].cur
  IN /\ In(g, "read") /\ s # op[g].obj /\ lazy[s].sv \in LazySeqs
     /\ \E h \in G : In(h, "take") /\ op[h].obj = s
     /\ lazy' = Unlocked(g, [lazy EXCEPT ![op[g].obj].lost = @ \cup {"race"}])
     /\ Panic(g)

\* Seq holds seqMtx only, and takes the value if nobody has before.
Take(g) ==
  LET s == op[g].obj
  IN /\ In(g, "take")
     /\ IF lazy[s].sv = Nil
        THEN lazy' = Unlocked(g, lazy) /\ Return(g, lazy[s].seq)
        ELSE lazy' = [lazy EXCEPT ![s].sv = Nil] /\ Follow(g, lazy[s].sv)

Store(g) ==
  /\ In(g, "store")
  /\ lazy' = [Unlocked(g, lazy) EXCEPT ![op[g].obj].seq = op[g].cur]
  /\ Return(g, op[g].cur)

LazySeqStep(g) ==
  \/ LockSeq(g)
  \/ Realize(g)
  \/ BodyReturns(g)
  \/ BodyPanics(g)
  \/ ReadValue(g)
  \/ TornRead(g)
  \/ Take(g)
  \/ Store(g)

-----------------------------------------------------------------------------
(* What the properties of Deferred say of lazy sequences.                  *)

Settled(s) == ~lazy[s].fn /\ lazy[s].sv = Nil /\ ~Taken(s)

\* What there is at the end of the bodies' values, following at most n of them.
chase[n \in Nat] == [v \in LazySeqs \cup Colls \cup {Nil, Pending} |->
  IF n = 0 \/ v \notin LazySeqs THEN v ELSE chase[n - 1][lazy[v].produced]]
Chase(s) == chase[Cardinality(LazySeqs)][s]
=============================================================================
