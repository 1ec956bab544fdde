------------------------------ MODULE Deferred ------------------------------
(***************************************************************************)
(* Goroutines that share lazy and mapped sequences, delays, promises and   *)
(* futures: LazySeq, MappedSeq, Delay and Promise composed.  The worker of *)
(* a future that panics ends the process, whichever object it was at.      *)
(***************************************************************************)
EXTENDS LazySeq, MappedSeq, Delay, Promise

\* Each object is of one kind, and what stands for a state of a lock or of an object is
\* neither a goroutine nor a value.
ASSUME DeferredAssumption ==
  /\ Objects = LazySeqs \cup MappedSeqs \cup Delays \cup Promises \cup Futures
  /\ LazySeqs \cap (MappedSeqs \cup Delays \cup Promises \cup Futures) = {}
  /\ MappedSeqs \cap (Delays \cup Promises \cup Futures) = {}
  /\ Delays \cap (Promises \cup Futures) = {}
  /\ Promises \cap Futures = {}
  /\ {OnceDone, NoMutex} \cap (G \cup {NoOne}) = {}
  /\ Pending \notin Colls \cup MappedValues \cup DelayValues \cup Delivered \cup Objects
                     \cup Exceptions \cup {Nil, TimedOut}

vars == <<callVars, lazy, mapped, delay, promiseVars>>

Init == CallsInit /\ LazyInit /\ MappedInit /\ DelayInit /\ PromiseInit

AllCalls ==
  {SeqCall(s) : s \in LazySeqs} \cup {RealizeCall(m) : m \in MappedSeqs}
    \cup {ForceCall(d) : d \in Delays}
    \cup {DeliverCall(p, v) : p \in Promises, v \in Delivered}
    \cup {AwaitCall(o, timed) : o \in Promises \cup Futures, timed \in BOOLEAN}

Continue(g) ==
  /\ Running
  /\ \/ LazySeqStep(g) /\ UNCHANGED <<mapped, delay, promiseVars>>
     \/ MappedStep(g) /\ UNCHANGED <<lazy, delay, promiseVars>>
     \/ DelayStep(g) /\ UNCHANGED <<lazy, mapped, promiseVars>>
     \/ PromiseStep(g) /\ UNCHANGED <<lazy, mapped, delay>>

Start(g) ==
  /\ Running
  /\ \/ \E call \in AllCalls :
          /\ g \in Workers => call.obj # FutureOf[g]
          /\ Begin(g, call) /\ UNCHANGED promiseVars
     \/ \E w \in Workers : Submit(g, w)
  /\ UNCHANGED <<lazy, mapped, delay>>

Next == \E g \in G : Start(g) \/ Continue(g)

Spec == Init /\ [][Next]_vars

\* The Go scheduler lets a goroutine that can run take its next step; the functions that
\* run in it return or panic.
FairSpec == Spec /\ \A g \in G : WF_vars(Continue(g))

-----------------------------------------------------------------------------
(* Properties.                                                             *)

\* Every variable has its type, and whoever runs a body holds the lock that keeps others
\* from running it: no panic leaves a lock behind.
TypeOK ==
  /\ got \in [Objects -> SUBSET (Colls \cup MappedValues \cup DelayValues \cup Delivered \cup Promises
                                   \cup Exceptions \cup {Nil, TimedOut})]
  /\ \A s \in LazySeqs :
       /\ lazy[s].realizeMtx # NoOne =>
            LET g == lazy[s].realizeMtx
            IN op[g].at \in {"body", "read"} /\ op[g].cur = s
       /\ lazy[s].seqMtx # NoOne => op[lazy[s].seqMtx].obj = s
  /\ \A g \in G : In(g, "body") => lazy[op[g].cur].realizeMtx = g
  /\ \A m \in MappedSeqs :
       mapped[m].once \in {NoOne, OnceDone} \cup {g \in G : Mapping(g, "apply") /\ op[g].obj = m}
  /\ \A d \in Delays : delay[d].mtx \in {NoOne, NoMutex} \cup {g \in G : Forcing(g, "body")}
  /\ \A p \in Promises :
       promise[p].once \in {NoOne, OnceDone} \cup
         {g \in G : Delivering(g, "store") \/ Delivering(g, "close")}

Outcome(o) ==
  CASE o \in LazySeqs -> IF Settled(o) THEN lazy[o].seq ELSE Pending
    [] o \in MappedSeqs -> IF mapped[o].once = OnceDone THEN mapped[o].value ELSE Pending
    [] o \in Delays -> IF delay[o].exception # Nil THEN delay[o].exception
                       ELSE IF delay[o].fn THEN Pending ELSE delay[o].val
    [] OTHER -> IF Cell(o).done THEN Cell(o).val ELSE Pending

\* Every lazy sequence, element of map, delay, promise and future is a cell that is set
\* once: all Seq, Deref and force calls on it return the same value, and none returns before
\* it is there.  A delay whose function has panicked throws from then on, even if the
\* function returns when a later force runs it again; it throws the exception the function
\* panicked with last, so that two callers may be thrown different ones.
Once == INSTANCE OnceCell
          WITH cell <- [o \in Objects |-> Outcome(o)], Retried <- Delays, Unset <- Pending,
               Outcomes <- Colls \cup MappedValues \cup DelayValues \cup Delivered \cup Objects
                             \cup Exceptions \cup {Nil, TimedOut}
ImplementsOnceCell == Once!CellSpec

\* The body of a lazy sequence or a delay is not run again once it has returned, nor the
\* function of map once it has ended: what they have returned is never replaced.
BodiesReturnOnce ==
  [][/\ \A s \in LazySeqs : lazy[s].produced # Pending => lazy'[s].produced = lazy[s].produced
     /\ \A m \in MappedSeqs : mapped[m].once = OnceDone => mapped'[m] = mapped[m]
     /\ \A d \in Delays : ~delay[d].fn => delay'[d].val = delay[d].val /\ ~delay'[d].fn]_vars

\* A lazy sequence is what its body has returned and the bodies of the lazy sequences in
\* it, unless the body of an inner one panicked under Seq or two Seqs met at one of them.
LazySeqKeepsValue ==
  (\A s \in LazySeqs : lazy[s].lost = {}) =>
    \A s \in LazySeqs : Settled(s) => lazy[s].seq = Chase(s)

\* "will cache the result and return it on all subsequent seq calls": what Seq stores is
\* the sequence the bodies have returned, whoever else asks at the same time.
LazySeqCachesResult ==
  (\A s \in LazySeqs : "panic" \notin lazy[s].lost) =>
    \A s \in LazySeqs : Settled(s) => lazy[s].seq = Chase(s)

InProgress(g) == op[g] \notin {Idle, Unborn, Exited, Crashed}

\* Nobody has begun to deliver the promise, or nil has been delivered; the function of
\* the future has not returned.
WaitsForNothing(g) ==
  /\ InCall(g, "await", "wait")
  /\ LET o == op[g].obj
     IN IF o \in Promises
        THEN promise[o].once = NoOne \/ (promise[o].once = OnceDone /\ promise[o].val = Nil)
        ELSE \E w \in Workers : FutureOf[w] = o /\ op[w].at \notin {"returned", "close future", "exited"}

\* Every call returns or panics, as long as there is a process: nobody waits for a lock
\* for ever, or for a promise that has been delivered, or for a future whose function
\* has returned.
CallsReturn ==
  \A g \in G : []<>(Running => ~InProgress(g) \/ WaitsForNothing(g))
=============================================================================
