------------------------------ MODULE Promise ------------------------------
(***************************************************************************)
(* Promises (pkg/runtime/promise.go) and futures (pkg/lang/agent.go): both *)
(* have a channel, done, that is closed once and that Deref waits for.     *)
(*                                                                         *)
(* The worker of a future makes one call.  It calls anything but its own   *)
(* future, which the function does not know yet when it is submitted.      *)
(*                                                                         *)
(* Operators whose name ends in _Fault are the bugs that the properties    *)
(* are tried against; nothing else uses them.                              *)
(***************************************************************************)
EXTENDS Calls

CONSTANTS
  Promises,      \* promises
  Delivered,     \* what is delivered to them; may have Nil
  FutureOf,      \* the future each worker is for
  TimedOut       \* what a Deref with a timeout returns then

ASSUME PromiseAssumption ==
  /\ Promises \subseteq Objects /\ FutureOf \in [Workers -> Objects]
  /\ \A v, w \in Workers : FutureOf[v] = FutureOf[w] => v = w

VARIABLES
  promise,  \* the fields of each promise; once is the goroutine in once.Do
  future    \* the fields of each future

promiseVars == <<promise, future>>

Futures == {FutureOf[w] : w \in Workers}
NewPromise == [once |-> NoOne, val |-> Nil, done |-> FALSE]
NewFuture == [res |-> Nil, done |-> FALSE]

PromiseInit ==
  /\ promise = [p \in Promises |-> NewPromise]
  /\ future = [f \in Futures |-> NewFuture]

Delivering(g, at) == InCall(g, "deliver", at)

\* Invoke(value), and the Deref of promises and futures, with and without a timeout.
DeliverCall(p, value) == [kind |-> "deliver", at |-> "once", obj |-> p, value |-> value]
AwaitCall(o, timed) == [kind |-> "await", at |-> "wait", obj |-> o, timed |-> timed]

-----------------------------------------------------------------------------
\* once.Do waits for a delivery in progress.
EnterOnce(g) ==
  LET p == op[g].obj
  IN /\ Delivering(g, "once") /\ promise[p].once = NoOne
     /\ promise' = [promise EXCEPT ![p].once = g]
     /\ Goto(g, "store")
     /\ UNCHANGED future

RefuseDelivery(g) ==
  /\ Delivering(g, "once") /\ promise[op[g].obj].once = OnceDone
  /\ ReturnAnyway(g, Nil)
  /\ UNCHANGED promiseVars

\* The atomic.Value takes no nil: the panic ends the once, and nothing is delivered.
StoreDelivered(g) ==
  LET p == op[g].obj
      v == op[g].value
  IN /\ Delivering(g, "store")
     /\ IF v = Nil
        THEN promise' = [promise EXCEPT ![p].once = OnceDone] /\ Panic(g)
        ELSE promise' = [promise EXCEPT ![p].val = v] /\ Goto(g, "close")
     /\ UNCHANGED future

\* The delivery is flagged, and nobody told.
CloseDone_Fault(g) ==
  /\ Delivering(g, "close")
  /\ promise' = [promise EXCEPT ![op[g].obj].once = OnceDone]
  /\ ReturnAnyway(g, op[g].obj)
  /\ UNCHANGED future

CloseDone(g) ==
  /\ Delivering(g, "close")
  /\ promise' = [promise EXCEPT ![op[g].obj] = [@ EXCEPT !.once = OnceDone, !.done = TRUE]]
  /\ ReturnAnyway(g, op[g].obj)
  /\ UNCHANGED future

Cell(o) == IF o \in Promises THEN [done |-> promise[o].done, val |-> promise[o].val]
           ELSE [done |-> future[o].done, val |-> future[o].res]

Await(g) ==
  /\ InCall(g, "await", "wait") /\ Cell(op[g].obj).done
  /\ Return(g, Cell(op[g].obj).val)
  /\ UNCHANGED promiseVars

\* select may choose the timer also when done is closed; GetWithTimeout panics then.
TimeOut(g) ==
  /\ InCall(g, "await", "wait") /\ op[g].timed
  /\ \/ ReturnAnyway(g, TimedOut)
     \/ op[g].obj \in Futures /\ Panic(g)
  /\ UNCHANGED promiseVars

-----------------------------------------------------------------------------
(* AgentSubmit and the goroutine it starts.                                *)

Submit(g, w) ==
  /\ op[g] = Idle /\ op[w] = Unborn
  /\ op' = [op EXCEPT ![w] = Idle]
  /\ UNCHANGED <<got, calls, promiseVars>>

StoreResult(w) ==
  /\ op[w].at = "returned"
  /\ future' = [future EXCEPT ![FutureOf[w]].res = op[w].value]
  /\ Goto(w, "close future")
  /\ UNCHANGED promise

CloseFuture(w) ==
  /\ op[w].at = "close future"
  /\ future' = [future EXCEPT ![FutureOf[w]].done = TRUE]
  /\ op' = [op EXCEPT ![w] = Exited]
  /\ UNCHANGED <<got, calls, promise>>

PromiseStep(g) ==
  \/ EnterOnce(g)
  \/ RefuseDelivery(g)
  \/ StoreDelivered(g)
  \/ CloseDone(g)
  \/ Await(g)
  \/ TimeOut(g)
  \/ StoreResult(g)
  \/ CloseFuture(g)
=============================================================================
