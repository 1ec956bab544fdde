------------------------------- MODULE Delay -------------------------------
(***************************************************************************)
(* Delays (pkg/lang/delay.go).  The stores of realize are seen in their    *)
(* order, as on amd64, by a Deref that has not taken the lock.             *)
(*                                                                         *)
(* Operators whose name ends in _Fault are the bugs that the properties    *)
(* are tried against; nothing else uses them.                              *)
(***************************************************************************)
EXTENDS Calls

CONSTANTS
  Delays,     \* delays
  DelayValues \* what their functions may return

ASSUME DelayAssumption ==
  Delays \subseteq Objects /\ Exceptions \cap DelayValues = {}

VARIABLE delay  \* the fields of each delay; mtx is NoOne for a mutex nobody holds

NoMutex == [at |-> "no mutex"]
NewDelay == [fn |-> TRUE, val |-> Nil, exception |-> Nil, mtx |-> NoOne]

DelayInit == delay = [d \in Delays |-> NewDelay]

\* Deref and ForceDelay.
ForceCall(d) == [kind |-> "force", at |-> "check", obj |-> d]
Forcing(g, at) == InCall(g, "force", at)

-----------------------------------------------------------------------------
\* The lock is not needed once there is none.
CheckMutex(g) ==
  /\ Forcing(g, "check")
  /\ Goto(g, IF delay[op[g].obj].mtx = NoMutex THEN "result" ELSE "lock")
  /\ UNCHANGED delay

\* fn is not looked at again with the lock held.
LockDelay_Fault(g) ==
  /\ Forcing(g, "lock") /\ delay[op[g].obj].mtx \in {NoOne, NoMutex}
  /\ delay' = [delay EXCEPT ![op[g].obj].mtx = g]
  /\ Goto(g, "body")

\* A Deref that comes late finds the mutex, which it has a pointer to, free.
LockDelay(g) ==
  LET d == op[g].obj
  IN /\ Forcing(g, "lock") /\ delay[d].mtx \in {NoOne, NoMutex}
     /\ IF delay[d].fn
        THEN delay' = [delay EXCEPT ![d].mtx = g] /\ Goto(g, "body")
        ELSE UNCHANGED delay /\ Goto(g, "result")

DelayBodyReturns(g) ==
  /\ Forcing(g, "body")
  /\ \E v \in DelayValues :
       delay' = [delay EXCEPT ![op[g].obj] =
                   [@ EXCEPT !.fn = FALSE, !.val = v, !.mtx = NoMutex]]
  /\ Goto(g, "result")

\* The panic is not kept, only passed on.
DelayBodyPanics_Fault(g) ==
  /\ Forcing(g, "body")
  /\ delay' = [delay EXCEPT ![op[g].obj].mtx = NoOne]
  /\ \E e \in Exceptions : Rethrow(g, e)

\* The panic is kept, in place of one that was, and the function too: the next Deref
\* calls it again.
DelayBodyPanics(g) ==
  /\ Forcing(g, "body")
  /\ \E e \in Exceptions :
       delay' = [delay EXCEPT ![op[g].obj] = [@ EXCEPT !.exception = e, !.mtx = NoOne]]
  /\ Goto(g, "result")

\* The exception is read without the lock: another call may have replaced it, ...
ForceResult(g) ==
  LET d == op[g].obj
  IN /\ Forcing(g, "result")
     /\ IF delay[d].exception # Nil THEN Rethrow(g, delay[d].exception)
        ELSE Return(g, delay[d].val)
     /\ UNCHANGED delay

\* ... or replace it between the reads of its two words: the type of one exception and
\* the value of another.
TornException(g) ==
  LET d == op[g].obj
  IN /\ Forcing(g, "result") /\ delay[d].exception # Nil
     /\ \E h \in G : Forcing(h, "body") /\ op[h].obj = d
     /\ Panic(g)
     /\ UNCHANGED delay

DelayStep(g) ==
  \/ CheckMutex(g)
  \/ LockDelay(g)
  \/ DelayBodyReturns(g)
  \/ DelayBodyPanics(g)
  \/ ForceResult(g)
  \/ TornException(g)
=============================================================================
