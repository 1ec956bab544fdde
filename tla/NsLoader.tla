------------------------------ MODULE NsLoader ------------------------------
(***************************************************************************)
(* The loaders of namespaces compiled ahead of time                        *)
(* (pkg/runtime/nsloaders.go).  A loader runs when its namespace is        *)
(* required or loaded (explicitly) and when a goroutine reads an unbound   *)
(* Var of the namespace (lazily).  The body of a loader is compiled code:  *)
(* it calls other loaders, and it may panic.                               *)
(*                                                                         *)
(* stack[g] holds the calls of nsLoader.run goroutine g is inside of.  A   *)
(* critical section of the loader's mutex is one step.                     *)
(*                                                                         *)
(* Operators whose name ends in _Fault are the bugs that the properties    *)
(* are tried against; nothing else uses them.                              *)
(***************************************************************************)
EXTENDS Goroutines, Integers, Sequences

CONSTANTS
  Loaders,   \* registered loaders
  Deps,      \* the loaders the body of a loader may call
  MaxCalls   \* bound on the calls of loaders from outside of loaders

ASSUME LoaderAssumption ==
  /\ Deps \in [Loaders -> SUBSET Loaders]
  /\ MaxCalls \in Nat

VARIABLES
  loaded,   \* l.loaded
  loading,  \* l.loading: the goroutine running the body of l, or NoOne
  stack,    \* the calls of run each goroutine is inside of
  calls     \* the calls from outside of loaders so far

vars == <<loaded, loading, stack, calls>>

\* A call of run is about to take the mutex ("try"), inside cond.Wait ("wait"),
\* running the body ("body"), or unwinding from a panic of the body ("unwind").
\* left: the loaders the body may still call.
Phase == {"try", "wait", "body", "unwind"}
Frame == [loader : Loaders, lazy : BOOLEAN, phase : Phase, left : SUBSET Loaders]

Top(s) == s[Len(s)]
Pop(s) == SubSeq(s, 1, Len(s) - 1)
ReplaceTop(s, f) == [s EXCEPT ![Len(s)] = f]
TopInPhase(s, p) == ReplaceTop(s, [Top(s) EXCEPT !.phase = p])
InPhase(g, p) == stack[g] # <<>> /\ Top(stack[g]).phase = p

Init ==
  /\ loaded = [l \in Loaders |-> FALSE]
  /\ loading = [l \in Loaders |-> NoOne]
  /\ stack = [g \in G |-> <<>>]
  /\ calls = 0

-----------------------------------------------------------------------------
(* nsLoader.run                                                            *)

NewCall(l, lazy) == [loader |-> l, lazy |-> lazy, phase |-> "try", left |-> {}]

\* require, load or the first read of an unbound Var, outside of any loader.
CallOutside(g, l, lazy) ==
  /\ stack[g] = <<>> /\ calls < MaxCalls
  /\ calls' = calls + 1
  /\ stack' = [stack EXCEPT ![g] = <<NewCall(l, lazy)>>]
  /\ UNCHANGED <<loaded, loading>>

Calling(f, l) == [f EXCEPT !.left = @ \ {l}]

\* The same in the body of a loader.
CallInside(g, l, lazy) ==
  /\ InPhase(g, "body") /\ l \in Top(stack[g]).left
  /\ stack' = [stack EXCEPT ![g] =
                 Append(ReplaceTop(@, Calling(Top(@), l)), NewCall(l, lazy))]
  /\ UNCHANGED <<loaded, loading, calls>>

AlreadyLoaded_Fault(f) == FALSE

AlreadyLoaded(f) == f.lazy /\ loaded[f.loader]

\* Whoever is loading, the call returns.
ReturnAtOnceIfLoading_Fault(g) ==
  /\ InPhase(g, "try")
  /\ LET f == Top(stack[g]) IN AlreadyLoaded(f) \/ loading[f.loader] # NoOne
  /\ stack' = [stack EXCEPT ![g] = Pop(@)]
  /\ UNCHANGED <<loaded, loading, calls>>

\* A call by the goroutine that is loading is not recognised.
ReturnAtOnceIfLoaded_Fault(g) ==
  /\ InPhase(g, "try") /\ AlreadyLoaded(Top(stack[g]))
  /\ stack' = [stack EXCEPT ![g] = Pop(@)]
  /\ UNCHANGED <<loaded, loading, calls>>

\* Lazily called and loaded, or called again by the goroutine that is loading.
ReturnAtOnce(g) ==
  /\ InPhase(g, "try")
  /\ LET f == Top(stack[g]) IN AlreadyLoaded(f) \/ loading[f.loader] = g
  /\ stack' = [stack EXCEPT ![g] = Pop(@)]
  /\ UNCHANGED <<loaded, loading, calls>>

\* Another goroutine is loading.
Wait(g) ==
  /\ InPhase(g, "try")
  /\ LET f == Top(stack[g]) IN ~AlreadyLoaded(f) /\ loading[f.loader] \notin {NoOne, g}
  /\ stack' = [stack EXCEPT ![g] = TopInPhase(@, "wait")]
  /\ UNCHANGED <<loaded, loading, calls>>

\* A waiter does not look again at l.loading when it wakes up.
StartBody_Fault(g) ==
  /\ InPhase(g, "try")
  /\ LET f == Top(stack[g])
     IN /\ ~AlreadyLoaded(f) /\ loading[f.loader] # g
        /\ loading' = [loading EXCEPT ![f.loader] = g]
        /\ stack' = [stack EXCEPT ![g] =
                       ReplaceTop(@, [f EXCEPT !.phase = "body", !.left = Deps[f.loader]])]
  /\ UNCHANGED <<loaded, calls>>

StartBody(g) ==
  /\ InPhase(g, "try")
  /\ LET f == Top(stack[g])
     IN /\ ~AlreadyLoaded(f) /\ loading[f.loader] = NoOne
        /\ loading' = [loading EXCEPT ![f.loader] = g]
        /\ stack' = [stack EXCEPT ![g] =
                       ReplaceTop(@, [f EXCEPT !.phase = "body", !.left = Deps[f.loader]])]
  /\ UNCHANGED <<loaded, calls>>

\* cond.Broadcast: the goroutines waiting for l go back to its mutex.
Broadcast(s, l) ==
  [g \in G |->
     IF s[g] # <<>> /\ Top(s[g]).loader = l /\ Top(s[g]).phase = "wait"
     THEN TopInPhase(s[g], "try") ELSE s[g]]

\* The deferred function does not broadcast.
FinishBody_Fault(g) ==
  /\ InPhase(g, "body")
  /\ LET l == Top(stack[g]).loader
     IN /\ loaded' = [loaded EXCEPT ![l] = TRUE]
        /\ loading' = [loading EXCEPT ![l] = NoOne]
        /\ stack' = [stack EXCEPT ![g] = Pop(@)]
  /\ UNCHANGED calls

\* The body and the native initializer have returned; the deferred function runs.
FinishBody(g) ==
  /\ InPhase(g, "body")
  /\ LET l == Top(stack[g]).loader
     IN /\ loaded' = [loaded EXCEPT ![l] = TRUE]
        /\ loading' = [loading EXCEPT ![l] = NoOne]
        /\ stack' = Broadcast([stack EXCEPT ![g] = Pop(@)], l)
  /\ UNCHANGED calls

BodyPanics(g) ==
  /\ InPhase(g, "body")
  /\ stack' = [stack EXCEPT ![g] = TopInPhase(@, "unwind")]
  /\ UNCHANGED <<loaded, loading, calls>>

\* The cleanup is not deferred: a panic skips it.
Unwind_Fault(g) ==
  /\ InPhase(g, "unwind")
  /\ stack' = [stack EXCEPT ![g] = Pop(@)]
  /\ UNCHANGED <<loaded, loading, calls>>

\* The deferred function runs while the panic leaves the call; the body that made
\* the call catches the panic or is left by it as well.
Unwind(g) ==
  /\ InPhase(g, "unwind")
  /\ LET l == Top(stack[g]).loader
         rest == Pop(stack[g])
     IN /\ loading' = [loading EXCEPT ![l] = NoOne]
        /\ \/ stack' = Broadcast([stack EXCEPT ![g] = rest], l)
           \/ /\ rest # <<>>
              /\ stack' = Broadcast([stack EXCEPT ![g] = TopInPhase(rest, "unwind")], l)
  /\ UNCHANGED <<loaded, calls>>

-----------------------------------------------------------------------------
\* What a goroutine inside of a call does next.
Continue(g) ==
  \/ \E l \in Loaders, lazy \in BOOLEAN : CallInside(g, l, lazy)
  \/ ReturnAtOnce(g)
  \/ Wait(g)
  \/ StartBody(g)
  \/ FinishBody(g)
  \/ BodyPanics(g)
  \/ Unwind(g)

Next ==
  \E g \in G :
    \/ \E l \in Loaders, lazy \in BOOLEAN : CallOutside(g, l, lazy)
    \/ Continue(g)

Spec == Init /\ [][Next]_vars

\* The Go scheduler lets every goroutine that can run take its next step.
FairSpec == Spec /\ \A g \in G : WF_vars(Continue(g))

-----------------------------------------------------------------------------
(* Properties.                                                             *)

Running(f) == f.phase \in {"body", "unwind"}

\* Every variable has its type, and l.loading names only a goroutine that is inside
\* of the body of l: no panic leaves it behind.
TypeOK ==
  /\ loaded \in [Loaders -> BOOLEAN]
  /\ loading \in [Loaders -> G \cup {NoOne}]
  /\ stack \in [G -> Seq(Frame)]
  /\ calls \in 0 .. MaxCalls
  /\ \A l \in Loaders : loading[l] # NoOne =>
       \E i \in DOMAIN stack[loading[l]] :
         Running(stack[loading[l]][i]) /\ stack[loading[l]][i].loader = l

\* The body of a loader runs in one call at a time, whichever goroutine makes it,
\* and l.loading names the goroutine from the start of the body to its cleanup.
ExclusiveBody ==
  \A g, h \in G : \A i \in DOMAIN stack[g], j \in DOMAIN stack[h] :
    /\ Running(stack[g][i]) => loading[stack[g][i].loader] = g
    /\ /\ Running(stack[g][i]) /\ Running(stack[h][j])
       /\ stack[g][i].loader = stack[h][j].loader
       => g = h /\ i = j

\* "Lazy loads run at most once": while a body runs for a lazy call no body of that
\* loader has completed, neither before nor meanwhile.
LazyLoadsOnce ==
  \A g \in G : \A i \in DOMAIN stack[g] :
    LET f == stack[g][i] IN f.lazy /\ Running(f) => ~loaded[f.loader]

\* No wake-up is lost: whoever waits for a loader waits for another goroutine that is
\* inside its body and will broadcast.
WaitersHaveALoader ==
  \A g \in G : InPhase(g, "wait") =>
    LET l == Top(stack[g]).loader
    IN \E h \in G \ {g} : \E i \in DOMAIN stack[h] :
         Running(stack[h][i]) /\ stack[h][i].loader = l

\* A lazy call that returns normally has the namespace loaded, unless it was made
\* inside of the body of that very loader: a Var is not read as unbound because
\* its namespace is half loaded by another goroutine.
LazyReturnsLoaded ==
  [][\A g \in G :
       LET f == Top(stack[g])
       IN /\ Len(stack'[g]) < Len(stack[g]) /\ f.phase # "unwind" /\ f.lazy
          => \/ loaded'[f.loader]
             \/ \E i \in 1 .. Len(stack[g]) - 1 :
                  stack[g][i].loader = f.loader /\ Running(stack[g][i])]_vars

\* When loaders of different namespaces do not call each other in a circle, every
\* call of a loader returns, also when bodies panic and waiters compete.
CallsReturn == \A g \in G : (stack[g] # <<>>) ~> (stack[g] = <<>>)
=============================================================================
