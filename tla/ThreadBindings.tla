--------------------------- MODULE ThreadBindings ---------------------------
(***************************************************************************)
(* Thread bindings of Vars (pkg/lang/var.go): every goroutine has a stack  *)
(* of frames, pushed and popped by the `binding` form and conveyed to      *)
(* futures as snapshots, and every Var counts the frames that bind it, so  *)
(* that a Var nobody has bound is read without looking for a stack.        *)
(*                                                                         *)
(* A goroutine runs one operation at a time; an operation that takes       *)
(* several atomic steps keeps what it still has to do in op[g].  A frame   *)
(* maps Vars to the contents of their Boxes: a Box belongs to one frame of *)
(* one glStorage, so sharing can only be the sharing of a storage.         *)
(*                                                                         *)
(* Operators whose name ends in _Fault are the bugs that the properties    *)
(* are tried against; nothing else uses them.                              *)
(***************************************************************************)
EXTENDS Integers, SequencesExt

CONSTANTS
  G,            \* goroutines
  Vars,         \* Vars
  DynamicVars,  \* the Vars marked by SetDynamic
  Values,       \* values of Vars
  Forms,        \* the binding maps of the program's binding forms
  NoOne,        \* not a goroutine
  MaxDepth      \* bound on the frames of one goroutine

ASSUME BindingsAssumption ==
  /\ IsFiniteSet(G)
  /\ DynamicVars \subseteq Vars
  /\ Forms \subseteq UNION {[S -> Values] : S \in SUBSET Vars}
  /\ NoOne \notin G
  /\ MaxDepth \in Nat

VARIABLES
  count,     \* v.dynamicBindings
  gls,       \* glsBindings: the storage of a goroutine, or Nil
  store,     \* the glStorage objects: sequences of frames
  mtx,       \* the goroutine holding glsBindingsMtx across steps, or NoOne
  conveyed,  \* the frame a conveyor function closed over, or NotCaptured
  op,        \* what each goroutine is in the middle of
  active,    \* the Vars of the binding forms each goroutine is inside of
  panicked   \* history: the goroutines a push has panicked in

vars == <<count, gls, store, mtx, conveyed, op, active, panicked>>

Nil == 0
NotCaptured == -1
\* One storage per goroutine, one per captured frame, one being copied.
Storages == 1 .. (Cardinality(G) + 2)
Frame == UNION {[S -> Values] : S \in SUBSET Vars}
Idle == [kind |-> "idle"]

StackOf(g) == IF gls[g] = Nil THEN <<>> ELSE store[gls[g]]
Domains(stack) == [i \in DOMAIN stack |-> DOMAIN stack[i]]
Occurrences(stack, v) == Cardinality({i \in DOMAIN stack : v \in DOMAIN stack[i]})

Init ==
  /\ count = [v \in Vars |-> 0]
  /\ gls = [g \in G |-> Nil]
  /\ store = [s \in Storages |-> <<>>]
  /\ mtx = NoOne
  /\ conveyed = NotCaptured
  /\ op = [g \in G |-> Idle]
  /\ active = [g \in G |-> <<>>]
  /\ panicked = {}

-----------------------------------------------------------------------------
(* Lookup.                                                                 *)

\* getDynamicBinding: the innermost frame that binds v, 0 when there is none;
\* a zero counter answers before the goroutine's storage is looked up.
InnermostFrame(g, v) ==
  LET binding == {i \in DOMAIN StackOf(g) : v \in DOMAIN StackOf(g)[i]}
  IN IF count[v] = 0 \/ binding = {} THEN 0
     ELSE CHOOSE i \in binding : \A j \in binding : j <= i

\* A storage that nothing refers to; an allocation takes it.
Unused == CHOOSE s \in Storages : s # conveyed /\ \A g \in G : gls[g] # s

-----------------------------------------------------------------------------
(* Thread bindings.                                                        *)

\* PushThreadBindings up to its loop: the new, still empty frame is pushed.
PushFrame(g, bindings) ==
  /\ op[g] = Idle /\ mtx = NoOne
  /\ LET s == IF gls[g] = Nil THEN Unused ELSE gls[g]
     IN /\ gls' = [gls EXCEPT ![g] = s]
        /\ store' = [store EXCEPT ![s] = Append(@, <<>>)]
  /\ op' = [op EXCEPT ![g] = [kind |-> "push", left |-> bindings, all |-> DOMAIN bindings]]
  /\ UNCHANGED <<count, mtx, conveyed, active, panicked>>

\* A Var that an outer frame binds is not counted again.
BindInFrame_Fault(g) ==
  /\ op[g].kind = "push"
  /\ \E v \in DOMAIN op[g].left \cap DynamicVars :
       LET left == op[g].left
           top == Len(StackOf(g))
       IN /\ store' = [store EXCEPT ![gls[g]][top] =
                         [w \in DOMAIN @ \cup {v} |-> IF w = v THEN left[v] ELSE @[w]]]
          /\ count' = [count EXCEPT ![v] = IF Occurrences(StackOf(g), v) = 0 THEN @ + 1 ELSE @]
          /\ op' = [op EXCEPT ![g].left = [w \in DOMAIN left \ {v} |-> left[w]]]
  /\ UNCHANGED <<gls, mtx, conveyed, active, panicked>>

\* One round of the loop for a dynamic Var.
BindInFrame(g) ==
  /\ op[g].kind = "push"
  /\ \E v \in DOMAIN op[g].left \cap DynamicVars :
       LET left == op[g].left
           s == gls[g]
           top == Len(store[s])
           frame == store[s][top]
       IN /\ store' = [store EXCEPT ![s][top] =
                         [w \in DOMAIN frame \cup {v} |-> IF w = v THEN left[v] ELSE frame[w]]]
          /\ count' = [count EXCEPT ![v] = @ + 1]
          /\ op' = [op EXCEPT ![g].left = [w \in DOMAIN left \ {v} |-> left[w]]]
  /\ UNCHANGED <<gls, mtx, conveyed, active, panicked>>

\* One round of the loop for a Var that is not dynamic: it panics, and the
\* exception leaves the binding form before its try.
PushPanics(g) ==
  /\ op[g].kind = "push"
  /\ \E v \in DOMAIN op[g].left : v \notin DynamicVars
  /\ op' = [op EXCEPT ![g] = Idle]
  /\ panicked' = panicked \cup {g}
  /\ UNCHANGED <<count, gls, store, mtx, conveyed, active>>

\* The push returns and the binding form enters its try.
PushReturns(g) ==
  /\ op[g].kind = "push" /\ DOMAIN op[g].left = {}
  /\ active' = [active EXCEPT ![g] = Append(@, op[g].all)]
  /\ op' = [op EXCEPT ![g] = Idle]
  /\ UNCHANGED <<count, gls, store, mtx, conveyed, panicked>>

\* The storage goes with the last frame but one.
PopFrame_Fault(g) ==
  /\ op[g] = Idle /\ mtx = NoOne /\ active[g] # <<>> /\ gls[g] # Nil
  /\ LET s == gls[g]
     IN /\ op' = [op EXCEPT ![g] = [kind |-> "pop", left |-> DOMAIN Last(store[s])]]
        /\ store' = [store EXCEPT ![s] = Front(@)]
        /\ gls' = [gls EXCEPT ![g] = IF Len(store[s]) > 2 THEN s ELSE Nil]
  /\ active' = [active EXCEPT ![g] = Front(@)]
  /\ UNCHANGED <<count, mtx, conveyed, panicked>>

\* PopThreadBindings, called by the finally of a binding form, up to its loop.
PopFrame(g) ==
  /\ op[g] = Idle /\ mtx = NoOne /\ active[g] # <<>> /\ gls[g] # Nil
  /\ LET s == gls[g]
     IN /\ op' = [op EXCEPT ![g] = [kind |-> "pop", left |-> DOMAIN Last(store[s])]]
        /\ store' = [store EXCEPT ![s] = Front(@)]
        /\ gls' = [gls EXCEPT ![g] = IF Len(store[s]) > 1 THEN s ELSE Nil]
  /\ active' = [active EXCEPT ![g] = Front(@)]
  /\ UNCHANGED <<count, mtx, conveyed, panicked>>

\* The counter is cleared instead of decremented.
PopCount_Fault(g) ==
  /\ op[g].kind = "pop"
  /\ count' = [v \in Vars |-> IF v \in op[g].left THEN 0 ELSE count[v]]
  /\ op' = [op EXCEPT ![g] = Idle]
  /\ UNCHANGED <<gls, store, mtx, conveyed, active, panicked>>

\* One round of the loop of PopThreadBindings, and its return.
PopCount(g) ==
  /\ op[g].kind = "pop"
  /\ \/ \E v \in op[g].left :
          /\ count' = [count EXCEPT ![v] = @ - 1]
          /\ op' = [op EXCEPT ![g].left = @ \ {v}]
     \/ /\ op[g].left = {}
        /\ op' = [op EXCEPT ![g] = Idle]
        /\ UNCHANGED count
  /\ UNCHANGED <<gls, store, mtx, conveyed, active, panicked>>

\* Var.Set on a Var the goroutine has bound (set!); without a binding it panics
\* and changes nothing.
SetBinding(g, v, val) ==
  /\ op[g] = Idle /\ mtx = NoOne /\ InnermostFrame(g, v) # 0
  /\ store' = [store EXCEPT ![gls[g]][InnermostFrame(g, v)][v] = val]
  /\ UNCHANGED <<count, gls, mtx, conveyed, op, active, panicked>>

-----------------------------------------------------------------------------
(* Conveyance: binding-conveyor-fn closes over a copy of the parent's      *)
(* frames, and installs a copy of that copy wherever it is called.         *)

\* The parent's storage is conveyed instead of a copy.
CloneFrame_Fault(g) ==
  /\ op[g] = Idle /\ mtx = NoOne
  /\ conveyed' = gls[g]
  /\ UNCHANGED <<count, gls, store, mtx, op, active, panicked>>

\* CloneThreadBindingFrame.  A frame captured before becomes garbage.
CloneFrame(g) ==
  /\ op[g] = Idle /\ mtx = NoOne
  /\ conveyed' = IF gls[g] = Nil THEN Nil ELSE Unused
  /\ store' = [s \in Storages |->
                 CASE s = conveyed' -> StackOf(g)
                   [] s = conveyed /\ s # conveyed' -> <<>>
                   [] OTHER -> store[s]]
  /\ UNCHANGED <<count, gls, mtx, op, active, panicked>>

\* ResetThreadBindingFrame takes the lock and looks up the old storage.
ResetStart(g) ==
  /\ op[g] = Idle /\ mtx = NoOne /\ conveyed # NotCaptured
  /\ mtx' = g
  /\ op' = [op EXCEPT ![g] =
              [kind |-> "uncount", left |-> [v \in Vars |-> Occurrences(StackOf(g), v)]]]
  /\ UNCHANGED <<count, gls, store, conveyed, active, panicked>>

\* One round of adjustDynamicBindingCounts, by -1 over the frames being
\* replaced, then by +1 over the frames that replace them.
AdjustCount(g) ==
  /\ op[g].kind \in {"uncount", "recount"}
  /\ \E v \in Vars :
       /\ op[g].left[v] > 0
       /\ count' = [count EXCEPT ![v] = IF op[g].kind = "uncount" THEN @ - 1 ELSE @ + 1]
       /\ op' = [op EXCEPT ![g].left[v] = @ - 1]
  /\ UNCHANGED <<gls, store, mtx, conveyed, active, panicked>>

\* The captured storage itself is installed.
InstallFrame_Fault(g) ==
  /\ op[g].kind = "uncount" /\ \A v \in Vars : op[g].left[v] = 0
  /\ LET frames == IF conveyed = Nil THEN <<>> ELSE store[conveyed]
     IN /\ active' = [active EXCEPT ![g] = Domains(frames)]
        /\ op' = [op EXCEPT ![g] =
                    [kind |-> "recount", left |-> [v \in Vars |-> Occurrences(frames, v)]]]
  /\ gls' = [gls EXCEPT ![g] = conveyed]
  /\ UNCHANGED <<count, store, mtx, conveyed, panicked>>

\* The storage for the goroutine becomes a copy of the captured one.
InstallFrame(g) ==
  /\ op[g].kind = "uncount" /\ \A v \in Vars : op[g].left[v] = 0
  /\ LET frames == IF conveyed = Nil THEN <<>> ELSE store[conveyed]
         new == IF conveyed = Nil THEN Nil ELSE Unused
     IN /\ gls' = [gls EXCEPT ![g] = new]
        /\ store' = [s \in Storages |->
                       CASE s = new -> frames
                         [] s = gls[g] /\ s # new -> <<>>
                         [] OTHER -> store[s]]
        /\ active' = [active EXCEPT ![g] = Domains(frames)]
        /\ op' = [op EXCEPT ![g] =
                    [kind |-> "recount", left |-> [v \in Vars |-> Occurrences(frames, v)]]]
  /\ UNCHANGED <<count, mtx, conveyed, panicked>>

\* The lock is not released.
ResetReturns_Fault(g) ==
  /\ op[g].kind = "recount" /\ \A v \in Vars : op[g].left[v] = 0
  /\ op' = [op EXCEPT ![g] = Idle]
  /\ UNCHANGED <<count, gls, store, mtx, conveyed, active, panicked>>

ResetReturns(g) ==
  /\ op[g].kind = "recount" /\ \A v \in Vars : op[g].left[v] = 0
  /\ mtx' = NoOne
  /\ op' = [op EXCEPT ![g] = Idle]
  /\ UNCHANGED <<count, gls, store, conveyed, active, panicked>>

-----------------------------------------------------------------------------
Next ==
  \E g \in G :
    \/ \E bindings \in Forms :
         /\ Len(StackOf(g)) < MaxDepth
         /\ DOMAIN bindings \subseteq DynamicVars \/ panicked = {}  \* bounds the panics
         /\ PushFrame(g, bindings)
    \/ BindInFrame(g)
    \/ PushPanics(g)
    \/ PushReturns(g)
    \/ PopFrame(g)
    \/ PopCount(g)
    \/ \E v \in Vars, val \in Values : SetBinding(g, v, val)
    \/ CloneFrame(g)
    \/ ResetStart(g)
    \/ AdjustCount(g)
    \/ InstallFrame(g)
    \/ ResetReturns(g)

Spec == Init /\ [][Next]_vars

-----------------------------------------------------------------------------
(* Properties.                                                             *)

\* Every variable has its type, and glsBindingsMtx is held across steps exactly by
\* the goroutine whose ResetThreadBindingFrame took it.
TypeOK ==
  /\ count \in [Vars -> Int]
  /\ gls \in [G -> Storages \cup {Nil}]
  /\ \A s \in Storages : \A i \in DOMAIN store[s] : store[s][i] \in Frame
  /\ conveyed \in Storages \cup {Nil, NotCaptured}
  /\ \A g \in G : (mtx = g) = (op[g].kind \in {"uncount", "recount"})
  /\ panicked \subseteq G

\* What goroutine g currently accounts for in the counter of v: the frames of
\* its stack that bind v, and what a half-done pop or reset has not adjusted.
Contribution(g, v) ==
  LET o == op[g]
      n == Occurrences(StackOf(g), v)
  IN CASE o.kind = "pop" -> n + (IF v \in o.left THEN 1 ELSE 0)
       [] o.kind = "uncount" -> o.left[v]
       [] o.kind = "recount" -> n - o.left[v]
       [] OTHER -> n

\* What they all account for.
Accounted(v) == MapThenSumSet(LAMBDA g : Contribution(g, v), G)

\* dynamicBindings counts the frames that bind the Var, over all goroutines and
\* at every step of every push, pop and reset (var.go, the counter that lets Get
\* skip the goroutine lookup).
CountTracksFrames ==
  \A v \in Vars : count[v] = Accounted(v)

\* The fast path of Get is sound: while the counter of a Var is zero no goroutine
\* that can look it up has it bound, whatever the other goroutines are doing.
FastPathSound ==
  \A g \in G, v \in Vars :
    op[g].kind \in {"idle", "push", "pop"} /\ count[v] = 0
      => Occurrences(StackOf(g), v) = 0

\* Bindings are private: no two goroutines, and no goroutine and a captured
\* frame, share a storage, so set! in one is never seen in another.
StoragePrivate ==
  \A g, h \in G :
    gls[g] # Nil => gls[g] # conveyed /\ (g # h => gls[g] # gls[h])

\* A captured frame is a snapshot: it keeps the values it was captured with until
\* another frame is captured (binding-conveyor-fn; TestThreadBindingFrameIsSnapshot).
ConveyedIsSnapshot ==
  [][(conveyed \in Storages /\ conveyed' = conveyed)
       => store'[conveyed] = store[conveyed]]_vars

\* `binding` re-establishes the bindings that existed before: between operations a
\* goroutine sees a binding of a Var exactly when it is inside a form that binds it.
BindingsRestored ==
  \A g \in G, v \in Vars : op[g] = Idle =>
    (InnermostFrame(g, v) # 0) = (\E i \in DOMAIN active[g] : v \in active[g][i])

\* The same, frame by frame, for the goroutines in which every binding form named
\* dynamic Vars only, whatever the others do.
DynamicBindingsRestored ==
  \A g \in G \ panicked : op[g] = Idle => Domains(StackOf(g)) = active[g]
=============================================================================
