------------------------------- MODULE MultiFn -------------------------------
(***************************************************************************)
(* Multimethod dispatch (pkg/lang/multifn.go).  A MultiFn caches the       *)
(* method it found for a dispatch value; methods and preferences are added *)
(* under its lock and reset the cache, but the hierarchy it dispatches by  *)
(* belongs to a Var (or another reference) that changes without it.  A     *)
(* dispatch that misses the cache looks for the method in several critical *)
(* sections and installs it only if nothing has changed meanwhile.         *)
(*                                                                         *)
(* The persistent maps are compared by identity: a version stands for the  *)
(* identity of a map, and every new map has a new one.                     *)
(*                                                                         *)
(* Operators whose name ends in _Fault are the bugs that the properties    *)
(* are tried against; nothing else uses them.                              *)
(***************************************************************************)
EXTENDS MultiFnDispatch

CONSTANTS
  G,           \* goroutines
  Methods,     \* methods
  Keys,        \* the dispatch values that preferences are given for
  Additions,   \* the methods added: pairs of a dispatch value and a method
  Dispatched,  \* the dispatch values of the calls
  Hierarchies, \* the contents a hierarchy may have
  NoHierarchy, \* cachedHierarchy of a new MultiFn: nil
  MaxChanges   \* bound on the changes of methods, preferences and hierarchy

ASSUME MultiFnAssumption ==
  /\ Keys \subseteq DispatchVals /\ Dispatched \subseteq DispatchVals
  /\ Additions \subseteq DispatchVals \X Methods /\ Ambiguous \notin Methods
  /\ Hierarchies \subseteq [DispatchVals -> SUBSET DispatchVals]
  /\ NoHierarchy \notin [version : Nat, map : Hierarchies]
  /\ MaxChanges \in Nat

VARIABLES
  methodTable,      \* identity and contents
  preferTable,
  hierarchy,        \* what m.hierarchy refers to
  cachedHierarchy,
  methodCache,
  op                \* the dispatch each goroutine is in the middle of, or its last

vars == <<methodTable, preferTable, hierarchy, cachedHierarchy, methodCache, op>>

Idle == [kind |-> "idle"]
Empty == [x \in {} |-> NoMethod]
With(f, x, y) == [z \in DOMAIN f \cup {x} |-> IF z = x THEN y ELSE f[z]]
Replace(versioned, contents) == [version |-> versioned.version + 1, map |-> contents]
Changes == methodTable.version + preferTable.version + hierarchy.version

Init ==
  /\ methodTable = [version |-> 0, map |-> Empty]
  /\ preferTable = [version |-> 0, map |-> {}]
  /\ hierarchy \in [version : {0}, map : Hierarchies]
  /\ cachedHierarchy = NoHierarchy
  /\ methodCache = Empty
  /\ op = [g \in G |-> Idle]

\* What the methods, the preferences and the hierarchy are in one state, and
\* what dispatch by them may answer.
Snapshot(methods, prefs, hier) == [methods |-> methods, prefs |-> prefs, hier |-> hier]
Now == Snapshot(methodTable, preferTable, hierarchy)
Answers(snapshot, val) ==
  BestMethods(snapshot.hier.map, snapshot.prefs.map, snapshot.methods.map, val)

Busy(g) == op[g].kind \notin {"idle", "done"}
\* History: a dispatch in progress sees what every change leads to.
Observe(g, snapshot) ==
  IF Busy(g) THEN [op[g] EXCEPT !.seen = @ \cup {snapshot}] ELSE op[g]
Observed(snapshot) == [g \in G |-> Observe(g, snapshot)]

-----------------------------------------------------------------------------
(* Changes.                                                                *)

\* resetCache.
ResetCache ==
  /\ methodCache' = Empty
  /\ cachedHierarchy' = hierarchy

AddMethod(val, method) ==
  /\ methodTable' = Replace(methodTable, With(methodTable.map, val, method))
  /\ ResetCache
  /\ op' = Observed(Snapshot(methodTable', preferTable, hierarchy))
  /\ UNCHANGED <<preferTable, hierarchy>>

\* PreferMethod panics and changes nothing when y is already preferred to x.
PreferMethod(x, y) ==
  /\ ~Prefers(hierarchy.map, preferTable.map, y, x)
  /\ preferTable' = Replace(preferTable, preferTable.map \cup {<<x, y>>})
  /\ ResetCache
  /\ op' = Observed(Snapshot(methodTable, preferTable', hierarchy))
  /\ UNCHANGED <<methodTable, hierarchy>>

\* derive and underive: the reference gets a new hierarchy, unknown to the MultiFn.
SetHierarchy(contents) ==
  /\ contents # hierarchy.map
  /\ hierarchy' = Replace(hierarchy, contents)
  /\ op' = Observed(Snapshot(methodTable, preferTable, hierarchy'))
  /\ UNCHANGED <<methodTable, preferTable, cachedHierarchy, methodCache>>

-----------------------------------------------------------------------------
(* Dispatch.                                                               *)

Answer(val, result, seen) == [kind |-> "done", val |-> val, result |-> result, seen |-> seen]

\* The hierarchy is not compared.
GetMethod_Fault(g, val) ==
  /\ ~Busy(g)
  /\ IF cachedHierarchy = NoHierarchy THEN ResetCache
                                      ELSE UNCHANGED <<methodCache, cachedHierarchy>>
  /\ op' = [op EXCEPT ![g] =
              IF val \in DOMAIN methodCache' /\ methodCache'[val] # NoMethod
              THEN Answer(val, methodCache'[val], {Now})
              ELSE [kind |-> "capture", val |-> val, seen |-> {Now}]]
  /\ UNCHANGED <<methodTable, preferTable, hierarchy>>

\* getMethod: a stale cache is reset, then looked up.  A cached nil is a miss.
GetMethod(g, val) ==
  /\ ~Busy(g)
  /\ IF cachedHierarchy # hierarchy THEN ResetCache
                                    ELSE UNCHANGED <<methodCache, cachedHierarchy>>
  /\ op' = [op EXCEPT ![g] =
              IF val \in DOMAIN methodCache' /\ methodCache'[val] # NoMethod
              THEN Answer(val, methodCache'[val], {Now})
              ELSE [kind |-> "capture", val |-> val, seen |-> {Now}]]
  /\ UNCHANGED <<methodTable, preferTable, hierarchy>>

\* findAndCacheBestMethod notes the tables and the cached hierarchy.
Capture(g) ==
  /\ op[g].kind = "capture"
  /\ op' = [op EXCEPT ![g] =
              [kind |-> "find", val |-> op[g].val, seen |-> op[g].seen,
               captured |-> Snapshot(methodTable, preferTable, cachedHierarchy)]]
  /\ UNCHANGED <<methodTable, preferTable, hierarchy, cachedHierarchy, methodCache>>

\* The ambiguity is returned and cached like a method.
FindBest_Fault(g) ==
  /\ op[g].kind = "find"
  /\ \E best \in Answers(Snapshot(methodTable, preferTable, cachedHierarchy), op[g].val) :
       op' = [op EXCEPT ![g] = [kind |-> "install", val |-> @.val, seen |-> @.seen,
                                captured |-> @.captured, best |-> best]]
  /\ UNCHANGED <<methodTable, preferTable, hierarchy, cachedHierarchy, methodCache>>

\* findBestMethod reads the fields again, under a read lock of its own.
FindBest(g) ==
  /\ op[g].kind = "find"
  /\ \E best \in Answers(Snapshot(methodTable, preferTable, cachedHierarchy), op[g].val) :
       op' = [op EXCEPT ![g] =
                IF best = Ambiguous THEN Answer(@.val, best, @.seen)
                ELSE [kind |-> "install", val |-> @.val, seen |-> @.seen,
                      captured |-> @.captured, best |-> best]]
  /\ UNCHANGED <<methodTable, preferTable, hierarchy, cachedHierarchy, methodCache>>

\* Methods and preferences are not compared.
Unchanged_Fault(captured) == captured.hier = cachedHierarchy /\ cachedHierarchy = hierarchy

\* Nothing has been replaced since Capture.
Unchanged(captured) ==
  /\ captured.methods.version = methodTable.version
  /\ captured.prefs.version = preferTable.version
  /\ captured.hier = cachedHierarchy
  /\ cachedHierarchy = hierarchy

\* The rest of findAndCacheBestMethod: the answer is cached, ...
Install(g) ==
  /\ op[g].kind = "install" /\ Unchanged(op[g].captured)
  /\ methodCache' = With(methodCache, op[g].val, op[g].best)
  /\ op' = [op EXCEPT ![g] = Answer(@.val, @.best, @.seen)]
  /\ UNCHANGED <<methodTable, preferTable, hierarchy, cachedHierarchy>>

\* The search starts again under the same, stale hierarchy.
Retry_Fault(g) ==
  /\ op[g].kind = "install" /\ ~Unchanged(op[g].captured)
  /\ op' = [op EXCEPT ![g] = [kind |-> "capture", val |-> @.val, seen |-> @.seen]]
  /\ UNCHANGED <<methodTable, preferTable, hierarchy, cachedHierarchy, methodCache>>

\* ... or the search starts again.
Retry(g) ==
  /\ op[g].kind = "install" /\ ~Unchanged(op[g].captured)
  /\ ResetCache
  /\ op' = [op EXCEPT ![g] = [kind |-> "capture", val |-> @.val, seen |-> @.seen]]
  /\ UNCHANGED <<methodTable, preferTable, hierarchy>>

-----------------------------------------------------------------------------
Continue(g) == Capture(g) \/ FindBest(g) \/ Install(g) \/ Retry(g)

Next ==
  \/ /\ Changes < MaxChanges
     /\ \/ \E add \in Additions : AddMethod(add[1], add[2])
        \/ \E x, y \in Keys : x # y /\ PreferMethod(x, y)
        \/ \E contents \in Hierarchies : SetHierarchy(contents)
  \/ \E g \in G, val \in Dispatched : GetMethod(g, val)
  \/ \E g \in G : Continue(g)

Spec == Init /\ [][Next]_vars

\* The Go scheduler lets a dispatching goroutine take its next step.
FairSpec == Spec /\ \A g \in G : WF_vars(Continue(g))

-----------------------------------------------------------------------------
(* Properties.                                                             *)

Tables == [version : 0 .. MaxChanges, map : UNION {[S -> Methods] : S \in SUBSET DispatchVals}]
Preferences == [version : 0 .. MaxChanges, map : SUBSET (DispatchVals \X DispatchVals)]
VersionedHierarchies == [version : 0 .. MaxChanges, map : Hierarchies]

\* Every variable has its type, and the cache never holds an ambiguity.
TypeOK ==
  /\ methodTable \in Tables /\ preferTable \in Preferences
  /\ hierarchy \in VersionedHierarchies
  /\ cachedHierarchy \in VersionedHierarchies \cup {NoHierarchy}
  /\ DOMAIN methodCache \subseteq DispatchVals
  /\ \A val \in DOMAIN methodCache : methodCache[val] \in Methods \cup {NoMethod}
  /\ \A g \in G : op[g].kind \in {"idle", "capture", "find", "install", "done"}

\* The cache is coherent: every entry is an answer for the methods and preferences of
\* now and the hierarchy the cache was filled under.
CacheCoherent ==
  \A val \in DOMAIN methodCache :
    methodCache[val] \in Answers(Snapshot(methodTable, preferTable, cachedHierarchy), val)

\* A dispatch answers by the methods, preferences and hierarchy of one moment between
\* its call and its return, even when it panics: never by a mixture of two moments
\* and never by what was replaced before the call.
DispatchLinearizable ==
  \A g \in G : op[g].kind = "done" =>
    \E moment \in op[g].seen : op[g].result \in Answers(moment, op[g].val)

\* A dispatch returns, however often it has to search again, once methods and
\* hierarchy stop changing.
DispatchReturns == \A g \in G : Busy(g) ~> ~Busy(g)
=============================================================================
