------------------------------ MODULE VarRoot ------------------------------
(***************************************************************************)
(* The root binding of a Var (pkg/lang/var.go): one atomic pointer to a    *)
(* value and a version.  BindRoot swaps it without a lock, AlterRoot       *)
(* replaces it under syncLock, and code compiled ahead of time calls the   *)
(* function it linked as long as the version is the one it linked at       *)
(* (pkg/runtime/codegen.go, codegen_direct.go).                            *)
(*                                                                         *)
(* Of the thread bindings (module ThreadBindings) only what Get returns    *)
(* matters here: local[g][v] is the innermost binding goroutine g has.     *)
(*                                                                         *)
(* Operators whose name ends in _Fault are the bugs that the properties    *)
(* are tried against; nothing else uses them.                              *)
(***************************************************************************)
EXTENDS Goroutines, Integers, Sequences

CONSTANTS
  Vars,         \* Vars
  DynamicVars,  \* the Vars marked by SetDynamic; calls of these are not linked
  Values,       \* values of Vars
  Compiled,     \* the function a namespace's loader installs in a Var and links
  F,            \* the function alter-var-root applies
  Unbound,      \* not a value: no thread binding
  MaxVersion    \* bound on the roots installed in one Var

ASSUME VarRootAssumption ==
  /\ DynamicVars \subseteq Vars
  /\ Compiled \in Values /\ F \in [Values -> Values]
  /\ Unbound \notin Values
  /\ MaxVersion \in Nat

VARIABLES
  root,        \* v.root: value and version
  syncLock,    \* v.syncLock: the goroutine holding it, or NoOne
  local,       \* the thread binding of a Var in a goroutine, or Unbound
  cachedFn,    \* per goroutine and Var: what an aotCacheFn adapter closed over
  linkVersion, \* per Var: the aotRootVersion of its namespace's loader
  op,          \* what each goroutine is in the middle of
  roots,       \* history: every root a Var has had, in order, and who installed it
  contested    \* history: the Vars redefined between the two statements of a loader

rootVars == <<root, syncLock, local, cachedFn, linkVersion, op, roots, contested>>

NotLinked == [version |-> -1]
Idle == [kind |-> "idle"]
StaticVars == Vars \ DynamicVars

\* A root in the history, with who installed it: "bind" or "alter".
Entry(val, version, by) == [val |-> val, version |-> version, by |-> by]

RootInit ==
  /\ root \in [Vars -> [val : Values, version : {0}]]
  /\ syncLock = [v \in Vars |-> NoOne]
  /\ local = [g \in G |-> [v \in Vars |-> Unbound]]
  /\ cachedFn = [g \in G |-> [v \in Vars |-> NotLinked]]
  /\ linkVersion = [v \in Vars |-> -1]
  /\ op = [g \in G |-> Idle]
  /\ roots = [v \in Vars |-> <<Entry(root[v].val, root[v].version, "bind")>>]
  /\ contested = {}

\* Var.Get and Var.Deref: the goroutine's binding, else the root.
Get(g, v) == IF local[g][v] = Unbound THEN root[v].val ELSE local[g][v]

\* The version is one bit: it comes back with the root after the next.
InstallRoot_Fault(v, val, by) ==
  LET next == 1 - root[v].version
  IN /\ root' = [root EXCEPT ![v] = [val |-> val, version |-> next]]
     /\ roots' = [roots EXCEPT ![v] = Append(@, Entry(val, next, by))]

\* A new root has a version of its own.
InstallRoot(v, val, by) ==
  LET next == root[v].version + 1
  IN /\ root' = [root EXCEPT ![v] = [val |-> val, version |-> next]]
     /\ roots' = [roots EXCEPT ![v] = Append(@, Entry(val, next, by))]

-----------------------------------------------------------------------------
\* PushThreadBindings, PopThreadBindings and Var.Set, as far as Get sees them.
Rebind(g, v, val) ==
  /\ op[g] = Idle /\ local[g][v] # val
  /\ local' = [local EXCEPT ![g][v] = val]
  /\ UNCHANGED <<root, syncLock, cachedFn, linkVersion, op, roots, contested>>

\* Only AlterRoot counts versions.
BindRoot_Fault(g, v, val) ==
  /\ op[g] = Idle
  /\ root' = [root EXCEPT ![v].val = val]
  /\ roots' = [roots EXCEPT ![v] = Append(@, Entry(val, root[v].version, "bind"))]
  /\ UNCHANGED <<syncLock, local, cachedFn, linkVersion, op, contested>>

\* History: the Var has another root than the loader has left in it.
Disturb(v) ==
  [h \in G |-> IF op[h].kind = "load" /\ op[h].var = v
               THEN [op[h] EXCEPT !.undisturbed = FALSE] ELSE op[h]]

\* BindRoot: def, with-redefs, InternVarReplaceRoot.
BindRoot(g, v, val) ==
  /\ op[g] = Idle
  /\ InstallRoot(v, val, "bind")
  /\ op' = Disturb(v)
  /\ UNCHANGED <<syncLock, local, cachedFn, linkVersion, contested>>

\* The lock is not waited for.
AlterStart_Fault(g, v) ==
  /\ op[g] = Idle
  /\ syncLock' = [syncLock EXCEPT ![v] = g]
  /\ op' = [op EXCEPT ![g] = [kind |-> "alter", var |-> v, old |-> Get(g, v)]]
  /\ UNCHANGED <<root, local, cachedFn, linkVersion, roots, contested>>

\* AlterRoot up to the call of the altering function.
AlterStart(g, v) ==
  /\ op[g] = Idle /\ syncLock[v] = NoOne
  /\ syncLock' = [syncLock EXCEPT ![v] = g]
  /\ op' = [op EXCEPT ![g] = [kind |-> "alter", var |-> v, old |-> Get(g, v)]]
  /\ UNCHANGED <<root, local, cachedFn, linkVersion, roots, contested>>

\* The function has returned; the new root is stored and the lock released.
AlterInstall(g) ==
  /\ op[g].kind = "alter"
  /\ InstallRoot(op[g].var, F[op[g].old], "alter")
  /\ syncLock' = [syncLock EXCEPT ![op[g].var] = NoOne]
  /\ op' = [Disturb(op[g].var) EXCEPT ![g] = Idle]
  /\ UNCHANGED <<local, cachedFn, linkVersion, contested>>

\* The lock is not released.
AlterPanics_Fault(g) ==
  /\ op[g].kind = "alter"
  /\ op' = [op EXCEPT ![g] = Idle]
  /\ UNCHANGED <<root, syncLock, local, cachedFn, linkVersion, roots, contested>>

\* The function panics: the deferred Unlock runs, no root is stored.
AlterPanics(g) ==
  /\ op[g].kind = "alter"
  /\ syncLock' = [syncLock EXCEPT ![op[g].var] = NoOne]
  /\ op' = [op EXCEPT ![g] = Idle]
  /\ UNCHANGED <<root, local, cachedFn, linkVersion, roots, contested>>

-----------------------------------------------------------------------------
(* Linking of compiled code.                                               *)

\* The adapter of a call into another namespace reads the version, ...
CacheVersion(g, v) ==
  /\ op[g] = Idle
  /\ op' = [op EXCEPT ![g] = [kind |-> "cache", var |-> v, version |-> root[v].version]]
  /\ UNCHANGED <<root, syncLock, local, cachedFn, linkVersion, roots, contested>>

\* ... then the function.
CacheFn(g) ==
  /\ op[g].kind = "cache"
  /\ LET v == op[g].var
     IN cachedFn' = [cachedFn EXCEPT ![g][v] =
                       [version |-> op[g].version, fn |-> Get(g, v)]]
  /\ op' = [op EXCEPT ![g] = Idle]
  /\ UNCHANGED <<root, syncLock, local, linkVersion, roots, contested>>

\* The loader of the Var's own namespace installs the compiled function, ...
LoadDefine(g, v) ==
  /\ op[g] = Idle
  /\ InstallRoot(v, Compiled, "bind")
  /\ op' = [Disturb(v) EXCEPT
                ![g] = [kind |-> "load", var |-> v, undisturbed |-> TRUE]]
  /\ UNCHANGED <<syncLock, local, cachedFn, linkVersion, contested>>

\* ... then records the version its callers compare with.
LoadRecord(g) ==
  /\ op[g].kind = "load"
  /\ linkVersion' = [linkVersion EXCEPT ![op[g].var] = root[op[g].var].version]
  /\ contested' = IF op[g].undisturbed THEN contested \ {op[g].var}
                   ELSE contested \cup {op[g].var}
  /\ op' = [op EXCEPT ![g] = Idle]
  /\ UNCHANGED <<root, syncLock, local, cachedFn, roots>>

-----------------------------------------------------------------------------
\* MaxVersion bounds the roots installed.
RootNext ==
  \E g \in G :
    \/ \E v \in DynamicVars, val \in Values \cup {Unbound} : Rebind(g, v, val)
    \/ \E v \in Vars :
         /\ root[v].version < MaxVersion
         /\ \/ \E val \in Values : BindRoot(g, v, val)
            \/ AlterStart(g, v)
            \/ v \in StaticVars /\ LoadDefine(g, v)
    \/ op[g].kind = "alter" /\ root[op[g].var].version < MaxVersion /\ AlterInstall(g)
    \/ AlterPanics(g)
    \/ \E v \in StaticVars : CacheVersion(g, v)
    \/ CacheFn(g)
    \/ LoadRecord(g)

RootSpec == RootInit /\ [][RootNext]_rootVars

-----------------------------------------------------------------------------
(* Properties.                                                             *)

\* Every variable has its type, and syncLock is held exactly during AlterRoot.
RootTypeOK ==
  /\ root \in [Vars -> [val : Values, version : 0 .. MaxVersion]]
  /\ local \in [G -> [Vars -> Values \cup {Unbound}]]
  /\ linkVersion \in [Vars -> -1 .. MaxVersion]
  /\ \A g \in G, v \in Vars :
       /\ cachedFn[g][v] \in {NotLinked} \cup [version : 0 .. MaxVersion, fn : Values]
       /\ (syncLock[v] = g) = (op[g].kind = "alter" /\ op[g].var = v)

\* Two reads that have seen one version of a Var, at any times and by any goroutines, have
\* seen one root, which no other has replaced and come back from in between: no two of the
\* roots a Var has had, by BindRoot, AlterRoot or a loader, have the same version, even if
\* they have the same value, and the root is the last of them.
VersionIdentifiesRoot ==
  \A v \in Vars :
    /\ \A i, j \in DOMAIN roots[v] : roots[v][i].version = roots[v][j].version => i = j
    /\ LET last == roots[v][Len(roots[v])]
       IN last.version = root[v].version /\ last.val = root[v].val

\* A redefined function is never called through a link whose version is current: an
\* aotCacheFn adapter then holds the current function, and a function that a namespace's
\* own loader has linked is the current one, unless the Var was redefined between the
\* two statements of the loader.
CachedFnCurrent ==
  /\ \A g \in G, v \in Vars :
       cachedFn[g][v].version = root[v].version => cachedFn[g][v].fn = root[v].val
  /\ \A v \in Vars \ contested : linkVersion[v] = root[v].version => root[v].val = Compiled

\* What alter-var-root may apply its function to: the thread binding that its goroutine
\* has of the Var, or else a root that only BindRoot has replaced since.
Alterable(binding, history, val) ==
  IF binding # Unbound THEN val = binding
  ELSE \E k \in DOMAIN history :
         /\ val = history[k].val
         /\ \A j \in DOMAIN history : j > k => history[j].by = "bind"

\* However alterations overlap each other, BindRoot and panicking functions, one that stores
\* a root has lost the update of no other alteration: since it read the root only BindRoot
\* can have replaced it.  With a thread binding, the root becomes the function of the
\* goroutine's own binding.  One that panics leaves the root alone.
AlterationsSerialised ==
  [][\A g \in G : op[g].kind = "alter" /\ op'[g] = Idle =>
       LET v == op[g].var
       IN \/ root'[v] = root[v]
          \/ \E val \in Values :
               root'[v].val = F[val] /\ Alterable(local[g][v], roots[v], val)]_rootVars
=============================================================================
