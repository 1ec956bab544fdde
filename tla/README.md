# A verification model of Glojure

Glojure is a Clojure for Go: an interpreter and an ahead-of-time compiler over a runtime
library of Vars, namespaces, multimethods, reference types, lazy sequences and persistent
collections.  This directory holds TLA+ models of the parts whose correctness depends on the
order in which goroutines, retries and failures happen, the TLC configurations that check
them, and proofs that TLAPS checks.  Paths below are relative to the repository root.

## Inventory

| Component | State | Operations | Interacts with | What is hard | What makes it correct |
|---|---|---|---|---|---|
| Thread bindings (`pkg/lang/var.go`) | `glsBindings`, a storage of frames per goroutine; `dynamicBindings` per Var | push, pop, `Set`, clone and reset of frames, `Get` | `binding`, futures, REPLs, `RT.Load` | lock-free counter read by `Get`; pushes that panic; conveyed frames | counter = frames; a binding never missed; storages private; bindings restored |
| Var roots (`pkg/lang/var.go`, `pkg/runtime/codegen*.go`) | `root` (value, version), `syncLock`, linked functions | `BindRoot`, `AlterRoot`, `RootVersion`, link | compiled code, `def`, `alter-var-root` | lock-free swaps against locked alterations; two-step links | a version identifies a root; no stale function is called; alterations are atomic |
| Namespace loaders (`pkg/runtime/nsloaders.go`) | `loaded`, `loading`, condition variable | `run` explicit or lazy | unbound Vars, `require` | nested calls, waiting, panics, reloads | one body at a time; lazy loads once; nobody waits for ever |
| Multimethods (`pkg/lang/multifn.go`) | method and preference tables, hierarchy reference, cache | add, prefer, dispatch | the hierarchy Var, `derive`, `isa?` | the hierarchy changes behind the cache; a search in several critical sections | coherent cache; every answer belongs to one moment; preferences decide |
| Atoms (`pkg/lang/atom.go`) | Box pointer, watches, validator | swap, reset, compare-and-set | everything | retries, ABA, validators and watches under another lock | an atomic reference |
| Namespaces (`pkg/lang/namespace.go`) | copy-on-write mappings, shared snapshots, a cached map, aliases | intern, refer, unmap, alias, look up | compiler, loaders | maps shared between namespaces; batches of references in many critical sections | each namespace is a map that only its own operations change |
| Vectors (`internal/persistent/vector`, `pkg/lang/vector.go`) | trees of shared nodes, tails | conj, assoc, pop, transient, persistent! | everything | nodes shared by vectors and several transients | persistence; a transient is changed by its own operations only |
| Lazy and mapped sequences, delays (`pkg/lang/lazyseq.go`, `mappedseq.go`, `delay.go`) | pending function, value, mutexes | `Seq`, `realize`, `Deref` | everything; lazy sequences return one another | two mutexes, fields read without a lock, panics, functions run again after a panic | one outcome; no body is run again after it has returned |
| Promises, futures (`pkg/runtime/promise.go`, `pkg/lang/agent.go`) | a channel, a value, a once | deliver, deref, submit | goroutines | nil, panics, timeouts | delivered once; readers wake up |
| Refs (`pkg/lang/ref.go`) | a value and a counter | alter, commute | `dosync` | unsynchronised, as its comments say | - |
| nREPL, socket REPL, HTTP server, pod client, console REPL | sessions, connections | accept, evaluate, stop | evaluator, namespaces | shared sessions, shutdown | every reply to its request; Stop ends |
| Reader, compiler, evaluator, code generator, `pkgmap`, numbers, maps, sets, standard library | mostly none beyond a call | translation, arithmetic, data structures | - | sequential, large | outside of this project, or small candidates |

`PROJECT.json` lists the components with their status, every hazard at its line, and which
definition models which lines.

## Modules

| Module | Models | Variables correspond to | Actions correspond to |
|---|---|---|---|
| `ThreadBindings` | thread bindings | `count`: `dynamicBindings`; `gls`, `store`: `glsBindings` and the `glStorage` objects; `mtx`: `glsBindingsMtx` while held over several steps; `conveyed`: the frame a conveyor function closed over | `PushThreadBindings`, `PopThreadBindings`, `ResetThreadBindingFrame` split into their rounds; `Set`; `CloneThreadBindingFrame` |
| `VarRoot` | roots and links | `root`, `syncLock`; `cachedFn`: what an `aotCacheFn` adapter closed over; `linkVersion`: a loader's `aotRootVersion`; history: `roots`, every root a Var has had | `BindRoot`, `AlterRoot` (before the function, after it, and when it panics), the two reads of an adapter, the two statements of a loader |
| `NsLoader` | loaders | `loaded`, `loading`; `stack`: the calls of `run` a goroutine is inside of | the critical sections of `run`, the body's calls, its return and its panic |
| `MultiFnDispatch` | `isa?`, `prefers`, `dominates` and the loop of `findBestMethod`, as operators | | |
| `MultiFn` | the cache and dispatch | the fields of `MultiFn` and the hierarchy they refer to; maps carry a version for their identity | `AddMethod`, `PreferMethod`, `derive`, and the critical sections of a dispatch |
| `MultiFnSearch` | the loop of `findBestMethod` round by round | `best`: `bestEntry`; `left`: what the loop has not met | `derive`, `PreferMethod`, a call and a round |
| `AtomicReference` | the promise of an Atom, abstract | `val`, `call`, `result` | a call, its effect, its return |
| `Atom` | Atoms | `state`: the Box pointer; `validator`; `watched`; | load, validate, `hasWatches`, compare-and-swap, notify; watches; the two halves of `SetValidator` |
| `Calls` | what goroutines do with objects that get a value later | `op`: the call a goroutine is in; `got`: the outcomes calls have had | the ends of a call: a value, a panic, a rethrown exception |
| `LazySeq` | lazy sequences | `lazy`: the fields of `LazySeq`, with the two mutexes | the critical sections of `realize` and `Seq`, the body's return and panic, the unlocked read of `sv` |
| `MappedSeq` | elements of `map` | `mapped`: `valueOnce`, `value` | the steps of `realizeValue` |
| `Delay` | delays | `delay`: the fields of `Delay`, of which `exception` is one of several | the check of `mtx`, the critical section of `realize`, `Deref`'s result, its reading of an exception while that is replaced |
| `Promise` | promises and futures | `promise`, `future`: their fields; `once`: who is in `once.Do` | the steps of `Invoke`, `Deref` with and without a timeout, `AgentSubmit` and its goroutine |
| `Deferred` | `LazySeq`, `MappedSeq`, `Delay` and `Promise` together | | a goroutine starts a call or goes on with it; the process ends when a future's function panics |
| `OnceCell` | what all of them promise, abstract | `cell`, `got` | an object gets its outcome, a call gets it, an object that has failed fails again |
| `VectorTree` | the radix tree, as operators on maps from the places of nodes to arrays | | `pushTail`, `popTail`, `doAssoc`, `newPath`, the growth and the shrinking of the root |
| `Vector` | persistent vectors and transients | `arrays`: the Go arrays that are leaves or tails, by identity; `vectors`, `trans`: the structs that refer to them; history: `expected`, the elements each should have, and `damaged`, those that another transient has written to | `Cons`, `AssocN`, `ReplaceLast`, `Pop`, `AsTransient`, the operations of `TransientVector` |
| `NamespaceMaps` | the promise of namespaces, abstract | `mapped`, `alias`; `found`: what a `ReferAll` in progress has looked up | intern, unmap, refer to one or to all, set an alias |
| `Namespace` | namespaces | `maps`: the Go maps, by identity; `mappings`, `shared`, `refs`, `cached`, `aliases`: the fields of `Namespace` | `Intern`, `Unmap`, `Refer`, `Import`, `Mappings`; `ReferAll`, `ReferAllSnapshot` and `AddAlias` in their steps |
| `Goroutines` | the constants that `NsLoader` and `VarRoot` share | | |
| `FoldLemmas` | lemmas about folds, sums and recursions over the naturals | | |
| `AtomProofs`, `ThreadBindingsProofs`, `NamespaceProofs`, `DeferredProofs`, `VectorProofs` | proofs about the module of that name | | |
| `AotProofs` | proofs about what code compiled ahead of time rests on: `NsLoader`, and in its second half `VarRoot` | | |
| `MultiFnProofs` | proofs about `MultiFn`, and in its second half about `MultiFnSearch` | | |

`MC...` modules only give constants their values.  `ThreadBindings` and `VarRoot` meet in what
`Get` returns: `VarRoot` keeps only the innermost binding of a Var.  `MultiFn` and
`MultiFnSearch` extend `MultiFnDispatch`.  `LazySeq`, `MappedSeq`, `Delay` and `Promise` extend `Calls`
and are composed in `Deferred`: a goroutine makes calls on any of the objects, and the outcome of
its one call is what the worker of a future stores.

Refinements:

* `Atom` implements `AtomicReference` under `val <- state.val`, with the call and result of each
  operation in progress.
* `Deferred` implements `OnceCell`.  The outcome of a lazy sequence is its `seq`, once the body
  has returned and nobody has taken the value without having stored the sequence; of a delay, its
  value or the exception it has now; of an element of `map`, its value once `valueOnce` is done;
  of a promise or a future, its value once `done` is closed.
* `Namespace` implements `NamespaceMaps` under `mapped <- ` what `GetMapping` returns for every
  symbol, and `found <- ` the Vars that a `ReferAll` in progress has looked up and has still to
  install: the sharing of maps, the snapshots and the exclusions are details.

Operators named `..._Fault` are plausible bugs: replacing the definition that follows them by
the faulty one makes TLC find the property violated that `PROJECT.json` pairs with it.

## Runs

Passing (distinct states on the way; each takes at most two minutes or so):

* `thread_bindings` (1.7 million states): two goroutines, a dynamic and a static Var, binding
  forms with and without the static one, stacks of two frames.  Two goroutines suffice for one
  to read what the other is changing; two frames for shadowing.  At most one push panics
  (guard in `Next`).
* `var_root` (3 million): two goroutines, two Vars, three roots each: enough for a version to be
  overtaken twice, and for an alteration to be overtaken by `BindRoot` or by another one.
* `nsloader` (72,000): three goroutines, so that two waiters compete when a body ends; a
  namespace that needs another and one that reads its own Vars; four calls from outside.
  Safety and liveness.
* `multifn` (320,000): two goroutines dispatch on a value that derives from either or both of two
  others, while up to `MaxChanges` changes happen; a dispatch can be overtaken at each of its
  steps, and must still end.  `Additions` names the methods that are added.
* `multifn_search` (123,000): every hierarchy that `derive` can build over four dispatch values
  and at most two preferences, every set of methods, every traversal order.
* `atom` (550,000): two goroutines, two values, a validator and watches that come and go.
  Boxes are recycled, so the state space is finite without a bound on the operations.
* `deferred` (330,000): two goroutines and the worker of a future; a lazy sequence that returns a
  lazy sequence that returns a third one or nil; an element of `map`; a delay with two possible
  values and two exceptions, so that one may replace the other; a promise that is delivered a
  value or nil.  `MaxCalls` is 3: two goroutines meet at one object, or at the inner and the
  outer lazy sequence, while a third call waits or arrives late.  Three lazy sequences are the
  fewest with an inner one whose value is itself lazy, which the unlocked read of `sv` can tear.
  Safety, refinement and liveness.
* `vector` (180,000): two slots and two transients, which may be of one vector or of vectors made
  from each other; arrays of two slots instead of 32, so that seven
  elements make a tree of three levels and every overflow, shrinking of the root and edge of the
  tail is near; any four operations from every size up to seven.
* `namespaces` (190,000): two goroutines; `user` refers to `core` and `lib`, and `lib` to `core`, so
  that a snapshot is taken of a namespace with snapshots of its own; four operations begin, of
  which those in several steps interleave.

Violations, each a disagreement between the code and what the repository says of it:

* `binding_leak`: a `binding` form that names a Var that is not dynamic leaves the dynamic Vars
  it has bound before bound in the goroutine.
* `lazy_seq`: while one goroutine is in `Seq` of a lazy sequence, having taken `sv`, another
  that comes to it from an outer lazy sequence finds nothing and stores nil for good: the outer
  sequence is empty although the bodies have returned elements.
* `vector_persistence`: `assoc!` on an element in the tree writes a leaf that the transient shares
  with the persistent vector it was made from.  `(let [v (vec (range 40))] (assoc! (transient v) 0
  :x) v)` is the shape of it.

Other disagreements met on the way are conditions of properties that pass, so that the rest of
what the code promises is checked under them:

* `alter-var-root` starts from the goroutine's thread binding and does not exclude `BindRoot`,
  although its docstring says it acts atomically on the root (`core.glj:5537-5538`): a root that
  `BindRoot` stores while the function runs is overwritten unseen, and the root becomes the
  function of a thread binding.  `AlterationsSerialised` holds for every alteration and says what
  is left: none loses the update of another alteration.
* A redefinition between the two statements of a loader is taken for the compiled function
  (`codegen.go:724` against the comment at `codegen_direct.go:29-31`): the history variable
  `contested` in `CachedFnCurrent`.
* A preference accepted for an ancestor can contradict an earlier one, and the order of the method
  table then decides (`multifn.go:187`): `UncontestedPreferenceDecides`.
* `compare-and-set!` may fail although the value was identical all the time, when it has been
  written meanwhile (`atom.go:176`): `CasFailureJustified`.
* A delay whose function panics keeps the function: a later force calls it again, and throws the
  old exception even if it succeeds (`delay.go:41-50`; the docstring at `core.glj:742-745` says
  the body is invoked only once).  `BodiesReturnOnce` speaks of bodies that have returned.  If
  the later call panics again its exception replaces the old one, so that callers may be thrown
  different exceptions; one that reads `d.exception` without the lock meanwhile
  may get the type of one with the value of the other (`TornException`).  `ImplementsOnceCell`
  says that a value is the same for everybody, and that a delay which has failed never gives one.
* An element of `map` whose function panics is nil from then on, as the once is done
  (`mappedseq.go:37-42`): only the first call panics.  `ImplementsOnceCell` takes nil as its outcome.
* Delivering nil to a promise panics within its once: the promise can never be delivered
  (`promise.go:49`).  `CallsReturn` excludes those who wait for such a promise.
* A panic in an inner body, under `Seq` of an outer lazy sequence, loses what the outer body had
  returned (`lazyseq.go:122-129`): the history field `lost` in `LazySeqKeepsValue`.
* Two transients of one vector share its leaves, and `assoc!` writes them where they are
  (`transient.go:59`, `154`): after `(let [v (vec (range 40)) a (transient v) b (transient v)]
  (assoc! b 0 :x) (nth a 0))` the answer is `:x`, although `a` has not been touched.  The cause is
  that of `vector_persistence`.  `TransientKeepsElements` speaks of the transients that no other
  has written to since their last operation; so does `VectorsKeepElements` of vectors.
* `nth` and `count` of a transient go on after `persistent!`, whose docstring says that any use
  will throw (`core.glj:3371-3373`): `EnsureEditable` guards the operations that change it.

Deadlock is checked, except where the system really stops: when the bounded calls have returned
(`nsloader`, `deferred`, `lazy_seq`) or the process has ended (`deferred`, `lazy_seq`), when the
versions are used up (`var_root`), when the operations are (`vector`, `vector_persistence`,
`namespaces`), and when the search has ended (`multifn_search`).  `CallsReturn` shows for
`nsloader` and `deferred` that nobody is stuck in the middle.

## Fairness

`NsLoader!FairSpec`, `MultiFn!FairSpec` and `Deferred!FairSpec` assume weak fairness of what a
goroutine inside of a call does next: the Go scheduler runs every runnable goroutine, the bodies
of loaders, lazy sequences, delays and futures return or panic, and no call waits for anything but
what the model shows.  Calls themselves, deliveries, changes of the tables and of the hierarchy
need not happen.

* `NsLoader!CallsReturn` holds for dependencies between namespaces without circles, as two
  goroutines that load a circle from its two ends wait for each other.
* `MultiFn!DispatchReturns` holds because changes end: each retry is caused by one.
* `Deferred!CallsReturn` says that a call goes on unless it waits for a promise that nobody has
  delivered, or for a future whose function has not returned.  Bodies make no calls on other
  objects in the model, except that they return lazy sequences and that a future's function is
  any one call; circles of delays that force one another are thereby left out.  A mutex is fair
  enough: in a run with finitely many calls each waiter's turn comes.

## Assumptions

* `Delay` reads its fields without a lock; the model shows the stores of `realize` in their order,
  as amd64 does.  The read of the two words of `LazySeq.sv` is not atomic, and `TornRead` is the
  outcome in which the words belong to different values.
* A namespace does not refer to itself (`NamespaceAssumption`), and only Vars, never host classes,
  are referred to by `Refer`.
* Vectors and transients are used by one goroutine at a time, as Clojure asks for transients;
  several transients of one vector may be in use at the same time.
* Of the Go values that `Import` maps there is one: mapping it to a name again writes nothing, which
  is what `reference` does with equal values and with two that cannot be compared
  (`namespace.go:415-425`).  Two different values under one name, of which the code
  replaces the first unless neither can be compared, are left out.
* Maps, arrays and Boxes that nobody refers to are forgotten, and their identities used again, as
  by a garbage collector; this keeps the state spaces small.

## Proofs

Every safety property, action property and refinement that a passing run checks is a theorem.
The theorems hold for every value of the constants: any sets of
goroutines, Vars, loaders, values, hierarchies or objects, and any of the bounds that keep the
runs small.

| Module | Properties proved | Assumes |
|---|---|---|
| `AotProofs` | `TypeOK`, `ExclusiveBody`, `LazyLoadsOnce`, `WaitersHaveALoader`, `LazyReturnsLoaded`; of the links, `RootTypeOK`, `CachedFnCurrent`, `VersionIdentifiesRoot`, `AlterationsSerialised` | `GoroutineAssumption`, `LoaderAssumption`, `VarRootAssumption` |
| `AtomProofs` | `TypeOK`, `ValueAccepted`, `CasFailureJustified`, `WatchesHearTheChange`, `ImplementsAtomicReference` | `AtomAssumption` |
| `ThreadBindingsProofs` | `TypeOK`, `CountTracksFrames`, `FastPathSound`, `StoragePrivate`, `DynamicBindingsRestored`, `ConveyedIsSnapshot` | `BindingsAssumption` |
| `MultiFnProofs` | `TypeOK`, `CacheCoherent`, `DispatchLinearizable`; of the search, `SearchTypeOK`, `MostSpecificWins`, `AmbiguityIsReal`, `UncontestedPreferenceDecides` | `MultiFnAssumption`, `DispatchAssumption` |
| `NamespaceProofs` | `TypeOK`, `LookupsAgree`, `ImplementsNamespaceMaps` | `NamespaceAssumption` |
| `DeferredProofs` | `TypeOK`, `BodiesReturnOnce`, `ImplementsOnceCell`, `LazySeqKeepsValue` | `DeferredAssumption` and those of its parts |
| `VectorProofs` | `TypeOK`, `VectorsKeepElements`, `TransientKeepsElements` | `NodeSizeAssumption`, `VectorAssumption` |

The assumptions say that constants have their kinds, that the markers (nobody, nothing, pending)
are not values, and that what is finite in a program is finite in the model: the goroutines of
`Atom`, the dispatch values, the namespaces, what the counters of `ThreadBindings` are summed
over.  TLC evaluates each of them in a run.

Next to none of the properties is inductive as it stands.  Each proof has an `IInv` that is (`RootInv`
for `VarRoot`), one lemma per action that keeps it, and a theorem per property.  What `IInv` adds:

* `NsLoader`: only the innermost call of a goroutine is anywhere but in its body
  (`OuterCallsRun`), which is needed because a call that returns uncovers the one below; a running
  body belongs to the goroutine `loading` names (`RunnerIsLoading`), to one of its calls
  (`RunsOnce`), and `loading` names a goroutine only while that is so (`LoadingIsRunning`); a waiter
  waits for what another goroutine is loading (`WaitsForLoading`), because every end of a body
  must wake exactly those who wait for it.
* `VarRoot`: `syncLock` is held exactly by an alteration (`LockedWhileAltering`); no version that
  has been read is newer than the root's (`VersionsRead`), so that a new root can never match an
  old link; a link with the current version calls the current function (`LinksCurrent`,
  `LinkedByLoader`); the root is what a loader that nothing has disturbed has installed
  (`Undisturbed`); the history `roots` counts the versions without a gap and ends with the root
  (`RootsCounted`); and what an alteration in progress has read is its thread binding, or a root
  that no alteration has replaced since, as it holds `syncLock` (`ReadByAlter`).
* `Atom`: a Box that a call has a pointer to is not recycled meanwhile (`BoxImmutable`), which is
  why the comparison of pointers has no ABA problem; what the call has computed is computed
  from that Box (`Computed`); `NewAccepted` and `ValidatorAlone` for the validator.
* `ThreadBindings`: the counter of a Var is a sum over storages in use and over operations in
  progress, and each operation says which frames it has counted already (`OperationsSound`).
  `StoragePrivate` is needed to know that a step changes one term of the sum.
* `MultiFn`: the cached hierarchy is an earlier version of the hierarchy or the same
  (`HierarchyFollowed`), and what a dispatch noted is no newer than the tables, so that finding
  its versions again means that nothing has changed since (`DispatchSound`).
* The search of `MultiFn`: without preferences the candidate is below every key met so
  far (`BestSoFar`), and there is none before the first round only (`BestMet`).  This needs `isa?`
  to be a preorder, and `Lineage` is a recursion: it is proved to be the smallest set that holds a
  dispatch value and the parents of its members, as the climb cannot grow more often than there are
  dispatch values (`ClimbEnds`).
* `Winner`, the fold in which `MultiFn` uses the loop, is what a loop of such rounds ends with
  (`WinnerEndsLoop`).  From this and `DispatchLinearizable` follow two theorems that no run checks:
  without preferences a dispatch finds the most specific method of one moment of its call
  (`DispatchFindsMostSpecific`), and it panics only if two methods of one moment do not dominate
  each other (`DispatchPanicsForConflict`).
* `Namespace`: a Go map that two refer to is marked as shared by the namespace that may write to
  it (`SharingMarked`), which is why no snapshot changes (`SnapshotsKept`); what is cached is what
  would be built now (`CacheCurrent`).
* `Deferred`: one invariant for each kind of object (`LazyInv`, `MappedInv`, `DelayInv`,
  `PromiseInv`, `FutureInv`), which the steps on the other kinds keep because no call of this kind
  moves.  For a lazy sequence: who is past `seqMtx` holds it (`SeqMtxHeld`), who is in `realize`
  holds `realizeMtx` (`RealizeMtxHeld`), where a `Seq` may be (`SeqPositions`), and that there is
  nothing before the body has returned (`NothingUnrun`).
* `LazySeqKeepsValue` needs in addition that a `Seq` in progress is at a link that the values of
  the bodies reach from its object, and that what is stored is reached in the same way
  (`Chained`).  Reaching is being in every set closed under those values.  The theorem is for
  bodies that do not return one another in a circle (`Nested`: a depth that decreases from a lazy
  sequence to what its body returns; in the run the depths are 3, 2 and 1).  In a circle `Chase`
  and `Seq` both lead nowhere, and the formula compares two arbitrary links.
* `Vector`: a tree of n leaves has exactly the nodes of `Places(height, n)` at a height that is
  neither too low nor too high, and its leaves are arrays of their own (`Sound`); counts split
  into whole leaves and a tail that is empty for no element only (`Split`).  `PushTail` and
  `PopTail` then add and take away the nodes that begin with leaf n (`Way`, `PlacesStep`),
  because the highest node that begins with it is the highest of the way whose `Span` divides n.
  What `Elements` reads is a function of the leaves in order and of the tail (`Holds`), so that
  each operation is a change of one leaf, of the tail, or a move from one to the other.  `Kept`
  says that vectors and transients are sound and have their elements, and that nobody else has
  what a transient has made until `persistent!` seals it: without this it could write into a
  vector or another transient unnoticed.  Every step changes one variable of the program, or
  seals a transient as well, and writes arrays of that variable only (`HolderStep`), while the
  others have the same elements wherever their arrays are the same (`HolderFrame`).  What an
  operation has made does not depend on the arrays that are collected at its end (`Collected`),
  which is why `Inv`, where these are gone, is kept.
* `ImmutableUnlessDamaged`, which no run checks, gives the violation of `vector_persistence` its
  extent: no step changes the elements of a vector that is there already, unless it writes an array
  that an unsealed transient, which has not made it, shares with the vector.  It speaks of no
  history variable.

A refinement is proved by the effect of each step on the abstract state.  For `Deferred`, every
step leaves all cells but that of one object as they were, and sets that one at most from
pending to an outcome (`CellStays`); whoever learns an outcome learns what the cell holds.  For
`Atom` the effect is that of the successful compare-and-swap, or of the load after which a
`compare-and-set!` fails; for `Namespace` that of the operation's last critical section.

The library's induction theorems take operators as parameters, which the provers cannot
instantiate; what recursive functions and folds compute is proved from the smallest
number, or the smallest set, for which it would fail (`FoldLemmas`).

Attempts at these proofs changed the models where they were wrong: the abstract `ReferTo` of
`NamespaceMaps` installed what the source maps at that moment rather than what was looked up
before, which differs when namespaces refer to each other (hence `found`); `MethodFor` had
overlapping cases, and `MultiFn` did not say that the panic is not a method; `Deferred` did not
say that the kinds of objects are disjoint.  The proof of `LazySeqKeepsValue` failed for bodies
that return one another in a circle.

Only model-checked is liveness, `CallsReturn` and `DispatchReturns`: fairness and `ENABLED` are
out of the prover's reach.  The proofs about `Vector` rest on the places of `VectorTree`, which
name a node by its height and its number, so that the recursions of the code along a path are sets
and maps over heights here.

## Not modelled

Watches, metadata and the macro cache of Vars; Go types and record types as dispatch values;
metadata of Atoms and Go slices as their values; what a half-loaded namespace contains; the table
of namespaces and their metadata; subvectors, iterators and cached hashes of vectors; cyclic
sequences; `GetWithTimeout`'s units and the agents, which are a stub.  The components
without a module are listed in `PROJECT.json` with the reason: they are sequential translations
(reader, compiler, code generator), sequential data structures and arithmetic, adapters of
input and output (the REPLs, the HTTP server, the pod client), or generated code and the standard
library of the hosted language, which together are most of the repository's lines.

## Plan

1. Watches and metadata of Vars, in `VarRoot`.
2. nREPL sessions and shutdown.
