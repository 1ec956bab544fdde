----------------------------- MODULE Namespace -----------------------------
(***************************************************************************)
(* Namespaces (pkg/lang/namespace.go).  The mappings of a namespace are a  *)
(* Go map that other namespaces may share, as a snapshot of what they have *)
(* referred to; it is copied before the next write.  A symbol is looked    *)
(* for in the mappings first, then in the snapshots, newest first, which   *)
(* show only the Vars of their own source.                                 *)
(*                                                                         *)
(* An operation is one step where it holds mappingsMtx from beginning to   *)
(* end; ReferAll and ReferAllSnapshot hold the source's lock, then the     *)
(* target's, and AddAlias none.  The warnings of checkReplacement are left *)
(* out.                                                                    *)
(*                                                                         *)
(* Operators whose name ends in _Fault are the bugs that the properties    *)
(* are tried against; nothing else uses them.                              *)
(***************************************************************************)
EXTENDS Integers, SequencesExt

CONSTANTS
  G,          \* goroutines
  Namespaces, \* namespaces
  Symbols,    \* unqualified symbols
  Aliases,    \* symbols used as aliases
  Seeded,     \* symbols every namespace starts with, mapped to host classes
  Defined,    \* pairs of a namespace and a symbol that has been interned there
  Refers,     \* pairs of a namespace and one that it refers to or has an alias for
  Exclusions, \* sets of symbols excluded from a ReferAllSnapshot
  RefLists,   \* lists of a source symbol and an alias, for ReferAll
  HostClass,  \* a value that is no Var
  None,       \* no mapping, no alias, no cached map
  MaxOps      \* how many operations are begun (a bound of the model)

ASSUME NamespaceAssumption ==
  /\ IsFiniteSet(Namespaces) /\ MaxOps \in Nat
  /\ None # HostClass /\ None \notin Namespaces
  /\ {None, HostClass} \cap [ns : Namespaces, sym : Symbols, n : 1 .. MaxOps + 1] = {}
  /\ Seeded \subseteq Symbols /\ Exclusions \subseteq SUBSET Symbols
  /\ Defined \subseteq Namespaces \X Symbols
  /\ Refers \subseteq Namespaces \X Namespaces /\ \A ns \in Namespaces : <<ns, ns>> \notin Refers
  /\ RefLists \subseteq Seq(Symbols \X Symbols) \ {<<>>}

VARIABLES
  maps,      \* the Go maps; those nobody refers to are gone
  mappings,  \* ns.mappings: which of them each namespace has
  shared,    \* ns.mappingsShared
  refs,      \* ns.referenceSnapshots
  cached,    \* ns.mappingsSnapshot
  aliases,   \* ns.aliases
  op,        \* what each goroutine is in the middle of
  ops        \* how many operations have been begun

vars == <<maps, mappings, shared, refs, cached, aliases, op, ops>>
mapState == <<maps, mappings, shared, refs, cached>>

Idle == [at |-> "idle"]
NoAliases == [a \in Aliases |-> None]

\* A Var that is interned again is another Var.
Vars == [ns : Namespaces, sym : Symbols, n : 1 .. MaxOps + 1]
Values == Vars \cup {HostClass}
IsVar(v) == v \notin {None, HostClass}

Init ==
  /\ LET order == CHOOSE o \in SetToSeqs(Namespaces) : TRUE
         initial(ns) == [s \in Symbols |->
           CASE <<ns, s>> \in Defined -> [ns |-> ns, sym |-> s, n |-> 1]
             [] <<ns, s>> \notin Defined /\ s \in Seeded -> HostClass
             [] OTHER -> None]
     IN /\ maps = [i \in DOMAIN order |-> initial(order[i])]
        /\ mappings = [ns \in Namespaces |-> CHOOSE i \in DOMAIN order : order[i] = ns]
  /\ shared = [ns \in Namespaces |-> FALSE]
  /\ refs = [ns \in Namespaces |-> <<>>]
  /\ cached = [ns \in Namespaces |-> None]
  /\ aliases = [ns \in Namespaces |-> NoAliases]
  /\ op = [g \in G |-> Idle]
  /\ ops = 0

-----------------------------------------------------------------------------
(* Looking up.                                                             *)

Contents(ns) == maps[mappings[ns]]

\* Does a snapshot show the symbol?
Shows(snapshot, sym) ==
  LET v == maps[snapshot.map][sym]
  IN sym \notin snapshot.excluded /\ IsVar(v) /\ v.ns = snapshot.source /\ v.sym = sym

\* visibleMappingLocked.
Lookup(ns, sym) ==
  LET showing == {i \in DOMAIN refs[ns] : Shows(refs[ns][i], sym)}
  IN IF Contents(ns)[sym] # None THEN Contents(ns)[sym]
     ELSE IF showing = {} THEN None ELSE maps[refs[ns][Max(showing)].map][sym]

Over(lower, upper) == [s \in Symbols |-> IF upper[s] # None THEN upper[s] ELSE lower[s]]
Shown(snapshot) ==
  [s \in Symbols |-> IF Shows(snapshot, s) THEN maps[snapshot.map][s] ELSE None]

\* What Mappings and shareMappings build of the snapshots and the mappings.
Referred(ns) == FoldLeft(LAMBDA visible, snapshot : Over(visible, Shown(snapshot)),
                         [s \in Symbols |-> None], refs[ns])
Visible(ns) == Over(Referred(ns), Contents(ns))

IsInterned(ns, sym, v) == IsVar(v) /\ v.ns = ns /\ v.sym = sym

-----------------------------------------------------------------------------
(* Writing.                                                                *)

Captures == {op[g].map : g \in {h \in G : op[h].at = "install"}}
Live(current, snapshots, captures) ==
  {current[ns] : ns \in Namespaces} \cup captures
    \cup UNION {{snapshots[ns][i].map : i \in DOMAIN snapshots[ns]} : ns \in Namespaces}
Keep(heap, live) == [i \in live |-> heap[i]]
FreshMap == CHOOSE i \in 1 .. Cardinality(DOMAIN maps) + 1 : i \notin DOMAIN maps

\* A shared map is written as if it were not.
WriteMapping_Fault(ns, sym, v) ==
  /\ maps' = [maps EXCEPT ![mappings[ns]][sym] = v]
  /\ cached' = [cached EXCEPT ![ns] = None]
  /\ UNCHANGED <<mappings, shared>>

\* ensureMappingsMutableLocked and the write; None deletes.
WriteMapping(ns, sym, v) ==
  LET target == IF shared[ns] THEN FreshMap ELSE mappings[ns]
      current == [mappings EXCEPT ![ns] = target]
      written == [Contents(ns) EXCEPT ![sym] = v]
  IN /\ mappings' = current
     /\ maps' = [i \in Live(current, refs, Captures) |-> IF i = target THEN written ELSE maps[i]]
     /\ shared' = [shared EXCEPT ![ns] = FALSE]
     /\ cached' = [cached EXCEPT ![ns] = None]

\* The Vars that a ReferAll has looked up, and the Vars there are.
Found == {v \in UNION {ToSet(op[g].vars) : g \in {h \in G : op[h].at = "refer"}} : IsVar(v)}
Existing == {v \in UNION {{maps[i][s] : s \in Symbols} : i \in DOMAIN maps} : IsVar(v)} \cup Found
NewVar(ns, sym) ==
  [ns |-> ns, sym |-> sym,
   n |-> Min({i \in 1 .. MaxOps + 1 : [ns |-> ns, sym |-> sym, n |-> i] \notin Existing})]

Begin ==
  /\ ops < MaxOps
  /\ ops' = ops + 1

Intern(ns, sym) ==
  /\ Begin
  /\ IF IsInterned(ns, sym, Lookup(ns, sym)) THEN UNCHANGED mapState
     ELSE WriteMapping(ns, sym, NewVar(ns, sym)) /\ UNCHANGED refs
  /\ UNCHANGED <<aliases, op>>

\* The symbol is not excluded from the snapshots.
Excluded_Fault(snapshot, sym) == snapshot

\* Deleting a mapping must not show one of a snapshot underneath.
Excluded(snapshot, sym) ==
  IF maps[snapshot.map][sym] # None THEN [snapshot EXCEPT !.excluded = @ \cup {sym}] ELSE snapshot

\* The cached map is left when there was nothing to delete.
Unmap_Fault(ns, sym) ==
  /\ Begin
  /\ IF Contents(ns)[sym] # None THEN WriteMapping(ns, sym, None)
     ELSE UNCHANGED <<maps, mappings, shared, cached>>
  /\ refs' = [refs EXCEPT ![ns] = [i \in DOMAIN @ |-> Excluded(@[i], sym)]]
  /\ UNCHANGED <<aliases, op>>

Unmap(ns, sym) ==
  /\ Begin
  /\ IF Contents(ns)[sym] # None THEN WriteMapping(ns, sym, None)
     ELSE cached' = [cached EXCEPT ![ns] = None] /\ UNCHANGED <<maps, mappings, shared>>
  /\ refs' = [refs EXCEPT ![ns] = [i \in DOMAIN @ |-> Excluded(@[i], sym)]]
  /\ UNCHANGED <<aliases, op>>

\* reference: an interned Var is not replaced.  The one value that is no Var stands for
\* any: under one name it is followed by itself, and then nothing is written, as in the
\* code for values that are == and for two that cannot be compared (namespace.go:415-425,
\* "assume equal").  Two different values of Go under one name are not modelled.
Reference(ns, sym, v) ==
  LET o == Lookup(ns, sym)
  IN /\ IF IsInterned(ns, sym, o) \/ o = v THEN UNCHANGED <<maps, mappings, shared, cached>>
        ELSE WriteMapping(ns, sym, v)
     /\ UNCHANGED refs

Refer(ns, sym, v) ==
  /\ Begin
  /\ Reference(ns, sym, v)
  /\ UNCHANGED <<aliases, op>>

Import(ns, sym) == Refer(ns, sym, HostClass)

\* Mappings.
ReadMappings(ns) ==
  /\ cached[ns] = None /\ Begin
  /\ cached' = [cached EXCEPT ![ns] = Visible(ns)]
  /\ UNCHANGED <<maps, mappings, shared, refs, aliases, op>>

-----------------------------------------------------------------------------
(* Operations in several steps.                                            *)

\* ReferAll looks its Vars up in the mappings of the source, ...
StartReferAll(g, ns, source, list) ==
  /\ op[g] = Idle /\ Begin
  /\ op' = [op EXCEPT ![g] =
              [at |-> "refer", ns |-> ns, names |-> [i \in DOMAIN list |-> list[i][2]],
               vars |-> [i \in DOMAIN list |-> Contents(source)[list[i][1]]]]]
  /\ UNCHANGED <<mapState, aliases>>

\* ... and refers to those it has found, one after the other.
ReferNext(g) ==
  LET o == op[g]
      v == Head(o.vars)
  IN /\ o.at = "refer"
     /\ IF IsVar(v) THEN Reference(o.ns, Head(o.names), v) ELSE UNCHANGED mapState
     /\ op' = [op EXCEPT ![g] = IF Len(o.vars) = 1 THEN Idle
                                ELSE [o EXCEPT !.vars = Tail(o.vars), !.names = Tail(o.names)]]
     /\ UNCHANGED <<aliases, ops>>

\* ReferAllSnapshot shares the mappings of the source, or what is visible in it, ...
ShareMappings(g, ns, source, excluded) ==
  LET map == IF refs[source] = <<>> THEN mappings[source] ELSE FreshMap
  IN /\ op[g] = Idle /\ Begin
     /\ op' = [op EXCEPT ![g] =
                 [at |-> "install", ns |-> ns, source |-> source, map |-> map,
                  excluded |-> excluded, captured |-> Visible(source)]]
     /\ maps' = [i \in DOMAIN maps \cup {map} |-> IF i = map THEN Visible(source) ELSE maps[i]]
     /\ shared' = [shared EXCEPT ![source] = @ \/ refs[source] = <<>>]
     /\ UNCHANGED <<mappings, refs, cached, aliases>>

\* ... and installs the snapshot, in the place of an older one of that source.
InstallSnapshot(g) ==
  LET o == op[g]
      snapshot == [source |-> o.source, map |-> o.map, excluded |-> o.excluded,
                   captured |-> o.captured]
      older == {i \in DOMAIN refs[o.ns] : refs[o.ns][i].source = o.source}
      new == [refs EXCEPT ![o.ns] = IF older = {} THEN Append(@, snapshot)
                                    ELSE [@ EXCEPT ![Min(older)] = snapshot]]
  IN /\ o.at = "install"
     /\ refs' = new
     /\ maps' = Keep(maps, Live(mappings, new, {op[h].map : h \in {k \in G \ {g} : op[k].at = "install"}}))
     /\ cached' = [cached EXCEPT ![o.ns] = None]
     /\ op' = [op EXCEPT ![g] = Idle]
     /\ UNCHANGED <<mappings, shared, aliases, ops>>

\* AddAlias loads the aliases and, unless the alias is there, ...
LoadAliases(g, ns, a, target) ==
  /\ op[g] = Idle /\ Begin
  /\ aliases[ns][a] = None
  /\ op' = [op EXCEPT ![g] = [at |-> "alias", ns |-> ns, alias |-> a, target |-> target,
                              loaded |-> aliases[ns]]]
  /\ UNCHANGED <<mapState, aliases>>

\* ... swaps them if they are still the ones loaded, and loads them again.  When the alias
\* is there the call returns, or panics if it stands for another namespace.
SwapAliases(g) ==
  LET o == op[g]
      same == aliases[o.ns] = o.loaded
  IN /\ o.at = "alias"
     /\ IF same THEN aliases' = [aliases EXCEPT ![o.ns][o.alias] = o.target] ELSE UNCHANGED aliases
     /\ op' = [op EXCEPT ![g] =
                 IF aliases'[o.ns][o.alias] # None THEN Idle ELSE [@ EXCEPT !.loaded = aliases'[o.ns]]]
     /\ UNCHANGED <<mapState, ops>>

-----------------------------------------------------------------------------
Next ==
  \/ \E ns \in Namespaces, sym \in Symbols :
       \/ Intern(ns, sym)
       \/ Unmap(ns, sym)
       \/ sym \in Seeded /\ Import(ns, sym)
       \/ \E source \in Namespaces :
            /\ <<ns, source>> \in Refers /\ IsVar(Lookup(source, sym))
            /\ Refer(ns, sym, Lookup(source, sym))
  \/ \E ns \in Namespaces : ReadMappings(ns)
  \/ \E g \in G :
       \/ \E r \in Refers :
            \/ \E list \in RefLists : StartReferAll(g, r[1], r[2], list)
            \/ \E excluded \in Exclusions : ShareMappings(g, r[1], r[2], excluded)
            \/ \E a \in Aliases : LoadAliases(g, r[1], a, r[2])
       \/ ReferNext(g)
       \/ InstallSnapshot(g)
       \/ SwapAliases(g)

Spec == Init /\ [][Next]_vars

-----------------------------------------------------------------------------
(* Properties.                                                             *)

\* Every variable has its type, and a snapshot is what the source was when it was taken:
\* "a later mutation of src uses copy-on-write and cannot change the captured view".
TypeOK ==
  /\ DOMAIN maps = Live(mappings, refs, Captures)
  /\ \A i \in DOMAIN maps : maps[i] \in [Symbols -> Values \cup {None}]
  /\ \A ns \in Namespaces :
       /\ aliases[ns] \in [Aliases -> Namespaces \cup {None}]
       /\ \A i \in DOMAIN refs[ns] : maps[refs[ns][i].map] = refs[ns][i].captured
  /\ \A g \in G : op[g].at = "install" => maps[op[g].map] = op[g].captured

\* The two ways to look a symbol up agree: GetMapping, which searches the snapshots, and
\* the map of Mappings, which is built of them and kept until something changes.
LookupsAgree ==
  \A ns \in Namespaces :
    /\ Visible(ns) = [s \in Symbols |-> Lookup(ns, s)]
    /\ cached[ns] # None => cached[ns] = Visible(ns)

\* Each namespace is a map of its own: sharing, snapshots and exclusions never show.
\* What one namespace does changes no other, unmapping a symbol leaves it unmapped,
\* an interned Var is new and stays until then, what is referred to has been mapped
\* before, and an alias is set once.
Maps == INSTANCE NamespaceMaps
          WITH mapped <- [ns \in Namespaces |-> [s \in Symbols |-> Lookup(ns, s)]],
               alias <- aliases,
               found <- Found
ImplementsNamespaceMaps == Maps!MapsSpec
=============================================================================
