--------------------------- MODULE NamespaceMaps ---------------------------
(***************************************************************************)
(* What namespaces promise: each maps symbols to values and aliases to     *)
(* namespaces, and only an operation on a namespace changes it.  A Var     *)
(* that is interned is a new one and stays until it is unmapped, what is   *)
(* referred to has been mapped before, and an alias is set once.           *)
(***************************************************************************)
CONSTANTS
  Namespaces,
  Symbols,
  Aliases,
  Values,     \* Vars and host classes; a Var has the fields ns and sym
  HostClass,
  None        \* no mapping, no alias

VARIABLES
  mapped,  \* what each namespace maps each symbol to
  alias,   \* the namespace each alias stands for
  found    \* Vars that operations in progress have looked up

mapVars == <<mapped, alias, found>>

IsVarOf(v, ns, sym) == v \notin {None, HostClass} /\ v.ns = ns /\ v.sym = sym
Mapped == {mapped[p[1]][p[2]] : p \in Namespaces \X Symbols}
Interned(ns, sym) == IsVarOf(mapped[ns][sym], ns, sym)

MapsInit ==
  /\ mapped \in [Namespaces -> [Symbols -> Values \cup {None}]]
  /\ alias = [ns \in Namespaces |-> [a \in Aliases |-> None]]
  /\ found = {}

\* Only this symbol of this namespace is mapped to something else.
Change(ns, sym) ==
  /\ mapped' = [mapped EXCEPT ![ns][sym] = mapped'[ns][sym]]
  /\ mapped'[ns][sym] \in Values \cup {None}
  /\ UNCHANGED alias

\* A Var that no namespace maps to yet, and none is about to.
InternVar(ns, sym) ==
  /\ ~Interned(ns, sym)
  /\ IsVarOf(mapped'[ns][sym], ns, sym)
  /\ mapped'[ns][sym] \notin Mapped \cup found
  /\ Change(ns, sym)
  /\ UNCHANGED found

UnmapSymbol(ns, sym) ==
  /\ mapped'[ns][sym] = None
  /\ Change(ns, sym)
  /\ UNCHANGED found

\* Vars are looked up to refer to them later, or referred to at last.
Find ==
  /\ found' \subseteq found \cup Mapped
  /\ UNCHANGED <<mapped, alias>>

\* A host class, or a Var that some namespace maps to or has mapped to: one of its own
\* that it has unmapped may come back from a namespace that refers to it.
ReferTo(ns, sym) ==
  /\ ~Interned(ns, sym)
  /\ mapped'[ns][sym] \in {HostClass} \cup found \cup (Mapped \ {None})
  /\ Change(ns, sym)
  /\ found' \subseteq found

\* Referring to a namespace again changes what the last time has given, to anything; a
\* Var of another namespace may show where it was hidden.
ReferToAll(ns, source) ==
  /\ \A other \in Namespaces \ {ns} : mapped'[other] = mapped[other]
  /\ \A sym \in Symbols :
       \/ mapped'[ns][sym] = mapped[ns][sym]
       \/ ~Interned(ns, sym) /\ IsVarOf(mapped'[ns][sym], source, sym)
       \/ IsVarOf(mapped[ns][sym], source, sym)
  /\ UNCHANGED <<alias, found>>

SetAlias(ns, a) ==
  /\ alias[ns][a] = None
  /\ \E target \in Namespaces : alias' = [alias EXCEPT ![ns][a] = target]
  /\ UNCHANGED <<mapped, found>>

MapsNext ==
  \/ Find
  \/ \E ns \in Namespaces :
       \/ \E sym \in Symbols : InternVar(ns, sym) \/ UnmapSymbol(ns, sym) \/ ReferTo(ns, sym)
       \/ \E source \in Namespaces \ {ns} : ReferToAll(ns, source)
       \/ \E a \in Aliases : SetAlias(ns, a)

MapsSpec == MapsInit /\ [][MapsNext]_mapVars
=============================================================================
