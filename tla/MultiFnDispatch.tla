--------------------------- MODULE MultiFnDispatch ---------------------------
(***************************************************************************)
(* How a multimethod picks a method (pkg/lang/multifn.go), as a function   *)
(* of its method table, its preferences and a hierarchy.                   *)
(*                                                                         *)
(* A hierarchy maps every dispatch value to its parents, a table maps      *)
(* dispatch values to methods, and prefs is the set of pairs <<x, y>> such *)
(* that y is in the preference set of x.  Dispatch values are tags: the    *)
(* rules for Go types and record types are left out.                       *)
(***************************************************************************)
EXTENDS Integers, SequencesExt

CONSTANTS
  DispatchVals,  \* dispatch values
  Default,       \* defaultDispatchVal
  NoMethod,      \* the result when no method applies: nil
  Ambiguous      \* the panic "Multiple methods ... match dispatch value"

ASSUME DispatchAssumption ==
  /\ IsFiniteSet(DispatchVals)
  /\ NoMethod \notin DispatchVals /\ Ambiguous \notin DispatchVals
  /\ NoMethod # Ambiguous

\* x and its ancestors.
Lineage(hier, x) ==
  LET up[n \in Nat] == IF n = 0 THEN {x}
                       ELSE UNION {{y} \cup hier[y] : y \in up[n - 1]}
  IN up[Cardinality(DispatchVals)]

\* isa?
IsA(hier, x, y) == y \in Lineage(hier, x)

\* MultiFn.prefers walks up from x and from y until it meets a preference.
Prefers(hier, prefs, x, y) ==
  \E a \in Lineage(hier, x), b \in Lineage(hier, y) : <<a, b>> \in prefs

Dominates(hier, prefs, x, y) == Prefers(hier, prefs, x, y) \/ IsA(hier, x, y)

\* Bugs that the properties are tried against: the first key that matches is kept, or
\* preferences are not consulted.
CandidateKept_Fault(hier, prefs, best, key) ==
  IF best # NoMethod THEN best ELSE key
CandidateReplaced_Fault(hier, prefs, best, key) ==
  IF best = Ambiguous \/ best = NoMethod \/ IsA(hier, key, best) THEN key
  ELSE IF IsA(hier, best, key) THEN best ELSE Ambiguous

\* One round of the loop of findBestMethod, for a key that matches.
Candidate(hier, prefs, best, key) ==
  IF best = Ambiguous THEN Ambiguous
  ELSE LET new == IF best = NoMethod \/ Dominates(hier, prefs, key, best) THEN key ELSE best
       IN IF Dominates(hier, prefs, new, key) THEN new ELSE Ambiguous

Matching(hier, table, val) == {key \in DOMAIN table : IsA(hier, val, key)}

\* The key the loop ends with when it meets the matching keys in this order.
Winner(hier, prefs, order) ==
  FoldLeft(LAMBDA best, key : Candidate(hier, prefs, best, key), NoMethod, order)

\* The keys it may end with: a map is traversed in an order of its own.
BestKeys(hier, prefs, table, val) ==
  {Winner(hier, prefs, order) : order \in SetToSeqs(Matching(hier, table, val))}

\* findBestMethod: a method, NoMethod, or the panic.
MethodFor(table, key) ==
  CASE key = Ambiguous -> Ambiguous
    [] key \notin {NoMethod, Ambiguous} -> table[key]
    [] key = NoMethod /\ Default \in DOMAIN table -> table[Default]
    [] OTHER -> NoMethod

BestMethods(hier, prefs, table, val) ==
  {MethodFor(table, key) : key \in BestKeys(hier, prefs, table, val)}
=============================================================================
