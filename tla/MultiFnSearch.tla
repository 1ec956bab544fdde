---------------------------- MODULE MultiFnSearch ----------------------------
(***************************************************************************)
(* The loop of findBestMethod (pkg/lang/multifn.go) step by step, after    *)
(* any sequence of derive and prefer-method calls: what a search promises  *)
(* whatever order it meets the methods in.                                 *)
(*                                                                         *)
(* Operators whose name ends in _Fault are the bugs that the properties    *)
(* are tried against; nothing else uses them.                              *)
(***************************************************************************)
EXTENDS MultiFnDispatch

CONSTANT MaxPrefs  \* bound on the preferences

ASSUME SearchAssumption == MaxPrefs \in Nat

VARIABLES
  hier,      \* the hierarchy
  prefs,     \* preferTable
  matching,  \* the keys of the methods that apply to the dispatch value
  left,      \* those the loop has not come to
  best       \* the key of bestEntry; NoMethod: nil; Ambiguous: it panicked

searchVars == <<hier, prefs, matching, left, best>>

Searching == matching # {}

SearchInit ==
  /\ hier = [x \in DispatchVals |-> {}]
  /\ prefs = {}
  /\ matching = {} /\ left = {}
  /\ best = NoMethod

\* derive refuses a parent that is an ancestor already, and a circle.
Derive(tag, parent) ==
  /\ ~Searching
  /\ ~IsA(hier, tag, parent) /\ ~IsA(hier, parent, tag)
  /\ hier' = [hier EXCEPT ![tag] = @ \cup {parent}]
  /\ UNCHANGED <<prefs, matching, left, best>>

\* PreferMethod refuses the reverse of a preference.
Prefer(x, y) ==
  /\ ~Searching /\ x # y
  /\ ~Prefers(hier, prefs, y, x)
  /\ prefs' = prefs \cup {<<x, y>>}
  /\ UNCHANGED <<hier, matching, left, best>>

\* The keys are those of the whole table.
Search_Fault(val, keys) ==
  /\ ~Searching
  /\ matching' = {key \in keys : IsA(hier, val, key)}
  /\ matching' # {}
  /\ left' = keys
  /\ UNCHANGED <<hier, prefs, best>>

\* A call of findBestMethod while the methods are those of keys.
Search(val, keys) ==
  /\ ~Searching
  /\ matching' = {key \in keys : IsA(hier, val, key)}
  /\ matching' # {}
  /\ left' = matching'
  /\ UNCHANGED <<hier, prefs, best>>

\* One round of the loop, for a key that matches.
Consider(key) ==
  /\ key \in left /\ best # Ambiguous
  /\ best' = Candidate(hier, prefs, best, key)
  /\ left' = left \ {key}
  /\ UNCHANGED <<hier, prefs, matching>>

\* MaxPrefs bounds the preferences.
SearchNext ==
  \/ \E x, y \in DispatchVals : Derive(x, y)
  \/ Cardinality(prefs) < MaxPrefs /\ \E x, y \in DispatchVals : Prefer(x, y)
  \/ \E val \in DispatchVals, keys \in SUBSET DispatchVals : Search(val, keys)
  \/ \E key \in DispatchVals : Consider(key)

SearchSpec == SearchInit /\ [][SearchNext]_searchVars

-----------------------------------------------------------------------------
Found == Searching /\ left = {} /\ best # Ambiguous

\* Every variable has its type; the candidate is a key that applies and has been met.
SearchTypeOK ==
  /\ hier \in [DispatchVals -> SUBSET DispatchVals]
  /\ prefs \subseteq DispatchVals \X DispatchVals
  /\ left \subseteq matching
  /\ best \in (matching \ left) \cup {NoMethod, Ambiguous}

\* Without preferences the loop ends with the most specific method that applies, if it
\* ends with one: the key of every other method is an ancestor of its key.
MostSpecificWins ==
  Found /\ prefs = {} => \A key \in matching : IsA(hier, best, key)

\* The panic is justified: two methods apply and neither dominates the other.
AmbiguityIsReal ==
  best = Ambiguous =>
    \E x, y \in matching : ~Dominates(hier, prefs, x, y) /\ ~Dominates(hier, prefs, y, x)

Related(x, y) == IsA(hier, x, y) \/ IsA(hier, y, x)

\* A preference decides between two methods of which neither is more specific, in
\* whichever order they are met (prefer-method: "prefer matches of dispatch-val-x
\* over dispatch-val-y when there is a conflict"), as long as no preference among the
\* ancestors has made y dominate x as well.
UncontestedPreferenceDecides ==
  \A x, y \in matching :
    /\ left = {} /\ matching = {x, y} /\ <<x, y>> \in prefs
    /\ ~Related(x, y) /\ ~Prefers(hier, prefs, y, x)
    => best = x
=============================================================================
