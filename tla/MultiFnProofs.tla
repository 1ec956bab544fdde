---------------------------- MODULE MultiFnProofs ----------------------------
(***************************************************************************)
(* Proofs about MultiFn, for any goroutines, dispatch values, methods,     *)
(* preferences and hierarchies: type correctness, that every entry of the  *)
(* cache is an answer for the tables of now and the hierarchy it was       *)
(* filled under, and that a dispatch answers by one moment of its call.    *)
(*                                                                         *)
(* Answers(moment, val), what dispatch may answer, is expanded neither for *)
(* the cache nor for the moment: both hold for any such relation.          *)
(*                                                                         *)
(* The second half is about the search itself, for any hierarchy and any   *)
(* preferences: isa? is a preorder; what the fold Winner and what the      *)
(* loop of MultiFnSearch end with, in whatever order they meet the         *)
(* methods; and from that, what a dispatch finds.                          *)
(***************************************************************************)
EXTENDS MultiFn, MultiFnSearch, FoldLemmas

Results == Methods \cup {NoMethod}
Moments == [methods : Tables, prefs : Preferences, hier : VersionedHierarchies]
Captures == [kind : {"capture"}, val : Dispatched, seen : SUBSET Moments]
Finds == [kind : {"find"}, val : Dispatched, seen : SUBSET Moments, captured : Moments]
Installs == [kind : {"install"}, val : Dispatched, seen : SUBSET Moments,
             captured : Moments, best : Results]
Answered == [kind : {"done"}, val : Dispatched, seen : SUBSET Moments,
             result : Results \cup {Ambiguous}]
Dispatches == {Idle} \cup Captures \cup Finds \cup Installs \cup Answered

\* The types of the variables, and of what a dispatch remembers.
Types ==
  /\ methodTable \in Tables /\ preferTable \in Preferences
  /\ hierarchy \in VersionedHierarchies
  /\ Changes <= MaxChanges
  /\ cachedHierarchy \in VersionedHierarchies \cup {NoHierarchy}
  /\ methodCache \in UNION {[S -> Results] : S \in SUBSET DispatchVals}
  /\ op \in [G -> Dispatches]

\* What the cache is filled by.
Cached == Snapshot(methodTable, preferTable, cachedHierarchy)

\* The cached hierarchy is an earlier one, or the same.
HierarchyFollowed ==
  cachedHierarchy # NoHierarchy =>
    /\ cachedHierarchy.version <= hierarchy.version
    /\ cachedHierarchy.version = hierarchy.version => cachedHierarchy = hierarchy

\* The tables and the cached hierarchy are those that were noted.
Fresh(captured) ==
  /\ captured.methods.version = methodTable.version
  /\ captured.prefs.version = preferTable.version
  /\ captured.hier = cachedHierarchy

\* A dispatch in progress has a hierarchy to search under, and both the present and
\* what the cache is filled by are moments of its call; what it noted is not of the
\* future; what it found is still an answer if what it noted is still there; what it
\* returned is an answer of one moment of its call.
DispatchSound(g) ==
  /\ Busy(g) => cachedHierarchy # NoHierarchy /\ Now \in op[g].seen /\ Cached \in op[g].seen
  /\ op[g].kind \in {"find", "install"} =>
       /\ op[g].captured.methods.version <= methodTable.version
       /\ op[g].captured.prefs.version <= preferTable.version
       /\ op[g].captured.hier.version <= cachedHierarchy.version
  /\ op[g].kind = "install" /\ Fresh(op[g].captured) =>
       op[g].best \in Answers(Cached, op[g].val)
  /\ op[g].kind = "done" => \E moment \in op[g].seen : op[g].result \in Answers(moment, op[g].val)

IInv ==
  /\ Types
  /\ HierarchyFollowed
  /\ CacheCoherent
  /\ \A g \in G : DispatchSound(g)

-----------------------------------------------------------------------------
(* What the search may find.                                               *)

Traversal(order, n, K) == n \in Nat /\ order \in [1 .. n -> K]

\* The candidate after each round of the loop that meets these keys of K in this order.
Rounds(w, h, p, order, n, K) ==
  /\ w \in [0 .. n -> K \cup {NoMethod, Ambiguous}]
  /\ w[0] = NoMethod
  /\ \A i \in 1 .. n : w[i] = Candidate(h, p, w[i - 1], order[i])

\* The winner is what such a loop ends with; it is always one of the keys, or none, or
\* the panic.
LEMMA WinnerEndsLoop ==
  ASSUME NEW h, NEW p, NEW K, NEW n, NEW order, Traversal(order, n, K)
  PROVE  \E w : Rounds(w, h, p, order, n, K) /\ Winner(h, p, order) = w[n]
<1> USE DEF Traversal
<1> DEFINE Kept == K \cup {NoMethod, Ambiguous}
           S == 1 .. n
           F == [i \in S |-> [b \in Kept |-> Candidate(h, p, b, order[i])]]
           pick == [s \in SUBSET S |-> Max(s)]
           iter == CHOOSE it : it = [s \in SUBSET S |->
                     IF s = {} THEN NoMethod
                     ELSE Candidate(h, p, it[s \ {Max(s)}], order[Max(s)])]
<1>1. Winner(h, p, order) = iter[S]
  <2>1. DOMAIN order = S
    OBVIOUS
  <2> QED
    BY <2>1 DEF Winner, FoldLeft, MapThenFoldSet
<1>2. IsFiniteSet(S)
  BY FS_Interval
<1>3. \A s \in SUBSET S : s # {} => Max(s) \in s /\ order[Max(s)] \in K
  BY LastPosition
<1>4. ASSUME NEW before \in Kept, NEW key \in K
      PROVE  Candidate(h, p, before, key) \in Kept
  BY <1>4 DEF Candidate
<1>5. PICK it : IsFold(it, F, NoMethod, pick, S, Kept)
  <2>1. Foldable(F, NoMethod, pick, S, Kept)
    BY <1>3, <1>4 DEF Foldable
  <2> HIDE DEF F, pick, Kept, S
  <2> QED
    BY <1>2, <2>1, FoldExists
<1>6. it = [s \in SUBSET S |->
              IF s = {} THEN NoMethod
              ELSE Candidate(h, p, it[s \ {Max(s)}], order[Max(s)])]
  <2>1. ASSUME NEW s \in SUBSET S, s # {}
        PROVE  it[s] = Candidate(h, p, it[s \ {Max(s)}], order[Max(s)])
    <3>1. pick[s] = Max(s) /\ Max(s) \in S /\ s \ {Max(s)} \in SUBSET S
      BY <1>3, <2>1
    <3>2. it[s \ {Max(s)}] \in Kept
      BY <1>5, <3>1 DEF IsFold
    <3>3. it[s] = F[Max(s)][it[s \ {Max(s)}]]
      BY <1>5, <2>1, <3>1 DEF IsFold
    <3> QED
      BY <3>1, <3>2, <3>3
  <2>2. it[{}] = NoMethod /\ it \in [SUBSET S -> Kept]
    BY <1>5 DEF IsFold
  <2> QED
    BY <2>1, <2>2
<1>7. iter = [s \in SUBSET S |->
                IF s = {} THEN NoMethod
                ELSE Candidate(h, p, iter[s \ {Max(s)}], order[Max(s)])]
  BY <1>6
<1> HIDE DEF iter
<1>8. \A s \in SUBSET S : iter[s] \in Kept
  <2> DEFINE Bad == {s \in SUBSET S : iter[s] \notin Kept}
  <2> SUFFICES ASSUME Bad # {} PROVE FALSE
    OBVIOUS
  <2>1. PICK s \in Bad : \A x \in s : s \ {x} \notin Bad
    <3> Bad \subseteq SUBSET S
      OBVIOUS
    <3> HIDE DEF Bad
    <3> QED
      BY <1>2, SmallestSubset
  <2>2. s # {}
    BY <1>7, <2>1
  <2>3. Max(s) \in s /\ order[Max(s)] \in K /\ s \ {Max(s)} \in SUBSET S
    BY <1>3, <2>2
  <2>4. iter[s \ {Max(s)}] \in Kept
    BY <2>1, <2>3
  <2>5. iter[s] = Candidate(h, p, iter[s \ {Max(s)}], order[Max(s)])
    BY <1>7, <2>2
  <2> HIDE DEF Kept
  <2> QED
    BY <1>4, <2>1, <2>3, <2>4, <2>5
<1>9. \A i \in 1 .. n : Max(1 .. i) = i /\ (1 .. i) \ {i} = 1 .. i - 1 /\ 1 .. i # {}
  <2> SUFFICES ASSUME NEW i \in 1 .. n
               PROVE  Max(1 .. i) = i /\ (1 .. i) \ {i} = 1 .. i - 1 /\ 1 .. i # {}
    OBVIOUS
  <2>1. i \in 1 .. i /\ 1 .. i \subseteq 1 .. n /\ (1 .. i) \ {i} = 1 .. i - 1
    OBVIOUS
  <2>2. Max(1 .. i) \in 1 .. i /\ Max(1 .. i) >= i
    BY <2>1, LastPosition
  <2> QED
    BY <2>1, <2>2
<1>10. \A i \in 0 .. n : 1 .. i \in SUBSET S
  OBVIOUS
<1>11. iter[{}] = NoMethod /\ 1 .. 0 = {}
  BY <1>7
<1> DEFINE w == [i \in 0 .. n |-> iter[1 .. i]]
<1>12. w \in [0 .. n -> Kept]
  BY <1>8, <1>10
<1>13. Rounds(w, h, p, order, n, K)
  <2>1. ASSUME NEW i \in 1 .. n
        PROVE  w[i] = Candidate(h, p, w[i - 1], order[i])
    <3>1. i \in 0 .. n /\ i - 1 \in 0 .. n
      OBVIOUS
    <3>2. PICK s \in SUBSET S : s = 1 .. i
      BY <1>10, <3>1
    <3>3. s # {} /\ Max(s) = i /\ s \ {i} = 1 .. i - 1
      BY <1>9, <3>2
    <3>4. iter[s] = Candidate(h, p, iter[s \ {i}], order[i])
      BY <1>7, <3>3
    <3> QED
      BY <3>1, <3>2, <3>3, <3>4
  <2>2. w[0] = NoMethod
    BY <1>11
  <2> HIDE DEF w
  <2> QED
    BY <1>12, <2>1, <2>2 DEF Rounds
<1> QED
  BY <1>1, <1>13

\* The loop ends with one of the keys it has met, or none, or the panic.
LEMMA WinnerMet ==
  ASSUME NEW h, NEW p, NEW K, NEW n \in Nat, NEW order \in [1 .. n -> K]
  PROVE  Winner(h, p, order) \in K \cup {NoMethod, Ambiguous}
<1>1. PICK w : Rounds(w, h, p, order, n, K) /\ Winner(h, p, order) = w[n]
  <2>1. Traversal(order, n, K)
    BY DEF Traversal
  <2> QED
    BY <2>1, WinnerEndsLoop
<1> QED
  BY <1>1 DEF Rounds

\* The sequences of a set enumerate it.
LEMMA KeysOrdered ==
  ASSUME NEW K, IsFiniteSet(K), NEW n \in Nat, n = Cardinality(K), NEW order \in SetToSeqs(K)
  PROVE  order \in [1 .. n -> K] /\ \A x : x \in K <=> \E j \in 1 .. n : order[j] = x
<1>1. order \in Injection(1 .. n, K)
  BY DEF SetToSeqs, Injection, IsInjective
<1>2. Cardinality(1 .. n) = n
  BY FS_Interval
<1>3. order \in Surjection(1 .. n, K)
  BY <1>1, <1>2, FS_Injection
<1> QED
  BY <1>3 DEF Surjection

\* A search ends with a method of the table, or none, or the panic.
LEMMA AnswersTyped ==
  ASSUME NEW moment \in Moments, NEW val
  PROVE  Answers(moment, val) \subseteq Results \cup {Ambiguous}
<1> DEFINE h == moment.hier.map
           p == moment.prefs.map
           table == moment.methods.map
<1>1. PICK S \in SUBSET DispatchVals : table \in [S -> Methods]
  BY DEF Moments, Tables
<1> HIDE DEF h, p, table
<1>2. ASSUME NEW order \in SetToSeqs(Matching(h, table, val))
      PROVE  Winner(h, p, order) \in S \cup {NoMethod, Ambiguous}
  <2>1. Matching(h, table, val) \subseteq S
    BY <1>1 DEF Matching
  <2>2. IsFiniteSet(Matching(h, table, val))
    BY <1>1, <2>1, DispatchAssumption, FS_Subset
  <2>3. PICK n \in Nat : n = Cardinality(Matching(h, table, val))
    BY <2>2, FS_CardinalityType
  <2>4. order \in [1 .. n -> S]
    BY <1>2, <2>1, <2>3 DEF SetToSeqs
  <2> QED
    BY <2>4, WinnerMet
<1>3. ASSUME NEW key \in S \cup {NoMethod, Ambiguous}
      PROVE  MethodFor(table, key) \in Results \cup {Ambiguous}
  BY <1>1, <1>3 DEF MethodFor, Results
<1>4. BestMethods(h, p, table, val) \subseteq Results \cup {Ambiguous}
  BY <1>2, <1>3 DEF BestMethods, BestKeys
<1> QED
  BY <1>4 DEF Answers, h, p, table

-----------------------------------------------------------------------------
(* What is common to the steps.                                            *)

LEMMA NowIsMoment ==
  ASSUME Types
  PROVE  Now \in Moments /\ (cachedHierarchy # NoHierarchy => Cached \in Moments)
BY DEF Types, Now, Cached, Snapshot, Moments

\* The kinds of dispatches tell their fields.
LEMMA DispatchFields ==
  ASSUME Types, NEW g \in G
  PROVE  /\ op[g].kind \in {"idle", "capture", "find", "install", "done"}
         /\ op[g].kind = "idle" => op[g] = Idle
         /\ op[g].kind = "capture" => op[g] \in Captures
         /\ op[g].kind = "find" => op[g] \in Finds
         /\ op[g].kind = "install" => op[g] \in Installs
         /\ op[g].kind = "done" => op[g] \in Answered
<1>1. op[g] \in Dispatches
  BY DEF Types
<1> QED
  BY <1>1 DEF Dispatches, Idle, Captures, Finds, Installs, Answered

\* A versioned thing has an integer for its version.
LEMMA VersionsAreNumbers ==
  ASSUME Types
  PROVE  /\ methodTable.version \in Int /\ preferTable.version \in Int
         /\ hierarchy.version \in Int
         /\ cachedHierarchy # NoHierarchy => cachedHierarchy.version \in Int
         /\ \A g \in G : op[g].kind \in {"find", "install"} =>
              /\ op[g].captured.methods.version \in Int
              /\ op[g].captured.prefs.version \in Int
              /\ op[g].captured.hier.version \in Int
<1>1. ASSUME NEW g \in G, op[g].kind \in {"find", "install"}
      PROVE  op[g].captured \in Moments
  BY <1>1, DispatchFields DEF Finds, Installs
<1>2. ASSUME NEW moment \in Moments
      PROVE  /\ moment.methods.version \in Int /\ moment.prefs.version \in Int
             /\ moment.hier.version \in Int
  <2>1. /\ moment.methods \in Tables /\ moment.prefs \in Preferences
        /\ moment.hier \in VersionedHierarchies
    BY DEF Moments
  <2> QED
    BY <2>1 DEF Tables, Preferences, VersionedHierarchies
<1>3. /\ methodTable.version \in Int /\ preferTable.version \in Int
      /\ hierarchy.version \in Int
      /\ cachedHierarchy # NoHierarchy => cachedHierarchy.version \in Int
  BY DEF Types, Tables, Preferences, VersionedHierarchies
<1> QED
  BY <1>1, <1>2, <1>3

\* Both facts of the next state.
LEMMA NextTyped ==
  Types' => Now' \in Moments /\ methodTable'.version \in Int /\ preferTable'.version \in Int
<1>1. Types => Now \in Moments /\ methodTable.version \in Int /\ preferTable.version \in Int
  BY NowIsMoment, VersionsAreNumbers
<1>2. (Types => Now \in Moments /\ methodTable.version \in Int /\ preferTable.version \in Int)'
  BY <1>1, PTL
<1> QED
  BY <1>2

\* The empty map is a table of methods and a cache.
LEMMA EmptyTyped ==
  /\ Empty \in UNION {[S -> Methods] : S \in SUBSET DispatchVals}
  /\ Empty \in UNION {[S -> Results] : S \in SUBSET DispatchVals}
<1>1. Empty \in [{} -> Methods] /\ Empty \in [{} -> Results]
  BY DEF Empty
<1>2. {} \in SUBSET DispatchVals
  OBVIOUS
<1> QED
  BY <1>1, <1>2

\* A dispatch that sees a moment remembers it, and nothing else happens to it.
LEMMA ObserveKeeps ==
  ASSUME Types, NEW g \in G, NEW moment \in Moments
  PROVE  /\ Observe(g, moment) \in Dispatches
         /\ Observe(g, moment).kind = op[g].kind
         /\ Busy(g) => Observe(g, moment).seen = op[g].seen \cup {moment}
         /\ op[g].kind \in {"find", "install"} =>
              Observe(g, moment).captured = op[g].captured
         /\ op[g].kind = "install" =>
              Observe(g, moment).val = op[g].val /\ Observe(g, moment).best = op[g].best
         /\ ~Busy(g) => Observe(g, moment) = op[g]
<1>1. CASE ~Busy(g)
  <2>1. Observe(g, moment) = op[g] /\ op[g] \in Dispatches
    BY <1>1 DEF Observe, Types
  <2> QED
    BY <1>1, <2>1 DEF Busy
<1>2. CASE Busy(g)
  <2>1. Observe(g, moment) = [op[g] EXCEPT !.seen = @ \cup {moment}]
    BY <1>2 DEF Observe
  <2>2. CASE op[g] \in Captures
    BY <1>2, <2>1, <2>2 DEF Captures, Dispatches
  <2>3. CASE op[g] \in Finds
    BY <1>2, <2>1, <2>3 DEF Finds, Dispatches
  <2>4. CASE op[g] \in Installs
    BY <1>2, <2>1, <2>4 DEF Installs, Dispatches
  <2> QED
    BY <1>2, <2>2, <2>3, <2>4, DispatchFields DEF Busy
<1> QED
  BY <1>1, <1>2

\* The tables are those of now: a reset of the cache, or none, disturbs no dispatch.
LEMMA OthersKeep ==
  ASSUME IInv, NEW g \in G, op'[g] = op[g],
         UNCHANGED <<methodTable, preferTable, hierarchy>>,
         cachedHierarchy' = cachedHierarchy \/ cachedHierarchy' = hierarchy
  PROVE  DispatchSound(g)'
<1>1. DispatchSound(g) /\ Types /\ HierarchyFollowed
  BY DEF IInv
<1>2. hierarchy # NoHierarchy
  BY <1>1, MultiFnAssumption DEF Types, VersionedHierarchies
<1>3. Cached' = Cached \/ Cached' = Now
  BY DEF Cached, Now, Snapshot
<1>4. Now' = Now
  BY DEF Now, Snapshot
<1>5. (Busy(g) => cachedHierarchy # NoHierarchy /\ Now \in op[g].seen /\ Cached \in op[g].seen)'
  BY <1>1, <1>2, <1>3, <1>4 DEF DispatchSound, Busy
<1>6. ASSUME op[g].kind \in {"find", "install"}
      PROVE  /\ op[g].captured.methods.version <= methodTable'.version
             /\ op[g].captured.prefs.version <= preferTable'.version
             /\ op[g].captured.hier.version <= cachedHierarchy'.version
  <2>1. cachedHierarchy # NoHierarchy
    BY <1>1, <1>6 DEF DispatchSound, Busy
  <2>2. cachedHierarchy.version <= hierarchy.version
    BY <1>1, <2>1 DEF HierarchyFollowed
  <2> QED
    BY <1>1, <1>6, <2>1, <2>2, VersionsAreNumbers DEF DispatchSound
<1>7. ASSUME op[g].kind = "install", Fresh(op[g].captured)'
      PROVE  op[g].best \in Answers(Cached', op[g].val)
  <2>1. /\ cachedHierarchy # NoHierarchy
        /\ op[g].captured.hier.version <= cachedHierarchy.version
    BY <1>1, <1>7 DEF DispatchSound, Busy
  <2>2. op[g].captured.hier = cachedHierarchy'
    BY <1>7 DEF Fresh
  <2>3. cachedHierarchy' = cachedHierarchy
    BY <1>1, <2>1, <2>2, VersionsAreNumbers DEF HierarchyFollowed
  <2>4. Fresh(op[g].captured) /\ Cached' = Cached
    BY <1>7, <2>3 DEF Fresh, Cached, Snapshot
  <2> QED
    BY <1>1, <1>7, <2>4 DEF DispatchSound
<1> QED
  BY <1>1, <1>5, <1>6, <1>7 DEF DispatchSound

\* A method or a preference is added: what is being installed is not fresh any more.
LEMMA ChangeSound ==
  ASSUME IInv, Types', ResetCache, hierarchy' = hierarchy, op' = Observed(Now'),
         methodTable.version <= methodTable'.version,
         preferTable.version <= preferTable'.version,
         \/ methodTable.version # methodTable'.version
         \/ preferTable.version # preferTable'.version
  PROVE  HierarchyFollowed' /\ CacheCoherent' /\ \A g \in G : DispatchSound(g)'
<1>1. Types /\ HierarchyFollowed /\ \A g \in G : DispatchSound(g)
  BY DEF IInv
<1>2. cachedHierarchy' = hierarchy /\ hierarchy' = hierarchy /\ Cached' = Now'
  BY DEF ResetCache, Cached, Now, Snapshot
<1>3. HierarchyFollowed'
  BY <1>1, <1>2, VersionsAreNumbers DEF HierarchyFollowed
<1>4. CacheCoherent'
  BY DEF CacheCoherent, ResetCache, Empty
<1>5. hierarchy # NoHierarchy
  BY <1>1, MultiFnAssumption DEF Types, VersionedHierarchies
<1>6. Now' \in Moments
  BY NextTyped
<1>7. ASSUME NEW g \in G PROVE DispatchSound(g)'
  <2>1. op'[g] = Observe(g, Now')
    BY DEF Observed
  <2>2. /\ op'[g].kind = op[g].kind
        /\ Busy(g) => op'[g].seen = op[g].seen \cup {Now'}
        /\ op[g].kind \in {"find", "install"} => op'[g].captured = op[g].captured
        /\ ~Busy(g) => op'[g] = op[g]
    BY <1>1, <1>6, <2>1, ObserveKeeps
  <2>3. (Busy(g) => cachedHierarchy # NoHierarchy /\ Now \in op[g].seen /\ Cached \in op[g].seen)'
    BY <1>2, <1>5, <2>2 DEF Busy
  <2>4. ASSUME op[g].kind \in {"find", "install"}
        PROVE  /\ op[g].captured.methods.version <= methodTable'.version
               /\ op[g].captured.prefs.version <= preferTable'.version
               /\ op[g].captured.hier.version <= cachedHierarchy'.version
               /\ ~(/\ op[g].captured.methods.version = methodTable'.version
                    /\ op[g].captured.prefs.version = preferTable'.version)
    <3>1. /\ cachedHierarchy # NoHierarchy
          /\ op[g].captured.methods.version <= methodTable.version
          /\ op[g].captured.prefs.version <= preferTable.version
          /\ op[g].captured.hier.version <= cachedHierarchy.version
      BY <1>1, <2>4 DEF DispatchSound, Busy
    <3>2. cachedHierarchy.version <= hierarchy.version
      BY <1>1, <3>1 DEF HierarchyFollowed
    <3>3. methodTable'.version \in Int /\ preferTable'.version \in Int
      BY NextTyped
    <3>4. /\ methodTable.version \in Int /\ preferTable.version \in Int
          /\ hierarchy.version \in Int /\ cachedHierarchy.version \in Int
          /\ op[g].captured.methods.version \in Int
          /\ op[g].captured.prefs.version \in Int
          /\ op[g].captured.hier.version \in Int
      BY <1>1, <2>4, <3>1, VersionsAreNumbers
    <3> QED
      BY <1>2, <3>1, <3>2, <3>3, <3>4
  <2>5. op'[g].kind = "install" => ~ Fresh(op[g].captured)'
    BY <2>2, <2>4 DEF Fresh
  <2>6. op'[g].kind = "done" =>
          \E moment \in op'[g].seen : op'[g].result \in Answers(moment, op'[g].val)
    BY <1>1, <2>2 DEF DispatchSound, Busy
  <2>7. op'[g].kind \in {"find", "install"} =>
          /\ op'[g].captured.methods.version <= methodTable'.version
          /\ op'[g].captured.prefs.version <= preferTable'.version
          /\ op'[g].captured.hier.version <= cachedHierarchy'.version
    BY <2>2, <2>4
  <2> QED
    BY <2>3, <2>5, <2>6, <2>7 DEF DispatchSound
<1> QED
  BY <1>3, <1>4, <1>7

\* The observed dispatches are dispatches.
LEMMA ObservedTyped ==
  ASSUME Types, NEW moment \in Moments
  PROVE  Observed(moment) \in [G -> Dispatches]
BY ObserveKeeps DEF Observed

-----------------------------------------------------------------------------
(* The initial states and the steps.                                       *)

LEMMA InitInvariant == Init => IInv
<1> SUFFICES ASSUME Init PROVE IInv
  OBVIOUS
<1> USE DEF Init
<1>1. Types
  <2>1. methodTable \in Tables /\ preferTable \in Preferences
    BY MultiFnAssumption, EmptyTyped DEF Tables, Preferences
  <2>2. hierarchy \in VersionedHierarchies /\ hierarchy.version = 0
    BY MultiFnAssumption DEF VersionedHierarchies
  <2>3. methodCache \in UNION {[S -> Results] : S \in SUBSET DispatchVals}
    BY EmptyTyped
  <2>4. Changes <= MaxChanges
    BY <2>2, MultiFnAssumption DEF Changes
  <2>5. op \in [G -> Dispatches]
    BY DEF Dispatches
  <2> QED
    BY <2>1, <2>2, <2>3, <2>4, <2>5 DEF Types
<1>2. HierarchyFollowed /\ CacheCoherent
  BY DEF HierarchyFollowed, CacheCoherent, Empty
<1>3. \A g \in G : DispatchSound(g)
  BY DEF DispatchSound, Busy, Idle
<1> QED
  BY <1>1, <1>2, <1>3 DEF IInv

LEMMA AddMethodInvariant ==
  ASSUME IInv, Changes < MaxChanges, NEW val \in DispatchVals, NEW method \in Methods,
         AddMethod(val, method)
  PROVE  IInv'
<1> USE DEF AddMethod
<1>1. Types
  BY DEF IInv
<1>2. /\ methodTable' = [version |-> methodTable.version + 1,
                         map |-> With(methodTable.map, val, method)]
      /\ preferTable' = preferTable /\ hierarchy' = hierarchy /\ ResetCache
      /\ op' = Observed(Now')
  BY DEF Replace, Now
<1>3. Changes' = Changes + 1 /\ Changes \in Int /\ methodTable.version \in Nat
      /\ methodTable.version + 1 <= Changes'
  BY <1>1, <1>2, MultiFnAssumption
     DEF Changes, Types, Tables, Preferences, VersionedHierarchies
<1>4. methodTable' \in Tables
  <2>1. PICK S \in SUBSET DispatchVals : methodTable.map \in [S -> Methods]
    BY <1>1 DEF Types, Tables
  <2>2. With(methodTable.map, val, method) \in [S \cup {val} -> Methods]
    BY <2>1 DEF With
  <2>3. methodTable.version + 1 \in 0 .. MaxChanges
    BY <1>3, MultiFnAssumption
  <2> QED
    BY <1>2, <2>2, <2>3 DEF Tables
<1>5. Types'
  <2>1. Now' \in Moments
    BY <1>1, <1>2, <1>4 DEF Types, Now, Snapshot, Moments
  <2>2. op' \in [G -> Dispatches]
    BY <1>1, <1>2, <2>1, ObservedTyped
  <2>3. methodCache' \in UNION {[S -> Results] : S \in SUBSET DispatchVals}
    BY <1>2, EmptyTyped DEF ResetCache
  <2>4. Changes' <= MaxChanges
    BY <1>3, MultiFnAssumption
  <2> QED
    BY <1>1, <1>2, <1>4, <2>2, <2>3, <2>4 DEF Types, ResetCache
<1>6. HierarchyFollowed' /\ CacheCoherent' /\ \A g \in G : DispatchSound(g)'
  <2>1. /\ methodTable.version <= methodTable'.version
        /\ methodTable.version # methodTable'.version
        /\ preferTable.version <= preferTable'.version
    BY <1>1, <1>2, <1>3, VersionsAreNumbers
  <2> QED
    BY <1>2, <1>5, <2>1, ChangeSound
<1> QED
  BY <1>5, <1>6 DEF IInv

LEMMA PreferMethodInvariant ==
  ASSUME IInv, Changes < MaxChanges, NEW x \in Keys, NEW y \in Keys, PreferMethod(x, y)
  PROVE  IInv'
<1> USE DEF PreferMethod
<1>1. Types
  BY DEF IInv
<1>2. /\ preferTable' = [version |-> preferTable.version + 1,
                         map |-> preferTable.map \cup {<<x, y>>}]
      /\ methodTable' = methodTable /\ hierarchy' = hierarchy /\ ResetCache
      /\ op' = Observed(Now')
  BY DEF Replace, Now
<1>3. Changes' = Changes + 1 /\ Changes \in Int /\ preferTable.version \in Nat
      /\ preferTable.version + 1 <= Changes'
  BY <1>1, <1>2, MultiFnAssumption
     DEF Changes, Types, Tables, Preferences, VersionedHierarchies
<1>4. preferTable' \in Preferences
  <2> DEFINE pairs == DispatchVals \X DispatchVals
             preferred == preferTable.map \cup {<<x, y>>}
  <2>1. preferred \in SUBSET pairs
    BY <1>1, MultiFnAssumption DEF Types, Preferences
  <2>2. preferTable.version + 1 \in 0 .. MaxChanges
    BY <1>3, MultiFnAssumption
  <2>3. preferTable' = [version |-> preferTable.version + 1, map |-> preferred]
    BY <1>2
  <2>4. Preferences = [version : 0 .. MaxChanges, map : SUBSET pairs]
    BY DEF Preferences
  <2> HIDE DEF pairs, preferred, PreferMethod
  <2> QED
    BY <2>1, <2>2, <2>3, <2>4
<1>5. Types'
  <2>1. Now' \in Moments
    BY <1>1, <1>2, <1>4 DEF Types, Now, Snapshot, Moments
  <2>2. op' \in [G -> Dispatches]
    BY <1>1, <1>2, <2>1, ObservedTyped
  <2>3. methodCache' \in UNION {[S -> Results] : S \in SUBSET DispatchVals}
    BY <1>2, EmptyTyped DEF ResetCache
  <2>4. Changes' <= MaxChanges
    BY <1>3, MultiFnAssumption
  <2> QED
    BY <1>1, <1>2, <1>4, <2>2, <2>3, <2>4 DEF Types, ResetCache
<1>6. HierarchyFollowed' /\ CacheCoherent' /\ \A g \in G : DispatchSound(g)'
  <2>1. /\ preferTable.version <= preferTable'.version
        /\ preferTable.version # preferTable'.version
        /\ methodTable.version <= methodTable'.version
    BY <1>1, <1>2, <1>3, VersionsAreNumbers
  <2> QED
    BY <1>2, <1>5, <2>1, ChangeSound
<1> QED
  BY <1>5, <1>6 DEF IInv

LEMMA SetHierarchyInvariant ==
  ASSUME IInv, Changes < MaxChanges, NEW contents \in Hierarchies, SetHierarchy(contents)
  PROVE  IInv'
<1> USE DEF SetHierarchy
<1>1. Types /\ HierarchyFollowed /\ CacheCoherent /\ \A g \in G : DispatchSound(g)
  BY DEF IInv
<1>2. /\ hierarchy' = [version |-> hierarchy.version + 1, map |-> contents]
      /\ methodTable' = methodTable /\ preferTable' = preferTable
      /\ cachedHierarchy' = cachedHierarchy /\ methodCache' = methodCache
      /\ op' = Observed(Now')
  BY DEF Replace, Now
<1>3. Changes' = Changes + 1 /\ Changes \in Int /\ hierarchy.version \in Nat
      /\ hierarchy.version + 1 <= Changes'
  BY <1>1, <1>2, MultiFnAssumption
     DEF Changes, Types, Tables, Preferences, VersionedHierarchies
<1>4. hierarchy' \in VersionedHierarchies
  <2>1. hierarchy.version + 1 \in 0 .. MaxChanges
    BY <1>3, MultiFnAssumption
  <2> QED
    BY <1>2, <2>1 DEF VersionedHierarchies
<1>5. Types'
  <2>1. Now' \in Moments
    BY <1>1, <1>2, <1>4 DEF Types, Now, Snapshot, Moments
  <2>2. op' \in [G -> Dispatches]
    BY <1>1, <1>2, <2>1, ObservedTyped
  <2>3. Changes' <= MaxChanges
    BY <1>3, MultiFnAssumption
  <2> QED
    BY <1>1, <1>2, <1>4, <2>2, <2>3 DEF Types
<1>6. HierarchyFollowed'
  BY <1>1, <1>2, <1>3, VersionsAreNumbers DEF HierarchyFollowed
<1>7. CacheCoherent'
  BY <1>1, <1>2 DEF CacheCoherent, Snapshot
<1>8. ASSUME NEW g \in G PROVE DispatchSound(g)'
  <2>1. op'[g] = Observe(g, Now') /\ Now' \in Moments
    BY <1>2, <1>5, NextTyped DEF Observed
  <2>2. /\ op'[g].kind = op[g].kind
        /\ Busy(g) => op'[g].seen = op[g].seen \cup {Now'}
        /\ op[g].kind \in {"find", "install"} => op'[g].captured = op[g].captured
        /\ op[g].kind = "install" => op'[g].val = op[g].val /\ op'[g].best = op[g].best
        /\ ~Busy(g) => op'[g] = op[g]
    BY <1>1, <2>1, ObserveKeeps
  <2>3. Cached' = Cached
    BY <1>2 DEF Cached, Snapshot
  <2>4. DispatchSound(g)
    BY <1>1
  <2>5. (Busy(g) => cachedHierarchy # NoHierarchy /\ Now \in op[g].seen /\ Cached \in op[g].seen)'
    BY <1>2, <2>2, <2>3, <2>4 DEF DispatchSound, Busy
  <2>6. op'[g].kind \in {"find", "install"} =>
          /\ op'[g].captured.methods.version <= methodTable'.version
          /\ op'[g].captured.prefs.version <= preferTable'.version
          /\ op'[g].captured.hier.version <= cachedHierarchy'.version
    BY <1>2, <2>2, <2>4 DEF DispatchSound
  <2>7. (op[g].kind = "install" /\ Fresh(op[g].captured) =>
           op[g].best \in Answers(Cached, op[g].val))'
    BY <1>2, <2>2, <2>3, <2>4 DEF DispatchSound, Fresh
  <2>8. (op[g].kind = "done" =>
           \E moment \in op[g].seen : op[g].result \in Answers(moment, op[g].val))'
    BY <2>2, <2>4 DEF DispatchSound, Busy
  <2> QED
    BY <2>5, <2>6, <2>7, <2>8 DEF DispatchSound
<1> QED
  BY <1>5, <1>6, <1>7, <1>8 DEF IInv

\* A reset of the cache, or none, while the tables stay.
LEMMA CacheAfterReset ==
  ASSUME IInv, UNCHANGED <<methodTable, preferTable, hierarchy>>,
         ResetCache \/ UNCHANGED <<methodCache, cachedHierarchy>>
  PROVE  /\ op' \in [G -> Dispatches] => Types'
         /\ HierarchyFollowed' /\ CacheCoherent'
         /\ \A g \in G : op'[g] = op[g] => DispatchSound(g)'
<1>1. Types /\ HierarchyFollowed /\ CacheCoherent
  BY DEF IInv
<1>2. cachedHierarchy' = cachedHierarchy \/ cachedHierarchy' = hierarchy
  BY DEF ResetCache
<1>3. op' \in [G -> Dispatches] => Types'
  <2>1. methodCache' \in UNION {[S -> Results] : S \in SUBSET DispatchVals}
    BY <1>1, EmptyTyped DEF Types, ResetCache
  <2>2. cachedHierarchy' \in VersionedHierarchies \cup {NoHierarchy}
    BY <1>1, <1>2 DEF Types
  <2> QED
    BY <1>1, <2>1, <2>2 DEF Types, Changes
<1>4. HierarchyFollowed'
  BY <1>1, <1>2, VersionsAreNumbers DEF HierarchyFollowed
<1>5. CacheCoherent'
  BY <1>1 DEF CacheCoherent, ResetCache, Empty
<1>6. \A g \in G : op'[g] = op[g] => DispatchSound(g)'
  BY <1>2, OthersKeep
<1> QED
  BY <1>3, <1>4, <1>5, <1>6

LEMMA GetMethodInvariant ==
  ASSUME IInv, NEW g \in G, NEW val \in Dispatched, GetMethod(g, val)
  PROVE  IInv'
<1> DEFINE hit == val \in DOMAIN methodCache' /\ methodCache'[val] # NoMethod
           answer == Answer(val, methodCache'[val], {Now})
           miss == [kind |-> "capture", val |-> val, seen |-> {Now}]
<1>1. Types /\ CacheCoherent
  BY DEF IInv
<1>2. /\ op' = [op EXCEPT ![g] = IF hit THEN answer ELSE miss]
      /\ UNCHANGED <<methodTable, preferTable, hierarchy>>
      /\ ResetCache \/ UNCHANGED <<methodCache, cachedHierarchy>>
      /\ cachedHierarchy' = hierarchy
  BY DEF GetMethod, ResetCache
<1>3. HierarchyFollowed' /\ CacheCoherent' /\ \A h \in G : op'[h] = op[h] => DispatchSound(h)'
  BY <1>2, CacheAfterReset
<1>4. op'[g] = IF hit THEN answer ELSE miss
  BY <1>1, <1>2 DEF Types
<1>5. Now \in Moments /\ Now' = Now /\ Cached' = Now /\ hierarchy # NoHierarchy
  <2>1. hierarchy # NoHierarchy
    BY <1>1, MultiFnAssumption DEF Types, VersionedHierarchies
  <2> QED
    BY <1>1, <1>2, <2>1, NowIsMoment DEF Now, Cached, Snapshot
<1>6. op'[g] \in Dispatches
  <2>1. CASE hit
    <3>1. methodCache' \in UNION {[S -> Results] : S \in SUBSET DispatchVals}
      BY <1>1, <1>2, EmptyTyped DEF Types, ResetCache
    <3>2. methodCache'[val] \in Results
      BY <2>1, <3>1
    <3> QED
      BY <1>4, <1>5, <2>1, <3>2 DEF Answer, Answered, Dispatches
  <2>2. CASE ~hit
    BY <1>4, <1>5, <2>2 DEF Captures, Dispatches
  <2> QED
    BY <2>1, <2>2
<1>7. Types'
  <2>1. op' \in [G -> Dispatches]
    BY <1>1, <1>2, <1>6 DEF Types
  <2> QED
    BY <1>2, <2>1, CacheAfterReset
<1>8. DispatchSound(g)'
  <2>1. CASE hit
    <3>1. methodCache'[val] \in Answers(Cached', val)
      BY <1>3, <2>1 DEF CacheCoherent, Cached
    <3>2. op'[g] = [kind |-> "done", val |-> val, result |-> methodCache'[val], seen |-> {Now}]
      BY <1>4, <2>1 DEF Answer
    <3> QED
      BY <1>5, <3>1, <3>2 DEF DispatchSound, Busy
  <2>2. CASE ~hit
    <3>1. op'[g] = miss
      BY <1>4, <2>2
    <3> QED
      BY <1>2, <1>5, <3>1 DEF DispatchSound, Busy
  <2> QED
    BY <2>1, <2>2
<1>9. \A h \in G : DispatchSound(h)'
  BY <1>1, <1>2, <1>3, <1>8 DEF Types
<1> QED
  BY <1>3, <1>7, <1>9 DEF IInv

\* A step of one dispatch that leaves tables and caches alone.
LEMMA StepOfOne ==
  ASSUME IInv, NEW g \in G, NEW after \in Dispatches, op' = [op EXCEPT ![g] = after],
         UNCHANGED <<methodTable, preferTable, hierarchy, cachedHierarchy, methodCache>>,
         DispatchSound(g)'
  PROVE  IInv'
<1>1. Types
  BY DEF IInv
<1>2. HierarchyFollowed' /\ CacheCoherent' /\ \A h \in G : op'[h] = op[h] => DispatchSound(h)'
  BY CacheAfterReset
<1>3. op' \in [G -> Dispatches]
  BY <1>1 DEF Types
<1>4. Types'
  BY <1>3, CacheAfterReset
<1>5. \A h \in G : DispatchSound(h)'
  BY <1>1, <1>2 DEF Types
<1> QED
  BY <1>2, <1>4, <1>5 DEF IInv

LEMMA CaptureInvariant ==
  ASSUME IInv, NEW g \in G, Capture(g)
  PROVE  IInv'
<1> DEFINE after == [kind |-> "find", val |-> op[g].val, seen |-> op[g].seen, captured |-> Cached]
<1>1. Types /\ DispatchSound(g)
  BY DEF IInv
<1>2. /\ op' = [op EXCEPT ![g] = after] /\ op[g].kind = "capture"
      /\ UNCHANGED <<methodTable, preferTable, hierarchy, cachedHierarchy, methodCache>>
  BY DEF Capture, Cached
<1>3. op[g] \in Captures /\ Cached \in Moments /\ cachedHierarchy # NoHierarchy
  BY <1>1, <1>2, DispatchFields, NowIsMoment DEF DispatchSound, Busy
<1>4. after \in Dispatches
  BY <1>3 DEF Captures, Finds, Dispatches
<1>5. op'[g] = after
  BY <1>1, <1>2 DEF Types
<1>6. DispatchSound(g)'
  <2>1. Now' = Now /\ Cached' = Cached
    BY <1>2 DEF Now, Cached, Snapshot
  <2>2. Now \in op[g].seen /\ Cached \in op[g].seen
    BY <1>1, <1>2 DEF DispatchSound, Busy
  <2>3. /\ Cached.methods.version <= methodTable'.version
        /\ Cached.prefs.version <= preferTable'.version
        /\ Cached.hier.version <= cachedHierarchy'.version
    BY <1>1, <1>2, <1>3, VersionsAreNumbers DEF Cached, Snapshot
  <2> QED
    BY <1>2, <1>3, <1>5, <2>1, <2>2, <2>3 DEF DispatchSound, Busy
<1> HIDE DEF after
<1> QED
  BY <1>2, <1>4, <1>6, StepOfOne

LEMMA FindBestInvariant ==
  ASSUME IInv, NEW g \in G, FindBest(g)
  PROVE  IInv'
<1>1. Types /\ DispatchSound(g)
  BY DEF IInv
<1>2. PICK found \in Answers(Cached, op[g].val) :
        op' = [op EXCEPT ![g] =
                 IF found = Ambiguous THEN Answer(op[g].val, found, op[g].seen)
                 ELSE [kind |-> "install", val |-> op[g].val, seen |-> op[g].seen,
                       captured |-> op[g].captured, best |-> found]]
  BY DEF FindBest, Cached
<1>3. /\ op[g].kind = "find"
      /\ UNCHANGED <<methodTable, preferTable, hierarchy, cachedHierarchy, methodCache>>
  BY DEF FindBest
<1>4. op[g] \in Finds /\ Cached \in Moments /\ cachedHierarchy # NoHierarchy
  BY <1>1, <1>3, DispatchFields, NowIsMoment DEF DispatchSound, Busy
<1>5. found \in Results \cup {Ambiguous}
  BY <1>4, AnswersTyped
<1>6. Now' = Now /\ Cached' = Cached /\ Now \in op[g].seen /\ Cached \in op[g].seen
  BY <1>1, <1>3 DEF Now, Cached, Snapshot, DispatchSound, Busy
<1>7. CASE found = Ambiguous
  <2> DEFINE after == [kind |-> "done", val |-> op[g].val, result |-> found, seen |-> op[g].seen]
  <2>1. op' = [op EXCEPT ![g] = after]
    BY <1>2, <1>7 DEF Answer
  <2>2. op'[g] = after
    BY <1>1, <2>1 DEF Types
  <2>3. after \in Dispatches
    BY <1>4, <1>5 DEF Finds, Answered, Dispatches
  <2>4. DispatchSound(g)'
    BY <1>2, <1>6, <2>2 DEF DispatchSound, Busy
  <2> HIDE DEF after
  <2> QED
    BY <1>3, <2>1, <2>3, <2>4, StepOfOne
<1>8. CASE found # Ambiguous
  <2> DEFINE after == [kind |-> "install", val |-> op[g].val, seen |-> op[g].seen,
                       captured |-> op[g].captured, best |-> found]
  <2>1. op' = [op EXCEPT ![g] = after]
    BY <1>2, <1>8
  <2>2. op'[g] = after
    BY <1>1, <2>1 DEF Types
  <2>3. after \in Dispatches
    BY <1>4, <1>5, <1>8 DEF Finds, Installs, Dispatches
  <2>4. /\ op[g].captured.methods.version <= methodTable'.version
        /\ op[g].captured.prefs.version <= preferTable'.version
        /\ op[g].captured.hier.version <= cachedHierarchy'.version
    BY <1>1, <1>3 DEF DispatchSound
  <2>5. DispatchSound(g)'
    BY <1>2, <1>3, <1>4, <1>6, <2>2, <2>4 DEF DispatchSound, Busy
  <2> HIDE DEF after
  <2> QED
    BY <1>3, <2>1, <2>3, <2>5, StepOfOne
<1> QED
  BY <1>7, <1>8

LEMMA InstallInvariant ==
  ASSUME IInv, NEW g \in G, Install(g)
  PROVE  IInv'
<1> DEFINE after == [kind |-> "done", val |-> op[g].val, result |-> op[g].best, seen |-> op[g].seen]
<1>1. Types /\ HierarchyFollowed /\ CacheCoherent /\ \A h \in G : DispatchSound(h)
  BY DEF IInv
<1>2. /\ op' = [op EXCEPT ![g] = after] /\ op[g].kind = "install" /\ Fresh(op[g].captured)
      /\ methodCache' = With(methodCache, op[g].val, op[g].best)
      /\ UNCHANGED <<methodTable, preferTable, hierarchy, cachedHierarchy>>
  BY DEF Install, Unchanged, Fresh, Answer
<1>3. op[g] \in Installs
  BY <1>1, <1>2, DispatchFields
<1>4. op'[g] = after /\ \A h \in G : h # g => op'[h] = op[h]
  BY <1>1, <1>2 DEF Types
<1>5. op[g].best \in Answers(Cached, op[g].val) /\ Cached \in op[g].seen
  BY <1>1, <1>2 DEF DispatchSound, Busy
<1>6. Now' = Now /\ Cached' = Cached
  BY <1>2 DEF Now, Cached, Snapshot
<1>7. Types'
  <2>1. after \in Dispatches
    BY <1>3 DEF Installs, Answered, Dispatches
  <2>2. op' \in [G -> Dispatches]
    BY <1>1, <1>2, <2>1 DEF Types
  <2>3. PICK S \in SUBSET DispatchVals : methodCache \in [S -> Results]
    BY <1>1 DEF Types
  <2>4. op[g].val \in DispatchVals /\ op[g].best \in Results
    BY <1>3, MultiFnAssumption DEF Installs
  <2>5. methodCache' \in [S \cup {op[g].val} -> Results]
    BY <1>2, <2>3, <2>4 DEF With
  <2>6. S \cup {op[g].val} \in SUBSET DispatchVals
    BY <2>4
  <2> HIDE DEF after
  <2> QED
    BY <1>1, <1>2, <2>2, <2>5, <2>6 DEF Types, Changes
<1>8. HierarchyFollowed'
  BY <1>1, <1>2 DEF HierarchyFollowed
<1>9. CacheCoherent'
  <2> SUFFICES ASSUME NEW val \in DOMAIN methodCache'
               PROVE  methodCache'[val] \in Answers(Cached', val)
    BY DEF CacheCoherent, Cached
  <2>1. CASE val = op[g].val
    BY <1>2, <1>5, <1>6, <2>1 DEF With
  <2>2. CASE val # op[g].val
    <3>1. val \in DOMAIN methodCache /\ methodCache'[val] = methodCache[val]
      BY <1>2, <2>2 DEF With
    <3> QED
      BY <1>1, <1>6, <3>1 DEF CacheCoherent, Cached
  <2> QED
    BY <2>1, <2>2
<1>10. DispatchSound(g)'
  BY <1>4, <1>5 DEF DispatchSound, Busy
<1>11. \A h \in G : h # g => DispatchSound(h)'
  BY <1>2, <1>4, OthersKeep
<1> QED
  BY <1>7, <1>8, <1>9, <1>10, <1>11 DEF IInv

LEMMA RetryInvariant ==
  ASSUME IInv, NEW g \in G, Retry(g)
  PROVE  IInv'
<1> DEFINE after == [kind |-> "capture", val |-> op[g].val, seen |-> op[g].seen]
<1>1. Types /\ DispatchSound(g)
  BY DEF IInv
<1>2. /\ op' = [op EXCEPT ![g] = after] /\ op[g].kind = "install"
      /\ UNCHANGED <<methodTable, preferTable, hierarchy>> /\ ResetCache
      /\ cachedHierarchy' = hierarchy
  BY DEF Retry, ResetCache
<1>3. op[g] \in Installs
  BY <1>1, <1>2, DispatchFields
<1>4. after \in Dispatches
  BY <1>3 DEF Installs, Captures, Dispatches
<1>5. op'[g] = after /\ op' \in [G -> Dispatches]
  BY <1>1, <1>2, <1>4 DEF Types
<1>6. HierarchyFollowed' /\ CacheCoherent' /\ \A h \in G : op'[h] = op[h] => DispatchSound(h)'
  BY <1>2, CacheAfterReset
<1>7. Types'
  BY <1>2, <1>5, CacheAfterReset
<1>8. DispatchSound(g)'
  <2>1. Now' = Now /\ Cached' = Now /\ hierarchy # NoHierarchy
    BY <1>1, <1>2, MultiFnAssumption
       DEF Types, VersionedHierarchies, Now, Cached, Snapshot
  <2>2. Now \in op[g].seen
    BY <1>1, <1>2 DEF DispatchSound, Busy
  <2> QED
    BY <1>2, <1>5, <2>1, <2>2 DEF DispatchSound, Busy
<1>9. \A h \in G : DispatchSound(h)'
  BY <1>1, <1>2, <1>6, <1>8 DEF Types
<1> QED
  BY <1>6, <1>7, <1>9 DEF IInv

-----------------------------------------------------------------------------
(* The theorems.                                                           *)

\* The inductive invariant holds in every reachable state.
THEOREM Invariance == Spec => []IInv
<1>1. Init => IInv
  BY InitInvariant
<1>2. IInv /\ [Next]_vars => IInv'
  <2> SUFFICES ASSUME IInv, [Next]_vars PROVE IInv'
    OBVIOUS
  <2>1. CASE /\ Changes < MaxChanges
             /\ \E add \in Additions : AddMethod(add[1], add[2])
    <3>1. PICK add \in Additions : AddMethod(add[1], add[2])
      BY <2>1
    <3>2. add[1] \in DispatchVals /\ add[2] \in Methods
      BY MultiFnAssumption
    <3> QED
      BY <2>1, <3>1, <3>2, AddMethodInvariant
  <2>2. CASE /\ Changes < MaxChanges
             /\ \E x, y \in Keys : x # y /\ PreferMethod(x, y)
    BY <2>2, PreferMethodInvariant
  <2>3. CASE /\ Changes < MaxChanges
             /\ \E contents \in Hierarchies : SetHierarchy(contents)
    BY <2>3, SetHierarchyInvariant
  <2>4. CASE \E g \in G, val \in Dispatched : GetMethod(g, val)
    BY <2>4, GetMethodInvariant
  <2>5. CASE \E g \in G : Continue(g)
    BY <2>5, CaptureInvariant, FindBestInvariant, InstallInvariant, RetryInvariant
       DEF Continue
  <2>6. CASE UNCHANGED vars
    <3>1. Types /\ HierarchyFollowed /\ CacheCoherent
      BY DEF IInv
    <3>2. HierarchyFollowed' /\ CacheCoherent' /\ \A g \in G : DispatchSound(g)'
      BY <2>6, CacheAfterReset DEF vars
    <3>3. Types'
      BY <2>6, <3>1 DEF vars, Types, Changes
    <3> QED
      BY <3>2, <3>3 DEF IInv
  <2> QED
    BY <2>1, <2>2, <2>3, <2>4, <2>5, <2>6 DEF Next
<1> QED
  BY <1>1, <1>2, PTL DEF Spec

\* Every variable has its type; in particular a search finds methods only, so that the
\* cache never holds anything else, nor the ambiguity that makes a dispatch panic.
THEOREM TypeCorrect == Spec => []TypeOK
<1>1. IInv => TypeOK
  <2> SUFFICES ASSUME IInv PROVE TypeOK
    OBVIOUS
  <2>1. Types
    BY DEF IInv
  <2>2. /\ DOMAIN methodCache \subseteq DispatchVals
        /\ \A val \in DOMAIN methodCache : methodCache[val] \in Methods \cup {NoMethod}
    BY <2>1 DEF Types, Results
  <2> QED
    BY <2>1, <2>2, DispatchFields DEF TypeOK, Types
<1> QED
  BY <1>1, Invariance, PTL

\* Every entry of the cache is an answer for the methods and preferences of now and the
\* hierarchy the cache was filled under, whatever changed while searches were running.
THEOREM CacheIsCoherent == Spec => []CacheCoherent
<1>1. IInv => CacheCoherent
  BY DEF IInv
<1> QED
  BY <1>1, Invariance, PTL

\* A dispatch answers, or panics, by the tables and the hierarchy of one moment between
\* its call and its return.
THEOREM DispatchIsLinearizable == Spec => []DispatchLinearizable
<1>1. IInv => DispatchLinearizable
  BY DEF IInv, DispatchSound, DispatchLinearizable
<1> QED
  BY <1>1, Invariance, PTL


-----------------------------------------------------------------------------
(* The hierarchy: the lineage of x is the smallest set that holds x and,   *)
(* with every dispatch value, its parents.                                 *)

Hierarchical(h) == h \in [DispatchVals -> SUBSET DispatchVals]
UpwardClosed(h, C) == \A y \in C : h[y] \subseteq C
Raised(h, S) == UNION {{y} \cup h[y] : y \in S}

\* The steps of the climb from x.
Climb(h, x, up) ==
  /\ up \in [Nat -> SUBSET DispatchVals] /\ up[0] = {x}
  /\ \A n \in Nat : n # 0 => up[n] = Raised(h, up[n - 1])

LEMMA LineageIsClimb ==
  ASSUME NEW h, Hierarchical(h), NEW x \in DispatchVals
  PROVE  \E up : Climb(h, x, up) /\ Lineage(h, x) = up[Cardinality(DispatchVals)]
<1> DEFINE K == SUBSET DispatchVals
           F == [S \in K |-> Raised(h, S)]
           Step(up, n) == IF n = 0 THEN {x} ELSE UNION {{y} \cup h[y] : y \in up[n - 1]}
           up == CHOOSE up : up = [n \in Nat |-> Step(up, n)]
<1>1. F \in [K -> K] /\ {x} \in K
  BY DEF Hierarchical, Raised
<1>2. PICK f \in [Nat -> K] : IsIteration(f, {x}, F)
  <2> HIDE DEF F, K
  <2> QED
    BY <1>1, IterationExists
<1>3. ASSUME NEW n \in Nat
      PROVE  f[n] = Step(f, n)
  <2>1. f[n] = IF n = 0 THEN {x} ELSE F[f[n - 1]]
    <3> HIDE DEF F, K
    <3>1. f = [i \in Nat |-> IF i = 0 THEN {x} ELSE F[f[i - 1]]]
      BY <1>2 DEF IsIteration
    <3> QED
      BY <3>1
  <2>2. CASE n = 0
    BY <2>1, <2>2
  <2>3. CASE n # 0
    <3>1. f[n - 1] \in K
      BY <1>2, <2>3
    <3>2. F[f[n - 1]] = Raised(h, f[n - 1])
      BY <3>1
    <3> QED
      BY <2>1, <2>3, <3>2 DEF Raised
  <2> QED
    BY <2>2, <2>3
<1>4. f = [n \in Nat |-> Step(f, n)]
  <2> HIDE DEF K, Step
  <2> QED
    BY <1>2, <1>3
<1>5. up = [n \in Nat |-> Step(up, n)]
  <2> HIDE DEF Step
  <2> QED
    BY <1>4
<1>6. Lineage(h, x) = up[Cardinality(DispatchVals)]
  BY DEF Lineage
<1> HIDE DEF up
<1>7. \A n \in Nat : up[n] = Step(up, n)
  <2> HIDE DEF Step
  <2> QED
    BY <1>5
<1>8. up[0] = {x} /\ \A n \in Nat : n # 0 => up[n] = Raised(h, up[n - 1])
  BY <1>7 DEF Raised
<1> DEFINE T == {n \in Nat : up[n] \notin K}
<1>9. ASSUME T # {}
      PROVE  FALSE
  <2>1. PICK n \in T : \A j \in T : n <= j
    <3> T \subseteq Nat
      OBVIOUS
    <3> HIDE DEF T
    <3> QED
      BY <1>9, SmallestNat
  <2>2. n \in Nat /\ up[n] \notin K /\ n # 0
    BY <1>1, <1>8
  <2>3. n - 1 \in Nat /\ n - 1 \notin T
    <3>1. \A j \in T : j \in Nat /\ n <= j
      BY <2>1
    <3> HIDE DEF T
    <3> QED
      BY <2>2, <3>1
  <2>4. up[n - 1] \in K /\ up[n] = Raised(h, up[n - 1])
    BY <1>8, <2>2, <2>3
  <2> QED
    BY <2>2, <2>4 DEF Hierarchical, Raised
<1>10. \A n \in Nat : up[n] \in K
  BY <1>9
<1>11. up \in [Nat -> K]
  <2> HIDE DEF K
  <2>1. up = [n \in Nat |-> up[n]]
    <3> HIDE DEF Step
    <3> QED
      BY <1>5, <1>7
  <2> QED
    BY <1>10, <2>1
<1> QED
  BY <1>6, <1>8, <1>11 DEF Climb

\* As there are only so many dispatch values the climb comes to an end.
LEMMA ClimbEnds ==
  ASSUME NEW h, Hierarchical(h), NEW x \in DispatchVals, NEW up, Climb(h, x, up)
  PROVE  UpwardClosed(h, up[Cardinality(DispatchVals)])
<1> DEFINE N == Cardinality(DispatchVals)
           T == {n \in Nat : ~UpwardClosed(h, up[n]) /\ ~(Cardinality(up[n]) >= n + 1)}
<1>1. \A n \in Nat : /\ up[n] \subseteq DispatchVals /\ IsFiniteSet(up[n])
                     /\ Cardinality(up[n]) \in Nat /\ Cardinality(up[n]) <= N
  BY DispatchAssumption, FS_Subset, FS_CardinalityType DEF Climb
<1>2. ASSUME T # {}
      PROVE  FALSE
  <2>1. PICK n \in T : \A j \in T : n <= j
    <3> T \subseteq Nat
      OBVIOUS
    <3> HIDE DEF T
    <3> QED
      BY <1>2, SmallestNat
  <2>2. n \in Nat /\ ~UpwardClosed(h, up[n]) /\ ~(Cardinality(up[n]) >= n + 1)
    OBVIOUS
  <2>3. n # 0
    <3>1. Cardinality({x}) = 1
      BY FS_Singleton
    <3>2. up[0] = {x}
      BY DEF Climb
    <3>3. Cardinality(up[0]) >= 0 + 1
      BY <3>1, <3>2
    <3> QED
      BY <2>2, <3>3
  <2>4. n - 1 \in Nat /\ n - 1 \notin T
    <3>1. \A j \in T : j \in Nat /\ n <= j
      BY <2>1
    <3> HIDE DEF T
    <3> QED
      BY <2>2, <2>3, <3>1
  <2>5. PICK low \in SUBSET DispatchVals : low = up[n - 1] /\ up[n] = Raised(h, low)
    BY <2>2, <2>3, <2>4 DEF Climb
  <2>6. ~UpwardClosed(h, low)
    BY <2>2, <2>5 DEF UpwardClosed, Raised
  <2>7. Cardinality(low) >= n
    <3>1. Cardinality(low) >= (n - 1) + 1
      BY <2>4, <2>5, <2>6
    <3> QED
      BY <2>2, <3>1
  <2>8. low \subseteq up[n] /\ low # up[n]
    BY <2>5, <2>6 DEF UpwardClosed, Raised
  <2>9. Cardinality(low) <= Cardinality(up[n]) /\ Cardinality(low) # Cardinality(up[n])
    BY <1>1, <2>2, <2>8, FS_Subset
  <2> QED
    <3>1. Cardinality(low) \in Nat /\ Cardinality(up[n]) \in Nat
      BY <1>1, <2>2, <2>4, <2>5
    <3> QED
      BY <2>2, <2>7, <2>9, <3>1
<1>3. N \in Nat /\ ~(Cardinality(up[N]) >= N + 1)
  <2>1. N \in Nat
    BY DispatchAssumption, FS_CardinalityType
  <2> HIDE DEF N
  <2> QED
    BY <1>1, <2>1
<1> HIDE DEF N
<1>4. N \notin T
  BY <1>2
<1> QED
  BY <1>3, <1>4 DEF N

LEMMA LineageIsLeast ==
  ASSUME NEW h, Hierarchical(h), NEW x \in DispatchVals
  PROVE  /\ x \in Lineage(h, x) /\ Lineage(h, x) \subseteq DispatchVals
         /\ UpwardClosed(h, Lineage(h, x))
         /\ \A C : x \in C /\ UpwardClosed(h, C) => Lineage(h, x) \subseteq C
<1>1. PICK up : Climb(h, x, up) /\ Lineage(h, x) = up[Cardinality(DispatchVals)]
  BY LineageIsClimb
<1>2. Cardinality(DispatchVals) \in Nat
  BY DispatchAssumption, FS_CardinalityType
<1>3. ASSUME NEW C, x \in C, UpwardClosed(h, C)
      PROVE  \A n \in Nat : x \in up[n] /\ up[n] \subseteq C
  <2> DEFINE T == {n \in Nat : ~(x \in up[n] /\ up[n] \subseteq C)}
  <2>1. ASSUME T # {}
        PROVE  FALSE
    <3>1. PICK n \in T : \A j \in T : n <= j
      <4> T \subseteq Nat
        OBVIOUS
      <4> HIDE DEF T
      <4> QED
        BY <2>1, SmallestNat
    <3>2. n \in Nat /\ n # 0 /\ ~(x \in up[n] /\ up[n] \subseteq C)
      BY <1>1, <1>3 DEF Climb
    <3>3. n - 1 \in Nat /\ n - 1 \notin T
      <4>1. \A j \in T : j \in Nat /\ n <= j
        BY <3>1
      <4> HIDE DEF T
      <4> QED
        BY <3>2, <4>1
    <3>4. /\ x \in up[n - 1] /\ up[n - 1] \subseteq C
          /\ up[n] = Raised(h, up[n - 1])
      BY <1>1, <3>2, <3>3 DEF Climb
    <3> QED
      BY <1>3, <3>2, <3>4 DEF UpwardClosed, Raised
  <2> QED
    BY <2>1
<1>4. UpwardClosed(h, DispatchVals)
  BY DEF Hierarchical, UpwardClosed
<1>5. x \in Lineage(h, x) /\ Lineage(h, x) \subseteq DispatchVals
  BY <1>1, <1>2, <1>3, <1>4
<1>6. UpwardClosed(h, Lineage(h, x))
  BY <1>1, ClimbEnds
<1> QED
  BY <1>1, <1>2, <1>3, <1>5, <1>6

\* isa? is a preorder.
LEMMA IsAPreorder ==
  ASSUME NEW h, Hierarchical(h)
  PROVE  /\ \A x \in DispatchVals : IsA(h, x, x)
         /\ \A x \in DispatchVals : \A y, z : IsA(h, x, y) /\ IsA(h, y, z) => IsA(h, x, z)
BY LineageIsLeast DEF IsA

-----------------------------------------------------------------------------
(* What the loop ends with.                                                *)

\* One round: the new candidate is the key or the old one, which dominates the key; or
\* neither dominates the other.
LEMMA CandidateIs ==
  ASSUME NEW h, Hierarchical(h), NEW p, NEW key \in DispatchVals,
         NEW old \in DispatchVals \cup {NoMethod}, NEW new, new = Candidate(h, p, old, key)
  PROVE  \/ /\ new = key
            /\ old = NoMethod \/ Dominates(h, p, key, old)
         \/ /\ new = old /\ old # NoMethod
            /\ ~Dominates(h, p, key, old) /\ Dominates(h, p, old, key)
         \/ /\ new = Ambiguous /\ old # NoMethod
            /\ ~Dominates(h, p, key, old) /\ ~Dominates(h, p, old, key)
<1>1. Dominates(h, p, key, key)
  BY IsAPreorder DEF Dominates
<1>2. old # Ambiguous
  BY DispatchAssumption
<1>3. CASE old = NoMethod \/ Dominates(h, p, key, old)
  BY <1>1, <1>2, <1>3 DEF Candidate
<1>4. CASE ~(old = NoMethod \/ Dominates(h, p, key, old))
  BY <1>2, <1>4 DEF Candidate
<1> QED
  BY <1>3, <1>4

\* Without preferences the candidate after round i, if there is one, is a key met by
\* then and below every other.
Leads(w, h, order, i) ==
  w[i] # Ambiguous =>
    IF i = 0 THEN w[i] = NoMethod
    ELSE /\ \E j \in 1 .. i : w[i] = order[j]
         /\ \A j \in 1 .. i : IsA(h, w[i], order[j])

LEMMA LeadsOn ==
  ASSUME NEW h, Hierarchical(h), NEW n \in Nat, NEW order \in [1 .. n -> DispatchVals],
         NEW w, Rounds(w, h, {}, order, n, DispatchVals), NEW i \in 1 .. n, Leads(w, h, order, i - 1)
  PROVE  Leads(w, h, order, i)
<1> SUFFICES ASSUME w[i] # Ambiguous
             PROVE  /\ \E j \in 1 .. i : w[i] = order[j]
                    /\ \A j \in 1 .. i : IsA(h, w[i], order[j])
  BY DEF Leads
<1> DEFINE key == order[i]
           old == w[i - 1]
           new == w[i]
<1>1. new = Candidate(h, {}, old, key) /\ new # Ambiguous /\ key \in DispatchVals
  BY DEF Rounds
<1>2. old # Ambiguous
  BY <1>1 DEF Candidate
<1>3. i - 1 = 0 \/ i - 1 \in 1 .. n
  OBVIOUS
<1>4. CASE i - 1 = 0
  <2>1. old = NoMethod /\ \A j \in 1 .. i : j = i
    BY <1>4 DEF Rounds
  <2>2. new = key
    <3> HIDE DEF old, new, key
    <3> QED
      BY <1>1, <1>2, <2>1, CandidateIs
  <2>3. IsA(h, new, key) /\ i \in 1 .. i
    BY <1>1, <2>2, IsAPreorder
  <2> QED
    BY <2>1, <2>2, <2>3
<1>5. CASE i - 1 \in 1 .. n
  <2>1. /\ \E j \in 1 .. i - 1 : old = order[j]
        /\ \A j \in 1 .. i - 1 : IsA(h, old, order[j])
    BY <1>2, <1>5 DEF Leads
  <2>2. \A j \in 1 .. i - 1 : j \in 1 .. n /\ j \in 1 .. i /\ order[j] \in DispatchVals
    OBVIOUS
  <2>3. old \in DispatchVals /\ old # NoMethod
    BY <2>1, <2>2, DispatchAssumption
  <2>4. \A x, y : Dominates(h, {}, x, y) <=> IsA(h, x, y)
    BY DEF Dominates, Prefers
  <2>5. (new = key /\ IsA(h, key, old)) \/ (new = old /\ IsA(h, old, key))
    <3> HIDE DEF old, new, key
    <3> QED
      BY <1>1, <2>3, <2>4, CandidateIs
  <2>6. IsA(h, new, key) /\ \A y : IsA(h, old, y) => IsA(h, new, y)
    <3> HIDE DEF old, new, key
    <3> QED
      BY <1>1, <2>3, <2>5, IsAPreorder
  <2>7. \A j \in 1 .. i : j = i \/ j \in 1 .. i - 1
    OBVIOUS
  <2>8. \E j \in 1 .. i : new = order[j]
    BY <2>1, <2>2, <2>5
  <2> QED
    BY <2>1, <2>6, <2>7, <2>8
<1> QED
  BY <1>3, <1>4, <1>5

\* Without preferences the winner is the most specific of the keys, whatever their order.
LEMMA WinnerIsMostSpecific ==
  ASSUME NEW h, Hierarchical(h), NEW n \in Nat \ {0}, NEW order \in [1 .. n -> DispatchVals],
         Winner(h, {}, order) # Ambiguous
  PROVE  /\ \E j \in 1 .. n : Winner(h, {}, order) = order[j]
         /\ \A j \in 1 .. n : IsA(h, Winner(h, {}, order), order[j])
<1>1. PICK w : Rounds(w, h, {}, order, n, DispatchVals) /\ Winner(h, {}, order) = w[n]
  <2>1. Traversal(order, n, DispatchVals)
    BY DEF Traversal
  <2> QED
    BY <2>1, WinnerEndsLoop
<1> DEFINE Bad == {i \in Nat : i <= n /\ ~Leads(w, h, order, i)}
<1>2. Bad = {}
  <2> SUFFICES ASSUME Bad # {} PROVE FALSE
    OBVIOUS
  <2>1. PICK i \in Bad : \A m \in Bad : i <= m
    <3> Bad \subseteq Nat
      OBVIOUS
    <3> HIDE DEF Bad
    <3> QED
      BY SmallestNat
  <2>2. i \in Nat /\ i <= n /\ ~Leads(w, h, order, i)
    OBVIOUS
  <2>3. i # 0
    BY <1>1, <2>2 DEF Leads, Rounds
  <2>4. i \in 1 .. n /\ i - 1 \in Nat /\ i - 1 <= n /\ ~(i <= i - 1)
    BY <2>2, <2>3
  <2>5. Leads(w, h, order, i - 1)
    BY <2>1, <2>4
  <2> QED
    BY <1>1, <2>2, <2>4, <2>5, LeadsOn
<1>3. Leads(w, h, order, n)
  BY <1>2
<1> QED
  BY <1>1, <1>3 DEF Leads

\* If the loop panics, two of the keys do not dominate each other: the one that it was
\* considering, and the candidate it had.
LEMMA WinnerOrConflict ==
  ASSUME NEW h, Hierarchical(h), NEW p, NEW K, K \subseteq DispatchVals, NEW n, NEW order,
         Traversal(order, n, K), Winner(h, p, order) = Ambiguous
  PROVE  \E x, y \in K : ~Dominates(h, p, x, y) /\ ~Dominates(h, p, y, x)
<1>1. PICK w : Rounds(w, h, p, order, n, K) /\ w[n] = Ambiguous
  BY WinnerEndsLoop
<1> DEFINE Bad == {i \in Nat : i <= n /\ w[i] = Ambiguous}
<1>2. Bad # {}
  BY <1>1 DEF Traversal
<1>3. PICK i \in Bad : \A m \in Bad : i <= m
  <2> Bad \subseteq Nat
    OBVIOUS
  <2> HIDE DEF Bad
  <2> QED
    BY <1>2, SmallestNat
<1>4. i \in Nat /\ i <= n /\ n \in Nat /\ w[i] = Ambiguous /\ i # 0
  BY <1>1, DispatchAssumption DEF Rounds, Traversal
<1>5. i \in 1 .. n /\ i - 1 \in Nat /\ i - 1 <= n /\ i - 1 \in 0 .. n /\ ~(i <= i - 1)
  BY <1>4
<1>6. w[i - 1] # Ambiguous
  BY <1>3, <1>5
<1> DEFINE old == w[i - 1]
           key == order[i]
<1>7. /\ Ambiguous = Candidate(h, p, old, key)
      /\ old \in K \cup {NoMethod} /\ key \in K
  BY <1>1, <1>4, <1>5, <1>6 DEF Rounds, Traversal
<1> HIDE DEF old, key
<1>8. Ambiguous \notin DispatchVals \cup {NoMethod}
  BY DispatchAssumption
<1>9. old # NoMethod /\ ~Dominates(h, p, key, old) /\ ~Dominates(h, p, old, key)
  BY <1>7, <1>8, CandidateIs
<1> QED
  BY <1>7, <1>9

\* What a moment without preferences promises: the panic, or the method of a key below
\* every key that applies; if none applies, the default method or none.
MostSpecific(moment, val, answer) ==
  LET h == moment.hier.map
      table == moment.methods.map
      keys == Matching(h, table, val)
  IN moment.prefs.map = {} /\ answer # Ambiguous =>
       IF keys = {} THEN answer = MethodFor(table, NoMethod)
       ELSE \E key \in keys : answer = table[key] /\ \A other \in keys : IsA(h, key, other)

LEMMA AnswersMostSpecific ==
  ASSUME NEW moment \in Moments, NEW val, NEW answer \in Answers(moment, val)
  PROVE  MostSpecific(moment, val, answer)
<1> DEFINE h == moment.hier.map
           p == moment.prefs.map
           table == moment.methods.map
           keys == Matching(h, table, val)
<1> SUFFICES ASSUME p = {}, answer # Ambiguous
             PROVE  IF keys = {} THEN answer = MethodFor(table, NoMethod)
                    ELSE \E key \in keys : answer = table[key] /\ \A other \in keys : IsA(h, key, other)
  BY DEF MostSpecific
<1>1. Hierarchical(h) /\ keys \subseteq DispatchVals
  <2>1. moment.hier.map \in Hierarchies /\ DOMAIN moment.methods.map \subseteq DispatchVals
    BY DEF Moments, VersionedHierarchies, Tables
  <2> QED
    BY <2>1, MultiFnAssumption DEF Hierarchical, Matching
<1>2. PICK order \in SetToSeqs(keys) : answer = MethodFor(table, Winner(h, p, order))
  BY DEF Answers, BestMethods, BestKeys
<1> HIDE DEF h, p, table, keys
<1>3. PICK n \in Nat : n = Cardinality(keys)
  BY <1>1, DispatchAssumption, FS_Subset, FS_CardinalityType
<1>4. order \in [1 .. n -> DispatchVals] /\ \A x : x \in keys <=> \E j \in 1 .. n : order[j] = x
  BY <1>1, <1>2, <1>3, KeysOrdered, DispatchAssumption, FS_Subset
<1> DEFINE winner == Winner(h, p, order)
<1>5. winner # Ambiguous
  BY <1>2, DispatchAssumption DEF MethodFor
<1>6. CASE n = 0
  <2>1. keys = {}
    BY <1>4, <1>6
  <2>2. winner = NoMethod
    <3>1. Traversal(order, n, DispatchVals)
      BY <1>4 DEF Traversal
    <3>2. PICK w : Rounds(w, h, p, order, n, DispatchVals) /\ winner = w[n]
      BY <3>1, WinnerEndsLoop
    <3> QED
      BY <1>6, <3>2 DEF Rounds
  <2> QED
    BY <1>2, <2>1, <2>2
<1>7. CASE n # 0
  <2>1. /\ \E j \in 1 .. n : winner = order[j]
        /\ \A j \in 1 .. n : IsA(h, winner, order[j])
    BY <1>1, <1>3, <1>4, <1>5, <1>7, WinnerIsMostSpecific
  <2> HIDE DEF winner
  <2>2. winner \in keys /\ \A other \in keys : IsA(h, winner, other)
    BY <1>4, <2>1
  <2>3. winner \notin {NoMethod, Ambiguous}
    BY <1>1, <2>2, DispatchAssumption
  <2>4. answer = table[winner]
    BY <1>2, <2>3 DEF MethodFor, winner
  <2> QED
    BY <2>2, <2>4
<1> QED
  BY <1>6, <1>7

\* A dispatch that ends while nobody has preferred anything finds the most specific method
\* of one moment of its call, through the cache or by a search that other goroutines
\* interrupt, in whatever order the table is traversed; or it panics.
DispatchMostSpecific ==
  \A g \in G : op[g].kind = "done" =>
    \E moment \in op[g].seen : MostSpecific(moment, op[g].val, op[g].result)

THEOREM DispatchFindsMostSpecific == Spec => []DispatchMostSpecific
<1>1. IInv => DispatchMostSpecific
  <2> SUFFICES ASSUME IInv, NEW g \in G, op[g].kind = "done"
               PROVE  \E moment \in op[g].seen : MostSpecific(moment, op[g].val, op[g].result)
    BY DEF DispatchMostSpecific
  <2>1. PICK moment \in op[g].seen : op[g].result \in Answers(moment, op[g].val)
    BY DEF IInv, DispatchSound
  <2>2. op[g] \in Answered
    BY DispatchFields DEF IInv
  <2>3. moment \in Moments
    BY <2>2 DEF Answered
  <2> QED
    BY <2>1, <2>3, AnswersMostSpecific
<1> QED
  BY <1>1, Invariance, PTL

\* The panic of a moment: two methods apply, and neither dominates the other.
Conflict(moment, val) ==
  LET h == moment.hier.map
      p == moment.prefs.map
  IN \E x, y \in Matching(h, moment.methods.map, val) :
       ~Dominates(h, p, x, y) /\ ~Dominates(h, p, y, x)

LEMMA AmbiguityIsConflict ==
  ASSUME NEW moment \in Moments, NEW val, Ambiguous \in Answers(moment, val)
  PROVE  Conflict(moment, val)
<1> DEFINE h == moment.hier.map
           p == moment.prefs.map
           table == moment.methods.map
           keys == Matching(h, table, val)
<1>1. PICK S \in SUBSET DispatchVals : table \in [S -> Methods]
  BY DEF Moments, Tables
<1>2. Hierarchical(h) /\ keys \subseteq S
  <2>1. moment.hier.map \in Hierarchies
    BY DEF Moments, VersionedHierarchies
  <2> QED
    BY <1>1, <2>1, MultiFnAssumption DEF Hierarchical, Matching
<1>3. PICK order \in SetToSeqs(keys) : Ambiguous = MethodFor(table, Winner(h, p, order))
  BY DEF Answers, BestMethods, BestKeys
<1> HIDE DEF h, p, table, keys
<1> DEFINE winner == Winner(h, p, order)
<1>4. PICK n \in Nat : n = Cardinality(keys)
  BY <1>1, <1>2, DispatchAssumption, FS_Subset, FS_CardinalityType
<1>5. order \in [1 .. n -> keys]
  BY <1>3, <1>4 DEF SetToSeqs
<1>6. winner \in keys \cup {NoMethod, Ambiguous}
  BY <1>5, WinnerMet
<1>7. winner = Ambiguous
  <2> SUFFICES ASSUME winner # Ambiguous PROVE FALSE
    OBVIOUS
  <2> HIDE DEF winner
  <2>1. Ambiguous = MethodFor(table, winner)
    BY <1>3 DEF winner
  <2>2. MethodFor(table, winner) \in Methods \cup {NoMethod}
    BY <1>1, <1>2, <1>6, DispatchAssumption DEF MethodFor
  <2> QED
    BY <2>1, <2>2, MultiFnAssumption, DispatchAssumption
<1>8. Traversal(order, n, keys)
  BY <1>5 DEF Traversal
<1>9. \E x, y \in keys : ~Dominates(h, p, x, y) /\ ~Dominates(h, p, y, x)
  BY <1>1, <1>2, <1>7, <1>8, WinnerOrConflict
<1> QED
  BY <1>9 DEF Conflict, h, p, table, keys

\* A dispatch panics with "Multiple methods match" only if, at one moment of its call, two
\* methods applied of which neither dominated the other.
DispatchPanicJustified ==
  \A g \in G : op[g].kind = "done" /\ op[g].result = Ambiguous =>
    \E moment \in op[g].seen : Conflict(moment, op[g].val)

THEOREM DispatchPanicsForConflict == Spec => []DispatchPanicJustified
<1>1. IInv => DispatchPanicJustified
  <2> SUFFICES ASSUME IInv, NEW g \in G, op[g].kind = "done", op[g].result = Ambiguous
               PROVE  \E moment \in op[g].seen : Conflict(moment, op[g].val)
    BY DEF DispatchPanicJustified
  <2>1. PICK moment \in op[g].seen : Ambiguous \in Answers(moment, op[g].val)
    BY DEF IInv, DispatchSound
  <2>2. op[g] \in Answered
    BY DispatchFields DEF IInv
  <2>3. moment \in Moments
    BY <2>2 DEF Answered
  <2> QED
    BY <2>1, <2>3, AmbiguityIsConflict
<1> QED
  BY <1>1, Invariance, PTL

-----------------------------------------------------------------------------
(* The loop of the search, MultiFnSearch.                                  *)

\* The present best has been met; before the first round there is none.
BestMet ==
  /\ matching \subseteq DispatchVals
  /\ best = NoMethod <=> left = matching

\* Without preferences the present best is below every key that has been met.
BestSoFar ==
  best \in DispatchVals /\ prefs = {} => \A key \in matching \ left : IsA(hier, best, key)

LoopInv ==
  /\ SearchTypeOK
  /\ BestMet
  /\ BestSoFar
  /\ AmbiguityIsReal
  /\ UncontestedPreferenceDecides

LEMMA LoopInit == SearchInit => LoopInv
BY DispatchAssumption DEF SearchInit, LoopInv, SearchTypeOK, BestMet, BestSoFar, AmbiguityIsReal,
   UncontestedPreferenceDecides


\* Before a search, and at its start, there is no candidate.
LEMMA LoopBegins ==
  ASSUME LoopInv, ~Searching, best' = best, left' = matching', matching' \subseteq DispatchVals,
         matching' # {} \/ matching' = matching,
         hier' \in [DispatchVals -> SUBSET DispatchVals], prefs' \subseteq DispatchVals \X DispatchVals
  PROVE  LoopInv'
<1>1. best = NoMethod /\ matching = {}
  BY DEF LoopInv, BestMet, Searching, SearchTypeOK
<1> QED
  BY <1>1, DispatchAssumption DEF LoopInv, BestMet, BestSoFar, SearchTypeOK, AmbiguityIsReal,
     UncontestedPreferenceDecides

LEMMA LoopChanges ==
  ASSUME LoopInv, NEW x \in DispatchVals, NEW y \in DispatchVals,
         Derive(x, y) \/ Prefer(x, y)
  PROVE  LoopInv'
<1>1. ~Searching /\ best' = best /\ matching' = matching /\ left' = left
  BY DEF Derive, Prefer
<1>2. matching = {} /\ left = matching
  BY <1>1 DEF LoopInv, SearchTypeOK, Searching
<1>3. hier' \in [DispatchVals -> SUBSET DispatchVals] /\ prefs' \subseteq DispatchVals \X DispatchVals
  <2>1. CASE Derive(x, y)
    BY <2>1 DEF LoopInv, SearchTypeOK, Derive
  <2>2. CASE Prefer(x, y)
    BY <2>2 DEF LoopInv, SearchTypeOK, Prefer
  <2> QED
    BY <2>1, <2>2
<1> QED
  BY <1>1, <1>2, <1>3, LoopBegins

LEMMA LoopSearch ==
  ASSUME LoopInv, NEW val \in DispatchVals, NEW keys \in SUBSET DispatchVals, Search(val, keys)
  PROVE  LoopInv'
<1>1. /\ ~Searching /\ best' = best /\ left' = matching' /\ matching' # {}
      /\ matching' \subseteq DispatchVals /\ hier' = hier /\ prefs' = prefs
  BY DEF Search
<1> QED
  BY <1>1, LoopBegins DEF LoopInv, SearchTypeOK

LEMMA LoopConsider ==
  ASSUME LoopInv, NEW key \in DispatchVals, Consider(key)
  PROVE  LoopInv'
<1> DEFINE Dom(x, y) == Dominates(hier, prefs, x, y)
<1>1. /\ key \in left /\ best # Ambiguous /\ left' = left \ {key}
      /\ hier' = hier /\ prefs' = prefs /\ matching' = matching
      /\ best' = Candidate(hier, prefs, best, key)
  BY DEF Consider
<1>2. /\ Hierarchical(hier) /\ prefs \subseteq DispatchVals \X DispatchVals
      /\ left \subseteq matching /\ matching \subseteq DispatchVals
      /\ best \in (matching \ left) \cup {NoMethod} /\ (best = NoMethod <=> left = matching)
  BY <1>1 DEF LoopInv, SearchTypeOK, BestMet, Hierarchical
<1>3. \/ best' = key /\ (best = NoMethod \/ Dom(key, best))
      \/ best' = best /\ best # NoMethod /\ ~Dom(key, best) /\ Dom(best, key)
      \/ best' = Ambiguous /\ best # NoMethod /\ ~Dom(key, best) /\ ~Dom(best, key)
  BY <1>1, <1>2, CandidateIs
<1>4. key \notin {NoMethod, Ambiguous} /\ NoMethod # Ambiguous
  BY DispatchAssumption
<1> HIDE DEF Dom
<1>5. SearchTypeOK'
  BY <1>1, <1>2, <1>3 DEF SearchTypeOK, Hierarchical
<1>6. BestMet'
  <2>1. left' # matching' /\ best' # NoMethod
    BY <1>1, <1>2, <1>3, <1>4
  <2> QED
    BY <1>1, <1>2, <2>1 DEF BestMet
<1>7. BestSoFar'
  <2> SUFFICES ASSUME best' \in DispatchVals, prefs = {}, NEW other \in matching \ (left \ {key})
               PROVE  IsA(hier, best', other)
    BY <1>1 DEF BestSoFar
  <2>1. \A x, y : Dom(x, y) <=> IsA(hier, x, y)
    BY DEF Dom, Dominates, Prefers
  <2>2. best' # Ambiguous
    BY DispatchAssumption
  <2>3. CASE other = key
    BY <1>2, <1>3, <2>1, <2>2, <2>3, IsAPreorder
  <2>4. CASE other # key
    <3>1. other \in matching \ left /\ best # NoMethod /\ best \in DispatchVals
      BY <1>2, <2>4
    <3>2. IsA(hier, best, other)
      BY <3>1 DEF LoopInv, BestSoFar
    <3> QED
      BY <1>2, <1>3, <2>1, <2>2, <3>1, <3>2, IsAPreorder
  <2> QED
    BY <2>3, <2>4
<1>8. AmbiguityIsReal'
  <2> SUFFICES ASSUME best' = Ambiguous
               PROVE  \E x, y \in matching : ~Dom(x, y) /\ ~Dom(y, x)
    BY <1>1 DEF AmbiguityIsReal, Dom
  <2> QED
    BY <1>1, <1>2, <1>3, <1>4
<1>9. UncontestedPreferenceDecides'
  <2> SUFFICES ASSUME NEW x \in matching, NEW y \in matching,
                      left' = {}, matching = {x, y}, <<x, y>> \in prefs,
                      ~IsA(hier, x, y), ~IsA(hier, y, x), ~Prefers(hier, prefs, y, x)
               PROVE  best' = x
    BY <1>1 DEF UncontestedPreferenceDecides, Related
  <2>1. x # y
    BY <1>2, IsAPreorder
  <2>2. left = {key} /\ best # NoMethod
    BY <1>1, <1>2, <2>1
  <2>3. (key = x /\ best = y) \/ (key = y /\ best = x)
    BY <1>1, <1>2, <2>2
  <2>4. Dom(x, y)
    <3>1. x \in Lineage(hier, x) /\ y \in Lineage(hier, y)
      BY <1>2, LineageIsLeast
    <3> QED
      BY <3>1 DEF Dom, Dominates, Prefers
  <2>5. ~Dom(y, x)
    BY DEF Dom, Dominates
  <2> QED
    BY <1>3, <2>2, <2>3, <2>4, <2>5
<1> QED
  BY <1>5, <1>6, <1>7, <1>8, <1>9 DEF LoopInv

LEMMA LoopNext == LoopInv /\ [SearchNext]_searchVars => LoopInv'
<1> SUFFICES ASSUME LoopInv, [SearchNext]_searchVars PROVE LoopInv'
  OBVIOUS
<1>1. CASE UNCHANGED searchVars
  BY <1>1 DEF searchVars, LoopInv, BestMet, BestSoFar, SearchTypeOK, AmbiguityIsReal,
     UncontestedPreferenceDecides, Related
<1>2. CASE SearchNext
  BY <1>2, LoopChanges, LoopSearch, LoopConsider DEF SearchNext
<1> QED
  BY <1>1, <1>2

THEOREM SearchInvariance == SearchSpec => []LoopInv
  BY LoopInit, LoopNext, PTL DEF SearchSpec

\* The loop of findBestMethod has met its candidate, and the variables have their types.
THEOREM SearchTypeCorrect == SearchSpec => []SearchTypeOK
<1>1. LoopInv => SearchTypeOK
  BY DEF LoopInv
<1> QED
  BY <1>1, SearchInvariance, PTL

\* Without preferences the method found is the most specific one, for any hierarchy that
\* isa? may be asked about and any order in which the table is traversed: the key of
\* every other method that applies is an ancestor of its key.
THEOREM SearchFindsMostSpecific == SearchSpec => []MostSpecificWins
<1>1. LoopInv => MostSpecificWins
  <2> SUFFICES ASSUME LoopInv, Found, prefs = {}, NEW key \in matching
               PROVE  IsA(hier, best, key)
    BY DEF MostSpecificWins
  <2>1. left = {} /\ best # Ambiguous /\ matching # {}
    BY DEF Found, Searching
  <2>2. best \in DispatchVals
    BY <2>1 DEF LoopInv, SearchTypeOK, BestMet
  <2> QED
    BY <2>1, <2>2 DEF LoopInv, BestSoFar
<1> QED
  BY <1>1, SearchInvariance, PTL

\* findBestMethod panics with "Multiple methods match" only if two of the methods that
\* apply do not dominate each other.
THEOREM SearchPanicIsJustified == SearchSpec => []AmbiguityIsReal
<1>1. LoopInv => AmbiguityIsReal
  BY DEF LoopInv
<1> QED
  BY <1>1, SearchInvariance, PTL

\* prefer-method decides between two methods of which neither is more specific, whichever
\* is met first, unless preferences among their ancestors say the reverse as well.
THEOREM SearchHeedsPreference == SearchSpec => []UncontestedPreferenceDecides
<1>1. LoopInv => UncontestedPreferenceDecides
  BY DEF LoopInv
<1> QED
  BY <1>1, SearchInvariance, PTL
=============================================================================
