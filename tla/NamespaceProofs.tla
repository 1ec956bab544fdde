--------------------------- MODULE NamespaceProofs ---------------------------
(***************************************************************************)
(* Proofs about Namespace, for any goroutines, namespaces and symbols:     *)
(* type correctness, with it that no snapshot ever changes; that the two   *)
(* ways to look a symbol up agree; and that namespaces implement           *)
(* NamespaceMaps.                                                          *)
(***************************************************************************)
EXTENDS Namespace, FoldLemmas, SequenceTheorems

Mappings == [Symbols -> Values \cup {None}]
Snapshots == [source : Namespaces, map : Nat, excluded : SUBSET Symbols, captured : Mappings]
AliasMaps == [Aliases -> Namespaces \cup {None}]

ReferOps == [at : {"refer"}, ns : Namespaces, names : Seq(Symbols),
              vars : Seq(Values \cup {None})]
InstallOps == [at : {"install"}, ns : Namespaces, source : Namespaces, map : Nat,
               excluded : SUBSET Symbols, captured : Mappings]
AliasOps == [at : {"alias"}, ns : Namespaces, alias : Aliases, target : Namespaces,
             loaded : AliasMaps]
Operations == {Idle} \cup ReferOps \cup InstallOps \cup AliasOps

\* The types of the variables; the Go maps are those that somebody refers to.
Types ==
  /\ DOMAIN maps \subseteq Nat /\ IsFiniteSet(DOMAIN maps)
  /\ DOMAIN maps = Live(mappings, refs, Captures)
  /\ maps \in [DOMAIN maps -> Mappings]
  /\ mappings \in [Namespaces -> Nat]
  /\ shared \in [Namespaces -> BOOLEAN]
  /\ refs \in [Namespaces -> Seq(Snapshots)]
  /\ cached \in [Namespaces -> Mappings \cup {None}]
  /\ aliases \in [Namespaces -> AliasMaps]
  /\ op \in [G -> Operations]
  /\ ops \in 0 .. MaxOps

\* A map that two refer to, one of them a namespace to write to, is marked as shared;
\* no two namespaces have one to write to.
SharingMarked ==
  /\ \A m, n \in Namespaces : mappings[m] = mappings[n] => m = n
  /\ \A ns, other \in Namespaces : \A i \in DOMAIN refs[other] :
       refs[other][i].map = mappings[ns] => shared[ns]
  /\ \A ns \in Namespaces, g \in G :
       op[g].at = "install" /\ op[g].map = mappings[ns] => shared[ns]

\* A snapshot is what the source was.
SnapshotsKept ==
  /\ \A ns \in Namespaces : \A i \in DOMAIN refs[ns] :
       maps[refs[ns][i].map] = refs[ns][i].captured
  /\ \A g \in G : op[g].at = "install" => maps[op[g].map] = op[g].captured

CacheCurrent == \A ns \in Namespaces : cached[ns] # None => cached[ns] = Visible(ns)

\* No namespace refers to itself.
SourcesOther ==
  /\ \A ns \in Namespaces : \A i \in DOMAIN refs[ns] : refs[ns][i].source # ns
  /\ \A g \in G : op[g].at = "install" => op[g].source # op[g].ns

\* Operations in progress have something left to do.
OperationsPending ==
  \A g \in G :
    /\ op[g].at = "refer" => Len(op[g].vars) > 0 /\ Len(op[g].names) = Len(op[g].vars)
    /\ op[g].at = "alias" => op[g].loaded[op[g].alias] = None

\* Each operation interns one Var at most.
Counted(v, n) == IsVar(v) => v.n <= n + 1
VarsCounted ==
  /\ \A i \in DOMAIN maps, s \in Symbols : Counted(maps[i][s], ops)
  /\ \A g \in G : op[g].at = "refer" =>
       \A i \in DOMAIN op[g].vars : Counted(op[g].vars[i], ops)

IInv ==
  /\ Types
  /\ SharingMarked
  /\ SnapshotsKept
  /\ CacheCurrent
  /\ SourcesOther
  /\ OperationsPending
  /\ VarsCounted

-----------------------------------------------------------------------------
(* Looking up.                                                             *)

\* The kinds of operations tell their fields.
LEMMA OperationFields ==
  ASSUME Types, NEW g \in G
  PROVE  /\ op[g].at \in {"idle", "refer", "install", "alias"}
         /\ op[g].at = "idle" <=> op[g] = Idle
         /\ op[g].at = "refer" => op[g] \in ReferOps
         /\ op[g].at = "install" => op[g] \in InstallOps
         /\ op[g].at = "alias" => op[g] \in AliasOps
<1>1. op[g] \in Operations
  BY DEF Types
<1> QED
  BY <1>1 DEF Operations, Idle, ReferOps, InstallOps, AliasOps

\* Whoever refers to a map finds it there.
LEMMA MapsThere ==
  ASSUME Types
  PROVE  /\ \A ns \in Namespaces : mappings[ns] \in DOMAIN maps /\ Contents(ns) \in Mappings
         /\ \A ns \in Namespaces : \A i \in DOMAIN refs[ns] :
              /\ refs[ns][i] \in Snapshots
              /\ refs[ns][i].map \in DOMAIN maps /\ maps[refs[ns][i].map] \in Mappings
         /\ \A g \in G : op[g].at = "install" =>
              op[g].map \in DOMAIN maps /\ maps[op[g].map] \in Mappings
<1>1. ASSUME NEW ns \in Namespaces
      PROVE  mappings[ns] \in DOMAIN maps
  BY DEF Types, Live
<1>2. ASSUME NEW ns \in Namespaces, NEW i \in DOMAIN refs[ns]
      PROVE  refs[ns][i] \in Snapshots /\ refs[ns][i].map \in DOMAIN maps
  <2>1. refs[ns] \in Seq(Snapshots)
    BY DEF Types
  <2>2. refs[ns][i].map \in {refs[ns][j].map : j \in DOMAIN refs[ns]}
    OBVIOUS
  <2> QED
    BY <2>1, <2>2 DEF Types, Live
<1>3. ASSUME NEW g \in G, op[g].at = "install"
      PROVE  op[g].map \in DOMAIN maps
  BY <1>3 DEF Types, Live, Captures
<1>4. \A i \in DOMAIN maps : maps[i] \in Mappings
  BY DEF Types
<1> QED
  BY <1>1, <1>2, <1>3, <1>4 DEF Contents

\* What some of the snapshots show, the newest last.
Topmost(ns, positions, sym) ==
  LET showing == {i \in positions : Shows(refs[ns][i], sym)}
  IN IF showing = {} THEN None ELSE maps[refs[ns][Max(showing)].map][sym]

\* The map that is built of the snapshots one by one shows what the search finds.
LEMMA ReferredIsTopmost ==
  ASSUME Types, NEW ns \in Namespaces
  PROVE  Referred(ns) = [sym \in Symbols |-> Topmost(ns, DOMAIN refs[ns], sym)]
<1> DEFINE snapshots == refs[ns]
           S == 1 .. Len(snapshots)
           nothing == [s \in Symbols |-> None]
           F == [i \in S |-> [visible \in Mappings |-> Over(visible, Shown(snapshots[i]))]]
           pick == [s \in SUBSET S |-> Max(s)]
           iter == CHOOSE it : it = [s \in SUBSET S |->
                     IF s = {} THEN nothing
                     ELSE Over(it[s \ {Max(s)}], Shown(snapshots[Max(s)]))]
<1>1. snapshots \in Seq(Snapshots) /\ DOMAIN snapshots = S /\ Len(snapshots) \in Nat
  BY DEF Types
<1>2. Referred(ns) = iter[S]
  BY <1>1 DEF Referred, FoldLeft, MapThenFoldSet
<1>3. IsFiniteSet(S)
  BY <1>1, FS_Interval
<1>4. \A s \in SUBSET S : s # {} => Max(s) \in s /\ s \ {Max(s)} \in SUBSET S
  BY <1>1, LastPosition
<1>5. ASSUME NEW i \in S
      PROVE  Shown(snapshots[i]) \in Mappings
  BY <1>1, MapsThere DEF Shown, Mappings
<1>6. ASSUME NEW lower \in Mappings, NEW upper \in Mappings
      PROVE  Over(lower, upper) \in Mappings
  BY DEF Over, Mappings
<1>7. PICK it : IsFold(it, F, nothing, pick, S, Mappings)
  <2>1. Foldable(F, nothing, pick, S, Mappings)
    <3>1. nothing \in Mappings
      BY DEF Mappings
    <3> HIDE DEF nothing, S
    <3> QED
      BY <1>4, <1>5, <1>6, <3>1 DEF Foldable
  <2> HIDE DEF F, pick, S, nothing
  <2> QED
    BY <1>3, <2>1, FoldExists
<1>8. it = [s \in SUBSET S |->
              IF s = {} THEN nothing
              ELSE Over(it[s \ {Max(s)}], Shown(snapshots[Max(s)]))]
  <2>1. ASSUME NEW s \in SUBSET S, s # {}
        PROVE  it[s] = Over(it[s \ {Max(s)}], Shown(snapshots[Max(s)]))
    <3>1. pick[s] = Max(s) /\ Max(s) \in S /\ s \ {Max(s)} \in SUBSET S
      BY <1>4, <2>1
    <3>2. it[s \ {Max(s)}] \in Mappings
      BY <1>7, <3>1 DEF IsFold
    <3>3. it[s] = F[Max(s)][it[s \ {Max(s)}]]
      BY <1>7, <2>1, <3>1 DEF IsFold
    <3> QED
      BY <3>1, <3>2, <3>3
  <2>2. it[{}] = nothing /\ it \in [SUBSET S -> Mappings]
    BY <1>7 DEF IsFold
  <2> QED
    BY <2>1, <2>2
<1>9. iter = [s \in SUBSET S |->
                IF s = {} THEN nothing
                ELSE Over(iter[s \ {Max(s)}], Shown(snapshots[Max(s)]))]
  BY <1>8
<1> HIDE DEF iter
<1>10. \A s \in SUBSET S : iter[s] = [sym \in Symbols |-> Topmost(ns, s, sym)]
  <2> DEFINE Bad == {s \in SUBSET S : iter[s] # [sym \in Symbols |-> Topmost(ns, s, sym)]}
  <2> SUFFICES ASSUME Bad # {} PROVE FALSE
    OBVIOUS
  <2>1. PICK s \in Bad : \A x \in s : s \ {x} \notin Bad
    <3> Bad \subseteq SUBSET S
      OBVIOUS
    <3> HIDE DEF Bad
    <3> QED
      BY <1>3, SmallestSubset
  <2>2. CASE s = {}
    BY <1>9, <2>1, <2>2 DEF Topmost
  <2>3. CASE s # {}
    <3> DEFINE m == Max(s)
               rest == s \ {m}
    <3>1. m \in s /\ rest \in SUBSET S /\ s \in SUBSET S
      BY <1>4, <2>1, <2>3
    <3>2. iter[rest] = [sym \in Symbols |-> Topmost(ns, rest, sym)]
      BY <2>1, <3>1
    <3>3. iter[s] = Over(iter[rest], Shown(snapshots[m]))
      BY <1>9, <2>3, <3>1
    <3>4. ASSUME NEW sym \in Symbols, Shows(snapshots[m], sym)
          PROVE  /\ maps[snapshots[m].map][sym] # None
                 /\ Topmost(ns, s, sym) = maps[snapshots[m].map][sym]
      <4> DEFINE showing == {i \in s : Shows(snapshots[i], sym)}
      <4>1. m \in showing /\ showing \in SUBSET S
        BY <3>1, <3>4
      <4>2. Max(showing) \in showing
        BY <1>1, <4>1, LastPosition
      <4>3. \A i \in s : m >= i
        BY <1>1, <2>3, <3>1, LastPosition
      <4>4. Max(showing) >= m
        BY <1>1, <4>1, LastPosition
      <4>5. Max(showing) = m
        <5>1. Max(showing) \in s
          BY <4>2
        <5> HIDE DEF m, showing, S
        <5>2. s \subseteq Int
          BY <1>1, <3>1 DEF S
        <5>3. Max(showing) \in Int /\ m \in Int
          BY <3>1, <5>1, <5>2
        <5> QED
          BY <4>3, <4>4, <5>1, <5>3
      <4>6. Topmost(ns, s, sym) = maps[snapshots[m].map][sym]
        BY <4>1, <4>5 DEF Topmost
      <4> QED
        BY <3>4, <4>6 DEF Shows, IsVar
    <3>5. ASSUME NEW sym \in Symbols, ~Shows(snapshots[m], sym)
          PROVE  Topmost(ns, s, sym) = Topmost(ns, rest, sym)
      <4>1. {i \in s : Shows(snapshots[i], sym)} = {i \in rest : Shows(snapshots[i], sym)}
        BY <3>5
      <4> QED
        BY <4>1 DEF Topmost
    <3> HIDE DEF m, rest
    <3>6. iter[s] = [sym \in Symbols |-> Topmost(ns, s, sym)]
      BY <3>2, <3>3, <3>4, <3>5 DEF Over, Shown
    <3> QED
      BY <2>1, <3>6
  <2> QED
    BY <2>2, <2>3
<1> QED
  BY <1>1, <1>2, <1>10

\* The two ways to look a symbol up agree.
LEMMA VisibleIsLookup ==
  ASSUME Types, NEW ns \in Namespaces
  PROVE  /\ Visible(ns) = [s \in Symbols |-> Lookup(ns, s)]
         /\ Visible(ns) \in Mappings
<1>1. Referred(ns) = [s \in Symbols |-> Topmost(ns, DOMAIN refs[ns], s)]
  BY ReferredIsTopmost
<1>2. ASSUME NEW s \in Symbols
      PROVE  Lookup(ns, s) = IF Contents(ns)[s] # None THEN Contents(ns)[s]
                             ELSE Topmost(ns, DOMAIN refs[ns], s)
  BY DEF Lookup, Topmost
<1>3. Visible(ns) = [s \in Symbols |-> Lookup(ns, s)]
  BY <1>1, <1>2 DEF Visible, Over
<1>4. ASSUME NEW s \in Symbols
      PROVE  Lookup(ns, s) \in Values \cup {None}
  <2> DEFINE showing == {i \in DOMAIN refs[ns] : Shows(refs[ns][i], s)}
  <2>1. CASE Contents(ns)[s] # None
    BY <1>2, <2>1, MapsThere DEF Mappings
  <2>2. CASE Contents(ns)[s] = None /\ showing = {}
    BY <1>2, <2>2 DEF Topmost
  <2>3. CASE Contents(ns)[s] = None /\ showing # {}
    <3>1. Max(showing) \in DOMAIN refs[ns]
      <4>1. refs[ns] \in Seq(Snapshots) /\ DOMAIN refs[ns] = 1 .. Len(refs[ns])
            /\ Len(refs[ns]) \in Nat
        BY DEF Types
      <4>2. showing \in SUBSET (1 .. Len(refs[ns]))
        BY <4>1
      <4> HIDE DEF showing
      <4> QED
        BY <2>3, <4>1, <4>2, LastPosition
    <3>2. maps[refs[ns][Max(showing)].map] \in Mappings
      BY <3>1, MapsThere
    <3> QED
      BY <1>2, <2>3, <3>2 DEF Topmost, Mappings
  <2> QED
    BY <2>1, <2>2, <2>3
<1> QED
  BY <1>3, <1>4 DEF Mappings

\* The position of the snapshot that Lookup finds.
LEMMA ShowingPosition ==
  ASSUME Types, NEW ns \in Namespaces, NEW positions \in SUBSET (DOMAIN refs[ns]),
         positions # {}
  PROVE  Max(positions) \in positions /\ \A i \in positions : i \in Int /\ Max(positions) >= i
<1>1. refs[ns] \in Seq(Snapshots)
  BY DEF Types
<1>2. DOMAIN refs[ns] = 1 .. Len(refs[ns]) /\ Len(refs[ns]) \in Nat
  BY <1>1
<1>3. \A i \in positions : i \in Int
  BY <1>2
<1> QED
  BY <1>2, <1>3, LastPosition

\* What a symbol is mapped to depends on the mapping of the namespace and on what its
\* snapshots show.
LEMMA LookupSame ==
  ASSUME Types, NEW ns \in Namespaces, NEW s,
         Contents(ns)'[s] = Contents(ns)[s],
         DOMAIN refs'[ns] = DOMAIN refs[ns],
         \A i \in DOMAIN refs[ns] :
           /\ Shows(refs[ns][i], s)' <=> Shows(refs[ns][i], s)
           /\ maps'[refs'[ns][i].map][s] = maps[refs[ns][i].map][s]
  PROVE  Lookup(ns, s)' = Lookup(ns, s)
<1> DEFINE showing == {i \in DOMAIN refs[ns] : Shows(refs[ns][i], s)}
<1>1. {i \in DOMAIN refs[ns] : Shows(refs[ns][i], s)}' = showing
  OBVIOUS
<1>2. showing # {} => Max(showing) \in DOMAIN refs[ns]
  BY ShowingPosition
<1>3. Lookup(ns, s) = IF Contents(ns)[s] # None THEN Contents(ns)[s]
                      ELSE IF showing = {} THEN None ELSE maps[refs[ns][Max(showing)].map][s]
  BY DEF Lookup
<1>4. Lookup(ns, s)' = IF Contents(ns)'[s] # None THEN Contents(ns)'[s]
                       ELSE IF showing = {} THEN None ELSE maps'[refs'[ns][Max(showing)].map][s]
  BY <1>1 DEF Lookup
<1> HIDE DEF showing
<1> QED
  BY <1>2, <1>3, <1>4

\* Looking up depends on the mappings of the namespace and its snapshots only.
LEMMA LookupDepends ==
  ASSUME Types, NEW ns \in Namespaces, refs'[ns] = refs[ns], NEW s,
         Contents(ns)'[s] = Contents(ns)[s],
         \A i \in DOMAIN refs[ns] : maps'[refs[ns][i].map] = maps[refs[ns][i].map]
  PROVE  Lookup(ns, s)' = Lookup(ns, s)
<1>1. \A i \in DOMAIN refs[ns] : Shows(refs[ns][i], s)' <=> Shows(refs[ns][i], s)
  BY DEF Shows
<1> QED
  BY <1>1, LookupSame

-----------------------------------------------------------------------------
(* Writing.                                                                *)

LEMMA FreshMapIsNew ==
  ASSUME Types
  PROVE  FreshMap \in Nat /\ FreshMap \notin DOMAIN maps
<1> DEFINE n == Cardinality(DOMAIN maps)
           some == 1 .. n + 1
<1>1. IsFiniteSet(DOMAIN maps) /\ n \in Nat
  BY FS_CardinalityType DEF Types
<1>2. IsFiniteSet(some) /\ Cardinality(some) = n + 1
  <2> HIDE DEF n
  <2>1. 1 \in Int /\ n + 1 \in Int /\ ~(1 > n + 1) /\ (n + 1) - 1 + 1 = n + 1
    BY <1>1
  <2> QED
    BY <2>1, FS_Interval
<1>3. ~(some \subseteq DOMAIN maps)
  <2> SUFFICES ASSUME some \in SUBSET (DOMAIN maps) PROVE FALSE
    OBVIOUS
  <2>1. Cardinality(some) <= n
    <3> HIDE DEF some
    <3> QED
      BY <1>1, FS_Subset DEF n
  <2> HIDE DEF n, some
  <2> QED
    BY <1>1, <1>2, <2>1
<1>4. \E i \in some : i \notin DOMAIN maps
  BY <1>3
<1>5. FreshMap \in some /\ FreshMap \notin DOMAIN maps
  BY <1>4 DEF FreshMap
<1> QED
  BY <1>1, <1>5

\* Operations that neither capture nor install a map, ...
CapturesStay ==
  \A g \in G : /\ op'[g].at = "install" <=> op[g].at = "install"
               /\ op[g].at = "install" => op'[g] = op[g]

\* ... and that leave the snapshots there are, but for what is excluded in one namespace.
SnapshotsStay(ns) ==
  /\ refs' \in [Namespaces -> Seq(Snapshots)]
  /\ \A n \in Namespaces \ {ns} : refs'[n] = refs[n]
  /\ DOMAIN refs'[ns] = DOMAIN refs[ns]
  /\ \A i \in DOMAIN refs[ns] :
       /\ refs'[ns][i].source = refs[ns][i].source
       /\ refs'[ns][i].map = refs[ns][i].map
       /\ refs'[ns][i].captured = refs[ns][i].captured

LEMMA StayingSnapshots ==
  ASSUME NEW ns \in Namespaces, SnapshotsStay(ns), NEW n \in Namespaces
  PROVE  /\ DOMAIN refs'[n] = DOMAIN refs[n]
         /\ \A i \in DOMAIN refs[n] :
              /\ refs'[n][i].source = refs[n][i].source
              /\ refs'[n][i].map = refs[n][i].map
              /\ refs'[n][i].captured = refs[n][i].captured
<1>1. CASE n = ns
  BY <1>1 DEF SnapshotsStay
<1>2. CASE n # ns
  BY <1>2 DEF SnapshotsStay
<1> QED
  BY <1>1, <1>2

LEMMA StayingLive ==
  ASSUME CapturesStay, NEW ns \in Namespaces, SnapshotsStay(ns), NEW current
  PROVE  Live(current, refs', Captures') = Live(current, refs, Captures)
<1>1. Captures' = Captures
  BY DEF CapturesStay, Captures
<1>2. ASSUME NEW n \in Namespaces
      PROVE  {refs'[n][i].map : i \in DOMAIN refs'[n]} = {refs[n][i].map : i \in DOMAIN refs[n]}
  BY StayingSnapshots
<1>3. {{refs'[n][i].map : i \in DOMAIN refs'[n]} : n \in Namespaces}
        = {{refs[n][i].map : i \in DOMAIN refs[n]} : n \in Namespaces}
  <2> DEFINE after(n) == {refs'[n][i].map : i \in DOMAIN refs'[n]}
             before(n) == {refs[n][i].map : i \in DOMAIN refs[n]}
  <2>1. \A n \in Namespaces : after(n) = before(n)
    BY <1>2
  <2> HIDE DEF after, before
  <2>2. {after(n) : n \in Namespaces} = {before(n) : n \in Namespaces}
    BY <2>1
  <2> QED
    BY <2>2 DEF after, before
<1> QED
  BY <1>1, <1>3 DEF Live

\* A write changes one symbol of one namespace.  Nobody else refers to a map that is
\* not marked as shared, and a shared one is copied.
LEMMA WriteChangesOne ==
  ASSUME IInv, NEW ns \in Namespaces, NEW sym \in Symbols, NEW v \in Values \cup {None},
         WriteMapping(ns, sym, v), SnapshotsStay(ns), CapturesStay
  PROVE  /\ Contents(ns)' = [Contents(ns) EXCEPT ![sym] = v]
         /\ \A n \in Namespaces \ {ns} : Contents(n)' = Contents(n)
         /\ \A n \in Namespaces : \A i \in DOMAIN refs[n] :
              maps'[refs[n][i].map] = maps[refs[n][i].map]
         /\ \A g \in G : op[g].at = "install" => maps'[op[g].map] = maps[op[g].map]
         /\ \A i \in DOMAIN maps', s \in Symbols :
              maps'[i][s] = v \/ \E j \in DOMAIN maps : maps'[i][s] = maps[j][s]
         /\ /\ DOMAIN maps' \subseteq Nat /\ IsFiniteSet(DOMAIN maps')
            /\ DOMAIN maps' = Live(mappings', refs', Captures')
            /\ maps' \in [DOMAIN maps' -> Mappings]
            /\ mappings' \in [Namespaces -> Nat]
            /\ shared' \in [Namespaces -> BOOLEAN]
         /\ SharingMarked'
<1> DEFINE target == IF shared[ns] THEN FreshMap ELSE mappings[ns]
           current == [mappings EXCEPT ![ns] = target]
           written == [Contents(ns) EXCEPT ![sym] = v]
           live == Live(current, refs, Captures)
<1>1. Types /\ SharingMarked
  BY DEF IInv
<1>2. /\ mappings' = current
      /\ maps' = [i \in live |-> IF i = target THEN written ELSE maps[i]]
      /\ shared' = [shared EXCEPT ![ns] = FALSE]
  BY DEF WriteMapping
<1>3. target \in Nat /\ (shared[ns] => target \notin DOMAIN maps) /\ (~shared[ns] => target = mappings[ns])
  BY <1>1, FreshMapIsNew DEF Types
<1>4. /\ current \in [Namespaces -> Nat] /\ current[ns] = target
      /\ \A n \in Namespaces \ {ns} : current[n] = mappings[n]
  BY <1>1, <1>3 DEF Types
<1>5. written \in Mappings
  BY <1>1, MapsThere DEF Mappings
<1>6. \A n \in Namespaces \ {ns} : mappings[n] \in DOMAIN maps /\ mappings[n] # target
  BY <1>1, <1>3, MapsThere DEF SharingMarked
<1>7. \A n \in Namespaces : \A i \in DOMAIN refs[n] :
        refs[n][i].map \in DOMAIN maps /\ refs[n][i].map # target
  BY <1>1, <1>3, MapsThere DEF SharingMarked
<1>8. \A g \in G : op[g].at = "install" => op[g].map \in DOMAIN maps /\ op[g].map # target
  BY <1>1, <1>3, MapsThere DEF SharingMarked
<1> HIDE DEF target, current, written
<1>9. live \subseteq DOMAIN maps \cup {target}
  BY <1>4, <1>6, <1>7, <1>8 DEF Live, Captures
<1>10. /\ \A n \in Namespaces : current[n] \in live
       /\ \A n \in Namespaces : \A i \in DOMAIN refs[n] : refs[n][i].map \in live
       /\ \A g \in G : op[g].at = "install" => op[g].map \in live
  BY DEF Live, Captures
<1> HIDE DEF live
<1>11. /\ maps'[target] = written
       /\ \A i \in live : i # target => maps'[i] = maps[i]
       /\ DOMAIN maps' = live
  BY <1>2, <1>4, <1>10
<1>12. Contents(ns)' = [Contents(ns) EXCEPT ![sym] = v]
  BY <1>2, <1>4, <1>11 DEF Contents, written
<1>13. \A n \in Namespaces \ {ns} : Contents(n)' = Contents(n)
  BY <1>2, <1>4, <1>6, <1>10, <1>11 DEF Contents
<1>14. \A n \in Namespaces : \A i \in DOMAIN refs[n] :
         maps'[refs[n][i].map] = maps[refs[n][i].map]
  BY <1>7, <1>10, <1>11
<1>15. \A g \in G : op[g].at = "install" => maps'[op[g].map] = maps[op[g].map]
  BY <1>8, <1>10, <1>11
<1>16. ASSUME NEW i \in DOMAIN maps', NEW s \in Symbols
       PROVE  maps'[i][s] = v \/ \E j \in DOMAIN maps : maps'[i][s] = maps[j][s]
  <2>1. CASE i = target
    <3>1. written[s] = v \/ written[s] = maps[mappings[ns]][s]
      BY <1>1, MapsThere DEF written, Contents, Mappings
    <3> QED
      BY <1>1, <1>11, <2>1, <3>1, MapsThere
  <2>2. CASE i # target
    BY <1>9, <1>11, <2>2
  <2> QED
    BY <2>1, <2>2
<1>17. DOMAIN maps' \subseteq Nat /\ IsFiniteSet(DOMAIN maps')
  <2>1. DOMAIN maps \subseteq Nat /\ IsFiniteSet(DOMAIN maps)
    BY <1>1 DEF Types
  <2>2. IsFiniteSet(DOMAIN maps \cup {target})
    BY <2>1, FS_AddElement
  <2> QED
    BY <1>3, <1>9, <1>11, <2>1, <2>2, FS_Subset
<1>18. DOMAIN maps' = Live(mappings', refs', Captures')
  BY <1>2, <1>11, StayingLive DEF live
<1>19. maps' \in [DOMAIN maps' -> Mappings]
  <2>1. ASSUME NEW i \in live PROVE maps'[i] \in Mappings
    BY <1>1, <1>5, <1>9, <1>11 DEF Types
  <2> QED
    BY <1>2, <1>11, <2>1
<1>20. mappings' \in [Namespaces -> Nat] /\ shared' \in [Namespaces -> BOOLEAN]
  BY <1>1, <1>2, <1>4 DEF Types
<1>21. SharingMarked'
  <2>1. \A m, n \in Namespaces : mappings'[m] = mappings'[n] => m = n
    BY <1>1, <1>2, <1>4, <1>6 DEF SharingMarked
  <2>2. \A n \in Namespaces \ {ns} : shared'[n] = shared[n]
    BY <1>1, <1>2 DEF Types
  <2>3. ASSUME NEW n \in Namespaces, NEW other \in Namespaces, NEW i \in DOMAIN refs'[other],
               refs'[other][i].map = mappings'[n]
        PROVE  shared'[n]
    <3>1. i \in DOMAIN refs[other] /\ refs[other][i].map = mappings'[n]
      BY <2>3, StayingSnapshots
    <3>2. n # ns /\ mappings'[n] = mappings[n]
      BY <1>2, <1>4, <1>7, <3>1
    <3> QED
      BY <1>1, <2>2, <3>1, <3>2 DEF SharingMarked
  <2>4. ASSUME NEW n \in Namespaces, NEW g \in G, op'[g].at = "install", op'[g].map = mappings'[n]
        PROVE  shared'[n]
    <3>1. op[g].at = "install" /\ op[g].map = mappings'[n]
      BY <2>4 DEF CapturesStay
    <3>2. n # ns /\ mappings'[n] = mappings[n]
      BY <1>2, <1>4, <1>8, <3>1
    <3> QED
      BY <1>1, <2>2, <3>1, <3>2 DEF SharingMarked
  <2> QED
    BY <2>1, <2>3, <2>4 DEF SharingMarked
<1> QED
  BY <1>12, <1>13, <1>14, <1>15, <1>16, <1>17, <1>18, <1>19, <1>20, <1>21

LEMMA NextVisible ==
  Types' => \A ns \in Namespaces : Visible(ns)' = [s \in Symbols |-> Lookup(ns, s)']
<1>1. Types => \A ns \in Namespaces : Visible(ns) = [s \in Symbols |-> Lookup(ns, s)]
  BY VisibleIsLookup
<1>2. (Types => \A ns \in Namespaces : Visible(ns) = [s \in Symbols |-> Lookup(ns, s)])'
  BY <1>1, PTL
<1> QED
  BY <1>2

\* A cached map is good as long as what it is built of stays.
LEMMA VisibleDepends ==
  ASSUME Types, Types', NEW ns \in Namespaces,
         refs'[ns] = refs[ns], Contents(ns)' = Contents(ns),
         \A i \in DOMAIN refs[ns] : maps'[refs[ns][i].map] = maps[refs[ns][i].map]
  PROVE  Visible(ns)' = Visible(ns)
<1>1. \A s : Lookup(ns, s)' = Lookup(ns, s)
  BY LookupDepends
<1>2. Visible(ns) = [s \in Symbols |-> Lookup(ns, s)]
  BY VisibleIsLookup
<1>3. Visible(ns)' = [s \in Symbols |-> Lookup(ns, s)']
  BY NextVisible
<1> QED
  BY <1>1, <1>2, <1>3

\* The variables that the maps are not in.
CallTypes ==
  /\ aliases \in [Namespaces -> AliasMaps]
  /\ op \in [G -> Operations]
  /\ ops \in 0 .. MaxOps

\* The parts of the invariant that are about maps.
MapInv == Types /\ SharingMarked /\ SnapshotsKept /\ CacheCurrent /\ SourcesOther

LEMMA WriteKeepsMaps ==
  ASSUME IInv, NEW ns \in Namespaces, NEW sym \in Symbols, NEW v \in Values \cup {None},
         WriteMapping(ns, sym, v), SnapshotsStay(ns), CapturesStay, CallTypes'
  PROVE  MapInv'
<1>1. Types /\ SnapshotsKept /\ CacheCurrent /\ SourcesOther
  BY DEF IInv
<1>2. cached' = [cached EXCEPT ![ns] = None]
  BY DEF WriteMapping
<1>3. Types'
  <2>1. cached' \in [Namespaces -> Mappings \cup {None}]
    BY <1>1, <1>2 DEF Types
  <2>2. refs' \in [Namespaces -> Seq(Snapshots)]
    BY DEF SnapshotsStay
  <2> QED
    BY <2>1, <2>2, WriteChangesOne DEF Types, CallTypes
<1>4. SharingMarked'
  BY WriteChangesOne
<1>5. SnapshotsKept'
  <2>1. ASSUME NEW n \in Namespaces, NEW i \in DOMAIN refs'[n]
        PROVE  maps'[refs'[n][i].map] = refs'[n][i].captured
    BY <1>1, WriteChangesOne, StayingSnapshots DEF SnapshotsKept
  <2>2. ASSUME NEW g \in G, op'[g].at = "install"
        PROVE  maps'[op'[g].map] = op'[g].captured
    BY <1>1, <2>2, WriteChangesOne DEF SnapshotsKept, CapturesStay
  <2> QED
    BY <2>1, <2>2 DEF SnapshotsKept
<1>6. CacheCurrent'
  <2> SUFFICES ASSUME NEW n \in Namespaces, cached'[n] # None
               PROVE  cached'[n] = Visible(n)'
    BY DEF CacheCurrent
  <2>1. n # ns /\ cached'[n] = cached[n]
    BY <1>1, <1>2 DEF Types
  <2>2. Visible(n)' = Visible(n)
    <3>1. refs'[n] = refs[n]
      BY <2>1 DEF SnapshotsStay
    <3>2. /\ Contents(n)' = Contents(n)
          /\ \A i \in DOMAIN refs[n] : maps'[refs[n][i].map] = maps[refs[n][i].map]
      BY <2>1, WriteChangesOne
    <3> QED
      BY <1>1, <1>3, <3>1, <3>2, VisibleDepends
  <2> QED
    BY <1>1, <2>1, <2>2 DEF CacheCurrent
<1>7. SourcesOther'
  <2>1. ASSUME NEW n \in Namespaces, NEW i \in DOMAIN refs'[n]
        PROVE  refs'[n][i].source # n
    BY <1>1, StayingSnapshots DEF SourcesOther
  <2>2. ASSUME NEW g \in G, op'[g].at = "install"
        PROVE  op'[g].source # op'[g].ns
    BY <1>1, <2>2 DEF SourcesOther, CapturesStay
  <2> QED
    BY <2>1, <2>2 DEF SourcesOther
<1> QED
  BY <1>3, <1>4, <1>5, <1>6, <1>7 DEF MapInv

\* The cached maps may be rebuilt or forgotten while the maps stay.
LEMMA CachingKeepsMaps ==
  ASSUME IInv, UNCHANGED <<maps, mappings, shared>>, NEW ns \in Namespaces,
         SnapshotsStay(ns), CapturesStay, CallTypes',
         refs' = refs \/ cached'[ns] = None,
         cached' = cached \/ cached' = [cached EXCEPT ![ns] = None]
           \/ cached' = [cached EXCEPT ![ns] = Visible(ns)]
  PROVE  MapInv'
<1>1. Types /\ SharingMarked /\ SnapshotsKept /\ CacheCurrent /\ SourcesOther
  BY DEF IInv
<1>2. Types'
  <2>1. cached' \in [Namespaces -> Mappings \cup {None}]
    BY <1>1, VisibleIsLookup DEF Types
  <2>2. refs' \in [Namespaces -> Seq(Snapshots)]
    BY DEF SnapshotsStay
  <2>3. DOMAIN maps' = Live(mappings', refs', Captures')
    BY <1>1, StayingLive DEF Types
  <2>4. maps' \in [DOMAIN maps' -> Mappings] /\ IsFiniteSet(DOMAIN maps') /\ DOMAIN maps' \subseteq Nat
    BY <1>1 DEF Types
  <2> QED
    BY <1>1, <2>1, <2>2, <2>3, <2>4 DEF Types, CallTypes
<1>3. SharingMarked'
  <2>1. \A m, n \in Namespaces : mappings'[m] = mappings'[n] => m = n
    BY <1>1 DEF SharingMarked
  <2>2. ASSUME NEW n \in Namespaces, NEW other \in Namespaces, NEW i \in DOMAIN refs'[other],
               refs'[other][i].map = mappings'[n]
        PROVE  shared'[n]
    BY <1>1, <2>2, StayingSnapshots DEF SharingMarked
  <2>3. ASSUME NEW n \in Namespaces, NEW g \in G, op'[g].at = "install", op'[g].map = mappings'[n]
        PROVE  shared'[n]
    BY <1>1, <2>3 DEF CapturesStay, SharingMarked
  <2> QED
    BY <2>1, <2>2, <2>3 DEF SharingMarked
<1>4. SnapshotsKept'
  <2>1. ASSUME NEW n \in Namespaces, NEW i \in DOMAIN refs'[n]
        PROVE  maps'[refs'[n][i].map] = refs'[n][i].captured
    BY <1>1, StayingSnapshots DEF SnapshotsKept
  <2>2. ASSUME NEW g \in G, op'[g].at = "install"
        PROVE  maps'[op'[g].map] = op'[g].captured
    BY <1>1, <2>2 DEF SnapshotsKept, CapturesStay
  <2> QED
    BY <2>1, <2>2 DEF SnapshotsKept
<1>5. CacheCurrent'
  <2> SUFFICES ASSUME NEW n \in Namespaces, cached'[n] # None
               PROVE  cached'[n] = Visible(n)'
    BY DEF CacheCurrent
  <2>1. refs'[n] = refs[n]
    BY DEF SnapshotsStay
  <2>2. Visible(n)' = Visible(n)
    BY <1>1, <1>2, <2>1, VisibleDepends DEF Contents
  <2>3. cached'[n] \in {cached[n], Visible(n)}
    BY <1>1 DEF Types
  <2> QED
    BY <1>1, <2>2, <2>3 DEF CacheCurrent
<1>6. SourcesOther'
  <2>1. ASSUME NEW n \in Namespaces, NEW i \in DOMAIN refs'[n]
        PROVE  refs'[n][i].source # n
    BY <1>1, StayingSnapshots DEF SourcesOther
  <2>2. ASSUME NEW g \in G, op'[g].at = "install"
        PROVE  op'[g].source # op'[g].ns
    BY <1>1, <2>2 DEF SourcesOther, CapturesStay
  <2> QED
    BY <2>1, <2>2 DEF SourcesOther
<1> QED
  BY <1>2, <1>3, <1>4, <1>5, <1>6 DEF MapInv

-----------------------------------------------------------------------------
(* The initial states and the steps.                                       *)

LEMMA CountedLater ==
  ASSUME Types, NEW v \in Values \cup {None}, Counted(v, ops), ops' = ops \/ ops' = ops + 1
  PROVE  Counted(v, ops')
<1>1. IsVar(v) => v \in Vars
  BY DEF IsVar, Values
<1>2. v \in Vars => v.n \in Int
  BY DEF Vars
<1>3. ops \in Int
  BY DEF Types
<1> QED
  BY <1>1, <1>2, <1>3 DEF Counted

\* What a write leaves in the maps is counted if what it writes is.
LEMMA MapsStayCounted ==
  ASSUME IInv, NEW v, Counted(v, ops'), ops' = ops \/ ops' = ops + 1,
         \A i \in DOMAIN maps', s \in Symbols :
           maps'[i][s] = v \/ \E j \in DOMAIN maps : maps'[i][s] = maps[j][s]
  PROVE  \A i \in DOMAIN maps', s \in Symbols : Counted(maps'[i][s], ops')
<1>1. Types /\ VarsCounted
  BY DEF IInv
<1>2. ASSUME NEW j \in DOMAIN maps, NEW s \in Symbols
      PROVE  Counted(maps[j][s], ops')
  <2>1. maps[j][s] \in Values \cup {None}
    BY <1>1 DEF Types, Mappings
  <2> QED
    BY <1>1, <2>1, CountedLater DEF VarsCounted
<1> QED
  BY <1>2

\* Operations in progress that stay as they are.
LEMMA OthersPending ==
  ASSUME IInv, NEW g \in G, op'[g] = op[g], ops' = ops \/ ops' = ops + 1
  PROVE  /\ op'[g].at = "refer" => Len(op'[g].vars) > 0 /\ Len(op'[g].names) = Len(op'[g].vars)
         /\ op'[g].at = "alias" => op'[g].loaded[op'[g].alias] = None
         /\ op'[g].at = "refer" => \A i \in DOMAIN op'[g].vars : Counted(op'[g].vars[i], ops')
<1>1. Types /\ OperationsPending /\ VarsCounted
  BY DEF IInv
<1>2. ASSUME op[g].at = "refer", NEW i \in DOMAIN op[g].vars
      PROVE  Counted(op[g].vars[i], ops')
  <2>1. op[g].vars \in Seq(Values \cup {None})
    BY <1>1, <1>2, OperationFields DEF ReferOps
  <2>2. op[g].vars[i] \in Values \cup {None}
    BY <1>2, <2>1
  <2> QED
    BY <1>1, <1>2, <2>2, CountedLater DEF VarsCounted
<1> QED
  BY <1>1, <1>2 DEF OperationsPending

\* An operation done in one step.
LEMMA OneStep ==
  ASSUME IInv, MapInv', op' = op, ops' = ops \/ ops' = ops + 1, NEW v, Counted(v, ops'),
         \A i \in DOMAIN maps', s \in Symbols :
           maps'[i][s] = v \/ \E j \in DOMAIN maps : maps'[i][s] = maps[j][s]
  PROVE  IInv'
<1>1. \A i \in DOMAIN maps', s \in Symbols : Counted(maps'[i][s], ops')
  BY MapsStayCounted
<1>2. OperationsPending' /\ VarsCounted'
  BY <1>1, OthersPending DEF OperationsPending, VarsCounted
<1> QED
  BY <1>2 DEF IInv, MapInv

\* A step of one operation in progress.
LEMMA OneOperation ==
  ASSUME IInv, MapInv', NEW g \in G, \A h \in G \ {g} : op'[h] = op[h],
         ops' = ops \/ ops' = ops + 1, NEW v, Counted(v, ops'),
         \A i \in DOMAIN maps', s \in Symbols :
           maps'[i][s] = v \/ \E j \in DOMAIN maps : maps'[i][s] = maps[j][s],
         op'[g].at = "refer" =>
           /\ Len(op'[g].vars) > 0 /\ Len(op'[g].names) = Len(op'[g].vars)
           /\ \A i \in DOMAIN op'[g].vars : Counted(op'[g].vars[i], ops'),
         op'[g].at = "alias" => op'[g].loaded[op'[g].alias] = None
  PROVE  IInv'
<1>1. \A i \in DOMAIN maps', s \in Symbols : Counted(maps'[i][s], ops')
  BY MapsStayCounted
<1>2. ASSUME NEW h \in G
      PROVE  /\ op'[h].at = "refer" =>
                  Len(op'[h].vars) > 0 /\ Len(op'[h].names) = Len(op'[h].vars)
             /\ op'[h].at = "alias" => op'[h].loaded[op'[h].alias] = None
             /\ op'[h].at = "refer" => \A i \in DOMAIN op'[h].vars : Counted(op'[h].vars[i], ops')
  <2>1. CASE h = g
    BY <2>1
  <2>2. CASE h # g
    BY <2>2, OthersPending
  <2> QED
    BY <2>1, <2>2
<1>3. OperationsPending'
  BY <1>2 DEF OperationsPending
<1>4. VarsCounted'
  BY <1>1, <1>2 DEF VarsCounted
<1> QED
  BY <1>3, <1>4 DEF IInv, MapInv

LEMMA NoneIsCounted == \A n : Counted(None, n) /\ Counted(HostClass, n)
BY DEF Counted, IsVar

\* The Var that is interned is a new one.
LEMMA NewVarIsNew ==
  ASSUME IInv, ops < MaxOps, NEW ns \in Namespaces, NEW sym \in Symbols
  PROVE  /\ NewVar(ns, sym) \in Vars /\ NewVar(ns, sym) \notin Existing
         /\ NewVar(ns, sym).ns = ns /\ NewVar(ns, sym).sym = sym
         /\ NewVar(ns, sym).n <= ops + 2
<1> DEFINE var(i) == [ns |-> ns, sym |-> sym, n |-> i]
           free == {i \in 1 .. MaxOps + 1 : var(i) \notin Existing}
<1>1. Types /\ VarsCounted
  BY DEF IInv
<1>2. ops \in Int /\ 0 <= ops /\ MaxOps \in Nat
  BY <1>1, NamespaceAssumption DEF Types
<1>3. ASSUME NEW v \in Existing
      PROVE  v.n <= ops + 1
  <2>1. IsVar(v)
    BY DEF Existing, Found
  <2>2. CASE \E i \in DOMAIN maps, s \in Symbols : v = maps[i][s]
    BY <1>1, <2>1, <2>2 DEF VarsCounted, Counted
  <2>3. CASE \E g \in G : op[g].at = "refer" /\ v \in ToSet(op[g].vars)
    <3>1. PICK g \in G : op[g].at = "refer" /\ v \in ToSet(op[g].vars)
      BY <2>3
    <3>2. PICK i \in DOMAIN op[g].vars : v = op[g].vars[i]
      BY <3>1 DEF ToSet
    <3> QED
      BY <1>1, <2>1, <3>1, <3>2 DEF VarsCounted, Counted
  <2> QED
    BY <2>2, <2>3 DEF Existing, Found
<1>4. ops + 2 \in free
  <2>1. var(ops + 2).n = ops + 2
    OBVIOUS
  <2> HIDE DEF var
  <2>2. var(ops + 2) \notin Existing
    BY <1>2, <1>3, <2>1
  <2> QED
    BY <1>2, <2>2
<1>5. free \in SUBSET Nat
  BY <1>2
<1> HIDE DEF free
<1>6. Min(free) \in free /\ Min(free) <= ops + 2
  BY <1>4, <1>5, SmallestIsMin
<1>7. NewVar(ns, sym) = var(Min(free))
  BY DEF NewVar, free
<1>8. Min(free) \in 1 .. MaxOps + 1 /\ var(Min(free)) \notin Existing
  BY <1>6 DEF free
<1> QED
  BY <1>6, <1>7, <1>8 DEF Vars

LEMMA SnapshotsUnchanged ==
  ASSUME Types, refs' = refs, NEW ns \in Namespaces
  PROVE  SnapshotsStay(ns)
BY DEF Types, SnapshotsStay

LEMMA InitInvariant == Init => IInv
<1> SUFFICES ASSUME Init PROVE IInv
  OBVIOUS
<1> USE NamespaceAssumption
<1> DEFINE S == 1 .. Cardinality(Namespaces)
           order == CHOOSE o \in SetToSeqs(Namespaces) : TRUE
           initial(ns) == [s \in Symbols |->
             CASE <<ns, s>> \in Defined -> [ns |-> ns, sym |-> s, n |-> 1]
               [] <<ns, s>> \notin Defined /\ s \in Seeded -> HostClass
               [] OTHER -> None]
<1>1. Cardinality(Namespaces) \in Nat /\ ExistsBijection(S, Namespaces)
  BY FS_CardinalityType
<1>2. IsFiniteSet(S) /\ Cardinality(S) = Cardinality(Namespaces)
  BY <1>1, FS_Interval
<1>3. /\ order \in [S -> Namespaces]
      /\ \A i, j \in S : i # j => order[i] # order[j]
  <2>1. PICK f : f \in Bijection(S, Namespaces)
    BY <1>1 DEF ExistsBijection
  <2>2. f \in SetToSeqs(Namespaces)
    BY <2>1 DEF Bijection, Injection, IsInjective, SetToSeqs
  <2>3. order \in SetToSeqs(Namespaces)
    BY <2>2
  <2> HIDE DEF order
  <2> QED
    BY <2>3 DEF SetToSeqs
<1>4. /\ maps = [i \in DOMAIN order |-> initial(order[i])]
      /\ mappings = [ns \in Namespaces |-> CHOOSE i \in DOMAIN order : order[i] = ns]
  BY DEF Init
<1> HIDE DEF order
<1>5. order \in Surjection(S, Namespaces)
  <2>1. order \in Injection(S, Namespaces)
    BY <1>3 DEF Injection, IsInjective
  <2> HIDE DEF S
  <2> QED
    BY <1>2, <2>1, FS_Injection
<1>6. \A ns \in Namespaces : mappings[ns] \in S /\ order[mappings[ns]] = ns
  BY <1>3, <1>4, <1>5 DEF Surjection
<1>7. \A i \in S : i \in {mappings[ns] : ns \in Namespaces}
  <2> SUFFICES ASSUME NEW i \in S PROVE \E ns \in Namespaces : i = mappings[ns]
    OBVIOUS
  <2>1. order[i] \in Namespaces /\ i = mappings[order[i]]
    BY <1>3, <1>6
  <2> QED
    BY <2>1
<1>8. \A g \in G : op[g] = Idle /\ op[g].at = "idle"
  BY DEF Init, Idle
<1>9. Captures = {}
  BY <1>8 DEF Captures
<1>10. Live(mappings, refs, Captures) = S
  <2>1. \A ns \in Namespaces : {refs[ns][i].map : i \in DOMAIN refs[ns]} = {}
    BY DEF Init
  <2>2. UNION {{refs[ns][i].map : i \in DOMAIN refs[ns]} : ns \in Namespaces} = {}
    BY <2>1
  <2>3. {mappings[ns] : ns \in Namespaces} = S
    BY <1>6, <1>7
  <2> QED
    BY <1>9, <2>2, <2>3 DEF Live
<1>11. DOMAIN maps = S /\ S \subseteq Nat
  BY <1>1, <1>3, <1>4
<1>12. ASSUME NEW ns \in Namespaces, NEW s \in Symbols
       PROVE  initial(ns)[s] \in Values \cup {None} /\ Counted(initial(ns)[s], 0)
  <2>1. [ns |-> ns, sym |-> s, n |-> 1] \in Vars
    BY DEF Vars
  <2>2. Counted([ns |-> ns, sym |-> s, n |-> 1], 0)
    BY DEF Counted
  <2>3. Counted(HostClass, 0) /\ Counted(None, 0)
    BY NoneIsCounted
  <2> HIDE DEF NamespaceAssumption
  <2>4. CASE <<ns, s>> \in Defined
    <3>1. initial(ns)[s] = [ns |-> ns, sym |-> s, n |-> 1]
      BY <2>4
    <3> QED
      BY <2>1, <2>2, <3>1 DEF Values
  <2>5. CASE <<ns, s>> \notin Defined /\ s \in Seeded
    <3>1. initial(ns)[s] = HostClass
      BY <2>5
    <3> QED
      BY <2>3, <3>1 DEF Values
  <2>6. CASE ~(<<ns, s>> \in Defined) /\ ~(<<ns, s>> \notin Defined /\ s \in Seeded)
    <3>1. initial(ns)[s] = None
      BY <2>6
    <3> QED
      BY <2>3, <3>1
  <2> QED
    BY <2>4, <2>5, <2>6
<1>13. \A ns \in Namespaces : initial(ns) \in Mappings
  BY <1>12 DEF Mappings
<1>14. \A i \in S : maps[i] = initial(order[i]) /\ order[i] \in Namespaces
  BY <1>3, <1>4
<1> HIDE DEF initial
<1>15. Types
  <2>1. maps \in [DOMAIN maps -> Mappings]
    BY <1>3, <1>4, <1>11, <1>13, <1>14
  <2>2. mappings \in [Namespaces -> Nat]
    BY <1>4, <1>6, <1>11
  <2>3. refs \in [Namespaces -> Seq(Snapshots)]
    BY DEF Init
  <2>4. op \in [G -> Operations] /\ aliases \in [Namespaces -> AliasMaps] /\ ops \in 0 .. MaxOps
    BY DEF Init, Operations, AliasMaps, NoAliases
  <2>5. shared \in [Namespaces -> BOOLEAN] /\ cached \in [Namespaces -> Mappings \cup {None}]
    BY DEF Init
  <2> QED
    BY <1>2, <1>10, <1>11, <2>1, <2>2, <2>3, <2>4, <2>5 DEF Types
<1>16. SharingMarked /\ SnapshotsKept /\ CacheCurrent /\ SourcesOther
  <2>1. \A ns \in Namespaces : DOMAIN refs[ns] = {}
    BY DEF Init
  <2>2. \A m, n \in Namespaces : mappings[m] = mappings[n] => m = n
    BY <1>6
  <2>3. \A ns \in Namespaces : cached[ns] = None
    BY DEF Init
  <2> QED
    BY <1>8, <2>1, <2>2, <2>3 DEF SharingMarked, SnapshotsKept, CacheCurrent, SourcesOther
<1>17. OperationsPending /\ VarsCounted
  <2>1. ops = 0
    BY DEF Init
  <2> QED
    BY <1>8, <1>11, <1>12, <1>14, <2>1 DEF OperationsPending, VarsCounted
<1> QED
  BY <1>15, <1>16, <1>17 DEF IInv

\* What a namespace maps a symbol to is a value some map has.
LEMMA LookupIsInMaps ==
  ASSUME Types, NEW ns \in Namespaces, NEW s \in Symbols
  PROVE  Lookup(ns, s) = None \/ \E j \in DOMAIN maps : Lookup(ns, s) = maps[j][s]
<1> DEFINE showing == {i \in DOMAIN refs[ns] : Shows(refs[ns][i], s)}
<1>1. Lookup(ns, s) = IF Contents(ns)[s] # None THEN Contents(ns)[s]
                      ELSE IF showing = {} THEN None ELSE maps[refs[ns][Max(showing)].map][s]
  BY DEF Lookup
<1>2. showing # {} => Max(showing) \in DOMAIN refs[ns]
  BY ShowingPosition
<1> HIDE DEF showing
<1> QED
  BY <1>1, <1>2, MapsThere DEF Contents

LEMMA LookupIsCounted ==
  ASSUME IInv, NEW ns \in Namespaces, NEW s \in Symbols
  PROVE  Lookup(ns, s) \in Values \cup {None} /\ Counted(Lookup(ns, s), ops)
<1>1. Types /\ VarsCounted
  BY DEF IInv
<1>2. Lookup(ns, s) = None \/ \E j \in DOMAIN maps : Lookup(ns, s) = maps[j][s]
  BY <1>1, LookupIsInMaps
<1> QED
  BY <1>1, <1>2, NoneIsCounted DEF VarsCounted, Types, Mappings

LEMMA BeginCounts ==
  ASSUME Types, Begin
  PROVE  ops < MaxOps /\ ops' = ops + 1 /\ ops' \in 0 .. MaxOps
BY NamespaceAssumption DEF Types, Begin

\* The calls that are done in one step.
LEMMA CallsOfOneStep ==
  ASSUME Types, Begin, op' = op, aliases' = aliases
  PROVE  CapturesStay /\ CallTypes' /\ ops' = ops + 1
BY BeginCounts DEF Types, CapturesStay, CallTypes

\* Nothing is written.
LEMMA MapsUnchanged ==
  ASSUME IInv, UNCHANGED mapState, NEW ns \in Namespaces, CapturesStay, CallTypes'
  PROVE  MapInv'
<1>1. SnapshotsStay(ns)
  BY SnapshotsUnchanged DEF IInv, mapState
<1> QED
  BY <1>1, CachingKeepsMaps DEF mapState

LEMMA InternKeeps ==
  ASSUME IInv, NEW ns \in Namespaces, NEW sym \in Symbols, Intern(ns, sym)
  PROVE  IInv'
<1>1. Types /\ CapturesStay /\ CallTypes' /\ ops' = ops + 1 /\ op' = op /\ ops < MaxOps
  BY CallsOfOneStep DEF IInv, Intern, Begin
<1>2. CASE UNCHANGED mapState
  BY <1>1, <1>2, MapsUnchanged, OneStep, NoneIsCounted DEF mapState
<1>3. CASE WriteMapping(ns, sym, NewVar(ns, sym)) /\ UNCHANGED refs
  <2> DEFINE v == NewVar(ns, sym)
  <2>1. v \in Vars /\ v.n <= ops + 2
    BY <1>1, NewVarIsNew
  <2> HIDE DEF v
  <2>2. v \in Values \cup {None} /\ Counted(v, ops')
    <3>1. ops \in Int /\ v.n \in Int
      BY <1>1, <2>1 DEF Types, Vars
    <3> QED
      BY <1>1, <2>1, <3>1 DEF Values, Counted
  <2>3. SnapshotsStay(ns) /\ WriteMapping(ns, sym, v)
    BY <1>1, <1>3, SnapshotsUnchanged DEF v
  <2>4. MapInv'
    BY <1>1, <2>2, <2>3, WriteKeepsMaps
  <2>5. \A i \in DOMAIN maps', s \in Symbols :
          maps'[i][s] = v \/ \E j \in DOMAIN maps : maps'[i][s] = maps[j][s]
    BY <1>1, <2>2, <2>3, WriteChangesOne
  <2> QED
    BY <1>1, <2>2, <2>4, <2>5, OneStep
<1> QED
  BY <1>2, <1>3 DEF Intern

\* Excluding a symbol from the snapshots leaves their maps.
LEMMA ExcludingStays ==
  ASSUME Types, NEW ns \in Namespaces, NEW sym \in Symbols,
         refs' = [refs EXCEPT ![ns] = [i \in DOMAIN @ |-> Excluded(@[i], sym)]]
  PROVE  SnapshotsStay(ns)
<1> DEFINE old == refs[ns]
           new == [i \in DOMAIN old |-> Excluded(old[i], sym)]
<1>1. old \in Seq(Snapshots) /\ DOMAIN old = 1 .. Len(old) /\ Len(old) \in Nat
  BY DEF Types
<1>2. ASSUME NEW i \in DOMAIN old
      PROVE  /\ new[i] \in Snapshots
             /\ new[i].source = old[i].source /\ new[i].map = old[i].map
             /\ new[i].captured = old[i].captured
  <2>1. old[i] \in Snapshots
    BY <1>1, <1>2
  <2> QED
    BY <1>2, <2>1 DEF Excluded, Snapshots
<1>3. new \in Seq(Snapshots)
  <2>1. new = [i \in 1 .. Len(old) |-> new[i]] /\ \A i \in 1 .. Len(old) : new[i] \in Snapshots
    BY <1>1, <1>2
  <2> HIDE DEF new
  <2>2. new \in [1 .. Len(old) -> Snapshots]
    BY <2>1
  <2> HIDE DEF old
  <2> QED
    BY <1>1, <2>2
<1>4. /\ refs' \in [Namespaces -> Seq(Snapshots)] /\ refs'[ns] = new
      /\ \A n \in Namespaces \ {ns} : refs'[n] = refs[n]
  <2> HIDE DEF new
  <2>1. refs' = [refs EXCEPT ![ns] = new]
    BY DEF new
  <2> QED
    BY <1>3, <2>1 DEF Types
<1> QED
  BY <1>2, <1>4 DEF SnapshotsStay

LEMMA UnmapKeeps ==
  ASSUME IInv, NEW ns \in Namespaces, NEW sym \in Symbols, Unmap(ns, sym)
  PROVE  IInv'
<1>1. Types /\ CapturesStay /\ CallTypes' /\ ops' = ops + 1 /\ op' = op
  BY CallsOfOneStep DEF IInv, Unmap
<1>2. SnapshotsStay(ns)
  BY <1>1, ExcludingStays DEF Unmap
<1>3. CASE WriteMapping(ns, sym, None)
  <2>1. MapInv'
    BY <1>1, <1>2, <1>3, WriteKeepsMaps
  <2>2. \A i \in DOMAIN maps', s \in Symbols :
          maps'[i][s] = None \/ \E j \in DOMAIN maps : maps'[i][s] = maps[j][s]
    BY <1>1, <1>2, <1>3, WriteChangesOne
  <2> QED
    BY <1>1, <2>1, <2>2, OneStep, NoneIsCounted
<1>4. CASE cached' = [cached EXCEPT ![ns] = None] /\ UNCHANGED <<maps, mappings, shared>>
  <2>1. cached'[ns] = None
    BY <1>1, <1>4 DEF Types
  <2>2. MapInv'
    BY <1>1, <1>2, <1>4, <2>1, CachingKeepsMaps
  <2> QED
    BY <1>1, <1>4, <2>2, OneStep, NoneIsCounted
<1> QED
  BY <1>3, <1>4 DEF Unmap

LEMMA ReferenceKeeps ==
  ASSUME IInv, NEW ns \in Namespaces, NEW sym \in Symbols, NEW v \in Values,
         Reference(ns, sym, v), CapturesStay, CallTypes'
  PROVE  /\ MapInv'
         /\ \A i \in DOMAIN maps', s \in Symbols :
              maps'[i][s] = v \/ \E j \in DOMAIN maps : maps'[i][s] = maps[j][s]
<1>1. SnapshotsStay(ns)
  BY SnapshotsUnchanged DEF IInv, Reference
<1>2. CASE UNCHANGED <<maps, mappings, shared, cached>>
  BY <1>2, MapsUnchanged DEF Reference, mapState
<1>3. CASE WriteMapping(ns, sym, v)
  BY <1>1, <1>3, WriteKeepsMaps, WriteChangesOne
<1> QED
  BY <1>2, <1>3 DEF Reference

LEMMA ReferKeeps ==
  ASSUME IInv, NEW ns \in Namespaces, NEW sym \in Symbols, NEW v \in Values,
         Counted(v, ops), Refer(ns, sym, v)
  PROVE  IInv'
<1>1. Types /\ CapturesStay /\ CallTypes' /\ ops' = ops + 1 /\ op' = op /\ Reference(ns, sym, v)
  BY CallsOfOneStep DEF IInv, Refer
<1>2. Counted(v, ops')
  BY <1>1, CountedLater
<1> QED
  BY <1>1, <1>2, ReferenceKeeps, OneStep

LEMMA ReadMappingsKeeps ==
  ASSUME IInv, NEW ns \in Namespaces, ReadMappings(ns)
  PROVE  IInv'
<1>1. Types /\ CapturesStay /\ CallTypes' /\ ops' = ops + 1 /\ op' = op
  BY CallsOfOneStep DEF IInv, ReadMappings
<1>2. SnapshotsStay(ns)
  BY <1>1, SnapshotsUnchanged DEF ReadMappings
<1>3. MapInv'
  BY <1>1, <1>2, CachingKeepsMaps DEF ReadMappings
<1> QED
  BY <1>1, <1>3, OneStep, NoneIsCounted DEF ReadMappings

-----------------------------------------------------------------------------
(* The operations in several steps.                                        *)

\* A goroutine does something that is neither a capture nor an installation.
LEMMA OtherCallTypes ==
  ASSUME Types, NEW g \in G, NEW o \in Operations, op' = [op EXCEPT ![g] = o],
         o.at # "install", op[g].at # "install",
         aliases' \in [Namespaces -> AliasMaps], ops' \in 0 .. MaxOps
  PROVE  /\ CapturesStay /\ CallTypes' /\ op'[g] = o
         /\ \A h \in G \ {g} : op'[h] = op[h]
<1>1. op \in [G -> Operations]
  BY DEF Types
<1>2. op' \in [G -> Operations] /\ op'[g] = o /\ \A h \in G \ {g} : op'[h] = op[h]
  BY <1>1
<1> QED
  BY <1>2 DEF CapturesStay, CallTypes

LEMMA StartReferAllKeeps ==
  ASSUME IInv, NEW g \in G, NEW ns \in Namespaces, NEW source \in Namespaces,
         NEW list \in RefLists, StartReferAll(g, ns, source, list)
  PROVE  IInv'
<1>1. Types /\ VarsCounted
  BY DEF IInv
<1>2. ops' = ops + 1 /\ ops' \in 0 .. MaxOps /\ op[g] = Idle /\ UNCHANGED mapState /\ aliases' = aliases
  BY <1>1, BeginCounts DEF StartReferAll
<1> DEFINE names == [i \in DOMAIN list |-> list[i][2]]
           found == [i \in DOMAIN list |-> Contents(source)[list[i][1]]]
           o == [at |-> "refer", ns |-> ns, names |-> names, vars |-> found]
<1>3. /\ list \in Seq(Symbols \X Symbols) /\ list # <<>>
      /\ DOMAIN list = 1 .. Len(list) /\ Len(list) \in Nat
  BY NamespaceAssumption
<1>4. Len(list) > 0
  BY <1>3
<1>5. ASSUME NEW i \in DOMAIN list
      PROVE  names[i] \in Symbols /\ found[i] \in Values \cup {None} /\ Counted(found[i], ops)
  <2>1. list[i] \in Symbols \X Symbols
    BY <1>3
  <2>2. list[i][1] \in Symbols /\ list[i][2] \in Symbols
    BY <2>1
  <2>3. mappings[source] \in DOMAIN maps /\ Contents(source) \in Mappings
    BY <1>1, MapsThere
  <2>4. Counted(Contents(source)[list[i][1]], ops)
    BY <1>1, <2>2, <2>3 DEF VarsCounted, Contents
  <2> QED
    BY <2>2, <2>3, <2>4 DEF Mappings
<1>6. /\ names \in Seq(Symbols) /\ Len(names) = Len(list)
      /\ found \in Seq(Values \cup {None}) /\ Len(found) = Len(list)
  <2>1. names \in [1 .. Len(list) -> Symbols] /\ found \in [1 .. Len(list) -> Values \cup {None}]
    BY <1>3, <1>5
  <2> DEFINE n == Len(list)
  <2>2. n \in Nat /\ names \in [1 .. n -> Symbols] /\ found \in [1 .. n -> Values \cup {None}]
    BY <1>3, <2>1
  <2> HIDE DEF names, found, n
  <2>3. \A S, q : q \in [1 .. n -> S] => q \in Seq(S) /\ Len(q) = n
    BY <2>2
  <2>4. names \in Seq(Symbols) /\ Len(names) = n
    BY <2>2, <2>3
  <2>5. found \in Seq(Values \cup {None}) /\ Len(found) = n
    BY <2>2, <2>3
  <2> QED
    BY <2>4, <2>5 DEF n
<1>7. \A i \in DOMAIN found : Counted(found[i], ops')
  BY <1>1, <1>2, <1>5, CountedLater
<1> HIDE DEF names, found
<1>8. /\ o \in Operations /\ o.at = "refer" /\ o.names = names /\ o.vars = found
      /\ op' = [op EXCEPT ![g] = o]
  BY <1>6 DEF Operations, ReferOps, StartReferAll, names, found
<1> HIDE DEF o
<1>9. op[g].at # "install" /\ aliases' \in [Namespaces -> AliasMaps]
  BY <1>1, <1>2 DEF Idle, Types
<1>10. /\ CapturesStay /\ CallTypes' /\ op'[g] = o
       /\ \A h \in G \ {g} : op'[h] = op[h]
  BY <1>1, <1>2, <1>8, <1>9, OtherCallTypes
<1>11. MapInv'
  BY <1>2, <1>10, MapsUnchanged
<1>12. \A i \in DOMAIN maps', s \in Symbols :
         maps'[i][s] = None \/ \E j \in DOMAIN maps : maps'[i][s] = maps[j][s]
  BY <1>2 DEF mapState
<1>13. op'[g].at = "refer" =>
         /\ Len(op'[g].vars) > 0 /\ Len(op'[g].names) = Len(op'[g].vars)
         /\ \A i \in DOMAIN op'[g].vars : Counted(op'[g].vars[i], ops')
  BY <1>4, <1>6, <1>7, <1>8, <1>10
<1>14. op'[g].at # "alias"
  BY <1>8, <1>10
<1> QED
  BY <1>2, <1>10, <1>11, <1>12, <1>13, <1>14, OneOperation, NoneIsCounted

\* The next symbol and value of a ReferAll.
LEMMA NextToRefer ==
  ASSUME IInv, NEW g \in G, op[g].at = "refer"
  PROVE  /\ op[g].ns \in Namespaces /\ Head(op[g].names) \in Symbols
         /\ Head(op[g].vars) \in Values \cup {None}
         /\ IsVar(Head(op[g].vars)) => Head(op[g].vars) \in Values
         /\ Counted(Head(op[g].vars), ops)
<1>1. Types /\ OperationsPending /\ VarsCounted
  BY DEF IInv
<1>2. op[g] \in ReferOps
  BY <1>1, OperationFields
<1>3. op[g].names \in Seq(Symbols) /\ op[g].vars \in Seq(Values \cup {None})
  BY <1>2 DEF ReferOps
<1>4. Len(op[g].vars) > 0 /\ Len(op[g].names) > 0
  BY <1>1 DEF OperationsPending
<1>5. 1 \in DOMAIN op[g].vars /\ Head(op[g].vars) = op[g].vars[1]
      /\ Head(op[g].vars) \in Values \cup {None} /\ Head(op[g].names) \in Symbols
  BY <1>3, <1>4
<1>6. Counted(Head(op[g].vars), ops)
  BY <1>1, <1>5 DEF VarsCounted
<1> QED
  BY <1>2, <1>5, <1>6 DEF ReferOps, IsVar

LEMMA ReferNextKeeps ==
  ASSUME IInv, NEW g \in G, ReferNext(g)
  PROVE  IInv'
<1>1. Types /\ OperationsPending /\ VarsCounted /\ op[g].at = "refer"
  BY DEF IInv, ReferNext
<1> DEFINE o == op[g]
           v == Head(o.vars)
           rest == [o EXCEPT !.vars = Tail(o.vars), !.names = Tail(o.names)]
           next == IF Len(o.vars) = 1 THEN Idle ELSE rest
<1>2. /\ o.ns \in Namespaces /\ o.names \in Seq(Symbols) /\ o.vars \in Seq(Values \cup {None})
      /\ o \in ReferOps /\ Len(o.vars) > 0 /\ Len(o.names) = Len(o.vars) /\ Len(o.vars) \in Nat
      /\ \A i \in DOMAIN o.vars : Counted(o.vars[i], ops)
  BY <1>1, OperationFields DEF ReferOps, OperationsPending, VarsCounted
<1>3. /\ Tail(o.names) \in Seq(Symbols) /\ Len(Tail(o.names)) = Len(o.vars) - 1
      /\ Tail(o.vars) \in Seq(Values \cup {None}) /\ Len(Tail(o.vars)) = Len(o.vars) - 1
      /\ \A i \in DOMAIN Tail(o.vars) : /\ i + 1 \in DOMAIN o.vars
                                        /\ Tail(o.vars)[i] = o.vars[i + 1]
  <2>1. o.vars # <<>> /\ o.names # <<>>
    BY <1>2
  <2>2. \A i \in DOMAIN Tail(o.vars) : Tail(o.vars)[i] = o.vars[i + 1]
    BY <1>2, <2>1, HeadTailProperties
  <2>3. Tail(o.names) \in Seq(Symbols) /\ Len(Tail(o.names)) = Len(o.names) - 1
    BY <1>2, <2>1, HeadTailProperties
  <2>4. Tail(o.vars) \in Seq(Values \cup {None}) /\ Len(Tail(o.vars)) = Len(o.vars) - 1
    BY <1>2, <2>1, HeadTailProperties
  <2>5. DOMAIN o.vars = 1 .. Len(o.vars) /\ DOMAIN Tail(o.vars) = 1 .. Len(o.vars) - 1
    BY <1>2, <2>4
  <2> HIDE DEF o
  <2>6. \A i \in 1 .. Len(o.vars) - 1 : i + 1 \in 1 .. Len(o.vars)
    BY <1>2
  <2> QED
    BY <1>2, <2>2, <2>3, <2>4, <2>5, <2>6
<1>4. \A i \in DOMAIN Tail(o.vars) : Counted(Tail(o.vars)[i], ops)
  BY <1>2, <1>3
<1>5. op' = [op EXCEPT ![g] = next] /\ ops' = ops /\ aliases' = aliases
  BY DEF ReferNext
<1>6. rest.vars = Tail(o.vars) /\ rest.names = Tail(o.names) /\ rest \in ReferOps
      /\ rest.at = "refer"
  <2>1. PICK n, names, found :
          o = [at |-> "refer", ns |-> n, names |-> names, vars |-> found]
    BY <1>2 DEF ReferOps
  <2> HIDE DEF o
  <2>2. ASSUME NEW a, NEW b
        PROVE  [o EXCEPT !.vars = b, !.names = a]
                 = [at |-> "refer", ns |-> o.ns, names |-> a, vars |-> b]
    <3>1. o.ns = n
      BY <2>1
    <3> DEFINE half == [o EXCEPT !.vars = b]
    <3>2. half = [at |-> "refer", ns |-> n, names |-> names, vars |-> b]
      BY <2>1
    <3>3. [half EXCEPT !.names = a] = [o EXCEPT !.vars = b, !.names = a]
      OBVIOUS
    <3> HIDE DEF half
    <3>4. [half EXCEPT !.names = a] = [at |-> "refer", ns |-> n, names |-> a, vars |-> b]
      BY <3>2
    <3> QED
      BY <3>1, <3>3, <3>4
  <2>3. rest = [at |-> "refer", ns |-> o.ns, names |-> Tail(o.names), vars |-> Tail(o.vars)]
    BY <2>2
  <2> HIDE DEF rest
  <2> QED
    BY <1>2, <1>3, <2>3 DEF ReferOps
<1> HIDE DEF rest
<1>7. next \in Operations /\ next.at \in {"idle", "refer"} /\ (next.at = "refer" => next = rest /\ Len(o.vars) # 1)
  BY <1>6 DEF Operations, Idle
<1> HIDE DEF next
<1>8. /\ CapturesStay /\ CallTypes' /\ op'[g] = next
      /\ \A h \in G \ {g} : op'[h] = op[h]
  <2>1. aliases' \in [Namespaces -> AliasMaps] /\ ops' \in 0 .. MaxOps
    BY <1>1, <1>5 DEF Types
  <2>2. next.at # "install" /\ op[g].at # "install"
    BY <1>1, <1>7
  <2> QED
    BY <1>1, <1>5, <1>7, <2>1, <2>2, OtherCallTypes
<1>9. /\ MapInv'
      /\ \A i \in DOMAIN maps', s \in Symbols :
           maps'[i][s] = v \/ \E j \in DOMAIN maps : maps'[i][s] = maps[j][s]
  <2>1. CASE IsVar(v)
    <3>1. v \in Values /\ Head(o.names) \in Symbols
      BY <1>1, <2>1, NextToRefer
    <3>2. Reference(o.ns, Head(o.names), v)
      BY <2>1 DEF ReferNext
    <3> HIDE DEF o, v
    <3> QED
      BY <1>2, <1>8, <3>1, <3>2, ReferenceKeeps
  <2>2. CASE ~IsVar(v)
    <3>1. UNCHANGED mapState
      BY <2>2 DEF ReferNext
    <3> QED
      BY <1>2, <1>8, <3>1, MapsUnchanged DEF mapState
  <2> QED
    BY <2>1, <2>2
<1>10. Counted(v, ops')
  BY <1>1, <1>5, NextToRefer
<1>11. op'[g].at = "refer" =>
         /\ Len(op'[g].vars) > 0 /\ Len(op'[g].names) = Len(op'[g].vars)
         /\ \A i \in DOMAIN op'[g].vars : Counted(op'[g].vars[i], ops')
  <2> SUFFICES ASSUME op'[g].at = "refer"
               PROVE  /\ Len(op'[g].vars) > 0 /\ Len(op'[g].names) = Len(op'[g].vars)
                      /\ \A i \in DOMAIN op'[g].vars : Counted(op'[g].vars[i], ops')
    OBVIOUS
  <2>1. op'[g] = rest /\ Len(o.vars) # 1
    BY <1>7, <1>8
  <2> HIDE DEF o
  <2>2. Len(o.vars) - 1 > 0
    <3> DEFINE n == Len(o.vars)
    <3>1. n \in Nat /\ n > 0 /\ n # 1
      BY <1>2, <2>1
    <3> HIDE DEF n
    <3>2. n - 1 > 0
      BY <3>1
    <3> QED
      BY <3>2 DEF n
  <2> QED
    BY <1>3, <1>4, <1>5, <1>6, <2>1, <2>2
<1>12. op'[g].at # "alias"
  BY <1>7, <1>8
<1> HIDE DEF v
<1> QED
  BY <1>5, <1>8, <1>9, <1>10, <1>11, <1>12, OneOperation

LEMMA LoadAliasesKeeps ==
  ASSUME IInv, NEW g \in G, NEW ns \in Namespaces, NEW a \in Aliases, NEW target \in Namespaces,
         LoadAliases(g, ns, a, target)
  PROVE  IInv'
<1>1. Types
  BY DEF IInv
<1>2. /\ ops' = ops + 1 /\ ops' \in 0 .. MaxOps /\ op[g] = Idle
      /\ UNCHANGED mapState /\ aliases' = aliases
  BY <1>1, BeginCounts DEF LoadAliases
<1> DEFINE o == [at |-> "alias", ns |-> ns, alias |-> a, target |-> target, loaded |-> aliases[ns]]
<1>3. aliases[ns] \in AliasMaps /\ aliases[ns][a] = None
  BY <1>1 DEF Types, LoadAliases
<1>4. /\ o \in Operations /\ o.at = "alias" /\ o.loaded[o.alias] = None
      /\ op' = [op EXCEPT ![g] = o]
  BY <1>3 DEF Operations, AliasOps, LoadAliases
<1> HIDE DEF o
<1>5. op[g].at # "install" /\ aliases' \in [Namespaces -> AliasMaps]
  BY <1>1, <1>2 DEF Idle, Types
<1>6. /\ CapturesStay /\ CallTypes' /\ op'[g] = o
      /\ \A h \in G \ {g} : op'[h] = op[h]
  BY <1>1, <1>2, <1>4, <1>5, OtherCallTypes
<1>7. MapInv'
  BY <1>2, <1>6, MapsUnchanged
<1>8. \A i \in DOMAIN maps', s \in Symbols :
        maps'[i][s] = None \/ \E j \in DOMAIN maps : maps'[i][s] = maps[j][s]
  BY <1>2 DEF mapState
<1>9. op'[g].at # "refer" /\ op'[g].loaded[op'[g].alias] = None
  BY <1>4, <1>6
<1> QED
  BY <1>2, <1>6, <1>7, <1>8, <1>9, OneOperation, NoneIsCounted

LEMMA SwapAliasesKeeps ==
  ASSUME IInv, NEW g \in G, SwapAliases(g)
  PROVE  IInv'
<1>1. Types /\ op[g].at = "alias"
  BY DEF IInv, SwapAliases
<1> DEFINE o == op[g]
           again == [o EXCEPT !.loaded = aliases'[o.ns]]
           next == IF aliases'[o.ns][o.alias] # None THEN Idle ELSE again
<1>2. /\ o \in AliasOps /\ o.ns \in Namespaces /\ o.alias \in Aliases /\ o.target \in Namespaces
      /\ ops' = ops /\ UNCHANGED mapState /\ op' = [op EXCEPT ![g] = next]
  BY <1>1, OperationFields DEF AliasOps, SwapAliases
<1>3. aliases' \in [Namespaces -> AliasMaps]
  <2>1. aliases \in [Namespaces -> AliasMaps]
    BY <1>1 DEF Types
  <2>2. \/ aliases' = [aliases EXCEPT ![o.ns][o.alias] = o.target]
        \/ aliases' = aliases
    BY DEF SwapAliases
  <2>3. [aliases[o.ns] EXCEPT ![o.alias] = o.target] \in AliasMaps
    BY <1>2, <2>1 DEF AliasMaps
  <2> HIDE DEF o
  <2>4. [aliases EXCEPT ![o.ns][o.alias] = o.target]
          = [aliases EXCEPT ![o.ns] = [aliases[o.ns] EXCEPT ![o.alias] = o.target]]
    BY <1>2, <2>1
  <2> QED
    BY <1>2, <2>1, <2>2, <2>3, <2>4
<1>4. again \in AliasOps /\ again.loaded = aliases'[o.ns] /\ again.alias = o.alias /\ again.at = "alias"
  <2>1. o = [at |-> "alias", ns |-> o.ns, alias |-> o.alias, target |-> o.target, loaded |-> o.loaded]
    BY <1>2 DEF AliasOps
  <2>2. again = [at |-> "alias", ns |-> o.ns, alias |-> o.alias, target |-> o.target,
                 loaded |-> aliases'[o.ns]]
    BY <2>1
  <2> HIDE DEF again, o
  <2> QED
    BY <1>2, <1>3, <2>2 DEF AliasOps
<1> HIDE DEF again
<1>5. /\ next \in Operations /\ next.at \in {"idle", "alias"}
      /\ next.at = "alias" => next.loaded[next.alias] = None
  BY <1>4 DEF Operations, Idle
<1> HIDE DEF next
<1>6. /\ CapturesStay /\ CallTypes' /\ op'[g] = next
      /\ \A h \in G \ {g} : op'[h] = op[h]
  <2>1. next.at # "install" /\ op[g].at # "install" /\ ops' \in 0 .. MaxOps
    BY <1>1, <1>2, <1>5 DEF Types
  <2> QED
    BY <1>1, <1>2, <1>3, <1>5, <2>1, OtherCallTypes
<1>7. MapInv'
  BY <1>2, <1>6, MapsUnchanged
<1>8. \A i \in DOMAIN maps', s \in Symbols :
        maps'[i][s] = None \/ \E j \in DOMAIN maps : maps'[i][s] = maps[j][s]
  BY <1>2 DEF mapState
<1>9. op'[g].at # "refer" /\ (op'[g].at = "alias" => op'[g].loaded[op'[g].alias] = None)
  BY <1>5, <1>6
<1> QED
  BY <1>2, <1>6, <1>7, <1>8, <1>9, OneOperation, NoneIsCounted

\* A namespace that has not referred to a whole namespace shows its mappings.
LEMMA NoSnapshots ==
  ASSUME Types, NEW ns \in Namespaces, refs[ns] = <<>>
  PROVE  Visible(ns) = Contents(ns)
<1>1. Contents(ns) \in Mappings
  BY MapsThere
<1>2. \A s \in Symbols : Lookup(ns, s) = Contents(ns)[s]
  BY DEF Lookup
<1> QED
  BY <1>1, <1>2, VisibleIsLookup DEF Mappings

\* Capturing leaves the maps there are, and adds one unless the source's own is shared.
Captured(g, ns, source) ==
  /\ op'[g].at = "install" /\ op'[g].ns = ns /\ op'[g].source = source
  /\ op'[g].captured = Visible(source) /\ op'[g].map \in Nat
  /\ op' \in [G -> Operations] /\ \A h \in G \ {g} : op'[h] = op[h]
  /\ DOMAIN maps' = DOMAIN maps \cup {op'[g].map}
  /\ maps' = [i \in DOMAIN maps' |-> maps'[i]]
  /\ \A i \in DOMAIN maps : maps'[i] = maps[i]
  /\ maps'[op'[g].map] = Visible(source)
  /\ \A n \in Namespaces : op'[g].map = mappings[n] => n = source /\ shared'[source]
  /\ shared' \in [Namespaces -> BOOLEAN] /\ \A n \in Namespaces : shared[n] => shared'[n]

LEMMA ShareLeaves ==
  ASSUME IInv, NEW g \in G, NEW ns \in Namespaces, NEW source \in Namespaces,
         NEW excluded \in Exclusions, ns # source, ShareMappings(g, ns, source, excluded)
  PROVE  Captured(g, ns, source)
<1>1. Types /\ SharingMarked
  BY DEF IInv
<1> DEFINE map == IF refs[source] = <<>> THEN mappings[source] ELSE FreshMap
           o == [at |-> "install", ns |-> ns, source |-> source, map |-> map,
                 excluded |-> excluded, captured |-> Visible(source)]
<1>2. /\ op' = [op EXCEPT ![g] = o]
      /\ maps' = [i \in DOMAIN maps \cup {map} |-> IF i = map THEN Visible(source) ELSE maps[i]]
      /\ shared' = [shared EXCEPT ![source] = shared[source] \/ refs[source] = <<>>]
  BY DEF ShareMappings
<1>3. /\ map \in Nat
      /\ refs[source] = <<>> => map = mappings[source] /\ Visible(source) = Contents(source)
      /\ refs[source] # <<>> => map \notin DOMAIN maps
  BY <1>1, FreshMapIsNew, NoSnapshots DEF Types
<1>4. /\ op'[g] = o /\ \A h \in G \ {g} : op'[h] = op[h]
  BY <1>1, <1>2 DEF Types
<1> HIDE DEF map
<1>5. /\ o \in InstallOps /\ o.map = map /\ o.at = "install" /\ o.ns = ns
      /\ o.source = source /\ o.captured = Visible(source)
  <2>1. Visible(source) \in Mappings
    BY <1>1, VisibleIsLookup
  <2>2. excluded \in SUBSET Symbols
    BY NamespaceAssumption
  <2> QED
    BY <1>3, <2>1, <2>2 DEF InstallOps
<1>6. \A i \in DOMAIN maps : maps'[i] = maps[i]
  BY <1>2, <1>3 DEF Contents
<1>7. ASSUME NEW n \in Namespaces, map = mappings[n]
      PROVE  n = source /\ shared'[source]
  <2>1. map \in DOMAIN maps
    BY <1>1, <1>7, MapsThere
  <2>2. refs[source] = <<>> /\ map = mappings[source]
    BY <1>3, <2>1
  <2> QED
    BY <1>1, <1>2, <1>7, <2>2 DEF SharingMarked, Types
<1>8. shared' \in [Namespaces -> BOOLEAN] /\ \A n \in Namespaces : shared[n] => shared'[n]
  <2> DEFINE b == shared[source] \/ refs[source] = <<>>
  <2>1. b \in BOOLEAN /\ (shared[source] => b)
    OBVIOUS
  <2>2. shared' = [shared EXCEPT ![source] = b] /\ shared \in [Namespaces -> BOOLEAN]
    BY <1>1, <1>2 DEF Types
  <2> HIDE DEF b
  <2>3. shared' \in [Namespaces -> BOOLEAN]
    BY <2>1, <2>2
  <2>4. shared'[source] = b /\ \A n \in Namespaces \ {source} : shared'[n] = shared[n]
    BY <2>2
  <2> QED
    BY <2>1, <2>3, <2>4
<1>9. /\ DOMAIN maps' = DOMAIN maps \cup {map} /\ maps'[map] = Visible(source)
      /\ maps' = [i \in DOMAIN maps' |-> maps'[i]]
  BY <1>2
<1> HIDE DEF o
<1>10. op' \in [G -> Operations]
  BY <1>1, <1>2, <1>5 DEF Types, Operations
<1> QED
  BY <1>3, <1>4, <1>5, <1>6, <1>7, <1>8, <1>9, <1>10 DEF Captured

LEMMA ShareMappingsKeeps ==
  ASSUME IInv, NEW g \in G, NEW ns \in Namespaces, NEW source \in Namespaces,
         NEW excluded \in Exclusions, ns # source, ShareMappings(g, ns, source, excluded)
  PROVE  IInv'
<1> DEFINE map == op'[g].map
<1>0. Captured(g, ns, source)
  BY ShareLeaves
<1>1. /\ Types /\ SharingMarked /\ SnapshotsKept /\ CacheCurrent /\ SourcesOther
      /\ VarsCounted
  BY DEF IInv
<1>2. /\ ops' = ops + 1 /\ ops' \in 0 .. MaxOps /\ op[g] = Idle
      /\ UNCHANGED <<mappings, refs, cached, aliases>>
  BY <1>1, BeginCounts DEF ShareMappings
<1>3. /\ op'[g].at = "install" /\ op'[g].source = source /\ op'[g].ns = ns
      /\ op'[g].captured = Visible(source) /\ map \in Nat /\ op' \in [G -> Operations]
      /\ \A h \in G \ {g} : op'[h] = op[h]
  BY <1>0 DEF Captured
<1>4. /\ DOMAIN maps' = DOMAIN maps \cup {map}
      /\ \A i \in DOMAIN maps : maps'[i] = maps[i]
      /\ maps'[map] = Visible(source)
  BY <1>0 DEF Captured
<1> HIDE DEF map
<1>5. Types'
  <2>2. Captures' = Captures \cup {map}
    <3>1. op[g].at # "install"
      BY <1>2 DEF Idle
    <3> QED
      BY <1>3, <3>1 DEF Captures, map
  <2>3. Live(mappings', refs', Captures') = Live(mappings, refs, Captures) \cup {map}
    BY <1>2, <2>2 DEF Live
  <2>4. DOMAIN maps' = Live(mappings', refs', Captures')
    BY <1>1, <1>4, <2>3 DEF Types
  <2>5. DOMAIN maps' \subseteq Nat /\ IsFiniteSet(DOMAIN maps')
    <3>1. DOMAIN maps \subseteq Nat /\ IsFiniteSet(DOMAIN maps)
      BY <1>1 DEF Types
    <3>2. IsFiniteSet(DOMAIN maps \cup {map})
      BY <3>1, FS_AddElement
    <3> QED
      BY <1>3, <1>4, <3>1, <3>2
  <2>6. maps' \in [DOMAIN maps' -> Mappings]
    <3>1. \A i \in DOMAIN maps' : maps'[i] \in Mappings
      BY <1>1, <1>4, VisibleIsLookup DEF Types
    <3>2. maps' = [i \in DOMAIN maps' |-> maps'[i]]
      BY <1>0 DEF Captured
    <3> QED
      BY <3>1, <3>2
  <2> QED
    BY <1>0, <1>1, <1>2, <1>3, <2>4, <2>5, <2>6 DEF Types, Captured
<1>6. SharingMarked'
  <2>1. \A n \in Namespaces : shared[n] => shared'[n]
    BY <1>0 DEF Captured
  <2>2. ASSUME NEW n \in Namespaces, NEW h \in G, op'[h].at = "install", op'[h].map = mappings'[n]
        PROVE  shared'[n]
    <3>1. CASE h = g
      <4>1. op'[g].map = mappings[n]
        BY <1>2, <2>2, <3>1
      <4>2. \A m \in Namespaces : op'[g].map = mappings[m] => m = source /\ shared'[source]
        BY <1>0 DEF Captured
      <4> QED
        BY <4>1, <4>2
    <3>2. CASE h # g
      BY <1>1, <1>2, <1>3, <2>1, <2>2, <3>2 DEF SharingMarked
    <3> QED
      BY <3>1, <3>2
  <2> QED
    BY <1>1, <1>2, <2>1, <2>2 DEF SharingMarked
<1>7. SnapshotsKept'
  <2>1. ASSUME NEW n \in Namespaces, NEW i \in DOMAIN refs'[n]
        PROVE  maps'[refs'[n][i].map] = refs'[n][i].captured
    BY <1>1, <1>2, <1>4, MapsThere DEF SnapshotsKept
  <2>2. ASSUME NEW h \in G, op'[h].at = "install"
        PROVE  maps'[op'[h].map] = op'[h].captured
    <3>1. CASE h = g
      BY <1>3, <1>4, <3>1 DEF map
    <3>2. CASE h # g
      BY <1>1, <1>3, <1>4, <2>2, <3>2, MapsThere DEF SnapshotsKept
    <3> QED
      BY <3>1, <3>2
  <2> QED
    BY <2>1, <2>2 DEF SnapshotsKept
<1>8. CacheCurrent'
  <2>1. ASSUME NEW n \in Namespaces
        PROVE  Visible(n)' = Visible(n)
    <3>1. /\ refs'[n] = refs[n] /\ Contents(n)' = Contents(n)
          /\ \A i \in DOMAIN refs[n] : maps'[refs[n][i].map] = maps[refs[n][i].map]
      BY <1>1, <1>2, <1>4, MapsThere DEF Contents
    <3> QED
      BY <1>1, <1>5, <3>1, VisibleDepends
  <2> QED
    BY <1>1, <1>2, <2>1 DEF CacheCurrent
<1>9. SourcesOther'
  BY <1>1, <1>2, <1>3 DEF SourcesOther
<1>10. ASSUME NEW i \in DOMAIN maps', NEW s \in Symbols
       PROVE  maps'[i][s] = None \/ \E j \in DOMAIN maps : maps'[i][s] = maps[j][s]
  <2>1. CASE i = map
    BY <1>1, <1>4, <2>1, VisibleIsLookup, LookupIsInMaps
  <2>2. CASE i # map
    BY <1>4, <2>2
  <2> QED
    BY <2>1, <2>2
<1>11. MapInv'
  BY <1>5, <1>6, <1>7, <1>8, <1>9 DEF MapInv
<1> QED
  BY <1>2, <1>3, <1>10, <1>11, OneOperation, NoneIsCounted

\* Installing a snapshot changes one namespace, where it replaces one of the same source
\* or comes on top; the maps that somebody still refers to stay.
Installed(g) ==
  LET o == op[g]
  IN /\ op'[g] = Idle /\ op' \in [G -> Operations] /\ \A h \in G \ {g} : op'[h] = op[h]
     /\ refs' \in [Namespaces -> Seq(Snapshots)]
     /\ \A n \in Namespaces \ {o.ns} : refs'[n] = refs[n]
     /\ \A i \in DOMAIN refs'[o.ns] :
          \/ i \in DOMAIN refs[o.ns] /\ refs'[o.ns][i] = refs[o.ns][i]
          \/ /\ refs'[o.ns][i].source = o.source
             /\ refs'[o.ns][i].map = o.map /\ refs'[o.ns][i].captured = o.captured
     /\ \A i \in DOMAIN refs[o.ns] :
          /\ i \in DOMAIN refs'[o.ns]
          /\ refs[o.ns][i].source # o.source => refs'[o.ns][i] = refs[o.ns][i]
     /\ DOMAIN maps' = Live(mappings', refs', Captures') /\ DOMAIN maps' \subseteq DOMAIN maps
     /\ maps' = [i \in DOMAIN maps' |-> maps'[i]]
     /\ \A i \in DOMAIN maps' : maps'[i] = maps[i]

LEMMA InstallChanges ==
  ASSUME IInv, NEW g \in G, InstallSnapshot(g)
  PROVE  Installed(g)
<1> DEFINE o == op[g]
           snapshot == [source |-> o.source, map |-> o.map, excluded |-> o.excluded,
                        captured |-> o.captured]
           old == refs[o.ns]
           older == {i \in DOMAIN old : old[i].source = o.source}
           list == IF older = {} THEN Append(old, snapshot)
                   ELSE [old EXCEPT ![Min(older)] = snapshot]
           live == Live(mappings, refs', {op[h].map : h \in {k \in G \ {g} : op[k].at = "install"}})
<1>1. Types /\ o.at = "install" /\ o \in InstallOps
  BY OperationFields DEF IInv, InstallSnapshot
<1>2. /\ refs' = [refs EXCEPT ![o.ns] = list]
      /\ maps' = [i \in live |-> maps[i]]
      /\ op' = [op EXCEPT ![g] = Idle] /\ mappings' = mappings
  BY DEF InstallSnapshot, Keep
<1>3. o.ns \in Namespaces /\ snapshot \in Snapshots
  BY <1>1 DEF InstallOps, Snapshots
<1>4. /\ snapshot.source = o.source /\ snapshot.map = o.map
      /\ snapshot.captured = o.captured
  OBVIOUS
<1>5. old \in Seq(Snapshots) /\ DOMAIN old = 1 .. Len(old) /\ Len(old) \in Nat
  BY <1>1, <1>3 DEF Types
<1> HIDE DEF snapshot, old
<1>6. /\ list \in Seq(Snapshots)
      /\ \A i \in DOMAIN list : (i \in DOMAIN old /\ list[i] = old[i]) \/ list[i] = snapshot
      /\ \A i \in DOMAIN old : i \in DOMAIN list /\ (old[i].source # o.source => list[i] = old[i])
  <2>1. CASE older = {}
    <3>1. /\ Append(old, snapshot) \in Seq(Snapshots) /\ Len(Append(old, snapshot)) = Len(old) + 1
          /\ \A i \in 1 .. Len(old) : Append(old, snapshot)[i] = old[i]
          /\ Append(old, snapshot)[Len(old) + 1] = snapshot
      BY <1>3, <1>5, AppendProperties
    <3>2. DOMAIN Append(old, snapshot) = 1 .. Len(old) + 1
      BY <3>1
    <3>3. \A i \in 1 .. Len(old) + 1 : i \in 1 .. Len(old) \/ i = Len(old) + 1
      BY <1>5
    <3>4. \A i \in 1 .. Len(old) : i \in 1 .. Len(old) + 1
      BY <1>5
    <3>5. list = Append(old, snapshot)
      BY <2>1
    <3> QED
      BY <1>5, <3>1, <3>2, <3>3, <3>4, <3>5
  <2>2. CASE older # {}
    <3>1. older \in SUBSET Nat
      BY <1>5
    <3>2. Min(older) \in older
      <4> HIDE DEF older
      <4> QED
        BY <2>2, <3>1, SmallestIsMin
    <3>3. Min(older) \in DOMAIN old /\ old[Min(older)].source = o.source
      BY <3>2
    <3> HIDE DEF older
    <3>4. list = [old EXCEPT ![Min(older)] = snapshot]
      BY <2>2
    <3>5. /\ list \in Seq(Snapshots) /\ Len(list) = Len(old)
          /\ \A i \in 1 .. Len(old) : list[i] = IF i = Min(older) THEN snapshot ELSE old[i]
      <4> HIDE DEF list
      <4>1. ASSUME NEW m \in 1 .. Len(old), NEW l, l = [old EXCEPT ![m] = snapshot]
            PROVE  /\ l \in Seq(Snapshots) /\ Len(l) = Len(old)
                   /\ \A i \in 1 .. Len(old) : l[i] = IF i = m THEN snapshot ELSE old[i]
        BY <1>3, <1>5, <4>1, ExceptSeq
      <4> QED
        BY <1>5, <3>3, <3>4, <4>1
    <3> HIDE DEF list
    <3>6. DOMAIN list = DOMAIN old
      BY <1>5, <3>5
    <3> QED
      BY <1>5, <3>3, <3>5, <3>6
  <2> QED
    BY <2>1, <2>2
<1> HIDE DEF list
<1>7. /\ refs' \in [Namespaces -> Seq(Snapshots)] /\ refs'[o.ns] = list
      /\ \A n \in Namespaces \ {o.ns} : refs'[n] = refs[n]
  BY <1>1, <1>2, <1>3, <1>6 DEF Types
<1>8. op'[g] = Idle /\ op' \in [G -> Operations] /\ \A h \in G \ {g} : op'[h] = op[h]
  BY <1>1, <1>2 DEF Types, Operations
<1>9. Captures' = {op[h].map : h \in {k \in G \ {g} : op[k].at = "install"}}
  BY <1>8 DEF Captures, Idle
<1>10. DOMAIN maps' = live /\ live = Live(mappings', refs', Captures')
  BY <1>2, <1>9
<1>11. live \subseteq DOMAIN maps
  <2>1. /\ \A n \in Namespaces : mappings[n] \in DOMAIN maps
        /\ \A n \in Namespaces : \A i \in DOMAIN refs[n] : refs[n][i].map \in DOMAIN maps
        /\ \A h \in G : op[h].at = "install" => op[h].map \in DOMAIN maps
    BY <1>1, MapsThere
  <2>2. ASSUME NEW n \in Namespaces, NEW i \in DOMAIN refs'[n]
        PROVE  refs'[n][i].map \in DOMAIN maps
    <3>1. CASE n = o.ns
      <4>1. (i \in DOMAIN old /\ list[i] = old[i]) \/ list[i] = snapshot
        BY <1>6, <1>7, <2>2, <3>1
      <4> QED
        BY <1>1, <1>3, <1>4, <1>7, <2>1, <3>1, <4>1 DEF old
    <3>2. CASE n # o.ns
      BY <1>7, <2>1, <2>2, <3>2
    <3> QED
      BY <3>1, <3>2
  <2> QED
    BY <2>1, <2>2 DEF Live
<1>12. /\ \A i \in DOMAIN maps' : maps'[i] = maps[i]
       /\ maps' = [i \in DOMAIN maps' |-> maps'[i]]
  <2> HIDE DEF live
  <2> QED
    BY <1>2
<1>13. \A i \in DOMAIN refs'[o.ns] :
         \/ i \in DOMAIN refs[o.ns] /\ refs'[o.ns][i] = refs[o.ns][i]
         \/ /\ refs'[o.ns][i].source = o.source
            /\ refs'[o.ns][i].map = o.map /\ refs'[o.ns][i].captured = o.captured
  BY <1>4, <1>6, <1>7 DEF old
<1>14. \A i \in DOMAIN refs[o.ns] :
         /\ i \in DOMAIN refs'[o.ns]
         /\ refs[o.ns][i].source # o.source => refs'[o.ns][i] = refs[o.ns][i]
  BY <1>6, <1>7 DEF old
<1> HIDE DEF live
<1> QED
  BY <1>7, <1>8, <1>10, <1>11, <1>12, <1>13, <1>14 DEF Installed

LEMMA InstallSnapshotKeeps ==
  ASSUME IInv, NEW g \in G, InstallSnapshot(g)
  PROVE  IInv'
<1> DEFINE o == op[g]
<1>1. /\ Types /\ SharingMarked /\ SnapshotsKept /\ CacheCurrent /\ SourcesOther
      /\ VarsCounted /\ o.at = "install" /\ o \in InstallOps
  BY OperationFields DEF IInv, InstallSnapshot
<1>2. Installed(g)
  BY InstallChanges
<1>3. /\ cached' = [cached EXCEPT ![o.ns] = None]
      /\ UNCHANGED <<mappings, shared, aliases, ops>> /\ o.ns \in Namespaces
  BY <1>1 DEF InstallSnapshot, InstallOps
<1>4. Types'
  <2>1. cached' \in [Namespaces -> Mappings \cup {None}]
    BY <1>1, <1>3 DEF Types
  <2>2. DOMAIN maps' \subseteq Nat /\ IsFiniteSet(DOMAIN maps')
    BY <1>1, <1>2, FS_Subset DEF Types, Installed
  <2>3. maps' \in [DOMAIN maps' -> Mappings]
    BY <1>1, <1>2 DEF Types, Installed
  <2>4. DOMAIN maps' = Live(mappings', refs', Captures')
    BY <1>2 DEF Installed
  <2>5. op' \in [G -> Operations] /\ refs' \in [Namespaces -> Seq(Snapshots)]
    BY <1>2 DEF Installed
  <2> QED
    BY <1>1, <1>3, <2>1, <2>2, <2>3, <2>4, <2>5 DEF Types
<1>5. \A n \in Namespaces : \A i \in DOMAIN refs'[n] :
        \/ i \in DOMAIN refs[n] /\ refs'[n][i] = refs[n][i]
        \/ /\ n = o.ns /\ refs'[n][i].source = o.source
           /\ refs'[n][i].map = o.map /\ refs'[n][i].captured = o.captured
  BY <1>2 DEF Installed
<1>6. op'[g].at = "idle" /\ \A h \in G \ {g} : op'[h] = op[h]
  BY <1>2 DEF Installed, Idle
<1>7. /\ \A n \in Namespaces : mappings[n] \in DOMAIN maps'
      /\ \A n \in Namespaces : \A i \in DOMAIN refs'[n] : refs'[n][i].map \in DOMAIN maps'
      /\ \A h \in G : op'[h].at = "install" => op'[h].map \in DOMAIN maps'
  <2>1. DOMAIN maps' = Live(mappings', refs', Captures')
    BY <1>2 DEF Installed
  <2> QED
    BY <1>3, <2>1 DEF Live, Captures
<1>8. \A i \in DOMAIN maps' : maps'[i] = maps[i] /\ i \in DOMAIN maps
  BY <1>2 DEF Installed
<1>9. SharingMarked'
  <2>1. ASSUME NEW n \in Namespaces, NEW other \in Namespaces, NEW i \in DOMAIN refs'[other],
               refs'[other][i].map = mappings'[n]
        PROVE  shared'[n]
    <3>1. CASE i \in DOMAIN refs[other] /\ refs'[other][i] = refs[other][i]
      BY <1>1, <1>3, <2>1, <3>1 DEF SharingMarked
    <3>2. CASE refs'[other][i].map = o.map
      BY <1>1, <1>3, <2>1, <3>2 DEF SharingMarked
    <3> QED
      BY <1>5, <3>1, <3>2
  <2>2. ASSUME NEW n \in Namespaces, NEW h \in G, op'[h].at = "install", op'[h].map = mappings'[n]
        PROVE  shared'[n]
    <3>1. h # g
      BY <1>6, <2>2
    <3> QED
      BY <1>1, <1>3, <1>6, <2>2, <3>1 DEF SharingMarked
  <2> QED
    BY <1>1, <1>3, <2>1, <2>2 DEF SharingMarked
<1>10. SnapshotsKept'
  <2>1. ASSUME NEW n \in Namespaces, NEW i \in DOMAIN refs'[n]
        PROVE  maps'[refs'[n][i].map] = refs'[n][i].captured
    <3>1. maps'[refs'[n][i].map] = maps[refs'[n][i].map]
      BY <1>7, <1>8, <2>1
    <3>2. CASE i \in DOMAIN refs[n] /\ refs'[n][i] = refs[n][i]
      BY <1>1, <3>1, <3>2 DEF SnapshotsKept
    <3>3. CASE refs'[n][i].map = o.map /\ refs'[n][i].captured = o.captured
      BY <1>1, <3>1, <3>3 DEF SnapshotsKept
    <3> QED
      BY <1>5, <3>2, <3>3
  <2>2. ASSUME NEW h \in G, op'[h].at = "install"
        PROVE  maps'[op'[h].map] = op'[h].captured
    <3>1. h # g
      BY <1>6, <2>2
    <3> QED
      BY <1>1, <1>6, <1>7, <1>8, <2>2, <3>1 DEF SnapshotsKept
  <2> QED
    BY <2>1, <2>2 DEF SnapshotsKept
<1>11. CacheCurrent'
  <2> SUFFICES ASSUME NEW n \in Namespaces, cached'[n] # None
               PROVE  cached'[n] = Visible(n)'
    BY DEF CacheCurrent
  <2>1. n # o.ns /\ cached'[n] = cached[n]
    BY <1>1, <1>3 DEF Types
  <2>2. refs'[n] = refs[n]
    BY <1>2, <2>1 DEF Installed
  <2>3. /\ Contents(n)' = Contents(n)
        /\ \A i \in DOMAIN refs[n] : maps'[refs[n][i].map] = maps[refs[n][i].map]
    BY <1>3, <1>7, <1>8, <2>2 DEF Contents
  <2>4. Visible(n)' = Visible(n)
    BY <1>1, <1>4, <2>2, <2>3, VisibleDepends
  <2> QED
    BY <1>1, <2>1, <2>4 DEF CacheCurrent
<1>12. SourcesOther'
  <2>1. ASSUME NEW n \in Namespaces, NEW i \in DOMAIN refs'[n]
        PROVE  refs'[n][i].source # n
    <3>1. CASE i \in DOMAIN refs[n] /\ refs'[n][i] = refs[n][i]
      BY <1>1, <3>1 DEF SourcesOther
    <3>2. CASE n = o.ns /\ refs'[n][i].source = o.source
      BY <1>1, <3>2 DEF SourcesOther
    <3> QED
      BY <1>5, <3>1, <3>2
  <2> QED
    BY <1>1, <1>6, <2>1 DEF SourcesOther
<1>13. MapInv'
  BY <1>4, <1>9, <1>10, <1>11, <1>12 DEF MapInv
<1>14. \A i \in DOMAIN maps', s \in Symbols :
         maps'[i][s] = None \/ \E j \in DOMAIN maps : maps'[i][s] = maps[j][s]
  BY <1>8
<1> HIDE DEF o
<1> QED
  BY <1>3, <1>6, <1>13, <1>14, OneOperation, NoneIsCounted

-----------------------------------------------------------------------------
(* The invariants.                                                         *)

LEMMA NextKeeps == IInv /\ [Next]_vars => IInv'
<1> SUFFICES ASSUME IInv, [Next]_vars PROVE IInv'
  OBVIOUS
<1>1. ASSUME NEW ns \in Namespaces, NEW sym \in Symbols, Intern(ns, sym) PROVE IInv'
  BY <1>1, InternKeeps
<1>2. ASSUME NEW ns \in Namespaces, NEW sym \in Symbols, Unmap(ns, sym) PROVE IInv'
  BY <1>2, UnmapKeeps
<1>3. ASSUME NEW ns \in Namespaces, NEW sym \in Symbols, Import(ns, sym) PROVE IInv'
  <2>1. HostClass \in Values /\ Refer(ns, sym, HostClass)
    BY <1>3 DEF Values, Import
  <2> QED
    BY <2>1, NoneIsCounted, ReferKeeps
<1>4. ASSUME NEW ns \in Namespaces, NEW sym \in Symbols, NEW source \in Namespaces,
             IsVar(Lookup(source, sym)), Refer(ns, sym, Lookup(source, sym))
      PROVE  IInv'
  <2>1. Lookup(source, sym) \in Values /\ Counted(Lookup(source, sym), ops)
    BY <1>4, LookupIsCounted DEF IsVar
  <2> QED
    BY <1>4, <2>1, ReferKeeps
<1>5. ASSUME NEW ns \in Namespaces, ReadMappings(ns) PROVE IInv'
  BY <1>5, ReadMappingsKeeps
<1>6. \A r \in Refers : r[1] \in Namespaces /\ r[2] \in Namespaces /\ r[1] # r[2]
  BY NamespaceAssumption
<1>7. ASSUME NEW g \in G, NEW r \in Refers, NEW list \in RefLists,
             StartReferAll(g, r[1], r[2], list)
      PROVE  IInv'
  BY <1>6, <1>7, StartReferAllKeeps
<1>8. ASSUME NEW g \in G, NEW r \in Refers, NEW excluded \in Exclusions,
             ShareMappings(g, r[1], r[2], excluded)
      PROVE  IInv'
  BY <1>6, <1>8, ShareMappingsKeeps
<1>9. ASSUME NEW g \in G, NEW r \in Refers, NEW a \in Aliases, LoadAliases(g, r[1], a, r[2])
      PROVE  IInv'
  BY <1>6, <1>9, LoadAliasesKeeps
<1>10. ASSUME NEW g \in G, ReferNext(g) PROVE IInv'
  BY <1>10, ReferNextKeeps
<1>11. ASSUME NEW g \in G, InstallSnapshot(g) PROVE IInv'
  BY <1>11, InstallSnapshotKeeps
<1>12. ASSUME NEW g \in G, SwapAliases(g) PROVE IInv'
  BY <1>12, SwapAliasesKeeps
<1>13. CASE UNCHANGED vars
  <2>1. /\ maps' = maps /\ mappings' = mappings /\ shared' = shared /\ refs' = refs
        /\ cached' = cached /\ aliases' = aliases /\ op' = op /\ ops' = ops
    BY <1>13 DEF vars
  <2>2. Types /\ VarsCounted /\ CacheCurrent
    BY DEF IInv
  <2>3. \A n : Captures' = Captures /\ Live(mappings', refs', Captures') = Live(mappings, refs, Captures)
    BY <2>1 DEF Captures, Live
  <2>4. Types'
    BY <2>1, <2>2, <2>3 DEF Types
  <2>5. \A n \in Namespaces : Visible(n)' = Visible(n)
    <3> SUFFICES ASSUME NEW n \in Namespaces PROVE Visible(n)' = Visible(n)
      OBVIOUS
    <3>1. Contents(n)' = Contents(n)
      BY <2>1 DEF Contents
    <3> QED
      BY <2>1, <2>2, <2>4, <3>1, VisibleDepends
  <2>6. CacheCurrent'
    BY <2>1, <2>2, <2>5 DEF CacheCurrent
  <2>7. SharingMarked' /\ SnapshotsKept' /\ SourcesOther' /\ OperationsPending' /\ VarsCounted'
    BY <2>1 DEF IInv, SharingMarked, SnapshotsKept, SourcesOther, OperationsPending, VarsCounted
  <2> QED
    BY <2>4, <2>6, <2>7 DEF IInv
<1> QED
  BY <1>1, <1>2, <1>3, <1>4, <1>5, <1>7, <1>8, <1>9, <1>10, <1>11, <1>12, <1>13 DEF Next

\* The invariant holds in every state.
THEOREM Invariance == Spec => []IInv
BY InitInvariant, NextKeeps, PTL DEF Spec

\* Every variable has its type, the Go maps are those somebody refers to, and no snapshot
\* ever changes, whatever its source does later: the writes copy a map that is shared.
THEOREM TypeCorrect == Spec => []TypeOK
<1>1. ASSUME IInv PROVE TypeOK
  <2>1. Types /\ SnapshotsKept
    BY <1>1 DEF IInv
  <2>2. \A i \in DOMAIN maps : maps[i] \in [Symbols -> Values \cup {None}]
    BY <2>1 DEF Types, Mappings
  <2>3. \A ns \in Namespaces : aliases[ns] \in [Aliases -> Namespaces \cup {None}]
    BY <2>1 DEF Types, AliasMaps
  <2> QED
    BY <2>1, <2>2, <2>3 DEF TypeOK, SnapshotsKept, Types
<1> QED
  BY <1>1, Invariance, PTL

\* The search of a symbol in the snapshots and the map that is built of them agree, and
\* the map kept from an earlier call is what would be built now.
THEOREM LookupsAlwaysAgree == Spec => []LookupsAgree
<1>1. ASSUME IInv PROVE LookupsAgree
  BY <1>1, VisibleIsLookup DEF IInv, CacheCurrent, LookupsAgree
<1> QED
  BY <1>1, Invariance, PTL

-----------------------------------------------------------------------------
(* The refinement of NamespaceMaps.                                        *)

\* Nothing that is looked up changes.
LookupsStay == \A n \in Namespaces, s \in Symbols : Lookup(n, s)' = Lookup(n, s)

\* Only what one symbol of one namespace is mapped to.
OneLookup(ns, sym) ==
  \A n \in Namespaces, s \in Symbols :
    n # ns \/ s # sym => Lookup(n, s)' = Lookup(n, s)

LEMMA LookedUpIsMapped ==
  \A n \in Namespaces, s \in Symbols : Lookup(n, s) \in Maps!Mapped
<1> SUFFICES ASSUME NEW n \in Namespaces, NEW s \in Symbols PROVE Lookup(n, s) \in Maps!Mapped
  OBVIOUS
<1>1. <<n, s>> \in Namespaces \X Symbols /\ <<n, s>>[1] = n /\ <<n, s>>[2] = s
  OBVIOUS
<1> QED
  BY <1>1 DEF Maps!Mapped

LEMMA MappedIsLookedUp ==
  ASSUME NEW v \in Maps!Mapped
  PROVE  \E n \in Namespaces, s \in Symbols : v = Lookup(n, s)
<1>1. PICK p \in Namespaces \X Symbols :
        v = [n \in Namespaces |-> [s \in Symbols |-> Lookup(n, s)]][p[1]][p[2]]
  BY DEF Maps!Mapped
<1>2. p[1] \in Namespaces /\ p[2] \in Symbols
  OBVIOUS
<1> QED
  BY <1>1, <1>2

LEMMA StutteringMaps ==
  ASSUME LookupsStay, aliases' = aliases, Found' = Found
  PROVE  UNCHANGED Maps!mapVars
BY DEF LookupsStay, Maps!mapVars

LEMMA ChangeOfOne ==
  ASSUME NEW ns \in Namespaces, NEW sym \in Symbols, OneLookup(ns, sym),
         Lookup(ns, sym)' \in Values \cup {None}, aliases' = aliases
  PROVE  Maps!Change(ns, sym)
<1> DEFINE view == [n \in Namespaces |-> [s \in Symbols |-> Lookup(n, s)]]
<1>1. \A n \in Namespaces, s \in Symbols : view[n][s] = Lookup(n, s)
  OBVIOUS
<1>2. \A n \in Namespaces, s \in Symbols : view'[n][s] = Lookup(n, s)'
  OBVIOUS
<1>3. view = [n \in Namespaces |-> view[n]]
      /\ \A n \in Namespaces : view[n] = [s \in Symbols |-> view[n][s]]
  OBVIOUS
<1>4. view' = [n \in Namespaces |-> view'[n]]
      /\ \A n \in Namespaces : view'[n] = [s \in Symbols |-> view'[n][s]]
  OBVIOUS
<1> HIDE DEF view
<1>5. \A n \in Namespaces, s \in Symbols : n # ns \/ s # sym => view'[n][s] = view[n][s]
  BY <1>1, <1>2 DEF OneLookup
<1>6. \A n \in Namespaces : n # ns => view'[n] = view[n]
  BY <1>3, <1>4, <1>5
<1>7. view'[ns] = [view[ns] EXCEPT ![sym] = view'[ns][sym]]
  BY <1>3, <1>4, <1>5
<1>8. view' = [view EXCEPT ![ns] = [view[ns] EXCEPT ![sym] = view'[ns][sym]]]
  BY <1>3, <1>4, <1>6, <1>7
<1>9. view' = [view EXCEPT ![ns][sym] = view'[ns][sym]] /\ view'[ns][sym] \in Values \cup {None}
  BY <1>2, <1>8
<1> QED
  BY <1>9 DEF Maps!Change, view

LEMMA SameLookups ==
  ASSUME Types, refs' = refs, \A n \in Namespaces : Contents(n)' = Contents(n),
         \A n \in Namespaces : \A i \in DOMAIN refs[n] :
           maps'[refs[n][i].map] = maps[refs[n][i].map]
  PROVE  LookupsStay
BY LookupDepends DEF LookupsStay

LEMMA UnchangedLookups ==
  ASSUME IInv, UNCHANGED <<maps, mappings, shared, refs>>
  PROVE  LookupsStay
BY SameLookups DEF Contents, IInv

\* A mapping that is written is the one that is found.
LEMMA WriteIsLookedUp ==
  ASSUME IInv, NEW ns \in Namespaces, NEW sym \in Symbols, NEW v \in Values \cup {None},
         WriteMapping(ns, sym, v), refs' = refs, CapturesStay
  PROVE  OneLookup(ns, sym) /\ (v # None => Lookup(ns, sym)' = v)
<1>1. Types /\ SnapshotsStay(ns)
  BY SnapshotsUnchanged DEF IInv
<1>2. /\ Contents(ns)' = [Contents(ns) EXCEPT ![sym] = v]
      /\ \A n \in Namespaces \ {ns} : Contents(n)' = Contents(n)
      /\ \A n \in Namespaces : \A i \in DOMAIN refs[n] :
           maps'[refs[n][i].map] = maps[refs[n][i].map]
  BY <1>1, WriteChangesOne
<1>3. Contents(ns) \in Mappings
  BY <1>1, MapsThere
<1>4. Contents(ns)'[sym] = v /\ \A s \in Symbols : s # sym => Contents(ns)'[s] = Contents(ns)[s]
  BY <1>2, <1>3 DEF Mappings
<1>5. ASSUME NEW n \in Namespaces, NEW s \in Symbols, n # ns \/ s # sym
      PROVE  Lookup(n, s)' = Lookup(n, s)
  <2>1. Contents(n)'[s] = Contents(n)[s]
    BY <1>2, <1>4, <1>5
  <2>2. refs'[n] = refs[n] /\ \A i \in DOMAIN refs[n] : maps'[refs[n][i].map] = maps[refs[n][i].map]
    BY <1>2
  <2> QED
    BY <1>1, <2>1, <2>2, LookupDepends
<1>6. v # None => Lookup(ns, sym)' = v
  BY <1>4 DEF Lookup
<1> QED
  BY <1>5, <1>6 DEF OneLookup

LEMMA InternRefines ==
  ASSUME IInv, NEW ns \in Namespaces, NEW sym \in Symbols, Intern(ns, sym)
  PROVE  Maps!InternVar(ns, sym) \/ UNCHANGED Maps!mapVars
<1>1. Types /\ CapturesStay /\ op' = op /\ aliases' = aliases /\ ops < MaxOps
  BY CallsOfOneStep DEF IInv, Intern, Begin
<1>2. Found' = Found
  BY <1>1 DEF Found
<1>3. CASE UNCHANGED mapState
  BY <1>1, <1>2, <1>3, UnchangedLookups, StutteringMaps DEF mapState
<1>4. CASE /\ ~IsInterned(ns, sym, Lookup(ns, sym))
           /\ WriteMapping(ns, sym, NewVar(ns, sym)) /\ UNCHANGED refs
  <2> DEFINE v == NewVar(ns, sym)
  <2>1. v \in Vars /\ v \notin Existing /\ v.ns = ns /\ v.sym = sym
    BY <1>1, NewVarIsNew
  <2>2. WriteMapping(ns, sym, v)
    BY <1>4
  <2> HIDE DEF v
  <2>3. IsVar(v) /\ v \in Values \cup {None} /\ v # None
    BY <2>1, NamespaceAssumption DEF IsVar, Vars, Values
  <2>4. OneLookup(ns, sym) /\ Lookup(ns, sym)' = v
    BY <1>1, <1>4, <2>2, <2>3, WriteIsLookedUp
  <2>5. Maps!Change(ns, sym)
    BY <1>1, <2>3, <2>4, ChangeOfOne
  <2>6. v \notin Maps!Mapped
    <3> SUFFICES ASSUME v \in Maps!Mapped PROVE FALSE
      OBVIOUS
    <3>1. PICK n \in Namespaces, s \in Symbols : v = Lookup(n, s)
      BY MappedIsLookedUp
    <3>2. PICK j \in DOMAIN maps : v = maps[j][s]
      BY <1>1, <2>3, <3>1, LookupIsInMaps
    <3>3. v \in {maps[j][t] : t \in Symbols}
      BY <3>2
    <3> QED
      BY <2>1, <2>3, <3>3 DEF Existing
  <2>7. v \notin Found
    BY <2>1 DEF Existing
  <2>8. ~Maps!Interned(ns, sym)
    BY <1>4 DEF Maps!Interned, Maps!IsVarOf, IsInterned, IsVar
  <2> QED
    BY <1>2, <2>1, <2>3, <2>4, <2>5, <2>6, <2>7, <2>8 DEF Maps!InternVar, Maps!IsVarOf, IsVar
<1> QED
  BY <1>3, <1>4 DEF Intern

LEMMA UnmapRefines ==
  ASSUME IInv, NEW ns \in Namespaces, NEW sym \in Symbols, Unmap(ns, sym)
  PROVE  Maps!UnmapSymbol(ns, sym)
<1>1. Types /\ CapturesStay /\ op' = op /\ aliases' = aliases
  BY CallsOfOneStep DEF IInv, Unmap
<1>2. SnapshotsStay(ns)
  BY <1>1, ExcludingStays DEF Unmap
<1>3. /\ \A n \in Namespaces : \A i \in DOMAIN refs[n] :
           maps'[refs[n][i].map] = maps[refs[n][i].map]
      /\ \A n \in Namespaces \ {ns} : Contents(n)' = Contents(n)
      /\ Contents(ns)'[sym] = None
      /\ \A s \in Symbols : s # sym => Contents(ns)'[s] = Contents(ns)[s]
  <2>1. Contents(ns) \in Mappings
    BY <1>1, MapsThere
  <2>2. CASE WriteMapping(ns, sym, None)
    <3>1. /\ Contents(ns)' = [Contents(ns) EXCEPT ![sym] = None]
          /\ \A n \in Namespaces \ {ns} : Contents(n)' = Contents(n)
          /\ \A n \in Namespaces : \A i \in DOMAIN refs[n] :
               maps'[refs[n][i].map] = maps[refs[n][i].map]
      BY <1>1, <1>2, <2>2, WriteChangesOne
    <3> QED
      BY <2>1, <3>1 DEF Mappings
  <2>3. CASE Contents(ns)[sym] = None /\ UNCHANGED <<maps, mappings, shared>>
    BY <2>3 DEF Contents
  <2> QED
    BY <2>2, <2>3 DEF Unmap
<1>4. \A i \in DOMAIN refs[ns] : refs'[ns][i] = Excluded(refs[ns][i], sym)
  BY <1>1 DEF Unmap, Types
<1>5. \A i \in DOMAIN refs[ns] : refs[ns][i] \in Snapshots
  BY <1>1, MapsThere
<1>6. ASSUME NEW i \in DOMAIN refs[ns], NEW s \in Symbols, s # sym
      PROVE  Shows(refs[ns][i], s)' <=> Shows(refs[ns][i], s)
  <2>1. /\ refs'[ns][i].source = refs[ns][i].source /\ refs'[ns][i].map = refs[ns][i].map
        /\ s \in refs'[ns][i].excluded <=> s \in refs[ns][i].excluded
    <3> DEFINE x == refs[ns][i]
               e == x.excluded \cup {sym}
    <3>1. x \in Snapshots /\ refs'[ns][i] = Excluded(x, sym)
      BY <1>4, <1>5
    <3> HIDE DEF x
    <3>2. Excluded(x, sym) = x \/ Excluded(x, sym) = [x EXCEPT !.excluded = e]
      BY DEF Excluded
    <3>3. s \in e <=> s \in x.excluded
      BY <1>6
    <3> HIDE DEF e
    <3>4. /\ [x EXCEPT !.excluded = e].source = x.source /\ [x EXCEPT !.excluded = e].map = x.map
          /\ [x EXCEPT !.excluded = e].excluded = e
      BY <3>1 DEF Snapshots
    <3>5. /\ Excluded(x, sym).source = x.source /\ Excluded(x, sym).map = x.map
          /\ s \in Excluded(x, sym).excluded <=> s \in x.excluded
      BY <3>2, <3>3, <3>4
    <3> QED
      BY <3>1, <3>5 DEF x
  <2> QED
    BY <1>3, <2>1 DEF Shows
<1>7. ASSUME NEW i \in DOMAIN refs[ns]
      PROVE  ~Shows(refs[ns][i], sym)'
  <2>1. refs'[ns][i].map = refs[ns][i].map
    BY <1>2, StayingSnapshots
  <2>2. CASE maps[refs[ns][i].map][sym] # None
    <3>1. sym \in refs'[ns][i].excluded
      BY <1>4, <1>5, <2>2 DEF Excluded, Snapshots
    <3> QED
      BY <3>1 DEF Shows
  <2>3. CASE maps[refs[ns][i].map][sym] = None
    BY <1>3, <2>1, <2>3 DEF Shows, IsVar
  <2> QED
    BY <2>2, <2>3
<1>8. ASSUME NEW s \in Symbols, s # sym
      PROVE  Lookup(ns, s)' = Lookup(ns, s)
  <2>1. /\ DOMAIN refs'[ns] = DOMAIN refs[ns]
        /\ \A i \in DOMAIN refs[ns] : maps'[refs'[ns][i].map][s] = maps[refs[ns][i].map][s]
    BY <1>2, <1>3, StayingSnapshots
  <2> QED
    BY <1>1, <1>3, <1>6, <1>8, <2>1, LookupSame
<1>9. ASSUME NEW n \in Namespaces, NEW s \in Symbols, n # ns
      PROVE  Lookup(n, s)' = Lookup(n, s)
  <2>1. refs'[n] = refs[n]
    BY <1>2, <1>9 DEF SnapshotsStay
  <2> QED
    BY <1>1, <1>3, <1>9, <2>1, LookupDepends
<1>10. Lookup(ns, sym)' = None
  <2>1. DOMAIN refs'[ns] = DOMAIN refs[ns]
    BY <1>2, StayingSnapshots
  <2>2. {i \in DOMAIN refs[ns] : Shows(refs[ns][i], sym)}' = {}
    BY <1>7, <2>1
  <2> QED
    BY <1>3, <2>2 DEF Lookup
<1>11. OneLookup(ns, sym)
  BY <1>8, <1>9 DEF OneLookup
<1>12. Maps!Change(ns, sym)
  BY <1>1, <1>10, <1>11, ChangeOfOne
<1>13. Found' = Found
  BY <1>1 DEF Found
<1> QED
  BY <1>10, <1>12, <1>13 DEF Maps!UnmapSymbol

\* Referring to what is mapped somewhere or has been found.
LEMMA ReferenceRefines ==
  ASSUME IInv, NEW ns \in Namespaces, NEW sym \in Symbols, NEW v \in Values,
         v \in {HostClass} \cup Found \cup Maps!Mapped, Reference(ns, sym, v),
         CapturesStay, aliases' = aliases, Found' \subseteq Found
  PROVE  Maps!ReferTo(ns, sym) \/ Maps!Find
<1>1. v # None
  BY NamespaceAssumption DEF Values, Vars
<1>2. CASE ~IsInterned(ns, sym, Lookup(ns, sym)) /\ WriteMapping(ns, sym, v) /\ refs' = refs
  <2>1. OneLookup(ns, sym) /\ Lookup(ns, sym)' = v
    BY <1>1, <1>2, WriteIsLookedUp
  <2>2. Maps!Change(ns, sym)
    BY <2>1, ChangeOfOne
  <2>3. ~Maps!Interned(ns, sym)
    BY <1>2 DEF Maps!Interned, Maps!IsVarOf, IsInterned, IsVar
  <2> QED
    BY <1>1, <2>1, <2>2, <2>3 DEF Maps!ReferTo
<1>3. CASE UNCHANGED <<maps, mappings, shared, cached>> /\ refs' = refs
  <2>1. LookupsStay
    BY <1>3, UnchangedLookups
  <2> QED
    BY <2>1 DEF LookupsStay, Maps!Find
<1> QED
  BY <1>2, <1>3 DEF Reference

LEMMA ReferRefines ==
  ASSUME IInv, NEW ns \in Namespaces, NEW sym \in Symbols, NEW v \in Values,
         v \in {HostClass} \cup Maps!Mapped, Refer(ns, sym, v)
  PROVE  Maps!ReferTo(ns, sym) \/ Maps!Find
<1>1. CapturesStay /\ op' = op /\ aliases' = aliases /\ Reference(ns, sym, v)
  BY CallsOfOneStep DEF IInv, Refer
<1>2. Found' = Found
  BY <1>1 DEF Found
<1> QED
  BY <1>1, <1>2, ReferenceRefines

\* What an operation in progress has found changes only by its own steps.
LEMMA FoundStays ==
  ASSUME \A g \in G : /\ op'[g].at = "refer" <=> op[g].at = "refer"
                      /\ op[g].at = "refer" => op'[g].vars = op[g].vars
  PROVE  Found' = Found
<1>1. {h \in G : op[h].at = "refer"}' = {h \in G : op[h].at = "refer"}
  OBVIOUS
<1>2. \A g \in {h \in G : op[h].at = "refer"} : ToSet(op[g].vars)' = ToSet(op[g].vars)
  OBVIOUS
<1>3. {ToSet(op[g].vars) : g \in {h \in G : op[h].at = "refer"}}'
        = {ToSet(op[g].vars) : g \in {h \in G : op[h].at = "refer"}}
  BY <1>1, <1>2
<1> QED
  BY <1>3 DEF Found

LEMMA StartReferAllRefines ==
  ASSUME IInv, NEW g \in G, NEW ns \in Namespaces, NEW source \in Namespaces,
         NEW list \in RefLists, StartReferAll(g, ns, source, list)
  PROVE  Maps!Find
<1> DEFINE values == [i \in DOMAIN list |-> Contents(source)[list[i][1]]]
           o == [at |-> "refer", ns |-> ns, names |-> [i \in DOMAIN list |-> list[i][2]],
                 vars |-> values]
<1>1. Types /\ op[g].at = "idle"
  BY DEF IInv, StartReferAll, Idle
<1>2. /\ op' = [op EXCEPT ![g] = o] /\ UNCHANGED mapState /\ aliases' = aliases
      /\ o.vars = values
  BY DEF StartReferAll
<1>3. op'[g] = o /\ \A h \in G \ {g} : op'[h] = op[h]
  BY <1>1, <1>2 DEF Types
<1>4. list \in Seq(Symbols \X Symbols)
  BY NamespaceAssumption
<1>5. ASSUME NEW i \in DOMAIN list, values[i] # None
      PROVE  values[i] \in Maps!Mapped
  <2>1. list[i][1] \in Symbols
    BY <1>4
  <2>2. Lookup(source, list[i][1]) = values[i]
    BY <1>5 DEF Lookup
  <2> QED
    BY <2>1, <2>2, LookedUpIsMapped
<1> HIDE DEF o
<1>6. ASSUME NEW v \in Found'
      PROVE  v \in Found \cup Maps!Mapped
  <2>1. PICK h \in G : op'[h].at = "refer" /\ v \in ToSet(op'[h].vars) /\ IsVar(v)
    BY DEF Found
  <2>2. CASE h = g
    <3>1. PICK i \in DOMAIN values : v = values[i]
      BY <1>2, <1>3, <2>1, <2>2 DEF ToSet
    <3> QED
      BY <1>5, <2>1, <3>1 DEF IsVar
  <2>3. CASE h # g
    BY <1>3, <2>1, <2>3 DEF Found
  <2> QED
    BY <2>2, <2>3
<1>7. LookupsStay
  BY <1>2, UnchangedLookups DEF mapState
<1> QED
  BY <1>2, <1>6, <1>7 DEF LookupsStay, Maps!Find

LEMMA ReferNextRefines ==
  ASSUME IInv, NEW g \in G, ReferNext(g)
  PROVE  \/ \E ns \in Namespaces, sym \in Symbols : Maps!ReferTo(ns, sym)
         \/ Maps!Find
<1> DEFINE o == op[g]
           v == Head(o.vars)
           rest == [o EXCEPT !.vars = Tail(o.vars), !.names = Tail(o.names)]
           next == IF Len(o.vars) = 1 THEN Idle ELSE rest
<1>1. Types /\ OperationsPending /\ o.at = "refer"
  BY DEF IInv, ReferNext
<1>2. /\ o \in ReferOps /\ o.vars \in Seq(Values \cup {None}) /\ Len(o.vars) > 0
      /\ o.ns \in Namespaces /\ Head(o.names) \in Symbols
      /\ IsVar(v) => v \in Values
  BY <1>1, OperationFields, NextToRefer DEF ReferOps, OperationsPending
<1>3. op' = [op EXCEPT ![g] = next] /\ aliases' = aliases
  BY DEF ReferNext
<1>4. op'[g] = next /\ \A h \in G \ {g} : op'[h] = op[h]
  BY <1>1, <1>3 DEF Types
<1>5. rest.vars = Tail(o.vars) /\ rest.at = "refer"
  BY <1>2 DEF ReferOps
<1>6. /\ v \in ToSet(o.vars)
      /\ ToSet(Tail(o.vars)) \subseteq ToSet(o.vars)
  <2>1. o.vars # <<>> /\ DOMAIN o.vars = 1 .. Len(o.vars) /\ Len(o.vars) \in Nat
    BY <1>2
  <2>2. 1 \in DOMAIN o.vars /\ v = o.vars[1]
    BY <1>2, <2>1
  <2>3. /\ Tail(o.vars) \in Seq(Values \cup {None}) /\ Len(Tail(o.vars)) = Len(o.vars) - 1
        /\ \A i \in 1 .. Len(Tail(o.vars)) : Tail(o.vars)[i] = o.vars[i + 1]
    BY <1>2, <2>1, HeadTailProperties
  <2>4. DOMAIN Tail(o.vars) = 1 .. Len(o.vars) - 1
    BY <2>3
  <2> HIDE DEF o
  <2>5. \A i \in DOMAIN Tail(o.vars) : i + 1 \in DOMAIN o.vars /\ Tail(o.vars)[i] = o.vars[i + 1]
    BY <2>1, <2>3, <2>4
  <2> QED
    BY <2>2, <2>5 DEF ToSet
<1> HIDE DEF rest
<1>7. Found' \subseteq Found
  <2> SUFFICES ASSUME NEW x \in Found' PROVE x \in Found
    OBVIOUS
  <2>1. PICK h \in G : op'[h].at = "refer" /\ x \in ToSet(op'[h].vars) /\ IsVar(x)
    BY DEF Found
  <2>2. CASE h = g
    <3>1. op'[g] = rest
      BY <1>4, <2>1, <2>2 DEF Idle
    <3>2. x \in ToSet(o.vars)
      BY <1>5, <1>6, <2>1, <2>2, <3>1
    <3> QED
      BY <1>1, <2>1, <3>2 DEF Found
  <2>3. CASE h # g
    BY <1>4, <2>1, <2>3 DEF Found
  <2> QED
    BY <2>2, <2>3
<1>8. CapturesStay
  <2>1. next.at # "install"
    BY <1>5 DEF Idle
  <2> QED
    BY <1>1, <1>4, <2>1 DEF CapturesStay
<1>9. CASE IsVar(v)
  <2>1. v \in Values /\ v \in Found
    BY <1>1, <1>2, <1>6, <1>9 DEF Found
  <2>2. Reference(o.ns, Head(o.names), v)
    BY <1>9 DEF ReferNext
  <2> HIDE DEF o, v
  <2>3. Maps!ReferTo(o.ns, Head(o.names)) \/ Maps!Find
    BY <1>2, <1>3, <1>7, <1>8, <2>1, <2>2, ReferenceRefines
  <2> QED
    BY <1>2, <2>3
<1>10. CASE ~IsVar(v)
  <2>1. LookupsStay
    BY <1>10, UnchangedLookups DEF ReferNext, mapState
  <2> QED
    BY <1>3, <1>7, <2>1 DEF LookupsStay, Maps!Find
<1> QED
  BY <1>9, <1>10

LEMMA ShareMappingsRefines ==
  ASSUME IInv, NEW g \in G, NEW ns \in Namespaces, NEW source \in Namespaces,
         NEW excluded \in Exclusions, ns # source, ShareMappings(g, ns, source, excluded)
  PROVE  UNCHANGED Maps!mapVars
<1>1. Types /\ op[g].at = "idle" /\ UNCHANGED <<mappings, refs, aliases>>
  BY DEF IInv, ShareMappings, Idle
<1>2. /\ op'[g].at = "install" /\ \A h \in G \ {g} : op'[h] = op[h]
      /\ \A i \in DOMAIN maps : maps'[i] = maps[i]
  BY ShareLeaves DEF Captured
<1>3. LookupsStay
  BY <1>1, <1>2, MapsThere, SameLookups DEF Contents
<1>4. Found' = Found
  BY <1>1, <1>2, FoundStays
<1> QED
  BY <1>1, <1>3, <1>4, StutteringMaps

\* A snapshot of another namespace shows Vars of that namespace only, and hides what an
\* older one of it has shown.
LEMMA InstallSnapshotRefines ==
  ASSUME IInv, NEW g \in G, InstallSnapshot(g)
  PROVE  \E ns \in Namespaces : \E source \in Namespaces \ {ns} : Maps!ReferToAll(ns, source)
<1>1. Types /\ Types' /\ SourcesOther /\ op[g].at = "install" /\ op[g] \in InstallOps
  BY OperationFields, InstallSnapshotKeeps DEF IInv, InstallSnapshot
<1>2. PICK ns \in Namespaces, source \in Namespaces :
        ns = op[g].ns /\ source = op[g].source /\ source # ns
  BY <1>1 DEF InstallOps, SourcesOther
<1>3. Installed(g)
  BY InstallChanges
<1>4. mappings' = mappings /\ aliases' = aliases
  BY DEF InstallSnapshot
<1>5. /\ \A n \in Namespaces \ {ns} : refs'[n] = refs[n]
      /\ \A i \in DOMAIN refs'[ns] :
           (i \in DOMAIN refs[ns] /\ refs'[ns][i] = refs[ns][i]) \/ refs'[ns][i].source = source
      /\ \A i \in DOMAIN refs[ns] :
           /\ i \in DOMAIN refs'[ns]
           /\ refs[ns][i].source # source => refs'[ns][i] = refs[ns][i]
      /\ \A i \in DOMAIN maps' : maps'[i] = maps[i]
  BY <1>2, <1>3 DEF Installed
<1>6. /\ \A n \in Namespaces : mappings'[n] \in DOMAIN maps'
      /\ \A n \in Namespaces : \A i \in DOMAIN refs'[n] : refs'[n][i].map \in DOMAIN maps'
  <2>1. DOMAIN maps' = Live(mappings', refs', Captures')
    BY <1>1 DEF Types
  <2> QED
    BY <2>1 DEF Live
<1>7. \A n \in Namespaces : Contents(n)' = Contents(n)
  BY <1>4, <1>5, <1>6 DEF Contents
<1>8. ASSUME NEW n \in Namespaces \ {ns}, NEW s \in Symbols
      PROVE  Lookup(n, s)' = Lookup(n, s)
  <2>1. refs'[n] = refs[n] /\ \A i \in DOMAIN refs[n] : maps'[refs[n][i].map] = maps[refs[n][i].map]
    BY <1>5, <1>6
  <2> QED
    BY <1>1, <1>7, <2>1, LookupDepends
<1>9. ASSUME NEW s \in Symbols
      PROVE  \/ Lookup(ns, s)' = Lookup(ns, s)
             \/ ~IsInterned(ns, s, Lookup(ns, s)) /\ IsInterned(source, s, Lookup(ns, s)')
             \/ IsInterned(source, s, Lookup(ns, s))
  <2> DEFINE before == {i \in DOMAIN refs[ns] : Shows(refs[ns][i], s)}
             after == {i \in DOMAIN refs[ns] : Shows(refs[ns][i], s)}'
             old == refs[ns][Max(before)]
             new == refs'[ns][Max(after)]
  <2>1. Lookup(ns, s) = IF Contents(ns)[s] # None THEN Contents(ns)[s]
                        ELSE IF before = {} THEN None ELSE maps[old.map][s]
    BY DEF Lookup
  <2>2. Lookup(ns, s)' = IF Contents(ns)[s] # None THEN Contents(ns)[s]
                         ELSE IF after = {} THEN None ELSE maps'[new.map][s]
    BY <1>2, <1>7 DEF Lookup
  <2>3. before # {} =>
          /\ Max(before) \in before /\ Max(before) \in DOMAIN refs[ns]
          /\ \A i \in before : i \in Int /\ Max(before) >= i
    BY <1>1, <1>2, ShowingPosition
  <2>4. after # {} =>
          /\ Max(after) \in after /\ Max(after) \in DOMAIN refs'[ns]
          /\ \A i \in after : i \in Int /\ Max(after) >= i
    <3>1. refs'[ns] \in Seq(Snapshots) /\ DOMAIN refs'[ns] = 1 .. Len(refs'[ns])
          /\ Len(refs'[ns]) \in Nat
      BY <1>1, <1>2 DEF Types
    <3>2. after \in SUBSET (DOMAIN refs'[ns])
      OBVIOUS
    <3>3. \A i \in DOMAIN refs'[ns] : i \in Int
      BY <3>1
    <3> HIDE DEF after
    <3> QED
      BY <3>1, <3>2, <3>3, LastPosition
  <2>5. before # {} => Shows(old, s)
    BY <2>3
  <2>6. after # {} => s \notin new.excluded /\ IsInterned(new.source, s, maps'[new.map][s])
    BY <2>4 DEF Shows, IsInterned
  <2>7. before # {} => IsInterned(old.source, s, maps[old.map][s]) /\ old.source # ns
    BY <1>1, <1>2, <2>3, <2>5 DEF Shows, IsInterned, SourcesOther
  <2>8. \A i \in DOMAIN refs'[ns] : i \in DOMAIN refs[ns] /\ refs'[ns][i] = refs[ns][i] =>
          (i \in after <=> i \in before)
    BY <1>2, <1>5, <1>6 DEF Shows
  <2> HIDE DEF before, after
  <2>9. CASE Contents(ns)[s] # None
    BY <2>1, <2>2, <2>9
  <2>10. CASE Contents(ns)[s] = None /\ after # {} /\ new.source = source
    <3>1. IsInterned(source, s, Lookup(ns, s)')
      BY <2>2, <2>6, <2>10
    <3>2. ~IsInterned(ns, s, Lookup(ns, s))
      BY <2>1, <2>7, <2>10 DEF IsInterned, IsVar
    <3> QED
      BY <3>1, <3>2
  <2>11. CASE Contents(ns)[s] = None /\ before # {} /\ old.source = source
    BY <2>1, <2>7, <2>11
  <2>12. CASE /\ Contents(ns)[s] = None /\ (after # {} => new.source # source)
              /\ before # {} => old.source # source
    <3>1. after # {} => Max(after) \in before /\ new = refs[ns][Max(after)]
      BY <1>5, <2>4, <2>8, <2>12
    <3>2. before # {} => Max(before) \in after /\ old = refs'[ns][Max(before)]
      BY <1>5, <2>3, <2>8, <2>12
    <3>3. CASE before = {}
      BY <2>1, <2>2, <2>12, <3>1, <3>3
    <3>4. CASE before # {}
      <4>1. after # {}
        BY <3>2, <3>4
      <4>2. Max(after) = Max(before)
        <5> DEFINE a == Max(after)
                   b == Max(before)
        <5>1. a \in before /\ b \in after /\ a \in Int /\ b \in Int /\ a >= b /\ b >= a
          BY <2>3, <2>4, <3>1, <3>2, <3>4, <4>1
        <5> HIDE DEF a, b
        <5>2. a = b
          BY <5>1
        <5> QED
          BY <5>2 DEF a, b
      <4>3. new = old /\ new.map \in DOMAIN maps'
        BY <1>2, <1>6, <2>4, <3>1, <4>1, <4>2
      <4> QED
        BY <1>5, <2>1, <2>2, <3>4, <4>1, <4>3
    <3> QED
      BY <3>3, <3>4
  <2> QED
    BY <2>9, <2>10, <2>11, <2>12
<1>10. Found' = Found
  <2>1. op'[g].at = "idle" /\ \A h \in G \ {g} : op'[h] = op[h]
    BY <1>3 DEF Installed, Idle
  <2> QED
    BY <1>1, <2>1, FoundStays
<1>11. Maps!ReferToAll(ns, source)
  <2> DEFINE view == [n \in Namespaces |-> [s \in Symbols |-> Lookup(n, s)]]
  <2>1. \A n \in Namespaces, s \in Symbols :
          view[n][s] = Lookup(n, s) /\ view'[n][s] = Lookup(n, s)'
    OBVIOUS
  <2>2. \A other \in Namespaces \ {ns} : view'[other] = view[other]
    BY <1>8
  <2> HIDE DEF view
  <2>3. \A s \in Symbols :
          \/ view'[ns][s] = view[ns][s]
          \/ ~IsInterned(ns, s, view[ns][s]) /\ IsInterned(source, s, view'[ns][s])
          \/ IsInterned(source, s, view[ns][s])
    BY <1>2, <1>9, <2>1
  <2> QED
    BY <1>4, <1>10, <2>2, <2>3
       DEF Maps!ReferToAll, Maps!Interned, Maps!IsVarOf, IsInterned, IsVar, view
<1> QED
  BY <1>2, <1>11

LEMMA LoadAliasesRefines ==
  ASSUME IInv, NEW g \in G, NEW ns \in Namespaces, NEW a \in Aliases, NEW target \in Namespaces,
         LoadAliases(g, ns, a, target)
  PROVE  UNCHANGED Maps!mapVars
<1>1. Types /\ op[g].at = "idle" /\ UNCHANGED mapState /\ aliases' = aliases
  BY DEF IInv, LoadAliases, Idle
<1>2. op'[g].at = "alias" /\ \A h \in G \ {g} : op'[h] = op[h]
  <2> DEFINE o == [at |-> "alias", ns |-> ns, alias |-> a, target |-> target, loaded |-> aliases[ns]]
  <2>1. op' = [op EXCEPT ![g] = o] /\ o.at = "alias"
    BY DEF LoadAliases
  <2> HIDE DEF o
  <2> QED
    BY <1>1, <2>1 DEF Types
<1>3. Found' = Found
  BY <1>1, <1>2, FoundStays
<1>4. LookupsStay
  BY <1>1, UnchangedLookups DEF mapState
<1> QED
  BY <1>1, <1>3, <1>4, StutteringMaps

\* The swap sets an alias that was not there when the aliases were loaded, and they are
\* still the same.
LEMMA SwapAliasesRefines ==
  ASSUME IInv, NEW g \in G, SwapAliases(g)
  PROVE  \/ \E ns \in Namespaces, a \in Aliases : Maps!SetAlias(ns, a)
         \/ UNCHANGED Maps!mapVars
<1> DEFINE o == op[g]
<1>1. Types /\ OperationsPending /\ o.at = "alias" /\ UNCHANGED mapState
  BY DEF IInv, SwapAliases
<1>2. /\ o \in AliasOps /\ o.ns \in Namespaces /\ o.alias \in Aliases /\ o.target \in Namespaces
      /\ o.loaded[o.alias] = None
  BY <1>1, OperationFields DEF AliasOps, OperationsPending
<1>3. (\A h \in G \ {g} : op'[h] = op[h]) /\ op'[g].at # "refer"
  <2> DEFINE again == [o EXCEPT !.loaded = aliases'[o.ns]]
             next == IF aliases'[o.ns][o.alias] # None THEN Idle ELSE again
  <2>1. op' = [op EXCEPT ![g] = next]
    BY DEF SwapAliases
  <2>2. again.at = "alias"
    BY <1>2 DEF AliasOps
  <2> HIDE DEF again
  <2>3. next.at # "refer"
    BY <2>2 DEF Idle
  <2> HIDE DEF next
  <2> QED
    BY <1>1, <2>1, <2>3 DEF Types
<1>4. Found' = Found
  BY <1>1, <1>3, FoundStays
<1>5. LookupsStay
  BY <1>1, UnchangedLookups DEF mapState
<1>6. CASE /\ aliases[o.ns] = o.loaded
           /\ aliases' = [aliases EXCEPT ![o.ns][o.alias] = o.target]
  <2>1. aliases[o.ns][o.alias] = None
    BY <1>2, <1>6
  <2> HIDE DEF o
  <2>2. Maps!SetAlias(o.ns, o.alias)
    BY <1>2, <1>4, <1>5, <1>6, <2>1 DEF Maps!SetAlias, LookupsStay
  <2> QED
    BY <1>2, <2>2
<1>7. CASE aliases' = aliases
  BY <1>4, <1>5, <1>7, StutteringMaps
<1> QED
  BY <1>6, <1>7 DEF SwapAliases

LEMMA InitRefines == Init => Maps!MapsInit
<1> SUFFICES ASSUME Init PROVE Maps!MapsInit
  OBVIOUS
<1>1. Types
  BY InitInvariant DEF IInv
<1>2. \A n \in Namespaces, s \in Symbols : Lookup(n, s) \in Values \cup {None}
  BY InitInvariant, LookupIsCounted
<1>3. Found = {}
  <2>1. \A g \in G : op[g].at # "refer"
    BY DEF Init, Idle
  <2> QED
    BY <2>1 DEF Found
<1> QED
  BY <1>2, <1>3 DEF Maps!MapsInit, Init, NoAliases

LEMMA NextRefines == IInv /\ [Next]_vars => [Maps!MapsNext]_(Maps!mapVars)
<1> SUFFICES ASSUME IInv, [Next]_vars PROVE Maps!MapsNext \/ UNCHANGED Maps!mapVars
  OBVIOUS
<1>1. ASSUME NEW ns \in Namespaces, NEW sym \in Symbols, Intern(ns, sym)
      PROVE  Maps!MapsNext \/ UNCHANGED Maps!mapVars
  BY <1>1, InternRefines DEF Maps!MapsNext
<1>2. ASSUME NEW ns \in Namespaces, NEW sym \in Symbols, Unmap(ns, sym)
      PROVE  Maps!MapsNext
  BY <1>2, UnmapRefines DEF Maps!MapsNext
<1>3. ASSUME NEW ns \in Namespaces, NEW sym \in Symbols, Import(ns, sym)
      PROVE  Maps!MapsNext
  <2>1. HostClass \in Values /\ Refer(ns, sym, HostClass)
    BY <1>3 DEF Values, Import
  <2>2. Maps!ReferTo(ns, sym) \/ Maps!Find
    BY <2>1, ReferRefines
  <2> QED
    BY <2>2 DEF Maps!MapsNext
<1>4. ASSUME NEW ns \in Namespaces, NEW sym \in Symbols, NEW source \in Namespaces,
             IsVar(Lookup(source, sym)), Refer(ns, sym, Lookup(source, sym))
      PROVE  Maps!MapsNext
  <2>1. Lookup(source, sym) \in Values /\ Lookup(source, sym) \in Maps!Mapped
    BY <1>4, LookupIsCounted, LookedUpIsMapped DEF IsVar
  <2>2. Maps!ReferTo(ns, sym) \/ Maps!Find
    BY <1>4, <2>1, ReferRefines
  <2> QED
    BY <2>2 DEF Maps!MapsNext
<1>5. ASSUME NEW ns \in Namespaces, ReadMappings(ns)
      PROVE  UNCHANGED Maps!mapVars
  <2>1. LookupsStay /\ aliases' = aliases /\ op' = op
    BY <1>5, UnchangedLookups DEF ReadMappings
  <2>2. Found' = Found
    BY <2>1 DEF Found
  <2> QED
    BY <2>1, <2>2, StutteringMaps
<1>6. \A r \in Refers : r[1] \in Namespaces /\ r[2] \in Namespaces /\ r[1] # r[2]
  BY NamespaceAssumption
<1>7. ASSUME NEW g \in G, NEW r \in Refers, NEW list \in RefLists,
             StartReferAll(g, r[1], r[2], list)
      PROVE  Maps!MapsNext
  BY <1>6, <1>7, StartReferAllRefines DEF Maps!MapsNext
<1>8. ASSUME NEW g \in G, NEW r \in Refers, NEW excluded \in Exclusions,
             ShareMappings(g, r[1], r[2], excluded)
      PROVE  UNCHANGED Maps!mapVars
  BY <1>6, <1>8, ShareMappingsRefines
<1>9. ASSUME NEW g \in G, NEW r \in Refers, NEW a \in Aliases, LoadAliases(g, r[1], a, r[2])
      PROVE  UNCHANGED Maps!mapVars
  BY <1>6, <1>9, LoadAliasesRefines
<1>10. ASSUME NEW g \in G, ReferNext(g)
       PROVE  Maps!MapsNext
  BY <1>10, ReferNextRefines DEF Maps!MapsNext
<1>11. ASSUME NEW g \in G, InstallSnapshot(g)
       PROVE  Maps!MapsNext
  BY <1>11, InstallSnapshotRefines DEF Maps!MapsNext
<1>12. ASSUME NEW g \in G, SwapAliases(g)
       PROVE  Maps!MapsNext \/ UNCHANGED Maps!mapVars
  BY <1>12, SwapAliasesRefines DEF Maps!MapsNext
<1>13. CASE UNCHANGED vars
  <2>1. LookupsStay /\ aliases' = aliases /\ op' = op
    BY <1>13, UnchangedLookups DEF vars
  <2>2. Found' = Found
    BY <2>1 DEF Found
  <2> QED
    BY <2>1, <2>2, StutteringMaps
<1> QED
  BY <1>1, <1>2, <1>3, <1>4, <1>5, <1>7, <1>8, <1>9, <1>10, <1>11, <1>12, <1>13 DEF Next

\* Sharing, copying, snapshots and exclusions never show: each namespace is a map of its
\* own that only its operations change, an interned Var is a new one that stays until it
\* is unmapped, what is referred to has been mapped before, and an alias is set once.
THEOREM NamespacesAreMaps == Spec => ImplementsNamespaceMaps
BY InitRefines, Invariance, NextRefines, PTL DEF Spec, ImplementsNamespaceMaps, Maps!MapsSpec
=============================================================================
