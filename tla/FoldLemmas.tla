----------------------------- MODULE FoldLemmas -----------------------------
(***************************************************************************)
(* Folds over finite sets and sequences, for the operators of the          *)
(* community modules that are one: MapThenSumSet(LAMBDA x : c[x], S) is    *)
(* iter[S] for the iter of IsSum, and FoldLeft folds the positions of a    *)
(* sequence, the last one first.  That such functions exist, what changing *)
(* one term does to a sum and that it bounds each term are proved from the *)
(* smallest set for which they would fail; that a recursion over the       *)
(* naturals has a solution, from the smallest number.                      *)
(***************************************************************************)
EXTENDS Integers, FiniteSetsExt, FiniteSetTheorems, WellFoundedInduction, TLAPS

\* A recursion over the parts of S, with values in K, that takes the element pick[s]
\* of s out first.
Foldable(F, base, pick, S, K) ==
  /\ F \in [S -> [K -> K]] /\ base \in K
  /\ \A s \in SUBSET S : s # {} => pick[s] \in s

\* iter[s] is the fold of s by F.
IsFold(iter, F, base, pick, S, K) ==
  /\ iter \in [SUBSET S -> K]
  /\ \A s \in SUBSET S :
       iter[s] = IF s = {} THEN base ELSE F[pick[s]][iter[s \ {pick[s]}]]

\* iter[s] is the sum of c over s, for every part s of S.
IsSum(iter, c, S) ==
  iter = [s \in SUBSET S |-> IF s = {} THEN 0
                             ELSE LET x == CHOOSE x \in s : TRUE
                                  IN c[x] + iter[s \ {x}]]

LEMMA SmallestNat ==
  ASSUME NEW T, T \subseteq Nat, T # {}
  PROVE  \E n \in T : \A m \in T : n <= m
<1>1. PICK n \in T : \A m \in T : ~(<<m, n>> \in OpToRel(<, Nat))
  BY NatLessThanWellFounded, WFMin
<1>2. \A m \in T : ~(m < n)
  BY <1>1 DEF OpToRel
<1> QED
  BY <1>2

LEMMA SmallestSubset ==
  ASSUME NEW S, IsFiniteSet(S), NEW T, T \subseteq SUBSET S, T # {}
  PROVE  \E s \in T : \A x \in s : s \ {x} \notin T
<1> DEFINE Sizes == {Cardinality(s) : s \in T}
<1>1. \A s \in T : IsFiniteSet(s) /\ Cardinality(s) \in Nat
  BY FS_Subset, FS_CardinalityType
<1>2. Sizes \subseteq Nat /\ Sizes # {}
  BY <1>1
<1>3. PICK n \in Sizes : \A m \in Sizes : n <= m
  <2> HIDE DEF Sizes
  <2> QED
    BY <1>2, SmallestNat
<1>4. PICK s \in T : n = Cardinality(s)
  OBVIOUS
<1>5. ASSUME NEW x \in s, s \ {x} \in T PROVE FALSE
  <2>1. Cardinality(s \ {x}) = Cardinality(s) - 1
    BY <1>1, FS_RemoveElement
  <2>2. n <= Cardinality(s \ {x})
    BY <1>3, <1>5
  <2> QED
    BY <1>1, <1>4, <2>1, <2>2
<1> QED
  BY <1>5

\* Such a recursion has a solution: one for the sets of at most n elements extends to
\* the sets of at most n + 1.
LEMMA FoldExists ==
  ASSUME NEW S, IsFiniteSet(S), NEW F, NEW base, NEW pick, NEW K,
         Foldable(F, base, pick, S, K)
  PROVE  \E iter : IsFold(iter, F, base, pick, S, K)
<1> USE DEF Foldable
<1> DEFINE Level(n) == {s \in SUBSET S : Cardinality(s) <= n}
           Upto(h, n) == h \in [Level(n) -> K] /\ \A s \in Level(n) :
                           h[s] = IF s = {} THEN base ELSE F[pick[s]][h[s \ {pick[s]}]]
           Bad == {n \in Nat : ~ \E h : Upto(h, n)}
<1>1. \A s \in SUBSET S : IsFiniteSet(s) /\ Cardinality(s) \in Nat /\ Cardinality(s) <= Cardinality(S)
  BY FS_Subset, FS_CardinalityType
<1>2. ASSUME NEW n \in Nat, NEW s \in Level(n), s # {}
      PROVE  n # 0 /\ pick[s] \in S /\ s \ {pick[s]} \in Level(n - 1)
  <2>1. s \in SUBSET S /\ Cardinality(s) <= n /\ Cardinality(s) \in Nat /\ pick[s] \in s
    BY <1>1, <1>2
  <2>2. Cardinality(s \ {pick[s]}) = Cardinality(s) - 1
    BY <1>1, <2>1, FS_RemoveElement
  <2>3. Cardinality(s \ {pick[s]}) \in Nat
    BY <1>1, <2>1
  <2> QED
    BY <2>1, <2>2, <2>3
<1>3. Bad = {}
  <2> SUFFICES ASSUME Bad # {} PROVE FALSE
    OBVIOUS
  <2>1. PICK n \in Bad : \A m \in Bad : n <= m
    <3> Bad \subseteq Nat
      OBVIOUS
    <3> HIDE DEF Bad
    <3> QED
      BY SmallestNat
  <2>2. CASE n = 0
    <3> DEFINE h == [s \in Level(0) |-> base]
    <3>1. \A s \in Level(0) : s = {}
      BY <1>2
    <3>2. Upto(h, 0)
      <4> HIDE DEF Level
      <4> QED
        BY <3>1
    <3> QED
      BY <2>1, <2>2, <3>2
  <2>3. CASE n # 0
    <3>1. n \in Nat /\ n - 1 \in Nat /\ n - 1 \notin Bad
      <4>1. Bad \subseteq Nat
        OBVIOUS
      <4> HIDE DEF Bad
      <4> QED
        BY <2>1, <2>3, <4>1
    <3>2. PICK h : Upto(h, n - 1)
      BY <3>1
    <3> DEFINE H == [s \in Level(n) |-> IF s \in Level(n - 1) THEN h[s]
                                        ELSE F[pick[s]][h[s \ {pick[s]}]]]
    <3>3. Level(n - 1) \subseteq Level(n)
      BY <1>1, <3>1
    <3>4. \A s \in Level(n) : s # {} => pick[s] \in S /\ s \ {pick[s]} \in Level(n - 1)
      BY <1>2, <3>1
    <3>5. \A s \in Level(n) : s = {} => s \in Level(n - 1)
      BY <3>1, FS_EmptySet
    <3> HIDE DEF Level
    <3>6. /\ h \in [Level(n - 1) -> K]
          /\ \A s \in Level(n - 1) : h[s] = IF s = {} THEN base ELSE F[pick[s]][h[s \ {pick[s]}]]
      BY <3>2
    <3>7. \A s \in Level(n) : s # {} => H[s \ {pick[s]}] = h[s \ {pick[s]}]
      BY <3>3, <3>4
    <3>8. \A s \in Level(n) : H[s] = IF s = {} THEN base ELSE F[pick[s]][H[s \ {pick[s]}]]
      BY <3>5, <3>6, <3>7
    <3>9. ASSUME NEW s \in Level(n) PROVE H[s] \in K
      <4>1. CASE s \in Level(n - 1)
        BY <3>6, <4>1
      <4>2. CASE s \notin Level(n - 1)
        <5>1. s # {} /\ pick[s] \in S /\ s \ {pick[s]} \in Level(n - 1)
          BY <3>4, <3>5, <4>2
        <5>2. h[s \ {pick[s]}] \in K
          BY <3>6, <5>1
        <5>3. F[pick[s]] \in [K -> K]
          BY <5>1
        <5>4. F[pick[s]][h[s \ {pick[s]}]] \in K
          BY <5>2, <5>3
        <5>5. H[s] = F[pick[s]][h[s \ {pick[s]}]]
          BY <4>2
        <5> QED
          BY <5>4, <5>5
      <4> QED
        BY <4>1, <4>2
    <3>10. Upto(H, n)
      BY <3>8, <3>9
    <3> QED
      BY <2>1, <3>10
  <2> QED
    BY <2>2, <2>3
<1>4. Cardinality(S) \in Nat
  BY FS_CardinalityType
<1>5. PICK h : Upto(h, Cardinality(S))
  BY <1>3, <1>4
<1>6. Level(Cardinality(S)) = SUBSET S
  BY <1>1
<1> HIDE DEF Level
<1> QED
  BY <1>5, <1>6 DEF IsFold

\* Some positions of a sequence have a last one.
LEMMA LastPosition ==
  ASSUME NEW n \in Nat, NEW s \in SUBSET (1 .. n), s # {}
  PROVE  Max(s) \in s /\ \A j \in s : Max(s) >= j
<1> DEFINE T == {n - i : i \in s}
<1>1. T \subseteq Nat /\ T # {}
  <2>1. \A i \in s : i \in Int /\ i <= n
    OBVIOUS
  <2>2. \A i \in s : n - i \in Nat
    BY <2>1
  <2> QED
    BY <2>2
<1>2. PICK d \in T : \A e \in T : d <= e
  <2> HIDE DEF T
  <2> QED
    BY <1>1, SmallestNat
<1>3. PICK i \in s : d = n - i
  OBVIOUS
<1>4. \A j \in s : i >= j
  <2> SUFFICES ASSUME NEW j \in s PROVE i >= j
    OBVIOUS
  <2>1. n - j \in T /\ i \in Int /\ j \in Int
    OBVIOUS
  <2>2. n - i <= n - j
    BY <1>2, <1>3, <2>1
  <2> HIDE DEF T
  <2> QED
    BY <2>1, <2>2
<1> QED
  BY <1>4 DEF Max

LEMMA SmallestIsMin ==
  ASSUME NEW T \in SUBSET Nat, T # {}
  PROVE  Min(T) \in T /\ \A n \in T : Min(T) <= n
<1>1. \E n \in T : \A m \in T : n <= m
  BY SmallestNat
<1> QED
  BY <1>1 DEF Min

LEMMA SumExists ==
  ASSUME NEW S, IsFiniteSet(S), NEW c \in [S -> Int]
  PROVE  \E iter : IsSum(iter, c, S)
<1> DEFINE F == [x \in S |-> [n \in Int |-> c[x] + n]]
           pick == [s \in SUBSET S |-> CHOOSE x \in s : TRUE]
<1>1. F \in [S -> [Int -> Int]]
  OBVIOUS
<1>2. \A s \in SUBSET S : s # {} => pick[s] \in s
  OBVIOUS
<1>3. \A x \in S, n \in Int : F[x][n] = c[x] + n
  OBVIOUS
<1> HIDE DEF F
<1>4. PICK iter : IsFold(iter, F, 0, pick, S, Int)
  <2> HIDE DEF pick
  <2>1. Foldable(F, 0, pick, S, Int)
    BY <1>1, <1>2 DEF Foldable
  <2> QED
    BY <2>1, FoldExists
<1>5. ASSUME NEW s \in SUBSET S, s # {}
      PROVE  iter[s] = LET x == CHOOSE x \in s : TRUE IN c[x] + iter[s \ {x}]
  <2> DEFINE x == CHOOSE x \in s : TRUE
  <2>1. pick[s] = x /\ x \in S /\ s \ {x} \in SUBSET S
    BY <1>2, <1>5
  <2> HIDE DEF x, pick
  <2>2. iter[s \ {x}] \in Int
    BY <1>4, <2>1 DEF IsFold
  <2>3. iter[s] = F[pick[s]][iter[s \ {pick[s]}]]
    BY <1>4, <1>5 DEF IsFold
  <2>4. iter[s] = c[x] + iter[s \ {x}]
    BY <1>3, <2>1, <2>2, <2>3
  <2> QED
    BY <2>4 DEF x
<1>6. iter[{}] = 0 /\ iter \in [SUBSET S -> Int]
  BY <1>4 DEF IsFold
<1>7. iter = [s \in SUBSET S |-> IF s = {} THEN 0
                                 ELSE LET x == CHOOSE x \in s : TRUE IN c[x] + iter[s \ {x}]]
  BY <1>5, <1>6
<1> QED
  BY <1>7 DEF IsSum

LEMMA SumStep ==
  ASSUME NEW S, NEW c, NEW iter, IsSum(iter, c, S)
  PROVE  /\ iter[{}] = 0
         /\ \A s \in SUBSET S : s # {} =>
              \E x \in s : s \ {x} \in SUBSET S /\ iter[s] = c[x] + iter[s \ {x}]
<1>1. iter[{}] = 0
  BY DEF IsSum
<1>2. ASSUME NEW s \in SUBSET S, s # {}
      PROVE  \E x \in s : s \ {x} \in SUBSET S /\ iter[s] = c[x] + iter[s \ {x}]
  <2> DEFINE x == CHOOSE x \in s : TRUE
  <2>1. x \in s /\ s \ {x} \in SUBSET S
    BY <1>2
  <2>2. iter[s] = c[x] + iter[s \ {x}]
    BY <1>2 DEF IsSum
  <2> HIDE DEF x
  <2> QED
    BY <2>1, <2>2
<1> QED
  BY <1>1, <1>2

LEMMA SumType ==
  ASSUME NEW S, IsFiniteSet(S), NEW c \in [S -> Int], NEW iter, IsSum(iter, c, S)
  PROVE  \A s \in SUBSET S : iter[s] \in Int
<1> DEFINE Bad == {s \in SUBSET S : iter[s] \notin Int}
<1> SUFFICES ASSUME Bad # {} PROVE FALSE
  OBVIOUS
<1>1. PICK s \in Bad : \A x \in s : s \ {x} \notin Bad
  <2> Bad \subseteq SUBSET S
    OBVIOUS
  <2> HIDE DEF Bad
  <2> QED
    BY SmallestSubset
<1>2. CASE s = {}
  BY <1>1, <1>2, SumStep
<1>3. CASE s # {}
  <2>1. PICK x \in s : s \ {x} \in SUBSET S /\ iter[s] = c[x] + iter[s \ {x}]
    BY <1>3, SumStep
  <2>2. iter[s \ {x}] \in Int /\ c[x] \in Int
    BY <1>1, <2>1
  <2> QED
    BY <2>1, <2>2
<1> QED
  BY <1>2, <1>3

\* The recursion takes a set apart in the same order whatever the terms are.
LEMMA SumStepTwo ==
  ASSUME NEW S, NEW c, NEW d, NEW i, NEW j, IsSum(i, c, S), IsSum(j, d, S),
         NEW s \in SUBSET S, s # {}
  PROVE  \E x \in s : /\ s \ {x} \in SUBSET S
                      /\ i[s] = c[x] + i[s \ {x}] /\ j[s] = d[x] + j[s \ {x}]
<1> DEFINE x == CHOOSE x \in s : TRUE
<1>1. x \in s /\ s \ {x} \in SUBSET S
  OBVIOUS
<1>2. i[s] = c[x] + i[s \ {x}] /\ j[s] = d[x] + j[s \ {x}]
  BY DEF IsSum
<1> HIDE DEF x
<1> QED
  BY <1>1, <1>2

\* Changing one term changes the sum by the same amount.
LEMMA SumChange ==
  ASSUME NEW S, IsFiniteSet(S), NEW c \in [S -> Int], NEW d \in [S -> Int], NEW g \in S,
         \A x \in S : x # g => c[x] = d[x],
         NEW i, NEW j, IsSum(i, c, S), IsSum(j, d, S)
  PROVE  /\ i[S] \in Int /\ j[S] \in Int
         /\ j[S] = i[S] + (d[g] - c[g])
<1> DEFINE change(s) == IF g \in s THEN d[g] - c[g] ELSE 0
           Bad == {s \in SUBSET S : j[s] # i[s] + change(s)}
<1>1. \A s \in SUBSET S : i[s] \in Int /\ j[s] \in Int
  BY SumType
<1>2. ASSUME Bad # {} PROVE FALSE
  <2>1. PICK s \in Bad : \A x \in s : s \ {x} \notin Bad
    <3> Bad \subseteq SUBSET S
      OBVIOUS
    <3> HIDE DEF Bad
    <3> QED
      BY <1>2, SmallestSubset
  <2>2. CASE s = {}
    BY <2>1, <2>2, SumStep
  <2>3. CASE s # {}
    <3>1. PICK x \in s : /\ s \ {x} \in SUBSET S
                         /\ i[s] = c[x] + i[s \ {x}] /\ j[s] = d[x] + j[s \ {x}]
      BY <2>3, SumStepTwo
    <3>2. j[s \ {x}] = i[s \ {x}] + change(s \ {x})
      BY <2>1, <3>1
    <3>3. /\ i[s \ {x}] \in Int /\ j[s \ {x}] \in Int /\ x \in S
          /\ c[x] \in Int /\ d[x] \in Int /\ c[g] \in Int /\ d[g] \in Int
      BY <1>1, <3>1
    <3>4. CASE x = g
      BY <2>1, <3>1, <3>2, <3>3, <3>4
    <3>5. CASE x # g
      <4>1. c[x] = d[x] /\ change(s \ {x}) = change(s) /\ change(s) \in Int
        BY <3>3, <3>5
      <4> HIDE DEF change
      <4> QED
        BY <2>1, <3>1, <3>2, <3>3, <4>1
    <3> QED
      BY <3>4, <3>5
  <2> QED
    BY <2>2, <2>3
<1>3. j[S] = i[S] + change(S)
  BY <1>2
<1> QED
  BY <1>1, <1>3

LEMMA SumUnique ==
  ASSUME NEW S, IsFiniteSet(S), NEW c \in [S -> Int],
         NEW i, NEW j, IsSum(i, c, S), IsSum(j, c, S)
  PROVE  i[S] = j[S]
<1>1. CASE S = {}
  BY <1>1, SumStep
<1>2. CASE S # {}
  <2>1. PICK g \in S : TRUE
    BY <1>2
  <2>2. i[S] \in Int /\ c[g] \in Int /\ j[S] = i[S] + (c[g] - c[g])
    BY <2>1, SumChange
  <2> QED
    BY <2>2
<1> QED
  BY <1>1, <1>2

\* Terms that are all zero have the sum zero.
LEMMA SumOfZeros ==
  ASSUME NEW S, IsFiniteSet(S), NEW i, IsSum(i, [x \in S |-> 0], S)
  PROVE  i[S] = 0
<1> DEFINE c == [x \in S |-> 0]
           Bad == {s \in SUBSET S : i[s] # 0}
<1>1. ASSUME Bad # {} PROVE FALSE
  <2>1. PICK s \in Bad : \A x \in s : s \ {x} \notin Bad
    <3> Bad \subseteq SUBSET S
      OBVIOUS
    <3> HIDE DEF Bad
    <3> QED
      BY <1>1, SmallestSubset
  <2>2. CASE s = {}
    BY <2>1, <2>2, SumStep
  <2>3. CASE s # {}
    <3>1. \A x \in S : c[x] = 0
      OBVIOUS
    <3> HIDE DEF c
    <3>2. PICK x \in s : s \ {x} \in SUBSET S /\ i[s] = c[x] + i[s \ {x}]
      BY <2>3, SumStep DEF c
    <3> QED
      BY <2>1, <3>1, <3>2
  <2> QED
    BY <2>2, <2>3
<1> QED
  BY <1>1

\* No term is larger than a sum of natural numbers.
LEMMA SumBoundsTerms ==
  ASSUME NEW S, IsFiniteSet(S), NEW c \in [S -> Nat], NEW i, IsSum(i, c, S)
  PROVE  \A x \in S : c[x] <= i[S]
<1> DEFINE Holds(s) == i[s] >= 0 /\ \A y \in s : c[y] <= i[s]
           Bad == {s \in SUBSET S : ~Holds(s)}
<1>1. \A s \in SUBSET S : i[s] \in Int
  <2>1. c \in [S -> Int]
    OBVIOUS
  <2> QED
    BY <2>1, SumType
<1>2. ASSUME Bad # {} PROVE FALSE
  <2>1. PICK s \in Bad : \A x \in s : s \ {x} \notin Bad
    <3> Bad \subseteq SUBSET S
      OBVIOUS
    <3> HIDE DEF Bad
    <3> QED
      BY <1>2, SmallestSubset
  <2>2. CASE s = {}
    BY <2>1, <2>2, SumStep
  <2>3. CASE s # {}
    <3>1. PICK x \in s : s \ {x} \in SUBSET S /\ i[s] = c[x] + i[s \ {x}]
      BY <2>3, SumStep
    <3>2. Holds(s \ {x})
      BY <2>1, <3>1
    <3>3. i[s \ {x}] \in Int /\ c[x] \in Nat /\ \A y \in s : c[y] \in Nat
      BY <1>1, <3>1
    <3>4. i[s] >= 0 /\ c[x] <= i[s] /\ i[s \ {x}] <= i[s] /\ i[s] \in Int
      BY <3>1, <3>2, <3>3
    <3>5. \A y \in s : c[y] <= i[s]
      <4> SUFFICES ASSUME NEW y \in s PROVE c[y] <= i[s]
        OBVIOUS
      <4>1. CASE y = x
        BY <3>4, <4>1
      <4>2. CASE y # x
        <5>1. c[y] <= i[s \ {x}] /\ c[y] \in Nat
          BY <3>2, <3>3, <4>2
        <5> QED
          BY <3>3, <3>4, <5>1
      <4> QED
        BY <4>1, <4>2
    <3> QED
      BY <2>1, <3>4, <3>5
  <2> QED
    BY <2>2, <2>3
<1> QED
  BY <1>2


-----------------------------------------------------------------------------
(* Recursions over the naturals: f[n] is F applied n times to base.        *)

IsIteration(f, base, F) == f = [n \in Nat |-> IF n = 0 THEN base ELSE F[f[n - 1]]]

\* h iterates F up to n times.
IteratesUpto(h, n, base, F) == \A i \in 0 .. n : h[i] = IF i = 0 THEN base ELSE F[h[i - 1]]

LEMMA IteratesOnce ==
  ASSUME NEW base, NEW F, NEW n \in Nat, NEW m \in Nat, NEW h, NEW k,
         IteratesUpto(h, n, base, F), IteratesUpto(k, m, base, F)
  PROVE  \A i \in Nat : i <= n /\ i <= m => h[i] = k[i]
<1> DEFINE T == {i \in Nat : i <= n /\ i <= m /\ h[i] # k[i]}
<1>1. ASSUME T # {}
      PROVE  FALSE
  <2>1. PICK i \in T : \A j \in T : i <= j
    <3> T \subseteq Nat
      OBVIOUS
    <3> HIDE DEF T
    <3> QED
      BY <1>1, SmallestNat
  <2>2. i \in Nat /\ i \in 0 .. n /\ i \in 0 .. m /\ h[i] # k[i]
    OBVIOUS
  <2>3. /\ h[i] = IF i = 0 THEN base ELSE F[h[i - 1]]
        /\ k[i] = IF i = 0 THEN base ELSE F[k[i - 1]]
    BY <2>2 DEF IteratesUpto
  <2>4. i # 0
    BY <2>2, <2>3
  <2>5. i - 1 \in Nat /\ i - 1 \notin T
    <3>1. \A j \in T : j \in Nat /\ i <= j
      BY <2>1
    <3> HIDE DEF T
    <3> QED
      BY <2>2, <2>4, <3>1
  <2>6. h[i - 1] = k[i - 1]
    BY <2>2, <2>5
  <2> QED
    BY <2>2, <2>3, <2>6
<1> QED
  BY <1>1

LEMMA IteratesAsFar ==
  ASSUME NEW base, NEW F
  PROVE  \A n \in Nat : \E h : IteratesUpto(h, n, base, F)
<1> DEFINE T == {n \in Nat : ~ \E h : IteratesUpto(h, n, base, F)}
<1>1. ASSUME T # {}
      PROVE  FALSE
  <2>1. PICK n \in T : \A j \in T : n <= j
    <3> T \subseteq Nat
      OBVIOUS
    <3> HIDE DEF T
    <3> QED
      BY <1>1, SmallestNat
  <2>2. n \in Nat /\ ~ \E h : IteratesUpto(h, n, base, F)
    OBVIOUS
  <2>3. CASE n = 0
    <3> DEFINE h == [i \in 0 .. 0 |-> base]
    <3>1. IteratesUpto(h, 0, base, F)
      BY DEF IteratesUpto
    <3> QED
      BY <2>2, <2>3, <3>1
  <2>4. CASE n # 0
    <3>1. n - 1 \in Nat /\ n - 1 \notin T
      <4>1. \A j \in T : j \in Nat /\ n <= j
        BY <2>1
      <4> HIDE DEF T
      <4> QED
        BY <2>2, <2>4, <4>1
    <3>2. PICK k : IteratesUpto(k, n - 1, base, F)
      BY <3>1
    <3> DEFINE h == [i \in 0 .. n |-> IF i = n THEN F[k[n - 1]] ELSE k[i]]
    <3>3. \A i \in 0 .. n : i # n => i \in 0 .. (n - 1) /\ h[i] = k[i]
      BY <2>2
    <3>4. \A i \in 0 .. n : i # 0 => i - 1 \in 0 .. n /\ i - 1 # n /\ h[i - 1] = k[i - 1]
      BY <2>2
    <3>5. h[n] = F[k[n - 1]]
      BY <2>2
    <3> HIDE DEF h
    <3>6. ASSUME NEW i \in 0 .. n
          PROVE  h[i] = IF i = 0 THEN base ELSE F[h[i - 1]]
      <4>1. CASE i = n
        BY <2>4, <3>4, <3>5, <4>1
      <4>2. CASE i # n
        BY <3>2, <3>3, <3>4, <4>2 DEF IteratesUpto
      <4> QED
        BY <4>1, <4>2
    <3>7. IteratesUpto(h, n, base, F)
      BY <3>6 DEF IteratesUpto
    <3> QED
      BY <2>2, <3>7
  <2> QED
    BY <2>3, <2>4
<1> QED
  BY <1>1

LEMMA IterationExists ==
  ASSUME NEW K, NEW base \in K, NEW F \in [K -> K]
  PROVE  \E f \in [Nat -> K] : IsIteration(f, base, F)
<1> DEFINE H == [n \in Nat |-> CHOOSE h : IteratesUpto(h, n, base, F)]
           f == [n \in Nat |-> H[n][n]]
<1>1. \A n \in Nat : IteratesUpto(H[n], n, base, F)
  BY IteratesAsFar
<1>2. \A n \in Nat : f[n] = H[n][n]
  OBVIOUS
<1>3. f = [n \in Nat |-> f[n]]
  OBVIOUS
<1> HIDE DEF H, f
<1>4. ASSUME NEW n \in Nat
      PROVE  f[n] = IF n = 0 THEN base ELSE F[f[n - 1]]
  <2>1. H[n][n] = IF n = 0 THEN base ELSE F[H[n][n - 1]]
    BY <1>1 DEF IteratesUpto
  <2>2. CASE n = 0
    BY <1>2, <2>1, <2>2
  <2>3. CASE n # 0
    <3>1. PICK m \in Nat : m = n - 1
      BY <2>3
    <3>2. ASSUME NEW h, NEW k, h = H[n], k = H[m]
          PROVE  \A i \in Nat : i <= n /\ i <= m => h[i] = k[i]
      <4>1. IteratesUpto(h, n, base, F) /\ IteratesUpto(k, m, base, F)
        BY <1>1, <3>2
      <4> QED
        BY <4>1, IteratesOnce
    <3>3. \A i \in Nat : i <= n /\ i <= m => H[n][i] = H[m][i]
      BY <3>2
    <3>4. H[n][n - 1] = f[n - 1]
      BY <1>2, <3>1, <3>3
    <3> QED
      BY <1>2, <2>1, <2>3, <3>4
  <2> QED
    BY <2>2, <2>3
<1>5. [n \in Nat |-> f[n]] = [n \in Nat |-> IF n = 0 THEN base ELSE F[f[n - 1]]]
  BY <1>4
<1> DEFINE T == {n \in Nat : f[n] \notin K}
<1>6. ASSUME T # {}
      PROVE  FALSE
  <2>1. PICK n \in T : \A j \in T : n <= j
    <3> T \subseteq Nat
      OBVIOUS
    <3> HIDE DEF T
    <3> QED
      BY <1>6, SmallestNat
  <2>2. n \in Nat /\ f[n] \notin K
    OBVIOUS
  <2>3. n # 0
    BY <1>4, <2>2
  <2>4. n - 1 \in Nat /\ n - 1 \notin T
    <3>1. \A j \in T : j \in Nat /\ n <= j
      BY <2>1
    <3> HIDE DEF T
    <3> QED
      BY <2>2, <2>3, <3>1
  <2> QED
    BY <1>4, <2>2, <2>3, <2>4
<1>7. \A n \in Nat : f[n] \in K
  BY <1>6
<1>8. f \in [Nat -> K]
  BY <1>3, <1>7
<1> QED
  BY <1>3, <1>5, <1>8 DEF IsIteration
=============================================================================
