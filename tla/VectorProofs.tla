---------------------------- MODULE VectorProofs ----------------------------
(***************************************************************************)
(* Proofs about Vector, for any size of the arrays and any number of       *)
(* elements, vectors, transients and operations: that every tree is a      *)
(* complete radix tree of the right height, and that vectors and           *)
(* transients keep their elements until another transient writes into a    *)
(* leaf that they share.                                                   *)
(*                                                                         *)
(* From the bottom to the top: division and Span; the places of a tree of  *)
(* n leaves (Places), and what pushTail, popTail and the changes of the    *)
(* root do to them (GrewTo, ShrankTo); the elements that n leaves and a    *)
(* tail hold (Holds), by which Elements of vectors and transients are      *)
(* told; what each operation makes (Made, MadeBang, MadeTransient); and    *)
(* the invariant (Kept, Inv), which each of these keeps.                   *)
(***************************************************************************)
EXTENDS Vector, FoldLemmas, SequenceTheorems

-----------------------------------------------------------------------------
(* Division.                                                               *)

\* Quotient and remainder.
LEMMA Division ==
  ASSUME NEW a \in Nat, NEW b \in Nat \ {0}
  PROVE  /\ a \div b \in Nat /\ a % b \in 0 .. b - 1
         /\ a = (b * (a \div b)) + (a % b)
OBVIOUS

\* There are no other quotient and remainder.
LEMMA DivUnique ==
  ASSUME NEW b \in Nat \ {0}, NEW q \in Nat, NEW r \in 0 .. b - 1
  PROVE  ((b * q) + r) \div b = q /\ ((b * q) + r) % b = r
OBVIOUS

LEMMA TimesNat ==
  ASSUME NEW p \in Nat, NEW q \in Nat
  PROVE  p * q \in Nat /\ p * q = q * p
OBVIOUS

\* Multiplication keeps the order, and sets smaller factors apart.
LEMMA TimesMonotone ==
  ASSUME NEW b \in Nat \ {0}, NEW p \in Nat, NEW q \in Nat
  PROVE  /\ p <= q => b * p <= b * q
         /\ p < q => (b * p) + b <= b * q
OBVIOUS

\* Two divisions are one.
LEMMA DivDiv ==
  ASSUME NEW a \in Nat, NEW b \in Nat \ {0}, NEW c \in Nat \ {0}
  PROVE  (a \div b) \div c = a \div (b * c)
OBVIOUS

\* b divides a.
Divides(b, a) == \E c \in Nat : a = b * c

\* A number that b divides is b times its quotient, and leaves no remainder.
LEMMA DividesQuotient ==
  ASSUME NEW a \in Nat, NEW b \in Nat \ {0}
  PROVE  /\ b * (a \div b) <= a
         /\ Divides(b, a) <=> b * (a \div b) = a
         /\ Divides(b, a) <=> a % b = 0
<1>1. /\ a \div b \in Nat /\ a % b \in 0 .. b - 1
      /\ a = (b * (a \div b)) + (a % b)
  BY Division
<1>2. b * (a \div b) \in Nat
  BY <1>1, TimesNat
<1>3. ASSUME NEW c \in Nat, a = b * c
      PROVE  a \div b = c /\ a % b = 0
  <2>1. ((b * c) + 0) \div b = c /\ ((b * c) + 0) % b = 0
    BY DivUnique
  <2>2. b * c \in Nat
    BY TimesNat
  <2> QED
    BY <1>3, <2>1, <2>2
<1>4. a % b = 0 <=> b * (a \div b) = a
  <2> DEFINE p == b * (a \div b)
             r == a % b
  <2>1. p \in Nat /\ r \in Int /\ a = p + r
    BY <1>1, <1>2
  <2> HIDE DEF p, r
  <2>2. r = 0 <=> p = a
    BY <2>1
  <2> QED
    BY <2>2 DEF p, r
<1>5. Divides(b, a) => a % b = 0
  BY <1>3 DEF Divides
<1>6. b * (a \div b) = a => Divides(b, a)
  BY <1>1 DEF Divides
<1>7. b * (a \div b) <= a
  <2> DEFINE p == b * (a \div b)
             r == a % b
  <2>1. p \in Nat /\ r \in Nat /\ a = p + r
    BY <1>1, <1>2
  <2> HIDE DEF p, r
  <2>2. p <= a
    BY <2>1
  <2> QED
    BY <2>2 DEF p
<1> QED
  BY <1>4, <1>5, <1>6, <1>7

-----------------------------------------------------------------------------
(* The leaves that a node has room for.                                    *)

\* The recursion of Span has a solution: powers of NodeSize.
LEMMA SpanExists ==
  Span \in [Nat -> Nat] /\ Span = [h \in Nat |-> IF h = 0 THEN 1 ELSE NodeSize * Span[h - 1]]
<1> DEFINE F == [x \in Nat |-> NodeSize * x]
<1>1. NodeSize \in Nat
  BY NodeSizeAssumption
<1>2. F \in [Nat -> Nat]
  BY <1>1, TimesNat
<1>3. PICK f \in [Nat -> Nat] : IsIteration(f, 1, F)
  <2> HIDE DEF F
  <2> QED
    BY <1>2, IterationExists
<1>4. \A h \in Nat : h # 0 => h - 1 \in Nat /\ F[f[h - 1]] = NodeSize * f[h - 1]
  <2> SUFFICES ASSUME NEW h \in Nat, h # 0
               PROVE  h - 1 \in Nat /\ F[f[h - 1]] = NodeSize * f[h - 1]
    OBVIOUS
  <2>1. h - 1 \in Nat
    OBVIOUS
  <2>2. f[h - 1] \in Nat
    BY <2>1
  <2> QED
    BY <2>1, <2>2
<1>5. f = [h \in Nat |-> IF h = 0 THEN 1 ELSE NodeSize * f[h - 1]]
  <2> DEFINE g == [h \in Nat |-> IF h = 0 THEN 1 ELSE NodeSize * f[h - 1]]
             G == [h \in Nat |-> IF h = 0 THEN 1 ELSE F[f[h - 1]]]
  <2>1. f = G
    BY <1>3 DEF IsIteration
  <2>2. \A h \in Nat : G[h] = g[h]
    <3> HIDE DEF F
    <3> QED
      BY <1>4
  <2>3. G = [h \in Nat |-> G[h]] /\ g = [h \in Nat |-> g[h]]
    OBVIOUS
  <2> HIDE DEF g, G
  <2>4. f = g
    BY <2>1, <2>2, <2>3
  <2> QED
    BY <2>4 DEF g
<1>6. \E s : s \in [Nat -> Nat] /\ s = [h \in Nat |-> IF h = 0 THEN 1 ELSE NodeSize * s[h - 1]]
  BY <1>5
<1>7. Span = [h \in Nat |-> IF h = 0 THEN 1 ELSE NodeSize * Span[h - 1]]
  BY <1>5 DEF Span
<1>8. Span = f
  <2> DEFINE T == {h \in Nat : Span[h] # f[h]}
  <2>0. Span[0] = 1 /\ f[0] = 1
    <3>1. 0 \in Nat
      OBVIOUS
    <3> QED
      BY <1>5, <1>7, <3>1
  <2>00. \A h \in Nat : h # 0 => Span[h] = NodeSize * Span[h - 1] /\ f[h] = NodeSize * f[h - 1]
    BY <1>5, <1>7
  <2>1. ASSUME T # {} PROVE FALSE
    <3>1. PICK h \in T : \A j \in T : h <= j
      <4> T \subseteq Nat
        OBVIOUS
      <4> HIDE DEF T
      <4> QED
        BY <2>1, SmallestNat
    <3>2. h \in Nat /\ Span[h] # f[h]
      OBVIOUS
    <3>3. h # 0
      BY <2>0, <3>2
    <3>4. h - 1 \in Nat /\ h - 1 \notin T
      <4>1. \A j \in T : j \in Nat /\ h <= j
        BY <3>1
      <4> HIDE DEF T
      <4> QED
        BY <3>2, <3>3, <4>1
    <3>5. Span[h - 1] = f[h - 1]
      BY <3>4
    <3> QED
      BY <2>00, <3>2, <3>3, <3>5
  <2>2. \A h \in Nat : Span[h] = f[h]
    BY <2>1
  <2>3. Span = [h \in Nat |-> Span[h]] /\ f = [h \in Nat |-> f[h]]
    BY <1>7
  <2> QED
    BY <2>2, <2>3
<1> QED
  BY <1>7, <1>8

\* Span, step by step.
LEMMA SpanFacts ==
  /\ Span[0] = 1
  /\ \A h \in Nat : Span[h] \in Nat \ {0} /\ Span[h + 1] = NodeSize * Span[h]
<1>1. \A h \in Nat : h + 1 \in Nat /\ h + 1 # 0 /\ (h + 1) - 1 = h
  OBVIOUS
<1>2. Span[0] = 1 /\ \A h \in Nat : Span[h] \in Nat /\ Span[h + 1] = NodeSize * Span[h]
  <2>1. 0 \in Nat
    OBVIOUS
  <2>2. \A h \in Nat : Span[h] = IF h = 0 THEN 1 ELSE NodeSize * Span[h - 1]
    BY SpanExists
  <2> QED
    BY <1>1, <2>1, <2>2, SpanExists
<1> DEFINE T == {h \in Nat : Span[h] = 0}
<1>3. ASSUME T # {} PROVE FALSE
  <2>1. PICK h \in T : \A j \in T : h <= j
    <3> T \subseteq Nat
      OBVIOUS
    <3> HIDE DEF T
    <3> QED
      BY <1>3, SmallestNat
  <2>2. h \in Nat /\ Span[h] = 0
    OBVIOUS
  <2>3. PICK g \in Nat : h = g + 1
    <3>1. h # 0
      BY <1>2, <2>2
    <3>2. h - 1 \in Nat /\ h = (h - 1) + 1
      BY <2>2, <3>1
    <3> QED
      BY <3>2
  <2>4. Span[g] # 0
    <3>1. g \notin T
      <4>1. \A j \in T : j \in Nat /\ h <= j
        BY <2>1
      <4> HIDE DEF T
      <4> QED
        BY <2>2, <2>3, <4>1
    <3> QED
      BY <3>1
  <2>5. NodeSize * Span[g] = 0
    BY <1>2, <2>2, <2>3
  <2> QED
    BY <1>2, <2>4, <2>5, NodeSizeAssumption
<1> QED
  BY <1>2, <1>3

\* A node has room for a whole number of nodes of each height below it.
LEMMA SpanDivides ==
  ASSUME NEW g \in Nat
  PROVE  \A h \in Nat : g <= h => Divides(Span[g], Span[h])
<1> DEFINE T == {h \in Nat : g <= h /\ ~Divides(Span[g], Span[h])}
<1>1. ASSUME T # {} PROVE FALSE
  <2>1. PICK h \in T : \A j \in T : h <= j
    <3> T \subseteq Nat
      OBVIOUS
    <3> HIDE DEF T
    <3> QED
      BY <1>1, SmallestNat
  <2>2. h \in Nat /\ g <= h /\ ~Divides(Span[g], Span[h])
    OBVIOUS
  <2>3. h # g
    <3>1. Span[g] \in Nat /\ Span[g] = Span[g] * 1
      BY SpanFacts
    <3> QED
      BY <2>2, <3>1 DEF Divides
  <2>4. PICK k \in Nat : h = k + 1 /\ g <= k
    <3>1. h - 1 \in Nat /\ h = (h - 1) + 1 /\ g <= h - 1
      BY <2>2, <2>3
    <3> QED
      BY <3>1
  <2>5. k \notin T
    <3>1. \A j \in T : j \in Nat /\ h <= j
      BY <2>1
    <3> HIDE DEF T
    <3> QED
      BY <2>2, <2>4, <3>1
  <2>6. PICK c \in Nat : Span[k] = Span[g] * c
    BY <2>4, <2>5 DEF Divides
  <2>7. Span[h] = Span[g] * (NodeSize * c) /\ NodeSize * c \in Nat
    <3>1. Span[h] = NodeSize * Span[k]
      BY <2>4, SpanFacts
    <3>2. Span[g] \in Nat /\ NodeSize \in Nat
      BY SpanFacts, NodeSizeAssumption
    <3> QED
      BY <2>6, <3>1, <3>2
  <2> QED
    BY <2>2, <2>7 DEF Divides
<1> QED
  BY <1>1

LEMMA DividesTransitive ==
  ASSUME NEW a \in Nat, NEW b \in Nat, NEW c \in Nat, Divides(a, b), Divides(b, c)
  PROVE  Divides(a, c)
<1>1. PICK p \in Nat : b = a * p
  BY DEF Divides
<1>2. PICK q \in Nat : c = b * q
  BY DEF Divides
<1>3. c = a * (p * q) /\ p * q \in Nat
  BY <1>1, <1>2
<1> QED
  BY <1>3 DEF Divides

\* What the room of a node divides, that of a lower one divides.
LEMMA DividesBelow ==
  ASSUME NEW n \in Nat, NEW h \in Nat, NEW g \in Nat, g <= h, Divides(Span[h], n)
  PROVE  Divides(Span[g], n)
BY SpanDivides, SpanFacts, DividesTransitive

\* A number smaller than b that b divides is zero.
LEMMA DividesSmaller ==
  ASSUME NEW b \in Nat \ {0}, NEW n \in Nat, n < b, Divides(b, n)
  PROVE  n = 0
<1>1. PICK c \in Nat : n = b * c
  BY DEF Divides
<1>2. c # 0 => b * c >= b
  OBVIOUS
<1>3. c = 0 => b * c = 0
  OBVIOUS
<1> QED
  BY <1>1, <1>2, <1>3

\* Higher nodes have more room.
LEMMA SpanGrows ==
  ASSUME NEW g \in Nat, NEW h \in Nat
  PROVE  /\ g <= h => Span[g] <= Span[h]
         /\ g < h => Span[g] < Span[h]
<1>1. ASSUME NEW a \in Nat, NEW b \in Nat, a <= b
      PROVE  Span[a] <= Span[b]
  <2>1. PICK c \in Nat : Span[b] = Span[a] * c
    BY <1>1, SpanDivides DEF Divides
  <2>2. Span[a] \in Nat \ {0} /\ Span[b] \in Nat \ {0}
    BY SpanFacts
  <2>3. c # 0
    BY <2>1, <2>2
  <2> QED
    BY <2>1, <2>2, <2>3
<1>2. ASSUME g < h
      PROVE  Span[g] < Span[h]
  <2>1. g + 1 \in Nat /\ g + 1 <= h
    BY <1>2
  <2>2. Span[g + 1] <= Span[h]
    BY <1>1, <2>1
  <2>3. Span[g + 1] = NodeSize * Span[g] /\ Span[g] \in Nat \ {0} /\ Span[h] \in Nat
    BY SpanFacts
  <2>4. Span[g] < NodeSize * Span[g]
    BY <2>3, NodeSizeAssumption
  <2> QED
    BY <2>1, <2>2, <2>3, <2>4, SpanFacts
<1> QED
  BY <1>1, <1>2

-----------------------------------------------------------------------------
(* Counts of elements: the leaves and the tail.                            *)

\* n leaves and r elements in the tail.
Split(count, n, r) ==
  /\ count \in Nat /\ n \in Nat /\ r \in 0 .. NodeSize
  /\ count = (NodeSize * n) + r
  /\ r = 0 => n = 0

\* treeSize and tailLen count the elements in the leaves and in the tail.
LEMMA SplitGives ==
  ASSUME NEW count, NEW n, NEW r, Split(count, n, r)
  PROVE  TreeSize(count) = NodeSize * n /\ TailLen(count) = r /\ TreeSize(count) \in Nat
<1>1. NodeSize \in Nat \ {0}
  BY NodeSizeAssumption
<1>2. /\ count \in Nat /\ n \in Nat /\ r \in 0 .. NodeSize
      /\ count = (NodeSize * n) + r /\ (r = 0 => n = 0)
  BY DEF Split
<1>3. NodeSize * n \in Nat /\ (n # 0 => NodeSize * n >= NodeSize) /\ (n = 0 => NodeSize * n = 0)
  BY <1>1, <1>2
<1>4. TreeSize(count) = NodeSize * n
  <2>1. CASE count < NodeSize
    BY <1>1, <1>2, <1>3, <2>1 DEF TreeSize
  <2>2. CASE ~(count < NodeSize)
    <3>1. r # 0
      BY <1>1, <1>2, <1>3, <2>2
    <3>2. r - 1 \in 0 .. NodeSize - 1 /\ count - 1 = (NodeSize * n) + (r - 1)
      BY <1>1, <1>2, <1>3, <3>1
    <3>3. (count - 1) \div NodeSize = n
      BY <1>1, <1>2, <3>2, DivUnique
    <3>4. TreeSize(count) = n * NodeSize
      BY <2>2, <3>3 DEF TreeSize
    <3> QED
      BY <1>1, <1>2, <3>4, TimesNat
  <2> QED
    BY <2>1, <2>2
<1>5. TailLen(count) = r
  <2> DEFINE t == NodeSize * n
  <2>1. t \in Nat /\ count = t + r /\ r \in Int
    BY <1>2, <1>3
  <2>2. TailLen(count) = count - t
    BY <1>4 DEF TailLen
  <2> HIDE DEF t
  <2> QED
    BY <2>1, <2>2
<1> QED
  BY <1>3, <1>4, <1>5

\* The place of element i: in leaf k, or in the tail.
LEMMA SplitPlace ==
  ASSUME NEW n \in Nat, NEW r \in 0 .. NodeSize, NEW i \in Nat, i < (NodeSize * n) + r
  PROVE  /\ i < NodeSize * n =>
              i \div NodeSize \in 0 .. n - 1 /\ i % NodeSize \in Offsets
         /\ i >= NodeSize * n =>
              /\ i - (NodeSize * n) \in Offsets /\ i - (NodeSize * n) < r
              /\ i % NodeSize = i - (NodeSize * n)
         /\ i >= NodeSize * n => i \div NodeSize = n
<1>1. NodeSize \in Nat \ {0}
  BY NodeSizeAssumption
<1> DEFINE t == NodeSize * n
<1>2. t \in Nat
  BY <1>1, TimesNat
<1>3. ASSUME i < t
      PROVE  i \div NodeSize \in 0 .. n - 1 /\ i % NodeSize \in Offsets
  <2> DEFINE q == i \div NodeSize
             o == i % NodeSize
  <2>1. q \in Nat /\ o \in 0 .. NodeSize - 1 /\ i = (NodeSize * q) + o
    BY <1>1, Division
  <2>2. n <= q => NodeSize * n <= NodeSize * q
    BY <1>1, <2>1, TimesMonotone
  <2>3. NodeSize * q \in Nat
    BY <1>1, <2>1, TimesNat
  <2>4. q < n
    <3> DEFINE u == NodeSize * q
    <3>1. (n <= q => t <= u) /\ u \in Nat /\ i = u + o
      BY <2>1, <2>2, <2>3
    <3> HIDE DEF t, u, q, o
    <3> QED
      BY <1>2, <1>3, <2>1, <3>1
  <2> HIDE DEF q, o
  <2>5. q \in 0 .. n - 1 /\ o \in Offsets
    BY <2>1, <2>4 DEF Offsets
  <2> QED
    BY <2>5 DEF q, o
<1>4. ASSUME i >= t
      PROVE  i - t \in Offsets /\ i - t < r /\ i % NodeSize = i - t /\ i \div NodeSize = n
  <2>1. i - t \in 0 .. NodeSize - 1 /\ i - t < r /\ i = t + (i - t)
    <3>1. i < t + r
      OBVIOUS
    <3> HIDE DEF t
    <3> QED
      BY <1>1, <1>2, <1>4, <3>1
  <2>2. PICK o \in 0 .. NodeSize - 1 : o = i - t
    BY <2>1
  <2>3. (t + o) \div NodeSize = n /\ (t + o) % NodeSize = o
    BY <1>1, DivUnique
  <2> QED
    BY <2>1, <2>2, <2>3 DEF Offsets
<1> QED
  BY <1>3, <1>4

-----------------------------------------------------------------------------
(* The places of the nodes of a tree.                                      *)

Way(n, g) == {<<h, n \div Span[h]>> : h \in 0 .. g}

\* Span[g] is the largest number of leaves, of those up to height, that divides n.
Largest(g, height, n) ==
  /\ g \in 0 .. height /\ Divides(Span[g], n)
  /\ \A h \in 0 .. height : Divides(Span[h], n) => h <= g

\* A node of which leaf n is the first one below is on the way to it.
LEMMA FirstIs ==
  ASSUME NEW h \in Nat, NEW k \in Nat, NEW n \in Nat
  PROVE  /\ First(<<h, k>>) = k * Span[h] /\ First(<<h, k>>) \in Nat
         /\ k <= First(<<h, k>>)
         /\ First(<<h, k>>) = n <=> Divides(Span[h], n) /\ k = n \div Span[h]
<1>1. Span[h] \in Nat \ {0}
  BY SpanFacts
<1>2. First(<<h, k>>) = k * Span[h]
  BY DEF First
<1>3. k * Span[h] \in Nat /\ k <= k * Span[h] /\ k * Span[h] = Span[h] * k
  BY <1>1
<1>4. ASSUME Span[h] * k = n
      PROVE  Divides(Span[h], n) /\ k = n \div Span[h]
  <2>1. Divides(Span[h], n)
    BY <1>4 DEF Divides
  <2>2. ((Span[h] * k) + 0) \div Span[h] = k
    BY <1>1, DivUnique
  <2> QED
    BY <1>1, <1>3, <1>4, <2>1, <2>2
<1>5. ASSUME Divides(Span[h], n), k = n \div Span[h]
      PROVE  Span[h] * k = n
  BY <1>1, <1>5, DividesQuotient
<1> QED
  BY <1>2, <1>3, <1>4, <1>5

\* The nodes that begin with leaf n, up to height g.
LEMMA WayIs ==
  ASSUME NEW n \in Nat, NEW g \in Nat, Divides(Span[g], n), NEW p
  PROVE  p \in Way(n, g) <=>
           /\ p \in (0 .. g) \X (0 .. n) /\ First(p) = n
<1>1. ASSUME NEW h \in 0 .. g
      PROVE  /\ Divides(Span[h], n) /\ n \div Span[h] \in 0 .. n
             /\ First(<<h, n \div Span[h]>>) = n
  <2>1. h \in Nat /\ h <= g
    OBVIOUS
  <2>2. Divides(Span[h], n)
    BY <2>1, DividesBelow
  <2>3. Span[h] \in Nat \ {0}
    BY <2>1, SpanFacts
  <2>4. n \div Span[h] \in Nat
    BY <2>3, Division
  <2>5. First(<<h, n \div Span[h]>>) = n
    BY <2>1, <2>2, <2>4, FirstIs
  <2>6. n \div Span[h] <= n
    BY <2>1, <2>4, <2>5, FirstIs
  <2> QED
    BY <2>2, <2>4, <2>5, <2>6
<1>2. ASSUME p \in (0 .. g) \X (0 .. n), First(p) = n
      PROVE  p \in Way(n, g)
  <2>1. PICK h \in 0 .. g, k \in 0 .. n : p = <<h, k>>
    BY <1>2
  <2>2. h \in Nat /\ k \in Nat
    BY <2>1
  <2>3. k = n \div Span[h]
    BY <1>2, <2>1, <2>2, FirstIs
  <2> QED
    BY <2>1, <2>3 DEF Way
<1>3. ASSUME p \in Way(n, g)
      PROVE  p \in (0 .. g) \X (0 .. n) /\ First(p) = n
  <2>1. PICK h \in 0 .. g : p = <<h, n \div Span[h]>>
    BY <1>3 DEF Way
  <2> QED
    BY <1>1, <2>1
<1> QED
  BY <1>2, <1>3

LEMMA PlacesIs ==
  ASSUME NEW height \in Nat, NEW n \in Nat, NEW h, NEW k
  PROVE  <<h, k>> \in Places(height, n) <=>
           h \in 0 .. height /\ k \in Nat /\ First(<<h, k>>) < n
<1>1. <<h, k>> \in Places(height, n) <=>
        h \in 0 .. height /\ k \in 0 .. n /\ First(<<h, k>>) < n
  BY DEF Places
<1>2. ASSUME h \in 0 .. height, k \in Nat, First(<<h, k>>) < n
      PROVE  k \in 0 .. n
  <2>1. h \in Nat
    BY <1>2
  <2>2. k <= First(<<h, k>>) /\ First(<<h, k>>) \in Nat
    BY <1>2, <2>1, FirstIs
  <2> QED
    BY <1>2, <2>2
<1> QED
  BY <1>1, <1>2

LEMMA PlacesPairs ==
  ASSUME NEW height, NEW n, NEW p \in Places(height, n)
  PROVE  p = <<p[1], p[2]>>
BY DEF Places

\* The leaves of a tree of n leaves are numbered 0 to n - 1.
LEMMA PlacesLeaves ==
  ASSUME NEW height \in Nat, NEW n \in Nat
  PROVE  \A k \in Nat : <<0, k>> \in Places(height, n) <=> k < n
<1> SUFFICES ASSUME NEW k \in Nat
             PROVE  <<0, k>> \in Places(height, n) <=> k < n
  OBVIOUS
<1>1. First(<<0, k>>) = k
  <2>1. First(<<0, k>>) = k * Span[0]
    BY FirstIs
  <2> QED
    BY <2>1, SpanFacts
<1> QED
  BY <1>1, PlacesIs

\* One more leaf: the nodes that begin with it are new.
LEMMA PlacesStep ==
  ASSUME NEW height \in Nat, NEW n \in Nat, NEW g, Largest(g, height, n)
  PROVE  /\ Places(height, n + 1) = Places(height, n) \cup Way(n, g)
         /\ Places(height, n) = Places(height, n + 1) \ Way(n, g)
<1>1. g \in Nat /\ g <= height /\ Divides(Span[g], n)
  BY DEF Largest
<1>2. ASSUME NEW h \in 0 .. height, NEW k \in Nat
      PROVE  /\ First(<<h, k>>) \in Nat
             /\ First(<<h, k>>) = n <=> <<h, k>> \in Way(n, g)
  <2>1. h \in Nat
    OBVIOUS
  <2>2. First(<<h, k>>) \in Nat /\ k <= First(<<h, k>>)
    BY <2>1, FirstIs
  <2>3. First(<<h, k>>) = n => h <= g
    BY <2>1, FirstIs DEF Largest
  <2>4. First(<<h, k>>) = n => <<h, k>> \in (0 .. g) \X (0 .. n)
    BY <1>1, <2>1, <2>2, <2>3
  <2>5. <<h, k>> \in Way(n, g) <=> <<h, k>> \in (0 .. g) \X (0 .. n) /\ First(<<h, k>>) = n
    BY <1>1, WayIs
  <2> QED
    BY <2>2, <2>4, <2>5
<1>3. ASSUME NEW h, NEW k
      PROVE  /\ <<h, k>> \in Places(height, n + 1) <=>
                  <<h, k>> \in Places(height, n) \/ <<h, k>> \in Way(n, g)
             /\ <<h, k>> \in Places(height, n) => <<h, k>> \notin Way(n, g)
  <2>1. n + 1 \in Nat
    OBVIOUS
  <2>2. <<h, k>> \in Places(height, n) <=>
          h \in 0 .. height /\ k \in Nat /\ First(<<h, k>>) < n
    BY PlacesIs
  <2>3. <<h, k>> \in Places(height, n + 1) <=>
          h \in 0 .. height /\ k \in Nat /\ First(<<h, k>>) < n + 1
    BY <2>1, PlacesIs
  <2>4. <<h, k>> \in Way(n, g) => h \in 0 .. height /\ k \in Nat
    <3>1. <<h, k>> \in Way(n, g) => <<h, k>> \in (0 .. g) \X (0 .. n)
      BY <1>1, WayIs
    <3>2. 0 .. g \subseteq 0 .. height /\ 0 .. n \subseteq Nat
      BY <1>1
    <3> QED
      BY <3>1, <3>2
  <2>5. CASE h \in 0 .. height /\ k \in Nat
    <3>1. First(<<h, k>>) \in Nat /\ (First(<<h, k>>) = n <=> <<h, k>> \in Way(n, g))
      BY <1>2, <2>5
    <3> QED
      BY <2>2, <2>3, <2>5, <3>1
  <2> QED
    BY <2>2, <2>3, <2>4, <2>5
<1>4. \A p \in Places(height, n) \cup Places(height, n + 1) \cup Way(n, g) : \E h, k : p = <<h, k>>
  <2>1. \A p \in Way(n, g) : \E h, k : p = <<h, k>>
    BY DEF Way
  <2> QED
    BY <2>1, PlacesPairs
<1> QED
  BY <1>3, <1>4

\* The nodes of a tree that is higher than need be.
LEMMA PlacesHigher ==
  ASSUME NEW height \in Nat, NEW n \in Nat \ {0}, n <= Span[height + 1]
  PROVE  /\ Places(height + 1, n) = Places(height, n) \cup {<<height + 1, 0>>}
         /\ <<height + 1, 0>> \notin Places(height, n)
<1>1. height + 1 \in Nat
  OBVIOUS
<1>2. ASSUME NEW k \in Nat
      PROVE  First(<<height + 1, k>>) < n <=> k = 0
  <2>1. First(<<height + 1, k>>) = k * Span[height + 1]
    BY <1>1, FirstIs
  <2>2. Span[height + 1] \in Nat \ {0}
    BY <1>1, SpanFacts
  <2>3. k # 0 => k * Span[height + 1] >= Span[height + 1]
    BY <2>2
  <2>4. k = 0 => k * Span[height + 1] = 0
    BY <2>2
  <2>5. k * Span[height + 1] \in Nat
    BY <2>2
  <2> QED
    BY <2>1, <2>2, <2>3, <2>4, <2>5
<1>3. ASSUME NEW h, NEW k
      PROVE  <<h, k>> \in Places(height + 1, n) <=>
               <<h, k>> \in Places(height, n) \/ <<h, k>> = <<height + 1, 0>>
  <2>1. <<h, k>> \in Places(height + 1, n) <=>
          h \in 0 .. (height + 1) /\ k \in Nat /\ First(<<h, k>>) < n
    BY <1>1, PlacesIs
  <2>2. <<h, k>> \in Places(height, n) <=>
          h \in 0 .. height /\ k \in Nat /\ First(<<h, k>>) < n
    BY PlacesIs
  <2>3. h \in 0 .. (height + 1) <=> h \in 0 .. height \/ h = height + 1
    OBVIOUS
  <2>4. CASE h = height + 1
    <3>1. h \notin 0 .. height
      BY <2>4
    <3> QED
      BY <1>2, <2>1, <2>2, <2>3, <2>4, <3>1
  <2>5. CASE h # height + 1
    BY <2>1, <2>2, <2>3, <2>5
  <2> QED
    BY <2>4, <2>5
<1>4. \A p \in Places(height, n) \cup Places(height + 1, n) : \E h, k : p = <<h, k>>
  BY PlacesPairs
<1>5. <<height + 1, 0>> \notin Places(height, n)
  <2>1. height + 1 \notin 0 .. height
    OBVIOUS
  <2> QED
    BY <2>1, PlacesIs
<1> QED
  BY <1>3, <1>4, <1>5

LEMMA MaxIs ==
  ASSUME NEW n \in Nat, NEW S \in SUBSET (0 .. n), S # {}
  PROVE  Max(S) \in S /\ \A j \in S : Max(S) >= j
<1> DEFINE T == {n - i : i \in S}
<1>1. T \subseteq Nat /\ T # {}
  <2>1. \A i \in S : i \in Int /\ i <= n
    OBVIOUS
  <2>2. \A i \in S : n - i \in Nat
    BY <2>1
  <2> QED
    BY <2>2
<1>2. PICK d \in T : \A e \in T : d <= e
  <2> HIDE DEF T
  <2> QED
    BY <1>1, SmallestNat
<1>3. PICK i \in S : d = n - i
  OBVIOUS
<1>4. \A j \in S : i >= j
  <2> SUFFICES ASSUME NEW j \in S PROVE i >= j
    OBVIOUS
  <2>1. n - j \in T /\ i \in Int /\ j \in Int
    OBVIOUS
  <2>2. n - i <= n - j
    BY <1>2, <1>3, <2>1
  <2> HIDE DEF T
  <2> QED
    BY <2>1, <2>2
<1> QED
  BY <1>4 DEF Max

-----------------------------------------------------------------------------
(* Trees.                                                                  *)

\* The nodes of a tree of n leaves.
Shape(height, places, n) ==
  /\ height \in Nat /\ n \in Nat
  /\ height > 0 => n > Span[height - 1]
  /\ n <= Span[height]
  /\ n > 0 => places = Places(height, n)
  /\ n = 0 => places \subseteq {<<0, 0>>}

\* Its leaves are arrays, no two of them the same.
Filled(tree) ==
  /\ tree \in [DOMAIN tree -> Nat \cup {Nil}]
  /\ \A p \in DOMAIN tree : p[1] = 0 => tree[p] \in Nat
  /\ \A p, q \in DOMAIN tree : p[1] = 0 /\ q[1] = 0 /\ tree[p] = tree[q] => p = q

Sound(height, tree, n) == Shape(height, DOMAIN tree, n) /\ Filled(tree)

\* The leaves of a sound tree are there, and arrays of their own.
LEMMA SoundLeaves ==
  ASSUME NEW height, NEW tree, NEW n, Sound(height, tree, n)
  PROVE  /\ n \in Nat
         /\ \A k \in 0 .. n - 1 : /\ <<0, k>> \in DOMAIN tree
                                  /\ tree[<<0, k>>] \in Leaves(tree) /\ tree[<<0, k>>] \in Nat
         /\ \A j, k \in 0 .. n - 1 : tree[<<0, j>>] = tree[<<0, k>>] => j = k
         /\ Leaves(tree) \subseteq Nat
<1>1. height \in Nat /\ n \in Nat /\ (n > 0 => DOMAIN tree = Places(height, n))
  BY DEF Sound, Shape
<1>2. \A k \in 0 .. n - 1 : <<0, k>> \in DOMAIN tree
  <2> SUFFICES ASSUME NEW k \in 0 .. n - 1 PROVE <<0, k>> \in DOMAIN tree
    OBVIOUS
  <2>1. k \in Nat /\ k < n /\ n > 0
    BY <1>1
  <2> QED
    BY <1>1, <2>1, PlacesLeaves
<1>3. \A k : <<0, k>>[1] = 0
  OBVIOUS
<1>4. \A k \in 0 .. n - 1 : tree[<<0, k>>] \in Leaves(tree) /\ tree[<<0, k>>] \in Nat
  BY <1>2, <1>3 DEF Leaves, Sound, Filled
<1>5. \A j, k \in 0 .. n - 1 : tree[<<0, j>>] = tree[<<0, k>>] => j = k
  <2> SUFFICES ASSUME NEW j \in 0 .. n - 1, NEW k \in 0 .. n - 1, tree[<<0, j>>] = tree[<<0, k>>]
               PROVE  j = k
    OBVIOUS
  <2>1. <<0, j>> = <<0, k>>
    BY <1>2, <1>3 DEF Sound, Filled
  <2> QED
    BY <2>1
<1>6. Leaves(tree) \subseteq Nat
  BY DEF Leaves, Sound, Filled
<1> QED
  BY <1>1, <1>2, <1>4, <1>5, <1>6

\* The way to leaf m.
LEMMA OnPathIs ==
  ASSUME NEW height \in Nat, NEW m \in Nat, m < Span[height], NEW i, i \div NodeSize = m
  PROVE  \A h : OnPath(height, i, h) = <<h, m \div Span[h]>>
<1>1. Span[height] \in Nat \ {0}
  BY SpanFacts
<1>2. m % Span[height] = m
  BY <1>1
<1> QED
  BY <1>2 DEF OnPath

\* The digits of element i lead to leaf i \div NodeSize.
LEMMA LeafOfIs ==
  ASSUME NEW height, NEW tree, NEW n, Sound(height, tree, n),
         NEW i \in Nat, i \div NodeSize \in 0 .. n - 1
  PROVE  LeafOf(height, tree, i) = tree[<<0, i \div NodeSize>>]
<1> DEFINE m == i \div NodeSize
<1>1. height \in Nat /\ n \in Nat /\ n <= Span[height] /\ Span[height] \in Nat
  BY SpanFacts DEF Sound, Shape
<1>2. m \in Nat /\ m < Span[height]
  BY <1>1
<1>3. OnPath(height, i, 0) = <<0, m \div Span[0]>>
  <2> HIDE DEF m
  <2>1. i \div NodeSize = m
    BY DEF m
  <2> QED
    BY <1>1, <1>2, <2>1, OnPathIs
<1>4. m \div Span[0] = m
  <2> HIDE DEF m
  <2> QED
    BY <1>2, SpanFacts
<1> QED
  BY <1>3, <1>4 DEF LeafOf

\* new is tree with leaf n and the nodes above it, in the places way.
Joined(new, tree, way, leaf) ==
  /\ DOMAIN new = DOMAIN tree \cup way
  /\ \A p \in DOMAIN new :
       new[p] = IF p \in way THEN IF p[1] = 0 THEN leaf ELSE Nil ELSE tree[p]

\* A tree gets a leaf that is none of its arrays.
LEMMA JoinedFilled ==
  ASSUME NEW tree, Filled(tree), NEW leaf \in Nat, leaf \notin Leaves(tree),
         NEW n \in Nat, NEW g \in Nat, Divides(Span[g], n),
         NEW new, Joined(new, tree, Way(n, g), leaf), new = [p \in DOMAIN new |-> new[p]]
  PROVE  /\ Filled(new)
         /\ Leaves(new) \subseteq Leaves(tree) \cup {leaf}
         /\ new[<<0, n>>] = leaf
<1>1. \A p \in Way(n, g) : p[1] = 0 => p = <<0, n>>
  <2> SUFFICES ASSUME NEW p \in Way(n, g), p[1] = 0
               PROVE  p = <<0, n>>
    OBVIOUS
  <2>1. PICK h \in 0 .. g : p = <<h, n \div Span[h]>>
    BY DEF Way
  <2>2. h = 0
    BY <2>1
  <2>3. n \div Span[0] = n
    BY SpanFacts
  <2> QED
    BY <2>1, <2>2, <2>3
<1>2. <<0, n>> \in Way(n, g)
  <2>1. n \div Span[0] = n /\ 0 \in 0 .. g
    BY SpanFacts
  <2> QED
    BY <2>1 DEF Way
<1>3. <<0, n>>[1] = 0
  OBVIOUS
<1>4. new[<<0, n>>] = leaf
  BY <1>2, <1>3 DEF Joined
<1>5. ASSUME NEW p \in DOMAIN new
      PROVE  /\ new[p] \in Nat \cup {Nil}
             /\ p[1] = 0 => /\ new[p] \in Nat
                            /\ \/ p = <<0, n>> /\ new[p] = leaf
                               \/ p \in DOMAIN tree /\ new[p] = tree[p] /\ tree[p] \in Leaves(tree)
  <2>1. CASE p \in Way(n, g)
    BY <1>1, <1>4, <2>1 DEF Joined
  <2>2. CASE p \notin Way(n, g)
    <3>1. p \in DOMAIN tree /\ new[p] = tree[p]
      BY <2>2 DEF Joined
    <3> QED
      BY <3>1 DEF Filled, Leaves
  <2> QED
    BY <2>1, <2>2
<1>6. new \in [DOMAIN new -> Nat \cup {Nil}]
  BY <1>5
<1>7. \A p, q \in DOMAIN new : p[1] = 0 /\ q[1] = 0 /\ new[p] = new[q] => p = q
  BY <1>5 DEF Filled
<1>8. Leaves(new) \subseteq Leaves(tree) \cup {leaf}
  BY <1>5 DEF Leaves
<1> QED
  BY <1>4, <1>5, <1>6, <1>7, <1>8 DEF Filled

\* A tree with a new path.
LEMMA PathJoins ==
  ASSUME NEW tree, NEW leaf, NEW n \in Nat, NEW g \in Nat, Divides(Span[g], n),
         NEW q, q = <<g, n \div Span[g]>>, NEW new, new = NewPath(tree, q, leaf)
  PROVE  Joined(new, tree, Way(n, g), leaf) /\ new = [p \in DOMAIN new |-> new[p]]
<1>1. First(q) = n
  <2>1. n \div Span[g] \in Nat
    BY SpanFacts, Division
  <2> QED
    BY <2>1, FirstIs
<1>2. {<<h, First(q) \div Span[h]>> : h \in 0 .. q[1]} = Way(n, g)
  BY <1>1 DEF Way
<1>3. new = [p \in DOMAIN tree \cup Way(n, g) |->
               IF p \notin Way(n, g) THEN tree[p] ELSE IF p[1] = 0 THEN leaf ELSE Nil]
  BY <1>2 DEF NewPath
<1> QED
  BY <1>3 DEF Joined

\* What pushTail is given: there is room for one more leaf.
LEMMA PushPlace ==
  ASSUME NEW height, NEW tree, NEW n, Shape(height, DOMAIN tree, n), n < Span[height],
         NEW i, i \div NodeSize = n
  PROVE  LET empty == {h \in 0 .. height - 1 : OnPath(height, i, h) \notin DOMAIN tree}
         IN Largest(Max({0} \cup empty), height, n)
<1> DEFINE empty == {h \in 0 .. height - 1 : OnPath(height, i, h) \notin DOMAIN tree}
           g == Max({0} \cup empty)
<1>1. height \in Nat /\ n \in Nat /\ Span[height] \in Nat \ {0}
  BY SpanFacts DEF Shape
<1>2. g \in {0} \cup empty /\ \A h \in {0} \cup empty : g >= h
  <2>1. {0} \cup empty \in SUBSET (0 .. height) /\ {0} \cup empty # {}
    BY <1>1
  <2> HIDE DEF empty
  <2> QED
    BY <1>1, <2>1, MaxIs
<1>3. \A h : OnPath(height, i, h) = <<h, n \div Span[h]>>
  BY <1>1, OnPathIs
<1>4. ASSUME NEW h \in 0 .. height, n # 0
      PROVE  Divides(Span[h], n) <=> h \in empty
  <2>1. DOMAIN tree = Places(height, n)
    BY <1>1, <1>4 DEF Shape
  <2>2. h \in Nat
    BY <1>1
  <2>3. n \div Span[h] \in Nat
    BY <1>1, <2>2, SpanFacts, Division
  <2>4. First(<<h, n \div Span[h]>>) = Span[h] * (n \div Span[h])
    <3>1. First(<<h, n \div Span[h]>>) = (n \div Span[h]) * Span[h]
      BY <1>1, <2>2, <2>3, FirstIs
    <3> QED
      BY <2>2, <2>3, <3>1, SpanFacts, TimesNat
  <2>5. /\ Span[h] * (n \div Span[h]) <= n
        /\ Divides(Span[h], n) <=> Span[h] * (n \div Span[h]) = n
    BY <1>1, <2>2, SpanFacts, DividesQuotient
  <2>6. <<h, n \div Span[h]>> \in Places(height, n) <=> First(<<h, n \div Span[h]>>) < n
    BY <1>1, <2>3, PlacesIs
  <2>7. Divides(Span[h], n) <=> <<h, n \div Span[h]>> \notin Places(height, n)
    <3>1. First(<<h, n \div Span[h]>>) \in Nat
      BY <1>1, <2>2, <2>3, FirstIs
    <3> QED
      BY <1>1, <2>4, <2>5, <2>6, <3>1
  <2>8. Divides(Span[h], n) => h # height
    BY <1>1, <1>4, DividesSmaller
  <2>9. h # height => h \in 0 .. height - 1
    BY <1>1
  <2> QED
    BY <1>3, <2>1, <2>7, <2>8, <2>9
<1>5. n = 0 => height = 0
  <2>1. height > 0 => n > Span[height - 1] /\ Span[height - 1] \in Nat
    <3>1. height > 0 => height - 1 \in Nat
      BY <1>1
    <3> QED
      BY <3>1, SpanFacts DEF Shape
  <2> QED
    BY <1>1, <2>1
<1>6. Divides(Span[0], n)
  <2>1. n = 1 * n
    BY <1>1
  <2> QED
    BY <1>1, <2>1, SpanFacts DEF Divides
<1>7. g \in 0 .. height
  BY <1>1, <1>2
<1> HIDE DEF empty, g
<1>8. CASE n = 0
  <2>1. height = 0 /\ g = 0
    BY <1>5, <1>7, <1>8
  <2> QED
    BY <1>6, <2>1 DEF Largest, g, empty
<1>9. CASE n # 0
  <2>1. Divides(Span[g], n)
    BY <1>2, <1>4, <1>6, <1>7, <1>9
  <2>2. \A h \in 0 .. height : Divides(Span[h], n) => h <= g
    BY <1>1, <1>2, <1>4, <1>7, <1>9
  <2> QED
    BY <1>7, <2>1, <2>2 DEF Largest, g, empty
<1> QED
  BY <1>8, <1>9

\* The first n leaves are the same.
SameLeaves(new, old, n) == \A k \in 0 .. n - 1 : new[<<0, k>>] = old[<<0, k>>]

\* A tree of height height is tree with leaf n added.
GrewTo(height, new, tree, n, leaf) ==
  /\ Sound(height, new, n + 1)
  /\ Leaves(new) \subseteq Leaves(tree) \cup {leaf}
  /\ new[<<0, n>>] = leaf
  /\ SameLeaves(new, tree, n)

\* A tree the places of which are right gets leaf n.
LEMMA JoinedGrew ==
  ASSUME NEW tree, Filled(tree), NEW leaf \in Nat, leaf \notin Leaves(tree),
         NEW height \in Nat, NEW n \in Nat, n + 1 <= Span[height],
         height > 0 => n + 1 > Span[height - 1],
         NEW g, Largest(g, height, n),
         DOMAIN tree \cup Way(n, g) = Places(height, n + 1),
         n > 0 => Places(height, n) \subseteq DOMAIN tree,
         NEW q, q = <<g, n \div Span[g]>>, NEW new, new = NewPath(tree, q, leaf)
  PROVE  GrewTo(height, new, tree, n, leaf)
<1>1. g \in Nat /\ Divides(Span[g], n)
  BY DEF Largest
<1>2. Joined(new, tree, Way(n, g), leaf) /\ new = [p \in DOMAIN new |-> new[p]]
  BY <1>1, PathJoins
<1>3. /\ Filled(new) /\ Leaves(new) \subseteq Leaves(tree) \cup {leaf}
      /\ new[<<0, n>>] = leaf
  BY <1>1, <1>2, JoinedFilled
<1>4. Shape(height, DOMAIN new, n + 1)
  <2>1. DOMAIN new = Places(height, n + 1)
    BY <1>2 DEF Joined
  <2>2. n + 1 \in Nat /\ n + 1 # 0
    OBVIOUS
  <2> QED
    BY <2>1, <2>2 DEF Shape
<1>5. SameLeaves(new, tree, n)
  <2> SUFFICES ASSUME NEW k \in 0 .. n - 1
               PROVE  new[<<0, k>>] = tree[<<0, k>>]
    BY DEF SameLeaves
  <2>1. k \in Nat /\ k < n /\ n > 0
    OBVIOUS
  <2>2. <<0, k>> \in Places(height, n)
    BY <2>1, PlacesLeaves
  <2>3. <<0, k>> \notin Way(n, g)
    BY <2>2, PlacesStep
  <2>4. <<0, k>> \in DOMAIN new
    BY <1>2, <2>1, <2>2 DEF Joined
  <2> QED
    BY <1>2, <2>3, <2>4 DEF Joined
<1> QED
  BY <1>3, <1>4, <1>5 DEF GrewTo, Sound

\* pushTail: the tree of n leaves, with room for one more, gets leaf n.
LEMMA PushTailGrows ==
  ASSUME NEW height, NEW tree, NEW n, Sound(height, tree, n), n < Span[height],
         NEW leaf \in Nat, leaf \notin Leaves(tree), NEW count, Split(count, n, NodeSize)
  PROVE  GrewTo(height, PushTail(height, tree, count, leaf), tree, n, leaf)
<1> DEFINE i == count - 1
           empty == {h \in 0 .. height - 1 : OnPath(height, i, h) \notin DOMAIN tree}
           g == Max({0} \cup empty)
           q == OnPath(height, i, g)
           new == NewPath(tree, q, leaf)
<1>1. height \in Nat /\ n \in Nat /\ Filled(tree) /\ Shape(height, DOMAIN tree, n)
  BY DEF Sound, Shape
<1>2. i \div NodeSize = n
  <2>1. NodeSize \in Nat \ {0} /\ NodeSize * n \in Nat /\ count = (NodeSize * n) + NodeSize
    BY <1>1, NodeSizeAssumption, TimesNat DEF Split
  <2>2. NodeSize - 1 \in 0 .. NodeSize - 1 /\ count - 1 = (NodeSize * n) + (NodeSize - 1)
    BY <2>1
  <2> QED
    BY <1>1, <2>1, <2>2, DivUnique
<1> HIDE DEF i
<1>3. Largest(g, height, n)
  BY <1>1, <1>2, PushPlace
<1>4. q = <<g, n \div Span[g]>>
  BY <1>1, <1>2, OnPathIs
<1>5. n + 1 <= Span[height] /\ (height > 0 => n + 1 > Span[height - 1])
  <2>1. Span[height] \in Nat /\ (height > 0 => Span[height - 1] \in Nat)
    <3>1. height > 0 => height - 1 \in Nat
      BY <1>1
    <3> QED
      BY <1>1, <3>1, SpanFacts
  <2>2. height > 0 => n > Span[height - 1]
    BY <1>1 DEF Shape
  <2> QED
    BY <1>1, <2>1, <2>2
<1>6. /\ DOMAIN tree \cup Way(n, g) = Places(height, n + 1)
      /\ n > 0 => Places(height, n) \subseteq DOMAIN tree
  <2> HIDE DEF g
  <2>1. Places(height, n + 1) = Places(height, n) \cup Way(n, g)
    BY <1>1, <1>3, PlacesStep
  <2>2. CASE n > 0
    BY <1>1, <2>1, <2>2 DEF Shape
  <2>3. CASE n = 0
    <3>1. DOMAIN tree \subseteq {<<0, 0>>}
      BY <1>1, <2>3 DEF Shape
    <3>2. Places(height, 0) = {}
      <4>1. ASSUME NEW p \in Places(height, 0) PROVE FALSE
        <5>1. p = <<p[1], p[2]>>
          BY PlacesPairs
        <5>2. p[1] \in 0 .. height /\ p[2] \in Nat /\ First(p) < 0
          BY <1>1, <5>1, PlacesIs
        <5>3. First(p) \in Nat
          BY <1>1, <5>1, <5>2, FirstIs
        <5> QED
          BY <5>2, <5>3
      <4> QED
        BY <4>1
    <3>3. <<0, 0>> \in Way(n, g)
      <4>1. 0 \in 0 .. g
        BY <1>1, <1>3 DEF Largest
      <4>2. 0 \div Span[0] = 0
        BY SpanFacts
      <4> QED
        BY <2>3, <4>1, <4>2 DEF Way
    <3> QED
      BY <2>1, <2>3, <3>1, <3>2, <3>3
  <2> QED
    BY <1>1, <2>2, <2>3
<1>7. PushTail(height, tree, count, leaf) = new
  BY DEF PushTail, i
<1> HIDE DEF g, q, new
<1>8. GrewTo(height, new, tree, n, leaf)
  BY <1>1, <1>3, <1>4, <1>5, <1>6, JoinedGrew DEF new
<1> QED
  BY <1>7, <1>8

\* A full tree gets a root on top of it, and leaf n below slot 1 of that.
LEMMA OverflowGrows ==
  ASSUME NEW height, NEW tree, NEW n, Sound(height, tree, n), n = Span[height],
         NEW leaf \in Nat, leaf \notin Leaves(tree)
  PROVE  GrewTo(height + 1, NewPath(NewRoot(tree, height + 1), <<height, 1>>, leaf), tree, n, leaf)
<1> DEFINE base == NewRoot(tree, height + 1)
           q == <<height, 1>>
           new == NewPath(base, q, leaf)
<1>1. /\ height \in Nat /\ n \in Nat \ {0} /\ Filled(tree) /\ height + 1 \in Nat
      /\ DOMAIN tree = Places(height, n)
  BY SpanFacts DEF Sound, Shape
<1>2. n < Span[height + 1] /\ Span[height + 1] \in Nat
  BY <1>1, SpanGrows, SpanFacts
<1>3. Largest(height, height + 1, n)
  <2>1. Divides(Span[height], n)
    <3>1. n = Span[height] * 1
      BY <1>1
    <3> QED
      BY <3>1 DEF Divides
  <2>2. ~Divides(Span[height + 1], n)
    BY <1>1, <1>2, SpanFacts, DividesSmaller
  <2>3. \A h \in 0 .. height + 1 : h # height + 1 => h <= height
    BY <1>1
  <2>4. height \in 0 .. height + 1
    BY <1>1
  <2> QED
    BY <2>1, <2>2, <2>3, <2>4 DEF Largest
<1>4. q = <<height, n \div Span[height]>>
  <2>1. Span[height] \div Span[height] = 1
    BY <1>1, SpanFacts
  <2> QED
    BY <2>1
<1>5. /\ Places(height + 1, n) = Places(height, n) \cup {<<height + 1, 0>>}
      /\ <<height + 1, 0>> \notin Places(height, n)
  BY <1>1, <1>2, PlacesHigher
<1>6. DOMAIN base = Places(height + 1, n)
  BY <1>1, <1>5 DEF NewRoot
<1>7. \A p \in DOMAIN base : base[p] = IF p = <<height + 1, 0>> THEN Nil ELSE tree[p]
  BY DEF NewRoot
<1>8. Filled(base) /\ Leaves(base) = Leaves(tree)
  <2>1. <<height + 1, 0>>[1] # 0
    BY <1>1
  <2>2. base = [p \in DOMAIN base |-> base[p]]
    BY DEF NewRoot
  <2>3. \A p \in DOMAIN base : p # <<height + 1, 0>> => p \in DOMAIN tree /\ base[p] = tree[p]
    BY <1>1, <1>5, <1>6, <1>7
  <2>4. \A p \in DOMAIN tree : p # <<height + 1, 0>> /\ p \in DOMAIN base
    BY <1>1, <1>5, <1>6
  <2> HIDE DEF base
  <2>5. Filled(base)
    <3>1. ASSUME NEW p \in DOMAIN base
          PROVE  base[p] \in Nat \cup {Nil} /\ (p[1] = 0 => base[p] \in Nat)
      BY <1>1, <1>7, <2>1, <2>3 DEF Filled
    <3>2. base \in [DOMAIN base -> Nat \cup {Nil}]
      BY <2>2, <3>1
    <3>3. \A p, s \in DOMAIN base : p[1] = 0 /\ s[1] = 0 /\ base[p] = base[s] => p = s
      BY <1>1, <2>1, <2>3 DEF Filled
    <3> QED
      BY <3>1, <3>2, <3>3 DEF Filled
  <2>6. Leaves(base) = Leaves(tree)
    BY <2>1, <2>3, <2>4 DEF Leaves
  <2> QED
    BY <2>5, <2>6
<1>9. Places(height + 1, n + 1) = Places(height + 1, n) \cup Way(n, height)
  BY <1>1, <1>3, PlacesStep
<1>10. n + 1 <= Span[height + 1] /\ (height + 1) - 1 = height /\ n + 1 > Span[height]
  BY <1>1, <1>2
<1> HIDE DEF base, q, new
<1>11. GrewTo(height + 1, new, base, n, leaf)
  BY <1>1, <1>3, <1>4, <1>6, <1>8, <1>9, <1>10, JoinedGrew DEF new
<1>12. SameLeaves(base, tree, n)
  <2> SUFFICES ASSUME NEW k \in 0 .. n - 1
               PROVE  base[<<0, k>>] = tree[<<0, k>>]
    BY DEF SameLeaves
  <2>1. <<0, k>> # <<height + 1, 0>>
    BY <1>1
  <2>2. <<0, k>> \in DOMAIN base
    BY <1>1, <1>6, PlacesLeaves
  <2> QED
    BY <1>7, <2>1, <2>2
<1>13. GrewTo(height + 1, new, tree, n, leaf)
  BY <1>8, <1>11, <1>12 DEF GrewTo, SameLeaves
<1> QED
  BY <1>13 DEF new, base, q

\* ConjValueInto and Conj: the tree with one more leaf.
LEMMA GrownGrows ==
  ASSUME NEW v, NEW n, Sound(v.height, v.root, n), Split(v.count, n, NodeSize),
         NEW leaf \in Nat, leaf \notin Leaves(v.root)
  PROVE  GrewTo(Grown(v, leaf).height, Grown(v, leaf).root, v.root, n, leaf)
<1>1. n \in Nat /\ v.height \in Nat /\ n <= Span[v.height] /\ Span[v.height] \in Nat
  BY SpanFacts DEF Sound, Shape
<1>2. v.count \div NodeSize = n + 1
  <2>1. NodeSize \in Nat \ {0} /\ v.count = (NodeSize * n) + NodeSize
    BY NodeSizeAssumption DEF Split
  <2>2. NodeSize * (n + 1) = (NodeSize * n) + NodeSize
    BY <1>1, <2>1
  <2>3. ((NodeSize * (n + 1)) + 0) \div NodeSize = n + 1
    BY <1>1, <2>1, DivUnique
  <2>4. NodeSize * (n + 1) \in Nat
    BY <1>1, <2>1, TimesNat
  <2> QED
    BY <2>1, <2>2, <2>3, <2>4
<1>3. CASE n < Span[v.height]
  <2>1. ~Overflows(v.count, v.height)
    BY <1>1, <1>2, <1>3 DEF Overflows
  <2>2. /\ Grown(v, leaf).height = v.height
        /\ Grown(v, leaf).root = PushTail(v.height, v.root, v.count, leaf)
    BY <2>1 DEF Grown
  <2> QED
    BY <1>3, <2>2, PushTailGrows
<1>4. CASE n = Span[v.height]
  <2>1. Overflows(v.count, v.height)
    BY <1>1, <1>2, <1>4 DEF Overflows
  <2>2. /\ Grown(v, leaf).height = v.height + 1
        /\ Grown(v, leaf).root = NewPath(NewRoot(v.root, v.height + 1), <<v.height, 1>>, leaf)
    BY <2>1 DEF Grown
  <2> QED
    BY <1>4, <2>2, OverflowGrows
<1> QED
  BY <1>1, <1>3, <1>4

\* The first n digits of m are zero when Span[n] divides it.
LEMMA DigitsZero ==
  ASSUME NEW m \in Nat
  PROVE  \A h \in Nat :
           (\A g \in 1 .. h : (m \div Span[g - 1]) % NodeSize = 0) <=> Divides(Span[h], m)
<1> DEFINE Z(h) == \A g \in 1 .. h : (m \div Span[g - 1]) % NodeSize = 0
           T == {h \in Nat : ~(Z(h) <=> Divides(Span[h], m))}
<1>1. ASSUME T # {} PROVE FALSE
  <2>1. PICK h \in T : \A j \in T : h <= j
    <3> T \subseteq Nat
      OBVIOUS
    <3> HIDE DEF T
    <3> QED
      BY <1>1, SmallestNat
  <2>2. h \in Nat /\ ~(Z(h) <=> Divides(Span[h], m))
    OBVIOUS
  <2>3. h # 0
    <3>1. Z(0) /\ Divides(Span[0], m)
      <4>1. m = 1 * m
        OBVIOUS
      <4> QED
        BY <4>1, SpanFacts DEF Divides
    <3> HIDE DEF Z
    <3> QED
      BY <2>2, <3>1
  <2>4. PICK k \in Nat : h = k + 1
    <3>1. h - 1 \in Nat /\ h = (h - 1) + 1
      BY <2>2, <2>3
    <3> QED
      BY <3>1
  <2>5. Z(k) <=> Divides(Span[k], m)
    <3>1. k \notin T
      <4>1. \A j \in T : j \in Nat /\ h <= j
        BY <2>1
      <4> HIDE DEF T
      <4> QED
        BY <2>2, <2>4, <4>1
    <3> HIDE DEF Z
    <3> QED
      BY <3>1
  <2>6. Z(h) <=> Z(k) /\ (m \div Span[k]) % NodeSize = 0
    <3>1. \A g \in 1 .. h : g \in 1 .. k \/ g = k + 1
      BY <2>4
    <3>2. k + 1 \in 1 .. h /\ (k + 1) - 1 = k /\ \A g \in 1 .. k : g \in 1 .. h
      BY <2>4
    <3> QED
      BY <3>1, <3>2
  <2>7. Divides(Span[h], m) <=> Divides(Span[k], m) /\ (m \div Span[k]) % NodeSize = 0
    <3> DEFINE s == Span[k]
               q == m \div Span[k]
    <3>1. /\ s \in Nat \ {0} /\ Span[h] = NodeSize * s /\ NodeSize \in Nat \ {0}
          /\ Span[h] \in Nat \ {0} /\ q \in Nat
      BY <2>2, <2>4, SpanFacts, NodeSizeAssumption, Division
    <3>2. Divides(s, m) <=> s * q = m
      BY <3>1, DividesQuotient
    <3>3. Divides(NodeSize, q) <=> q % NodeSize = 0
      BY <3>1, DividesQuotient
    <3>4. ASSUME s * q = m, Divides(NodeSize, q)
          PROVE  Divides(Span[h], m)
      <4>1. PICK c \in Nat : q = NodeSize * c
        BY <3>4 DEF Divides
      <4>2. m = Span[h] * c
        <5> HIDE DEF s, q
        <5> QED
          BY <3>1, <3>4, <4>1
      <4> QED
        BY <4>2 DEF Divides
    <3>5. ASSUME Divides(Span[h], m)
          PROVE  Divides(s, m) /\ Divides(NodeSize, q)
      <4>1. PICK c \in Nat : m = Span[h] * c
        BY <3>5 DEF Divides
      <4>2. NodeSize * c \in Nat /\ m = s * (NodeSize * c)
        <5> HIDE DEF s, q
        <5> QED
          BY <3>1, <4>1
      <4>3. q = NodeSize * c
        <5>1. PICK d \in Nat : d = NodeSize * c
          BY <4>2
        <5>2. ((s * d) + 0) \div s = d
          <6>1. s \in Nat \ {0}
            BY <3>1
          <6> HIDE DEF s
          <6>2. 0 \in 0 .. s - 1
            BY <6>1
          <6> QED
            BY <6>1, <6>2, DivUnique
        <5>3. (s * d) + 0 = m
          <6>1. s * d = m
            BY <4>2, <5>1
          <6> HIDE DEF s
          <6> QED
            BY <6>1
        <5> QED
          BY <5>1, <5>2, <5>3
      <4> QED
        BY <4>2, <4>3 DEF Divides
    <3> HIDE DEF s, q
    <3>6. Divides(Span[h], m) <=> Divides(s, m) /\ q % NodeSize = 0
      BY <3>2, <3>3, <3>4, <3>5
    <3> QED
      BY <3>6 DEF s, q
  <2> HIDE DEF Z
  <2> QED
    BY <2>2, <2>5, <2>6, <2>7
<1> HIDE DEF Z
<1>2. \A h \in Nat : Z(h) <=> Divides(Span[h], m)
  BY <1>1
<1> QED
  BY <1>2 DEF Z

\* What popTail is given: m is the number of the last leaf.
LEMMA PopPlace ==
  ASSUME NEW height \in Nat, NEW m \in Nat \ {0}, m < Span[height],
         NEW i \in Nat, i \div NodeSize = m
  PROVE  LET gone == {h \in 1 .. height : \A g \in 1 .. h : At(i, g) = 0}
         IN Largest(Max({0} \cup gone), height, m)
<1> DEFINE gone == {h \in 1 .. height : \A g \in 1 .. h : At(i, g) = 0}
           top == Max({0} \cup gone)
<1>1. NodeSize \in Nat \ {0}
  BY NodeSizeAssumption
<1>2. ASSUME NEW g \in Nat \ {0}
      PROVE  At(i, g) = (m \div Span[g - 1]) % NodeSize
  <2>1. g - 1 \in Nat /\ (g - 1) + 1 = g
    OBVIOUS
  <2>2. Span[g] = NodeSize * Span[g - 1] /\ Span[g - 1] \in Nat \ {0}
    BY <2>1, SpanFacts
  <2>3. (i \div NodeSize) \div Span[g - 1] = i \div (NodeSize * Span[g - 1])
    BY <1>1, <2>2, DivDiv
  <2> QED
    BY <2>2, <2>3 DEF At
<1>3. ASSUME NEW h \in 0 .. height
      PROVE  Divides(Span[h], m) <=> h = 0 \/ h \in gone
  <2>1. h \in Nat
    OBVIOUS
  <2>2. Divides(Span[h], m) <=> \A g \in 1 .. h : (m \div Span[g - 1]) % NodeSize = 0
    BY <2>1, DigitsZero
  <2>3. Divides(Span[h], m) <=> \A g \in 1 .. h : At(i, g) = 0
    <3>1. \A g \in 1 .. h : g \in Nat \ {0}
      OBVIOUS
    <3> QED
      BY <1>2, <2>2, <3>1
  <2>4. h = 0 => 1 .. h = {}
    OBVIOUS
  <2> QED
    BY <2>3, <2>4
<1>4. top \in {0} \cup gone /\ \A h \in {0} \cup gone : top >= h
  <2>1. {0} \cup gone \in SUBSET (0 .. height) /\ {0} \cup gone # {}
    OBVIOUS
  <2> HIDE DEF gone
  <2> QED
    BY <2>1, MaxIs
<1>5. top \in 0 .. height
  <2>1. \A h \in {0} \cup gone : h \in 0 .. height
    OBVIOUS
  <2> HIDE DEF gone, top
  <2> QED
    BY <1>4, <2>1
<1> HIDE DEF gone, top
<1>6. Largest(top, height, m)
  <2>1. Divides(Span[top], m)
    BY <1>3, <1>4, <1>5
  <2>2. \A h \in 0 .. height : Divides(Span[h], m) => h <= top
    BY <1>3, <1>4, <1>5
  <2> QED
    BY <1>5, <2>1, <2>2 DEF Largest
<1> QED
  BY <1>6 DEF top, gone

\* A tree without the nodes that begin with its last leaf.
LEMMA PopTailIs ==
  ASSUME NEW height, NEW tree, NEW m \in Nat \ {0}, Sound(height, tree, m + 1),
         NEW count, count - 2 \in Nat, (count - 2) \div NodeSize = m
  PROVE  PopTail(height, tree, count) = [p \in Places(height, m) |-> tree[p]]
<1> DEFINE i == count - 2
           gone == {h \in 1 .. height : \A g \in 1 .. h : At(i, g) = 0}
           g == Max({0} \cup gone)
           top == OnPath(height, i, g)
<1>1. /\ height \in Nat /\ m < Span[height] /\ DOMAIN tree = Places(height, m + 1)
      /\ m + 1 \in Nat
  <2>1. m + 1 > 0 /\ m + 1 \in Nat
    OBVIOUS
  <2>2. height \in Nat /\ Span[height] \in Nat
    BY SpanFacts DEF Sound, Shape
  <2> QED
    BY <2>1, <2>2 DEF Sound, Shape
<1>2. i \in Nat /\ i \div NodeSize = m
  OBVIOUS
<1>3. PopTail(height, tree, count) = Without(tree, {p \in DOMAIN tree : Under(p, top)})
  BY DEF PopTail
<1> HIDE DEF i
<1>4. Largest(g, height, m)
  BY <1>1, <1>2, PopPlace
<1>5. top = <<g, m \div Span[g]>>
  BY <1>1, <1>2, OnPathIs
<1> HIDE DEF g, top
<1>6. g \in Nat /\ g <= height /\ Divides(Span[g], m)
  BY <1>1, <1>4 DEF Largest
<1>7. First(top) = m
  <2>1. m \div Span[g] \in Nat
    BY <1>6, SpanFacts, Division
  <2> QED
    BY <1>5, <1>6, <2>1, FirstIs
<1>8. ASSUME NEW p \in DOMAIN tree
      PROVE  Under(p, top) <=> p \in Way(m, g)
  <2>1. PICK h, k : p = <<h, k>>
    BY <1>1, PlacesPairs
  <2>2. h \in 0 .. height /\ k \in Nat /\ First(p) < m + 1
    BY <1>1, <2>1, PlacesIs
  <2>3. First(p) \in Nat /\ k <= First(p)
    BY <2>1, <2>2, FirstIs
  <2>4. Span[g] \in Nat \ {0}
    BY <1>6, SpanFacts
  <2>5. Under(p, top) <=> h <= g /\ First(p) \in m .. m + Span[g] - 1
    BY <1>5, <1>7, <2>1 DEF Under
  <2>6. First(p) \in m .. m + Span[g] - 1 <=> First(p) = m
    BY <2>2, <2>3, <2>4
  <2>7. p \in Way(m, g) <=> p \in (0 .. g) \X (0 .. m) /\ First(p) = m
    BY <1>6, WayIs
  <2>8. First(p) = m => (p \in (0 .. g) \X (0 .. m) <=> h <= g)
    BY <1>6, <2>1, <2>2, <2>3
  <2> QED
    BY <2>5, <2>6, <2>7, <2>8
<1>9. DOMAIN tree \ {p \in DOMAIN tree : Under(p, top)} = Places(height, m)
  <2>1. Places(height, m) = DOMAIN tree \ Way(m, g)
    BY <1>1, <1>4, PlacesStep
  <2> QED
    BY <1>8, <2>1
<1> QED
  BY <1>3, <1>9 DEF Without

\* A part of a tree is filled as well.
LEMMA PartFilled ==
  ASSUME NEW tree, Filled(tree), NEW places \in SUBSET DOMAIN tree,
         NEW new, new = [p \in places |-> tree[p]]
  PROVE  Filled(new) /\ Leaves(new) \subseteq Leaves(tree)
<1>1. DOMAIN new = places /\ \A p \in places : p \in DOMAIN tree /\ new[p] = tree[p]
  OBVIOUS
<1>2. new \in [DOMAIN new -> Nat \cup {Nil}]
  BY <1>1 DEF Filled
<1>3. \A p \in DOMAIN new : p[1] = 0 => new[p] \in Nat
  BY <1>1 DEF Filled
<1>4. \A p, q \in DOMAIN new : p[1] = 0 /\ q[1] = 0 /\ new[p] = new[q] => p = q
  BY <1>1 DEF Filled
<1>5. Leaves(new) \subseteq Leaves(tree)
  BY <1>1 DEF Leaves
<1> QED
  BY <1>2, <1>3, <1>4, <1>5 DEF Filled

\* A tree of height height is tree without its last leaf, of which it has m + 1.
ShrankTo(height, new, tree, m) ==
  /\ Sound(height, new, m)
  /\ Leaves(new) \subseteq Leaves(tree) \ {tree[<<0, m>>]}
  /\ SameLeaves(new, tree, m)

\* A tree the places of which are right is without its last leaf.
LEMMA PartShrank ==
  ASSUME NEW h, NEW tree, NEW m \in Nat \ {0}, Sound(h, tree, m + 1),
         NEW height \in Nat, height <= h, m <= Span[height],
         height > 0 => m > Span[height - 1],
         NEW new, new = [p \in Places(height, m) |-> tree[p]]
  PROVE  ShrankTo(height, new, tree, m)
<1>1. /\ h \in Nat /\ DOMAIN tree = Places(h, m + 1) /\ m + 1 \in Nat /\ m + 1 # 0 /\ m # 0
      /\ Filled(tree)
  BY DEF Sound, Shape
<1>2. Places(height, m) \subseteq DOMAIN tree
  <2> SUFFICES ASSUME NEW p \in Places(height, m)
               PROVE  p \in Places(h, m + 1)
    BY <1>1
  <2>1. PICK g, k : p = <<g, k>>
    BY PlacesPairs
  <2>2. g \in 0 .. height /\ k \in Nat /\ First(p) < m
    BY <2>1, PlacesIs
  <2>3. g \in 0 .. h /\ First(p) \in Nat
    BY <1>1, <2>1, <2>2, FirstIs
  <2>4. First(p) < m + 1
    BY <2>2, <2>3
  <2> QED
    BY <1>1, <2>1, <2>2, <2>3, <2>4, PlacesIs
<1>3. Filled(new) /\ Leaves(new) \subseteq Leaves(tree)
  BY <1>1, <1>2, PartFilled
<1>4. DOMAIN new = Places(height, m)
  OBVIOUS
<1>5. Sound(height, new, m)
  BY <1>1, <1>3, <1>4 DEF Sound, Shape
<1>6. \A k \in 0 .. m - 1 : <<0, k>> \in Places(height, m)
  <2>1. \A k \in 0 .. m - 1 : k \in Nat /\ k < m
    OBVIOUS
  <2> QED
    BY <2>1, PlacesLeaves
<1>7. SameLeaves(new, tree, m)
  BY <1>6 DEF SameLeaves
<1>8. tree[<<0, m>>] \notin Leaves(new)
  <2>1. \A p \in DOMAIN new : p[1] = 0 /\ new[p] = tree[<<0, m>>] => p = <<0, m>>
    <3>1. <<0, m>> \in DOMAIN tree /\ <<0, m>>[1] = 0
      BY <1>1, PlacesLeaves
    <3> QED
      BY <1>1, <1>2, <1>4, <3>1 DEF Filled
  <2>2. <<0, m>> \notin DOMAIN new
    BY <1>1, <1>4, PlacesLeaves
  <2> QED
    BY <2>1, <2>2 DEF Leaves
<1> QED
  BY <1>3, <1>5, <1>7, <1>8 DEF ShrankTo

\* PopValue and Pop: the tree without its last leaf.
LEMMA ShrunkShrinks ==
  ASSUME NEW v, NEW n, Sound(v.height, v.root, n), Split(v.count, n, 1), v.height > 0
  PROVE  /\ n - 1 \in Nat \ {0}
         /\ ShrankTo(Shrunk(v).height, Shrunk(v).root, v.root, n - 1)
<1> DEFINE H == v.height
           tree == v.root
           i == v.count - 2
           root == PopTail(H, tree, v.count)
           m == n - 1
<1>1. /\ H \in Nat \ {0} /\ n \in Nat /\ n > Span[H - 1] /\ n <= Span[H] /\ H - 1 \in Nat
      /\ Span[H] \in Nat \ {0} /\ Span[H - 1] \in Nat \ {0} /\ (H - 1) + 1 = H
  <2>1. H \in Nat
    BY DEF Sound, Shape
  <2>2. H - 1 \in Nat /\ H \in Nat \ {0} /\ (H - 1) + 1 = H
    BY <2>1
  <2> QED
    BY <2>1, <2>2, SpanFacts DEF Sound, Shape
<1>2. m \in Nat \ {0} /\ m + 1 = n /\ m < Span[H] /\ m >= Span[H - 1]
  BY <1>1
<1>3. i \in Nat /\ i \div NodeSize = m
  <2>1. NodeSize \in Nat \ {0, 1} /\ v.count = (NodeSize * n) + 1
    BY NodeSizeAssumption DEF Split
  <2>2. NodeSize * n = (NodeSize * m) + NodeSize
    BY <1>2, <2>1
  <2>3. NodeSize * m \in Nat
    BY <1>2, <2>1, TimesNat
  <2>4. i = (NodeSize * m) + (NodeSize - 1) /\ NodeSize - 1 \in 0 .. NodeSize - 1 /\ i \in Nat
    BY <2>1, <2>2, <2>3
  <2>5. ((NodeSize * m) + (NodeSize - 1)) \div NodeSize = m
    BY <1>2, <2>1, <2>4, DivUnique
  <2> QED
    BY <2>4, <2>5
<1>4. root = [p \in Places(H, m) |-> tree[p]]
  BY <1>2, <1>3, PopTailIs
<1>5. <<H - 1, 1>> \in Places(H, m) <=> Span[H - 1] < m
  <2>1. First(<<H - 1, 1>>) = 1 * Span[H - 1]
    BY <1>1, FirstIs
  <2>2. 1 * Span[H - 1] = Span[H - 1] /\ H - 1 \in 0 .. H
    BY <1>1
  <2> QED
    BY <1>1, <1>2, <2>1, <2>2, PlacesIs
<1>6. CASE Span[H - 1] < m
  <2>1. <<H - 1, 1>> \in DOMAIN root
    BY <1>4, <1>5, <1>6
  <2>2. Shrunk(v).height = H /\ Shrunk(v).root = root
    BY <2>1 DEF Shrunk
  <2>3. ShrankTo(H, root, tree, m)
    <3> HIDE DEF root, m, H, tree
    <3>1. Sound(H, tree, m + 1)
      BY <1>2 DEF H, tree
    <3> QED
      BY <1>1, <1>2, <1>4, <1>6, <3>1, PartShrank
  <2> QED
    BY <1>2, <2>2, <2>3
<1>7. CASE ~(Span[H - 1] < m)
  <2>1. <<H - 1, 1>> \notin DOMAIN root
    BY <1>4, <1>5, <1>7
  <2> DEFINE first == {p \in DOMAIN root : Under(p, <<H - 1, 0>>)}
             low == Without(root, DOMAIN root \ first)
  <2>2. Shrunk(v).height = H - 1 /\ Shrunk(v).root = low
    BY <2>1 DEF Shrunk
  <2>3. m = Span[H - 1]
    BY <1>1, <1>2, <1>7
  <2>4. first = Places(H - 1, m)
    <3>1. Places(H, m) = Places(H - 1, m) \cup {<<H, 0>>}
      <4>1. m <= Span[(H - 1) + 1]
        BY <1>1, <1>2
      <4>2. Places((H - 1) + 1, m) = Places(H - 1, m) \cup {<<(H - 1) + 1, 0>>}
        BY <1>1, <1>2, <4>1, PlacesHigher
      <4> QED
        BY <1>1, <4>2
    <3>2. ~Under(<<H, 0>>, <<H - 1, 0>>)
      BY <1>1 DEF Under
    <3>3. First(<<H - 1, 0>>) = 0
      <4>1. First(<<H - 1, 0>>) = 0 * Span[H - 1]
        BY <1>1, FirstIs
      <4> QED
        BY <1>1, <4>1
    <3>4. ASSUME NEW p \in Places(H - 1, m)
          PROVE  Under(p, <<H - 1, 0>>)
      <4>1. PICK h, k : p = <<h, k>>
        BY PlacesPairs
      <4>2. h \in 0 .. H - 1 /\ k \in Nat /\ First(p) < m
        BY <1>1, <1>2, <4>1, PlacesIs
      <4>3. First(p) \in Nat
        BY <1>1, <4>1, <4>2, FirstIs
      <4>4. First(p) \in 0 .. 0 + Span[H - 1] - 1
        BY <1>1, <2>3, <4>2, <4>3
      <4> QED
        BY <1>1, <3>3, <4>1, <4>2, <4>4 DEF Under
    <3>5. DOMAIN root = Places(H, m)
      BY <1>4
    <3> HIDE DEF root
    <3> QED
      BY <3>1, <3>2, <3>4, <3>5
  <2>5. low = [p \in Places(H - 1, m) |-> tree[p]]
    <3>1. Places(H - 1, m) \subseteq DOMAIN root /\ DOMAIN root \ (DOMAIN root \ first) = first
      BY <2>4
    <3>2. \A p \in DOMAIN root : root[p] = tree[p]
      BY <1>4
    <3> HIDE DEF root, first
    <3> QED
      BY <2>4, <3>1, <3>2 DEF Without
  <2>6. H - 1 > 0 => m > Span[(H - 1) - 1]
    <3>1. ASSUME H - 1 > 0
          PROVE  m > Span[(H - 1) - 1]
      <4>1. (H - 1) - 1 \in Nat /\ (H - 1) - 1 < H - 1
        BY <1>1, <3>1
      <4>2. Span[(H - 1) - 1] < Span[H - 1] /\ Span[(H - 1) - 1] \in Nat
        BY <1>1, <4>1, SpanGrows, SpanFacts
      <4> QED
        BY <1>1, <2>3, <4>2
    <3> QED
      BY <3>1
  <2>7. ShrankTo(H - 1, low, tree, m)
    <3> HIDE DEF low, m, H, tree
    <3>1. Sound(H, tree, m + 1)
      BY <1>2 DEF H, tree
    <3>2. H - 1 <= H /\ m <= Span[H - 1]
      BY <1>1, <2>3
    <3> QED
      BY <1>1, <1>2, <2>5, <2>6, <3>1, <3>2, PartShrank
  <2> QED
    BY <1>2, <2>2, <2>7
<1> QED
  BY <1>6, <1>7

\* doAssoc and the pop of a root that is a leaf: another array in the place of leaf k.
LEMMA ReplaceLeafIs ==
  ASSUME NEW height, NEW tree, NEW n, Sound(height, tree, n),
         NEW i \in Nat, i \div NodeSize \in 0 .. n - 1,
         NEW leaf \in Nat, leaf \notin Leaves(tree)
  PROVE  LET new == ReplaceLeaf(height, tree, i, leaf)
             k == i \div NodeSize
         IN /\ Sound(height, new, n)
            /\ Leaves(new) \subseteq (Leaves(tree) \ {tree[<<0, k>>]}) \cup {leaf}
            /\ new[<<0, k>>] = leaf
            /\ \A j \in 0 .. n - 1 : j # k => new[<<0, j>>] = tree[<<0, j>>]
<1> DEFINE k == i \div NodeSize
           q == <<0, k>>
           new == [tree EXCEPT ![q] = leaf]
<1>1. height \in Nat /\ n \in Nat /\ n <= Span[height] /\ Span[height] \in Nat
  BY SpanFacts DEF Sound, Shape
<1>2. k \in Nat /\ k < Span[height]
  BY <1>1
<1>3. OnPath(height, i, 0) = q
  <2>1. k \div Span[0] = k
    <3> HIDE DEF k
    <3> QED
      BY <1>2, SpanFacts
  <2>2. OnPath(height, i, 0) = <<0, k \div Span[0]>>
    <3> HIDE DEF k
    <3>1. i \div NodeSize = k
      BY DEF k
    <3> QED
      BY <1>1, <1>2, <3>1, OnPathIs
  <2> QED
    BY <2>1, <2>2
<1>4. ReplaceLeaf(height, tree, i, leaf) = new
  BY <1>3 DEF ReplaceLeaf
<1>5. q \in DOMAIN tree /\ q[1] = 0 /\ tree = [p \in DOMAIN tree |-> tree[p]]
  BY SoundLeaves DEF Sound, Filled
<1>6. /\ DOMAIN new = DOMAIN tree /\ new[q] = leaf /\ new = [p \in DOMAIN tree |-> new[p]]
      /\ \A p \in DOMAIN tree : p # q => new[p] = tree[p]
  BY <1>5
<1>7. \A j \in 0 .. n - 1 : j # k => <<0, j>> # q /\ <<0, j>> \in DOMAIN tree
  BY SoundLeaves
<1> HIDE DEF new, k, q
<1>8. Filled(tree) /\ Shape(height, DOMAIN tree, n)
  BY DEF Sound
<1>9. \A p \in DOMAIN tree : p[1] = 0 /\ p # q => tree[p] # tree[q]
  BY <1>5, <1>8 DEF Filled
<1>10. \A p \in DOMAIN new : p[1] = 0 => IF p = q THEN new[p] = leaf
                                        ELSE new[p] = tree[p] /\ tree[p] \in Leaves(tree)
  BY <1>6 DEF Leaves
<1>11. Leaves(new) \subseteq (Leaves(tree) \ {tree[q]}) \cup {leaf}
  BY <1>6, <1>9, <1>10 DEF Leaves
<1>12. Filled(new)
  <2>1. \A p \in DOMAIN new : new[p] \in Nat \cup {Nil} /\ (p[1] = 0 => new[p] \in Nat)
    BY <1>6, <1>8 DEF Filled
  <2>2. new \in [DOMAIN new -> Nat \cup {Nil}]
    BY <1>6, <2>1
  <2>3. \A p, s \in DOMAIN new : p[1] = 0 /\ s[1] = 0 /\ new[p] = new[s] => p = s
    BY <1>6, <1>8, <1>10 DEF Filled
  <2> QED
    BY <2>1, <2>2, <2>3 DEF Filled
<1>13. Sound(height, new, n)
  BY <1>6, <1>8, <1>12 DEF Sound
<1>14. \A j \in 0 .. n - 1 : j # k => new[<<0, j>>] = tree[<<0, j>>]
  BY <1>6, <1>7
<1> QED
  BY <1>4, <1>6, <1>11, <1>13, <1>14 DEF k, q

(* Sequences *)

IsTuple(f, n) == f = [i \in 1 .. n |-> f[i]]

\* Append as a function.
LEMMA AppendIs ==
  ASSUME NEW S, NEW s \in Seq(S), NEW val \in S, NEW f, IsTuple(f, Len(s) + 1),
         \A i \in 1 .. Len(s) : f[i] = s[i], f[Len(s) + 1] = val
  PROVE  f = Append(s, val)
<1> DEFINE a == Append(s, val)
<1>1. /\ a \in Seq(S) /\ Len(a) = Len(s) + 1 /\ a[Len(s) + 1] = val
      /\ \A i \in 1 .. Len(s) : a[i] = s[i]
  BY AppendProperties
<1>2. Len(s) \in Nat
  BY LenProperties
<1>3. \A i \in 1 .. Len(s) + 1 : i \in 1 .. Len(s) \/ i = Len(s) + 1
  BY <1>2
<1>4. f \in Seq(S) /\ Len(f) = Len(s) + 1
  <2>1. \A i \in 1 .. Len(s) : s[i] \in S
    BY ElementOfSeq
  <2>2. f \in [1 .. Len(s) + 1 -> S]
    BY <1>3, <2>1 DEF IsTuple
  <2>3. Len(s) + 1 \in Nat
    BY <1>2
  <2> QED
    BY <2>2, <2>3
<1> HIDE DEF a
<1>5. \A i \in 1 .. Len(f) : f[i] = a[i]
  BY <1>1, <1>3, <1>4
<1>6. f = a
  BY <1>1, <1>4, <1>5, SeqEqual
<1> QED
  BY <1>6 DEF a

\* WithoutLast as a function.
LEMMA WithoutLastIs ==
  ASSUME NEW S, NEW s \in Seq(S), s # <<>>, NEW f, f = [i \in 1 .. Len(s) - 1 |-> f[i]],
         \A i \in 1 .. Len(s) - 1 : f[i] = s[i]
  PROVE  f = SubSeq(s, 1, Len(s) - 1)
<1> DEFINE a == SubSeq(s, 1, Len(s) - 1)
<1>1. Len(s) \in Nat \ {0} /\ \A i \in 1 .. Len(s) : s[i] \in S
  BY LenProperties, EmptySeq, ElementOfSeq
<1>2. /\ a \in Seq(S) /\ Len(a) = IF 1 <= Len(s) - 1 THEN (Len(s) - 1) - 1 + 1 ELSE 0
      /\ \A i \in 1 .. (Len(s) - 1) - 1 + 1 : a[i] = s[1 + i - 1]
  <2>1. \A i \in 1 .. (Len(s) - 1) : s[i] \in S
    BY <1>1
  <2>2. 1 \in Int /\ Len(s) - 1 \in Int
    BY <1>1
  <2> QED
    BY <2>1, <2>2, SubSeqProperties
<1>3. Len(a) = Len(s) - 1 /\ \A i \in 1 .. Len(s) - 1 : a[i] = s[i]
  <2>1. (Len(s) - 1) - 1 + 1 = Len(s) - 1 /\ (~(1 <= Len(s) - 1) => Len(s) - 1 = 0)
    <3> DEFINE m == Len(s)
    <3>1. m \in Nat \ {0}
      BY <1>1
    <3> HIDE DEF m
    <3>2. (m - 1) - 1 + 1 = m - 1 /\ (~(1 <= m - 1) => m - 1 = 0)
      BY <3>1
    <3> QED
      BY <3>2 DEF m
  <2>2. \A i \in 1 .. Len(s) - 1 : 1 + i - 1 = i
    BY <1>1
  <2> HIDE DEF a
  <2> QED
    BY <1>2, <2>1, <2>2
<1>4. f \in Seq(S) /\ Len(f) = Len(s) - 1
  <2>1. \A i \in 1 .. Len(s) - 1 : i \in 1 .. Len(s)
    BY <1>1
  <2>2. f \in [1 .. Len(s) - 1 -> S]
    BY <1>1, <2>1
  <2>3. Len(s) - 1 \in Nat
    BY <1>1
  <2> QED
    BY <2>2, <2>3
<1> HIDE DEF a
<1>5. \A i \in 1 .. Len(f) : f[i] = a[i]
  BY <1>3, <1>4
<1>6. f = a
  BY <1>2, <1>3, <1>4, <1>5, SeqEqual
<1> QED
  BY <1>6 DEF a

-----------------------------------------------------------------------------
(* The elements that leaves and a tail hold.                               *)

Cells == Int \cup {Nil}
Contents == [Offsets -> Cells]

\* Element j, from 0, of n leaves and a tail.
Cell(heap, tree, n, tail, j) ==
  IF j < NodeSize * n THEN heap[tree[<<0, j \div NodeSize>>]][j % NodeSize]
  ELSE tail[j - (NodeSize * n)]

Holds(heap, tree, n, tail, count) == [i \in 1 .. count |-> Cell(heap, tree, n, tail, i - 1)]

\* The leaves are there.
Stored(heap, tree, n) == n \in Nat /\ \A k \in 0 .. n - 1 : heap[tree[<<0, k>>]] \in Contents

\* The contents of the first n leaves are the same, and the first r elements of the tail.
SameBody(heap2, tree2, heap, tree, n) ==
  \A k \in 0 .. n - 1 : heap2[tree2[<<0, k>>]] = heap[tree[<<0, k>>]]
SameTail(tail2, tail, r) == \A o \in 0 .. r - 1 : tail2[o] = tail[o]

Added(new, old, val) == new = Append(old, val)
Replaced(old, i, val) == [old EXCEPT ![i] = val]

LEMMA HoldsType ==
  ASSUME NEW heap, NEW tree, NEW n, NEW r, NEW tail \in Contents, NEW count,
         Split(count, n, r), Stored(heap, tree, n)
  PROVE  /\ Holds(heap, tree, n, tail, count) \in Seq(Cells)
         /\ Len(Holds(heap, tree, n, tail, count)) = count
         /\ count \in Nat
<1>1. count \in Nat /\ n \in Nat /\ r \in 0 .. NodeSize /\ count = (NodeSize * n) + r
  BY DEF Split
<1>2. ASSUME NEW i \in 1 .. count
      PROVE  Cell(heap, tree, n, tail, i - 1) \in Cells
  <2> DEFINE j == i - 1
  <2>1. j \in Nat /\ j < (NodeSize * n) + r
    BY <1>1
  <2>2. NodeSize * n \in Nat
    BY <1>1, NodeSizeAssumption, TimesNat
  <2> HIDE DEF j
  <2>3. CASE j < NodeSize * n
    <3>1. j \div NodeSize \in 0 .. n - 1 /\ j % NodeSize \in Offsets
      BY <1>1, <2>1, <2>3, SplitPlace
    <3>2. heap[tree[<<0, j \div NodeSize>>]] \in Contents
      BY <3>1 DEF Stored
    <3>3. heap[tree[<<0, j \div NodeSize>>]][j % NodeSize] \in Cells
      BY <3>1, <3>2 DEF Contents
    <3>4. Cell(heap, tree, n, tail, j) \in Cells
      BY <2>3, <3>3 DEF Cell
    <3> QED
      BY <3>4 DEF j
  <2>4. CASE ~(j < NodeSize * n)
    <3>1. j - (NodeSize * n) \in Offsets
      BY <1>1, <2>1, <2>2, <2>4, SplitPlace
    <3>2. tail[j - (NodeSize * n)] \in Cells
      BY <3>1 DEF Contents
    <3>3. Cell(heap, tree, n, tail, j) \in Cells
      BY <2>4, <3>2 DEF Cell
    <3> QED
      BY <3>3 DEF j
  <2> QED
    BY <2>3, <2>4
<1>3. Holds(heap, tree, n, tail, count) \in [1 .. count -> Cells]
  BY <1>2 DEF Holds
<1>4. Holds(heap, tree, n, tail, count) \in Seq(Cells)
  BY <1>1, <1>3
<1>5. Len(Holds(heap, tree, n, tail, count)) = count
  BY <1>1, <1>3, <1>4
<1> QED
  BY <1>1, <1>4, <1>5

\* Same leaves and same tail, same element.
LEMMA CellSame ==
  ASSUME NEW heap, NEW tree, NEW tail, NEW heap2, NEW tree2, NEW tail2,
         NEW n \in Nat, NEW r \in 0 .. NodeSize, NEW j \in Nat, j < (NodeSize * n) + r,
         SameBody(heap2, tree2, heap, tree, n), SameTail(tail2, tail, r)
  PROVE  Cell(heap2, tree2, n, tail2, j) = Cell(heap, tree, n, tail, j)
<1>1. NodeSize * n \in Nat
  BY NodeSizeAssumption, TimesNat
<1>2. CASE j < NodeSize * n
  <2>1. j \div NodeSize \in 0 .. n - 1
    BY <1>2, SplitPlace
  <2>2. heap2[tree2[<<0, j \div NodeSize>>]] = heap[tree[<<0, j \div NodeSize>>]]
    BY <2>1 DEF SameBody
  <2> QED
    BY <1>2, <2>2 DEF Cell
<1>3. CASE ~(j < NodeSize * n)
  <2>1. j - (NodeSize * n) \in Offsets /\ j - (NodeSize * n) < r
    BY <1>1, <1>3, SplitPlace
  <2>2. j - (NodeSize * n) \in 0 .. r - 1
    BY <2>1, NodeSizeAssumption DEF Offsets
  <2>3. tail2[j - (NodeSize * n)] = tail[j - (NodeSize * n)]
    BY <2>2 DEF SameTail
  <2> QED
    BY <1>3, <2>3 DEF Cell
<1> QED
  BY <1>2, <1>3

\* The tail becomes leaf n.
LEMMA CellMoved ==
  ASSUME NEW heap, NEW tree, NEW tail, NEW heap2, NEW tree2, NEW tail2,
         NEW n \in Nat, NEW j \in Nat, j < (NodeSize * n) + NodeSize,
         SameBody(heap2, tree2, heap, tree, n), heap2[tree2[<<0, n>>]] = tail
  PROVE  Cell(heap2, tree2, n + 1, tail2, j) = Cell(heap, tree, n, tail, j)
<1>1. NodeSize \in Nat \ {0} /\ NodeSize \in 0 .. NodeSize
  BY NodeSizeAssumption
<1>2. NodeSize * n \in Nat /\ NodeSize * (n + 1) = (NodeSize * n) + NodeSize
  BY <1>1
<1>3. Cell(heap2, tree2, n + 1, tail2, j) = heap2[tree2[<<0, j \div NodeSize>>]][j % NodeSize]
  BY <1>2 DEF Cell
<1>4. CASE j < NodeSize * n
  <2>1. j \div NodeSize \in 0 .. n - 1
    BY <1>1, <1>4, SplitPlace
  <2>2. heap2[tree2[<<0, j \div NodeSize>>]] = heap[tree[<<0, j \div NodeSize>>]]
    BY <2>1 DEF SameBody
  <2> QED
    BY <1>3, <1>4, <2>2 DEF Cell
<1>5. CASE ~(j < NodeSize * n)
  <2>1. j \div NodeSize = n /\ j % NodeSize = j - (NodeSize * n)
    <3>1. PICK r \in 0 .. NodeSize : r = NodeSize
      BY <1>1
    <3>2. j < (NodeSize * n) + r /\ j >= NodeSize * n
      BY <1>2, <1>5, <3>1
    <3> QED
      BY <3>2, SplitPlace
  <2> QED
    BY <1>3, <1>5, <2>1 DEF Cell
<1> QED
  BY <1>4, <1>5

\* Same leaves and same tail, same elements.
LEMMA HoldsSame ==
  ASSUME NEW heap, NEW tree, NEW tail, NEW heap2, NEW tree2, NEW tail2,
         NEW count, NEW n, NEW r, Split(count, n, r),
         SameBody(heap2, tree2, heap, tree, n), SameTail(tail2, tail, r)
  PROVE  Holds(heap2, tree2, n, tail2, count) = Holds(heap, tree, n, tail, count)
<1>1. count \in Nat /\ n \in Nat /\ r \in 0 .. NodeSize /\ count = (NodeSize * n) + r
  BY DEF Split
<1>2. ASSUME NEW i \in 1 .. count
      PROVE  Cell(heap2, tree2, n, tail2, i - 1) = Cell(heap, tree, n, tail, i - 1)
  <2>1. PICK j \in Nat : j = i - 1 /\ j < (NodeSize * n) + r
    BY <1>1
  <2> QED
    BY <1>1, <2>1, CellSame
<1> QED
  BY <1>2 DEF Holds

\* An element more in the tail.
LEMMA HoldsMore ==
  ASSUME NEW heap, NEW tree, NEW tail \in Contents, NEW heap2, NEW tree2, NEW tail2,
         NEW count, NEW n, NEW r, Split(count, n, r), r < NodeSize, Stored(heap, tree, n),
         SameBody(heap2, tree2, heap, tree, n), SameTail(tail2, tail, r), NEW val \in Cells, tail2[r] = val
  PROVE  /\ Split(count + 1, n, r + 1)
         /\ Added(Holds(heap2, tree2, n, tail2, count + 1), Holds(heap, tree, n, tail, count), val)
<1>1. /\ count \in Nat /\ n \in Nat /\ r \in 0 .. NodeSize /\ count = (NodeSize * n) + r
      /\ NodeSize \in Nat \ {0} /\ NodeSize * n \in Nat
  BY NodeSizeAssumption, TimesNat DEF Split
<1>2. Split(count + 1, n, r + 1)
  <2> DEFINE t == NodeSize * n
  <2>1. t \in Nat /\ count = t + r
    BY <1>1
  <2> HIDE DEF t
  <2>2. r + 1 \in 0 .. NodeSize /\ r + 1 # 0 /\ count + 1 \in Nat /\ count + 1 = t + (r + 1)
    BY <1>1, <2>1
  <2> QED
    BY <1>1, <2>2 DEF Split, t
<1> DEFINE s == Holds(heap, tree, n, tail, count)
           s2 == Holds(heap2, tree2, n, tail2, count + 1)
<1>3. s \in Seq(Cells) /\ Len(s) = count
  BY HoldsType
<1>4. ASSUME NEW i \in 1 .. count
      PROVE  s2[i] = s[i]
  <2>1. PICK j \in Nat : j = i - 1 /\ j < (NodeSize * n) + r
    BY <1>1
  <2>2. Cell(heap2, tree2, n, tail2, j) = Cell(heap, tree, n, tail, j)
    BY <1>1, <2>1, CellSame
  <2>3. i \in 1 .. (count + 1)
    BY <1>1
  <2> QED
    BY <2>1, <2>2, <2>3 DEF Holds
<1>5. s2[count + 1] = val
  <2>1. ~(count < NodeSize * n) /\ count - (NodeSize * n) = r
    BY <1>1
  <2>2. Cell(heap2, tree2, n, tail2, count) = val
    BY <2>1 DEF Cell
  <2>3. count + 1 \in 1 .. (count + 1) /\ (count + 1) - 1 = count
    BY <1>1
  <2> QED
    BY <2>2, <2>3 DEF Holds
<1>6. s2 = [i \in 1 .. (count + 1) |-> s2[i]]
  BY DEF Holds
<1> HIDE DEF s, s2
<1>7. s2 = Append(s, val)
  <2>1. /\ IsTuple(s2, Len(s) + 1)
        /\ \A i \in 1 .. Len(s) : s2[i] = s[i]
        /\ s2[Len(s) + 1] = val
    BY <1>3, <1>4, <1>5, <1>6 DEF IsTuple
  <2> QED
    BY <1>3, <2>1, AppendIs
<1> QED
  BY <1>2, <1>7 DEF s, s2, Added

\* An element more, in a tail of its own: the old one, full, is leaf n.
LEMMA HoldsPushed ==
  ASSUME NEW heap, NEW tree, NEW tail \in Contents, NEW heap2, NEW tree2, NEW tail2,
         NEW count, NEW n, Split(count, n, NodeSize), Stored(heap, tree, n),
         SameBody(heap2, tree2, heap, tree, n), heap2[tree2[<<0, n>>]] = tail,
         NEW val \in Cells, tail2[0] = val
  PROVE  /\ Split(count + 1, n + 1, 1)
         /\ Added(Holds(heap2, tree2, n + 1, tail2, count + 1), Holds(heap, tree, n, tail, count), val)
<1>1. /\ count \in Nat /\ n \in Nat /\ count = (NodeSize * n) + NodeSize
      /\ NodeSize \in Nat \ {0} /\ NodeSize * n \in Nat /\ NodeSize * (n + 1) = (NodeSize * n) + NodeSize
  BY NodeSizeAssumption, TimesNat DEF Split
<1>2. Split(count + 1, n + 1, 1)
  BY <1>1 DEF Split
<1> DEFINE s == Holds(heap, tree, n, tail, count)
           s2 == Holds(heap2, tree2, n + 1, tail2, count + 1)
<1>3. s \in Seq(Cells) /\ Len(s) = count
  BY HoldsType
<1>4. ASSUME NEW i \in 1 .. count
      PROVE  s2[i] = s[i]
  <2>1. PICK j \in Nat : j = i - 1 /\ j < (NodeSize * n) + NodeSize
    BY <1>1
  <2>2. Cell(heap2, tree2, n + 1, tail2, j) = Cell(heap, tree, n, tail, j)
    BY <1>1, <2>1, CellMoved
  <2>3. i \in 1 .. (count + 1)
    BY <1>1
  <2> QED
    BY <2>1, <2>2, <2>3 DEF Holds
<1>5. s2[count + 1] = val
  <2>1. ~(count < NodeSize * (n + 1)) /\ count - (NodeSize * (n + 1)) = 0
    BY <1>1
  <2>2. Cell(heap2, tree2, n + 1, tail2, count) = val
    BY <2>1 DEF Cell
  <2>3. count + 1 \in 1 .. (count + 1) /\ (count + 1) - 1 = count
    BY <1>1
  <2> QED
    BY <2>2, <2>3 DEF Holds
<1>6. s2 = [i \in 1 .. (count + 1) |-> s2[i]]
  BY DEF Holds
<1> HIDE DEF s, s2
<1>7. s2 = Append(s, val)
  <2>1. /\ IsTuple(s2, Len(s) + 1)
        /\ \A i \in 1 .. Len(s) : s2[i] = s[i]
        /\ s2[Len(s) + 1] = val
    BY <1>3, <1>4, <1>5, <1>6 DEF IsTuple
  <2> QED
    BY <1>3, <2>1, AppendIs
<1> QED
  BY <1>2, <1>7 DEF s, s2, Added

\* The elements are the same but for element i.
OnePut(heap2, tree2, tail2, heap, tree, tail, n, count, i, val) ==
  \A j \in 0 .. count - 1 : Cell(heap2, tree2, n, tail2, j) =
     IF j = i THEN val ELSE Cell(heap, tree, n, tail, j)

LEMMA HoldsPut ==
  ASSUME NEW heap, NEW tree, NEW tail, NEW heap2, NEW tree2, NEW tail2,
         NEW count \in Nat, NEW n, NEW i \in 0 .. count - 1, NEW val,
         OnePut(heap2, tree2, tail2, heap, tree, tail, n, count, i, val)
  PROVE  Holds(heap2, tree2, n, tail2, count) =
           Replaced(Holds(heap, tree, n, tail, count), i + 1, val)
<1> DEFINE s == Holds(heap, tree, n, tail, count)
           s2 == Holds(heap2, tree2, n, tail2, count)
<1>1. \A k \in 1 .. count : k - 1 \in 0 .. count - 1 /\ (k - 1 = i <=> k = i + 1)
  OBVIOUS
<1>2. \A k \in 1 .. count : s2[k] = IF k = i + 1 THEN val ELSE s[k]
  BY <1>1 DEF Holds, OnePut
<1>3. DOMAIN s = 1 .. count /\ s2 = [k \in 1 .. count |-> s2[k]]
  BY DEF Holds
<1> HIDE DEF s, s2
<1>4. s2 = [s EXCEPT ![i + 1] = val]
  BY <1>2, <1>3
<1> QED
  BY <1>4 DEF s, s2, Replaced

\* An element of the tail is replaced.
LEMMA HoldsPutTail ==
  ASSUME NEW heap, NEW tree, NEW tail, NEW heap2, NEW tree2, NEW tail2,
         NEW count, NEW n, NEW r, Split(count, n, r),
         SameBody(heap2, tree2, heap, tree, n),
         NEW i \in 0 .. count - 1, i >= NodeSize * n, NEW val,
         tail2[i % NodeSize] = val, \A o \in 0 .. r - 1 : o # i % NodeSize => tail2[o] = tail[o]
  PROVE  Holds(heap2, tree2, n, tail2, count) =
           Replaced(Holds(heap, tree, n, tail, count), i + 1, val)
<1>1. /\ count \in Nat /\ n \in Nat /\ r \in 0 .. NodeSize /\ count = (NodeSize * n) + r
      /\ NodeSize \in Nat \ {0} /\ NodeSize * n \in Nat /\ i \in Nat
  BY NodeSizeAssumption, TimesNat DEF Split
<1>2. i % NodeSize = i - (NodeSize * n)
  <2>1. i < (NodeSize * n) + r
    BY <1>1
  <2> QED
    BY <1>1, <2>1, SplitPlace
<1>3. ASSUME NEW j \in 0 .. count - 1
      PROVE  Cell(heap2, tree2, n, tail2, j) = IF j = i THEN val ELSE Cell(heap, tree, n, tail, j)
  <2>0. j \in Nat /\ j < (NodeSize * n) + r
    BY <1>1
  <2>1. CASE j < NodeSize * n
    <3>1. j \div NodeSize \in 0 .. n - 1 /\ j # i
      BY <1>1, <2>0, <2>1, SplitPlace
    <3>2. heap2[tree2[<<0, j \div NodeSize>>]] = heap[tree[<<0, j \div NodeSize>>]]
      BY <3>1 DEF SameBody
    <3> QED
      BY <2>1, <3>1, <3>2 DEF Cell
  <2>2. CASE ~(j < NodeSize * n)
    <3>1. j - (NodeSize * n) \in 0 .. r - 1 /\ (j - (NodeSize * n) = i % NodeSize <=> j = i)
      BY <1>1, <1>2, <2>0, <2>2
    <3>2. tail2[j - (NodeSize * n)] = IF j = i THEN val ELSE tail[j - (NodeSize * n)]
      BY <3>1
    <3> QED
      BY <2>2, <3>2 DEF Cell
  <2> QED
    BY <2>1, <2>2
<1>4. OnePut(heap2, tree2, tail2, heap, tree, tail, n, count, i, val)
  BY <1>3 DEF OnePut
<1> QED
  BY <1>1, <1>4, HoldsPut

\* An element of a leaf is replaced.
LEMMA HoldsPutLeaf ==
  ASSUME NEW heap, NEW tree, NEW tail, NEW heap2, NEW tree2, NEW tail2,
         NEW count, NEW n, NEW r, Split(count, n, r), Stored(heap, tree, n),
         NEW i \in Nat, i < NodeSize * n, SameTail(tail2, tail, r), NEW val,
         heap2[tree2[<<0, i \div NodeSize>>]] =
           Replaced(heap[tree[<<0, i \div NodeSize>>]], i % NodeSize, val),
         \A k \in 0 .. n - 1 : k # i \div NodeSize => heap2[tree2[<<0, k>>]] = heap[tree[<<0, k>>]]
  PROVE  /\ i \in 0 .. count - 1
         /\ Holds(heap2, tree2, n, tail2, count) =
              Replaced(Holds(heap, tree, n, tail, count), i + 1, val)
<1>1. /\ count \in Nat /\ n \in Nat /\ r \in 0 .. NodeSize /\ count = (NodeSize * n) + r
      /\ NodeSize \in Nat \ {0} /\ NodeSize * n \in Nat
  BY NodeSizeAssumption, TimesNat DEF Split
<1>2. i \in 0 .. count - 1 /\ i < (NodeSize * n) + r
  BY <1>1
<1>3. i \div NodeSize \in 0 .. n - 1 /\ i % NodeSize \in Offsets
  BY <1>1, <1>2, SplitPlace
<1>4. ASSUME NEW j \in 0 .. count - 1
      PROVE  Cell(heap2, tree2, n, tail2, j) = IF j = i THEN val ELSE Cell(heap, tree, n, tail, j)
  <2>0. j \in Nat /\ j < (NodeSize * n) + r
    BY <1>1
  <2>1. CASE j < NodeSize * n
    <3> DEFINE k == j \div NodeSize
               o == j % NodeSize
    <3>1. k \in 0 .. n - 1 /\ o \in Offsets
      BY <1>1, <2>0, <2>1, SplitPlace
    <3>2. j = i <=> k = i \div NodeSize /\ o = i % NodeSize
      <4>1. j = (NodeSize * (j \div NodeSize)) + (j % NodeSize)
        BY <1>1, <2>0, Division
      <4>2. i = (NodeSize * (i \div NodeSize)) + (i % NodeSize)
        BY <1>1, Division
      <4> QED
        BY <4>1, <4>2
    <3>3. heap[tree[<<0, k>>]] \in Contents
      BY <3>1 DEF Stored
    <3> HIDE DEF k, o
    <3>4. heap2[tree2[<<0, k>>]][o] = IF j = i THEN val ELSE heap[tree[<<0, k>>]][o]
      <4>1. CASE k = i \div NodeSize
        <5>1. heap2[tree2[<<0, k>>]] = [heap[tree[<<0, k>>]] EXCEPT ![i % NodeSize] = val]
          BY <4>1 DEF Replaced
        <5> QED
          BY <1>3, <3>1, <3>2, <3>3, <4>1, <5>1 DEF Contents
      <4>2. CASE k # i \div NodeSize
        BY <3>1, <3>2, <4>2
      <4> QED
        BY <4>1, <4>2
    <3> QED
      BY <2>1, <3>4 DEF Cell, k, o
  <2>2. CASE ~(j < NodeSize * n)
    <3>1. j - (NodeSize * n) \in 0 .. r - 1 /\ j # i
      BY <1>1, <2>0, <2>2
    <3>2. tail2[j - (NodeSize * n)] = tail[j - (NodeSize * n)]
      BY <3>1 DEF SameTail
    <3> QED
      BY <2>2, <3>1, <3>2 DEF Cell
  <2> QED
    BY <2>1, <2>2
<1>5. OnePut(heap2, tree2, tail2, heap, tree, tail, n, count, i, val)
  BY <1>4 DEF OnePut
<1> QED
  BY <1>1, <1>2, <1>5, HoldsPut

\* An element less, of a tail that has others or of a vector that has not.
LEMMA HoldsLess ==
  ASSUME NEW heap, NEW tree, NEW tail \in Contents, NEW heap2, NEW tree2, NEW tail2,
         NEW count, NEW n, NEW r, Split(count, n, r), r > 1 \/ count = 1, Stored(heap, tree, n),
         SameBody(heap2, tree2, heap, tree, n), SameTail(tail2, tail, r - 1)
  PROVE  /\ Split(count - 1, n, r - 1)
         /\ Holds(heap2, tree2, n, tail2, count - 1) = WithoutLast(Holds(heap, tree, n, tail, count))
<1>1. /\ count \in Nat /\ n \in Nat /\ r \in 0 .. NodeSize /\ count = (NodeSize * n) + r
      /\ NodeSize \in Nat \ {0, 1} /\ NodeSize * n \in Nat
      /\ r = 0 => n = 0
  BY NodeSizeAssumption, TimesNat DEF Split
<1>2. Split(count - 1, n, r - 1) /\ r - 1 \in 0 .. NodeSize /\ count # 0
  <2>1. count = 1 => n = 0 /\ r = 1
    <3>1. n # 0 => NodeSize * n >= NodeSize
      BY <1>1
    <3>2. NodeSize * 0 = 0
      BY <1>1
    <3> QED
      BY <1>1, <3>1, <3>2
  <2> DEFINE t == NodeSize * n
  <2>2. t \in Nat /\ count = t + r
    BY <1>1
  <2> HIDE DEF t
  <2>3. r - 1 \in 0 .. NodeSize /\ count - 1 \in Nat /\ count - 1 = t + (r - 1) /\ (r - 1 = 0 => n = 0)
    BY <1>1, <2>1, <2>2
  <2> QED
    BY <1>1, <2>1, <2>2, <2>3 DEF Split, t
<1> DEFINE s == Holds(heap, tree, n, tail, count)
           s2 == Holds(heap2, tree2, n, tail2, count - 1)
<1>3. s \in Seq(Cells) /\ Len(s) = count
  BY HoldsType
<1>4. ASSUME NEW i \in 1 .. count - 1
      PROVE  s2[i] = s[i]
  <2>1. PICK j \in Nat : j = i - 1 /\ j < (NodeSize * n) + (r - 1)
    BY <1>1
  <2>2. Cell(heap2, tree2, n, tail2, j) = Cell(heap, tree, n, tail, j)
    BY <1>1, <1>2, <2>1, CellSame
  <2>3. i \in 1 .. count
    BY <1>1
  <2> QED
    BY <2>1, <2>2, <2>3 DEF Holds
<1>6. s2 = [i \in 1 .. count - 1 |-> s2[i]]
  BY DEF Holds
<1> HIDE DEF s, s2
<1>7. s2 = WithoutLast(s)
  <2>1. /\ s2 = [i \in 1 .. Len(s) - 1 |-> s2[i]]
        /\ \A i \in 1 .. Len(s) - 1 : s2[i] = s[i]
        /\ s # <<>>
    BY <1>1, <1>2, <1>3, <1>4, <1>6
  <2> QED
    BY <1>3, <2>1, WithoutLastIs DEF WithoutLast
<1> QED
  BY <1>2, <1>7 DEF s, s2

\* The last leaf becomes the tail.
LEMMA HoldsPopped ==
  ASSUME NEW heap, NEW tree, NEW tail \in Contents, NEW heap2, NEW tree2, NEW tail2,
         NEW count, NEW n, NEW m \in Nat, n = m + 1, Split(count, n, 1), Stored(heap, tree, n),
         SameBody(heap2, tree2, heap, tree, m), tail2 = heap[tree[<<0, m>>]]
  PROVE  /\ Split(count - 1, m, NodeSize)
         /\ Holds(heap2, tree2, m, tail2, count - 1) = WithoutLast(Holds(heap, tree, n, tail, count))
<1>1. /\ count \in Nat /\ n \in Nat /\ count = (NodeSize * n) + 1
      /\ NodeSize \in Nat \ {0, 1} /\ NodeSize * m \in Nat /\ NodeSize * n = (NodeSize * m) + NodeSize
  BY NodeSizeAssumption, TimesNat DEF Split
<1>2. Split(count - 1, m, NodeSize)
  BY <1>1 DEF Split
<1> DEFINE s == Holds(heap, tree, n, tail, count)
           s2 == Holds(heap2, tree2, m, tail2, count - 1)
<1>3. s \in Seq(Cells) /\ Len(s) = count
  BY HoldsType
<1>4. ASSUME NEW i \in 1 .. count - 1
      PROVE  s2[i] = s[i]
  <2>1. PICK j \in Nat : j = i - 1 /\ j < (NodeSize * m) + NodeSize
    BY <1>1
  <2>2. SameBody(heap, tree, heap2, tree2, m)
    BY DEF SameBody
  <2>3. Cell(heap, tree, m + 1, tail, j) = Cell(heap2, tree2, m, tail2, j)
    BY <1>1, <2>1, <2>2, CellMoved
  <2>4. i \in 1 .. count
    BY <1>1
  <2> QED
    BY <2>1, <2>3, <2>4 DEF Holds
<1>6. s2 = [i \in 1 .. count - 1 |-> s2[i]]
  BY DEF Holds
<1> HIDE DEF s, s2
<1>7. s2 = WithoutLast(s)
  <2>1. /\ s2 = [i \in 1 .. Len(s) - 1 |-> s2[i]]
        /\ \A i \in 1 .. Len(s) - 1 : s2[i] = s[i]
        /\ s # <<>>
    BY <1>1, <1>3, <1>4, <1>6
  <2> QED
    BY <1>3, <2>1, WithoutLastIs DEF WithoutLast
<1> QED
  BY <1>2, <1>7 DEF s, s2

-----------------------------------------------------------------------------
(* Arrays.                                                                 *)

\* The contents of each array that is there.
IsHeap(heap) ==
  /\ IsFiniteSet(DOMAIN heap) /\ DOMAIN heap \subseteq Nat
  /\ heap \in [DOMAIN heap -> Contents]

\* There always is an array that is not there yet.
LEMMA FreshIs ==
  ASSUME NEW heap, IsHeap(heap)
  PROVE  FreshIn(heap) \in Nat /\ FreshIn(heap) \notin DOMAIN heap
<1> DEFINE N == Cardinality(DOMAIN heap)
<1>1. N \in Nat
  BY FS_CardinalityType DEF IsHeap
<1>2. \E a \in 1 .. N + 1 : a \notin DOMAIN heap
  <2> SUFFICES ASSUME 1 .. N + 1 \subseteq DOMAIN heap
               PROVE  FALSE
    OBVIOUS
  <2>1. Cardinality(1 .. N + 1) = N + 1
    <3> HIDE DEF N
    <3>1. Cardinality(1 .. N + 1) = IF 1 > N + 1 THEN 0 ELSE (N + 1) - 1 + 1
      <4>1. 1 \in Int /\ N + 1 \in Int
        BY <1>1
      <4> QED
        BY <4>1, FS_Interval
    <3> QED
      BY <1>1, <3>1
  <2>2. Cardinality(1 .. N + 1) <= N
    BY FS_Subset DEF IsHeap
  <2> HIDE DEF N
  <2> QED
    BY <1>1, <2>1, <2>2
<1>3. FreshIn(heap) \in 1 .. N + 1 /\ FreshIn(heap) \notin DOMAIN heap
  BY <1>2 DEF FreshIn
<1>4. \A a \in 1 .. N + 1 : a \in Nat
  BY <1>1
<1> QED
  BY <1>3, <1>4

\* A heap with one array more.
LEMMA WithIs ==
  ASSUME NEW heap, IsHeap(heap), NEW a \in Nat, a \notin DOMAIN heap, NEW contents \in Contents
  PROVE  /\ IsHeap(With(heap, a, contents))
         /\ DOMAIN With(heap, a, contents) = DOMAIN heap \cup {a}
         /\ With(heap, a, contents)[a] = contents
         /\ \A b \in DOMAIN heap : With(heap, a, contents)[b] = heap[b]
<1> DEFINE new == With(heap, a, contents)
<1>1. /\ DOMAIN new = DOMAIN heap \cup {a} /\ new = [b \in DOMAIN heap \cup {a} |-> new[b]]
      /\ new[a] = contents /\ \A b \in DOMAIN heap : new[b] = heap[b]
  BY DEF With
<1> HIDE DEF new
<1>2. IsFiniteSet(DOMAIN heap \cup {a})
  BY FS_AddElement DEF IsHeap
<1>3. new \in [DOMAIN new -> Contents]
  <2>1. \A b \in DOMAIN heap \cup {a} : new[b] \in Contents
    BY <1>1 DEF IsHeap
  <2> QED
    BY <1>1, <2>1
<1>4. IsHeap(new)
  BY <1>1, <1>2, <1>3 DEF IsHeap
<1> QED
  BY <1>1, <1>4 DEF new

\* A heap one array of which is written.
LEMMA WriteIs ==
  ASSUME NEW heap, IsHeap(heap), NEW a \in DOMAIN heap, NEW o \in Offsets, NEW val \in Cells,
         NEW new, new = Replaced(heap, a, Replaced(heap[a], o, val))
  PROVE  /\ IsHeap(new) /\ DOMAIN new = DOMAIN heap
         /\ new[a] = Replaced(heap[a], o, val) /\ new[a] \in Contents
         /\ \A b \in DOMAIN heap : b # a => new[b] = heap[b]
<1>1. heap \in [DOMAIN heap -> Contents]
  BY DEF IsHeap
<1>2. /\ DOMAIN new = DOMAIN heap /\ new[a] = [heap[a] EXCEPT ![o] = val]
      /\ \A b \in DOMAIN heap : b # a => new[b] = heap[b]
      /\ new = [b \in DOMAIN heap |-> new[b]]
  BY <1>1 DEF Replaced
<1>3. new[a] \in Contents
  <2>1. heap[a] \in [Offsets -> Cells]
    BY <1>1 DEF Contents
  <2>2. [heap[a] EXCEPT ![o] = val] \in [Offsets -> Cells]
    BY <2>1
  <2> QED
    BY <1>2, <2>2 DEF Contents
<1>4. new \in [DOMAIN new -> Contents]
  <2>1. \A b \in DOMAIN heap : new[b] \in Contents
    BY <1>1, <1>2, <1>3
  <2> QED
    BY <1>2, <2>1
<1> QED
  BY <1>2, <1>3, <1>4 DEF IsHeap, Replaced

-----------------------------------------------------------------------------
(* Vectors.                                                                *)

IsVector(v) ==
  /\ v = [count |-> v.count, height |-> v.height, root |-> v.root, base |-> v.base, delta |-> v.delta]
  /\ v.base = [array |-> v.base.array, len |-> v.base.len]

\* n leaves in the tree, and r elements in the base and in the chain together.
VectorParts(v, n, r) ==
  /\ IsVector(v) /\ Split(v.count, n, r) /\ Sound(v.height, v.root, n)
  /\ v.delta \in Seq(Cells) /\ v.base.len \in Nat /\ v.base.len + Len(v.delta) = r
  /\ v.base.array \in Nat \cup {Nil} /\ (v.base.len > 0 => v.base.array \in Nat)

VectorSound(heap, v) == ArraysOf(v) \subseteq DOMAIN heap /\ \E n, r : VectorParts(v, n, r)

\* The tail of a vector: first its base, then its chain.
LEMMA TailArrayIs ==
  ASSUME NEW heap, IsHeap(heap), NEW v, ArraysOf(v) \subseteq DOMAIN heap,
         NEW n, NEW r, VectorParts(v, n, r)
  PROVE  /\ TailArray(heap, v) \in Contents /\ Stored(heap, v.root, n)
         /\ \A k \in 0 .. v.base.len - 1 :
              /\ v.base.array \in Nat /\ v.base.array \in ArraysOf(v)
              /\ TailArray(heap, v)[k] = heap[v.base.array][k]
         /\ \A k \in v.base.len .. r - 1 : TailArray(heap, v)[k] = v.delta[k - v.base.len + 1]
<1>1. /\ v.delta \in Seq(Cells) /\ v.base.len \in Nat /\ v.base.len + Len(v.delta) = r
      /\ Len(v.delta) \in Nat /\ r \in 0 .. NodeSize /\ NodeSize \in Nat \ {0} /\ n \in Nat
  BY NodeSizeAssumption, LenProperties DEF VectorParts, Split
<1>2. v.base.len > 0 => v.base.array \in Nat /\ v.base.array \in ArraysOf(v)
  BY NodeSizeAssumption DEF VectorParts, ArraysOf
<1>3. ASSUME NEW k \in Offsets
      PROVE  TailArray(heap, v)[k] \in Cells
  <2>1. k \in Nat /\ k < NodeSize
    BY <1>1, <1>3 DEF Offsets
  <2>2. CASE k < v.base.len
    <3>1. heap[v.base.array] \in Contents
      BY <1>1, <1>2, <2>1, <2>2 DEF IsHeap
    <3> QED
      BY <1>3, <2>2, <3>1 DEF TailArray, Contents
  <2>3. CASE ~(k < v.base.len) /\ k < v.base.len + Len(v.delta)
    <3>1. k - v.base.len + 1 \in 1 .. Len(v.delta)
      BY <1>1, <2>1, <2>3
    <3>2. v.delta[k - v.base.len + 1] \in Cells
      BY <1>1, <3>1, ElementOfSeq
    <3> QED
      BY <1>3, <2>3, <3>2 DEF TailArray
  <2>4. CASE ~(k < v.base.len) /\ ~(k < v.base.len + Len(v.delta))
    BY <1>3, <2>4 DEF TailArray, Cells
  <2> QED
    BY <2>2, <2>3, <2>4
<1>4. TailArray(heap, v) \in Contents
  BY <1>3 DEF TailArray, Contents
<1>5. ASSUME NEW k \in 0 .. v.base.len - 1
      PROVE  TailArray(heap, v)[k] = heap[v.base.array][k]
  <2>1. k \in Offsets /\ k < v.base.len
    BY <1>1 DEF Offsets
  <2> QED
    BY <2>1 DEF TailArray
<1>6. ASSUME NEW k \in v.base.len .. r - 1
      PROVE  TailArray(heap, v)[k] = v.delta[k - v.base.len + 1]
  <2>1. k \in Offsets /\ ~(k < v.base.len) /\ k < v.base.len + Len(v.delta)
    BY <1>1 DEF Offsets
  <2> QED
    BY <2>1 DEF TailArray
<1>7. Stored(heap, v.root, n)
  <2>1. \A k \in 0 .. n - 1 : v.root[<<0, k>>] \in DOMAIN heap
    BY SoundLeaves DEF VectorParts, ArraysOf
  <2> QED
    BY <1>1, <2>1 DEF Stored, IsHeap
<1>8. \A k \in 0 .. v.base.len - 1 : v.base.array \in Nat /\ v.base.array \in ArraysOf(v)
  BY <1>1, <1>2
<1> QED
  BY <1>4, <1>5, <1>6, <1>7, <1>8

\* The elements of a vector are those its leaves and its tail hold.
LEMMA ElementsIs ==
  ASSUME NEW heap, NEW v, NEW n, NEW r, VectorParts(v, n, r)
  PROVE  Elements(heap, v) = Holds(heap, v.root, n, TailArray(heap, v), v.count)
<1>1. /\ v.count \in Nat /\ n \in Nat /\ r \in 0 .. NodeSize /\ v.count = (NodeSize * n) + r
      /\ Split(v.count, n, r) /\ Sound(v.height, v.root, n)
  BY DEF VectorParts, Split
<1>2. TreeSize(v.count) = NodeSize * n
  BY <1>1, SplitGives
<1>3. ASSUME NEW i \in 1 .. v.count
      PROVE  Elements(heap, v)[i] = Cell(heap, v.root, n, TailArray(heap, v), i - 1)
  <2>1. PICK j \in Nat : j = i - 1 /\ j < (NodeSize * n) + r
    BY <1>1
  <2>2. CASE j < NodeSize * n
    <3>1. j \div NodeSize \in 0 .. n - 1
      BY <1>1, <2>1, <2>2, SplitPlace
    <3>2. LeafOf(v.height, v.root, j) = v.root[<<0, j \div NodeSize>>]
      BY <1>1, <2>1, <3>1, LeafOfIs
    <3> QED
      BY <1>2, <2>1, <2>2, <3>2 DEF Elements, Cell
  <2>3. CASE ~(j < NodeSize * n)
    BY <1>2, <2>1, <2>3 DEF Elements, Cell
  <2> QED
    BY <2>2, <2>3
<1>4. Elements(heap, v) = [i \in 1 .. v.count |-> Elements(heap, v)[i]]
  BY DEF Elements
<1> QED
  BY <1>3, <1>4 DEF Holds

LEMMA ElementsType ==
  ASSUME NEW heap, IsHeap(heap), NEW v, VectorSound(heap, v)
  PROVE  /\ Elements(heap, v) \in Seq(Cells) /\ Len(Elements(heap, v)) = v.count
         /\ v.count \in Nat
<1>1. PICK n, r : VectorParts(v, n, r)
  BY DEF VectorSound
<1>2. ArraysOf(v) \subseteq DOMAIN heap
  BY DEF VectorSound
<1>3. Split(v.count, n, r)
  BY <1>1 DEF VectorParts
<1>4. TailArray(heap, v) \in Contents /\ Stored(heap, v.root, n)
  BY <1>1, <1>2, TailArrayIs
<1>5. Elements(heap, v) = Holds(heap, v.root, n, TailArray(heap, v), v.count)
  BY <1>1, ElementsIs
<1> QED
  BY <1>3, <1>4, <1>5, HoldsType

\* Other arrays do not matter to a vector.
Agree(heap2, heap, as) == \A a \in as : heap2[a] = heap[a]

\* A vector has its elements in any heap that agrees on its arrays.
LEMMA VectorFrame ==
  ASSUME NEW heap, IsHeap(heap), NEW v, VectorSound(heap, v),
         NEW heap2, IsHeap(heap2), ArraysOf(v) \subseteq DOMAIN heap2,
         Agree(heap2, heap, ArraysOf(v))
  PROVE  VectorSound(heap2, v) /\ Elements(heap2, v) = Elements(heap, v)
<1>1. PICK n, r : VectorParts(v, n, r)
  BY DEF VectorSound
<1>2. ArraysOf(v) \subseteq DOMAIN heap
  BY DEF VectorSound
<1>3. VectorSound(heap2, v)
  BY <1>1 DEF VectorSound
<1>4. /\ Elements(heap, v) = Holds(heap, v.root, n, TailArray(heap, v), v.count)
      /\ Elements(heap2, v) = Holds(heap2, v.root, n, TailArray(heap2, v), v.count)
  BY <1>1, ElementsIs
<1>5. SameBody(heap2, v.root, heap, v.root, n)
  <2>1. \A k \in 0 .. n - 1 : v.root[<<0, k>>] \in ArraysOf(v)
    BY <1>1, SoundLeaves DEF VectorParts, ArraysOf
  <2> QED
    BY <2>1 DEF SameBody, Agree
<1>6. SameTail(TailArray(heap2, v), TailArray(heap, v), r)
  <2> SUFFICES ASSUME NEW k \in 0 .. r - 1
               PROVE  TailArray(heap2, v)[k] = TailArray(heap, v)[k]
    BY DEF SameTail
  <2>1. v.base.len \in Nat /\ r \in Nat
    BY <1>1 DEF VectorParts, Split
  <2>2. CASE k < v.base.len
    <3>1. k \in 0 .. v.base.len - 1
      BY <2>1, <2>2
    <3>2. /\ v.base.array \in ArraysOf(v)
          /\ TailArray(heap, v)[k] = heap[v.base.array][k]
          /\ TailArray(heap2, v)[k] = heap2[v.base.array][k]
      BY <1>1, <1>2, <3>1, TailArrayIs
    <3> QED
      BY <3>2 DEF Agree
  <2>3. CASE ~(k < v.base.len)
    <3>1. k \in v.base.len .. r - 1
      BY <2>1, <2>3
    <3>2. /\ TailArray(heap, v)[k] = v.delta[k - v.base.len + 1]
          /\ TailArray(heap2, v)[k] = v.delta[k - v.base.len + 1]
      BY <1>1, <1>2, <3>1, TailArrayIs
    <3> QED
      BY <3>2
  <2> QED
    BY <2>2, <2>3
<1>7. Split(v.count, n, r)
  BY <1>1 DEF VectorParts
<1> QED
  BY <1>3, <1>4, <1>5, <1>6, <1>7, HoldsSame

-----------------------------------------------------------------------------
(* Transients.                                                             *)

IsTransient(t) ==
  t = [sealed |-> t.sealed, count |-> t.count, height |-> t.height, root |-> t.root,
       tail |-> t.tail, own |-> t.own]

TransientParts(t, n, r) ==
  /\ IsTransient(t) /\ Split(t.count, n, r) /\ Sound(t.height, t.root, n)
  /\ t.tail \in Nat /\ t.tail \notin Leaves(t.root) /\ t.sealed \in BOOLEAN

TransientSound(heap, t) ==
  ArraysOfTransient(t) \subseteq DOMAIN heap /\ \E n, r : TransientParts(t, n, r)

\* The arrays of a transient are there, and its tail is none of its leaves.
LEMMA TransientStored ==
  ASSUME NEW heap, IsHeap(heap), NEW t, ArraysOfTransient(t) \subseteq DOMAIN heap,
         NEW n, NEW r, TransientParts(t, n, r)
  PROVE  /\ t.tail \in DOMAIN heap /\ heap[t.tail] \in Contents /\ Stored(heap, t.root, n)
         /\ \A k \in 0 .. n - 1 : t.root[<<0, k>>] \in DOMAIN heap /\ t.root[<<0, k>>] # t.tail
<1>1. t.tail \in DOMAIN heap
  BY NodeSizeAssumption DEF TransientParts, ArraysOfTransient
<1>2. \A k \in 0 .. n - 1 : t.root[<<0, k>>] \in DOMAIN heap /\ t.root[<<0, k>>] # t.tail
  BY SoundLeaves DEF TransientParts, ArraysOfTransient
<1>3. n \in Nat
  BY DEF TransientParts, Split
<1> QED
  BY <1>1, <1>2, <1>3 DEF Stored, IsHeap

\* The elements of a transient are those its leaves and its tail hold.
LEMMA TransientElementsIs ==
  ASSUME NEW heap, NEW t, NEW n, NEW r, TransientParts(t, n, r)
  PROVE  TransientElements(heap, t) = Holds(heap, t.root, n, heap[t.tail], t.count)
<1>1. /\ t.count \in Nat /\ n \in Nat /\ r \in 0 .. NodeSize /\ t.count = (NodeSize * n) + r
      /\ Split(t.count, n, r) /\ Sound(t.height, t.root, n) /\ NodeSize * n \in Nat
  BY NodeSizeAssumption, TimesNat DEF TransientParts, Split
<1>2. TreeSize(t.count) = NodeSize * n
  BY <1>1, SplitGives
<1>3. ASSUME NEW i \in 1 .. t.count
      PROVE  TransientElements(heap, t)[i] = Cell(heap, t.root, n, heap[t.tail], i - 1)
  <2>1. PICK j \in Nat : j = i - 1 /\ j < (NodeSize * n) + r
    BY <1>1
  <2>2. CASE j < NodeSize * n
    <3>1. j \div NodeSize \in 0 .. n - 1
      BY <1>1, <2>1, <2>2, SplitPlace
    <3>2. LeafOf(t.height, t.root, j) = t.root[<<0, j \div NodeSize>>]
      BY <1>1, <2>1, <3>1, LeafOfIs
    <3> QED
      BY <1>2, <2>1, <2>2, <3>2 DEF TransientElements, Cell
  <2>3. CASE ~(j < NodeSize * n)
    <3>1. j >= NodeSize * n
      BY <1>1, <2>3
    <3>2. j % NodeSize = j - (NodeSize * n)
      BY <1>1, <2>1, <3>1, SplitPlace
    <3> QED
      BY <1>2, <2>1, <2>3, <3>2 DEF TransientElements, Cell
  <2> QED
    BY <2>2, <2>3
<1>4. TransientElements(heap, t) = [i \in 1 .. t.count |-> TransientElements(heap, t)[i]]
  BY DEF TransientElements
<1> QED
  BY <1>3, <1>4 DEF Holds

LEMMA TransientElementsType ==
  ASSUME NEW heap, IsHeap(heap), NEW t, TransientSound(heap, t)
  PROVE  /\ TransientElements(heap, t) \in Seq(Cells)
         /\ Len(TransientElements(heap, t)) = t.count
         /\ t.count \in Nat
<1>1. PICK n, r : TransientParts(t, n, r)
  BY DEF TransientSound
<1>2. ArraysOfTransient(t) \subseteq DOMAIN heap
  BY DEF TransientSound
<1>3. Split(t.count, n, r)
  BY <1>1 DEF TransientParts
<1>4. heap[t.tail] \in Contents /\ Stored(heap, t.root, n)
  BY <1>1, <1>2, TransientStored
<1>5. TransientElements(heap, t) = Holds(heap, t.root, n, heap[t.tail], t.count)
  BY <1>1, TransientElementsIs
<1> QED
  BY <1>3, <1>4, <1>5, HoldsType

\* A transient has its elements in any heap that agrees on its arrays.
LEMMA TransientFrame ==
  ASSUME NEW heap, IsHeap(heap), NEW t, TransientSound(heap, t),
         NEW heap2, IsHeap(heap2), ArraysOfTransient(t) \subseteq DOMAIN heap2,
         Agree(heap2, heap, ArraysOfTransient(t))
  PROVE  TransientSound(heap2, t) /\ TransientElements(heap2, t) = TransientElements(heap, t)
<1>1. PICK n, r : TransientParts(t, n, r)
  BY DEF TransientSound
<1>2. ArraysOfTransient(t) \subseteq DOMAIN heap
  BY DEF TransientSound
<1>3. TransientSound(heap2, t)
  BY <1>1 DEF TransientSound
<1>4. /\ TransientElements(heap, t) = Holds(heap, t.root, n, heap[t.tail], t.count)
      /\ TransientElements(heap2, t) = Holds(heap2, t.root, n, heap2[t.tail], t.count)
  BY <1>1, TransientElementsIs
<1>5. SameBody(heap2, t.root, heap, t.root, n)
  <2>1. \A k \in 0 .. n - 1 : t.root[<<0, k>>] \in ArraysOfTransient(t)
    BY <1>1, SoundLeaves DEF TransientParts, ArraysOfTransient
  <2> QED
    BY <2>1 DEF SameBody, Agree
<1>6. SameTail(heap2[t.tail], heap[t.tail], r)
  <2>1. t.tail \in ArraysOfTransient(t)
    BY <1>1, NodeSizeAssumption DEF TransientParts, ArraysOfTransient
  <2> QED
    BY <2>1 DEF SameTail, Agree
<1>7. Split(t.count, n, r)
  BY <1>1 DEF TransientParts
<1> QED
  BY <1>3, <1>4, <1>5, <1>6, <1>7, HoldsSame

-----------------------------------------------------------------------------
(* Operations of persistent vectors.                                       *)

Extends(heap2, heap) == DOMAIN heap \subseteq DOMAIN heap2 /\ Agree(heap2, heap, DOMAIN heap)

\* What an operation on a vector with the arrays old makes.
Made(heap, old, result, elements) ==
  /\ IsHeap(result.heap) /\ Extends(result.heap, heap)
  /\ VectorSound(result.heap, result.v)
  /\ \A a \in ArraysOf(result.v) : a \in old \/ a \notin DOMAIN heap
  /\ Elements(result.heap, result.v) = elements

LEMMA ExtendsSame ==
  ASSUME NEW heap
  PROVE  Extends(heap, heap)
BY DEF Extends, Agree

LEMMA ExtendsWith ==
  ASSUME NEW heap, IsHeap(heap), NEW a \in Nat, a \notin DOMAIN heap, NEW contents \in Contents
  PROVE  Extends(With(heap, a, contents), heap)
<1>1. /\ DOMAIN With(heap, a, contents) = DOMAIN heap \cup {a}
      /\ \A b \in DOMAIN heap : With(heap, a, contents)[b] = heap[b]
  BY WithIs
<1> QED
  BY <1>1 DEF Extends, Agree

\* The leaves of a tree are the same arrays in a heap that has more.
LEMMA SameBodyExtends ==
  ASSUME NEW heap, NEW heap2, Extends(heap2, heap), NEW tree, NEW tree2, NEW n, SameLeaves(tree2, tree, n),
         \A k \in 0 .. n - 1 : tree[<<0, k>>] \in DOMAIN heap
  PROVE  SameBody(heap2, tree2, heap, tree, n)
BY DEF Extends, Agree, SameLeaves, SameBody

LEMMA VectorLeaves ==
  ASSUME NEW heap, NEW v, ArraysOf(v) \subseteq DOMAIN heap, NEW n, NEW r, VectorParts(v, n, r)
  PROVE  \A k \in 0 .. n - 1 : v.root[<<0, k>>] \in DOMAIN heap
BY SoundLeaves DEF VectorParts, ArraysOf

\* ConjValueInto with room in the tail: the chain gets longer.
LEMMA ConjRoom ==
  ASSUME NEW heap, IsHeap(heap), NEW v, ArraysOf(v) \subseteq DOMAIN heap,
         NEW n, NEW r, VectorParts(v, n, r), r < NodeSize, NEW val \in Cells
  PROVE  Made(heap, ArraysOf(v), Conj(heap, v, val), Append(Elements(heap, v), val))
<1> DEFINE w == [v EXCEPT !.count = @ + 1, !.delta = Append(@, val)]
<1>1. /\ v.delta \in Seq(Cells) /\ v.base.len \in Nat /\ v.base.len + Len(v.delta) = r
      /\ Len(v.delta) \in Nat /\ r \in Nat /\ Split(v.count, n, r) /\ Sound(v.height, v.root, n)
      /\ v.base.array \in Nat \cup {Nil} /\ (v.base.len > 0 => v.base.array \in Nat)
      /\ IsVector(v)
  BY LenProperties DEF VectorParts, Split
<1>2. Conj(heap, v, val) = [heap |-> heap, v |-> w]
  <2>1. TailLen(v.count) < NodeSize
    BY <1>1, SplitGives
  <2> QED
    BY <2>1 DEF Conj
<1>3. /\ w.count = v.count + 1 /\ w.height = v.height /\ w.root = v.root
      /\ w.base.array = v.base.array /\ w.base.len = v.base.len /\ w.delta = Append(v.delta, val)
      /\ IsVector(w)
  <2> DEFINE c2 == v.count + 1
             d2 == Append(v.delta, val)
  <2>1. w = [v EXCEPT !.count = c2, !.delta = d2]
    OBVIOUS
  <2> HIDE DEF w, c2, d2
  <2>2. /\ w.count = c2 /\ w.height = v.height /\ w.root = v.root
        /\ w.base.array = v.base.array /\ w.base.len = v.base.len /\ w.delta = d2
        /\ IsVector(w)
    BY <1>1, <2>1 DEF IsVector
  <2> QED
    BY <2>2 DEF c2, d2
<1> HIDE DEF w
<1>4. /\ Append(v.delta, val) \in Seq(Cells) /\ Len(Append(v.delta, val)) = Len(v.delta) + 1
      /\ \A i \in 1 .. Len(v.delta) : Append(v.delta, val)[i] = v.delta[i]
      /\ Append(v.delta, val)[Len(v.delta) + 1] = val
  BY <1>1, AppendProperties
<1>5. TailArray(heap, v) \in Contents /\ Stored(heap, v.root, n)
  BY TailArrayIs
<1>6. SameBody(heap, v.root, heap, v.root, n)
  BY DEF SameBody
<1>7. ArraysOf(w) = ArraysOf(v)
  BY <1>3 DEF ArraysOf
<1>8. Split(v.count + 1, n, r + 1)
  <2> DEFINE t == NodeSize * n
  <2>1. t \in Nat /\ v.count = t + r /\ v.count \in Nat /\ n \in Nat /\ r \in 0 .. NodeSize /\ NodeSize \in Nat
    BY <1>1, NodeSizeAssumption, TimesNat DEF Split
  <2> HIDE DEF t
  <2>2. v.count + 1 \in Nat /\ v.count + 1 = t + (r + 1) /\ r + 1 \in 0 .. NodeSize /\ r + 1 # 0
    BY <2>1
  <2> QED
    BY <2>1, <2>2 DEF Split, t
<1>9. VectorParts(w, n, r + 1)
  <2>1. v.base.len + (Len(v.delta) + 1) = r + 1
    BY <1>1
  <2> QED
    BY <1>1, <1>3, <1>4, <1>8, <2>1 DEF VectorParts
<1>10. SameTail(TailArray(heap, w), TailArray(heap, v), r)
  <2> SUFFICES ASSUME NEW k \in 0 .. r - 1
               PROVE  TailArray(heap, w)[k] = TailArray(heap, v)[k]
    BY DEF SameTail
  <2>1. CASE k < v.base.len
    <3>1. k \in 0 .. v.base.len - 1
      BY <1>1, <2>1
    <3> QED
      BY <1>3, <1>7, <1>9, <3>1, TailArrayIs
  <2>2. CASE ~(k < v.base.len)
    <3>1. /\ k \in v.base.len .. r - 1 /\ k \in v.base.len .. (r + 1) - 1
          /\ k - v.base.len + 1 \in 1 .. Len(v.delta)
      <4> DEFINE b == v.base.len
                 l == Len(v.delta)
      <4>1. b \in Nat /\ l \in Nat /\ b + l = r /\ ~(k < b)
        BY <1>1, <2>2
      <4> HIDE DEF b, l
      <4>2. k \in b .. r - 1 /\ k \in b .. (r + 1) - 1 /\ k - b + 1 \in 1 .. l
        BY <4>1
      <4> QED
        BY <4>2 DEF b, l
    <3>2. TailArray(heap, v)[k] = v.delta[k - v.base.len + 1]
      BY <3>1, TailArrayIs
    <3>3. TailArray(heap, w)[k] = w.delta[k - w.base.len + 1]
      BY <1>3, <1>7, <1>9, <3>1, TailArrayIs
    <3> QED
      BY <1>3, <1>4, <3>1, <3>2, <3>3
  <2> QED
    BY <2>1, <2>2
<1>11. TailArray(heap, w)[r] = val
  <2>1. r \in v.base.len .. (r + 1) - 1 /\ r - v.base.len + 1 = Len(v.delta) + 1
    BY <1>1
  <2>2. TailArray(heap, w)[r] = w.delta[r - w.base.len + 1]
    BY <1>3, <1>7, <1>9, <2>1, TailArrayIs
  <2> QED
    BY <1>3, <1>4, <2>1, <2>2
<1>12. Holds(heap, v.root, n, TailArray(heap, w), v.count + 1) =
         Append(Holds(heap, v.root, n, TailArray(heap, v), v.count), val)
  <2> DEFINE tail == TailArray(heap, v)
             tail2 == TailArray(heap, w)
             tree == v.root
             count == v.count
  <2>1. /\ Split(count, n, r) /\ tail \in Contents /\ Stored(heap, tree, n)
        /\ SameBody(heap, tree, heap, tree, n) /\ SameTail(tail2, tail, r) /\ tail2[r] = val
        /\ count \in Int /\ n \in Int /\ r \in Int
    BY <1>1, <1>5, <1>6, <1>10, <1>11 DEF Split
  <2> HIDE DEF tail, tail2, tree, count
  <2>2. Added(Holds(heap, tree, n, tail2, count + 1), Holds(heap, tree, n, tail, count), val)
    BY <2>1, HoldsMore
  <2> QED
    BY <2>2 DEF tail, tail2, tree, count, Added
<1>13. Elements(heap, w) = Append(Elements(heap, v), val)
  <2>1. Elements(heap, w) = Holds(heap, w.root, n, TailArray(heap, w), w.count)
    BY <1>9, ElementsIs
  <2>2. Elements(heap, v) = Holds(heap, v.root, n, TailArray(heap, v), v.count)
    BY ElementsIs
  <2> QED
    BY <1>3, <1>12, <2>1, <2>2
<1>14. VectorSound(heap, w)
  BY <1>7, <1>9 DEF VectorSound
<1> QED
  BY <1>2, <1>7, <1>13, <1>14, ExtendsSame DEF Made

\* ConjValueInto with a full tail: it becomes a leaf.
LEMMA ConjFull ==
  ASSUME NEW heap, IsHeap(heap), NEW v, ArraysOf(v) \subseteq DOMAIN heap,
         NEW n, VectorParts(v, n, NodeSize), NEW val \in Cells
  PROVE  Made(heap, ArraysOf(v), Conj(heap, v, val), Append(Elements(heap, v), val))
<1> DEFINE leaf == FreshIn(heap)
           tail == TailArray(heap, v)
           heap2 == With(heap, leaf, tail)
           tree == Grown(v, leaf)
           w == [count |-> v.count + 1, height |-> tree.height, root |-> tree.root,
                 base |-> NoBase, delta |-> <<val>>]
<1>1. Split(v.count, n, NodeSize) /\ Sound(v.height, v.root, n) /\ n \in Nat
  BY DEF VectorParts, Split
<1>2. Conj(heap, v, val) = [heap |-> heap2, v |-> w]
  <2>1. ~(TailLen(v.count) < NodeSize)
    BY <1>1, SplitGives, NodeSizeAssumption
  <2> QED
    BY <2>1 DEF Conj
<1>3. leaf \in Nat /\ leaf \notin DOMAIN heap
  BY FreshIs
<1>4. tail \in Contents /\ Stored(heap, v.root, n)
  BY TailArrayIs
<1>5. GrewTo(tree.height, tree.root, v.root, n, leaf)
  <2>1. leaf \notin Leaves(v.root)
    BY <1>3 DEF ArraysOf
  <2> HIDE DEF leaf
  <2> QED
    BY <1>1, <1>3, <2>1, GrownGrows
<1>6. /\ w.count = v.count + 1 /\ w.height = tree.height /\ w.root = tree.root
      /\ w.base.array = Nil /\ w.base.len = 0 /\ w.delta = <<val>>
      /\ IsVector(w)
  BY DEF IsVector, NoBase
<1> HIDE DEF leaf, tail, heap2, tree, w
<1>7. /\ IsHeap(heap2) /\ DOMAIN heap2 = DOMAIN heap \cup {leaf} /\ heap2[leaf] = tail
      /\ Extends(heap2, heap)
  BY <1>3, <1>4, WithIs, ExtendsWith DEF heap2
<1>8. SameBody(heap2, w.root, heap, v.root, n) /\ heap2[w.root[<<0, n>>]] = tail
  <2>1. SameLeaves(w.root, v.root, n) /\ w.root[<<0, n>>] = leaf
    BY <1>5, <1>6 DEF GrewTo
  <2> QED
    BY <1>7, <2>1, VectorLeaves, SameBodyExtends
<1>9. ArraysOf(w) \subseteq ArraysOf(v) \cup {leaf}
  BY <1>5, <1>6 DEF ArraysOf, GrewTo
<1>10. Split(v.count + 1, n + 1, 1)
  <2>1. /\ v.count \in Nat /\ n \in Nat /\ v.count = (NodeSize * n) + NodeSize
        /\ NodeSize \in Nat \ {0} /\ NodeSize * n \in Nat /\ NodeSize * (n + 1) = (NodeSize * n) + NodeSize
    BY <1>1, NodeSizeAssumption, TimesNat DEF Split
  <2> QED
    BY <2>1 DEF Split
<1>11. VectorParts(w, n + 1, 1)
  <2>1. <<val>> \in Seq(Cells) /\ Len(<<val>>) = 1 /\ <<val>>[1] = val
    OBVIOUS
  <2> QED
    BY <1>5, <1>6, <1>10, <2>1 DEF VectorParts, GrewTo
<1>12. ArraysOf(w) \subseteq DOMAIN heap2
  BY <1>7, <1>9
<1>13. TailArray(heap2, w)[0] = val
  <2>1. TailArray(heap2, w)[0] = w.delta[0 - w.base.len + 1]
    <3>1. 0 \in w.base.len .. 1 - 1
      BY <1>6
    <3> QED
      BY <1>7, <1>11, <1>12, <3>1, TailArrayIs
  <2> QED
    BY <1>6, <2>1
<1>14. Holds(heap2, w.root, n + 1, TailArray(heap2, w), v.count + 1) =
         Append(Holds(heap, v.root, n, tail, v.count), val)
  <2> DEFINE tail2 == TailArray(heap2, w)
             tree2 == w.root
             old == v.root
             count == v.count
  <2>1. /\ Split(count, n, NodeSize) /\ tail \in Contents /\ Stored(heap, old, n)
        /\ SameBody(heap2, tree2, heap, old, n) /\ heap2[tree2[<<0, n>>]] = tail /\ tail2[0] = val
        /\ count \in Int /\ n \in Int
    BY <1>1, <1>4, <1>8, <1>13 DEF Split
  <2> HIDE DEF tail2, tree2, old, count
  <2>2. Added(Holds(heap2, tree2, n + 1, tail2, count + 1), Holds(heap, old, n, tail, count), val)
    BY <2>1, HoldsPushed
  <2> QED
    BY <2>2 DEF tail2, tree2, old, count, Added
<1>15. Elements(heap2, w) = Append(Elements(heap, v), val)
  <2>1. Elements(heap2, w) = Holds(heap2, w.root, n + 1, TailArray(heap2, w), w.count)
    BY <1>11, ElementsIs
  <2>2. Elements(heap, v) = Holds(heap, v.root, n, tail, v.count)
    BY ElementsIs DEF tail
  <2> QED
    BY <1>6, <1>14, <2>1, <2>2
<1>16. VectorSound(heap2, w)
  BY <1>11, <1>12 DEF VectorSound
<1> QED
  BY <1>2, <1>3, <1>7, <1>9, <1>15, <1>16 DEF Made

\* ConjValueInto.
LEMMA ConjMakes ==
  ASSUME NEW heap, IsHeap(heap), NEW v, VectorSound(heap, v), NEW val \in Cells
  PROVE  Made(heap, ArraysOf(v), Conj(heap, v, val), Append(Elements(heap, v), val))
<1>1. PICK n, r : VectorParts(v, n, r)
  BY DEF VectorSound
<1>2. ArraysOf(v) \subseteq DOMAIN heap
  BY DEF VectorSound
<1>3. r \in 0 .. NodeSize /\ NodeSize \in Nat
  BY <1>1, NodeSizeAssumption DEF VectorParts, Split
<1>4. r < NodeSize \/ r = NodeSize
  BY <1>3
<1> QED
  BY <1>1, <1>2, <1>4, ConjRoom, ConjFull

\* The first q elements of two tails come from the same slots.
TailMatches(heap2, w, heap, v, q) ==
  \A k \in 0 .. q - 1 :
    /\ k < w.base.len => k < v.base.len /\ heap2[w.base.array][k] = heap[v.base.array][k]
    /\ ~(k < w.base.len) => /\ ~(k < v.base.len)
                            /\ w.delta[k - w.base.len + 1] = v.delta[k - v.base.len + 1]

\* The tail of a vector that shares it.
LEMMA TailKept ==
  ASSUME NEW heap, IsHeap(heap), NEW v, ArraysOf(v) \subseteq DOMAIN heap,
         NEW n, NEW r, VectorParts(v, n, r),
         NEW heap2, IsHeap(heap2), NEW w, ArraysOf(w) \subseteq DOMAIN heap2,
         NEW n2, NEW r2, VectorParts(w, n2, r2),
         NEW q \in Nat, q <= r, q <= r2, TailMatches(heap2, w, heap, v, q)
  PROVE  SameTail(TailArray(heap2, w), TailArray(heap, v), q)
<1> SUFFICES ASSUME NEW k \in 0 .. q - 1
             PROVE  TailArray(heap2, w)[k] = TailArray(heap, v)[k]
  BY DEF SameTail
<1>1. v.base.len \in Nat /\ w.base.len \in Nat /\ r \in Int /\ r2 \in Int /\ k \in Nat
  BY DEF VectorParts, Split
<1>2. CASE k < w.base.len
  <2>1. k < v.base.len /\ heap2[w.base.array][k] = heap[v.base.array][k]
    BY <1>2 DEF TailMatches
  <2>2. k \in 0 .. w.base.len - 1 /\ k \in 0 .. v.base.len - 1
    BY <1>1, <1>2, <2>1
  <2>3. TailArray(heap2, w)[k] = heap2[w.base.array][k]
    BY <2>2, TailArrayIs
  <2>4. TailArray(heap, v)[k] = heap[v.base.array][k]
    BY <2>2, TailArrayIs
  <2> QED
    BY <2>1, <2>3, <2>4
<1>3. CASE ~(k < w.base.len)
  <2>1. ~(k < v.base.len) /\ w.delta[k - w.base.len + 1] = v.delta[k - v.base.len + 1]
    BY <1>3 DEF TailMatches
  <2>2. k \in w.base.len .. r2 - 1 /\ k \in v.base.len .. r - 1
    BY <1>1, <1>3, <2>1
  <2>3. TailArray(heap2, w)[k] = w.delta[k - w.base.len + 1]
    BY <2>2, TailArrayIs
  <2>4. TailArray(heap, v)[k] = v.delta[k - v.base.len + 1]
    BY <2>2, TailArrayIs
  <2> QED
    BY <2>1, <2>3, <2>4
<1> QED
  BY <1>2, <1>3

\* Assoc in the tail.
LEMMA AssocTailMakes ==
  ASSUME NEW heap, IsHeap(heap), NEW v, ArraysOf(v) \subseteq DOMAIN heap,
         NEW n, NEW r, VectorParts(v, n, r), NEW val \in Cells,
         NEW i \in 0 .. v.count - 1, i >= NodeSize * n
  PROVE  Made(heap, ArraysOf(v), Assoc(heap, v, i, val), Replaced(Elements(heap, v), i + 1, val))
<1> DEFINE new == FreshIn(heap)
           tail == TailArray(heap, v)
           put == [tail EXCEPT ![i % NodeSize] = val]
           heap2 == With(heap, new, put)
           base == [array |-> new, len |-> TailLen(v.count)]
           w == [v EXCEPT !.base = base, !.delta = <<>>]
<1>1. /\ v.count \in Nat /\ n \in Nat /\ r \in 0 .. NodeSize /\ v.count = (NodeSize * n) + r
      /\ Split(v.count, n, r) /\ Sound(v.height, v.root, n) /\ IsVector(v)
      /\ NodeSize \in Nat \ {0} /\ NodeSize * n \in Nat /\ i \in Nat
  BY NodeSizeAssumption, TimesNat DEF VectorParts, Split
<1>2. TreeSize(v.count) = NodeSize * n /\ TailLen(v.count) = r
  BY <1>1, SplitGives
<1>3. Assoc(heap, v, i, val) = [heap |-> heap2, v |-> w]
  <2>1. i # v.count /\ i >= TreeSize(v.count)
    BY <1>1, <1>2
  <2> QED
    BY <2>1 DEF Assoc
<1>4. /\ w.count = v.count /\ w.height = v.height /\ w.root = v.root /\ w.base = base
      /\ w.delta = <<>> /\ IsVector(w) /\ w.base.array = new /\ w.base.len = r
  <2>1. w = [v EXCEPT !.base = base, !.delta = <<>>]
    OBVIOUS
  <2>2. base.array = new /\ base.len = r /\ base = [array |-> base.array, len |-> base.len]
    BY <1>2
  <2> HIDE DEF w, base
  <2> QED
    BY <1>1, <2>1, <2>2 DEF IsVector
<1>5. new \in Nat /\ new \notin DOMAIN heap
  BY FreshIs
<1>6. tail \in Contents /\ Stored(heap, v.root, n)
  BY TailArrayIs
<1>7. i % NodeSize = i - (NodeSize * n) /\ i % NodeSize \in Offsets /\ i < (NodeSize * n) + r
  <2>1. i < (NodeSize * n) + r
    BY <1>1
  <2>2. i % NodeSize = i - (NodeSize * n) /\ i - (NodeSize * n) \in Offsets
    BY <1>1, <2>1, SplitPlace
  <2> QED
    BY <2>1, <2>2
<1> HIDE DEF new, tail, w, base
<1>8. put \in Contents /\ put[i % NodeSize] = val /\ \A o \in Offsets : o # i % NodeSize => put[o] = tail[o]
  <2>1. tail \in [Offsets -> Cells]
    BY <1>6 DEF Contents
  <2>2. PICK o \in Offsets : o = i % NodeSize
    BY <1>7
  <2>3. [tail EXCEPT ![o] = val] \in [Offsets -> Cells]
    BY <2>1
  <2> QED
    BY <2>1, <2>2, <2>3 DEF Contents
<1> HIDE DEF put, heap2
<1>9. /\ IsHeap(heap2) /\ DOMAIN heap2 = DOMAIN heap \cup {new} /\ heap2[new] = put
      /\ Extends(heap2, heap)
  BY <1>5, <1>8, WithIs, ExtendsWith DEF heap2
<1>10. ArraysOf(w) \subseteq ArraysOf(v) \cup {new}
  BY <1>4 DEF ArraysOf
<1>11. VectorParts(w, n, r)
  <2>1. <<>> \in Seq(Cells) /\ Len(<<>>) = 0 /\ r \in Nat /\ r + 0 = r
    BY <1>1
  <2> QED
    BY <1>1, <1>4, <1>5, <2>1 DEF VectorParts
<1>12. ArraysOf(w) \subseteq DOMAIN heap2
  BY <1>9, <1>10
<1>13. \A o \in 0 .. r - 1 : TailArray(heap2, w)[o] = put[o]
  BY <1>4, <1>9, <1>11, <1>12, TailArrayIs
<1>14. SameBody(heap2, w.root, heap, v.root, n)
  <2>1. SameLeaves(w.root, v.root, n)
    BY <1>4 DEF SameLeaves
  <2> QED
    BY <1>9, <2>1, VectorLeaves, SameBodyExtends
<1>15. Holds(heap2, w.root, n, TailArray(heap2, w), v.count) =
         Replaced(Holds(heap, v.root, n, tail, v.count), i + 1, val)
  <2> DEFINE tail2 == TailArray(heap2, w)
             tree2 == w.root
             tree == v.root
             count == v.count
  <2>1. tail2[i % NodeSize] = val
    <3>1. i % NodeSize \in 0 .. r - 1
      BY <1>1, <1>7
    <3> QED
      BY <1>8, <1>13, <3>1
  <2>2. \A o \in 0 .. r - 1 : o # i % NodeSize => tail2[o] = tail[o]
    <3>1. \A o \in 0 .. r - 1 : o \in Offsets
      BY <1>1 DEF Offsets
    <3> QED
      BY <1>8, <1>13, <3>1
  <2>3. Split(count, n, r) /\ SameBody(heap2, tree2, heap, tree, n) /\ i \in 0 .. count - 1
    BY <1>1, <1>14
  <2> HIDE DEF tail2, tree2, tree, count
  <2>4. Holds(heap2, tree2, n, tail2, count) = Replaced(Holds(heap, tree, n, tail, count), i + 1, val)
    BY <2>1, <2>2, <2>3, HoldsPutTail
  <2> QED
    BY <2>4 DEF tail2, tree2, tree, count
<1>16. Elements(heap2, w) = Replaced(Elements(heap, v), i + 1, val)
  <2>1. Elements(heap2, w) = Holds(heap2, w.root, n, TailArray(heap2, w), w.count)
    BY <1>11, ElementsIs
  <2>2. Elements(heap, v) = Holds(heap, v.root, n, tail, v.count)
    BY ElementsIs DEF tail
  <2> QED
    BY <1>4, <1>15, <2>1, <2>2
<1>17. VectorSound(heap2, w)
  BY <1>11, <1>12 DEF VectorSound
<1> QED
  BY <1>3, <1>5, <1>9, <1>10, <1>16, <1>17 DEF Made

\* A chain without its last element.
LEMMA CutIs ==
  ASSUME NEW s \in Seq(Cells), s # <<>>
  PROVE  /\ WithoutLast(s) \in Seq(Cells) /\ Len(WithoutLast(s)) = Len(s) - 1 /\ Len(s) \in Nat \ {0}
         /\ \A j \in 1 .. Len(s) - 1 : WithoutLast(s)[j] = s[j]
<1> DEFINE c == WithoutLast(s)
           l == Len(s)
<1>1. l \in Nat \ {0}
  BY LenProperties, EmptySeq
<1>2. \A j \in 1 .. (l - 1) : s[j] \in Cells
  <2>1. \A j \in 1 .. (l - 1) : j \in 1 .. l
    BY <1>1
  <2> QED
    BY <2>1, ElementOfSeq
<1>3. 1 \in Int /\ l - 1 \in Int
  BY <1>1
<1>4. /\ SubSeq(s, 1, l - 1) \in Seq(Cells)
      /\ Len(SubSeq(s, 1, l - 1)) = IF 1 <= l - 1 THEN (l - 1) - 1 + 1 ELSE 0
      /\ \A j \in 1 .. (l - 1) - 1 + 1 : SubSeq(s, 1, l - 1)[j] = s[1 + j - 1]
  BY <1>2, <1>3, SubSeqProperties
<1>5. c = SubSeq(s, 1, l - 1)
  BY DEF WithoutLast
<1> HIDE DEF c, l
<1>6. c \in Seq(Cells) /\ Len(c) = l - 1 /\ l \in Nat \ {0} /\ \A j \in 1 .. l - 1 : c[j] = s[j]
  BY <1>1, <1>4, <1>5
<1> QED
  BY <1>6 DEF c, l

\* Assoc in the tree.
LEMMA AssocLeafMakes ==
  ASSUME NEW heap, IsHeap(heap), NEW v, ArraysOf(v) \subseteq DOMAIN heap,
         NEW n, NEW r, VectorParts(v, n, r), NEW val \in Cells,
         NEW i \in Nat, i < NodeSize * n
  PROVE  /\ i < v.count
         /\ Made(heap, ArraysOf(v), Assoc(heap, v, i, val), Replaced(Elements(heap, v), i + 1, val))
<1> DEFINE new == FreshIn(heap)
           leaf == LeafOf(v.height, v.root, i)
           put == [heap[leaf] EXCEPT ![i % NodeSize] = val]
           heap2 == With(heap, new, put)
           root == ReplaceLeaf(v.height, v.root, i, new)
           w == [v EXCEPT !.root = root]
           k == i \div NodeSize
<1>1. /\ v.count \in Nat /\ n \in Nat /\ r \in 0 .. NodeSize /\ v.count = (NodeSize * n) + r
      /\ Split(v.count, n, r) /\ Sound(v.height, v.root, n) /\ IsVector(v)
      /\ NodeSize \in Nat \ {0} /\ NodeSize * n \in Nat
  BY NodeSizeAssumption, TimesNat DEF VectorParts, Split
<1>2. TreeSize(v.count) = NodeSize * n /\ i < v.count
  BY <1>1, SplitGives
<1>3. Assoc(heap, v, i, val) = [heap |-> heap2, v |-> w]
  <2>1. i # v.count /\ ~(i >= TreeSize(v.count))
    BY <1>1, <1>2
  <2> QED
    BY <2>1 DEF Assoc
<1>4. /\ w.count = v.count /\ w.height = v.height /\ w.root = root /\ w.base = v.base
      /\ w.delta = v.delta /\ IsVector(w)
  <2>1. w = [v EXCEPT !.root = root]
    OBVIOUS
  <2> HIDE DEF w, root
  <2> QED
    BY <1>1, <2>1 DEF IsVector
<1>5. new \in Nat /\ new \notin DOMAIN heap
  BY FreshIs
<1>6. TailArray(heap, v) \in Contents /\ Stored(heap, v.root, n)
  BY TailArrayIs
<1>7. k \in 0 .. n - 1 /\ i % NodeSize \in Offsets /\ i < (NodeSize * n) + r
  <2>1. i < (NodeSize * n) + r
    BY <1>1
  <2> QED
    BY <1>1, <2>1, SplitPlace
<1>8. leaf = v.root[<<0, k>>] /\ leaf \in DOMAIN heap
  <2>1. leaf = v.root[<<0, k>>]
    BY <1>1, <1>7, LeafOfIs
  <2> HIDE DEF leaf, k
  <2> QED
    BY <1>7, <2>1, VectorLeaves
<1>9. /\ Sound(v.height, root, n) /\ Leaves(root) \subseteq Leaves(v.root) \cup {new}
      /\ root[<<0, k>>] = new
      /\ \A j \in 0 .. n - 1 : j # k => root[<<0, j>>] = v.root[<<0, j>>]
  <2>1. new \notin Leaves(v.root)
    BY <1>5 DEF ArraysOf
  <2>2. i \div NodeSize \in 0 .. n - 1
    BY <1>7
  <2> DEFINE height == v.height
             tree == v.root
             root2 == ReplaceLeaf(height, tree, i, new)
  <2>3. Sound(height, tree, n) /\ new \in Nat /\ new \notin Leaves(tree)
    BY <1>1, <1>5, <2>1
  <2> HIDE DEF new, height, tree
  <2>4. /\ Sound(height, root2, n) /\ Leaves(root2) \subseteq (Leaves(tree) \ {tree[<<0, i \div NodeSize>>]}) \cup {new}
        /\ root2[<<0, i \div NodeSize>>] = new
        /\ \A j \in 0 .. n - 1 : j # i \div NodeSize => root2[<<0, j>>] = tree[<<0, j>>]
    BY <2>2, <2>3, ReplaceLeafIs
  <2>5. root2 = root
    BY DEF height, tree
  <2> HIDE DEF root2, root
  <2> QED
    BY <2>4, <2>5 DEF k, height, tree
<1>10. heap[leaf] \in Contents
  <2> HIDE DEF leaf
  <2> QED
    BY <1>8 DEF IsHeap
<1>11. put \in Contents
  <2> DEFINE old == heap[leaf]
  <2>1. old \in [Offsets -> Cells]
    BY <1>10 DEF Contents
  <2>2. PICK o \in Offsets : o = i % NodeSize
    BY <1>7
  <2> HIDE DEF old
  <2>3. [old EXCEPT ![o] = val] \in [Offsets -> Cells]
    BY <2>1
  <2> QED
    BY <2>2, <2>3 DEF Contents, old
<1> HIDE DEF new, leaf, w, root, put, heap2, k
<1>12. /\ IsHeap(heap2) /\ DOMAIN heap2 = DOMAIN heap \cup {new} /\ heap2[new] = put
       /\ Extends(heap2, heap) /\ \A b \in DOMAIN heap : heap2[b] = heap[b]
  BY <1>5, <1>11, WithIs, ExtendsWith DEF heap2
<1>13. ArraysOf(w) \subseteq ArraysOf(v) \cup {new}
  BY <1>4, <1>9 DEF ArraysOf
<1>14. VectorParts(w, n, r)
  BY <1>4, <1>9 DEF VectorParts
<1>15. ArraysOf(w) \subseteq DOMAIN heap2
  BY <1>12, <1>13
<1>16. SameTail(TailArray(heap2, w), TailArray(heap, v), r)
  <2>1. v.base.len \in Nat /\ r \in Nat
    BY <1>1 DEF VectorParts
  <2>2. v.base.len > 0 => v.base.array \in DOMAIN heap
    BY NodeSizeAssumption DEF VectorParts, ArraysOf
  <2>3. TailMatches(heap2, w, heap, v, r)
    <3>1. \A j \in 0 .. r - 1 : j < v.base.len => v.base.len > 0
      BY <2>1
    <3> QED
      BY <1>4, <1>12, <2>2, <3>1 DEF TailMatches
  <2>4. r <= r
    BY <2>1
  <2> QED
    BY <1>12, <1>14, <1>15, <2>1, <2>3, <2>4, TailKept
<1>17. Holds(heap2, w.root, n, TailArray(heap2, w), v.count) =
         Replaced(Holds(heap, v.root, n, TailArray(heap, v), v.count), i + 1, val)
  <2> DEFINE tail2 == TailArray(heap2, w)
             tail == TailArray(heap, v)
             tree == v.root
             count == v.count
  <2>1. heap2[root[<<0, i \div NodeSize>>]] = Replaced(heap[tree[<<0, i \div NodeSize>>]], i % NodeSize, val)
    <3>1. heap2[root[<<0, k>>]] = Replaced(heap[v.root[<<0, k>>]], i % NodeSize, val)
      BY <1>8, <1>9, <1>12 DEF put, Replaced
    <3> QED
      BY <3>1 DEF k
  <2>2. \A j \in 0 .. n - 1 : j # i \div NodeSize => heap2[root[<<0, j>>]] = heap[tree[<<0, j>>]]
    <3>1. \A j \in 0 .. n - 1 : j # k => heap2[root[<<0, j>>]] = heap[v.root[<<0, j>>]]
      BY <1>9, <1>12, VectorLeaves
    <3> QED
      BY <3>1 DEF k
  <2>3. Split(count, n, r) /\ SameTail(tail2, tail, r) /\ Stored(heap, tree, n)
    BY <1>1, <1>6, <1>16
  <2> HIDE DEF tail2, tree, count, tail
  <2>4. Holds(heap2, root, n, tail2, count) = Replaced(Holds(heap, tree, n, tail, count), i + 1, val)
    <3>1. i \in Nat /\ i < NodeSize * n
      OBVIOUS
    <3> QED
      BY <2>1, <2>2, <2>3, <3>1, HoldsPutLeaf
  <2> QED
    BY <1>4, <2>4 DEF tail2, tree, count, tail
<1>18. Elements(heap2, w) = Replaced(Elements(heap, v), i + 1, val)
  <2>1. Elements(heap2, w) = Holds(heap2, w.root, n, TailArray(heap2, w), w.count)
    BY <1>14, ElementsIs
  <2>2. Elements(heap, v) = Holds(heap, v.root, n, TailArray(heap, v), v.count)
    BY ElementsIs
  <2> QED
    BY <1>4, <1>17, <2>1, <2>2
<1>19. VectorSound(heap2, w)
  BY <1>14, <1>15 DEF VectorSound
<1> QED
  BY <1>2, <1>3, <1>5, <1>12, <1>13, <1>18, <1>19 DEF Made

\* AssocValue.
LEMMA AssocMakes ==
  ASSUME NEW heap, IsHeap(heap), NEW v, VectorSound(heap, v), NEW val \in Cells,
         NEW i \in Nat, i <= v.count
  PROVE  Made(heap, ArraysOf(v), Assoc(heap, v, i, val), Put(Elements(heap, v), i, val))
<1>1. PICK n, r : VectorParts(v, n, r)
  BY DEF VectorSound
<1>2. ArraysOf(v) \subseteq DOMAIN heap
  BY DEF VectorSound
<1>3. Len(Elements(heap, v)) = v.count /\ v.count \in Nat
  BY ElementsType
<1>4. NodeSize * n \in Nat
  BY <1>1, NodeSizeAssumption, TimesNat DEF VectorParts, Split
<1>5. CASE i = v.count
  <2>1. Assoc(heap, v, i, val) = Conj(heap, v, val)
    BY <1>5 DEF Assoc
  <2>2. Put(Elements(heap, v), i, val) = Append(Elements(heap, v), val)
    BY <1>3, <1>5 DEF Put
  <2> QED
    BY <2>1, <2>2, ConjMakes
<1>6. CASE i # v.count
  <2>1. Put(Elements(heap, v), i, val) = Replaced(Elements(heap, v), i + 1, val)
    BY <1>3, <1>6 DEF Put, Replaced
  <2>2. CASE i >= NodeSize * n
    <3>1. i \in 0 .. v.count - 1
      BY <1>3, <1>6
    <3> QED
      BY <1>1, <1>2, <2>1, <2>2, <3>1, AssocTailMakes
  <2>3. CASE i < NodeSize * n
    BY <1>1, <1>2, <2>1, <2>3, AssocLeafMakes
  <2> QED
    BY <1>4, <2>2, <2>3
<1> QED
  BY <1>5, <1>6

\* ReplaceLastValueInto.
LEMMA ReplaceLastMakes ==
  ASSUME NEW heap, IsHeap(heap), NEW v, VectorSound(heap, v), NEW val \in Cells, v.count > 0
  PROVE  Made(heap, ArraysOf(v), ReplaceLast(heap, v, val), Replaced(Elements(heap, v), v.count, val))
<1>1. PICK n, r : VectorParts(v, n, r)
  BY DEF VectorSound
<1>2. ArraysOf(v) \subseteq DOMAIN heap
  BY DEF VectorSound
<1>3. /\ v.count \in Nat /\ n \in Nat /\ r \in 0 .. NodeSize /\ v.count = (NodeSize * n) + r
      /\ Split(v.count, n, r) /\ Sound(v.height, v.root, n) /\ IsVector(v)
      /\ NodeSize \in Nat \ {0} /\ NodeSize * n \in Nat /\ (r = 0 => n = 0)
      /\ v.delta \in Seq(Cells) /\ v.base.len \in Nat /\ v.base.len + Len(v.delta) = r
      /\ Len(v.delta) \in Nat
      /\ v.base.array \in Nat \cup {Nil} /\ (v.base.len > 0 => v.base.array \in Nat)
  BY <1>1, NodeSizeAssumption, TimesNat, LenProperties DEF VectorParts, Split
<1>4. r > 0
  <2>1. NodeSize * 0 = 0
    BY <1>3
  <2> QED
    BY <1>3, <2>1
<1> DEFINE cut == Append(WithoutLast(v.delta), val)
           w == ReplaceLast(heap, v, val).v
<1>5. /\ w.count = v.count /\ w.height = v.height /\ w.root = v.root /\ IsVector(w)
      /\ w.base.array = v.base.array /\ w.base.len \in Nat /\ w.delta \in Seq(Cells)
      /\ Len(w.delta) > 0 /\ Len(w.delta) \in Nat /\ w.base.len + Len(w.delta) = r
      /\ w.delta[Len(w.delta)] = val
      /\ w.base.len <= v.base.len
      /\ \A j \in 1 .. Len(w.delta) - 1 : w.delta[j] = v.delta[j]
      /\ Len(w.delta) > 1 => w.base.len = v.base.len
  <2>1. CASE v.delta # <<>>
    <3> DEFINE c == WithoutLast(v.delta)
               l == Len(v.delta)
    <3>1. l \in Nat \ {0}
      BY <1>3, <2>1, EmptySeq
    <3>2. c \in Seq(Cells) /\ Len(c) = l - 1 /\ \A j \in 1 .. l - 1 : c[j] = v.delta[j]
      BY <1>3, <2>1, CutIs
    <3> HIDE DEF c
    <3>3. /\ Append(c, val) \in Seq(Cells) /\ Len(Append(c, val)) = (l - 1) + 1
          /\ \A j \in 1 .. l - 1 : Append(c, val)[j] = c[j]
          /\ Append(c, val)[(l - 1) + 1] = val
      BY <3>2, AppendProperties
    <3> DEFINE d2 == Append(c, val)
    <3>4. w = [v EXCEPT !.delta = d2]
      BY <2>1 DEF ReplaceLast, c
    <3> HIDE DEF w, d2
    <3>5. /\ w.count = v.count /\ w.height = v.height /\ w.root = v.root /\ IsVector(w)
          /\ w.base = v.base /\ w.delta = d2
      BY <1>3, <3>4 DEF IsVector
    <3>6. (l - 1) + 1 = l
      BY <3>1
    <3> HIDE DEF l
    <3>7. d2 \in Seq(Cells) /\ Len(d2) = l /\ d2[l] = val /\ \A j \in 1 .. l - 1 : d2[j] = v.delta[j]
      BY <3>2, <3>3, <3>6 DEF d2
    <3> QED
      BY <1>3, <3>1, <3>5, <3>7 DEF l
  <2>2. CASE v.delta = <<>>
    <3> DEFINE d2 == <<val>>
               len2 == v.base.len - 1
    <3>1. Len(v.delta) = 0
      BY <2>2
    <3>2. len2 \in Nat /\ v.base.len = r /\ len2 + 1 = r
      BY <1>3, <1>4, <3>1
    <3>3. w = [v EXCEPT !.base.len = len2, !.delta = d2]
      BY <2>2 DEF ReplaceLast
    <3>4. d2 \in Seq(Cells) /\ Len(d2) = 1 /\ d2[1] = val
      OBVIOUS
    <3> HIDE DEF w, d2, len2
    <3>5. /\ w.count = v.count /\ w.height = v.height /\ w.root = v.root /\ IsVector(w)
          /\ w.base.array = v.base.array /\ w.base.len = len2 /\ w.delta = d2
      <4> DEFINE b2 == [v.base EXCEPT !.len = len2]
      <4>1. b2 = [array |-> v.base.array, len |-> len2]
        BY <1>3 DEF IsVector
      <4>2. w = [v EXCEPT !.base = b2, !.delta = d2]
        BY <1>3, <3>3 DEF IsVector
      <4>3. b2.array = v.base.array /\ b2.len = len2 /\ b2 = [array |-> b2.array, len |-> b2.len]
        BY <4>1
      <4> HIDE DEF b2
      <4> QED
        BY <1>3, <4>2, <4>3 DEF IsVector
    <3>6. len2 + Len(d2) = r /\ len2 <= r /\ Len(d2) \in Nat /\ Len(d2) > 0 /\ ~(Len(d2) > 1)
      BY <1>3, <3>2, <3>4
    <3>7. \A j \in 1 .. Len(d2) - 1 : FALSE
      BY <3>4
    <3>8. d2[Len(d2)] = val
      BY <3>4
    <3> QED
      BY <3>2, <3>4, <3>5, <3>6, <3>7, <3>8
  <2> QED
    BY <2>1, <2>2
<1>6. ReplaceLast(heap, v, val) = [heap |-> heap, v |-> w]
  BY DEF ReplaceLast
<1> HIDE DEF w
<1>7. ArraysOf(w) = ArraysOf(v)
  BY <1>5 DEF ArraysOf
<1>8. VectorParts(w, n, r)
  <2>1. w.base.len > 0 => v.base.len > 0
    BY <1>3, <1>5
  <2> QED
    BY <1>3, <1>5, <2>1 DEF VectorParts
<1>9. SameTail(TailArray(heap, w), TailArray(heap, v), r - 1)
  <2> DEFINE lw == Len(w.delta)
             bw == w.base.len
             bv == v.base.len
             lv == Len(v.delta)
  <2>1. /\ lw \in Nat /\ bw \in Nat /\ bv \in Nat /\ lv \in Nat /\ bw + lw = r /\ bv + lv = r
        /\ lw > 0 /\ bw <= bv /\ (lw > 1 => bw = bv) /\ r \in Nat
    BY <1>3, <1>5
  <2> HIDE DEF lw, bw, bv, lv
  <2>2. \A j \in 0 .. r - 1 - 1 :
          /\ j < bw => j < bv
          /\ ~(j < bw) => ~(j < bv) /\ j - bw + 1 \in 1 .. lw - 1 /\ bw = bv
    BY <2>1
  <2>3. TailMatches(heap, w, heap, v, r - 1)
    BY <1>5, <2>2 DEF TailMatches, lw, bw, bv
  <2>4. r - 1 \in Nat /\ r - 1 <= r
    BY <1>4, <2>1
  <2> QED
    BY <1>1, <1>2, <1>7, <1>8, <2>3, <2>4, TailKept
<1>10. TailArray(heap, w)[r - 1] = val
  <2> DEFINE lw == Len(w.delta)
             bw == w.base.len
  <2>1. lw \in Nat /\ bw \in Nat /\ bw + lw = r /\ lw > 0
    BY <1>5
  <2> HIDE DEF lw, bw
  <2>2. r - 1 \in bw .. r - 1 /\ (r - 1) - bw + 1 = lw
    BY <2>1
  <2>3. TailArray(heap, w)[r - 1] = w.delta[(r - 1) - bw + 1]
    BY <1>2, <1>7, <1>8, <2>2, TailArrayIs DEF bw
  <2> QED
    BY <1>5, <2>2, <2>3 DEF lw
<1>11. Holds(heap, v.root, n, TailArray(heap, w), v.count) =
         Replaced(Holds(heap, v.root, n, TailArray(heap, v), v.count), v.count, val)
  <2> DEFINE tail2 == TailArray(heap, w)
             tail == TailArray(heap, v)
             tree == v.root
             count == v.count
             i == count - 1
  <2>1. i \in 0 .. count - 1 /\ i >= NodeSize * n /\ i \in Nat /\ i + 1 = count /\ i < (NodeSize * n) + r
    <3> DEFINE full == NodeSize * n
    <3>1. full \in Nat /\ r \in Nat /\ r > 0 /\ count = full + r
      BY <1>3, <1>4
    <3> HIDE DEF full, count
    <3>2. i \in 0 .. count - 1 /\ i >= full /\ i \in Nat /\ i + 1 = count /\ i < full + r
      BY <3>1
    <3> QED
      BY <3>2 DEF full
  <2>2. i % NodeSize = r - 1
    <3>1. i % NodeSize = i - (NodeSize * n)
      <4> HIDE DEF i
      <4> QED
        BY <1>3, <2>1, SplitPlace
    <3> QED
      BY <1>3, <3>1
  <2>3. tail2[i % NodeSize] = val
    BY <1>10, <2>2
  <2>4. \A o \in 0 .. r - 1 : o # i % NodeSize => tail2[o] = tail[o]
    <3>1. \A o \in 0 .. r - 1 : o # r - 1 => o \in 0 .. (r - 1) - 1
      BY <1>3
    <3> QED
      BY <1>9, <2>2, <3>1 DEF SameTail
  <2>5. Split(count, n, r) /\ SameBody(heap, tree, heap, tree, n)
    BY <1>3 DEF SameBody
  <2> HIDE DEF tail2, tail, tree, count, i
  <2>6. Holds(heap, tree, n, tail2, count) = Replaced(Holds(heap, tree, n, tail, count), i + 1, val)
    BY <2>1, <2>3, <2>4, <2>5, HoldsPutTail
  <2>7. Holds(heap, tree, n, tail2, count) = Replaced(Holds(heap, tree, n, tail, count), count, val)
    BY <2>1, <2>6
  <2> QED
    BY <2>7 DEF tail2, tail, tree, count
<1>12. Elements(heap, w) = Replaced(Elements(heap, v), v.count, val)
  <2>1. Elements(heap, w) = Holds(heap, w.root, n, TailArray(heap, w), w.count)
    BY <1>8, ElementsIs
  <2>2. Elements(heap, v) = Holds(heap, v.root, n, TailArray(heap, v), v.count)
    BY <1>1, ElementsIs
  <2> QED
    BY <1>5, <1>11, <2>1, <2>2
<1>13. VectorSound(heap, w)
  BY <1>2, <1>7, <1>8 DEF VectorSound
<1> QED
  BY <1>6, <1>7, <1>12, <1>13, ExtendsSame DEF Made

\* The leaf before a tail of one element.
LEMMA LastLeafIs ==
  ASSUME NEW height, NEW tree, NEW n \in Nat, Sound(height, tree, n), NEW count \in Nat, Split(count, n, 1), count > 1
  PROVE  \E m \in Nat : n = m + 1 /\ LeafOf(height, tree, count - 2) = tree[<<0, m>>]
<1>1. /\ count \in Nat /\ n \in Nat /\ count = (NodeSize * n) + 1 /\ NodeSize \in Nat \ {0, 1}
  BY NodeSizeAssumption DEF Split
<1>2. n # 0
  <2>1. NodeSize * 0 = 0
    BY <1>1
  <2> QED
    BY <1>1, <2>1
<1>3. PICK m \in Nat : n = m + 1
  BY <1>1, <1>2
<1>4. /\ NodeSize * n = (NodeSize * m) + NodeSize /\ NodeSize * m \in Nat
  BY <1>1, <1>3, TimesNat
<1>5. NodeSize - 1 \in 0 .. NodeSize - 1 /\ count - 2 = (NodeSize * m) + (NodeSize - 1) /\ count - 2 \in Nat
  BY <1>1, <1>4
<1>6. (count - 2) \div NodeSize = m
  <2>1. NodeSize \in Nat \ {0}
    BY <1>1
  <2> QED
    BY <1>3, <1>5, <2>1, DivUnique
<1>7. m \in 0 .. n - 1 /\ n - 1 = m
  BY <1>3
<1>8. LeafOf(height, tree, count - 2) = tree[<<0, m>>]
  <2> DEFINE i == count - 2
  <2>1. i \in Nat /\ i \div NodeSize = m
    BY <1>5, <1>6
  <2> HIDE DEF i
  <2>2. LeafOf(height, tree, i) = tree[<<0, m>>]
    BY <1>7, <2>1, LeafOfIs
  <2> QED
    BY <2>2 DEF i
<1> QED
  BY <1>3, <1>5, <1>6, <1>7, <1>8

\* A vector the tail of which is a whole array.
LEMMA WholeTailIs ==
  ASSUME NEW heap, IsHeap(heap), NEW v, ArraysOf(v) \subseteq DOMAIN heap,
         NEW n, VectorParts(v, n, NodeSize), v.base.len = NodeSize
  PROVE  TailArray(heap, v) = heap[v.base.array]
<1>1. NodeSize \in Nat \ {0}
  BY NodeSizeAssumption
<1>2. v.base.array \in Nat /\ v.base.array \in DOMAIN heap
  BY <1>1, NodeSizeAssumption DEF VectorParts, ArraysOf
<1>3. heap[v.base.array] \in Contents
  BY <1>2 DEF IsHeap
<1>4. TailArray(heap, v) \in Contents
  BY TailArrayIs
<1>5. \A k \in 0 .. NodeSize - 1 : TailArray(heap, v)[k] = heap[v.base.array][k]
  BY TailArrayIs
<1>6. \A k \in Offsets : TailArray(heap, v)[k] = heap[v.base.array][k]
  BY <1>5 DEF Offsets
<1> QED
  BY <1>3, <1>4, <1>6 DEF Contents

\* A tree of one leaf and no height is, without it, the leaf that is left over.
LEMMA LeftOver ==
  ASSUME NEW tree, Sound(0, tree, 1)
  PROVE  Sound(0, tree, 0)
<1>1. DOMAIN tree = Places(0, 1) /\ Filled(tree)
  BY DEF Sound, Shape
<1>2. Places(0, 1) \subseteq {<<0, 0>>}
  <2> SUFFICES ASSUME NEW p \in Places(0, 1)
               PROVE  p = <<0, 0>>
    OBVIOUS
  <2>1. 0 \in Nat /\ 1 \in Nat
    OBVIOUS
  <2>2. p = <<p[1], p[2]>>
    BY PlacesPairs
  <2>3. p[1] \in 0 .. 0 /\ p[2] \in 0 .. 1
    BY DEF Places
  <2>4. p[1] = 0
    BY <2>3
  <2>5. <<0, p[2]>> \in Places(0, 1) /\ p[2] \in Nat
    BY <2>2, <2>3, <2>4
  <2>6. p[2] < 1
    BY <2>1, <2>5, PlacesLeaves
  <2>7. p[2] = 0
    BY <2>3, <2>6
  <2> QED
    BY <2>2, <2>4, <2>7
<1>3. Span[0] = 1
  BY SpanFacts
<1> QED
  BY <1>1, <1>2, <1>3 DEF Sound, Shape

\* PopValue when the tail keeps an element.
LEMMA PopTailKeeps ==
  ASSUME NEW heap, IsHeap(heap), NEW v, ArraysOf(v) \subseteq DOMAIN heap,
         NEW n, NEW r, VectorParts(v, n, r), r > 1
  PROVE  Made(heap, ArraysOf(v), Pop(heap, v), WithoutLast(Elements(heap, v)))
<1> DEFINE w == Pop(heap, v).v
<1>1. /\ v.count \in Nat /\ n \in Nat /\ r \in 0 .. NodeSize /\ v.count = (NodeSize * n) + r
      /\ Split(v.count, n, r) /\ Sound(v.height, v.root, n) /\ IsVector(v)
      /\ NodeSize \in Nat \ {0} /\ NodeSize * n \in Nat
      /\ v.delta \in Seq(Cells) /\ v.base.len \in Nat /\ v.base.len + Len(v.delta) = r
      /\ Len(v.delta) \in Nat
      /\ v.base.array \in Nat \cup {Nil} /\ (v.base.len > 0 => v.base.array \in Nat)
  BY NodeSizeAssumption, TimesNat, LenProperties DEF VectorParts, Split
<1>2. v.count > 1 /\ TailLen(v.count) = r /\ v.count # 1
  BY <1>1, SplitGives
<1>3. Pop(heap, v) =
        [heap |-> heap,
         v |-> IF v.delta # <<>> THEN [v EXCEPT !.count = @ - 1, !.delta = WithoutLast(@)]
               ELSE [v EXCEPT !.count = @ - 1, !.base.len = @ - 1]]
  BY <1>2 DEF Pop
<1>4. /\ w.count = v.count - 1 /\ w.height = v.height /\ w.root = v.root /\ IsVector(w)
      /\ w.base.array = v.base.array /\ w.base.len \in Nat /\ w.delta \in Seq(Cells)
      /\ w.base.len + Len(w.delta) = r - 1 /\ w.base.len <= v.base.len
      /\ Len(w.delta) \in Nat
      /\ Len(w.delta) > 0 => w.base.len = v.base.len
      /\ \A j \in 1 .. Len(w.delta) : w.delta[j] = v.delta[j]
  <2> DEFINE c2 == v.count - 1
  <2>1. CASE v.delta # <<>>
    <3> DEFINE d2 == WithoutLast(v.delta)
               l == Len(v.delta)
    <3>1. /\ d2 \in Seq(Cells) /\ Len(d2) = l - 1 /\ l \in Nat \ {0}
          /\ \A j \in 1 .. l - 1 : d2[j] = v.delta[j]
      BY <1>1, <2>1, CutIs
    <3>2. w = [v EXCEPT !.count = c2, !.delta = d2]
      BY <1>3, <2>1
    <3> HIDE DEF w, d2, c2
    <3>3. /\ w.count = c2 /\ w.height = v.height /\ w.root = v.root /\ IsVector(w)
          /\ w.base = v.base /\ w.delta = d2
      BY <1>1, <3>2 DEF IsVector
    <3> DEFINE bl == v.base.len
               ld == Len(d2)
    <3>4. bl \in Nat /\ bl + l = r /\ ld = l - 1
      BY <1>1, <3>1
    <3> HIDE DEF l, bl, ld
    <3>5. bl + ld = r - 1 /\ bl <= bl /\ ld \in Nat /\ 1 .. ld = 1 .. l - 1
      BY <1>1, <3>1, <3>4
    <3>6. /\ w.base.len = bl /\ Len(w.delta) = ld /\ w.base.array = v.base.array /\ v.base.len = bl
          /\ w.count = v.count - 1
      BY <3>3 DEF ld, bl, c2
    <3>7. \A j \in 1 .. ld : w.delta[j] = v.delta[j]
      BY <3>1, <3>3, <3>5
    <3> QED
      BY <1>1, <3>1, <3>3, <3>4, <3>5, <3>6, <3>7
  <2>2. CASE v.delta = <<>>
    <3> DEFINE len2 == v.base.len - 1
               b2 == [v.base EXCEPT !.len = len2]
    <3>1. Len(v.delta) = 0 /\ Len(<<>>) = 0 /\ <<>> \in Seq(Cells)
      BY <2>2
    <3>2. len2 \in Nat /\ v.base.len = r /\ len2 = r - 1 /\ len2 <= r
      BY <1>1, <3>1
    <3>3. w = [v EXCEPT !.count = c2, !.base = b2]
      <4>1. w = [v EXCEPT !.count = c2, !.base.len = len2]
        BY <1>3, <2>2
      <4> HIDE DEF w, c2, len2
      <4> QED
        BY <1>1, <4>1 DEF IsVector
    <3>4. b2 = [array |-> v.base.array, len |-> len2]
      BY <1>1 DEF IsVector
    <3>5. b2.array = v.base.array /\ b2.len = len2 /\ b2 = [array |-> b2.array, len |-> b2.len]
      BY <3>4
    <3> HIDE DEF w, b2, c2, len2
    <3>6. /\ w.count = c2 /\ w.height = v.height /\ w.root = v.root /\ IsVector(w)
          /\ w.base = b2 /\ w.delta = v.delta
      BY <1>1, <3>3, <3>5 DEF IsVector
    <3>7. len2 + 0 = r - 1 /\ ~(0 > 0) /\ 1 .. 0 = {}
      BY <3>2
    <3> QED
      BY <1>1, <2>2, <3>1, <3>2, <3>5, <3>6, <3>7 DEF c2
  <2> QED
    BY <2>1, <2>2
<1>5. Pop(heap, v) = [heap |-> heap, v |-> w]
  BY <1>3
<1> HIDE DEF w
<1>6. ArraysOf(w) = ArraysOf(v)
  BY <1>4 DEF ArraysOf
<1>7. Stored(heap, v.root, n) /\ TailArray(heap, v) \in Contents
  BY TailArrayIs
<1>8. Split(v.count - 1, n, r - 1)
  <2> DEFINE t == NodeSize * n
  <2>1. t \in Nat /\ v.count = t + r
    BY <1>1
  <2> HIDE DEF t
  <2>2. r - 1 \in 0 .. NodeSize /\ v.count - 1 \in Nat /\ v.count - 1 = t + (r - 1) /\ r - 1 # 0
    BY <1>1, <2>1
  <2> QED
    BY <1>1, <2>2 DEF Split, t
<1>9. VectorParts(w, n, r - 1)
  <2>1. w.base.len > 0 => v.base.len > 0
    BY <1>1, <1>4
  <2> QED
    BY <1>1, <1>4, <1>8, <2>1 DEF VectorParts
<1>10. SameTail(TailArray(heap, w), TailArray(heap, v), r - 1)
  <2> DEFINE lw == Len(w.delta)
             bw == w.base.len
             bv == v.base.len
  <2>1. /\ lw \in Nat /\ bw \in Nat /\ bv \in Nat /\ bw + lw = r - 1
        /\ bw <= bv /\ (lw > 0 => bw = bv) /\ r \in Nat
    BY <1>1, <1>4
  <2> HIDE DEF lw, bw, bv
  <2>2. \A j \in 0 .. r - 1 - 1 :
          /\ j < bw => j < bv
          /\ ~(j < bw) => ~(j < bv) /\ j - bw + 1 \in 1 .. lw /\ bw = bv
    BY <2>1
  <2>3. TailMatches(heap, w, heap, v, r - 1)
    <3>1. /\ w.base.len = bw /\ v.base.len = bv /\ w.base.array = v.base.array
          /\ \A j \in 1 .. lw : w.delta[j] = v.delta[j]
      BY <1>4 DEF lw, bw, bv
    <3>2. ASSUME NEW j \in 0 .. r - 1 - 1
          PROVE  /\ j < bw => j < bv /\ heap[w.base.array][j] = heap[v.base.array][j]
                 /\ ~(j < bw) => ~(j < bv) /\ w.delta[j - bw + 1] = v.delta[j - bv + 1]
      BY <2>2, <3>1
    <3> QED
      BY <3>1, <3>2 DEF TailMatches
  <2>4. r - 1 \in Nat /\ r - 1 <= r /\ r - 1 <= r - 1
    BY <2>1
  <2> DEFINE q == r - 1
  <2>5. q \in Nat /\ q <= r /\ q <= q /\ VectorParts(w, n, q) /\ TailMatches(heap, w, heap, v, q)
    BY <1>9, <2>3, <2>4
  <2> HIDE DEF q
  <2>6. SameTail(TailArray(heap, w), TailArray(heap, v), q)
    BY <1>6, <2>5, TailKept
  <2> QED
    BY <2>6 DEF q
<1>11. Holds(heap, v.root, n, TailArray(heap, w), v.count - 1) =
         WithoutLast(Holds(heap, v.root, n, TailArray(heap, v), v.count))
  <2> DEFINE tail2 == TailArray(heap, w)
             tail == TailArray(heap, v)
             tree == v.root
             count == v.count
  <2>1. /\ Split(count, n, r) /\ tail \in Contents /\ Stored(heap, tree, n)
        /\ SameBody(heap, tree, heap, tree, n) /\ SameTail(tail2, tail, r - 1)
    BY <1>1, <1>7, <1>10 DEF SameBody
  <2> HIDE DEF tail2, tail, tree, count
  <2>2. Holds(heap, tree, n, tail2, count - 1) = WithoutLast(Holds(heap, tree, n, tail, count))
    BY <2>1, HoldsLess
  <2> QED
    BY <2>2 DEF tail2, tail, tree, count
<1>12. Elements(heap, w) = WithoutLast(Elements(heap, v))
  <2>1. Elements(heap, w) = Holds(heap, w.root, n, TailArray(heap, w), w.count)
    BY <1>9, ElementsIs
  <2>2. Elements(heap, v) = Holds(heap, v.root, n, TailArray(heap, v), v.count)
    BY ElementsIs
  <2> QED
    BY <1>4, <1>11, <2>1, <2>2
<1>13. VectorSound(heap, w)
  BY <1>6, <1>9 DEF VectorSound
<1> QED
  BY <1>5, <1>6, <1>12, <1>13, ExtendsSame DEF Made

\* The vector without elements.
LEMMA EmptyIs ==
  ASSUME NEW heap
  PROVE  /\ VectorParts(Empty, 0, 0) /\ ArraysOf(Empty) = {} /\ VectorSound(heap, Empty)
         /\ Empty.count = 0
<1>1. /\ Empty.count = 0 /\ Empty.height = 0 /\ Empty.root = NoTree /\ Empty.base = NoBase
      /\ Empty.delta = <<>> /\ NoBase.array = Nil /\ NoBase.len = 0
      /\ IsVector(Empty)
  BY DEF Empty, NoBase, IsVector
<1>2. DOMAIN NoTree = {} /\ NoTree \in [DOMAIN NoTree -> Nat \cup {Nil}]
  BY DEF NoTree
<1>3. Sound(0, NoTree, 0)
  <2>1. Span[0] = 1
    BY SpanFacts
  <2>2. Filled(NoTree)
    BY <1>2 DEF Filled
  <2> QED
    BY <1>2, <2>1, <2>2 DEF Sound, Shape
<1>4. Split(0, 0, 0)
  <2>1. NodeSize \in Nat /\ NodeSize * 0 = 0
    BY NodeSizeAssumption
  <2> QED
    BY <2>1 DEF Split
<1>5. <<>> \in Seq(Cells) /\ Len(<<>>) = 0
  OBVIOUS
<1>6. VectorParts(Empty, 0, 0)
  BY <1>1, <1>3, <1>4, <1>5 DEF VectorParts
<1>7. ArraysOf(Empty) = {}
  BY <1>1, <1>2 DEF ArraysOf, Leaves
<1> QED
  BY <1>1, <1>6, <1>7 DEF VectorSound

LEMMA SplitOne ==
  ASSUME NEW n, NEW r, Split(1, n, r)
  PROVE  n = 0 /\ r = 1
<1>1. /\ n \in Nat /\ r \in 0 .. NodeSize /\ 1 = (NodeSize * n) + r /\ (r = 0 => n = 0)
      /\ NodeSize \in Nat \ {0, 1}
  BY NodeSizeAssumption DEF Split
<1>2. n # 0 => NodeSize * n >= NodeSize
  BY <1>1
<1>3. NodeSize * 0 = 0
  BY <1>1
<1> QED
  BY <1>1, <1>2, <1>3

\* PopValue of the only element.
LEMMA PopOnly ==
  ASSUME NEW heap, IsHeap(heap), NEW v, VectorSound(heap, v), v.count = 1
  PROVE  Made(heap, ArraysOf(v), Pop(heap, v), WithoutLast(Elements(heap, v)))
<1>1. PICK n, r : VectorParts(v, n, r)
  BY DEF VectorSound
<1>2. ArraysOf(v) \subseteq DOMAIN heap
  BY DEF VectorSound
<1>3. Split(1, n, r) /\ n = 0 /\ r = 1
  BY <1>1, SplitOne DEF VectorParts
<1>4. Pop(heap, v) = [heap |-> heap, v |-> Empty]
  BY DEF Pop
<1>5. TailArray(heap, v) \in Contents /\ Stored(heap, v.root, 0)
  BY <1>1, <1>2, <1>3, TailArrayIs
<1>6. Holds(heap, NoTree, 0, TailArray(heap, Empty), 0) =
        WithoutLast(Holds(heap, v.root, 0, TailArray(heap, v), 1))
  <2> DEFINE tail2 == TailArray(heap, Empty)
             tail == TailArray(heap, v)
             tree == v.root
             tree2 == NoTree
  <2>1. /\ Split(1, 0, 1) /\ tail \in Contents /\ Stored(heap, tree, 0)
        /\ SameBody(heap, tree2, heap, tree, 0) /\ SameTail(tail2, tail, 1 - 1)
    BY <1>3, <1>5 DEF SameBody, SameTail
  <2> HIDE DEF tail2, tail, tree, tree2
  <2>2. Holds(heap, tree2, 0, tail2, 1 - 1) = WithoutLast(Holds(heap, tree, 0, tail, 1))
    BY <2>1, HoldsLess
  <2>3. 1 - 1 = 0
    OBVIOUS
  <2>4. Holds(heap, tree2, 0, tail2, 0) = WithoutLast(Holds(heap, tree, 0, tail, 1))
    BY <2>2, <2>3
  <2> QED
    BY <2>4 DEF tail2, tail, tree, tree2
<1>7. Elements(heap, Empty) = WithoutLast(Elements(heap, v))
  <2>1. Elements(heap, Empty) = Holds(heap, Empty.root, 0, TailArray(heap, Empty), Empty.count)
    BY EmptyIs, ElementsIs
  <2>2. Elements(heap, v) = Holds(heap, v.root, 0, TailArray(heap, v), 1)
    BY <1>1, <1>3, ElementsIs
  <2>3. Empty.root = NoTree /\ Empty.count = 0
    BY DEF Empty
  <2> QED
    BY <1>6, <2>1, <2>2, <2>3
<1> QED
  BY <1>4, <1>7, EmptyIs, ExtendsSame DEF Made

\* PopValue: the last leaf is the base of a vector the tree of which has the other leaves.
LEMMA PopLeaf ==
  ASSUME NEW heap, IsHeap(heap), NEW v, ArraysOf(v) \subseteq DOMAIN heap,
         NEW n, VectorParts(v, n, 1), v.count > 1,
         NEW heap2, IsHeap(heap2), Extends(heap2, heap),
         NEW height, NEW root, Sound(height, root, n - 1), SameLeaves(root, v.root, n - 1),
         \A a \in Leaves(root) : a \in Leaves(v.root) \/ a \in DOMAIN heap2 \ DOMAIN heap,
         NEW last, last = LeafOf(v.height, v.root, v.count - 2),
         NEW w, w = [count |-> v.count - 1, height |-> height, root |-> root,
                     base |-> [array |-> last, len |-> NodeSize], delta |-> <<>>],
         NEW result, result = [heap |-> heap2, v |-> w]
  PROVE  Made(heap, ArraysOf(v), result, WithoutLast(Elements(heap, v)))
<1> DEFINE m == n - 1
<1>1. Split(v.count, n, 1) /\ Sound(v.height, v.root, n)
  BY DEF VectorParts
<1>2. m \in Nat /\ n = m + 1 /\ last = v.root[<<0, m>>]
  <2> DEFINE h == v.height
             tree == v.root
             count == v.count
  <2>1. /\ Split(count, n, 1) /\ Sound(h, tree, n) /\ count > 1 /\ last = LeafOf(h, tree, count - 2)
        /\ n \in Nat /\ count \in Nat
    BY <1>1 DEF Split
  <2> HIDE DEF h, tree, count
  <2>2. PICK l \in Nat : n = l + 1 /\ LeafOf(h, tree, count - 2) = tree[<<0, l>>]
    BY <2>1, LastLeafIs
  <2>3. n - 1 = l
    BY <2>2
  <2> QED
    BY <2>1, <2>2, <2>3 DEF tree
<1>3. /\ w.count = v.count - 1 /\ w.height = height /\ w.root = root /\ w.base.array = last
      /\ w.base.len = NodeSize /\ w.delta = <<>> /\ IsVector(w)
  BY DEF IsVector
<1>4. m \in 0 .. n - 1
  BY <1>2
<1>5. last \in DOMAIN heap /\ last \in Nat /\ last \in Leaves(v.root) /\ last \in ArraysOf(v)
  BY <1>1, <1>2, <1>4, SoundLeaves DEF ArraysOf
<1>6. Stored(heap, v.root, n) /\ TailArray(heap, v) \in Contents
  BY TailArrayIs
<1>7. \A a \in ArraysOf(w) : a \in ArraysOf(v) \/ a \in DOMAIN heap2 \ DOMAIN heap
  BY <1>3, <1>5 DEF ArraysOf
<1>8. ArraysOf(w) \subseteq DOMAIN heap2
  BY <1>7 DEF Extends
<1>9. SameBody(heap2, root, heap, v.root, m)
  <2>1. \A k \in 0 .. m - 1 : k \in 0 .. n - 1
    BY <1>2
  <2>2. \A k \in 0 .. m - 1 : v.root[<<0, k>>] \in DOMAIN heap
    BY <2>1, VectorLeaves
  <2>3. SameLeaves(root, v.root, m)
    OBVIOUS
  <2> HIDE DEF m
  <2> QED
    BY <2>2, <2>3, SameBodyExtends
<1>10. Split(v.count - 1, m, NodeSize)
  <2>1. /\ v.count \in Nat /\ n \in Nat /\ v.count = (NodeSize * n) + 1
        /\ NodeSize \in Nat \ {0, 1} /\ NodeSize * m \in Nat /\ NodeSize * n = (NodeSize * m) + NodeSize
    BY <1>1, <1>2, NodeSizeAssumption, TimesNat DEF Split
  <2> HIDE DEF m
  <2> QED
    BY <1>2, <2>1 DEF Split
<1>11. VectorParts(w, m, NodeSize)
  <2>1. <<>> \in Seq(Cells) /\ Len(<<>>) = 0 /\ NodeSize \in Nat /\ NodeSize + 0 = NodeSize
    BY NodeSizeAssumption
  <2>2. Sound(height, root, m)
    OBVIOUS
  <2> HIDE DEF m
  <2> QED
    BY <1>3, <1>5, <1>10, <2>1, <2>2 DEF VectorParts
<1>12. TailArray(heap2, w) = heap[last]
  <2>1. TailArray(heap2, w) = heap2[last]
    <3> HIDE DEF m
    <3> QED
      BY <1>3, <1>8, <1>11, WholeTailIs
  <2>2. heap2[last] = heap[last]
    BY <1>5 DEF Extends, Agree
  <2> QED
    BY <2>1, <2>2
<1>13. Holds(heap2, root, m, TailArray(heap2, w), v.count - 1) =
         WithoutLast(Holds(heap, v.root, n, TailArray(heap, v), v.count))
  <2> DEFINE tail2 == TailArray(heap2, w)
             tail == TailArray(heap, v)
             tree == v.root
             count == v.count
  <2>1. /\ Split(count, n, 1) /\ tail \in Contents /\ Stored(heap, tree, n)
        /\ SameBody(heap2, root, heap, tree, m) /\ tail2 = heap[tree[<<0, m>>]]
        /\ m \in Nat /\ n = m + 1
    BY <1>1, <1>2, <1>6, <1>9, <1>12
  <2> HIDE DEF tail2, tail, tree, count, m
  <2>2. Holds(heap2, root, m, tail2, count - 1) = WithoutLast(Holds(heap, tree, n, tail, count))
    BY <2>1, HoldsPopped
  <2> QED
    BY <2>2 DEF tail2, tail, tree, count
<1> HIDE DEF m
<1>14. Elements(heap2, w) = WithoutLast(Elements(heap, v))
  <2>1. Elements(heap2, w) = Holds(heap2, w.root, m, TailArray(heap2, w), w.count)
    BY <1>11, ElementsIs
  <2>2. Elements(heap, v) = Holds(heap, v.root, n, TailArray(heap, v), v.count)
    BY ElementsIs
  <2> QED
    BY <1>3, <1>13, <2>1, <2>2
<1>15. VectorSound(heap2, w)
  BY <1>8, <1>11 DEF VectorSound
<1>16. result.heap = heap2 /\ result.v = w
  OBVIOUS
<1>17. \A a \in ArraysOf(w) : a \in ArraysOf(v) \/ a \notin DOMAIN heap
  BY <1>7
<1> QED
  BY <1>14, <1>15, <1>16, <1>17 DEF Made

\* The tree of one leaf that PopValue leaves, with a copy of the leaf.
LEMMA FlatIs ==
  ASSUME NEW heap, IsHeap(heap), NEW tree, Leaves(tree) \subseteq DOMAIN heap,
         NEW n, Sound(0, tree, n), NEW count, Split(count, n, 1), count > 1,
         NEW new \in Nat, new \notin DOMAIN heap
  PROVE  /\ n - 1 = 0
         /\ Sound(0, ReplaceLeaf(0, tree, 0, new), 0)
         /\ Leaves(ReplaceLeaf(0, tree, 0, new)) = {new}
         /\ heap[LeafOf(0, tree, count - 2)] \in Contents
         /\ [heap[LeafOf(0, tree, count - 2)] EXCEPT ![NodeSize - 1] = Nil] \in Contents
<1> DEFINE root == ReplaceLeaf(0, tree, 0, new)
           last == LeafOf(0, tree, count - 2)
<1>1. n - 1 \in Nat /\ n = (n - 1) + 1 /\ last = tree[<<0, n - 1>>]
  <2> DEFINE h == 0
  <2>1. Sound(h, tree, n) /\ n \in Nat /\ count \in Nat
    BY DEF Split
  <2> HIDE DEF h
  <2>2. PICK l \in Nat : n = l + 1 /\ LeafOf(h, tree, count - 2) = tree[<<0, l>>]
    BY <2>1, LastLeafIs
  <2>3. n - 1 = l
    BY <2>2
  <2> QED
    BY <2>2, <2>3 DEF h
<1>2. n <= 1 /\ n \in Nat
  <2>1. Span[0] = 1
    BY SpanFacts
  <2> QED
    BY <2>1 DEF Sound, Shape
<1>3. n = 1 /\ n - 1 = 0
  BY <1>1, <1>2
<1>4. NodeSize \in Nat \ {0} /\ 0 \div NodeSize = 0 /\ 0 \div NodeSize \in 0 .. 1 - 1
  <2>1. NodeSize \in Nat \ {0} /\ 0 \in Nat /\ 0 \in 0 .. NodeSize - 1 /\ (NodeSize * 0) + 0 = 0
    BY NodeSizeAssumption
  <2>2. ((NodeSize * 0) + 0) \div NodeSize = 0
    BY <2>1, DivUnique
  <2> QED
    BY <2>1, <2>2
<1>5. new \notin Leaves(tree)
  OBVIOUS
<1>6. Sound(0, root, 1) /\ Leaves(root) \subseteq (Leaves(tree) \ {tree[<<0, 0>>]}) \cup {new} /\ root[<<0, 0>>] = new
  <2>1. Sound(0, tree, 1) /\ 0 \in Nat
    BY <1>3
  <2> DEFINE z == 0
  <2>2. Sound(0, tree, 1) /\ z \in Nat /\ z \div NodeSize \in 0 .. 1 - 1
    BY <1>4, <2>1
  <2> HIDE DEF z
  <2>3. /\ Sound(0, ReplaceLeaf(0, tree, z, new), 1)
        /\ Leaves(ReplaceLeaf(0, tree, z, new)) \subseteq (Leaves(tree) \ {tree[<<0, z \div NodeSize>>]}) \cup {new}
        /\ ReplaceLeaf(0, tree, z, new)[<<0, z \div NodeSize>>] = new
    BY <1>5, <2>2, ReplaceLeafIs
  <2> QED
    BY <1>4, <2>3 DEF z
<1> HIDE DEF root
<1>7. Sound(0, root, 0)
  BY <1>6, LeftOver
<1>8. Leaves(tree) \subseteq {tree[<<0, 0>>]} /\ DOMAIN tree \subseteq {<<0, 0>>}
  <2>1. Sound(0, tree, 0)
    BY <1>3, LeftOver
  <2> QED
    BY <2>1 DEF Sound, Shape, Leaves
<1>9. Leaves(root) = {new}
  <2>1. new \in Leaves(root)
    <3>1. 0 \in 0 .. 1 - 1
      OBVIOUS
    <3>2. root[<<0, 0>>] \in Leaves(root)
      BY <1>6, <3>1, SoundLeaves
    <3> QED
      BY <1>6, <3>2
  <2> QED
    BY <1>6, <1>8, <2>1
<1>10. heap[last] \in Contents
  <2>1. 0 \in 0 .. 1 - 1
    OBVIOUS
  <2>2. tree[<<0, 0>>] \in Leaves(tree)
    BY <1>3, <2>1, SoundLeaves
  <2> HIDE DEF last
  <2> QED
    BY <1>1, <1>3, <2>2 DEF IsHeap
<1> HIDE DEF last
<1>11. [heap[last] EXCEPT ![NodeSize - 1] = Nil] \in Contents
  <2> DEFINE old == heap[last]
  <2>1. old \in [Offsets -> Cells] /\ Nil \in Cells
    BY <1>10 DEF Contents, Cells
  <2> HIDE DEF old
  <2>2. [old EXCEPT ![NodeSize - 1] = Nil] \in [Offsets -> Cells]
    BY <2>1
  <2> QED
    BY <2>2 DEF old, Contents
<1> QED
  BY <1>3, <1>7, <1>9, <1>10, <1>11 DEF root, last

\* PopValue.
LEMMA PopMakes ==
  ASSUME NEW heap, IsHeap(heap), NEW v, VectorSound(heap, v), v.count > 0
  PROVE  Made(heap, ArraysOf(v), Pop(heap, v), WithoutLast(Elements(heap, v)))
<1>1. PICK n, r : VectorParts(v, n, r)
  BY DEF VectorSound
<1>2. ArraysOf(v) \subseteq DOMAIN heap
  BY DEF VectorSound
<1>3. /\ v.count \in Nat /\ n \in Nat /\ r \in 0 .. NodeSize /\ v.count = (NodeSize * n) + r
      /\ Split(v.count, n, r) /\ Sound(v.height, v.root, n) /\ (r = 0 => n = 0)
      /\ NodeSize \in Nat \ {0, 1} /\ v.height \in Nat
  BY <1>1, NodeSizeAssumption DEF VectorParts, Split, Sound, Shape
<1>4. r # 0
  <2>1. NodeSize * 0 = 0
    BY <1>3
  <2> QED
    BY <1>3, <2>1
<1>5. CASE v.count = 1
  BY <1>5, PopOnly
<1>6. CASE r > 1
  BY <1>1, <1>2, <1>6, PopTailKeeps
<1> DEFINE last == LeafOf(v.height, v.root, v.count - 2)
<1>7. CASE v.count > 1 /\ r = 1 /\ v.height = 0
  <2> DEFINE new == FreshIn(heap)
             cleared == [heap[last] EXCEPT ![NodeSize - 1] = Nil]
             heap2 == With(heap, new, cleared)
             root == ReplaceLeaf(0, v.root, 0, new)
             w == [count |-> v.count - 1, height |-> 0, root |-> root,
                   base |-> [array |-> last, len |-> NodeSize], delta |-> <<>>]
  <2>1. TailLen(v.count) = 1 /\ v.count # 1
    BY <1>3, <1>7, SplitGives
  <2>2. Pop(heap, v) = [heap |-> heap2, v |-> w]
    BY <1>7, <2>1 DEF Pop
  <2>3. new \in Nat /\ new \notin DOMAIN heap
    BY FreshIs
  <2>4. n - 1 = 0 /\ Sound(0, root, 0) /\ Leaves(root) = {new} /\ cleared \in Contents
    <3>1. Leaves(v.root) \subseteq DOMAIN heap
      BY <1>2 DEF ArraysOf
    <3> DEFINE tree == v.root
               count == v.count
    <3>2. Sound(0, tree, n) /\ Split(count, n, 1) /\ count > 1 /\ Leaves(tree) \subseteq DOMAIN heap
      BY <1>3, <1>7, <3>1
    <3> HIDE DEF new, tree, count
    <3>3. n - 1 = 0 /\ Sound(0, ReplaceLeaf(0, tree, 0, new), 0)
          /\ Leaves(ReplaceLeaf(0, tree, 0, new)) = {new}
          /\ [heap[LeafOf(0, tree, count - 2)] EXCEPT ![NodeSize - 1] = Nil] \in Contents
      BY <2>3, <3>2, FlatIs
    <3> QED
      BY <1>7, <3>3 DEF tree, count
  <2>5. w = [count |-> v.count - 1, height |-> 0, root |-> root,
             base |-> [array |-> last, len |-> NodeSize], delta |-> <<>>]
    OBVIOUS
  <2> HIDE DEF new, cleared, root, w, heap2, last
  <2>6. IsHeap(heap2) /\ Extends(heap2, heap) /\ DOMAIN heap2 = DOMAIN heap \cup {new}
    BY <2>3, <2>4, WithIs, ExtendsWith DEF heap2
  <2>7. SameLeaves(root, v.root, n - 1) /\ Sound(0, root, n - 1)
    BY <2>4 DEF SameLeaves
  <2>8. \A a \in Leaves(root) : a \in Leaves(v.root) \/ a \in DOMAIN heap2 \ DOMAIN heap
    BY <2>3, <2>4, <2>6
  <2>9. VectorParts(v, n, 1) /\ v.count > 1
    BY <1>1, <1>7
  <2>10. last = LeafOf(v.height, v.root, v.count - 2)
    BY DEF last
  <2> QED
    BY <1>2, <2>2, <2>5, <2>6, <2>7, <2>8, <2>9, <2>10, PopLeaf
<1>8. CASE v.count > 1 /\ r = 1 /\ v.height > 0
  <2> DEFINE tree == Shrunk(v)
             height == tree.height
             root == tree.root
             w == [count |-> v.count - 1, height |-> height, root |-> root,
                   base |-> [array |-> last, len |-> NodeSize], delta |-> <<>>]
  <2>1. TailLen(v.count) = 1 /\ v.count # 1 /\ ~(TailLen(v.count) > 1) /\ v.height # 0
    BY <1>3, <1>8, SplitGives
  <2>2. Pop(heap, v) = [heap |-> heap, v |-> w]
    BY <1>8, <2>1 DEF Pop
  <2>3. ShrankTo(height, root, v.root, n - 1)
    BY <1>3, <1>8, ShrunkShrinks
  <2>4. w = [count |-> v.count - 1, height |-> height, root |-> root,
             base |-> [array |-> last, len |-> NodeSize], delta |-> <<>>]
    OBVIOUS
  <2>5. last = LeafOf(v.height, v.root, v.count - 2)
    OBVIOUS
  <2> HIDE DEF tree, height, root, w, last
  <2>6. /\ Sound(height, root, n - 1) /\ SameLeaves(root, v.root, n - 1)
        /\ \A a \in Leaves(root) : a \in Leaves(v.root) \/ a \in DOMAIN heap \ DOMAIN heap
    BY <2>3 DEF ShrankTo
  <2>7. VectorParts(v, n, 1) /\ v.count > 1
    BY <1>1, <1>8
  <2> QED
    BY <1>2, <2>2, <2>4, <2>5, <2>6, <2>7, ExtendsSame, PopLeaf
<1>9. v.count = 1 \/ r > 1 \/ (v.count > 1 /\ r = 1)
  BY <1>3, <1>4
<1>10. v.height = 0 \/ v.height > 0
  BY <1>3
<1> QED
  BY <1>5, <1>6, <1>7, <1>8, <1>9, <1>10

-----------------------------------------------------------------------------
(* Operations of transients.                                               *)

\* What an operation on a transient makes: no array but those it has written is changed,
\* and what it has written it had.
MadeBang(heap, t, result, elements) ==
  /\ IsHeap(result.heap) /\ DOMAIN heap \subseteq DOMAIN result.heap
  /\ \A a \in DOMAIN heap : a \notin result.written => result.heap[a] = heap[a]
  /\ result.written \subseteq ArraysOfTransient(t)
  /\ TransientSound(result.heap, result.t) /\ result.t.sealed = t.sealed
  /\ \A a \in ArraysOfTransient(result.t) : a \in ArraysOfTransient(t) \/ a \notin DOMAIN heap
  /\ \A a \in result.t.own : a \in t.own \/ a \notin DOMAIN heap
  /\ TransientElements(result.heap, result.t) = elements

\* The arrays of a transient.
LEMMA TransientArrays ==
  ASSUME NEW t, NEW n, NEW r, TransientParts(t, n, r)
  PROVE  ArraysOfTransient(t) = Leaves(t.root) \cup {t.tail}
BY NodeSizeAssumption DEF TransientParts, ArraysOfTransient

LEMMA SplitFacts ==
  ASSUME NEW count, NEW n, NEW r, Split(count, n, r)
  PROVE  /\ count \in Nat /\ n \in Nat /\ r \in 0 .. NodeSize /\ r \in Nat
         /\ count = (NodeSize * n) + r /\ NodeSize * n \in Nat
         /\ NodeSize \in Nat \ {0, 1} /\ (r = 0 => n = 0)
BY NodeSizeAssumption, TimesNat DEF Split

\* The offset of the first free slot of a tail.
LEMMA FreeSlot ==
  ASSUME NEW count, NEW n, NEW r, Split(count, n, r), r < NodeSize
  PROVE  count % NodeSize = r /\ r \in Offsets
<1>1. /\ count \in Nat /\ n \in Nat /\ r \in Nat /\ count = (NodeSize * n) + r
      /\ NodeSize \in Nat \ {0} /\ r \in 0 .. NodeSize - 1
  BY SplitFacts
<1>2. ((NodeSize * n) + r) % NodeSize = r
  BY <1>1, DivUnique
<1> QED
  BY <1>1, <1>2 DEF Offsets

\* Conj in the tail.
LEMMA ConjBangRoom ==
  ASSUME NEW heap, IsHeap(heap), NEW t, ArraysOfTransient(t) \subseteq DOMAIN heap,
         NEW n, NEW r, TransientParts(t, n, r), r < NodeSize, NEW val \in Cells
  PROVE  MadeBang(heap, t, TransientConj(heap, t, val), Append(TransientElements(heap, t), val))
<1> DEFINE heap2 == [heap EXCEPT ![t.tail][t.count % NodeSize] = val]
           w == [t EXCEPT !.count = @ + 1]
<1>1. /\ Split(t.count, n, r) /\ Sound(t.height, t.root, n) /\ IsTransient(t)
      /\ t.tail \in Nat /\ t.tail \notin Leaves(t.root) /\ t.sealed \in BOOLEAN
  BY DEF TransientParts
<1>2. /\ t.count \in Nat /\ n \in Nat /\ r \in Nat /\ r \in 0 .. NodeSize
      /\ t.count = (NodeSize * n) + r /\ NodeSize \in Nat \ {0, 1}
  BY <1>1, SplitFacts
<1>3. TransientConj(heap, t, val) = [heap |-> heap2, t |-> w, written |-> {t.tail}]
  <2>1. TailLen(t.count) < NodeSize
    BY <1>1, SplitGives
  <2> QED
    BY <2>1 DEF TransientConj
<1>4. t.count % NodeSize = r /\ r \in Offsets
  BY <1>1, FreeSlot
<1>5. /\ w.count = t.count + 1 /\ w.height = t.height /\ w.root = t.root /\ w.tail = t.tail
      /\ w.own = t.own /\ w.sealed = t.sealed /\ IsTransient(w)
  <2> DEFINE c2 == t.count + 1
  <2>1. w = [t EXCEPT !.count = c2]
    OBVIOUS
  <2> HIDE DEF w, c2
  <2>2. /\ w.count = c2 /\ w.height = t.height /\ w.root = t.root /\ w.tail = t.tail
        /\ w.own = t.own /\ w.sealed = t.sealed /\ IsTransient(w)
    BY <1>1, <2>1 DEF IsTransient
  <2> QED
    BY <2>2 DEF c2
<1>6. /\ t.tail \in DOMAIN heap /\ heap[t.tail] \in Contents /\ Stored(heap, t.root, n)
      /\ \A k \in 0 .. n - 1 : t.root[<<0, k>>] \in DOMAIN heap /\ t.root[<<0, k>>] # t.tail
  BY TransientStored
<1>7. heap2 = [heap EXCEPT ![t.tail][r] = val]
  BY <1>4
<1> HIDE DEF heap2, w
<1>8. /\ IsHeap(heap2) /\ DOMAIN heap2 = DOMAIN heap
      /\ heap2[t.tail] = [heap[t.tail] EXCEPT ![r] = val] /\ heap2[t.tail] \in Contents
      /\ \A b \in DOMAIN heap : b # t.tail => heap2[b] = heap[b]
  <2> DEFINE a == t.tail
  <2>1. a \in DOMAIN heap /\ heap2 = Replaced(heap, a, Replaced(heap[a], r, val))
    BY <1>6, <1>7 DEF Replaced
  <2> HIDE DEF a
  <2>2. /\ IsHeap(heap2) /\ DOMAIN heap2 = DOMAIN heap
        /\ heap2[a] = Replaced(heap[a], r, val) /\ heap2[a] \in Contents
        /\ \A b \in DOMAIN heap : b # a => heap2[b] = heap[b]
    BY <1>4, <2>1, WriteIs
  <2> QED
    BY <2>2 DEF a, Replaced
<1>9. ArraysOfTransient(w) = ArraysOfTransient(t)
  BY <1>5 DEF ArraysOfTransient
<1>10. /\ Split(t.count + 1, n, r + 1)
       /\ Holds(heap2, t.root, n, heap2[t.tail], t.count + 1) =
            Append(Holds(heap, t.root, n, heap[t.tail], t.count), val)
  <2> DEFINE tail == heap[t.tail]
             tail2 == heap2[t.tail]
             tree == t.root
             count == t.count
  <2>1. tail \in [Offsets -> Cells] /\ tail2 = [tail EXCEPT ![r] = val]
    BY <1>6, <1>8 DEF Contents
  <2>2. SameBody(heap2, tree, heap, tree, n)
    BY <1>6, <1>8 DEF SameBody
  <2>3. /\ Split(count, n, r) /\ tail \in Contents /\ Stored(heap, tree, n)
        /\ count \in Int /\ n \in Int /\ r \in Int
    BY <1>1, <1>2, <1>6
  <2> HIDE DEF tail, tail2, tree, count
  <2>4. SameTail(tail2, tail, r) /\ tail2[r] = val
    <3>1. \A o \in 0 .. r - 1 : o \in Offsets /\ o # r
      BY <1>2 DEF Offsets
    <3> QED
      BY <1>4, <2>1, <3>1 DEF SameTail
  <2>5. /\ Split(count + 1, n, r + 1)
        /\ Added(Holds(heap2, tree, n, tail2, count + 1), Holds(heap, tree, n, tail, count), val)
    BY <2>2, <2>3, <2>4, HoldsMore
  <2> QED
    BY <2>5 DEF tail, tail2, tree, count, Added
<1>11. TransientParts(w, n, r + 1)
  BY <1>1, <1>5, <1>10 DEF TransientParts
<1>12. TransientElements(heap2, w) = Append(TransientElements(heap, t), val)
  <2>1. TransientElements(heap2, w) = Holds(heap2, w.root, n, heap2[w.tail], w.count)
    BY <1>11, TransientElementsIs
  <2>2. TransientElements(heap, t) = Holds(heap, t.root, n, heap[t.tail], t.count)
    BY TransientElementsIs
  <2> QED
    BY <1>5, <1>10, <2>1, <2>2
<1>13. TransientSound(heap2, w)
  BY <1>8, <1>9, <1>11 DEF TransientSound
<1>14. t.tail \in ArraysOfTransient(t)
  BY TransientArrays
<1> QED
  BY <1>3, <1>5, <1>8, <1>9, <1>12, <1>13, <1>14 DEF MadeBang

\* Conj when the tail is full.
LEMMA ConjBangFull ==
  ASSUME NEW heap, IsHeap(heap), NEW t, ArraysOfTransient(t) \subseteq DOMAIN heap,
         NEW n, TransientParts(t, n, NodeSize), NEW val \in Cells
  PROVE  MadeBang(heap, t, TransientConj(heap, t, val), Append(TransientElements(heap, t), val))
<1> DEFINE leaf == FreshIn(heap)
           old == heap[t.tail]
           pushed == With(heap, leaf, old)
           tail == FreshIn(pushed)
           node == [NewNode EXCEPT ![0] = val]
           heap2 == With(pushed, tail, node)
           tree == Grown(t, leaf)
           w == [t EXCEPT !.count = @ + 1, !.height = tree.height, !.root = tree.root,
                          !.tail = tail, !.own = @ \cup {leaf, tail}]
<1>1. /\ Split(t.count, n, NodeSize) /\ Sound(t.height, t.root, n) /\ IsTransient(t)
      /\ t.tail \in Nat /\ t.tail \notin Leaves(t.root) /\ t.sealed \in BOOLEAN
  BY DEF TransientParts
<1>2. /\ t.count \in Nat /\ n \in Nat /\ t.count = (NodeSize * n) + NodeSize
      /\ NodeSize \in Nat \ {0, 1} /\ NodeSize * n \in Nat
  BY <1>1, SplitFacts
<1>3. TransientConj(heap, t, val) = [heap |-> heap2, t |-> w, written |-> {}]
  <2>1. ~(TailLen(t.count) < NodeSize)
    BY <1>1, <1>2, SplitGives
  <2> QED
    BY <2>1 DEF TransientConj, NoArray
<1>4. leaf \in Nat /\ leaf \notin DOMAIN heap
  BY FreshIs
<1>5. /\ t.tail \in DOMAIN heap /\ old \in Contents /\ Stored(heap, t.root, n)
      /\ \A k \in 0 .. n - 1 : t.root[<<0, k>>] \in DOMAIN heap /\ t.root[<<0, k>>] # t.tail
  BY TransientStored
<1>6. /\ w.count = t.count + 1 /\ w.height = tree.height /\ w.root = tree.root /\ w.tail = tail
      /\ w.own = t.own \cup {leaf, tail} /\ w.sealed = t.sealed /\ IsTransient(w)
  <2> DEFINE c2 == t.count + 1
             o2 == t.own \cup {leaf, tail}
             h2 == tree.height
             r2 == tree.root
  <2>1. w = [t EXCEPT !.count = c2, !.height = h2, !.root = r2, !.tail = tail, !.own = o2]
    OBVIOUS
  <2> HIDE DEF w, c2, o2, h2, r2, tail
  <2>2. /\ w.count = c2 /\ w.height = h2 /\ w.root = r2 /\ w.tail = tail
        /\ w.own = o2 /\ w.sealed = t.sealed /\ IsTransient(w)
    BY <1>1, <2>1 DEF IsTransient
  <2> QED
    BY <2>2 DEF c2, o2, h2, r2
<1>7. node \in Contents /\ node[0] = val
  <2>1. NewNode \in [Offsets -> Cells] /\ 0 \in Offsets
    BY <1>2 DEF NewNode, Cells, Offsets
  <2> HIDE DEF node
  <2>2. node = [NewNode EXCEPT ![0] = val]
    BY DEF node
  <2> QED
    BY <2>1, <2>2 DEF Contents
<1>8. GrewTo(tree.height, tree.root, t.root, n, leaf)
  <2>1. leaf \notin Leaves(t.root)
    BY <1>4 DEF ArraysOfTransient
  <2> HIDE DEF leaf
  <2> QED
    BY <1>1, <1>4, <2>1, GrownGrows
<1> HIDE DEF leaf, old, node, tree, w
<1>9. /\ IsHeap(pushed) /\ DOMAIN pushed = DOMAIN heap \cup {leaf} /\ pushed[leaf] = old
      /\ Extends(pushed, heap)
  BY <1>4, <1>5, WithIs, ExtendsWith
<1> HIDE DEF pushed
<1>10. tail \in Nat /\ tail \notin DOMAIN pushed
  BY <1>9, FreshIs
<1> HIDE DEF tail
<1>11. /\ IsHeap(heap2) /\ DOMAIN heap2 = DOMAIN pushed \cup {tail} /\ heap2[tail] = node
       /\ Extends(heap2, pushed)
  BY <1>7, <1>9, <1>10, WithIs, ExtendsWith
<1> HIDE DEF heap2
<1>12. Extends(heap2, heap) /\ heap2[leaf] = old
  BY <1>9, <1>11 DEF Extends, Agree
<1>13. SameBody(heap2, w.root, heap, t.root, n) /\ heap2[w.root[<<0, n>>]] = old
  <2>1. SameLeaves(w.root, t.root, n) /\ w.root[<<0, n>>] = leaf
    BY <1>6, <1>8 DEF GrewTo
  <2> QED
    BY <1>5, <1>12, <2>1, SameBodyExtends
<1>14. Leaves(w.root) \subseteq Leaves(t.root) \cup {leaf}
  BY <1>6, <1>8 DEF GrewTo
<1>15. /\ Split(t.count + 1, n + 1, 1)
       /\ Holds(heap2, w.root, n + 1, node, t.count + 1) =
            Append(Holds(heap, t.root, n, old, t.count), val)
  <2> DEFINE tree2 == w.root
             tree1 == t.root
             count == t.count
  <2>1. /\ Split(count, n, NodeSize) /\ old \in Contents /\ Stored(heap, tree1, n)
        /\ SameBody(heap2, tree2, heap, tree1, n) /\ heap2[tree2[<<0, n>>]] = old /\ node[0] = val
        /\ count \in Int /\ n \in Int
    BY <1>1, <1>2, <1>5, <1>7, <1>13
  <2> HIDE DEF tree2, tree1, count
  <2>2. /\ Split(count + 1, n + 1, 1)
        /\ Added(Holds(heap2, tree2, n + 1, node, count + 1), Holds(heap, tree1, n, old, count), val)
    BY <2>1, HoldsPushed
  <2> QED
    BY <2>2 DEF tree2, tree1, count, Added
<1>16. t.tail \in ArraysOfTransient(t) /\ Leaves(t.root) \subseteq DOMAIN heap
  BY TransientArrays
<1>17. w.tail \in Nat /\ w.tail \notin Leaves(w.root)
  BY <1>6, <1>9, <1>10, <1>14, <1>16
<1>18. TransientParts(w, n + 1, 1)
  BY <1>1, <1>6, <1>8, <1>15, <1>17 DEF TransientParts, GrewTo
<1>19. TransientElements(heap2, w) = Append(TransientElements(heap, t), val)
  <2>1. TransientElements(heap2, w) = Holds(heap2, w.root, n + 1, heap2[w.tail], w.count)
    BY <1>18, TransientElementsIs
  <2>2. TransientElements(heap, t) = Holds(heap, t.root, n, old, t.count)
    BY TransientElementsIs DEF old
  <2> QED
    BY <1>6, <1>11, <1>15, <2>1, <2>2
<1>20. ArraysOfTransient(w) \subseteq ArraysOfTransient(t) \cup {leaf, tail}
  BY <1>6, <1>14 DEF ArraysOfTransient
<1>21. TransientSound(heap2, w)
  BY <1>9, <1>11, <1>18, <1>20 DEF TransientSound
<1>22. leaf \notin DOMAIN heap /\ tail \notin DOMAIN heap
  BY <1>4, <1>9, <1>10
<1> QED
  BY <1>3, <1>6, <1>11, <1>12, <1>19, <1>20, <1>21, <1>22 DEF MadeBang, Extends, Agree

\* Conj of a transient.
LEMMA ConjBangMakes ==
  ASSUME NEW heap, IsHeap(heap), NEW t, TransientSound(heap, t), NEW val \in Cells
  PROVE  MadeBang(heap, t, TransientConj(heap, t, val), Append(TransientElements(heap, t), val))
<1>1. PICK n, r : TransientParts(t, n, r)
  BY DEF TransientSound
<1>2. ArraysOfTransient(t) \subseteq DOMAIN heap
  BY DEF TransientSound
<1>3. r \in 0 .. NodeSize /\ NodeSize \in Nat
  BY <1>1, NodeSizeAssumption DEF TransientParts, Split
<1>4. r < NodeSize \/ r = NodeSize
  BY <1>3
<1> QED
  BY <1>1, <1>2, <1>4, ConjBangRoom, ConjBangFull

\* The array of n leaves and a tail that element i is in.
ArrayAt(t, n, i) == IF i >= NodeSize * n THEN t.tail ELSE t.root[<<0, i \div NodeSize>>]

\* Assoc that writes one of the transient's arrays.
LEMMA WriteBang ==
  ASSUME NEW heap, IsHeap(heap), NEW t, ArraysOfTransient(t) \subseteq DOMAIN heap,
         NEW n, NEW r, TransientParts(t, n, r), NEW val \in Cells, NEW i \in Nat, i < t.count,
         NEW array, array = ArrayAt(t, n, i),
         NEW heap2, heap2 = Replaced(heap, array, Replaced(heap[array], i % NodeSize, val))
  PROVE  /\ IsHeap(heap2) /\ DOMAIN heap2 = DOMAIN heap /\ array \in ArraysOfTransient(t)
         /\ \A a \in DOMAIN heap : a # array => heap2[a] = heap[a]
         /\ TransientElements(heap2, t) = Replaced(TransientElements(heap, t), i + 1, val)
<1> DEFINE tree == t.root
           tail == heap[t.tail]
           tail2 == heap2[t.tail]
           count == t.count
           k == i \div NodeSize
           o == i % NodeSize
<1>1. /\ count \in Nat /\ n \in Nat /\ r \in Nat /\ r \in 0 .. NodeSize
      /\ count = (NodeSize * n) + r /\ NodeSize \in Nat \ {0, 1} /\ Split(count, n, r)
      /\ NodeSize * n \in Nat /\ Sound(t.height, tree, n) /\ t.tail \notin Leaves(tree)
  BY SplitFacts DEF TransientParts
<1>2. /\ t.tail \in DOMAIN heap /\ tail \in Contents /\ Stored(heap, tree, n)
      /\ \A j \in 0 .. n - 1 : tree[<<0, j>>] \in DOMAIN heap /\ tree[<<0, j>>] # t.tail
  BY TransientStored
<1>3. i < (NodeSize * n) + r
  BY <1>1
<1>4. /\ o \in Offsets
      /\ i < NodeSize * n => k \in 0 .. n - 1
  BY <1>1, <1>3, SplitPlace
<1>5. ArraysOfTransient(t) = Leaves(tree) \cup {t.tail}
  BY TransientArrays
<1>6. array \in DOMAIN heap /\ array \in ArraysOfTransient(t)
  <2>1. CASE i >= NodeSize * n
    BY <1>2, <1>5, <2>1 DEF ArrayAt
  <2>2. CASE i < NodeSize * n
    <3>1. array = tree[<<0, k>>] /\ k \in 0 .. n - 1
      BY <1>1, <1>4, <2>2 DEF ArrayAt
    <3>2. tree[<<0, k>>] \in Leaves(tree)
      <4> HIDE DEF k, tree
      <4> QED
        BY <1>1, <3>1, SoundLeaves
    <3> HIDE DEF k, tree
    <3> QED
      BY <1>2, <1>5, <3>1, <3>2
  <2> QED
    BY <1>1, <2>1, <2>2
<1>7. heap2 = Replaced(heap, array, Replaced(heap[array], o, val))
  OBVIOUS
<1> HIDE DEF o, k, tree, tail, tail2, count
<1>8. /\ IsHeap(heap2) /\ DOMAIN heap2 = DOMAIN heap
      /\ heap2[array] = Replaced(heap[array], o, val)
      /\ \A b \in DOMAIN heap : b # array => heap2[b] = heap[b]
  <2>1. o \in Offsets /\ array \in DOMAIN heap /\ val \in Cells
    BY <1>4, <1>6
  <2> QED
    BY <1>7, <2>1, WriteIs
<1>9. Holds(heap2, tree, n, tail2, count) = Replaced(Holds(heap, tree, n, tail, count), i + 1, val)
  <2>1. CASE i >= NodeSize * n
    <3>1. array = t.tail
      BY <2>1 DEF ArrayAt
    <3>2. SameBody(heap2, tree, heap, tree, n)
      BY <1>2, <1>8, <3>1 DEF SameBody
    <3>3. tail \in [Offsets -> Cells] /\ tail2 = Replaced(tail, o, val)
      BY <1>2, <1>8, <3>1 DEF Contents, tail, tail2
    <3>4. tail2[o] = val /\ \A q \in 0 .. r - 1 : q # o => tail2[q] = tail[q]
      <4>1. \A q \in 0 .. r - 1 : q \in Offsets
        BY <1>1 DEF Offsets
      <4> QED
        BY <1>4, <3>3, <4>1 DEF Replaced
    <3>5. i \in 0 .. count - 1
      BY <1>1 DEF count
    <3>6. tail2[i % NodeSize] = val /\ \A q \in 0 .. r - 1 : q # i % NodeSize => tail2[q] = tail[q]
      BY <3>4 DEF o
    <3> QED
      BY <1>1, <2>1, <3>2, <3>5, <3>6, HoldsPutTail
  <2>2. CASE i < NodeSize * n
    <3>1. array = tree[<<0, k>>] /\ k \in 0 .. n - 1
      BY <1>1, <1>4, <2>2 DEF k, tree, ArrayAt
    <3>2. \A j \in 0 .. n - 1 : j # k => heap2[tree[<<0, j>>]] = heap[tree[<<0, j>>]]
      <4>1. \A j \in 0 .. n - 1 : tree[<<0, j>>] = tree[<<0, k>>] => j = k
        BY <1>1, <3>1, SoundLeaves
      <4> QED
        BY <1>2, <1>8, <3>1, <4>1
    <3>3. heap2[tree[<<0, k>>]] = Replaced(heap[tree[<<0, k>>]], o, val)
      BY <1>8, <3>1
    <3>4. SameTail(tail2, tail, r)
      <4>1. array # t.tail
        BY <1>2, <3>1
      <4> QED
        BY <1>2, <1>8, <4>1 DEF SameTail, tail, tail2
    <3>5. /\ heap2[tree[<<0, i \div NodeSize>>]] = Replaced(heap[tree[<<0, i \div NodeSize>>]], i % NodeSize, val)
          /\ \A j \in 0 .. n - 1 : j # i \div NodeSize => heap2[tree[<<0, j>>]] = heap[tree[<<0, j>>]]
      BY <3>2, <3>3 DEF k, o
    <3>6. i \in Nat /\ i < NodeSize * n /\ Split(count, n, r) /\ Stored(heap, tree, n)
      BY <1>1, <1>2, <2>2
    <3> QED
      BY <3>4, <3>5, <3>6, HoldsPutLeaf
  <2> QED
    BY <1>1, <2>1, <2>2
<1>10. /\ TransientElements(heap2, t) = Holds(heap2, tree, n, tail2, count)
       /\ TransientElements(heap, t) = Holds(heap, tree, n, tail, count)
  BY TransientElementsIs DEF tree, tail, tail2, count
<1> QED
  BY <1>6, <1>8, <1>9, <1>10

\* Assoc of a transient.
LEMMA AssocBangMakes ==
  ASSUME NEW heap, IsHeap(heap), NEW t, TransientSound(heap, t), NEW val \in Cells,
         NEW i \in Nat, i <= t.count
  PROVE  MadeBang(heap, t, TransientAssoc(heap, t, i, val), Put(TransientElements(heap, t), i, val))
<1>1. PICK n, r : TransientParts(t, n, r)
  BY DEF TransientSound
<1>2. ArraysOfTransient(t) \subseteq DOMAIN heap
  BY DEF TransientSound
<1>3. Len(TransientElements(heap, t)) = t.count /\ t.count \in Nat
  BY TransientElementsType
<1>4. CASE i = t.count
  <2>1. TransientAssoc(heap, t, i, val) = TransientConj(heap, t, val)
    BY <1>4 DEF TransientAssoc
  <2>2. Put(TransientElements(heap, t), i, val) = Append(TransientElements(heap, t), val)
    BY <1>3, <1>4 DEF Put
  <2> QED
    BY <2>1, <2>2, ConjBangMakes
<1>5. CASE i # t.count
  <2> DEFINE array == IF i >= TreeSize(t.count) THEN t.tail ELSE LeafOf(t.height, t.root, i)
             heap2 == [heap EXCEPT ![array][i % NodeSize] = val]
  <2>1. TransientAssoc(heap, t, i, val) = [heap |-> heap2, t |-> t, written |-> {array}]
    BY <1>5 DEF TransientAssoc
  <2>2. Put(TransientElements(heap, t), i, val) = Replaced(TransientElements(heap, t), i + 1, val)
    BY <1>3, <1>5 DEF Put, Replaced
  <2>3. i < t.count
    BY <1>3, <1>5
  <2>4. array = ArrayAt(t, n, i)
    <3>1. /\ t.count \in Nat /\ n \in Nat /\ r \in 0 .. NodeSize /\ t.count = (NodeSize * n) + r
          /\ NodeSize * n \in Nat /\ Sound(t.height, t.root, n) /\ Split(t.count, n, r)
      BY <1>1, SplitFacts DEF TransientParts
    <3>2. TreeSize(t.count) = NodeSize * n
      BY <3>1, SplitGives
    <3>3. CASE i >= NodeSize * n
      BY <3>2, <3>3 DEF ArrayAt
    <3>4. CASE i < NodeSize * n
      <4>1. i < (NodeSize * n) + r
        BY <2>3, <3>1
      <4>2. i \div NodeSize \in 0 .. n - 1
        BY <3>1, <3>4, <4>1, SplitPlace
      <4>3. LeafOf(t.height, t.root, i) = t.root[<<0, i \div NodeSize>>]
        BY <3>1, <4>2, LeafOfIs
      <4>4. ~(i >= NodeSize * n)
        BY <3>1, <3>4
      <4> QED
        BY <3>2, <4>3, <4>4 DEF ArrayAt
    <3> QED
      BY <3>1, <3>3, <3>4
  <2>5. heap2 = Replaced(heap, array, Replaced(heap[array], i % NodeSize, val))
    BY DEF Replaced
  <2> HIDE DEF array, heap2
  <2>6. /\ IsHeap(heap2) /\ DOMAIN heap2 = DOMAIN heap /\ array \in ArraysOfTransient(t)
        /\ \A a \in DOMAIN heap : a # array => heap2[a] = heap[a]
        /\ TransientElements(heap2, t) = Replaced(TransientElements(heap, t), i + 1, val)
    BY <1>1, <1>2, <2>3, <2>4, <2>5, WriteBang
  <2>7. TransientSound(heap2, t)
    BY <1>1, <1>2, <2>6 DEF TransientSound
  <2> DEFINE result == [heap |-> heap2, t |-> t, written |-> {array}]
  <2>8. result.heap = heap2 /\ result.t = t /\ result.written = {array}
    OBVIOUS
  <2> HIDE DEF result
  <2>9. MadeBang(heap, t, result, Replaced(TransientElements(heap, t), i + 1, val))
    BY <2>6, <2>7, <2>8 DEF MadeBang
  <2> QED
    BY <2>1, <2>2, <2>9 DEF result
<1> QED
  BY <1>4, <1>5

\* Pop when the tail keeps an element, or the transient none.
LEMMA PopBangKeeps ==
  ASSUME NEW heap, IsHeap(heap), NEW t, ArraysOfTransient(t) \subseteq DOMAIN heap,
         NEW n, NEW r, TransientParts(t, n, r), r > 1 \/ t.count = 1
  PROVE  MadeBang(heap, t, TransientPop(heap, t), WithoutLast(TransientElements(heap, t)))
<1> DEFINE w == [t EXCEPT !.count = @ - 1]
<1>1. /\ Split(t.count, n, r) /\ Sound(t.height, t.root, n) /\ IsTransient(t)
      /\ t.tail \in Nat /\ t.tail \notin Leaves(t.root) /\ t.sealed \in BOOLEAN
  BY DEF TransientParts
<1>2. TransientPop(heap, t) = [heap |-> heap, t |-> w, written |-> {}]
  <2>1. t.count = 1 \/ TailLen(t.count) > 1
    BY <1>1, SplitGives
  <2>2. t.count > 1 /\ TailLen(t.count) = 1 /\ t.height = 0 => ~(t.count = 1 \/ TailLen(t.count) > 1)
    <3>1. TailLen(t.count) = r /\ r \in Nat /\ t.count \in Nat
      BY <1>1, SplitGives, SplitFacts
    <3> QED
      BY <3>1
  <2> QED
    BY <2>1, <2>2 DEF TransientPop, NoArray
<1>3. /\ w.count = t.count - 1 /\ w.height = t.height /\ w.root = t.root /\ w.tail = t.tail
      /\ w.own = t.own /\ w.sealed = t.sealed /\ IsTransient(w)
  <2> DEFINE c2 == t.count - 1
  <2>1. w = [t EXCEPT !.count = c2]
    OBVIOUS
  <2> HIDE DEF w, c2
  <2>2. /\ w.count = c2 /\ w.height = t.height /\ w.root = t.root /\ w.tail = t.tail
        /\ w.own = t.own /\ w.sealed = t.sealed /\ IsTransient(w)
    BY <1>1, <2>1 DEF IsTransient
  <2> QED
    BY <2>2 DEF c2
<1> HIDE DEF w
<1>4. heap[t.tail] \in Contents /\ Stored(heap, t.root, n)
  BY TransientStored
<1>5. /\ Split(t.count - 1, n, r - 1)
      /\ Holds(heap, t.root, n, heap[t.tail], t.count - 1) =
           WithoutLast(Holds(heap, t.root, n, heap[t.tail], t.count))
  <2> DEFINE tail == heap[t.tail]
             tree == t.root
             count == t.count
  <2>1. /\ Split(count, n, r) /\ tail \in Contents /\ Stored(heap, tree, n)
        /\ SameBody(heap, tree, heap, tree, n) /\ SameTail(tail, tail, r - 1)
        /\ (r > 1 \/ count = 1)
    BY <1>1, <1>4 DEF SameBody, SameTail
  <2> HIDE DEF tail, tree, count
  <2>2. /\ Split(count - 1, n, r - 1)
        /\ Holds(heap, tree, n, tail, count - 1) = WithoutLast(Holds(heap, tree, n, tail, count))
    BY <2>1, HoldsLess
  <2> QED
    BY <2>2 DEF tail, tree, count
<1>6. TransientParts(w, n, r - 1)
  BY <1>1, <1>3, <1>5 DEF TransientParts
<1>7. TransientElements(heap, w) = WithoutLast(TransientElements(heap, t))
  <2>1. TransientElements(heap, w) = Holds(heap, w.root, n, heap[w.tail], w.count)
    BY <1>6, TransientElementsIs
  <2>2. TransientElements(heap, t) = Holds(heap, t.root, n, heap[t.tail], t.count)
    BY TransientElementsIs
  <2> QED
    BY <1>3, <1>5, <2>1, <2>2
<1>8. ArraysOfTransient(w) = ArraysOfTransient(t)
  BY <1>3 DEF ArraysOfTransient
<1>9. TransientSound(heap, w)
  BY <1>6, <1>8 DEF TransientSound
<1> DEFINE result == [heap |-> heap, t |-> w, written |-> {}]
<1>10. result.heap = heap /\ result.t = w /\ result.written = {}
  OBVIOUS
<1> HIDE DEF result
<1>11. MadeBang(heap, t, result, WithoutLast(TransientElements(heap, t)))
  BY <1>3, <1>7, <1>8, <1>9, <1>10 DEF MadeBang
<1> QED
  BY <1>2, <1>11 DEF result

\* Pop of a transient: the last leaf is the tail of one the tree of which has the others.
LEMMA PopBangLeaf ==
  ASSUME NEW heap, IsHeap(heap), NEW t, ArraysOfTransient(t) \subseteq DOMAIN heap,
         NEW n, TransientParts(t, n, 1), t.count > 1,
         NEW heap2, IsHeap(heap2), Extends(heap2, heap),
         NEW height, NEW root, Sound(height, root, n - 1), SameLeaves(root, t.root, n - 1),
         \A a \in Leaves(root) : a \in Leaves(t.root) \/ a \in DOMAIN heap2 \ DOMAIN heap,
         NEW last, last = LeafOf(t.height, t.root, t.count - 2), last \notin Leaves(root),
         NEW w, IsTransient(w), w.count = t.count - 1, w.height = height, w.root = root, w.tail = last,
         w.sealed = t.sealed, \A a \in w.own : a \in t.own \/ a \notin DOMAIN heap,
         NEW result, result = [heap |-> heap2, t |-> w, written |-> {}]
  PROVE  MadeBang(heap, t, result, WithoutLast(TransientElements(heap, t)))
<1> DEFINE m == n - 1
<1>1. Split(t.count, n, 1) /\ Sound(t.height, t.root, n) /\ t.sealed \in BOOLEAN
  BY DEF TransientParts
<1>2. m \in Nat /\ n = m + 1 /\ last = t.root[<<0, m>>]
  <2> DEFINE h == t.height
             tree == t.root
             count == t.count
  <2>1. /\ Split(count, n, 1) /\ Sound(h, tree, n) /\ count > 1 /\ last = LeafOf(h, tree, count - 2)
        /\ n \in Nat /\ count \in Nat
    BY <1>1 DEF Split
  <2> HIDE DEF h, tree, count
  <2>2. PICK l \in Nat : n = l + 1 /\ LeafOf(h, tree, count - 2) = tree[<<0, l>>]
    BY <2>1, LastLeafIs
  <2>3. n - 1 = l
    BY <2>2
  <2> QED
    BY <2>1, <2>2, <2>3 DEF tree
<1>3. m \in 0 .. n - 1
  BY <1>2
<1>4. last \in DOMAIN heap /\ last \in Nat /\ last \in Leaves(t.root) /\ last \in ArraysOfTransient(t)
  BY <1>1, <1>2, <1>3, SoundLeaves DEF ArraysOfTransient
<1>5. /\ Stored(heap, t.root, n) /\ heap[t.tail] \in Contents
      /\ \A k \in 0 .. n - 1 : t.root[<<0, k>>] \in DOMAIN heap
  BY TransientStored
<1>6. SameBody(heap2, root, heap, t.root, m)
  <2>1. \A k \in 0 .. m - 1 : k \in 0 .. n - 1
    BY <1>2
  <2>2. \A k \in 0 .. m - 1 : t.root[<<0, k>>] \in DOMAIN heap
    BY <1>5, <2>1
  <2>3. SameLeaves(root, t.root, m)
    OBVIOUS
  <2> HIDE DEF m
  <2> QED
    BY <2>2, <2>3, SameBodyExtends
<1>7. heap2[last] = heap[t.root[<<0, m>>]]
  BY <1>2, <1>4 DEF Extends, Agree
<1>8. /\ Split(t.count - 1, m, NodeSize)
      /\ Holds(heap2, root, m, heap2[last], t.count - 1) =
           WithoutLast(Holds(heap, t.root, n, heap[t.tail], t.count))
  <2> DEFINE tail2 == heap2[last]
             tail == heap[t.tail]
             tree == t.root
             count == t.count
  <2>1. /\ Split(count, n, 1) /\ tail \in Contents /\ Stored(heap, tree, n)
        /\ SameBody(heap2, root, heap, tree, m) /\ tail2 = heap[tree[<<0, m>>]]
        /\ m \in Nat /\ n = m + 1
    BY <1>1, <1>2, <1>5, <1>6, <1>7
  <2> HIDE DEF tail2, tail, tree, count, m
  <2>2. /\ Split(count - 1, m, NodeSize)
        /\ Holds(heap2, root, m, tail2, count - 1) = WithoutLast(Holds(heap, tree, n, tail, count))
    BY <2>1, HoldsPopped
  <2> QED
    BY <2>2 DEF tail2, tail, tree, count
<1>9. TransientParts(w, m, NodeSize)
  <2>1. Sound(height, root, m)
    OBVIOUS
  <2> HIDE DEF m
  <2> QED
    BY <1>1, <1>4, <1>8, <2>1 DEF TransientParts
<1> HIDE DEF m
<1>10. TransientElements(heap2, w) = WithoutLast(TransientElements(heap, t))
  <2>1. TransientElements(heap2, w) = Holds(heap2, w.root, m, heap2[w.tail], w.count)
    BY <1>9, TransientElementsIs
  <2>2. TransientElements(heap, t) = Holds(heap, t.root, n, heap[t.tail], t.count)
    BY TransientElementsIs
  <2> QED
    BY <1>8, <2>1, <2>2
<1>11. \A a \in ArraysOfTransient(w) : a \in ArraysOfTransient(t) \/ a \in DOMAIN heap2 \ DOMAIN heap
  BY <1>4 DEF ArraysOfTransient
<1>12. TransientSound(heap2, w)
  BY <1>9, <1>11 DEF TransientSound, Extends
<1>13. result.heap = heap2 /\ result.t = w /\ result.written = {}
  OBVIOUS
<1>14. \A a \in ArraysOfTransient(w) : a \in ArraysOfTransient(t) \/ a \notin DOMAIN heap
  BY <1>11
<1> QED
  BY <1>10, <1>12, <1>13, <1>14 DEF MadeBang, Extends, Agree

\* Pop of a transient.
LEMMA PopBangMakes ==
  ASSUME NEW heap, IsHeap(heap), NEW t, TransientSound(heap, t), t.count > 0
  PROVE  MadeBang(heap, t, TransientPop(heap, t), WithoutLast(TransientElements(heap, t)))
<1>1. PICK n, r : TransientParts(t, n, r)
  BY DEF TransientSound
<1>2. ArraysOfTransient(t) \subseteq DOMAIN heap
  BY DEF TransientSound
<1>3. /\ t.count \in Nat /\ n \in Nat /\ r \in 0 .. NodeSize /\ t.count = (NodeSize * n) + r
      /\ Split(t.count, n, r) /\ Sound(t.height, t.root, n) /\ (r = 0 => n = 0)
      /\ NodeSize \in Nat \ {0, 1} /\ t.height \in Nat /\ IsTransient(t)
  BY <1>1, NodeSizeAssumption DEF TransientParts, Split, Sound, Shape
<1>4. r # 0
  <2>1. NodeSize * 0 = 0
    BY <1>3
  <2> QED
    BY <1>3, <2>1
<1>5. CASE r > 1 \/ t.count = 1
  BY <1>1, <1>2, <1>5, PopBangKeeps
<1> DEFINE last == LeafOf(t.height, t.root, t.count - 2)
           c2 == t.count - 1
<1>6. CASE t.count > 1 /\ r = 1 /\ t.height = 0
  <2> DEFINE new == FreshIn(heap)
             cleared == [heap[last] EXCEPT ![NodeSize - 1] = Nil]
             heap2 == With(heap, new, cleared)
             root == ReplaceLeaf(0, t.root, 0, new)
             own == t.own \cup {new}
             w == [t EXCEPT !.count = c2, !.root = root, !.tail = last, !.own = own]
  <2>1. TailLen(t.count) = 1 /\ t.count # 1 /\ ~(TailLen(t.count) > 1)
    BY <1>3, <1>6, SplitGives
  <2>2. TransientPop(heap, t) = [heap |-> heap2, t |-> w, written |-> {}]
    BY <1>6, <2>1 DEF TransientPop, NoArray
  <2>3. new \in Nat /\ new \notin DOMAIN heap
    BY FreshIs
  <2>4. n - 1 = 0 /\ Sound(0, root, 0) /\ Leaves(root) = {new} /\ cleared \in Contents
    <3>1. Leaves(t.root) \subseteq DOMAIN heap
      BY <1>2 DEF ArraysOfTransient
    <3> DEFINE tree == t.root
               count == t.count
    <3>2. Sound(0, tree, n) /\ Split(count, n, 1) /\ count > 1 /\ Leaves(tree) \subseteq DOMAIN heap
      BY <1>3, <1>6, <3>1
    <3> HIDE DEF new, tree, count
    <3>3. n - 1 = 0 /\ Sound(0, ReplaceLeaf(0, tree, 0, new), 0)
          /\ Leaves(ReplaceLeaf(0, tree, 0, new)) = {new}
          /\ [heap[LeafOf(0, tree, count - 2)] EXCEPT ![NodeSize - 1] = Nil] \in Contents
      BY <2>3, <3>2, FlatIs
    <3> QED
      BY <1>6, <3>3 DEF tree, count
  <2>5. w = [t EXCEPT !.count = c2, !.root = root, !.tail = last, !.own = own]
    OBVIOUS
  <2>6. own = t.own \cup {new} /\ c2 = t.count - 1
    OBVIOUS
  <2>7. last = LeafOf(t.height, t.root, t.count - 2)
    OBVIOUS
  <2> HIDE DEF new, cleared, root, w, heap2, last, own, c2
  <2>8. /\ IsTransient(w) /\ w.count = c2 /\ w.height = t.height /\ w.root = root /\ w.tail = last
        /\ w.sealed = t.sealed /\ w.own = own
    BY <1>3, <2>5 DEF IsTransient
  <2>9. IsHeap(heap2) /\ Extends(heap2, heap) /\ DOMAIN heap2 = DOMAIN heap \cup {new}
    BY <2>3, <2>4, WithIs, ExtendsWith DEF heap2
  <2>10. SameLeaves(root, t.root, n - 1) /\ Sound(0, root, n - 1)
    BY <2>4 DEF SameLeaves
  <2>11. \A a \in Leaves(root) : a \in Leaves(t.root) \/ a \in DOMAIN heap2 \ DOMAIN heap
    BY <2>3, <2>4, <2>9
  <2>12. TransientParts(t, n, 1) /\ t.count > 1 /\ w.height = 0
    BY <1>1, <1>6, <2>8
  <2>13. last \notin Leaves(root)
    <3> DEFINE h == t.height
               tree == t.root
               count == t.count
    <3>1. /\ Split(count, n, 1) /\ Sound(h, tree, n) /\ count > 1 /\ last = LeafOf(h, tree, count - 2)
          /\ n \in Nat /\ count \in Nat /\ Leaves(tree) \subseteq DOMAIN heap
      BY <1>2, <1>3, <1>6, <2>7 DEF ArraysOfTransient
    <3> HIDE DEF h, tree, count
    <3>2. PICK l \in Nat : n = l + 1 /\ LeafOf(h, tree, count - 2) = tree[<<0, l>>]
      BY <3>1, LastLeafIs
    <3>3. l \in 0 .. n - 1
      BY <3>2
    <3>4. last \in Leaves(tree)
      BY <3>1, <3>2, <3>3, SoundLeaves
    <3> QED
      BY <2>3, <2>4, <3>1, <3>4
  <2>14. w.count = t.count - 1 /\ \A a \in w.own : a \in t.own \/ a \notin DOMAIN heap
    BY <2>3, <2>6, <2>8
  <2> QED
    BY <1>2, <2>2, <2>7, <2>8, <2>9, <2>10, <2>11, <2>12, <2>13, <2>14, PopBangLeaf
<1>7. CASE t.count > 1 /\ r = 1 /\ t.height > 0
  <2> DEFINE tree == Shrunk(t)
             height == tree.height
             root == tree.root
             w == [t EXCEPT !.count = c2, !.height = height, !.root = root, !.tail = last]
  <2>1. TailLen(t.count) = 1 /\ t.count # 1 /\ ~(TailLen(t.count) > 1) /\ t.height # 0
    BY <1>3, <1>7, SplitGives
  <2>2. TransientPop(heap, t) = [heap |-> heap, t |-> w, written |-> {}]
    BY <1>7, <2>1 DEF TransientPop, NoArray
  <2>3. ShrankTo(height, root, t.root, n - 1)
    BY <1>3, <1>7, ShrunkShrinks
  <2>4. w = [t EXCEPT !.count = c2, !.height = height, !.root = root, !.tail = last]
    OBVIOUS
  <2>5. last = LeafOf(t.height, t.root, t.count - 2) /\ c2 = t.count - 1
    OBVIOUS
  <2> HIDE DEF tree, height, root, w, last, c2
  <2>6. /\ IsTransient(w) /\ w.count = c2 /\ w.height = height /\ w.root = root /\ w.tail = last
        /\ w.sealed = t.sealed /\ w.own = t.own
    BY <1>3, <2>4 DEF IsTransient
  <2>7. /\ Sound(height, root, n - 1) /\ SameLeaves(root, t.root, n - 1)
        /\ Leaves(root) \subseteq Leaves(t.root) \ {t.root[<<0, n - 1>>]}
    BY <2>3 DEF ShrankTo
  <2>8. \A a \in Leaves(root) : a \in Leaves(t.root) \/ a \in DOMAIN heap \ DOMAIN heap
    BY <2>7
  <2>9. TransientParts(t, n, 1) /\ t.count > 1
    BY <1>1, <1>7
  <2>10. last \notin Leaves(root)
    <3> DEFINE h == t.height
               old == t.root
               count == t.count
    <3>1. /\ Split(count, n, 1) /\ Sound(h, old, n) /\ count > 1 /\ last = LeafOf(h, old, count - 2)
          /\ n \in Nat /\ count \in Nat
      BY <1>3, <1>7, <2>5
    <3> HIDE DEF h, old, count
    <3>2. PICK l \in Nat : n = l + 1 /\ LeafOf(h, old, count - 2) = old[<<0, l>>]
      BY <3>1, LastLeafIs
    <3>3. n - 1 = l
      BY <3>2
    <3> QED
      BY <2>7, <3>1, <3>2, <3>3 DEF old
  <2>11. w.count = t.count - 1 /\ \A a \in w.own : a \in t.own \/ a \notin DOMAIN heap
    BY <2>5, <2>6
  <2> QED
    BY <1>2, <2>2, <2>5, <2>6, <2>7, <2>8, <2>9, <2>10, <2>11, ExtendsSame, PopBangLeaf
<1>8. t.count = 1 \/ r > 1 \/ (t.count > 1 /\ r = 1)
  BY <1>3, <1>4
<1>9. t.height = 0 \/ t.height > 0
  BY <1>3
<1> QED
  BY <1>5, <1>6, <1>7, <1>8, <1>9

\* What NewTransient makes of a vector.
MadeTransient(heap, v, result) ==
  /\ IsHeap(result.heap) /\ Extends(result.heap, heap)
  /\ TransientSound(result.heap, result.t) /\ result.t.sealed = FALSE
  /\ \A a \in ArraysOfTransient(result.t) : a \in ArraysOf(v) \/ a \notin DOMAIN heap
  /\ \A a \in result.t.own : a \notin DOMAIN heap
  /\ TransientElements(result.heap, result.t) = Elements(heap, v)

\* NewTransient.
LEMMA AsTransientMakes ==
  ASSUME NEW heap, IsHeap(heap), NEW v, VectorSound(heap, v)
  PROVE  MadeTransient(heap, v, AsTransient(heap, v))
<1>1. PICK n, r : VectorParts(v, n, r)
  BY DEF VectorSound
<1>2. ArraysOf(v) \subseteq DOMAIN heap
  BY DEF VectorSound
<1> DEFINE tail == FreshIn(heap)
           old == TailArray(heap, v)
           heap2 == With(heap, tail, old)
           t == [sealed |-> FALSE, count |-> v.count, height |-> v.height, root |-> v.root,
                 tail |-> tail, own |-> {tail}]
           result == [heap |-> heap2, t |-> t]
<1>3. AsTransient(heap, v) = result
  BY DEF AsTransient
<1>4. result.heap = heap2 /\ result.t = t
  OBVIOUS
<1>5. tail \in Nat /\ tail \notin DOMAIN heap
  BY FreshIs
<1>6. old \in Contents /\ Stored(heap, v.root, n)
  BY <1>1, <1>2, TailArrayIs
<1>7. /\ t.sealed = FALSE /\ t.count = v.count /\ t.height = v.height /\ t.root = v.root
      /\ t.tail = tail /\ t.own = {tail} /\ IsTransient(t)
  BY DEF IsTransient
<1> HIDE DEF tail, old, t, result
<1>8. /\ IsHeap(heap2) /\ DOMAIN heap2 = DOMAIN heap \cup {tail} /\ heap2[tail] = old
      /\ Extends(heap2, heap)
  BY <1>5, <1>6, WithIs, ExtendsWith
<1> HIDE DEF heap2
<1>9. Split(v.count, n, r) /\ Sound(v.height, v.root, n)
  BY <1>1 DEF VectorParts
<1>10. TransientParts(t, n, r)
  <2>1. tail \notin Leaves(v.root)
    BY <1>2, <1>5 DEF ArraysOf
  <2> QED
    BY <1>5, <1>7, <1>9, <2>1 DEF TransientParts
<1>11. ArraysOfTransient(t) \subseteq ArraysOf(v) \cup {tail}
  BY <1>7 DEF ArraysOfTransient, ArraysOf
<1>12. TransientSound(heap2, t)
  BY <1>2, <1>8, <1>10, <1>11 DEF TransientSound
<1>13. TransientElements(heap2, t) = Elements(heap, v)
  <2>1. SameBody(heap2, v.root, heap, v.root, n)
    <3>1. \A k \in 0 .. n - 1 : v.root[<<0, k>>] \in DOMAIN heap
      BY <1>1, <1>2, VectorLeaves
    <3>2. SameLeaves(v.root, v.root, n)
      BY DEF SameLeaves
    <3> QED
      BY <1>8, <3>1, <3>2, SameBodyExtends
  <2>2. SameTail(heap2[tail], old, r)
    BY <1>8 DEF SameTail
  <2>3. Holds(heap2, v.root, n, heap2[tail], v.count) = Holds(heap, v.root, n, old, v.count)
    BY <1>9, <2>1, <2>2, HoldsSame
  <2>4. TransientElements(heap2, t) = Holds(heap2, t.root, n, heap2[t.tail], t.count)
    BY <1>10, TransientElementsIs
  <2>5. Elements(heap, v) = Holds(heap, v.root, n, old, v.count)
    BY <1>1, ElementsIs DEF old
  <2> QED
    BY <1>7, <2>3, <2>4, <2>5
<1> QED
  BY <1>3, <1>4, <1>5, <1>7, <1>8, <1>11, <1>12, <1>13 DEF MadeTransient

LEMMA SplitZero ==
  ASSUME NEW n, NEW r, Split(0, n, r)
  PROVE  n = 0 /\ r = 0
<1>1. /\ n \in Nat /\ r \in Nat /\ 0 = (NodeSize * n) + r /\ NodeSize * n \in Nat /\ (r = 0 => n = 0)
  BY SplitFacts
<1> QED
  BY <1>1

\* Persistent: the vector has the arrays and the elements of the transient.
LEMMA AsPersistentMakes ==
  ASSUME NEW heap, IsHeap(heap), NEW t, TransientSound(heap, t)
  PROVE  /\ VectorSound(heap, AsPersistent(t))
         /\ ArraysOf(AsPersistent(t)) \subseteq ArraysOfTransient(t)
         /\ Elements(heap, AsPersistent(t)) = TransientElements(heap, t)
<1>1. PICK n, r : TransientParts(t, n, r)
  BY DEF TransientSound
<1>2. ArraysOfTransient(t) \subseteq DOMAIN heap
  BY DEF TransientSound
<1>3. /\ Split(t.count, n, r) /\ Sound(t.height, t.root, n) /\ t.tail \in Nat
      /\ t.count \in Nat /\ n \in Nat /\ r \in Nat /\ r \in 0 .. NodeSize
  BY <1>1, SplitFacts DEF TransientParts
<1>4. TransientElements(heap, t) = Holds(heap, t.root, n, heap[t.tail], t.count)
  BY <1>1, TransientElementsIs
<1>5. CASE t.count = 0
  <2>1. AsPersistent(t) = Empty
    BY <1>5 DEF AsPersistent
  <2>2. n = 0 /\ r = 0 /\ Split(0, 0, 0)
    BY <1>3, <1>5, SplitZero
  <2>3. Elements(heap, Empty) = Holds(heap, Empty.root, 0, TailArray(heap, Empty), 0)
    <3>1. Elements(heap, Empty) = Holds(heap, Empty.root, 0, TailArray(heap, Empty), Empty.count)
      BY EmptyIs, ElementsIs
    <3> QED
      BY <3>1, EmptyIs
  <2>4. Holds(heap, Empty.root, 0, TailArray(heap, Empty), 0) = Holds(heap, t.root, 0, heap[t.tail], 0)
    <3> DEFINE tree2 == Empty.root
               tail2 == TailArray(heap, Empty)
               tree == t.root
               tail == heap[t.tail]
    <3>1. SameBody(heap, tree2, heap, tree, 0) /\ SameTail(tail2, tail, 0)
      BY DEF SameBody, SameTail
    <3> HIDE DEF tree2, tail2, tree, tail
    <3>2. Holds(heap, tree2, 0, tail2, 0) = Holds(heap, tree, 0, tail, 0)
      BY <2>2, <3>1, HoldsSame
    <3> QED
      BY <3>2 DEF tree2, tail2, tree, tail
  <2>5. ArraysOf(Empty) = {} /\ VectorSound(heap, Empty)
    BY EmptyIs
  <2> QED
    BY <1>4, <1>5, <2>1, <2>2, <2>3, <2>4, <2>5
<1>6. CASE t.count # 0
  <2> DEFINE w == [count |-> t.count, height |-> t.height, root |-> t.root,
                   base |-> [array |-> t.tail, len |-> TailLen(t.count)], delta |-> <<>>]
  <2>1. AsPersistent(t) = w
    BY <1>6 DEF AsPersistent
  <2>2. TailLen(t.count) = r
    BY <1>3, SplitGives
  <2>3. /\ w.count = t.count /\ w.height = t.height /\ w.root = t.root /\ w.base.array = t.tail
        /\ w.base.len = r /\ w.delta = <<>> /\ IsVector(w)
    BY <2>2 DEF IsVector
  <2> HIDE DEF w
  <2>4. VectorParts(w, n, r)
    <3>1. <<>> \in Seq(Cells) /\ Len(<<>>) = 0 /\ r + 0 = r
      BY <1>3
    <3> QED
      BY <1>3, <2>3, <3>1 DEF VectorParts
  <2>5. ArraysOf(w) = ArraysOfTransient(t)
    BY <2>3 DEF ArraysOf, ArraysOfTransient
  <2>6. SameTail(TailArray(heap, w), heap[t.tail], r)
    <3>1. \A k \in 0 .. w.base.len - 1 : TailArray(heap, w)[k] = heap[w.base.array][k]
      BY <1>2, <2>4, <2>5, TailArrayIs
    <3> QED
      BY <2>3, <3>1 DEF SameTail
  <2>7. Holds(heap, t.root, n, TailArray(heap, w), t.count) = Holds(heap, t.root, n, heap[t.tail], t.count)
    <3>1. SameBody(heap, t.root, heap, t.root, n)
      BY DEF SameBody
    <3> QED
      BY <1>3, <2>6, <3>1, HoldsSame
  <2>8. Elements(heap, w) = Holds(heap, w.root, n, TailArray(heap, w), w.count)
    BY <2>4, ElementsIs
  <2> QED
    BY <1>2, <1>4, <2>1, <2>3, <2>4, <2>5, <2>7, <2>8 DEF VectorSound
<1> QED
  BY <1>5, <1>6

-----------------------------------------------------------------------------
(* The vector that the program starts with.                                *)

\* conjoined[n]: a transient of its own, of the elements Val(1) to Val(n).
Good(c, n) ==
  /\ IsHeap(c.heap) /\ TransientSound(c.heap, c.t) /\ c.t.count = n
  /\ TransientElements(c.heap, c.t) = [i \in 1 .. n |-> Val(i)]

\* The transient that NewPersistent starts from.
LEMMA GoodZero ==
  Good(AsTransient([a \in {} |-> <<>>], Empty), 0)
<1> DEFINE heap == [a \in {} |-> <<>>]
           c == AsTransient(heap, Empty)
<1>1. IsHeap(heap)
  <2>1. DOMAIN heap = {} /\ IsFiniteSet({})
    BY FS_EmptySet
  <2>2. heap \in [DOMAIN heap -> Contents]
    OBVIOUS
  <2> QED
    BY <2>1, <2>2 DEF IsHeap
<1> HIDE DEF heap
<1>2. MadeTransient(heap, Empty, c)
  BY <1>1, EmptyIs, AsTransientMakes
<1>3. c.t.count = 0
  BY EmptyIs DEF AsTransient
<1> HIDE DEF c
<1>4. IsHeap(c.heap) /\ TransientSound(c.heap, c.t)
  BY <1>2 DEF MadeTransient
<1>5. TransientElements(c.heap, c.t) = [i \in 1 .. 0 |-> Val(i)]
  <2>1. TransientElements(c.heap, c.t) = <<>>
    <3>1. /\ TransientElements(c.heap, c.t) \in Seq(Cells)
          /\ Len(TransientElements(c.heap, c.t)) = 0
      BY <1>3, <1>4, TransientElementsType
    <3> QED
      BY <3>1, EmptySeq
  <2>2. [i \in 1 .. 0 |-> Val(i)] = <<>>
    OBVIOUS
  <2> QED
    BY <2>1, <2>2
<1> QED
  BY <1>3, <1>4, <1>5 DEF Good, c, heap

\* One element more.
LEMMA GoodStep ==
  ASSUME NEW n \in Nat, NEW c, Good(c, n), NEW next, next = TransientConj(c.heap, c.t, Val(n + 1))
  PROVE  Good(next, n + 1)
<1> DEFINE val == Val(n + 1)
           s == TransientElements(c.heap, c.t)
           s2 == TransientElements(next.heap, next.t)
<1>1. val \in Cells /\ \A i \in 1 .. n + 1 : Val(i) \in Cells
  BY DEF Val, Cells
<1>2. IsHeap(c.heap) /\ TransientSound(c.heap, c.t) /\ c.t.count = n /\ s = [i \in 1 .. n |-> Val(i)]
  BY DEF Good
<1>3. MadeBang(c.heap, c.t, next, Append(s, val))
  <2> HIDE DEF val
  <2>1. next = TransientConj(c.heap, c.t, val)
    BY DEF val
  <2> QED
    BY <1>1, <1>2, <2>1, ConjBangMakes
<1>4. IsHeap(next.heap) /\ TransientSound(next.heap, next.t) /\ s2 = Append(s, val)
  BY <1>3 DEF MadeBang
<1>5. s \in Seq(Cells) /\ Len(s) = n
  BY <1>2, TransientElementsType
<1>6. s2 = [i \in 1 .. n + 1 |-> Val(i)]
  <2> DEFINE f == [i \in 1 .. n + 1 |-> Val(i)]
  <2>1. \A i \in 1 .. n : i \in 1 .. n + 1
    OBVIOUS
  <2>2. /\ f = [i \in 1 .. n + 1 |-> f[i]]
        /\ \A i \in 1 .. n : f[i] = s[i]
        /\ f[n + 1] = val
    BY <1>2, <2>1
  <2> HIDE DEF f, val, s
  <2>3. /\ IsTuple(f, Len(s) + 1)
        /\ \A i \in 1 .. Len(s) : f[i] = s[i]
        /\ f[Len(s) + 1] = val
    BY <1>5, <2>2 DEF IsTuple
  <2>4. s \in Seq(Cells) /\ Len(s) = n /\ val \in Cells
    BY <1>1, <1>5
  <2>5. f = Append(s, val)
    BY <2>3, <2>4, AppendIs
  <2> QED
    BY <1>4, <2>5 DEF f
<1>7. next.t.count = n + 1
  <2>1. Len(s2) = next.t.count
    BY <1>4, TransientElementsType
  <2>2. Len(s2) = n + 1
    BY <1>1, <1>4, <1>5, AppendProperties
  <2> QED
    BY <2>1, <2>2
<1> QED
  BY <1>4, <1>6, <1>7 DEF Good

\* h conjoins the first n values.
ConjoinedUpto(h, n) ==
  \A i \in 0 .. n :
    h[i] = IF i = 0 THEN AsTransient([a \in {} |-> <<>>], Empty)
           ELSE TransientConj(h[i - 1].heap, h[i - 1].t, Val(i))

\* The recursion goes on as far as one likes, ...
LEMMA ConjoinedAsFar ==
  \A n \in Nat : \E h : ConjoinedUpto(h, n)
<1> DEFINE T == {n \in Nat : ~ \E h : ConjoinedUpto(h, n)}
<1>1. ASSUME T # {}
      PROVE  FALSE
  <2>1. PICK n \in T : \A j \in T : n <= j
    <3> T \subseteq Nat
      OBVIOUS
    <3> HIDE DEF T
    <3> QED
      BY <1>1, SmallestNat
  <2>2. n \in Nat /\ ~ \E h : ConjoinedUpto(h, n)
    OBVIOUS
  <2> DEFINE base == AsTransient([a \in {} |-> <<>>], Empty)
  <2>3. CASE n = 0
    <3> DEFINE h == [i \in 0 .. 0 |-> base]
    <3>1. h[0] = base /\ \A i \in 0 .. 0 : i = 0
      OBVIOUS
    <3> HIDE DEF h
    <3>2. ConjoinedUpto(h, 0)
      BY <3>1 DEF ConjoinedUpto
    <3> QED
      BY <2>2, <2>3, <3>2
  <2>4. CASE n # 0
    <3>1. n - 1 \in Nat /\ n - 1 \notin T
      <4>1. \A j \in T : j \in Nat /\ n <= j
        BY <2>1
      <4> HIDE DEF T
      <4> QED
        BY <2>2, <2>4, <4>1
    <3>2. PICK k : ConjoinedUpto(k, n - 1)
      BY <3>1
    <3> DEFINE last == TransientConj(k[n - 1].heap, k[n - 1].t, Val(n))
               h == [i \in 0 .. n |-> IF i = n THEN last ELSE k[i]]
    <3>3. \A i \in 0 .. n : i # n => i \in 0 .. (n - 1) /\ h[i] = k[i]
      BY <2>2
    <3>4. \A i \in 0 .. n : i # 0 => i - 1 \in 0 .. n /\ i - 1 # n /\ h[i - 1] = k[i - 1]
      BY <2>2
    <3>5. h[n] = last
      BY <2>2
    <3> HIDE DEF h
    <3>6. ASSUME NEW i \in 0 .. n
          PROVE  h[i] = IF i = 0 THEN base ELSE TransientConj(h[i - 1].heap, h[i - 1].t, Val(i))
      <4> HIDE DEF base
      <4>1. CASE i = n
        BY <2>4, <3>4, <3>5, <4>1
      <4>2. CASE i # n
        <5>1. k[i] = IF i = 0 THEN base ELSE TransientConj(k[i - 1].heap, k[i - 1].t, Val(i))
          BY <3>2, <3>3, <4>2 DEF ConjoinedUpto, base
        <5> QED
          BY <3>3, <3>4, <4>2, <5>1
      <4> QED
        BY <4>1, <4>2
    <3>7. ConjoinedUpto(h, n)
      BY <3>6 DEF ConjoinedUpto
    <3> QED
      BY <2>2, <3>7
  <2> QED
    BY <2>3, <2>4
<1> QED
  BY <1>1

\* ... so that it has a solution, which is conjoined.
LEMMA ConjoinedIs == ConjoinedUpto(conjoined, MaxCount)
<1> DEFINE base == AsTransient([a \in {} |-> <<>>], Empty)
<1>1. MaxCount \in Nat
  BY VectorAssumption
<1>2. PICK h : ConjoinedUpto(h, MaxCount)
  BY <1>1, ConjoinedAsFar
<1> DEFINE c == [i \in 0 .. MaxCount |-> h[i]]
<1>3. ASSUME NEW i \in 0 .. MaxCount
      PROVE  c[i] = IF i = 0 THEN base ELSE TransientConj(c[i - 1].heap, c[i - 1].t, Val(i))
  <2>1. h[i] = IF i = 0 THEN base ELSE TransientConj(h[i - 1].heap, h[i - 1].t, Val(i))
    BY <1>2 DEF ConjoinedUpto
  <2>2. i # 0 => i - 1 \in 0 .. MaxCount
    BY <1>1
  <2>3. c[i] = h[i] /\ (i # 0 => c[i - 1] = h[i - 1])
    BY <2>2
  <2> HIDE DEF c, base
  <2> QED
    BY <2>1, <2>3
<1>4. c = [i \in 0 .. MaxCount |-> c[i]]
  OBVIOUS
<1> DEFINE IsConj(f) == f = [n \in 0 .. MaxCount |-> IF n = 0 THEN base ELSE TransientConj(f[n - 1].heap, f[n - 1].t, Val(n))]
<1> HIDE DEF base, c
<1>5. IsConj(c)
  <2>1. [i \in 0 .. MaxCount |-> c[i]] =
          [i \in 0 .. MaxCount |-> IF i = 0 THEN base ELSE TransientConj(c[i - 1].heap, c[i - 1].t, Val(i))]
    BY <1>3
  <2> QED
    BY <1>4, <2>1
<1>6. conjoined = CHOOSE f : IsConj(f)
  BY Zenon DEF conjoined, base
<1>7. IsConj(conjoined)
  <2> HIDE DEF IsConj
  <2> QED
    BY <1>5, <1>6
<1>8. \A i \in 0 .. MaxCount : conjoined[i] =
        IF i = 0 THEN base ELSE TransientConj(conjoined[i - 1].heap, conjoined[i - 1].t, Val(i))
  BY <1>7, Zenon
<1> QED
  BY <1>8 DEF ConjoinedUpto, base

\* The transients that NewPersistent makes.
LEMMA ConjoinedGood ==
  \A n \in 0 .. MaxCount : Good(conjoined[n], n)
<1> DEFINE T == {n \in Nat : n <= MaxCount /\ ~Good(conjoined[n], n)}
<1>1. MaxCount \in Nat
  BY VectorAssumption
<1>2. ASSUME T # {}
      PROVE  FALSE
  <2>1. PICK n \in T : \A j \in T : n <= j
    <3> T \subseteq Nat
      OBVIOUS
    <3> HIDE DEF T
    <3> QED
      BY <1>2, SmallestNat
  <2>2. n \in Nat /\ n <= MaxCount /\ ~Good(conjoined[n], n) /\ n \in 0 .. MaxCount
    BY <1>1
  <2> DEFINE base == AsTransient([a \in {} |-> <<>>], Empty)
             m == n - 1
  <2>3. conjoined[n] = IF n = 0 THEN base ELSE TransientConj(conjoined[m].heap, conjoined[m].t, Val(n))
    BY <2>2, ConjoinedIs DEF ConjoinedUpto
  <2>4. n # 0
    <3>1. n = 0 => Good(conjoined[n], n)
      <4>1. Good(base, 0)
        BY GoodZero
      <4> HIDE DEF base
      <4> QED
        BY <2>3, <4>1
    <3> QED
      BY <2>2, <3>1
  <2>5. m \in Nat /\ m + 1 = n /\ m \notin T /\ m <= MaxCount
    <3>1. \A j \in T : j \in Nat /\ n <= j
      BY <2>1
    <3> HIDE DEF T
    <3> QED
      BY <1>1, <2>2, <2>4, <3>1
  <2>6. Good(conjoined[m], m)
    BY <2>5
  <2>7. conjoined[n] = TransientConj(conjoined[m].heap, conjoined[m].t, Val(m + 1))
    BY <2>3, <2>4, <2>5
  <2> HIDE DEF m
  <2>8. Good(conjoined[n], m + 1)
    <3>1. PICK c : c = conjoined[m]
      OBVIOUS
    <3>2. PICK next : next = conjoined[n]
      OBVIOUS
    <3>3. Good(c, m) /\ next = TransientConj(c.heap, c.t, Val(m + 1))
      BY <2>6, <2>7, <3>1, <3>2
    <3>4. Good(next, m + 1)
      BY <2>5, <3>3, GoodStep
    <3> QED
      BY <3>2, <3>4
  <2> QED
    BY <2>2, <2>5, <2>8
<1>3. \A n \in 0 .. MaxCount : n \in Nat /\ n <= MaxCount
  BY <1>1
<1> QED
  BY <1>2, <1>3

-----------------------------------------------------------------------------
(* The invariant, of the arrays A, the vectors V, the transients T, the    *)
(* expected elements E and the damaged vectors and transients D.           *)

IsFcnOn(f, S) == f = [x \in S |-> f[x]]

SoundAt(A, V, T, h) ==
  IF h \in Slots THEN VectorSound(A, V[h]) ELSE T[h] = NoTransient \/ TransientSound(A, T[h])

\* All vectors and transients are sound and have the elements they should, and what a
\* transient has made is its own until it is sealed.
Kept(A, V, T, E, D) ==
  /\ IsHeap(A)
  /\ IsFcnOn(V, Slots) /\ IsFcnOn(T, Transients) /\ IsFcnOn(E, Holders)
  /\ \A h \in Holders : SoundAt(A, V, T, h)
  /\ \A t \in Transients :
       ~T[t].sealed => \A h \in Holders \ {t} : ArraysAt(V, T, h) \cap T[t].own = {}
  /\ \A h \in Holders \ D : ElementsAt(A, V, T, h) = E[h]

\* No array is there that nobody refers to.
Inv(A, V, T, E, D) ==
  /\ Kept(A, V, T, E, D)
  /\ DOMAIN A = Live(V, T)
  /\ \A t \in Transients : T[t].own \subseteq DOMAIN A

\* A vector is not a transient.
LEMMA HolderIs ==
  /\ \A s \in Slots : s \in Holders /\ s \notin Transients
  /\ \A t \in Transients : t \in Holders /\ t \notin Slots
  /\ \A h \in Holders : h \in Slots \/ h \in Transients
BY VectorAssumption DEF Holders

LEMMA NoTransientIs ==
  /\ ArraysOfTransient(NoTransient) = {}
  /\ NoTransient.sealed = TRUE /\ NoTransient.own = {} /\ NoTransient.tail = Nil
  /\ \A heap : TransientElements(heap, NoTransient) = <<>>
  /\ IsTransient(NoTransient)
<1>1. /\ NoTransient.sealed = TRUE /\ NoTransient.own = {} /\ NoTransient.tail = Nil
      /\ NoTransient.root = NoTree /\ NoTransient.count = 0
  BY DEF NoTransient
<1>2. ArraysOfTransient(NoTransient) = {}
  BY <1>1 DEF ArraysOfTransient, Leaves, NoTree
<1>3. ASSUME NEW heap
      PROVE  TransientElements(heap, NoTransient) = <<>>
  BY <1>1 DEF TransientElements
<1>4. IsTransient(NoTransient)
  BY DEF NoTransient, IsTransient
<1> QED
  BY <1>1, <1>2, <1>3, <1>4

\* The same, or the same but for what it owns and whether it is sealed.
Alike(u, t) ==
  \/ u = t
  \/ /\ t # NoTransient
     /\ IsTransient(u) /\ u.sealed \in BOOLEAN
     /\ u.count = t.count /\ u.height = t.height /\ u.root = t.root /\ u.tail = t.tail

LEMMA AlikeIs ==
  ASSUME NEW A, NEW t, t = NoTransient \/ TransientSound(A, t), NEW u, Alike(u, t)
  PROVE  /\ u = NoTransient \/ TransientSound(A, u)
         /\ ArraysOfTransient(u) = ArraysOfTransient(t)
         /\ TransientElements(A, u) = TransientElements(A, t)
<1>1. CASE u = t
  BY <1>1
<1>2. CASE u # t
  <2>1. /\ TransientSound(A, t) /\ IsTransient(u) /\ u.sealed \in BOOLEAN
        /\ u.count = t.count /\ u.height = t.height /\ u.root = t.root /\ u.tail = t.tail
    BY <1>2 DEF Alike
  <2>2. PICK n, r : TransientParts(t, n, r)
    BY <2>1 DEF TransientSound
  <2>3. TransientParts(u, n, r)
    BY <2>1, <2>2 DEF TransientParts
  <2>4. ArraysOfTransient(u) = ArraysOfTransient(t)
    BY <2>1 DEF ArraysOfTransient
  <2>5. TransientSound(A, u)
    BY <2>1, <2>3, <2>4 DEF TransientSound
  <2>6. /\ TransientElements(A, t) = Holds(A, t.root, n, A[t.tail], t.count)
        /\ TransientElements(A, u) = Holds(A, u.root, n, A[u.tail], u.count)
    BY <2>2, <2>3, TransientElementsIs
  <2> QED
    BY <2>1, <2>4, <2>5, <2>6
<1> QED
  BY <1>1, <1>2

\* A variable that holds the same as before.
SameAt(V2, T2, V, T, h) == IF h \in Slots THEN V2[h] = V[h] ELSE Alike(T2[h], T[h])

\* It has its elements in any heap that agrees on its arrays.
LEMMA HolderFrame ==
  ASSUME NEW A, IsHeap(A), NEW V, NEW T, NEW h, SoundAt(A, V, T, h),
         NEW B, IsHeap(B), NEW V2, NEW T2, SameAt(V2, T2, V, T, h),
         ArraysAt(V, T, h) \subseteq DOMAIN B, Agree(B, A, ArraysAt(V, T, h))
  PROVE  /\ SoundAt(B, V2, T2, h)
         /\ ElementsAt(B, V2, T2, h) = ElementsAt(A, V, T, h)
         /\ ArraysAt(V2, T2, h) = ArraysAt(V, T, h)
<1>1. CASE h \in Slots
  <2> DEFINE v == V[h]
  <2>1. /\ VectorSound(A, v) /\ V2[h] = v /\ ArraysOf(v) \subseteq DOMAIN B
        /\ Agree(B, A, ArraysOf(v))
    BY <1>1 DEF SoundAt, SameAt, ArraysAt
  <2> HIDE DEF v
  <2>2. VectorSound(B, v) /\ Elements(B, v) = Elements(A, v)
    BY <2>1, VectorFrame
  <2> QED
    BY <1>1, <2>1, <2>2 DEF SoundAt, ElementsAt, ArraysAt, v
<1>2. CASE h \notin Slots
  <2> DEFINE t == T[h]
             u == T2[h]
  <2>1. /\ t = NoTransient \/ TransientSound(A, t)
        /\ Alike(u, t) /\ ArraysOfTransient(t) \subseteq DOMAIN B
        /\ Agree(B, A, ArraysOfTransient(t))
    BY <1>2 DEF SoundAt, SameAt, ArraysAt
  <2> HIDE DEF t, u
  <2>2. /\ t = NoTransient \/ TransientSound(B, t)
        /\ TransientElements(B, t) = TransientElements(A, t)
    <3>1. CASE t = NoTransient
      BY <3>1, NoTransientIs
    <3>2. CASE TransientSound(A, t)
      BY <2>1, <3>2, TransientFrame
    <3> QED
      BY <2>1, <3>1, <3>2
  <2>3. /\ u = NoTransient \/ TransientSound(B, u)
        /\ ArraysOfTransient(u) = ArraysOfTransient(t)
        /\ TransientElements(B, u) = TransientElements(B, t)
    BY <2>1, <2>2, AlikeIs
  <2> QED
    BY <1>2, <2>2, <2>3 DEF SoundAt, ElementsAt, ArraysAt, t, u
<1> QED
  BY <1>1, <1>2

\* The arrays that somebody refers to, and no others.
LEMMA LiveIs ==
  ASSUME NEW V, NEW T
  PROVE  /\ \A h \in Holders : ArraysAt(V, T, h) \subseteq Live(V, T)
         /\ \A as : (\A h \in Holders : ArraysAt(V, T, h) \subseteq as) => Live(V, T) \subseteq as
<1>1. \A a : a \in Live(V, T) <=> \E h \in Holders : a \in ArraysAt(V, T, h)
  BY DEF Live
<1> QED
  BY <1>1

LEMMA LiveSame ==
  ASSUME NEW V, NEW T, NEW V2, NEW T2, \A h \in Holders : ArraysAt(V2, T2, h) = ArraysAt(V, T, h)
  PROVE  Live(V2, T2) = Live(V, T)
<1>1. /\ \A h \in Holders : ArraysAt(V2, T2, h) \subseteq Live(V, T)
      /\ \A h \in Holders : ArraysAt(V, T, h) \subseteq Live(V2, T2)
  BY LiveIs
<1>2. Live(V2, T2) \subseteq Live(V, T) /\ Live(V, T) \subseteq Live(V2, T2)
  BY <1>1, LiveIs
<1> QED
  BY <1>2

\* The arrays of what is sound are there.
LEMMA SoundThere ==
  ASSUME NEW A, NEW V, NEW T, NEW h, SoundAt(A, V, T, h)
  PROVE  ArraysAt(V, T, h) \subseteq DOMAIN A
BY NoTransientIs DEF SoundAt, ArraysAt, VectorSound, TransientSound

\* What a transient owns of a smaller set of arrays.
Trimmed(t, as) == [t EXCEPT !.own = @ \cap as]

LEMMA TrimmedIs ==
  ASSUME NEW A, NEW t, t = NoTransient \/ TransientSound(A, t), NEW as
  PROVE  /\ Trimmed(t, as).own = t.own \cap as /\ Trimmed(t, as).sealed = t.sealed
         /\ Alike(Trimmed(t, as), t)
<1> DEFINE own == t.own \cap as
           u == Trimmed(t, as)
<1>1. u = [t EXCEPT !.own = own]
  BY DEF Trimmed
<1>2. IsTransient(t) /\ t.sealed \in BOOLEAN
  BY NoTransientIs DEF TransientSound, TransientParts
<1>3. t = NoTransient => own = t.own
  BY NoTransientIs
<1> HIDE DEF own, u
<1>4. /\ u.own = own /\ u.sealed = t.sealed /\ u.count = t.count /\ u.height = t.height
      /\ u.root = t.root /\ u.tail = t.tail /\ IsTransient(u)
  BY <1>1, <1>2 DEF IsTransient
<1>5. t = NoTransient => u = t
  BY <1>2, <1>3, <1>4 DEF IsTransient
<1>6. Alike(u, t)
  BY <1>2, <1>4, <1>5 DEF Alike
<1> QED
  BY <1>4, <1>6 DEF own, u

\* The end of an operation: the arrays that are collected matter to nobody.
LEMMA Collected ==
  ASSUME NEW heap, NEW V, NEW ts, NEW E, NEW D, Kept(heap, V, ts, E, D),
         NEW A, A = [a \in Live(V, ts) |-> heap[a]],
         NEW T, T = [t \in Transients |-> Trimmed(ts[t], Live(V, ts))]
  PROVE  Inv(A, V, T, E, D)
<1> DEFINE live == Live(V, ts)
<1>1. IsHeap(heap) /\ \A h \in Holders : SoundAt(heap, V, ts, h)
  BY DEF Kept
<1>2. ASSUME NEW t \in Transients
      PROVE  T[t].own = ts[t].own \cap live /\ T[t].sealed = ts[t].sealed /\ Alike(T[t], ts[t])
  <2> DEFINE u == ts[t]
  <2>1. u = NoTransient \/ TransientSound(heap, u)
    BY <1>1, HolderIs DEF SoundAt
  <2>2. T[t] = Trimmed(u, live)
    OBVIOUS
  <2> HIDE DEF u, live
  <2>3. /\ Trimmed(u, live).own = u.own \cap live /\ Trimmed(u, live).sealed = u.sealed
        /\ Alike(Trimmed(u, live), u)
    BY <2>1, TrimmedIs
  <2> QED
    BY <2>2, <2>3 DEF u
<1>3. \A h \in Holders : SameAt(V, T, V, ts, h)
  BY <1>2, HolderIs DEF SameAt
<1>4. \A h \in Holders : ArraysAt(V, ts, h) \subseteq live
  BY LiveIs
<1>5. live \subseteq DOMAIN heap
  BY <1>1, SoundThere, LiveIs
<1>6. DOMAIN A = live /\ (\A a \in live : A[a] = heap[a]) /\ A = [a \in live |-> A[a]]
  OBVIOUS
<1>7. IsFcnOn(T, Transients)
  BY DEF IsFcnOn
<1> HIDE DEF live
<1>8. IsHeap(A)
  <2>1. IsFiniteSet(live) /\ live \subseteq Nat
    BY <1>1, <1>5, FS_Subset DEF IsHeap
  <2>2. \A a \in live : A[a] \in Contents
    BY <1>1, <1>5, <1>6 DEF IsHeap
  <2>3. A \in [DOMAIN A -> Contents]
    BY <1>6, <2>2
  <2> QED
    BY <1>6, <2>1, <2>3 DEF IsHeap
<1>9. ASSUME NEW h \in Holders
      PROVE  /\ SoundAt(A, V, T, h) /\ ElementsAt(A, V, T, h) = ElementsAt(heap, V, ts, h)
             /\ ArraysAt(V, T, h) = ArraysAt(V, ts, h)
  <2>1. /\ SoundAt(heap, V, ts, h) /\ SameAt(V, T, V, ts, h)
        /\ ArraysAt(V, ts, h) \subseteq DOMAIN A /\ Agree(A, heap, ArraysAt(V, ts, h))
    BY <1>1, <1>3, <1>4, <1>6 DEF Agree
  <2> QED
    BY <1>1, <1>8, <2>1, HolderFrame
<1>10. ASSUME NEW t \in Transients, ~T[t].sealed, NEW h \in Holders \ {t}
       PROVE  ArraysAt(V, T, h) \cap T[t].own = {}
  <2>1. ArraysAt(V, ts, h) \cap ts[t].own = {}
    BY <1>2, <1>10 DEF Kept
  <2> QED
    BY <1>2, <1>9, <2>1
<1>11. \A h \in Holders \ D : ElementsAt(A, V, T, h) = E[h]
  BY <1>9 DEF Kept
<1>12. Kept(A, V, T, E, D)
  BY <1>7, <1>8, <1>9, <1>10, <1>11 DEF Kept
<1>13. Live(V, T) = live
  BY <1>9, LiveSame DEF live
<1> QED
  BY <1>2, <1>6, <1>12, <1>13 DEF Inv

LEMMA ReplacedIs ==
  ASSUME NEW f, NEW S, IsFcnOn(f, S), NEW x \in S, NEW val
  PROVE  /\ IsFcnOn(Replaced(f, x, val), S) /\ Replaced(f, x, val)[x] = val
         /\ \A y \in S : y # x => Replaced(f, x, val)[y] = f[y]
BY DEF IsFcnOn, Replaced

\* All arrays are there.
LEMMA AllThere ==
  ASSUME NEW A, NEW V, NEW T, NEW E, NEW D, Inv(A, V, T, E, D)
  PROVE  /\ IsHeap(A) /\ IsFcnOn(V, Slots) /\ IsFcnOn(T, Transients) /\ IsFcnOn(E, Holders)
         /\ \A h \in Holders : SoundAt(A, V, T, h) /\ ArraysAt(V, T, h) \subseteq DOMAIN A
         /\ \A s \in Slots : VectorSound(A, V[s]) /\ ArraysOf(V[s]) \subseteq DOMAIN A
         /\ \A t \in Transients : /\ T[t] # NoTransient => TransientSound(A, T[t])
                                  /\ ArraysOfTransient(T[t]) \subseteq DOMAIN A
                                  /\ T[t].own \subseteq DOMAIN A
<1>1. /\ IsHeap(A) /\ IsFcnOn(V, Slots) /\ IsFcnOn(T, Transients) /\ IsFcnOn(E, Holders)
      /\ \A h \in Holders : SoundAt(A, V, T, h)
      /\ \A t \in Transients : T[t].own \subseteq DOMAIN A
  BY DEF Inv, Kept
<1>2. \A h \in Holders : ArraysAt(V, T, h) \subseteq DOMAIN A
  BY <1>1, SoundThere
<1> QED
  BY <1>1, <1>2, HolderIs DEF SoundAt, ArraysAt

\* One variable gets something else, and only the arrays W are written.
LEMMA HolderStep ==
  ASSUME NEW A, NEW V, NEW T, NEW E, NEW D, Inv(A, V, T, E, D), NEW x \in Holders,
         NEW heap, IsHeap(heap), DOMAIN A \subseteq DOMAIN heap,
         NEW W, \A a \in DOMAIN A : a \notin W => heap[a] = A[a],
         NEW V2, IsFcnOn(V2, Slots), NEW T2, IsFcnOn(T2, Transients),
         \A s \in Slots : s # x => V2[s] = V[s],
         \A t \in Transients : t # x => T2[t] = T[t],
         SoundAt(heap, V2, T2, x), NEW elements, ElementsAt(heap, V2, T2, x) = elements,
         \A t \in Transients \ {x} : ~T[t].sealed => ArraysAt(V2, T2, x) \cap T[t].own = {},
         x \in Transients /\ ~T2[x].sealed =>
           \A h \in Holders \ {x} : ArraysAt(V, T, h) \cap T2[x].own = {},
         NEW D2, \A h \in Holders : h \notin D2 /\ h # x =>
                   h \notin D /\ ArraysAt(V, T, h) \cap W = {}
  PROVE  Kept(heap, V2, T2, Replaced(E, x, elements), D2)
<1> DEFINE E2 == Replaced(E, x, elements)
<1>1. /\ IsHeap(A) /\ IsFcnOn(E, Holders)
      /\ \A h \in Holders : SoundAt(A, V, T, h) /\ ArraysAt(V, T, h) \subseteq DOMAIN A
  BY AllThere
<1>2. /\ IsFcnOn(E2, Holders) /\ E2[x] = elements
      /\ \A h \in Holders : h # x => E2[h] = E[h]
  BY <1>1, ReplacedIs
<1> HIDE DEF E2
<1>3. ASSUME NEW h \in Holders, h # x
      PROVE  ArraysAt(V2, T2, h) = ArraysAt(V, T, h) /\ SoundAt(heap, V2, T2, h)
  <2>1. CASE h \in Slots
    <3>1. V2[h] = V[h] /\ VectorSound(A, V[h]) /\ ArraysOf(V[h]) \subseteq DOMAIN heap
      BY <1>1, <1>3, <2>1 DEF SoundAt, ArraysAt
    <3> QED
      BY <2>1, <3>1 DEF SoundAt, ArraysAt, VectorSound
  <2>2. CASE h \notin Slots
    <3>1. /\ T2[h] = T[h] /\ (T[h] = NoTransient \/ TransientSound(A, T[h]))
          /\ ArraysOfTransient(T[h]) \subseteq DOMAIN heap
      BY <1>1, <1>3, <2>2, HolderIs DEF SoundAt, ArraysAt
    <3> QED
      BY <2>2, <3>1 DEF SoundAt, ArraysAt, TransientSound
  <2> QED
    BY <2>1, <2>2
<1>4. \A h \in Holders : SoundAt(heap, V2, T2, h)
  BY <1>3
<1>5. ASSUME NEW t \in Transients, ~T2[t].sealed, NEW h \in Holders \ {t}
      PROVE  ArraysAt(V2, T2, h) \cap T2[t].own = {}
  <2>1. CASE t = x
    BY <1>3, <1>5, <2>1
  <2>2. CASE t # x /\ h = x
    BY <1>5, <2>2
  <2>3. CASE t # x /\ h # x
    <3>1. T2[t] = T[t] /\ ArraysAt(V2, T2, h) = ArraysAt(V, T, h)
      BY <1>3, <1>5, <2>3
    <3> QED
      BY <1>5, <3>1 DEF Inv, Kept
  <2> QED
    BY <2>1, <2>2, <2>3
<1>6. ASSUME NEW h \in Holders \ D2
      PROVE  ElementsAt(heap, V2, T2, h) = E2[h]
  <2>1. CASE h = x
    BY <1>2, <2>1
  <2>2. CASE h # x
    <3>1. h \notin D /\ ArraysAt(V, T, h) \cap W = {}
      BY <1>6, <2>2
    <3>2. /\ SoundAt(A, V, T, h) /\ ArraysAt(V, T, h) \subseteq DOMAIN heap
          /\ Agree(heap, A, ArraysAt(V, T, h))
      BY <1>1, <3>1 DEF Agree
    <3>3. SameAt(V2, T2, V, T, h)
      BY <1>6, <2>2, HolderIs DEF SameAt, Alike
    <3>4. ElementsAt(heap, V2, T2, h) = ElementsAt(A, V, T, h)
      BY <1>1, <3>2, <3>3, HolderFrame
    <3>5. ElementsAt(A, V, T, h) = E[h]
      BY <1>6, <3>1 DEF Inv, Kept
    <3> QED
      BY <1>2, <1>6, <2>2, <3>4, <3>5
  <2> QED
    BY <2>1, <2>2
<1>7. Kept(heap, V2, T2, E2, D2)
  BY <1>2, <1>4, <1>5, <1>6 DEF Kept
<1> QED
  BY <1>7 DEF E2

\* A slot gets what an operation on a vector or a transient has made.
LEMMA SlotStep ==
  ASSUME NEW A, NEW V, NEW T, NEW E, NEW D, Inv(A, V, T, E, D),
         NEW to \in Slots, NEW heap, IsHeap(heap), Extends(heap, A),
         NEW w, VectorSound(heap, w), NEW elements, Elements(heap, w) = elements,
         \A t \in Transients : ~T[t].sealed => ArraysOf(w) \cap T[t].own = {}
  PROVE  Kept(heap, Replaced(V, to, w), T, Replaced(E, to, elements), D \ {to})
<1> DEFINE V2 == Replaced(V, to, w)
           D2 == D \ {to}
           W == {}
<1>1. /\ to \in Holders /\ to \notin Transients
      /\ IsFcnOn(V, Slots) /\ IsFcnOn(T, Transients)
  BY AllThere, HolderIs
<1>2. /\ IsFcnOn(V2, Slots) /\ V2[to] = w
      /\ \A s \in Slots : s # to => V2[s] = V[s]
  BY <1>1, ReplacedIs
<1>3. DOMAIN A \subseteq DOMAIN heap /\ \A a \in DOMAIN A : a \notin W => heap[a] = A[a]
  BY DEF Extends, Agree
<1>4. \A h \in Holders : h \notin D2 /\ h # to => h \notin D /\ ArraysAt(V, T, h) \cap W = {}
  OBVIOUS
<1> HIDE DEF V2, D2, W
<1>5. /\ SoundAt(heap, V2, T, to) /\ ElementsAt(heap, V2, T, to) = elements
      /\ ArraysAt(V2, T, to) = ArraysOf(w)
  BY <1>2 DEF SoundAt, ElementsAt, ArraysAt
<1>6. Kept(heap, V2, T, Replaced(E, to, elements), D2)
  BY <1>1, <1>2, <1>3, <1>4, <1>5, HolderStep
<1> QED
  BY <1>6 DEF V2, D2

\* An operation on a persistent vector fills a slot.
LEMMA PersistentStep ==
  ASSUME NEW A, NEW V, NEW T, NEW E, NEW D, Inv(A, V, T, E, D),
         NEW from \in Slots, NEW to \in Slots, NEW result, NEW elements,
         Made(A, ArraysOf(V[from]), result, elements)
  PROVE  Kept(result.heap, Replaced(V, to, result.v), T, Replaced(E, to, elements), D \ {to})
<1> DEFINE heap == result.heap
           w == result.v
<1>1. /\ IsHeap(heap) /\ Extends(heap, A) /\ VectorSound(heap, w) /\ Elements(heap, w) = elements
      /\ \A a \in ArraysOf(w) : a \in ArraysOf(V[from]) \/ a \notin DOMAIN A
  BY DEF Made
<1>2. ASSUME NEW t \in Transients, ~T[t].sealed
      PROVE  ArraysOf(w) \cap T[t].own = {}
  <2>1. T[t].own \subseteq DOMAIN A
    BY AllThere
  <2>2. ArraysAt(V, T, from) \cap T[t].own = {}
    BY <1>2, HolderIs DEF Inv, Kept
  <2>3. ArraysAt(V, T, from) = ArraysOf(V[from])
    BY DEF ArraysAt
  <2> QED
    BY <1>1, <2>1, <2>2, <2>3
<1> HIDE DEF heap, w
<1>3. Kept(heap, Replaced(V, to, w), T, Replaced(E, to, elements), D \ {to})
  BY <1>1, <1>2, SlotStep
<1> QED
  BY <1>3 DEF heap, w

Sealed(t) == [t EXCEPT !.sealed = TRUE]

\* A transient is sealed.
LEMMA SealStep ==
  ASSUME NEW A, NEW V, NEW T, NEW E, NEW D, Inv(A, V, T, E, D), NEW t \in Transients,
         T[t] # NoTransient
  PROVE  Inv(A, V, Replaced(T, t, Sealed(T[t])), E, D)
<1> DEFINE old == T[t]
           u == Sealed(old)
           T2 == Replaced(T, t, u)
<1>1. /\ IsHeap(A) /\ IsFcnOn(V, Slots) /\ IsFcnOn(T, Transients) /\ IsFcnOn(E, Holders)
      /\ \A h \in Holders : SoundAt(A, V, T, h) /\ ArraysAt(V, T, h) \subseteq DOMAIN A
      /\ TransientSound(A, old)
  BY AllThere
<1>2. /\ IsFcnOn(T2, Transients) /\ T2[t] = u
      /\ \A s \in Transients : s # t => T2[s] = T[s]
  BY <1>1, ReplacedIs
<1>3. IsTransient(old)
  BY <1>1 DEF TransientSound, TransientParts
<1>4. u = [old EXCEPT !.sealed = TRUE]
  BY DEF Sealed
<1> HIDE DEF u, T2, old
<1>5. /\ u.sealed = TRUE /\ u.own = old.own /\ u.count = old.count /\ u.height = old.height
      /\ u.root = old.root /\ u.tail = old.tail /\ IsTransient(u)
  BY <1>3, <1>4 DEF IsTransient
<1>6. Alike(u, old)
  BY <1>5 DEF Alike, old
<1>7. \A h \in Holders : SameAt(V, T2, V, T, h)
  BY <1>2, <1>6, HolderIs DEF SameAt, Alike, old
<1>8. ASSUME NEW h \in Holders
      PROVE  /\ SoundAt(A, V, T2, h) /\ ElementsAt(A, V, T2, h) = ElementsAt(A, V, T, h)
             /\ ArraysAt(V, T2, h) = ArraysAt(V, T, h)
  <2>1. Agree(A, A, ArraysAt(V, T, h))
    BY DEF Agree
  <2>2. SoundAt(A, V, T, h) /\ ArraysAt(V, T, h) \subseteq DOMAIN A /\ SameAt(V, T2, V, T, h)
    BY <1>1, <1>7
  <2> QED
    BY <1>1, <2>1, <2>2, HolderFrame
<1>9. ASSUME NEW s \in Transients, ~T2[s].sealed, NEW h \in Holders \ {s}
      PROVE  ArraysAt(V, T2, h) \cap T2[s].own = {}
  <2>1. s # t
    BY <1>2, <1>5, <1>9
  <2>2. T2[s] = T[s]
    BY <1>2, <2>1
  <2>3. ArraysAt(V, T, h) \cap T[s].own = {}
    BY <1>9, <2>2 DEF Inv, Kept
  <2> QED
    BY <1>8, <2>2, <2>3
<1>10. \A h \in Holders \ D : ElementsAt(A, V, T2, h) = E[h]
  BY <1>8 DEF Inv, Kept
<1>11. Kept(A, V, T2, E, D)
  BY <1>1, <1>2, <1>8, <1>9, <1>10 DEF Kept
<1>12. DOMAIN A = Live(V, T2)
  BY <1>8, LiveSame DEF Inv
<1>13. \A s \in Transients : T2[s].own \subseteq DOMAIN A
  BY <1>2, <1>5 DEF Inv, old
<1>14. Inv(A, V, T2, E, D)
  BY <1>11, <1>12, <1>13 DEF Inv
<1> QED
  BY <1>14 DEF T2, u, old

\* Persistent fills a slot and ends the transient.
LEMMA PersistentBangStep ==
  ASSUME NEW A, NEW V, NEW T, NEW E, NEW D, Inv(A, V, T, E, D), NEW t \in Transients,
         T[t] # NoTransient, NEW to \in Slots
  PROVE  Kept(A, Replaced(V, to, AsPersistent(T[t])), Replaced(T, t, Sealed(T[t])),
              Replaced(E, to, TransientElements(A, T[t])), D \ {to})
<1> DEFINE w == AsPersistent(T[t])
           T2 == Replaced(T, t, Sealed(T[t]))
           elements == TransientElements(A, T[t])
<1>1. IsHeap(A) /\ TransientSound(A, T[t]) /\ IsFcnOn(T, Transients)
  BY AllThere
<1>2. VectorSound(A, w) /\ Elements(A, w) = elements /\ ArraysOf(w) \subseteq ArraysOfTransient(T[t])
  BY <1>1, AsPersistentMakes
<1>3. Inv(A, V, T2, E, D)
  BY SealStep
<1>4. Extends(A, A)
  BY ExtendsSame
<1>5. /\ T2[t] = Sealed(T[t])
      /\ \A s \in Transients : s # t => T2[s] = T[s]
  BY <1>1, ReplacedIs
<1>6. T2[t].sealed = TRUE
  <2>1. PICK n, r : TransientParts(T[t], n, r)
    BY <1>1 DEF TransientSound
  <2> QED
    BY <1>5, <2>1 DEF TransientParts, IsTransient, Sealed
<1> HIDE DEF w, T2, elements
<1>7. ASSUME NEW s \in Transients, ~T2[s].sealed
      PROVE  ArraysOf(w) \cap T2[s].own = {}
  <2>1. s # t /\ T2[s] = T[s]
    BY <1>5, <1>6, <1>7
  <2>2. ArraysAt(V, T, t) \cap T[s].own = {}
    BY <1>7, <2>1, HolderIs DEF Inv, Kept
  <2>3. ArraysAt(V, T, t) = ArraysOfTransient(T[t])
    BY HolderIs DEF ArraysAt
  <2> QED
    BY <1>2, <2>1, <2>2, <2>3
<1>8. Kept(A, Replaced(V, to, w), T2, Replaced(E, to, elements), D \ {to})
  BY <1>1, <1>2, <1>3, <1>4, <1>7, SlotStep
<1> QED
  BY <1>8 DEF w, T2, elements

\* The others that a transient damages.
Hurt(V, T, t, written) == {h \in Holders \ {t} : ArraysAt(V, T, h) \cap (written \ T[t].own) # {}}

\* A transient has written into an array: of the others only those that have it, if the
\* transient has not made it.
LEMMA TransientStep ==
  ASSUME NEW A, NEW V, NEW T, NEW E, NEW D, Inv(A, V, T, E, D),
         NEW t \in Transients, ~T[t].sealed,
         NEW result, NEW elements, MadeBang(A, T[t], result, elements)
  PROVE  Kept(result.heap, V, Replaced(T, t, result.t), Replaced(E, t, elements),
              (D \ {t}) \cup Hurt(V, T, t, result.written))
<1> DEFINE heap == result.heap
           u == result.t
           written == result.written
           T2 == Replaced(T, t, u)
           D2 == (D \ {t}) \cup Hurt(V, T, t, written)
<1>1. /\ IsFcnOn(V, Slots) /\ IsFcnOn(T, Transients)
      /\ \A h \in Holders : ArraysAt(V, T, h) \subseteq DOMAIN A
      /\ \A s \in Transients : T[s].own \subseteq DOMAIN A
  BY AllThere
<1>2. /\ IsHeap(heap) /\ DOMAIN A \subseteq DOMAIN heap
      /\ \A a \in DOMAIN A : a \notin written => heap[a] = A[a]
      /\ TransientSound(heap, u) /\ u.sealed = T[t].sealed
      /\ \A a \in ArraysOfTransient(u) : a \in ArraysOfTransient(T[t]) \/ a \notin DOMAIN A
      /\ \A a \in u.own : a \in T[t].own \/ a \notin DOMAIN A
      /\ TransientElements(heap, u) = elements
  BY DEF MadeBang
<1>3. /\ IsFcnOn(T2, Transients) /\ T2[t] = u
      /\ \A s \in Transients : s # t => T2[s] = T[s]
  BY <1>1, ReplacedIs
<1>4. t \in Holders /\ t \notin Slots
  BY HolderIs
<1>5. \A h \in Holders \ {t} : ArraysAt(V, T, h) \cap T[t].own = {}
  BY DEF Inv, Kept
<1>6. ASSUME NEW h \in Holders, h \notin D2, h # t
      PROVE  h \notin D /\ ArraysAt(V, T, h) \cap written = {}
  BY <1>5, <1>6 DEF Hurt
<1> HIDE DEF heap, u, written, T2, D2
<1>7. /\ SoundAt(heap, V, T2, t) /\ ElementsAt(heap, V, T2, t) = elements
      /\ ArraysAt(V, T2, t) = ArraysOfTransient(u) /\ ArraysAt(V, T, t) = ArraysOfTransient(T[t])
  BY <1>2, <1>3, <1>4 DEF SoundAt, ElementsAt, ArraysAt
<1>8. ASSUME NEW s \in Transients \ {t}, ~T[s].sealed
      PROVE  ArraysAt(V, T2, t) \cap T[s].own = {}
  <2>1. ArraysAt(V, T, t) \cap T[s].own = {}
    BY <1>4, <1>8 DEF Inv, Kept
  <2> QED
    BY <1>1, <1>2, <1>7, <2>1
<1>9. \A h \in Holders \ {t} : ArraysAt(V, T, h) \cap T2[t].own = {}
  BY <1>1, <1>2, <1>3, <1>5
<1>10. /\ \A h \in Holders : h \notin D2 /\ h # t =>
            h \notin D /\ ArraysAt(V, T, h) \cap written = {}
       /\ \A s \in Transients \ {t} : ~T[s].sealed => ArraysAt(V, T2, t) \cap T[s].own = {}
       /\ t \in Transients /\ ~T2[t].sealed =>
            \A h \in Holders \ {t} : ArraysAt(V, T, h) \cap T2[t].own = {}
       /\ \A s \in Slots : s # t => V[s] = V[s]
  BY <1>6, <1>8, <1>9
<1>11. Kept(heap, V, T2, Replaced(E, t, elements), D2)
  BY <1>1, <1>2, <1>3, <1>4, <1>7, <1>10, HolderStep
<1> QED
  BY <1>11 DEF heap, u, written, T2, D2

\* What was in the place of the new transient is forgotten.
LEMMA NewTransientStep ==
  ASSUME NEW A, NEW V, NEW T, NEW E, NEW D, Inv(A, V, T, E, D), NEW from \in Slots,
         NEW to \in Transients, NEW result, MadeTransient(A, V[from], result)
  PROVE  Kept(result.heap, V, Replaced(T, to, result.t), Replaced(E, to, Elements(A, V[from])),
              D \ {to})
<1> DEFINE heap == result.heap
           u == result.t
           elements == Elements(A, V[from])
           T2 == Replaced(T, to, u)
           D2 == D \ {to}
           W == {}
<1>1. /\ IsFcnOn(V, Slots) /\ IsFcnOn(T, Transients)
      /\ \A h \in Holders : ArraysAt(V, T, h) \subseteq DOMAIN A
      /\ \A s \in Transients : T[s].own \subseteq DOMAIN A
  BY AllThere
<1>2. /\ IsHeap(heap) /\ Extends(heap, A) /\ TransientSound(heap, u)
      /\ \A a \in ArraysOfTransient(u) : a \in ArraysOf(V[from]) \/ a \notin DOMAIN A
      /\ \A a \in u.own : a \notin DOMAIN A
      /\ TransientElements(heap, u) = elements
  BY DEF MadeTransient
<1>3. /\ IsFcnOn(T2, Transients) /\ T2[to] = u
      /\ \A s \in Transients : s # to => T2[s] = T[s]
  BY <1>1, ReplacedIs
<1>4. /\ to \in Holders /\ to \notin Slots /\ from \in Holders /\ from \notin Transients
  BY HolderIs
<1>5. DOMAIN A \subseteq DOMAIN heap /\ \A a \in DOMAIN A : a \notin W => heap[a] = A[a]
  BY <1>2 DEF Extends, Agree
<1>6. \A h \in Holders : h \notin D2 /\ h # to => h \notin D /\ ArraysAt(V, T, h) \cap W = {}
  OBVIOUS
<1> HIDE DEF heap, u, elements, T2, D2, W
<1>7. /\ SoundAt(heap, V, T2, to) /\ ElementsAt(heap, V, T2, to) = elements
      /\ ArraysAt(V, T2, to) = ArraysOfTransient(u) /\ ArraysAt(V, T, from) = ArraysOf(V[from])
  BY <1>2, <1>3, <1>4 DEF SoundAt, ElementsAt, ArraysAt
<1>8. ASSUME NEW s \in Transients \ {to}, ~T[s].sealed
      PROVE  ArraysAt(V, T2, to) \cap T[s].own = {}
  <2>1. ArraysAt(V, T, from) \cap T[s].own = {}
    BY <1>4, <1>8 DEF Inv, Kept
  <2> QED
    BY <1>1, <1>2, <1>7, <2>1
<1>9. \A h \in Holders \ {to} : ArraysAt(V, T, h) \cap T2[to].own = {}
  BY <1>1, <1>2, <1>3
<1>10. Kept(heap, V, T2, Replaced(E, to, elements), D2)
  BY <1>1, <1>2, <1>3, <1>4, <1>5, <1>6, <1>7, <1>8, <1>9, HolderStep
<1> QED
  BY <1>10 DEF heap, u, elements, T2, D2

-----------------------------------------------------------------------------
(* The initial states.                                                     *)

FirstVector(n) == IF n = 0 THEN Empty ELSE AsPersistent(conjoined[n].t)
FirstVectors(v, first) == [s \in Slots |-> IF s = first THEN v ELSE Empty]
FirstArrays(n, v) == [a \in ArraysOf(v) |-> conjoined[n].heap[a]]
FirstExpected(n, v, V) ==
  [h \in Holders |-> IF h \in Slots /\ V[h] = v THEN [i \in 1 .. n |-> Val(i)] ELSE <<>>]
NoTransients == [t \in Transients |-> NoTransient]

\* NewPersistent, and empty vectors.
LEMMA InitStep ==
  ASSUME NEW n \in 0 .. MaxCount, NEW v, v = FirstVector(n), NEW first \in Slots,
         NEW V, V = FirstVectors(v, first), NEW A, A = FirstArrays(n, v),
         NEW E, E = FirstExpected(n, v, V)
  PROVE  Inv(A, V, NoTransients, E, {})
<1> DEFINE heap == conjoined[n].heap
           elements == [i \in 1 .. n |-> Val(i)]
<1> USE DEF FirstVector, FirstVectors, FirstArrays, FirstExpected
<1>1. Good(conjoined[n], n)
  BY ConjoinedGood
<1>2. /\ IsHeap(heap) /\ TransientSound(heap, conjoined[n].t) /\ conjoined[n].t.count = n
      /\ TransientElements(heap, conjoined[n].t) = elements
  BY <1>1 DEF Good
<1>3. A = [a \in ArraysOf(v) |-> heap[a]]
  OBVIOUS
<1>4. n = 0 => elements = <<>>
  OBVIOUS
<1>5. /\ IsFcnOn(E, Holders) /\ \A t \in Transients : E[t] = <<>>
      /\ \A s \in Slots : V[s] = v => E[s] = elements
      /\ \A s \in Slots : V[s] # v => E[s] = <<>>
  BY HolderIs DEF IsFcnOn
<1>6. IsFcnOn(V, Slots) /\ \A s \in Slots : V[s] = v \/ V[s] = Empty
  BY DEF IsFcnOn
<1>7. V[first] = v
  OBVIOUS
<1>8. v = AsPersistent(conjoined[n].t)
  BY <1>2 DEF AsPersistent
<1> HIDE DEF heap, elements, FirstVector, FirstVectors, FirstArrays, FirstExpected
<1>9. /\ VectorSound(heap, v) /\ Elements(heap, v) = elements
  BY <1>2, <1>8, AsPersistentMakes
<1>10. /\ DOMAIN A = ArraysOf(v) /\ ArraysOf(v) \subseteq DOMAIN heap
       /\ Agree(A, heap, ArraysOf(v))
  BY <1>3, <1>9 DEF Agree, VectorSound
<1>11. IsHeap(A)
  <2>1. IsFiniteSet(DOMAIN A) /\ DOMAIN A \subseteq Nat
    BY <1>2, <1>10, FS_Subset DEF IsHeap
  <2>2. \A a \in DOMAIN A : A[a] \in Contents
    BY <1>2, <1>10 DEF IsHeap, Agree
  <2>3. A \in [DOMAIN A -> Contents]
    <3>1. A = [a \in DOMAIN A |-> A[a]]
      BY <1>3
    <3> QED
      BY <2>2, <3>1
  <2> QED
    BY <2>1, <2>3 DEF IsHeap
<1>12. VectorSound(A, v) /\ Elements(A, v) = elements
  BY <1>2, <1>9, <1>10, <1>11, VectorFrame
<1>13. VectorSound(A, Empty) /\ ArraysOf(Empty) = {} /\ Elements(A, Empty) = <<>>
  <2>1. VectorSound(A, Empty) /\ ArraysOf(Empty) = {} /\ Empty.count = 0
    BY EmptyIs
  <2>2. Elements(A, Empty) = <<>>
    BY <2>1 DEF Elements
  <2> QED
    BY <2>1, <2>2
<1>14. \A s \in Slots : VectorSound(A, V[s]) /\ Elements(A, V[s]) = E[s]
  BY <1>5, <1>6, <1>12, <1>13
<1>15. /\ ArraysOfTransient(NoTransient) = {} /\ NoTransient.sealed = TRUE /\ NoTransient.own = {}
       /\ TransientElements(A, NoTransient) = <<>>
  BY NoTransientIs
<1> DEFINE T == NoTransients
<1>16. IsFcnOn(T, Transients) /\ \A t \in Transients : T[t] = NoTransient
  BY DEF NoTransients, IsFcnOn
<1> HIDE DEF T
<1>17. ASSUME NEW h \in Holders
       PROVE  /\ SoundAt(A, V, T, h) /\ ElementsAt(A, V, T, h) = E[h]
              /\ ArraysAt(V, T, h) \subseteq ArraysOf(v)
  <2>1. CASE h \in Slots
    BY <1>6, <1>13, <1>14, <2>1 DEF SoundAt, ElementsAt, ArraysAt
  <2>2. CASE h \in Transients
    BY <1>5, <1>15, <1>16, <2>2, HolderIs DEF SoundAt, ElementsAt, ArraysAt
  <2> QED
    BY <2>1, <2>2, HolderIs
<1>18. DOMAIN A = Live(V, T)
  <2>1. Live(V, T) \subseteq ArraysOf(v)
    BY <1>17, LiveIs
  <2>2. first \in Holders /\ ArraysAt(V, T, first) = ArraysOf(v)
    BY <1>7, HolderIs DEF ArraysAt
  <2>3. ArraysAt(V, T, first) \subseteq Live(V, T)
    BY <2>2, LiveIs
  <2> QED
    BY <1>10, <2>1, <2>2, <2>3
<1>19. Kept(A, V, T, E, {})
  BY <1>5, <1>6, <1>11, <1>15, <1>16, <1>17 DEF Kept
<1>20. Inv(A, V, T, E, {})
  BY <1>15, <1>16, <1>18, <1>19 DEF Inv
<1> QED
  BY <1>20 DEF T

-----------------------------------------------------------------------------
(* The steps.                                                              *)

IInv == Inv(arrays, vectors, trans, expected, damaged) /\ ops \in Nat

\* The end of an operation, as an action.
LEMMA CommitKeeps ==
  ASSUME NEW heap, NEW V, NEW ts, NEW E, NEW hurt, Kept(heap, V, ts, E, hurt),
         ops \in Nat, Commit(heap, V, ts, hurt), expected' = E
  PROVE  IInv'
<1> DEFINE live == Live(V, ts)
<1>1. /\ vectors' = V /\ arrays' = [a \in live |-> heap[a]]
      /\ trans' = [t \in Transients |-> Trimmed(ts[t], live)] /\ damaged' = hurt
      /\ ops' \in Nat
  BY DEF Commit, Trimmed
<1>2. Inv(arrays', V, trans', E, damaged')
  BY <1>1, Collected
<1> QED
  BY <1>1, <1>2 DEF IInv

\* What an operation starts from are the elements that are there.
LEMMA GivenElements ==
  ASSUME IInv, NEW h \in Holders
  PROVE  Given(h) = ElementsAt(arrays, vectors, trans, h)
BY DEF IInv, Inv, Kept, Given

LEMMA NewValIs ==
  ASSUME ops \in Nat
  PROVE  NewVal \in Cells
BY DEF NewVal, Cells

\* An operation on a persistent vector keeps the invariant.
LEMMA PersistentOpKeeps ==
  ASSUME IInv, NEW from \in Slots, NEW to \in Slots, NEW result, NEW elements,
         Made(arrays, ArraysOf(vectors[from]), result, elements), PersistentOp(to, result, elements)
  PROVE  IInv'
<1> DEFINE V == Replaced(vectors, to, result.v)
           E == Replaced(expected, to, elements)
           D == damaged \ {to}
<1>1. Kept(result.heap, V, trans, E, D)
  BY PersistentStep DEF IInv
<1>2. Commit(result.heap, V, trans, D) /\ expected' = E /\ ops \in Nat
  BY DEF PersistentOp, IInv, Replaced
<1> HIDE DEF V, E, D
<1> QED
  BY <1>1, <1>2, CommitKeeps

\* An operation on a transient keeps the invariant.
LEMMA TransientOpKeeps ==
  ASSUME IInv, NEW t \in Transients, NEW result, NEW elements,
         MadeBang(arrays, trans[t], result, elements), TransientOp(t, result, elements)
  PROVE  IInv'
<1> DEFINE T == Replaced(trans, t, result.t)
           E == Replaced(expected, t, elements)
           D == (damaged \ {t}) \cup Hurt(vectors, trans, t, result.written)
<1>1. Kept(result.heap, vectors, T, E, D)
  BY TransientStep DEF IInv, TransientOp, EnsureEditable
<1>2. Commit(result.heap, vectors, T, D) /\ expected' = E /\ ops \in Nat
  BY DEF TransientOp, IInv, Replaced, Damages, Hurt
<1> HIDE DEF T, D, E
<1> QED
  BY <1>1, <1>2, CommitKeeps

\* Where an element may be put.
LEMMA PutIs ==
  ASSUME NEW count, NEW i \in Positions, MayPut(count, i)
  PROVE  i \in Nat /\ i <= count
BY VectorAssumption DEF MayPut

LEMMA InitInvariant == Init => IInv
<1> SUFFICES ASSUME Init PROVE IInv
  OBVIOUS
<1>1. PICK n \in Sizes :
        LET v == IF n = 0 THEN Empty ELSE AsPersistent(conjoined[n].t)
        IN /\ vectors \in {[s \in Slots |-> IF s = first THEN v ELSE Empty] : first \in Slots}
           /\ arrays = [a \in ArraysOf(v) |-> conjoined[n].heap[a]]
           /\ trans = [t \in Transients |-> NoTransient]
           /\ expected = [h \in Holders |->
                            IF h \in Slots /\ vectors[h] = v THEN [i \in 1 .. n |-> Val(i)] ELSE <<>>]
           /\ damaged = {}
           /\ ops = 0
  BY DEF Init
<1> DEFINE v == FirstVector(n)
<1>2. v = FirstVector(n)
  OBVIOUS
<1>3. PICK first \in Slots : vectors = FirstVectors(v, first)
  BY <1>1 DEF FirstVector, FirstVectors
<1>4. /\ arrays = FirstArrays(n, v) /\ trans = NoTransients
      /\ expected = FirstExpected(n, v, vectors)
      /\ damaged = {} /\ ops \in Nat
  BY <1>1 DEF FirstVector, FirstArrays, FirstExpected, NoTransients
<1>5. n \in 0 .. MaxCount
  BY VectorAssumption
<1> HIDE DEF v
<1>6. Inv(arrays, vectors, NoTransients, expected, {})
  BY <1>2, <1>3, <1>4, <1>5, InitStep
<1> QED
  BY <1>4, <1>6 DEF IInv

\* An operation on a persistent vector, with what it makes.
PersistentStepOf(from, to) ==
  \E result, elements : /\ Made(arrays, ArraysOf(vectors[from]), result, elements)
                        /\ PersistentOp(to, result, elements)

\* An operation on a transient, with what it makes.
TransientStepOf(t) ==
  \E result, elements : /\ MadeBang(arrays, trans[t], result, elements)
                        /\ TransientOp(t, result, elements)

NewTransientStepOf(from, to) ==
  \E result : /\ MadeTransient(arrays, vectors[from], result)
              /\ Commit(result.heap, vectors, Replaced(trans, to, result.t), damaged \ {to})
              /\ expected' = Replaced(expected, to, Elements(arrays, vectors[from]))

PersistentBangStepOf(t, to) ==
  /\ trans[t] # NoTransient
  /\ Commit(arrays, Replaced(vectors, to, AsPersistent(trans[t])),
            Replaced(trans, t, Sealed(trans[t])), damaged \ {to})
  /\ expected' = Replaced(expected, to, TransientElements(arrays, trans[t]))

\* Every step is one of four kinds.
LEMMA NextMakes ==
  ASSUME IInv, Next
  PROVE  \/ \E from, to \in Slots : PersistentStepOf(from, to)
         \/ \E from \in Slots, to \in Transients : NewTransientStepOf(from, to)
         \/ \E t \in Transients, to \in Slots : PersistentBangStepOf(t, to)
         \/ \E t \in Transients : TransientStepOf(t)
<1>1. /\ IsHeap(arrays) /\ \A s \in Slots : VectorSound(arrays, vectors[s])
      /\ \A t \in Transients : trans[t] # NoTransient => TransientSound(arrays, trans[t])
  BY AllThere DEF IInv
<1>2. NewVal \in Cells
  BY NewValIs DEF IInv
<1>3. \A t \in Transients : ~trans[t].sealed => TransientSound(arrays, trans[t])
  BY <1>1, NoTransientIs
<1>4. /\ \A s \in Slots : Given(s) = Elements(arrays, vectors[s])
      /\ \A t \in Transients : Given(t) = TransientElements(arrays, trans[t])
  BY GivenElements, HolderIs DEF ElementsAt
<1>5. ASSUME NEW from \in Slots, NEW to \in Slots, Cons(from, to)
      PROVE  PersistentStepOf(from, to)
  <2> DEFINE v == vectors[from]
             result == Conj(arrays, v, NewVal)
             elements == Append(Given(from), NewVal)
  <2>1. PersistentOp(to, result, elements)
    BY <1>5 DEF Cons
  <2>2. Made(arrays, ArraysOf(v), result, Append(Elements(arrays, v), NewVal))
    <3>1. VectorSound(arrays, v)
      BY <1>1
    <3> HIDE DEF v
    <3> QED
      BY <1>1, <1>2, <3>1, ConjMakes
  <2>3. Made(arrays, ArraysOf(v), result, elements)
    BY <1>4, <2>2
  <2> HIDE DEF result, elements, v
  <2>4. Made(arrays, ArraysOf(vectors[from]), result, elements)
    BY <2>3 DEF v
  <2> QED
    BY <2>1, <2>4 DEF PersistentStepOf
<1>6. ASSUME NEW from \in Slots, NEW to \in Slots, NEW i \in Positions, AssocN(from, to, i)
      PROVE  PersistentStepOf(from, to)
  <2> DEFINE v == vectors[from]
             result == Assoc(arrays, v, i, NewVal)
             elements == Put(Given(from), i, NewVal)
  <2>1. PersistentOp(to, result, elements) /\ MayPut(v.count, i)
    BY <1>6 DEF AssocN
  <2>2. Made(arrays, ArraysOf(v), result, Put(Elements(arrays, v), i, NewVal))
    <3>1. VectorSound(arrays, v) /\ i \in Nat /\ i <= v.count
      BY <1>1, <2>1, PutIs
    <3> HIDE DEF v
    <3> QED
      BY <1>1, <1>2, <3>1, AssocMakes
  <2>3. Made(arrays, ArraysOf(v), result, elements)
    BY <1>4, <2>2
  <2> HIDE DEF result, elements, v
  <2>4. Made(arrays, ArraysOf(vectors[from]), result, elements)
    BY <2>3 DEF v
  <2> QED
    BY <2>1, <2>4 DEF PersistentStepOf
<1>7. ASSUME NEW from \in Slots, NEW to \in Slots, ReplaceLastOf(from, to)
      PROVE  PersistentStepOf(from, to)
  <2> DEFINE v == vectors[from]
             result == ReplaceLast(arrays, v, NewVal)
             elements == Replaced(Given(from), v.count, NewVal)
  <2>1. PersistentOp(to, result, elements) /\ v.count > 0
    BY <1>7 DEF ReplaceLastOf, Replaced
  <2>2. Made(arrays, ArraysOf(v), result, Replaced(Elements(arrays, v), v.count, NewVal))
    <3>1. VectorSound(arrays, v)
      BY <1>1
    <3> HIDE DEF v
    <3> QED
      BY <1>1, <1>2, <2>1, <3>1, ReplaceLastMakes
  <2>3. Made(arrays, ArraysOf(v), result, elements)
    BY <1>4, <2>2
  <2> HIDE DEF result, elements, v
  <2>4. Made(arrays, ArraysOf(vectors[from]), result, elements)
    BY <2>3 DEF v
  <2> QED
    BY <2>1, <2>4 DEF PersistentStepOf
<1>8. ASSUME NEW from \in Slots, NEW to \in Slots, PopOf(from, to)
      PROVE  PersistentStepOf(from, to)
  <2> DEFINE v == vectors[from]
             result == Pop(arrays, v)
             elements == WithoutLast(Given(from))
  <2>1. PersistentOp(to, result, elements) /\ v.count > 0
    BY <1>8 DEF PopOf
  <2>2. Made(arrays, ArraysOf(v), result, WithoutLast(Elements(arrays, v)))
    <3>1. VectorSound(arrays, v)
      BY <1>1
    <3> HIDE DEF v
    <3> QED
      BY <1>1, <2>1, <3>1, PopMakes
  <2>3. Made(arrays, ArraysOf(v), result, elements)
    BY <1>4, <2>2
  <2> HIDE DEF result, elements, v
  <2>4. Made(arrays, ArraysOf(vectors[from]), result, elements)
    BY <2>3 DEF v
  <2> QED
    BY <2>1, <2>4 DEF PersistentStepOf
<1>9. ASSUME NEW from \in Slots, NEW to \in Transients, NewTransient(from, to)
      PROVE  NewTransientStepOf(from, to)
  <2> DEFINE v == vectors[from]
             result == AsTransient(arrays, v)
             T == Replaced(trans, to, result.t)
             E == Replaced(expected, to, Elements(arrays, v))
  <2>1. /\ Commit(result.heap, vectors, T, damaged \ {to}) /\ expected' = E
    BY <1>4, <1>9 DEF NewTransient, Replaced
  <2>2. MadeTransient(arrays, v, result)
    <3>1. VectorSound(arrays, v)
      BY <1>1
    <3> HIDE DEF v
    <3> QED
      BY <1>1, <3>1, AsTransientMakes
  <2> HIDE DEF result
  <2> QED
    BY <2>1, <2>2 DEF NewTransientStepOf
<1>10. ASSUME NEW t \in Transients, NEW to \in Slots, PersistentBang(t, to)
       PROVE  PersistentBangStepOf(t, to)
  BY <1>4, <1>10 DEF PersistentBang, PersistentBangStepOf, Replaced, Sealed
<1>11. ASSUME NEW t \in Transients, ConjBang(t)
       PROVE  TransientStepOf(t)
  <2> DEFINE u == trans[t]
             result == TransientConj(arrays, u, NewVal)
             elements == Append(Given(t), NewVal)
  <2>1. TransientOp(t, result, elements)
    BY <1>11 DEF ConjBang
  <2>2. TransientSound(arrays, u) /\ Given(t) = TransientElements(arrays, u)
    BY <1>3, <1>4, <2>1 DEF TransientOp, EnsureEditable
  <2>3. MadeBang(arrays, u, result, Append(TransientElements(arrays, u), NewVal))
    <3> HIDE DEF u
    <3> QED
      BY <1>1, <1>2, <2>2, ConjBangMakes
  <2>4. MadeBang(arrays, u, result, elements)
    BY <2>2, <2>3
  <2> HIDE DEF result, elements
  <2> QED
    BY <2>1, <2>4 DEF TransientStepOf
<1>12. ASSUME NEW t \in Transients, NEW i \in Positions, AssocBang(t, i)
       PROVE  TransientStepOf(t)
  <2> DEFINE u == trans[t]
             result == TransientAssoc(arrays, u, i, NewVal)
             elements == Put(Given(t), i, NewVal)
  <2>1. TransientOp(t, result, elements) /\ MayPut(u.count, i)
    BY <1>12 DEF AssocBang
  <2>2. TransientSound(arrays, u) /\ Given(t) = TransientElements(arrays, u)
    BY <1>3, <1>4, <2>1 DEF TransientOp, EnsureEditable
  <2>3. i \in Nat /\ i <= u.count
    BY <2>1, PutIs
  <2>4. MadeBang(arrays, u, result, Put(TransientElements(arrays, u), i, NewVal))
    <3> HIDE DEF u
    <3> QED
      BY <1>1, <1>2, <2>2, <2>3, AssocBangMakes
  <2>5. MadeBang(arrays, u, result, elements)
    BY <2>2, <2>4
  <2> HIDE DEF result, elements
  <2> QED
    BY <2>1, <2>5 DEF TransientStepOf
<1>13. ASSUME NEW t \in Transients, PopBang(t)
       PROVE  TransientStepOf(t)
  <2> DEFINE u == trans[t]
             result == TransientPop(arrays, u)
             elements == WithoutLast(Given(t))
  <2>1. TransientOp(t, result, elements) /\ u.count > 0
    BY <1>13 DEF PopBang
  <2>2. TransientSound(arrays, u) /\ Given(t) = TransientElements(arrays, u)
    BY <1>3, <1>4, <2>1 DEF TransientOp, EnsureEditable
  <2>3. MadeBang(arrays, u, result, WithoutLast(TransientElements(arrays, u)))
    <3> HIDE DEF u
    <3> QED
      BY <1>1, <2>1, <2>2, PopBangMakes
  <2>4. MadeBang(arrays, u, result, elements)
    BY <2>2, <2>3
  <2> HIDE DEF result, elements
  <2> QED
    BY <2>1, <2>4 DEF TransientStepOf
<1> QED
  BY <1>5, <1>6, <1>7, <1>8, <1>9, <1>10, <1>11, <1>12, <1>13 DEF Next

\* Every step keeps the invariant.
LEMMA NextInvariant == IInv /\ [Next]_vars => IInv'
<1> SUFFICES ASSUME IInv, [Next]_vars PROVE IInv'
  OBVIOUS
<1>1. ASSUME NEW from \in Slots, NEW to \in Slots, PersistentStepOf(from, to)
      PROVE  IInv'
  BY <1>1, PersistentOpKeeps DEF PersistentStepOf
<1>2. ASSUME NEW from \in Slots, NEW to \in Transients, NewTransientStepOf(from, to)
      PROVE  IInv'
  <2>1. PICK result :
          /\ MadeTransient(arrays, vectors[from], result)
          /\ Commit(result.heap, vectors, Replaced(trans, to, result.t), damaged \ {to})
          /\ expected' = Replaced(expected, to, Elements(arrays, vectors[from]))
    BY <1>2 DEF NewTransientStepOf
  <2> DEFINE T == Replaced(trans, to, result.t)
             E == Replaced(expected, to, Elements(arrays, vectors[from]))
             D == damaged \ {to}
  <2>2. Kept(result.heap, vectors, T, E, D)
    BY <2>1, NewTransientStep DEF IInv
  <2>3. Commit(result.heap, vectors, T, D) /\ expected' = E /\ ops \in Nat
    BY <2>1 DEF IInv
  <2> HIDE DEF T, E, D
  <2> QED
    BY <2>2, <2>3, CommitKeeps
<1>3. ASSUME NEW t \in Transients, NEW to \in Slots, PersistentBangStepOf(t, to)
      PROVE  IInv'
  <2> DEFINE V == Replaced(vectors, to, AsPersistent(trans[t]))
             T == Replaced(trans, t, Sealed(trans[t]))
             E == Replaced(expected, to, TransientElements(arrays, trans[t]))
             D == damaged \ {to}
  <2>1. Commit(arrays, V, T, D) /\ expected' = E /\ ops \in Nat /\ trans[t] # NoTransient
    BY <1>3 DEF PersistentBangStepOf, IInv
  <2>2. Kept(arrays, V, T, E, D)
    BY <2>1, PersistentBangStep DEF IInv
  <2> HIDE DEF V, T, E, D
  <2> QED
    BY <2>1, <2>2, CommitKeeps
<1>4. ASSUME NEW t \in Transients, TransientStepOf(t)
      PROVE  IInv'
  BY <1>4, TransientOpKeeps DEF TransientStepOf
<1>5. CASE UNCHANGED vars
  BY <1>5 DEF IInv, vars
<1> QED
  BY <1>1, <1>2, <1>3, <1>4, <1>5, NextMakes

-----------------------------------------------------------------------------
(* The theorems.                                                           *)

\* Vectors and transients are sound and have their elements in every state.
THEOREM Invariance == Spec => []IInv
<1> QED
  BY InitInvariant, NextInvariant, PTL DEF Spec

\* A sound tree is well formed.
LEMMA SoundTree ==
  ASSUME NEW v, NEW n, NEW r, Split(v.count, n, r), Sound(v.height, v.root, n)
  PROVE  WellFormed(v) /\ TailLen(v.count) = r
<1> DEFINE h == v.height
           size == TreeSize(v.count)
<1>1. /\ h \in Nat /\ n \in Nat /\ (h > 0 => n > Span[h - 1]) /\ n <= Span[h]
      /\ (n > 0 => DOMAIN v.root = Places(h, n)) /\ (n = 0 => DOMAIN v.root \subseteq {<<0, 0>>})
  BY DEF Sound, Shape
<1>2. size = NodeSize * n /\ TailLen(v.count) = r
  BY SplitGives
<1>3. NodeSize \in Nat \ {0} /\ NodeSize * n \in Nat
  BY <1>1, NodeSizeAssumption, TimesNat
<1>4. size \in Nat
  BY <1>2, <1>3
<1> HIDE DEF h, size
<1>5. size <= Span[h + 1]
  <2>1. Span[h + 1] = NodeSize * Span[h] /\ Span[h] \in Nat
    BY <1>1, SpanFacts
  <2> QED
    BY <1>1, <1>2, <1>3, <2>1, TimesMonotone
<1>6. h > 0 => size > Span[h]
  <2> SUFFICES ASSUME h > 0 PROVE size > Span[h]
    OBVIOUS
  <2>1. \E g \in Nat : h = g + 1 /\ g = h - 1
    BY <1>1
  <2>2. PICK g \in Nat : h = g + 1 /\ g = h - 1
    BY <2>1
  <2>3. Span[h] = NodeSize * Span[g] /\ Span[g] \in Nat /\ Span[h] \in Nat
    BY <1>1, <2>2, SpanFacts
  <2>4. Span[g] < n
    BY <1>1, <2>2, <2>3
  <2>5. (NodeSize * Span[g]) + NodeSize <= NodeSize * n
    BY <1>1, <1>3, <2>3, <2>4, TimesMonotone
  <2> QED
    BY <1>2, <1>3, <1>4, <2>3, <2>5
<1>7. size \div NodeSize = n
  <2>1. 0 \in 0 .. NodeSize - 1
    BY <1>3
  <2>2. ((NodeSize * n) + 0) \div NodeSize = n
    BY <1>1, <1>3, <2>1, DivUnique
  <2> QED
    BY <1>2, <1>3, <2>2
<1>8. (size > 0 => n > 0) /\ (size = 0 => n = 0)
  <2>1. 0 < n => (NodeSize * 0) + NodeSize <= NodeSize * n
    BY <1>1, <1>3, TimesMonotone
  <2>2. NodeSize * 0 = 0 /\ (n = 0 => NodeSize * n = 0)
    BY <1>3
  <2> QED
    BY <1>1, <1>2, <1>3, <2>1, <2>2
<1>9. /\ size > 0 => DOMAIN v.root = Places(h, size \div NodeSize)
      /\ size = 0 => DOMAIN v.root \subseteq {<<0, 0>>}
  BY <1>1, <1>7, <1>8
<1> QED
  BY <1>2, <1>5, <1>6, <1>9 DEF WellFormed, h, size

LEMMA TypesFromInvariant == IInv => TypeOK
<1> SUFFICES ASSUME IInv PROVE TypeOK
  OBVIOUS
<1>1. /\ DOMAIN arrays = Live(vectors, trans)
      /\ \A s \in Slots : VectorSound(arrays, vectors[s])
      /\ \A t \in Transients : trans[t] # NoTransient => TransientSound(arrays, trans[t])
  BY AllThere DEF IInv, Inv
<1>2. ASSUME NEW s \in Slots
      PROVE  /\ WellFormed(vectors[s])
             /\ vectors[s].base.len + Len(vectors[s].delta) = TailLen(vectors[s].count)
             /\ vectors[s].base.len <= NodeSize
  <2> DEFINE v == vectors[s]
  <2>1. PICK n, r : VectorParts(v, n, r)
    BY <1>1 DEF VectorSound
  <2> HIDE DEF v
  <2>2. WellFormed(v) /\ TailLen(v.count) = r
    BY <2>1, SoundTree DEF VectorParts
  <2>3. v.base.len \in Nat /\ Len(v.delta) \in Nat /\ v.base.len + Len(v.delta) = r /\ r \in 0 .. NodeSize
    BY <2>1 DEF VectorParts, Split
  <2>4. v.base.len <= NodeSize
    BY <2>3, NodeSizeAssumption
  <2> QED
    BY <2>2, <2>3, <2>4 DEF v
<1>3. ASSUME NEW t \in Transients, trans[t].tail # Nil
      PROVE  WellFormed(trans[t])
  <2> DEFINE u == trans[t]
  <2>1. TransientSound(arrays, u)
    BY <1>1, <1>3, NoTransientIs
  <2> HIDE DEF u
  <2>2. PICK n, r : TransientParts(u, n, r)
    BY <2>1 DEF TransientSound
  <2>3. WellFormed(u)
    BY <2>2, SoundTree DEF TransientParts
  <2> QED
    BY <2>3 DEF u
<1> QED
  BY <1>1, <1>2, <1>3 DEF TypeOK

\* All trees are well formed, all tails as long as they have to be, and the
\* arrays are those that somebody refers to.
THEOREM TypeCorrect == Spec => []TypeOK
<1> QED
  BY Invariance, TypesFromInvariant, PTL

\* A persistent vector keeps the elements it was made with, until a transient writes into
\* an array of it that the transient had not made: vectors share leaves and bases, and
\* write none of them.
THEOREM KeepElements == Spec => []VectorsKeepElements
<1>1. IInv => VectorsKeepElements
  <2> SUFFICES ASSUME IInv, NEW s \in Slots \ damaged
               PROVE  Elements(arrays, vectors[s]) = expected[s]
    BY DEF VectorsKeepElements
  <2>1. ElementsAt(arrays, vectors, trans, s) = expected[s]
    BY HolderIs DEF IInv, Inv, Kept
  <2> QED
    BY <2>1 DEF ElementsAt
<1> QED
  BY <1>1, Invariance, PTL

\* A transient has the elements that its vector had and its operations made of them,
\* whatever is done to the vectors and the transients it shares leaves with, until another
\* transient writes into an array of it that this other one had not made.
THEOREM TransientKeeps == Spec => []TransientKeepsElements
<1>1. IInv => TransientKeepsElements
  <2> SUFFICES ASSUME IInv, NEW t \in Transients \ damaged
               PROVE  TransientElements(arrays, trans[t]) = expected[t]
    BY DEF TransientKeepsElements
  <2>1. ElementsAt(arrays, vectors, trans, t) = expected[t]
    BY HolderIs DEF IInv, Inv, Kept
  <2> QED
    BY <2>1, HolderIs DEF ElementsAt
<1> QED
  BY <1>1, Invariance, PTL

\* Transient t may write into arrays of slot s: they are in its tree or its tail, but it
\* has not made them.
Reaches(t, s) ==
  IF trans[t].sealed THEN {}
  ELSE (ArraysOf(vectors[s]) \cap ArraysOfTransient(trans[t])) \ trans[t].own

\* What is left of VectorsImmutable, with no regard to history: a vector that is there
\* already has other elements after a step only if an array has been written that a
\* transient reaches.
Undamaged ==
  \A s \in Slots :
    /\ vectors'[s] = vectors[s]
    /\ \A t \in Transients : \A a \in Reaches(t, s) : arrays'[a] = arrays[a]
    => Elements(arrays', vectors'[s]) = Elements(arrays, vectors[s])

\* A vector the arrays of which are what they were.
LEMMA StaysThere ==
  ASSUME IInv, IInv', NEW s \in Slots, vectors'[s] = vectors[s],
         Agree(arrays', arrays, ArraysOf(vectors[s]))
  PROVE  Elements(arrays', vectors'[s]) = Elements(arrays, vectors[s])
<1> DEFINE v == vectors[s]
           A == arrays
           B == arrays'
<1>1. IsHeap(A) /\ VectorSound(A, v)
  BY AllThere DEF IInv
<1>2. IsHeap(B) /\ ArraysOf(vectors'[s]) \subseteq DOMAIN B
  BY AllThere DEF IInv
<1>3. ArraysOf(v) \subseteq DOMAIN B /\ Agree(B, A, ArraysOf(v))
  BY <1>2
<1> HIDE DEF v, A, B
<1>4. Elements(B, v) = Elements(A, v)
  BY <1>1, <1>2, <1>3, VectorFrame
<1> QED
  BY <1>4 DEF v, A, B

\* The arrays that an operation leaves behind.
LEMMA CommittedIs ==
  ASSUME IInv', NEW heap, NEW V, NEW ts, NEW hurt, Commit(heap, V, ts, hurt),
         NEW s \in Slots, vectors'[s] = vectors[s]
  PROVE  Agree(arrays', heap, ArraysOf(vectors[s]))
<1>1. ArraysOf(vectors'[s]) \subseteq DOMAIN arrays'
  BY AllThere DEF IInv
<1>2. arrays' = [a \in Live(V, ts) |-> heap[a]]
  BY DEF Commit
<1> QED
  BY <1>1, <1>2 DEF Agree

LEMMA NextUndamaged == IInv /\ IInv' /\ [Next]_vars => Undamaged
<1> SUFFICES ASSUME IInv, IInv', [Next]_vars, NEW s \in Slots, vectors'[s] = vectors[s],
                    \A t \in Transients : \A a \in Reaches(t, s) : arrays'[a] = arrays[a]
             PROVE  Elements(arrays', vectors'[s]) = Elements(arrays, vectors[s])
  BY DEF Undamaged
<1> DEFINE as == ArraysOf(vectors[s])
<1>1. as \subseteq DOMAIN arrays
  BY AllThere DEF IInv
<1>2. ASSUME NEW heap, NEW V, NEW ts, NEW hurt, Commit(heap, V, ts, hurt), Extends(heap, arrays)
      PROVE  Agree(arrays', arrays, as)
  <2>1. Agree(arrays', heap, as)
    BY <1>2, CommittedIs
  <2> QED
    BY <1>1, <1>2, <2>1 DEF Extends, Agree
<1>3. ASSUME NEW from \in Slots, NEW to \in Slots, PersistentStepOf(from, to)
      PROVE  Agree(arrays', arrays, as)
  <2>1. PICK result, elements : /\ Made(arrays, ArraysOf(vectors[from]), result, elements)
                                /\ PersistentOp(to, result, elements)
    BY <1>3 DEF PersistentStepOf
  <2> DEFINE V == Replaced(vectors, to, result.v)
  <2>2. Commit(result.heap, V, trans, damaged \ {to}) /\ Extends(result.heap, arrays)
    BY <2>1 DEF PersistentOp, Replaced, Made
  <2> HIDE DEF V
  <2> QED
    BY <1>2, <2>2
<1>4. ASSUME NEW from \in Slots, NEW to \in Transients, NewTransientStepOf(from, to)
      PROVE  Agree(arrays', arrays, as)
  BY <1>2, <1>4 DEF NewTransientStepOf, MadeTransient
<1>5. ASSUME NEW t \in Transients, NEW to \in Slots, PersistentBangStepOf(t, to)
      PROVE  Agree(arrays', arrays, as)
  BY <1>2, <1>5, ExtendsSame DEF PersistentBangStepOf
<1>6. ASSUME NEW t \in Transients, TransientStepOf(t)
      PROVE  Agree(arrays', arrays, as)
  <2>1. PICK result, elements : /\ MadeBang(arrays, trans[t], result, elements)
                                /\ TransientOp(t, result, elements)
    BY <1>6 DEF TransientStepOf
  <2> DEFINE heap == result.heap
             written == result.written
             T == Replaced(trans, t, result.t)
             D == (damaged \ {t}) \cup Damages(t, written)
  <2>2. Commit(heap, vectors, T, D) /\ ~trans[t].sealed
    BY <2>1 DEF TransientOp, EnsureEditable, Replaced
  <2>3. /\ \A a \in DOMAIN arrays : a \notin written => heap[a] = arrays[a]
        /\ written \subseteq ArraysOfTransient(trans[t])
    BY <2>1 DEF MadeBang
  <2>4. as \cap trans[t].own = {}
    <3>1. s \in Holders \ {t} /\ ArraysAt(vectors, trans, s) = as
      BY HolderIs DEF ArraysAt
    <3> QED
      BY <2>2, <3>1 DEF IInv, Inv, Kept
  <2> HIDE DEF heap, written, T, D
  <2>5. Agree(arrays', heap, as)
    BY <2>2, CommittedIs
  <2>6. \A a \in as : a \in written => a \in Reaches(t, s)
    BY <2>2, <2>3, <2>4 DEF Reaches
  <2> QED
    BY <1>1, <2>3, <2>5, <2>6 DEF Agree
<1>7. CASE UNCHANGED vars
  BY <1>7 DEF vars
<1>8. CASE Next
  BY <1>3, <1>4, <1>5, <1>6, <1>8, NextMakes, StaysThere
<1> QED
  BY <1>7, <1>8

\* A vector is what it was after every operation, unless an array has been written that a
\* transient which has not made it shares with the vector.
THEOREM ImmutableUnlessDamaged == Spec => [][Undamaged]_vars
<1>1. IInv /\ IInv' /\ [Next]_vars => [Undamaged]_vars
  BY NextUndamaged
<1> QED
  BY <1>1, Invariance, PTL DEF Spec
=============================================================================
