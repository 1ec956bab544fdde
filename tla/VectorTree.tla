----------------------------- MODULE VectorTree -----------------------------
(***************************************************************************)
(* The tree of the vectors of internal/persistent/vector: a radix tree of  *)
(* arrays of NodeSize slots, the leaves of which hold the elements.  Only  *)
(* arrays that are leaves or tails are ever written after they have been   *)
(* filled, so these have an identity, and an array that holds nodes is     *)
(* known by its place only.                                                *)
(*                                                                         *)
(* The place of a node is its height and its number among the nodes of     *)
(* that height, from the left: slot s of <<h, k>> is the node              *)
(* <<h - 1, k * NodeSize + s>>, and slot 0 of a root that is put on top of *)
(* another, <<h + 1, 0>>, is that other root, <<h, 0>>.  A tree maps the   *)
(* places of its nodes to arrays, or to Nil above the leaves; an empty     *)
(* slot is a place that is not there.                                      *)
(***************************************************************************)
EXTENDS Integers, FiniteSetsExt

CONSTANTS
  NodeSize,  \* nodeSize and tailMaxLen
  Nil        \* what an empty slot holds

ASSUME NodeSizeAssumption == NodeSize \in Nat \ {0, 1} /\ Nil \notin Nat

Offsets == 0 .. NodeSize - 1

\* 1 << (h * chunkBits): the leaves that a node of height h has room for.
Span[h \in Nat] == IF h = 0 THEN 1 ELSE NodeSize * Span[h - 1]

\* treeSize and tailoff: how many of count elements are in the tree.
TreeSize(count) == IF count < NodeSize THEN 0 ELSE ((count - 1) \div NodeSize) * NodeSize
TailLen(count) == count - TreeSize(count)

\* Where element i is in a node of height h.
At(i, h) == (i \div Span[h]) % NodeSize

NoTree == [p \in {} |-> Nil]
NewNode == [k \in Offsets |-> Nil]

\* The number of the first leaf below a node, and the nodes below a node.
First(p) == p[2] * Span[p[1]]
Under(p, q) == p[1] <= q[1] /\ First(p) \in First(q) .. First(q) + Span[q[1]] - 1
Without(tree, places) == [p \in DOMAIN tree \ places |-> tree[p]]

\* The node that the way from a root of that height to element i passes at height h:
\* a slot at each height, the digits of i.
OnPath(height, i, h) == <<h, ((i \div NodeSize) % Span[height]) \div Span[h]>>

\* The array that element i is in.
LeafOf(height, tree, i) == tree[OnPath(height, i, 0)]

Leaves(tree) == {tree[p] : p \in {q \in DOMAIN tree : q[1] = 0}}

\* newPath: a leaf and, from place q down to it, nodes of which it is in slot 0.
NewPath(tree, q, leaf) ==
  LET path == {<<h, First(q) \div Span[h]>> : h \in 0 .. q[1]}
  IN [p \in DOMAIN tree \cup path |->
        IF p \notin path THEN tree[p] ELSE IF p[1] = 0 THEN leaf ELSE Nil]

\* A root of that height on top of a tree.
NewRoot(tree, height) ==
  [p \in DOMAIN tree \cup {<<height, 0>>} |-> IF p = <<height, 0>> THEN Nil ELSE tree[p]]

\* pushTail: the tree of a vector of count elements, with one more leaf.  It is put below
\* the first empty slot on the way to the last element, or in the place of the leaf there.
PushTail(height, tree, count, leaf) ==
  LET way(h) == OnPath(height, count - 1, h)
      empty == {h \in 0 .. height - 1 : way(h) \notin DOMAIN tree}
  IN NewPath(tree, way(Max({0} \cup empty)), leaf)

\* popTail above the leaves: without the last leaf.  A node goes as well if what goes
\* below it was in slot 0.
PopTail(height, tree, count) ==
  LET gone == {h \in 1 .. height : \A g \in 1 .. h : At(count - 2, g) = 0}
      top == OnPath(height, count - 2, Max({0} \cup gone))
  IN Without(tree, {p \in DOMAIN tree : Under(p, top)})

\* doAssoc above the leaves: the path to element i is copied.
ReplaceLeaf(height, tree, i, leaf) == [tree EXCEPT ![OnPath(height, i, 0)] = leaf]

\* "Overflow root?"
Overflows(count, height) == count \div NodeSize > Span[height]

\* ConjValueInto and Conj: a full tail becomes a leaf, and the tree higher if need be.
Grown(v, leaf) ==
  IF Overflows(v.count, v.height)
  THEN [height |-> v.height + 1,
        root |-> NewPath(NewRoot(v.root, v.height + 1), <<v.height, 1>>, leaf)]
  ELSE [height |-> v.height, root |-> PushTail(v.height, v.root, v.count, leaf)]

\* The tree is not made lower.
Shrunk_Fault(v) == [height |-> v.height, root |-> PopTail(v.height, v.root, v.count)]

\* PopValue and Pop, for a root that is no leaf: the last leaf becomes the tail, and a
\* root with one child left goes.
Shrunk(v) ==
  LET root == PopTail(v.height, v.root, v.count)
      first == {p \in DOMAIN root : Under(p, <<v.height - 1, 0>>)}
  IN IF <<v.height - 1, 1>> \in DOMAIN root
     THEN [height |-> v.height, root |-> root]
     ELSE [height |-> v.height - 1, root |-> Without(root, DOMAIN root \ first)]

\* The nodes of a tree of n leaves: all there, in their places, and no other.
Places(height, n) == {p \in (0 .. height) \X (0 .. n) : First(p) < n}

\* No higher than need be, and complete.  A root that is a leaf may be left over when
\* every element is in the tail.
WellFormed(v) ==
  LET size == TreeSize(v.count)
  IN /\ v.height > 0 => size > Span[v.height]
     /\ size <= Span[v.height + 1]
     /\ size > 0 => DOMAIN v.root = Places(v.height, size \div NodeSize)
     /\ size = 0 => DOMAIN v.root \subseteq {<<0, 0>>}
=============================================================================
