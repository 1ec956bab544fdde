------------------------------- MODULE Vector -------------------------------
(***************************************************************************)
(* Persistent and transient vectors (internal/persistent/vector, called    *)
(* through lang.Vector and lang.TransientVector).  A persistent vector is  *)
(* a tree and a tail; the tail is a slice of an array, its base, and a     *)
(* chain of the elements appended since.  Vectors and transients share     *)
(* leaves and bases, and a transient writes into the arrays it has, made   *)
(* by it or not: of two transients of one vector, each sees what the other *)
(* writes into a leaf (transient.go:59, 154), and so does the vector.      *)
(*                                                                         *)
(* Operators whose name ends in _Fault are the bugs that the properties    *)
(* are tried against; nothing else uses them.                              *)
(***************************************************************************)
EXTENDS VectorTree, Sequences

CONSTANTS
  Slots,      \* the variables of the program that hold a vector
  Transients, \* those that hold a transient
  Sizes,      \* the sizes of the vectors it starts with
  Positions,  \* where assoc replaces elements
  MaxCount,   \* the size a vector may have (a bound of the model)
  MaxOps      \* how many operations are made (a bound of the model)

ASSUME VectorAssumption ==
  /\ Slots \cap Transients = {}
  /\ MaxCount \in Nat /\ Sizes \subseteq 0 .. MaxCount
  /\ Positions \subseteq Nat /\ MaxOps \in Nat

VARIABLES
  arrays,   \* the elements in each array; those nobody refers to are gone
  vectors,  \* the persistent vector in each slot
  trans,    \* the transient in each of Transients
  expected, \* history: the elements each vector and transient should have
  damaged,  \* history: those that had an array when another transient, which had not
            \* made it, wrote into it
  ops       \* how many operations have been made

Holders == Slots \cup Transients
vars == <<arrays, vectors, trans, expected, damaged, ops>>

NoBase == [array |-> Nil, len |-> 0]
Empty == [count |-> 0, height |-> 0, root |-> NoTree, base |-> NoBase, delta |-> <<>>]

\* own: the arrays the transient has made.
NoTransient == [sealed |-> TRUE, count |-> 0, height |-> 0, root |-> NoTree, tail |-> Nil, own |-> {}]

-----------------------------------------------------------------------------
(* Reading.                                                                *)

\* tailSlice, tailNode and the copy in NewTransient: the tail in an array of its own.
TailArray(heap, v) ==
  [k \in Offsets |->
     IF k < v.base.len THEN heap[v.base.array][k]
     ELSE IF k < v.base.len + Len(v.delta) THEN v.delta[k - v.base.len + 1] ELSE Nil]

\* Index(i) for all i.
Elements(heap, v) ==
  [i \in 1 .. v.count |->
     IF i - 1 < TreeSize(v.count) THEN heap[LeafOf(v.height, v.root, i - 1)][(i - 1) % NodeSize]
     ELSE TailArray(heap, v)[i - 1 - TreeSize(v.count)]]

\* Index(i) of a transient.
TransientElements(heap, t) ==
  [i \in 1 .. t.count |->
     IF i - 1 < TreeSize(t.count) THEN heap[LeafOf(t.height, t.root, i - 1)][(i - 1) % NodeSize]
     ELSE heap[t.tail][(i - 1) % NodeSize]]

ArraysOf(v) == Leaves(v.root) \cup ({v.base.array} \ {Nil})
ArraysOfTransient(t) == Leaves(t.root) \cup ({t.tail} \ {Nil})

\* Of a vector or a transient, by its variable.
ArraysAt(vs, ts, h) == IF h \in Slots THEN ArraysOf(vs[h]) ELSE ArraysOfTransient(ts[h])
ElementsAt(heap, vs, ts, h) ==
  IF h \in Slots THEN Elements(heap, vs[h]) ELSE TransientElements(heap, ts[h])

Live(vs, ts) == UNION {ArraysAt(vs, ts, h) : h \in Holders}

-----------------------------------------------------------------------------
(* Persistent vectors: the operators give the vector and the arrays.       *)

FreshIn(heap) == CHOOSE a \in 1 .. Cardinality(DOMAIN heap) + 1 : a \notin DOMAIN heap
With(heap, a, contents) ==
  [b \in DOMAIN heap \cup {a} |-> IF b = a THEN contents ELSE heap[b]]

\* ConjValueInto.
Conj(heap, v, val) ==
  LET leaf == FreshIn(heap)
      tree == Grown(v, leaf)
  IN IF TailLen(v.count) < NodeSize
     THEN [heap |-> heap,
           v |-> [v EXCEPT !.count = @ + 1, !.delta = Append(@, val)]]
     ELSE [heap |-> With(heap, leaf, TailArray(heap, v)),
           v |-> [count |-> v.count + 1, height |-> tree.height, root |-> tree.root,
                  base |-> NoBase, delta |-> <<val>>]]

\* AssocValue.
Assoc(heap, v, i, val) ==
  LET new == FreshIn(heap)
      leaf == LeafOf(v.height, v.root, i)
      tail == TailArray(heap, v)
  IN IF i = v.count THEN Conj(heap, v, val)
     ELSE IF i >= TreeSize(v.count)
     THEN [heap |-> With(heap, new, [tail EXCEPT ![i % NodeSize] = val]),
           v |-> [v EXCEPT !.base = [array |-> new, len |-> TailLen(v.count)], !.delta = <<>>]]
     ELSE [heap |-> With(heap, new, [heap[leaf] EXCEPT ![i % NodeSize] = val]),
           v |-> [v EXCEPT !.root = ReplaceLeaf(v.height, @, i, new)]]

WithoutLast(delta) == SubSeq(delta, 1, Len(delta) - 1)

\* ReplaceLastValueInto: the base is cut short, never written.
ReplaceLast(heap, v, val) ==
  [heap |-> heap,
   v |-> IF v.delta # <<>> THEN [v EXCEPT !.delta = Append(WithoutLast(@), val)]
         ELSE [v EXCEPT !.base.len = @ - 1, !.delta = <<val>>]]

\* PopValue; at the edge of the tail the last leaf is the base, and stays the leaf of
\* the vectors that share it.
Pop(heap, v) ==
  LET new == FreshIn(heap)
      last == LeafOf(v.height, v.root, v.count - 2)
      base == [array |-> last, len |-> NodeSize]
      tree == Shrunk(v)
  IN CASE v.count = 1 -> [heap |-> heap, v |-> Empty]
       [] v.count > 1 /\ TailLen(v.count) > 1 ->
            [heap |-> heap,
             v |-> IF v.delta # <<>> THEN [v EXCEPT !.count = @ - 1, !.delta = WithoutLast(@)]
                   ELSE [v EXCEPT !.count = @ - 1, !.base.len = @ - 1]]
       [] v.count > 1 /\ TailLen(v.count) = 1 /\ v.height = 0 ->
            [heap |-> With(heap, new, [heap[last] EXCEPT ![NodeSize - 1] = Nil]),
             v |-> [count |-> v.count - 1, height |-> 0, root |-> ReplaceLeaf(0, v.root, 0, new), base |-> base,
                    delta |-> <<>>]]
       [] OTHER ->
            [heap |-> heap,
             v |-> [count |-> v.count - 1, height |-> tree.height, root |-> tree.root,
                    base |-> base, delta |-> <<>>]]

-----------------------------------------------------------------------------
(* Transients.                                                             *)

\* NewTransient.
AsTransient(heap, v) ==
  LET tail == FreshIn(heap)
  IN [heap |-> With(heap, tail, TailArray(heap, v)),
      t |-> [sealed |-> FALSE, count |-> v.count, height |-> v.height, root |-> v.root,
             tail |-> tail, own |-> {tail}]]

\* The array that is written in place, if one is.
NoArray == {}

\* Conj: a full tail is copied into a leaf.
TransientConj(heap, t, val) ==
  LET leaf == FreshIn(heap)
      pushed == With(heap, leaf, heap[t.tail])
      tail == FreshIn(pushed)
      tree == Grown(t, leaf)
  IN IF TailLen(t.count) < NodeSize
     THEN [heap |-> [heap EXCEPT ![t.tail][t.count % NodeSize] = val],
           t |-> [t EXCEPT !.count = @ + 1], written |-> {t.tail}]
     ELSE [heap |-> With(pushed, tail, [NewNode EXCEPT ![0] = val]),
           t |-> [t EXCEPT !.count = @ + 1, !.height = tree.height, !.root = tree.root,
                           !.tail = tail, !.own = @ \cup {leaf, tail}],
           written |-> NoArray]

\* Assoc: the leaf or the tail is written where it is.
TransientAssoc(heap, t, i, val) ==
  LET array == IF i >= TreeSize(t.count) THEN t.tail ELSE LeafOf(t.height, t.root, i)
  IN IF i = t.count THEN TransientConj(heap, t, val)
     ELSE [heap |-> [heap EXCEPT ![array][i % NodeSize] = val], t |-> t, written |-> {array}]

\* The tail is kept, with the elements that were in it.
TransientPop_Fault(heap, t) ==
  [heap |-> heap, t |-> [t EXCEPT !.count = @ - 1], written |-> NoArray]

\* Pop: at the edge of the tail the last leaf is the tail.
TransientPop(heap, t) ==
  LET new == FreshIn(heap)
      last == LeafOf(t.height, t.root, t.count - 2)
      tree == Shrunk(t)
  IN CASE t.count = 1 \/ TailLen(t.count) > 1 ->
            [heap |-> heap, t |-> [t EXCEPT !.count = @ - 1], written |-> NoArray]
       [] t.count > 1 /\ TailLen(t.count) = 1 /\ t.height = 0 ->
            [heap |-> With(heap, new, [heap[last] EXCEPT ![NodeSize - 1] = Nil]),
             t |-> [t EXCEPT !.count = @ - 1, !.root = ReplaceLeaf(0, @, 0, new), !.tail = last, !.own = @ \cup {new}],
             written |-> NoArray]
       [] OTHER ->
            [heap |-> heap,
             t |-> [t EXCEPT !.count = @ - 1, !.height = tree.height, !.root = tree.root,
                             !.tail = last],
             written |-> NoArray]

\* Persistent: the tail is shared, not copied.  TransientVector has one empty vector.
AsPersistent(t) ==
  IF t.count = 0 THEN Empty
  ELSE [count |-> t.count, height |-> t.height, root |-> t.root,
        base |-> [array |-> t.tail, len |-> TailLen(t.count)], delta |-> <<>>]

\* NewPersistent: elements that fit in the tail are copied there, others conjoined.
Val(i) == 0 - i
conjoined[n \in 0 .. MaxCount] ==
  IF n = 0 THEN AsTransient([a \in {} |-> <<>>], Empty)
  ELSE TransientConj(conjoined[n - 1].heap, conjoined[n - 1].t, Val(n))

Init ==
  \E n \in Sizes :
    LET v == IF n = 0 THEN Empty ELSE AsPersistent(conjoined[n].t)
    IN /\ vectors \in {[s \in Slots |-> IF s = first THEN v ELSE Empty] : first \in Slots}
       /\ arrays = [a \in ArraysOf(v) |-> conjoined[n].heap[a]]
       /\ trans = [t \in Transients |-> NoTransient]
       /\ expected = [h \in Holders |->
                        IF h \in Slots /\ vectors[h] = v THEN [i \in 1 .. n |-> Val(i)] ELSE <<>>]
       /\ damaged = {}
       /\ ops = 0

-----------------------------------------------------------------------------
\* The end of every operation.  The arrays nobody refers to are collected.
Commit(heap, vs, ts, hurt) ==
  /\ ops' = ops + 1
  /\ vectors' = vs
  /\ arrays' = [a \in Live(vs, ts) |-> heap[a]]
  /\ trans' = [t \in Transients |-> [ts[t] EXCEPT !.own = @ \cap Live(vs, ts)]]
  /\ damaged' = hurt

NewVal == ops + 1

\* The elements an operation starts from: those of something damaged are what they are.
Given(h) == IF h \in damaged THEN ElementsAt(arrays, vectors, trans, h) ELSE expected[h]

\* Assoc at the end of a vector is Conj.
Put(elements, i, val) ==
  IF i = Len(elements) THEN Append(elements, val) ELSE [elements EXCEPT ![i + 1] = val]
MayPut(count, i) == i <= count /\ i < MaxCount

PersistentOp(to, result, elements) ==
  /\ ops < MaxOps
  /\ Commit(result.heap, [vectors EXCEPT ![to] = result.v], trans, damaged \ {to})
  /\ expected' = [expected EXCEPT ![to] = elements]

Cons(from, to) ==
  /\ vectors[from].count < MaxCount
  /\ PersistentOp(to, Conj(arrays, vectors[from], NewVal), Append(Given(from), NewVal))

AssocN(from, to, i) ==
  /\ MayPut(vectors[from].count, i)
  /\ PersistentOp(to, Assoc(arrays, vectors[from], i, NewVal), Put(Given(from), i, NewVal))

ReplaceLastOf(from, to) ==
  LET n == vectors[from].count
  IN /\ n > 0
     /\ PersistentOp(to, ReplaceLast(arrays, vectors[from], NewVal),
                     [Given(from) EXCEPT ![n] = NewVal])

PopOf(from, to) ==
  /\ vectors[from].count > 0
  /\ PersistentOp(to, Pop(arrays, vectors[from]), WithoutLast(Given(from)))

NewTransient(from, to) ==
  LET result == AsTransient(arrays, vectors[from])
  IN /\ ops < MaxOps
     /\ Commit(result.heap, vectors, [trans EXCEPT ![to] = result.t], damaged \ {to})
     /\ expected' = [expected EXCEPT ![to] = Given(from)]

\* Conj and the others go on after persistent!.
EnsureEditable_Fault(t) == trans[t] # NoTransient

\* ensureEditable panics after Persistent.
EnsureEditable(t) == ~trans[t].sealed

\* The others that have an array in which transient t writes, but which it has not made.
Damages(t, written) ==
  {h \in Holders \ {t} : ArraysAt(vectors, trans, h) \cap (written \ trans[t].own) # {}}

TransientOp(t, result, elements) ==
  /\ EnsureEditable(t) /\ ops < MaxOps
  /\ Commit(result.heap, vectors, [trans EXCEPT ![t] = result.t],
            (damaged \ {t}) \cup Damages(t, result.written))
  /\ expected' = [expected EXCEPT ![t] = elements]

ConjBang(t) ==
  /\ trans[t].count < MaxCount
  /\ TransientOp(t, TransientConj(arrays, trans[t], NewVal), Append(Given(t), NewVal))

AssocBang(t, i) ==
  /\ MayPut(trans[t].count, i)
  /\ TransientOp(t, TransientAssoc(arrays, trans[t], i, NewVal), Put(Given(t), i, NewVal))

PopBang(t) ==
  /\ trans[t].count > 0
  /\ TransientOp(t, TransientPop(arrays, trans[t]), WithoutLast(Given(t)))

PersistentBang(t, to) ==
  /\ trans[t] # NoTransient /\ ops < MaxOps
  /\ Commit(arrays, [vectors EXCEPT ![to] = AsPersistent(trans[t])],
            [trans EXCEPT ![t].sealed = TRUE], damaged \ {to})
  /\ expected' = [expected EXCEPT ![to] = Given(t)]

Next ==
  \/ \E from, to \in Slots :
       \/ Cons(from, to)
       \/ \E i \in Positions : AssocN(from, to, i)
       \/ ReplaceLastOf(from, to)
       \/ PopOf(from, to)
  \/ \E t \in Transients :
       \/ \E s \in Slots : NewTransient(s, t) \/ PersistentBang(t, s)
       \/ ConjBang(t)
       \/ \E i \in Positions : AssocBang(t, i)
       \/ PopBang(t)

Spec == Init /\ [][Next]_vars

-----------------------------------------------------------------------------
(* Properties.                                                             *)

\* Every tree is well formed, every tail as long as it has to be, and every element in
\* an array that is there.
TypeOK ==
  /\ DOMAIN arrays = Live(vectors, trans)
  /\ \A s \in Slots :
       LET v == vectors[s]
       IN /\ WellFormed(v)
          /\ v.base.len + Len(v.delta) = TailLen(v.count)
          /\ v.base.len <= NodeSize
  /\ \A t \in Transients : trans[t].tail # Nil => WellFormed(trans[t])

\* A persistent vector has the elements it was made with, whatever is done to vectors
\* and transients it shares leaves and tails with, and whatever becomes of the transient
\* it was made by; unless a transient has written a leaf of it that the transient had
\* not made.
VectorsKeepElements ==
  \A s \in Slots \ damaged : Elements(arrays, vectors[s]) = expected[s]

\* A transient has the elements that its vector had and its own operations made of them,
\* whatever is done to vectors and other transients it shares leaves with; unless another
\* transient has written a leaf of it since its last operation, having not made it:
\* assoc! on one of two transients of a vector is seen in the other, and no guard of the
\* code keeps it from that.
TransientKeepsElements ==
  \A t \in Transients \ damaged : TransientElements(arrays, trans[t]) = expected[t]

\* "it is immutable, and provides O(1) operations to create modified versions of the
\* vector": no operation changes the elements of a vector that is there already.
VectorsImmutable ==
  [][\A s \in Slots : vectors'[s] = vectors[s] =>
       Elements(arrays', vectors'[s]) = Elements(arrays, vectors[s])]_vars
=============================================================================
