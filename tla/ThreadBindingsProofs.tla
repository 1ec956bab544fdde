------------------------- MODULE ThreadBindingsProofs -------------------------
(***************************************************************************)
(* Proofs about ThreadBindings, for any goroutines, Vars, values, binding  *)
(* forms and depth of stacks: storages are private, a captured frame is a  *)
(* snapshot, bindings are restored, and the counter of a Var is exactly    *)
(* the number of frames that bind it, so that the fast path of Get, which  *)
(* trusts a zero counter, is sound.                                        *)
(***************************************************************************)
EXTENDS ThreadBindings, FoldLemmas, SequenceTheorems

Pushes == [kind : {"push"}, left : Frame, all : SUBSET Vars]
Pops == [kind : {"pop"}, left : SUBSET Vars]
Adjusts == [kind : {"uncount", "recount"}, left : [Vars -> Nat]]
Operations == {Idle} \cup Pushes \cup Pops \cup Adjusts

\* The types of the variables.
Types ==
  /\ count \in [Vars -> Int]
  /\ gls \in [G -> Storages \cup {Nil}]
  /\ store \in [Storages -> Seq(Frame)]
  /\ mtx \in G \cup {NoOne}
  /\ conveyed \in Storages \cup {Nil, NotCaptured}
  /\ op \in [G -> Operations]
  /\ active \in [G -> Seq(SUBSET Vars)]
  /\ panicked \subseteq G

\* glsBindingsMtx is held across steps exactly by a ResetThreadBindingFrame, and
\* only a captured frame is installed.
MutexHeld ==
  \A g \in G : /\ (mtx = g) = (op[g].kind \in {"uncount", "recount"})
               /\ op[g].kind = "uncount" => conveyed # NotCaptured

\* A storage in use has a frame, and one that is not in use has none.
StorageInUse ==
  /\ \A g \in G : gls[g] # Nil => store[gls[g]] # <<>>
  /\ conveyed \in Storages => store[conveyed] # <<>>
  /\ \A s \in Storages : s # conveyed /\ (\A g \in G : gls[g] # s) => store[s] = <<>>

\* What an operation has done to the goroutine's stack: a push has bound in the
\* innermost frame what it has not left to do; a reset has counted some of the frames;
\* and, unless a push has panicked, the frames are those of the active forms.
OperationSound(o, stack, sets, unwound) ==
  /\ o.kind = "push" => /\ stack # <<>>
                        /\ DOMAIN o.left \cup DOMAIN stack[Len(stack)] = o.all
                        /\ DOMAIN o.left \cap DOMAIN stack[Len(stack)] = {}
  /\ o.kind = "recount" => \A v \in Vars : o.left[v] <= Occurrences(stack, v)
  /\ ~unwound => /\ Len(stack) = Len(sets) + (IF o.kind = "push" THEN 1 ELSE 0)
                  /\ \A i \in 1 .. Len(sets) : DOMAIN stack[i] = sets[i]

OperationsSound ==
  \A g \in G : OperationSound(op[g], StackOf(g), active[g], g \in panicked)

IInv ==
  /\ Types
  /\ MutexHeld
  /\ StoragePrivate
  /\ StorageInUse
  /\ OperationsSound
  /\ CountTracksFrames


-----------------------------------------------------------------------------
(* Frames and stacks.                                                      *)

LEMMA FrameFacts ==
  /\ \A f \in Frame : DOMAIN f \in SUBSET Vars /\ f = [w \in DOMAIN f |-> f[w]]
                      /\ \A w \in DOMAIN f : f[w] \in Values
  /\ \A S \in SUBSET Vars : \A f \in [S -> Values] : f \in Frame
  /\ <<>> \in Frame /\ DOMAIN <<>> = {}
<1>1. ASSUME NEW f \in Frame
      PROVE  DOMAIN f \in SUBSET Vars /\ f = [w \in DOMAIN f |-> f[w]]
             /\ \A w \in DOMAIN f : f[w] \in Values
  <2>1. PICK S \in SUBSET Vars : f \in [S -> Values]
    BY DEF Frame
  <2> QED
    BY <2>1
<1>2. \A S \in SUBSET Vars : \A f \in [S -> Values] : f \in Frame
  BY DEF Frame
<1>3. DOMAIN <<>> = {}
  OBVIOUS
<1>4. <<>> \in [{} -> Values]
  <2>1. <<>> = [w \in {} |-> <<>>[w]]
    OBVIOUS
  <2> QED
    BY <2>1
<1>5. {} \in SUBSET Vars
  OBVIOUS
<1> QED
  BY <1>1, <1>2, <1>3, <1>4, <1>5

\* A number of occurrences is a natural number, the cardinality of a set of positions.
LEMMA OccurrencesType ==
  ASSUME NEW stack \in Seq(Frame), NEW v
  PROVE  /\ Occurrences(stack, v) \in Nat
         /\ IsFiniteSet({i \in DOMAIN stack : v \in DOMAIN stack[i]})
         /\ Occurrences(stack, v) = 0 => \A i \in DOMAIN stack : v \notin DOMAIN stack[i]
<1> DEFINE At == {i \in DOMAIN stack : v \in DOMAIN stack[i]}
<1>1. DOMAIN stack = 1 .. Len(stack) /\ Len(stack) \in Nat
  OBVIOUS
<1>2. IsFiniteSet(At)
  <2>1. IsFiniteSet(1 .. Len(stack)) /\ At \in SUBSET (1 .. Len(stack))
    BY <1>1, FS_Interval
  <2> QED
    BY <2>1, FS_Subset
<1>3. Cardinality(At) \in Nat /\ (Cardinality(At) = 0 => At = {})
  BY <1>2, FS_CardinalityType, FS_EmptySet
<1> QED
  BY <1>2, <1>3 DEF Occurrences

LEMMA OccurrencesSame ==
  ASSUME NEW stack \in Seq(Frame), NEW new \in Seq(Frame), Len(new) = Len(stack), NEW v,
         \A i \in 1 .. Len(stack) : v \in DOMAIN new[i] <=> v \in DOMAIN stack[i]
  PROVE  Occurrences(new, v) = Occurrences(stack, v)
<1>1. {i \in DOMAIN new : v \in DOMAIN new[i]} = {i \in DOMAIN stack : v \in DOMAIN stack[i]}
  OBVIOUS
<1> QED
  BY <1>1 DEF Occurrences

LEMMA OccurrencesMore ==
  ASSUME NEW stack \in Seq(Frame), NEW new \in Seq(Frame), NEW v, NEW j,
         {i \in DOMAIN new : v \in DOMAIN new[i]}
           = {i \in DOMAIN stack : v \in DOMAIN stack[i]} \cup {j},
         j \notin {i \in DOMAIN stack : v \in DOMAIN stack[i]}
  PROVE  Occurrences(new, v) = Occurrences(stack, v) + 1
<1> DEFINE At(s) == {i \in DOMAIN s : v \in DOMAIN s[i]}
<1>1. IsFiniteSet(At(stack))
  BY OccurrencesType
<1> HIDE DEF At
<1>2. At(new) = At(stack) \cup {j} /\ j \notin At(stack)
  BY DEF At
<1>3. Cardinality(At(new)) = Cardinality(At(stack)) + 1
  BY <1>1, <1>2, FS_AddElement
<1> QED
  BY <1>3 DEF Occurrences, At

LEMMA OccurrencesEmpty == \A v : Occurrences(<<>>, v) = 0
  BY FS_EmptySet DEF Occurrences

\* Pushing an empty frame binds nothing.
LEMMA OccurrencesPush ==
  ASSUME NEW stack \in Seq(Frame), NEW v
  PROVE  Occurrences(Append(stack, <<>>), v) = Occurrences(stack, v)
<1>1. {i \in DOMAIN Append(stack, <<>>) : v \in DOMAIN Append(stack, <<>>)[i]}
        = {i \in DOMAIN stack : v \in DOMAIN stack[i]}
  BY FrameFacts
<1> QED
  BY <1>1 DEF Occurrences

LEMMA FrontFacts ==
  ASSUME NEW S, NEW seq \in Seq(S), seq # <<>>
  PROVE  /\ Front(seq) \in Seq(S) /\ Len(Front(seq)) = Len(seq) - 1
         /\ \A i \in 1 .. Len(seq) - 1 : Front(seq)[i] = seq[i]
<1> DEFINE n == Len(seq)
<1>1. n \in Nat /\ n >= 1 /\ \A i \in 1 .. n - 1 : seq[i] \in S
  OBVIOUS
<1> HIDE DEF n
<1>2. /\ SubSeq(seq, 1, n - 1) \in Seq(S)
      /\ Len(SubSeq(seq, 1, n - 1)) = IF 1 <= n - 1 THEN n - 1 - 1 + 1 ELSE 0
      /\ \A i \in 1 .. n - 1 - 1 + 1 : SubSeq(seq, 1, n - 1)[i] = seq[1 + i - 1]
  BY <1>1, SubSeqProperties
<1>3. /\ Len(SubSeq(seq, 1, n - 1)) = n - 1
      /\ \A i \in 1 .. n - 1 : SubSeq(seq, 1, n - 1)[i] = seq[i]
  BY <1>1, <1>2
<1> QED
  BY <1>2, <1>3 DEF Front, n

\* Popping a frame takes away what it binds.
LEMMA OccurrencesPop ==
  ASSUME NEW stack \in Seq(Frame), stack # <<>>, NEW v
  PROVE  /\ Front(stack) \in Seq(Frame) /\ Len(Front(stack)) = Len(stack) - 1
         /\ \A i \in 1 .. Len(stack) - 1 : Front(stack)[i] = stack[i]
         /\ Last(stack) \in Frame /\ Last(stack) = stack[Len(stack)]
         /\ Occurrences(stack, v) =
              Occurrences(Front(stack), v) + (IF v \in DOMAIN Last(stack) THEN 1 ELSE 0)
<1> DEFINE n == Len(stack)
<1>1. n \in Nat /\ n >= 1
  OBVIOUS
<1>2. /\ Front(stack) \in Seq(Frame) /\ Len(Front(stack)) = n - 1
      /\ \A i \in 1 .. n - 1 : Front(stack)[i] = stack[i]
  BY FrontFacts
<1>3. Last(stack) \in Frame /\ Last(stack) = stack[n]
  BY <1>1 DEF Last
<1>4. CASE v \in DOMAIN Last(stack)
  <2>1. /\ {i \in DOMAIN stack : v \in DOMAIN stack[i]}
             = {i \in DOMAIN Front(stack) : v \in DOMAIN Front(stack)[i]} \cup {n}
        /\ n \notin {i \in DOMAIN Front(stack) : v \in DOMAIN Front(stack)[i]}
    BY <1>1, <1>2, <1>3, <1>4
  <2>2. Occurrences(stack, v) = Occurrences(Front(stack), v) + 1
    BY <1>2, <2>1, OccurrencesMore
  <2> QED
    BY <1>2, <1>3, <1>4, <2>2
<1>5. CASE v \notin DOMAIN Last(stack)
  <2>1. {i \in DOMAIN stack : v \in DOMAIN stack[i]}
          = {i \in DOMAIN Front(stack) : v \in DOMAIN Front(stack)[i]}
    BY <1>1, <1>2, <1>3, <1>5
  <2>2. Occurrences(stack, v) = Occurrences(Front(stack), v) /\ Occurrences(stack, v) \in Nat
    BY <2>1, OccurrencesType DEF Occurrences
  <2> QED
    BY <1>2, <1>3, <1>5, <2>2
<1> QED
  BY <1>4, <1>5

\* The innermost frame that binds a Var is one of the stack that does.
LEMMA InnermostFrameBinds ==
  ASSUME Types, NEW g \in G, NEW v, InnermostFrame(g, v) # 0
  PROVE  /\ gls[g] # Nil /\ InnermostFrame(g, v) \in 1 .. Len(StackOf(g))
         /\ v \in DOMAIN StackOf(g)[InnermostFrame(g, v)]
<1> DEFINE stack == StackOf(g)
           binding == {i \in DOMAIN stack : v \in DOMAIN stack[i]}
           Heights == {Len(stack) - i : i \in binding}
<1>1. stack \in Seq(Frame)
  BY DEF Types, StackOf, Nil, Storages
<1>2. /\ binding # {}
      /\ InnermostFrame(g, v) = CHOOSE i \in binding : \A j \in binding : j <= i
  BY DEF InnermostFrame
<1> HIDE DEF stack
<1>3. DOMAIN stack = 1 .. Len(stack) /\ Len(stack) \in Nat
  BY <1>1
<1>4. Heights \subseteq Nat /\ Heights # {}
  BY <1>2, <1>3
<1>5. PICK n \in Heights : \A m \in Heights : n <= m
  <2> HIDE DEF Heights
  <2> QED
    BY <1>4, SmallestNat
<1>6. \E i \in binding : \A j \in binding : j <= i
  <2>1. PICK i \in binding : n = Len(stack) - i
    BY <1>5
  <2>2. ASSUME NEW j \in binding PROVE j <= i
    <3>1. n <= Len(stack) - j
      BY <1>5
    <3> QED
      BY <1>3, <2>1, <3>1
  <2> QED
    BY <2>2
<1>7. InnermostFrame(g, v) \in binding
  <2> HIDE DEF binding
  <2> QED
    BY <1>2, <1>6
<1>8. stack # <<>>
  BY <1>3, <1>7
<1> QED
  BY <1>3, <1>7, <1>8 DEF stack, StackOf


-----------------------------------------------------------------------------
(* Operations, storages and the sum of the contributions.                  *)

LEMMA KindsOfOperations ==
  ASSUME NEW o \in Operations
  PROVE  /\ o.kind \in {"idle", "push", "pop", "uncount", "recount"}
         /\ o.kind = "idle" <=> o = Idle
         /\ o.kind = "push" <=> o \in Pushes
         /\ o.kind = "pop" <=> o \in Pops
         /\ o.kind \in {"uncount", "recount"} <=> o \in Adjusts
  BY DEF Operations, Idle, Pushes, Pops, Adjusts

\* There is always a storage that nothing refers to.
LEMMA UnusedIsUnused ==
  ASSUME Types
  PROVE  /\ Unused \in Storages /\ Unused # Nil /\ Unused # NotCaptured
         /\ Unused # conveyed /\ \A g \in G : gls[g] # Unused
<1> DEFINE n == Cardinality(G)
           Held == {gls[g] : g \in G}
           Free(s) == s # conveyed /\ \A g \in G : gls[g] # s
<1>1. n \in Nat /\ IsFiniteSet(G)
  BY BindingsAssumption, FS_CardinalityType
<1>2. IsFiniteSet(Held) /\ Cardinality(Held) <= n
  <2> DEFINE f == [g \in G |-> gls[g]]
  <2>1. f \in Surjection(G, Held)
    BY DEF Surjection
  <2> QED
    BY <1>1, <2>1, FS_Surjection
<1>3. IsFiniteSet(Held \cup {conveyed}) /\ Cardinality(Held \cup {conveyed}) <= n + 1
  <2> HIDE DEF Held, n
  <2>1. Cardinality(Held) \in Nat
    BY <1>2, FS_CardinalityType
  <2>2. /\ IsFiniteSet(Held \cup {conveyed})
        /\ \/ Cardinality(Held \cup {conveyed}) = Cardinality(Held)
           \/ Cardinality(Held \cup {conveyed}) = Cardinality(Held) + 1
    BY <1>2, FS_AddElement
  <2> QED
    BY <1>1, <1>2, <2>1, <2>2
<1>4. IsFiniteSet(Storages) /\ Cardinality(Storages) = n + 2
  BY <1>1, FS_Interval DEF Storages
<1>5. \E s \in Storages : s \notin Held \cup {conveyed}
  <2> SUFFICES ASSUME Storages \subseteq Held \cup {conveyed} PROVE FALSE
    OBVIOUS
  <2>1. Cardinality(Storages) <= Cardinality(Held \cup {conveyed})
    BY <1>3, FS_Subset
  <2> QED
    BY <1>1, <1>3, <1>4, <2>1, FS_CardinalityType
<1>6. \E s \in Storages : Free(s)
  BY <1>5
<1>7. Unused \in Storages /\ Free(Unused)
  BY <1>6 DEF Unused
<1>8. \A s \in Storages : s # Nil /\ s # NotCaptured
  BY <1>1 DEF Storages, Nil, NotCaptured
<1> QED
  BY <1>7, <1>8

LEMMA StackType ==
  ASSUME Types, NEW g \in G
  PROVE  /\ StackOf(g) \in Seq(Frame)
         /\ gls[g] # Nil => gls[g] \in Storages /\ StackOf(g) = store[gls[g]]
         /\ gls[g] = Nil => StackOf(g) = <<>>
         /\ Nil \notin Storages /\ NotCaptured \notin Storages
  BY BindingsAssumption, FS_CardinalityType DEF Types, StackOf, Nil, Storages, NotCaptured

\* What a goroutine accounts for is at least what it has bound, except during a reset.
LEMMA ContributionType ==
  ASSUME Types, OperationsSound, NEW g \in G, NEW v \in Vars
  PROVE  /\ Contribution(g, v) \in Nat
         /\ op[g].kind \in {"idle", "push", "pop"}
              => Contribution(g, v) >= Occurrences(StackOf(g), v)
<1>1. Occurrences(StackOf(g), v) \in Nat
  BY StackType, OccurrencesType
<1>2. op[g] \in Operations
  BY DEF Types
<1>3. /\ op[g].kind \in {"uncount", "recount"} => op[g].left[v] \in Nat
      /\ op[g].kind = "recount" => op[g].left[v] <= Occurrences(StackOf(g), v)
  BY <1>2, KindsOfOperations DEF Adjusts, OperationsSound, OperationSound
<1> QED
  BY <1>1, <1>2, <1>3, KindsOfOperations DEF Contribution

\* The sum of CountTracksFrames is a sum as in FoldLemmas.
LEMMA SumOfContributions ==
  ASSUME Types, OperationsSound, NEW v \in Vars
  PROVE  \E iter : /\ IsSum(iter, [g \in G |-> Contribution(g, v)], G)
                   /\ Accounted(v) = iter[G]
<1> DEFINE c == [g \in G |-> Contribution(g, v)]
           body(iter) == [s \in SUBSET G |-> IF s = {} THEN 0
                                             ELSE LET x == CHOOSE x \in s : TRUE
                                                  IN Contribution(x, v) + iter[s \ {x}]]
           sum == CHOOSE iter : iter = body(iter)
<1>1. Accounted(v) = sum[G]
  BY DEF Accounted, MapThenSumSet, MapThenFoldSet
<1>2. \A iter : IsSum(iter, c, G) <=> iter = body(iter)
  BY DEF IsSum
<1>3. \E iter : IsSum(iter, c, G)
  <2>1. c \in [G -> Int]
    BY ContributionType
  <2> HIDE DEF c
  <2> QED
    BY <2>1, BindingsAssumption, SumExists
<1>4. sum = body(sum)
  <2> HIDE DEF body, c
  <2>1. \E iter : iter = body(iter)
    BY <1>2, <1>3
  <2> QED
    BY <2>1
<1>5. IsSum(sum, c, G)
  BY <1>2, <1>4
<1> HIDE DEF sum
<1> QED
  BY <1>1, <1>5

LEMMA ContributionsPrime ==
  Types' /\ OperationsSound' =>
    \A v \in Vars : /\ \E iter : /\ IsSum(iter, [g \in G |-> Contribution(g, v)'], G)
                                  /\ Accounted(v)' = iter[G]
                   /\ \A g \in G : Contribution(g, v)' \in Nat
<1>1. Types /\ OperationsSound =>
        \A v \in Vars : /\ \E iter : /\ IsSum(iter, [g \in G |-> Contribution(g, v)], G)
                                      /\ Accounted(v) = iter[G]
                       /\ \A g \in G : Contribution(g, v) \in Nat
  BY SumOfContributions, ContributionType
<1>2. (Types /\ OperationsSound =>
         \A v \in Vars : /\ \E iter : /\ IsSum(iter, [g \in G |-> Contribution(g, v)], G)
                                       /\ Accounted(v) = iter[G]
                        /\ \A g \in G : Contribution(g, v) \in Nat)'
  BY <1>1, PTL
<1> QED
  BY <1>2

-----------------------------------------------------------------------------
(* The initial states and the steps.                                       *)

LEMMA InitInvariant == Init => IInv
<1> SUFFICES ASSUME Init PROVE IInv
  OBVIOUS
<1> USE DEF Init
<1>1. \A g \in G : op[g] = Idle /\ op[g].kind = "idle" /\ StackOf(g) = <<>> /\ active[g] = <<>>
  BY DEF Idle, StackOf
<1>2. \A s \in Storages : s # Nil /\ s # NotCaptured
  BY BindingsAssumption, FS_CardinalityType DEF Storages, Nil, NotCaptured
<1>3. Types
  <2>1. store \in [Storages -> Seq(Frame)] /\ active \in [G -> Seq(SUBSET Vars)]
    OBVIOUS
  <2>2. gls \in [G -> Storages \cup {Nil}] /\ op \in [G -> Operations] /\ count \in [Vars -> Int]
    BY DEF Operations
  <2> QED
    BY <2>1, <2>2 DEF Types
<1>4. MutexHeld /\ StoragePrivate
  BY <1>1, BindingsAssumption DEF MutexHeld, StoragePrivate
<1>5. StorageInUse
  BY <1>2 DEF StorageInUse
<1>6. OperationsSound
  BY <1>1 DEF OperationsSound, OperationSound
<1>7. ASSUME NEW v \in Vars
      PROVE  count[v] = Accounted(v)
  <2> DEFINE c == [g \in G |-> Contribution(g, v)]
             zero == [g \in G |-> 0]
  <2>1. \A g \in G : Contribution(g, v) = 0
    BY <1>1, OccurrencesEmpty DEF Contribution
  <2>2. PICK iter : /\ IsSum(iter, c, G)
                    /\ Accounted(v) = iter[G]
    BY <1>3, <1>6, SumOfContributions
  <2>3. c = zero
    BY <2>1
  <2>4. iter[G] = 0
    <3>1. IsSum(iter, zero, G) /\ IsFiniteSet(G)
      BY <2>2, <2>3, BindingsAssumption
    <3> HIDE DEF zero
    <3> QED
      BY <3>1, SumOfZeros DEF zero
  <2> QED
    BY <2>2, <2>4
<1> QED
  BY <1>3, <1>4, <1>5, <1>6, <1>7 DEF IInv, CountTracksFrames

\* A step of goroutine g: what it changes in the counters is the change of what g
\* accounts for.
LEMMA StepOfOne ==
  ASSUME IInv, NEW g \in G, NEW o \in Operations, op' = [op EXCEPT ![g] = o],
         Types', MutexHeld', StoragePrivate', StorageInUse',
         \A h \in G : h # g => /\ StackOf(h)' = StackOf(h) /\ active'[h] = active[h]
                               /\ h \in panicked' => h \in panicked
                               /\ h \in panicked => h \in panicked',
         OperationSound(o, StackOf(g)', active'[g], g \in panicked'),
         \A v \in Vars : count'[v] = count[v] + (Contribution(g, v)' - Contribution(g, v))
  PROVE  IInv'
<1>1. op'[g] = o /\ \A h \in G : h # g => op'[h] = op[h]
  BY DEF IInv, Types
<1>2. OperationsSound'
  <2> SUFFICES ASSUME NEW h \in G
               PROVE  OperationSound(op'[h], StackOf(h)', active'[h], h \in panicked')
    BY DEF OperationsSound
  <2>1. CASE h = g
    BY <1>1, <2>1
  <2>2. CASE h # g
    <3>1. OperationSound(op[h], StackOf(h), active[h], h \in panicked)
      BY DEF IInv, OperationsSound
    <3> QED
      BY <1>1, <2>2, <3>1 DEF OperationSound
  <2> QED
    BY <2>1, <2>2
<1>3. \A h \in G, v \in Vars : Contribution(h, v) \in Nat
  BY ContributionType DEF IInv
<1>4. \A h \in G, v \in Vars : Contribution(h, v)' \in Nat
  BY <1>2, ContributionsPrime
<1>5. ASSUME NEW v \in Vars
      PROVE  count'[v] = Accounted(v)'
  <2> DEFINE c == [h \in G |-> Contribution(h, v)]
             d == [h \in G |-> Contribution(h, v)']
  <2>1. c \in [G -> Int] /\ d \in [G -> Int]
    BY <1>3, <1>4
  <2>2. \A h \in G : h # g => Contribution(h, v)' = Contribution(h, v)
    BY <1>1 DEF Contribution
  <2>3. \A h \in G : h # g => c[h] = d[h]
    BY <2>2
  <2>4. c[g] = Contribution(g, v) /\ d[g] = Contribution(g, v)'
    OBVIOUS
  <2>5. PICK i : IsSum(i, c, G) /\ Accounted(v) = i[G]
    BY SumOfContributions DEF IInv
  <2>6. PICK j : IsSum(j, d, G) /\ Accounted(v)' = j[G]
    BY <1>2, ContributionsPrime
  <2>7. count[v] = i[G]
    BY <2>5 DEF IInv, CountTracksFrames
  <2> HIDE DEF c, d
  <2>8. i[G] \in Int /\ j[G] \in Int /\ j[G] = i[G] + (d[g] - c[g])
    BY <2>1, <2>3, <2>5, <2>6, SumChange, BindingsAssumption
  <2> QED
    BY <2>4, <2>6, <2>7, <2>8
<1> QED
  BY <1>2, <1>5 DEF IInv, CountTracksFrames


\* Goroutine g's stack becomes stack, in its storage or in one it has just taken.
LEMMA SetStack ==
  ASSUME IInv, NEW g \in G, NEW stack \in Seq(Frame), stack # <<>>,
         NEW s, s = IF gls[g] = Nil THEN Unused ELSE gls[g],
         gls' = [gls EXCEPT ![g] = s], store' = [store EXCEPT ![s] = stack],
         UNCHANGED conveyed
  PROVE  /\ StoragePrivate' /\ StorageInUse'
         /\ gls' \in [G -> Storages \cup {Nil}] /\ store' \in [Storages -> Seq(Frame)]
         /\ StackOf(g)' = stack
         /\ \A h \in G : h # g => StackOf(h)' = StackOf(h)
<1>1. Types /\ StoragePrivate /\ StorageInUse
  BY DEF IInv
<1>2. /\ Unused \in Storages /\ Unused # Nil /\ Unused # conveyed
      /\ \A h \in G : gls[h] # Unused
  BY <1>1, UnusedIsUnused
<1>3. /\ s \in Storages /\ s # Nil /\ s # conveyed
      /\ \A h \in G : h # g => gls[h] # s
  BY <1>1, <1>2, StackType DEF StoragePrivate
<1>4. /\ gls'[g] = s /\ \A h \in G : h # g => gls'[h] = gls[h]
      /\ store'[s] = stack /\ \A t \in Storages : t # s => store'[t] = store[t]
  BY <1>1, <1>3 DEF Types
<1>5. /\ gls' \in [G -> Storages \cup {Nil}] /\ store' \in [Storages -> Seq(Frame)]
  BY <1>1, <1>3 DEF Types
<1>6. StoragePrivate'
  BY <1>1, <1>3, <1>4 DEF StoragePrivate
<1>7. StackOf(g)' = stack /\ \A h \in G : h # g => StackOf(h)' = StackOf(h)
  <2>1. StackOf(g)' = stack
    BY <1>3, <1>4 DEF StackOf
  <2>2. ASSUME NEW h \in G, h # g PROVE StackOf(h)' = StackOf(h)
    BY <1>1, <1>3, <1>4, <2>2, StackType DEF StackOf
  <2> QED
    BY <2>1, <2>2
<1>8. StorageInUse'
  <2>1. \A h \in G : gls'[h] # Nil => store'[gls'[h]] # <<>>
    BY <1>1, <1>3, <1>4, StackType DEF StorageInUse
  <2>2. conveyed' \in Storages => store'[conveyed'] # <<>>
    BY <1>1, <1>3, <1>4 DEF StorageInUse
  <2>3. ASSUME NEW t \in Storages, t # conveyed', \A h \in G : gls'[h] # t
        PROVE  store'[t] = <<>>
    <3>1. t # s
      BY <1>4, <2>3
    <3>2. gls[g] # t
      BY <1>1, <3>1, StackType
    <3>3. \A h \in G : gls[h] # t
      BY <1>4, <2>3, <3>2
    <3> QED
      BY <1>1, <1>4, <2>3, <3>1, <3>3 DEF StorageInUse
  <2> QED
    BY <2>1, <2>2, <2>3 DEF StorageInUse
<1> QED
  BY <1>5, <1>6, <1>7, <1>8

\* The storages stay what they are.
LEMMA StoragesKept ==
  ASSUME IInv, UNCHANGED <<gls, store, conveyed>>
  PROVE  /\ StoragePrivate' /\ StorageInUse'
         /\ \A h \in G : StackOf(h)' = StackOf(h)
  BY DEF IInv, StoragePrivate, StorageInUse, StackOf

\* A step outside a reset leaves the mutex to whoever holds it.
LEMMA MutexKept ==
  ASSUME IInv, NEW g \in G, NEW o, op' = [op EXCEPT ![g] = o], UNCHANGED mtx,
         conveyed' = conveyed \/ conveyed' # NotCaptured,
         o.kind \in {"uncount", "recount"} <=> op[g].kind \in {"uncount", "recount"},
         o.kind = "uncount" => op[g].kind = "uncount"
  PROVE  MutexHeld'
  BY DEF IInv, Types, MutexHeld

LEMMA PushFrameInvariant ==
  ASSUME IInv, NEW g \in G, NEW bindings \in Forms, PushFrame(g, bindings)
  PROVE  IInv'
<1> DEFINE s == IF gls[g] = Nil THEN Unused ELSE gls[g]
           o == [kind |-> "push", left |-> bindings, all |-> DOMAIN bindings]
           stack == Append(StackOf(g), <<>>)
<1>1. /\ op[g] = Idle /\ gls' = [gls EXCEPT ![g] = s]
      /\ store' = [store EXCEPT ![s] = Append(store[s], <<>>)]
      /\ op' = [op EXCEPT ![g] = o]
      /\ UNCHANGED <<count, mtx, conveyed, active, panicked>>
  BY DEF PushFrame
<1>2. Types /\ StorageInUse
  BY DEF IInv
<1>3. bindings \in Frame /\ DOMAIN bindings \in SUBSET Vars
  BY BindingsAssumption, FrameFacts DEF Frame
<1>4. o \in Operations /\ o.kind = "push" /\ o.left = bindings /\ o.all = DOMAIN bindings
  BY <1>3 DEF Operations, Pushes
<1>5. s \in Storages /\ store[s] = StackOf(g)
  <2>1. CASE gls[g] = Nil
    <3>1. /\ Unused \in Storages /\ Unused # conveyed /\ \A h \in G : gls[h] # Unused
      BY <1>2, UnusedIsUnused
    <3>2. store[Unused] = <<>>
      BY <1>2, <3>1 DEF StorageInUse
    <3> QED
      BY <1>2, <2>1, <3>1, <3>2, StackType
  <2>2. CASE gls[g] # Nil
    BY <1>2, <2>2, StackType
  <2> QED
    BY <2>1, <2>2
<1>6. stack \in Seq(Frame) /\ stack # <<>> /\ Len(stack) = Len(StackOf(g)) + 1
      /\ stack[Len(stack)] = <<>> /\ \A i \in 1 .. Len(StackOf(g)) : stack[i] = StackOf(g)[i]
  <2>1. StackOf(g) \in Seq(Frame) /\ <<>> \in Frame
    BY <1>2, StackType, FrameFacts
  <2> QED
    BY <2>1
<1> HIDE DEF s, o, stack
<1>7. /\ StoragePrivate' /\ StorageInUse'
      /\ gls' \in [G -> Storages \cup {Nil}] /\ store' \in [Storages -> Seq(Frame)]
      /\ StackOf(g)' = stack
      /\ \A h \in G : h # g => StackOf(h)' = StackOf(h)
  BY <1>1, <1>5, <1>6, SetStack DEF s, stack
<1>8. Types'
  BY <1>1, <1>2, <1>4, <1>7 DEF Types
<1>9. MutexHeld'
  <2>1. op[g].kind = "idle"
    BY <1>1 DEF Idle
  <2> QED
    BY <1>1, <1>4, <2>1, MutexKept
<1>10. OperationSound(o, StackOf(g)', active'[g], g \in panicked')
  <2>1. OperationSound(op[g], StackOf(g), active[g], g \in panicked)
    BY DEF IInv, OperationsSound
  <2>2. g \notin panicked => /\ Len(StackOf(g)) = Len(active[g])
                             /\ \A i \in 1 .. Len(active[g]) : DOMAIN StackOf(g)[i] = active[g][i]
    BY <1>1, <1>2, <2>1, StackType DEF OperationSound, Idle, Types
  <2>3. DOMAIN stack[Len(stack)] = {}
    BY <1>6, FrameFacts
  <2> QED
    BY <1>1, <1>4, <1>6, <1>7, <2>2, <2>3 DEF OperationSound
<1>11. ASSUME NEW v \in Vars
       PROVE  count'[v] = count[v] + (Contribution(g, v)' - Contribution(g, v))
  <2>1. StackOf(g) \in Seq(Frame) /\ count[v] \in Int /\ op'[g] = o
    BY <1>1, <1>2, StackType DEF Types
  <2>2. Occurrences(stack, v) = Occurrences(StackOf(g), v) /\ Occurrences(StackOf(g), v) \in Nat
    BY <2>1, OccurrencesPush, OccurrencesType DEF stack
  <2>3. Contribution(g, v)' = Occurrences(stack, v)
    BY <1>4, <1>7, <2>1 DEF Contribution
  <2>4. Contribution(g, v) = Occurrences(StackOf(g), v)
    BY <1>1 DEF Contribution, Idle
  <2> QED
    BY <1>1, <2>1, <2>2, <2>3, <2>4
<1> QED
  BY <1>1, <1>4, <1>7, <1>8, <1>9, <1>10, <1>11, StepOfOne


LEMMA BindInFrameInvariant ==
  ASSUME IInv, NEW g \in G, BindInFrame(g)
  PROVE  IInv'
<1>1. Types /\ op[g] \in Pushes /\ op[g].kind = "push"
  BY KindsOfOperations DEF BindInFrame, IInv, Types
<1>2. OperationSound(op[g], StackOf(g), active[g], g \in panicked)
  BY DEF IInv, OperationsSound
<1>3. /\ gls[g] # Nil /\ gls[g] \in Storages /\ StackOf(g) = store[gls[g]]
      /\ StackOf(g) \in Seq(Frame) /\ StackOf(g) # <<>>
  BY <1>1, <1>2, StackType DEF OperationSound
<1> DEFINE stack == StackOf(g)
           top == Len(stack)
           left == op[g].left
           s == gls[g]
<1>4. PICK v \in DOMAIN left \cap DynamicVars :
        /\ store' = [store EXCEPT ![s][top] =
                       [w \in DOMAIN stack[top] \cup {v} |->
                          IF w = v THEN left[v] ELSE stack[top][w]]]
        /\ count' = [count EXCEPT ![v] = @ + 1]
        /\ op' = [op EXCEPT ![g].left = [w \in DOMAIN left \ {v} |-> left[w]]]
  BY <1>3 DEF BindInFrame
<1> DEFINE frame == [w \in DOMAIN stack[top] \cup {v} |->
                       IF w = v THEN left[v] ELSE stack[top][w]]
           new == [stack EXCEPT ![top] = frame]
           rest == [w \in DOMAIN left \ {v} |-> left[w]]
           o == [op[g] EXCEPT !.left = rest]
<1>5. /\ store' = [store EXCEPT ![s] = new] /\ op' = [op EXCEPT ![g] = o]
      /\ UNCHANGED <<gls, mtx, conveyed, active, panicked>>
  BY <1>3, <1>4 DEF BindInFrame
<1>6. left \in Frame /\ stack[top] \in Frame /\ top \in 1 .. Len(stack)
      /\ op[g].all \in SUBSET Vars
  BY <1>1, <1>3 DEF Pushes
<1>7. /\ DOMAIN left \in SUBSET Vars /\ \A w \in DOMAIN left : left[w] \in Values
      /\ DOMAIN stack[top] \in SUBSET Vars /\ \A w \in DOMAIN stack[top] : stack[top][w] \in Values
  BY <1>6, FrameFacts
<1>8. v \in Vars /\ v \in DOMAIN left /\ v \notin DOMAIN stack[top]
      /\ DOMAIN left \cup DOMAIN stack[top] = op[g].all
      /\ DOMAIN left \cap DOMAIN stack[top] = {}
  BY <1>1, <1>2, <1>4, <1>7 DEF OperationSound
<1>9. /\ frame \in Frame /\ DOMAIN frame = DOMAIN stack[top] \cup {v}
      /\ rest \in Frame /\ DOMAIN rest = DOMAIN left \ {v}
  <2>1. frame \in [DOMAIN stack[top] \cup {v} -> Values] /\ rest \in [DOMAIN left \ {v} -> Values]
    BY <1>7, <1>8
  <2>2. DOMAIN stack[top] \cup {v} \in SUBSET Vars /\ DOMAIN left \ {v} \in SUBSET Vars
    BY <1>7, <1>8
  <2> HIDE DEF frame, rest
  <2> QED
    BY <2>1, <2>2, FrameFacts
<1> HIDE DEF frame, rest
<1>10. /\ o \in Pushes /\ o.kind = "push" /\ o.left = rest /\ o.all = op[g].all
  BY <1>1, <1>9 DEF Pushes
<1> HIDE DEF o, left
<1>11. /\ new \in Seq(Frame) /\ new # <<>> /\ Len(new) = top /\ new[top] = frame
       /\ \A i \in 1 .. top : i # top => new[i] = stack[i]
  BY <1>3, <1>6, <1>9
<1> HIDE DEF new
<1>12. /\ StoragePrivate' /\ StorageInUse'
       /\ gls' \in [G -> Storages \cup {Nil}] /\ store' \in [Storages -> Seq(Frame)]
       /\ StackOf(g)' = new
       /\ \A h \in G : h # g => StackOf(h)' = StackOf(h)
  <2>1. gls' = [gls EXCEPT ![g] = s]
    BY <1>1, <1>5 DEF Types
  <2> QED
    BY <1>3, <1>5, <1>11, <2>1, SetStack
<1>13. Types'
  <2>1. count' \in [Vars -> Int]
    BY <1>1, <1>4, <1>8 DEF Types
  <2>2. op' \in [G -> Operations]
    BY <1>1, <1>5, <1>10 DEF Types, Operations
  <2> QED
    BY <1>1, <1>5, <1>12, <2>1, <2>2 DEF Types
<1>14. MutexHeld'
  BY <1>1, <1>5, <1>10, MutexKept
<1>15. OperationSound(o, StackOf(g)', active'[g], g \in panicked')
  <2>1. g \notin panicked => /\ top = Len(active[g]) + 1
                             /\ \A i \in 1 .. Len(active[g]) : DOMAIN stack[i] = active[g][i]
    BY <1>1, <1>2 DEF OperationSound
  <2>2. g \notin panicked => /\ Len(new) = Len(active[g]) + 1
                             /\ \A i \in 1 .. Len(active[g]) : DOMAIN new[i] = active[g][i]
    <3>1. Len(active[g]) \in Nat /\ top \in Nat
      BY <1>1, <1>3 DEF Types
    <3> QED
      BY <1>11, <2>1, <3>1
  <2>3. /\ DOMAIN rest \cup DOMAIN new[Len(new)] = o.all
        /\ DOMAIN rest \cap DOMAIN new[Len(new)] = {}
    BY <1>8, <1>9, <1>10, <1>11
  <2> QED
    BY <1>5, <1>10, <1>11, <1>12, <2>2, <2>3 DEF OperationSound
<1>16. ASSUME NEW u \in Vars
       PROVE  count'[u] = count[u] + (Contribution(g, u)' - Contribution(g, u))
  <2>1. count[u] \in Int /\ count[v] \in Int /\ op'[g] = o
        /\ count'[u] = IF u = v THEN count[u] + 1 ELSE count[u]
    BY <1>1, <1>4, <1>5, <1>8 DEF Types
  <2>2. Contribution(g, u)' = Occurrences(new, u)
    BY <1>10, <1>12, <2>1 DEF Contribution
  <2>3. Contribution(g, u) = Occurrences(stack, u)
    BY <1>1 DEF Contribution
  <2>4. Occurrences(stack, u) \in Nat
    BY <1>3, OccurrencesType
  <2>5. CASE u = v
    <3>1. /\ {i \in DOMAIN new : v \in DOMAIN new[i]}
               = {i \in DOMAIN stack : v \in DOMAIN stack[i]} \cup {top}
          /\ top \notin {i \in DOMAIN stack : v \in DOMAIN stack[i]}
      BY <1>3, <1>6, <1>8, <1>9, <1>11
    <3>2. Occurrences(new, v) = Occurrences(stack, v) + 1
      BY <1>3, <1>11, <3>1, OccurrencesMore
    <3> QED
      BY <2>1, <2>2, <2>3, <2>4, <2>5, <3>2
  <2>6. CASE u # v
    <3>1. \A i \in 1 .. Len(stack) : u \in DOMAIN new[i] <=> u \in DOMAIN stack[i]
      BY <1>9, <1>11, <2>6
    <3>2. Occurrences(new, u) = Occurrences(stack, u)
      BY <1>3, <1>11, <3>1, OccurrencesSame
    <3> QED
      BY <2>1, <2>2, <2>3, <2>4, <2>6, <3>2
  <2> QED
    BY <2>5, <2>6
<1> QED
  BY <1>5, <1>10, <1>12, <1>13, <1>14, <1>15, <1>16, StepOfOne DEF Operations


LEMMA PushPanicsInvariant ==
  ASSUME IInv, NEW g \in G, PushPanics(g)
  PROVE  IInv'
<1>1. /\ op[g].kind = "push" /\ op' = [op EXCEPT ![g] = Idle] /\ panicked' = panicked \cup {g}
      /\ UNCHANGED <<count, gls, store, mtx, conveyed, active>>
  BY DEF PushPanics
<1>2. Types /\ Idle.kind = "idle" /\ Idle \in Operations
  BY DEF IInv, Idle, Operations
<1>3. /\ StoragePrivate' /\ StorageInUse' /\ \A h \in G : StackOf(h)' = StackOf(h)
  BY <1>1, StoragesKept
<1>4. Types'
  BY <1>1, <1>2 DEF Types
<1>5. MutexHeld'
  BY <1>1, <1>2, MutexKept
<1>6. OperationSound(Idle, StackOf(g)', active'[g], g \in panicked')
  BY <1>1, <1>2 DEF OperationSound
<1>7. ASSUME NEW v \in Vars
      PROVE  count'[v] = count[v] + (Contribution(g, v)' - Contribution(g, v))
  <2>1. count[v] \in Int /\ op'[g] = Idle /\ Contribution(g, v) \in Nat
    BY <1>1, <1>2, ContributionType DEF Types, IInv
  <2>2. Contribution(g, v)' = Contribution(g, v)
    BY <1>1, <1>2, <1>3, <2>1 DEF Contribution
  <2> QED
    BY <1>1, <2>1, <2>2
<1> QED
  BY <1>1, <1>2, <1>3, <1>4, <1>5, <1>6, <1>7, StepOfOne

LEMMA PushReturnsInvariant ==
  ASSUME IInv, NEW g \in G, PushReturns(g)
  PROVE  IInv'
<1>1. /\ op[g].kind = "push" /\ DOMAIN op[g].left = {} /\ op' = [op EXCEPT ![g] = Idle]
      /\ active' = [active EXCEPT ![g] = Append(active[g], op[g].all)]
      /\ UNCHANGED <<count, gls, store, mtx, conveyed, panicked>>
  BY DEF PushReturns
<1>2. Types /\ Idle.kind = "idle" /\ Idle \in Operations
  BY DEF IInv, Idle, Operations
<1>3. /\ StoragePrivate' /\ StorageInUse' /\ \A h \in G : StackOf(h)' = StackOf(h)
  BY <1>1, StoragesKept
<1>4. op[g] \in Pushes /\ op[g].all \in SUBSET Vars /\ active[g] \in Seq(SUBSET Vars)
  BY <1>1, <1>2, KindsOfOperations DEF Types, Pushes
<1>5. Types'
  <2>1. active' \in [G -> Seq(SUBSET Vars)] /\ op' \in [G -> Operations]
    BY <1>1, <1>2, <1>4 DEF Types
  <2> QED
    BY <1>1, <1>2, <2>1 DEF Types
<1>6. MutexHeld'
  BY <1>1, <1>2, MutexKept
<1>7. OperationSound(Idle, StackOf(g)', active'[g], g \in panicked')
  <2>1. OperationSound(op[g], StackOf(g), active[g], g \in panicked)
    BY DEF IInv, OperationsSound
  <2>2. active'[g] = Append(active[g], op[g].all)
    BY <1>1, <1>2 DEF Types
  <2>3. /\ Len(active'[g]) = Len(active[g]) + 1 /\ Len(active[g]) \in Nat
        /\ active'[g][Len(active[g]) + 1] = op[g].all
        /\ \A i \in 1 .. Len(active[g]) : active'[g][i] = active[g][i]
    BY <1>4, <2>2
  <2>4. DOMAIN StackOf(g)[Len(StackOf(g))] = op[g].all
    BY <1>1, <2>1 DEF OperationSound
  <2>5. g \notin panicked => /\ Len(StackOf(g)) = Len(active[g]) + 1
                             /\ \A i \in 1 .. Len(active[g]) : DOMAIN StackOf(g)[i] = active[g][i]
    BY <1>1, <2>1 DEF OperationSound
  <2>6. g \notin panicked => /\ Len(StackOf(g)) = Len(active'[g])
                             /\ \A i \in 1 .. Len(active'[g]) : DOMAIN StackOf(g)[i] = active'[g][i]
    BY <2>3, <2>4, <2>5
  <2> QED
    BY <1>1, <1>2, <1>3, <2>3, <2>6 DEF OperationSound
<1>8. ASSUME NEW v \in Vars
      PROVE  count'[v] = count[v] + (Contribution(g, v)' - Contribution(g, v))
  <2>1. count[v] \in Int /\ op'[g] = Idle /\ Contribution(g, v) \in Nat
    BY <1>1, <1>2, ContributionType DEF Types, IInv
  <2>2. Contribution(g, v)' = Contribution(g, v)
    BY <1>1, <1>2, <1>3, <2>1 DEF Contribution
  <2> QED
    BY <1>1, <2>1, <2>2
<1> QED
  <2>1. \A h \in G : h # g => active'[h] = active[h]
    BY <1>1, <1>2 DEF Types
  <2> QED
    BY <1>1, <1>2, <1>3, <1>5, <1>6, <1>7, <1>8, <2>1, StepOfOne

LEMMA PopCountInvariant ==
  ASSUME IInv, NEW g \in G, PopCount(g)
  PROVE  IInv'
<1>1. /\ op[g].kind = "pop" /\ UNCHANGED <<gls, store, mtx, conveyed, active, panicked>>
  BY DEF PopCount
<1>2. Types /\ Idle.kind = "idle" /\ Idle \in Operations
  BY DEF IInv, Idle, Operations
<1>3. /\ StoragePrivate' /\ StorageInUse' /\ \A h \in G : StackOf(h)' = StackOf(h)
  BY <1>1, StoragesKept
<1>4. op[g] \in Pops /\ OperationSound(op[g], StackOf(g), active[g], g \in panicked)
  BY <1>1, <1>2, KindsOfOperations DEF Types, IInv, OperationsSound
<1>5. \A v \in Vars : Occurrences(StackOf(g), v) \in Nat /\ count[v] \in Int
  BY <1>2, StackType, OccurrencesType DEF Types
<1>6. CASE \E v \in op[g].left : /\ count' = [count EXCEPT ![v] = @ - 1]
                                 /\ op' = [op EXCEPT ![g].left = @ \ {v}]
  <2>1. PICK v \in op[g].left : /\ count' = [count EXCEPT ![v] = @ - 1]
                                /\ op' = [op EXCEPT ![g].left = @ \ {v}]
    BY <1>6
  <2> DEFINE o == [op[g] EXCEPT !.left = op[g].left \ {v}]
  <2>2. op' = [op EXCEPT ![g] = o]
    BY <2>1
  <2>3. o \in Pops /\ o.kind = "pop" /\ o.left = op[g].left \ {v} /\ v \in Vars
    BY <1>4, <2>1 DEF Pops
  <2> HIDE DEF o
  <2>4. Types'
    <3>1. count' \in [Vars -> Int]
      BY <1>2, <2>1, <2>3 DEF Types
    <3>2. op' \in [G -> Operations]
      BY <1>2, <2>2, <2>3 DEF Types, Operations
    <3> QED
      BY <1>1, <1>2, <3>1, <3>2 DEF Types
  <2>5. MutexHeld'
    BY <1>1, <2>2, <2>3, MutexKept
  <2>6. OperationSound(o, StackOf(g)', active'[g], g \in panicked')
    BY <1>1, <1>3, <1>4, <2>3 DEF OperationSound
  <2>7. ASSUME NEW u \in Vars
        PROVE  count'[u] = count[u] + (Contribution(g, u)' - Contribution(g, u))
    <3>1. op'[g] = o /\ count'[u] = IF u = v THEN count[u] - 1 ELSE count[u]
      BY <1>2, <2>1, <2>2 DEF Types
    <3>2. Contribution(g, u) = Occurrences(StackOf(g), u) + IF u \in op[g].left THEN 1 ELSE 0
      BY <1>1 DEF Contribution
    <3>3. Contribution(g, u)' = Occurrences(StackOf(g), u) + IF u \in op[g].left \ {v} THEN 1 ELSE 0
      BY <1>3, <2>3, <3>1 DEF Contribution
    <3> QED
      BY <1>5, <3>1, <3>2, <3>3
  <2> QED
    BY <1>1, <1>3, <2>2, <2>3, <2>4, <2>5, <2>6, <2>7, StepOfOne DEF Operations
<1>7. CASE op[g].left = {} /\ op' = [op EXCEPT ![g] = Idle] /\ UNCHANGED count
  <2>1. Types'
    BY <1>1, <1>2, <1>7 DEF Types
  <2>2. MutexHeld'
    BY <1>1, <1>2, <1>7, MutexKept
  <2>3. OperationSound(Idle, StackOf(g)', active'[g], g \in panicked')
    BY <1>1, <1>2, <1>3, <1>4 DEF OperationSound
  <2>4. ASSUME NEW u \in Vars
        PROVE  count'[u] = count[u] + (Contribution(g, u)' - Contribution(g, u))
    <3>1. Contribution(g, u) = Occurrences(StackOf(g), u)
      BY <1>1, <1>5, <1>7 DEF Contribution
    <3>2. Contribution(g, u)' = Occurrences(StackOf(g), u)
      BY <1>2, <1>3, <1>7 DEF Contribution, Types
    <3> QED
      BY <1>5, <1>7, <3>1, <3>2
  <2> QED
    BY <1>1, <1>2, <1>3, <1>7, <2>1, <2>2, <2>3, <2>4, StepOfOne
<1> QED
  BY <1>6, <1>7 DEF PopCount


LEMMA ResetStartInvariant ==
  ASSUME IInv, NEW g \in G, ResetStart(g)
  PROVE  IInv'
<1> DEFINE left == [v \in Vars |-> Occurrences(StackOf(g), v)]
           o == [kind |-> "uncount", left |-> left]
<1>1. /\ op[g] = Idle /\ mtx = NoOne /\ mtx' = g /\ op' = [op EXCEPT ![g] = o]
      /\ UNCHANGED <<count, gls, store, conveyed, active, panicked>>
  BY DEF ResetStart
<1>2. Types /\ op[g].kind = "idle"
  BY <1>1 DEF IInv, Idle
<1>3. /\ StoragePrivate' /\ StorageInUse' /\ \A h \in G : StackOf(h)' = StackOf(h)
  BY <1>1, StoragesKept
<1>4. left \in [Vars -> Nat] /\ \A v \in Vars : left[v] = Occurrences(StackOf(g), v)
  BY <1>2, StackType, OccurrencesType
<1> HIDE DEF left
<1>5. o \in Operations /\ o.kind = "uncount" /\ o.left = left
  BY <1>4 DEF Operations, Adjusts
<1> HIDE DEF o
<1>6. Types'
  BY <1>1, <1>2, <1>5 DEF Types
<1>7. MutexHeld'
  <2>1. op'[g] = o /\ \A h \in G : h # g => op'[h] = op[h]
    BY <1>1, <1>2 DEF Types
  <2>2. \A h \in G : op[h].kind \notin {"uncount", "recount"}
    BY <1>1, BindingsAssumption DEF IInv, MutexHeld
  <2>3. conveyed' # NotCaptured
    BY DEF ResetStart
  <2> QED
    BY <1>1, <1>5, <2>1, <2>2, <2>3 DEF MutexHeld
<1>8. OperationSound(o, StackOf(g)', active'[g], g \in panicked')
  <2>1. OperationSound(op[g], StackOf(g), active[g], g \in panicked)
    BY DEF IInv, OperationsSound
  <2> QED
    BY <1>1, <1>2, <1>3, <1>5, <2>1 DEF OperationSound
<1>9. ASSUME NEW v \in Vars
      PROVE  count'[v] = count[v] + (Contribution(g, v)' - Contribution(g, v))
  <2>1. count[v] \in Int /\ left[v] \in Nat /\ op'[g] = o
    BY <1>1, <1>2, <1>4 DEF Types
  <2>2. Contribution(g, v) = left[v]
    BY <1>2, <1>4 DEF Contribution
  <2>3. Contribution(g, v)' = left[v]
    BY <1>5, <2>1 DEF Contribution
  <2> QED
    BY <1>1, <2>1, <2>2, <2>3
<1> QED
  BY <1>1, <1>3, <1>5, <1>6, <1>7, <1>8, <1>9, StepOfOne

LEMMA AdjustCountInvariant ==
  ASSUME IInv, NEW g \in G, AdjustCount(g)
  PROVE  IInv'
<1>1. /\ op[g].kind \in {"uncount", "recount"}
      /\ UNCHANGED <<gls, store, mtx, conveyed, active, panicked>>
  BY DEF AdjustCount
<1>2. PICK v \in Vars :
        /\ op[g].left[v] > 0
        /\ count' = [count EXCEPT ![v] = IF op[g].kind = "uncount" THEN @ - 1 ELSE @ + 1]
        /\ op' = [op EXCEPT ![g].left[v] = @ - 1]
  BY DEF AdjustCount
<1>3. Types
  BY DEF IInv
<1>4. /\ StoragePrivate' /\ StorageInUse' /\ \A h \in G : StackOf(h)' = StackOf(h)
  BY <1>1, StoragesKept
<1>5. op[g] \in Adjusts /\ OperationSound(op[g], StackOf(g), active[g], g \in panicked)
  BY <1>1, <1>3, KindsOfOperations DEF Types, IInv, OperationsSound
<1>6. \A u \in Vars : Occurrences(StackOf(g), u) \in Nat /\ count[u] \in Int
  BY <1>3, StackType, OccurrencesType DEF Types
<1> DEFINE left == op[g].left
           rest == [left EXCEPT ![v] = @ - 1]
           o == [op[g] EXCEPT !.left = rest]
<1>7. op' = [op EXCEPT ![g] = o]
  BY <1>2
<1>8. left \in [Vars -> Nat]
  BY <1>5 DEF Adjusts
<1> HIDE DEF left
<1>9. /\ rest \in [Vars -> Nat]
      /\ \A u \in Vars : rest[u] = IF u = v THEN left[u] - 1 ELSE left[u]
  BY <1>2, <1>8 DEF left
<1> HIDE DEF rest
<1>10. o \in Adjusts /\ o.kind = op[g].kind /\ o.left = rest
  BY <1>5, <1>9 DEF Adjusts
<1> HIDE DEF o
<1>11. Types'
  <2>1. count' \in [Vars -> Int]
    BY <1>2, <1>6, <1>3 DEF Types
  <2>2. op' \in [G -> Operations]
    BY <1>3, <1>7, <1>10 DEF Types, Operations
  <2> QED
    BY <1>1, <1>3, <2>1, <2>2 DEF Types
<1>12. MutexHeld'
  BY <1>1, <1>7, <1>10, MutexKept
<1>13. OperationSound(o, StackOf(g)', active'[g], g \in panicked')
  <2>1. ASSUME o.kind = "recount", NEW u \in Vars
        PROVE  o.left[u] <= Occurrences(StackOf(g), u)
    <3>1. left[u] <= Occurrences(StackOf(g), u)
      BY <1>5, <1>10, <2>1 DEF OperationSound, left
    <3>2. left[u] \in Nat /\ rest[u] <= left[u] /\ rest[u] \in Nat
      BY <1>8, <1>9
    <3> QED
      BY <1>6, <1>10, <3>1, <3>2
  <2> QED
    BY <1>1, <1>4, <1>5, <1>10, <2>1 DEF OperationSound
<1>14. ASSUME NEW u \in Vars
       PROVE  count'[u] = count[u] + (Contribution(g, u)' - Contribution(g, u))
  <2>1. /\ op'[g] = o /\ left[u] \in Nat /\ rest[u] \in Nat
        /\ count'[u] = IF u # v THEN count[u]
                       ELSE IF op[g].kind = "uncount" THEN count[u] - 1 ELSE count[u] + 1
    BY <1>2, <1>3, <1>7, <1>8, <1>9 DEF Types
  <2>2. CASE op[g].kind = "uncount"
    <3>1. Contribution(g, u) = left[u] /\ Contribution(g, u)' = rest[u]
      BY <1>10, <2>1, <2>2 DEF Contribution, left
    <3> QED
      BY <1>6, <1>9, <2>1, <2>2, <3>1
  <2>3. CASE op[g].kind = "recount"
    <3>1. /\ Contribution(g, u) = Occurrences(StackOf(g), u) - left[u]
          /\ Contribution(g, u)' = Occurrences(StackOf(g), u) - rest[u]
      BY <1>4, <1>10, <2>1, <2>3 DEF Contribution, left
    <3> QED
      BY <1>6, <1>9, <2>1, <2>3, <3>1
  <2> QED
    BY <1>1, <2>2, <2>3
<1> QED
  BY <1>1, <1>4, <1>7, <1>10, <1>11, <1>12, <1>13, <1>14, StepOfOne DEF Operations

LEMMA ResetReturnsInvariant ==
  ASSUME IInv, NEW g \in G, ResetReturns(g)
  PROVE  IInv'
<1>1. /\ op[g].kind = "recount" /\ \A v \in Vars : op[g].left[v] = 0
      /\ mtx' = NoOne /\ op' = [op EXCEPT ![g] = Idle]
      /\ UNCHANGED <<count, gls, store, conveyed, active, panicked>>
  BY DEF ResetReturns
<1>2. Types /\ Idle.kind = "idle" /\ Idle \in Operations
  BY DEF IInv, Idle, Operations
<1>3. /\ StoragePrivate' /\ StorageInUse' /\ \A h \in G : StackOf(h)' = StackOf(h)
  BY <1>1, StoragesKept
<1>4. Types'
  BY <1>1, <1>2 DEF Types
<1>5. op'[g] = Idle /\ \A h \in G : h # g => op'[h] = op[h]
  BY <1>1, <1>2 DEF Types
<1>6. MutexHeld'
  <2>1. mtx = g
    BY <1>1 DEF IInv, MutexHeld
  <2>2. \A h \in G : h # g => op[h].kind \notin {"uncount", "recount"}
    BY <2>1 DEF IInv, MutexHeld
  <2> QED
    BY <1>1, <1>2, <1>5, <2>2, BindingsAssumption DEF MutexHeld
<1>7. OperationSound(Idle, StackOf(g)', active'[g], g \in panicked')
  <2>1. OperationSound(op[g], StackOf(g), active[g], g \in panicked)
    BY DEF IInv, OperationsSound
  <2> QED
    BY <1>1, <1>2, <1>3, <2>1 DEF OperationSound
<1>8. ASSUME NEW v \in Vars
      PROVE  count'[v] = count[v] + (Contribution(g, v)' - Contribution(g, v))
  <2>1. count[v] \in Int /\ Occurrences(StackOf(g), v) \in Nat
    BY <1>2, StackType, OccurrencesType DEF Types
  <2>2. Contribution(g, v) = Occurrences(StackOf(g), v)
    BY <1>1, <2>1 DEF Contribution
  <2>3. Contribution(g, v)' = Occurrences(StackOf(g), v)
    BY <1>2, <1>3, <1>5 DEF Contribution
  <2> QED
    BY <1>1, <2>1, <2>2, <2>3
<1> QED
  BY <1>1, <1>2, <1>3, <1>4, <1>6, <1>7, <1>8, StepOfOne


LEMMA SetBindingInvariant ==
  ASSUME IInv, NEW g \in G, NEW v \in Vars, NEW val \in Values, SetBinding(g, v, val)
  PROVE  IInv'
<1> DEFINE stack == StackOf(g)
           s == gls[g]
           i == InnermostFrame(g, v)
           frame == [stack[i] EXCEPT ![v] = val]
           new == [stack EXCEPT ![i] = frame]
<1>1. /\ op[g] = Idle /\ i # 0
      /\ store' = [store EXCEPT ![s][i][v] = val]
      /\ UNCHANGED <<count, gls, mtx, conveyed, op, active, panicked>>
  BY DEF SetBinding
<1>2. Types /\ op[g].kind = "idle" /\ Idle \in Operations
  BY <1>1 DEF IInv, Idle, Operations
<1>3. s # Nil /\ i \in 1 .. Len(stack) /\ v \in DOMAIN stack[i]
  BY <1>1, <1>2, InnermostFrameBinds
<1>4. s \in Storages /\ stack = store[s] /\ stack \in Seq(Frame) /\ stack[i] \in Frame
  BY <1>2, <1>3, StackType
<1> HIDE DEF i
<1>5. frame \in Frame /\ DOMAIN frame = DOMAIN stack[i]
  <2>1. DOMAIN stack[i] \in SUBSET Vars /\ stack[i] \in [DOMAIN stack[i] -> Values]
    <3>1. /\ DOMAIN stack[i] \in SUBSET Vars /\ \A w \in DOMAIN stack[i] : stack[i][w] \in Values
          /\ stack[i] = [w \in DOMAIN stack[i] |-> stack[i][w]]
      BY <1>4, FrameFacts
    <3> QED
      BY <3>1
  <2>2. frame \in [DOMAIN stack[i] -> Values] /\ DOMAIN frame = DOMAIN stack[i]
    BY <2>1
  <2> HIDE DEF frame
  <2> QED
    BY <2>1, <2>2, FrameFacts
<1>6. store' = [store EXCEPT ![s] = new]
  BY <1>1, <1>4
<1> HIDE DEF frame
<1>7. /\ new \in Seq(Frame) /\ new # <<>> /\ Len(new) = Len(stack)
      /\ \A j \in 1 .. Len(stack) : DOMAIN new[j] = DOMAIN stack[j]
  BY <1>3, <1>4, <1>5
<1> HIDE DEF new
<1>8. /\ StoragePrivate' /\ StorageInUse'
      /\ gls' \in [G -> Storages \cup {Nil}] /\ store' \in [Storages -> Seq(Frame)]
      /\ StackOf(g)' = new
      /\ \A h \in G : h # g => StackOf(h)' = StackOf(h)
  <2>1. gls' = [gls EXCEPT ![g] = s] /\ s = IF gls[g] = Nil THEN Unused ELSE gls[g]
    BY <1>1, <1>2, <1>3 DEF Types
  <2> QED
    BY <1>1, <1>6, <1>7, <2>1, SetStack
<1>9. Types'
  BY <1>1, <1>2, <1>8 DEF Types
<1>10. op' = [op EXCEPT ![g] = Idle]
  BY <1>1, <1>2 DEF Types
<1>11. MutexHeld'
  BY <1>1, <1>10, MutexKept
<1>12. OperationSound(Idle, StackOf(g)', active'[g], g \in panicked')
  <2>1. OperationSound(Idle, stack, active[g], g \in panicked)
    BY <1>1 DEF IInv, OperationsSound
  <2>2. active[g] \in Seq(SUBSET Vars) /\ Idle.kind = "idle"
    BY <1>2 DEF Types, Idle
  <2>3. g \notin panicked => /\ Len(new) = Len(active[g])
                             /\ \A j \in 1 .. Len(active[g]) : DOMAIN new[j] = active[g][j]
    BY <1>4, <1>7, <2>1, <2>2 DEF OperationSound
  <2> QED
    BY <1>1, <1>8, <2>2, <2>3 DEF OperationSound
<1>13. ASSUME NEW u \in Vars
       PROVE  count'[u] = count[u] + (Contribution(g, u)' - Contribution(g, u))
  <2>1. count[u] \in Int /\ op'[g].kind = "idle"
    BY <1>1, <1>2 DEF Types
  <2>2. Occurrences(new, u) = Occurrences(stack, u) /\ Occurrences(stack, u) \in Nat
    BY <1>4, <1>7, OccurrencesSame, OccurrencesType
  <2>3. Contribution(g, u) = Occurrences(stack, u)
    BY <1>2 DEF Contribution
  <2>4. Contribution(g, u)' = Occurrences(new, u)
    BY <1>8, <2>1 DEF Contribution
  <2> QED
    BY <1>1, <2>1, <2>2, <2>3, <2>4
<1> QED
  BY <1>1, <1>2, <1>8, <1>9, <1>10, <1>11, <1>12, <1>13, StepOfOne


LEMMA PopFrameInvariant ==
  ASSUME IInv, NEW g \in G, PopFrame(g)
  PROVE  IInv'
<1> DEFINE stack == StackOf(g)
           s == gls[g]
           o == [kind |-> "pop", left |-> DOMAIN Last(stack)]
<1>1. Types /\ StoragePrivate /\ StorageInUse
  BY DEF IInv
<1>2. /\ op[g] = Idle /\ op[g].kind = "idle" /\ active[g] # <<>> /\ s # Nil
      /\ s \in Storages /\ stack = store[s] /\ stack \in Seq(Frame) /\ stack # <<>>
  BY <1>1, StackType DEF PopFrame, StorageInUse, Idle
<1>3. /\ op' = [op EXCEPT ![g] = o] /\ store' = [store EXCEPT ![s] = Front(stack)]
      /\ gls' = [gls EXCEPT ![g] = IF Len(stack) > 1 THEN s ELSE Nil]
      /\ active' = [active EXCEPT ![g] = Front(active[g])]
      /\ UNCHANGED <<count, mtx, conveyed, panicked>>
  BY <1>2 DEF PopFrame
<1>4. /\ Front(stack) \in Seq(Frame) /\ Len(Front(stack)) = Len(stack) - 1 /\ Len(stack) \in Nat
      /\ \A i \in 1 .. Len(stack) - 1 : Front(stack)[i] = stack[i]
      /\ Last(stack) \in Frame /\ DOMAIN Last(stack) \in SUBSET Vars
  <2> HIDE DEF stack
  <2>1. Last(stack) \in Frame /\ Len(stack) \in Nat
    BY <1>2 DEF Last
  <2>2. DOMAIN Last(stack) \in SUBSET Vars
    BY <2>1, FrameFacts
  <2> QED
    BY <1>2, <2>1, <2>2, FrontFacts
<1>5. /\ active[g] \in Seq(SUBSET Vars) /\ Front(active[g]) \in Seq(SUBSET Vars)
      /\ Len(Front(active[g])) = Len(active[g]) - 1 /\ Len(active[g]) \in Nat
      /\ \A i \in 1 .. Len(active[g]) - 1 : Front(active[g])[i] = active[g][i]
  BY <1>1, <1>2, FrontFacts DEF Types
<1>6. o \in Operations /\ o.kind = "pop" /\ o.left = DOMAIN Last(stack)
  BY <1>4 DEF Operations, Pops
<1> HIDE DEF o, stack
<1>7. /\ StoragePrivate' /\ StorageInUse'
      /\ gls' \in [G -> Storages \cup {Nil}] /\ store' \in [Storages -> Seq(Frame)]
      /\ StackOf(g)' = Front(stack)
      /\ \A h \in G : h # g => StackOf(h)' = StackOf(h)
  <2>1. CASE Len(stack) > 1
    <3>1. Front(stack) # <<>>
      BY <1>4, <2>1
    <3>2. gls' = [gls EXCEPT ![g] = s] /\ s = IF gls[g] = Nil THEN Unused ELSE gls[g]
      BY <1>2, <1>3, <2>1
    <3> QED
      BY <1>3, <1>4, <3>1, <3>2, SetStack
  <2>2. CASE ~(Len(stack) > 1)
    <3>1. Front(stack) = <<>>
      BY <1>2, <1>4, <2>2
    <3>2. /\ gls'[g] = Nil /\ \A h \in G : h # g => gls'[h] = gls[h]
          /\ store'[s] = <<>> /\ \A t \in Storages : t # s => store'[t] = store[t]
      BY <1>1, <1>2, <1>3, <2>2, <3>1 DEF Types
    <3>3. \A h \in G : h # g => gls[h] # s
      BY <1>1, <1>2 DEF StoragePrivate
    <3>4. StoragePrivate'
      BY <1>1, <1>3, <3>2 DEF StoragePrivate
    <3>5. /\ gls' \in [G -> Storages \cup {Nil}] /\ store' \in [Storages -> Seq(Frame)]
      BY <1>1, <1>2, <1>3, <1>4 DEF Types
    <3>6. ASSUME NEW h \in G, h # g PROVE StackOf(h)' = StackOf(h)
      BY <1>1, <3>2, <3>3, <3>6, StackType DEF StackOf
    <3>7. StackOf(g)' = <<>>
      BY <3>2 DEF StackOf
    <3>8. StorageInUse'
      <4>1. \A h \in G : gls'[h] # Nil => store'[gls'[h]] # <<>>
        BY <1>1, <3>2, <3>3, StackType DEF StorageInUse
      <4>2. conveyed' \in Storages => store'[conveyed'] # <<>>
        <5>1. s # conveyed
          BY <1>1, <1>2 DEF StoragePrivate
        <5> QED
          BY <1>1, <1>3, <3>2, <5>1 DEF StorageInUse
      <4>3. ASSUME NEW t \in Storages, t # conveyed', \A h \in G : gls'[h] # t
            PROVE  store'[t] = <<>>
        <5>1. CASE t = s
          BY <3>2, <5>1
        <5>2. CASE t # s
          <6>1. \A h \in G : gls[h] # t
            BY <3>2, <4>3, <5>2
          <6> QED
            BY <1>1, <1>3, <3>2, <4>3, <5>2, <6>1 DEF StorageInUse
        <5> QED
          BY <5>1, <5>2
      <4> QED
        BY <4>1, <4>2, <4>3 DEF StorageInUse
    <3> QED
      BY <3>1, <3>4, <3>5, <3>6, <3>7, <3>8
  <2> QED
    BY <2>1, <2>2
<1>8. Types'
  <2>1. active' \in [G -> Seq(SUBSET Vars)] /\ op' \in [G -> Operations]
    BY <1>1, <1>3, <1>5, <1>6 DEF Types
  <2> QED
    BY <1>1, <1>3, <1>7, <2>1 DEF Types
<1>9. MutexHeld'
  BY <1>2, <1>3, <1>6, MutexKept
<1>10. active'[g] = Front(active[g]) /\ \A h \in G : h # g => active'[h] = active[h]
  BY <1>1, <1>3 DEF Types
<1>11. OperationSound(o, StackOf(g)', active'[g], g \in panicked')
  <2>1. OperationSound(op[g], stack, active[g], g \in panicked)
    BY DEF IInv, OperationsSound, stack
  <2>2. g \notin panicked => /\ Len(stack) = Len(active[g])
                             /\ \A i \in 1 .. Len(active[g]) : DOMAIN stack[i] = active[g][i]
    BY <1>2, <1>5, <2>1 DEF OperationSound
  <2>3. g \notin panicked =>
          /\ Len(Front(stack)) = Len(Front(active[g]))
          /\ \A i \in 1 .. Len(Front(active[g])) : DOMAIN Front(stack)[i] = Front(active[g])[i]
    <3> SUFFICES ASSUME g \notin panicked
                 PROVE  /\ Len(Front(stack)) = Len(Front(active[g]))
                        /\ \A i \in 1 .. Len(Front(active[g])) :
                             DOMAIN Front(stack)[i] = Front(active[g])[i]
      OBVIOUS
    <3>1. Len(Front(stack)) = Len(Front(active[g]))
      BY <1>4, <1>5, <2>2
    <3>2. ASSUME NEW i \in 1 .. Len(Front(active[g]))
          PROVE  DOMAIN Front(stack)[i] = Front(active[g])[i]
      <4>1. i \in 1 .. Len(active[g]) - 1 /\ i \in 1 .. Len(stack) - 1 /\ i \in 1 .. Len(active[g])
        BY <1>4, <1>5, <2>2
      <4>2. Front(stack)[i] = stack[i] /\ Front(active[g])[i] = active[g][i]
        BY <1>4, <1>5, <4>1
      <4> QED
        BY <2>2, <4>1, <4>2
    <3> QED
      BY <3>1, <3>2
  <2> QED
    BY <1>3, <1>5, <1>6, <1>7, <1>10, <2>3 DEF OperationSound
<1>12. ASSUME NEW v \in Vars
       PROVE  count'[v] = count[v] + (Contribution(g, v)' - Contribution(g, v))
  <2>1. count[v] \in Int /\ op'[g] = o
    BY <1>1, <1>3 DEF Types
  <2>2. Occurrences(stack, v) = Occurrences(Front(stack), v) + (IF v \in o.left THEN 1 ELSE 0)
    BY <1>2, <1>6, OccurrencesPop DEF stack
  <2>3. Occurrences(Front(stack), v) \in Nat
    BY <1>4, OccurrencesType
  <2>4. Contribution(g, v) = Occurrences(stack, v)
    BY <1>2 DEF Contribution, stack
  <2>5. Contribution(g, v)' = Occurrences(Front(stack), v) + (IF v \in o.left THEN 1 ELSE 0)
    BY <1>6, <1>7, <2>1 DEF Contribution
  <2> QED
    BY <1>3, <2>1, <2>2, <2>3, <2>4, <2>5
<1> QED
  BY <1>3, <1>6, <1>7, <1>8, <1>9, <1>10, <1>11, <1>12, StepOfOne

LEMMA CloneFrameInvariant ==
  ASSUME IInv, NEW g \in G, CloneFrame(g)
  PROVE  IInv'
<1>1. Types /\ StoragePrivate /\ StorageInUse
  BY DEF IInv
<1>2. /\ conveyed' = IF gls[g] = Nil THEN Nil ELSE Unused
      /\ store' = [s \in Storages |-> CASE s = conveyed' -> StackOf(g)
                                        [] s = conveyed /\ s # conveyed' -> <<>>
                                        [] OTHER -> store[s]]
      /\ op[g] = Idle
      /\ UNCHANGED <<count, gls, mtx, op, active, panicked>>
  BY DEF CloneFrame
<1>3. /\ Unused \in Storages /\ Unused # Nil /\ Unused # NotCaptured
      /\ Unused # conveyed /\ \A h \in G : gls[h] # Unused
  BY <1>1, UnusedIsUnused
<1>4. /\ conveyed' \in Storages \cup {Nil} /\ conveyed' # NotCaptured
      /\ \A h \in G : gls[h] # Nil => gls[h] # conveyed' /\ gls[h] # conveyed
  BY <1>1, <1>2, <1>3, StackType DEF StoragePrivate, Nil, NotCaptured
<1>5. /\ conveyed' \in Storages => store'[conveyed'] = StackOf(g) /\ gls[g] # Nil
      /\ \A s \in Storages : s = conveyed /\ s # conveyed' => store'[s] = <<>>
      /\ \A s \in Storages : s # conveyed /\ s # conveyed' => store'[s] = store[s]
  BY <1>1, <1>2, StackType
<1>6. \A h \in G : StackOf(h)' = StackOf(h)
  <2> SUFFICES ASSUME NEW h \in G PROVE StackOf(h)' = StackOf(h)
    OBVIOUS
  <2>1. CASE gls[h] = Nil
    BY <1>2, <2>1 DEF StackOf
  <2>2. CASE gls[h] # Nil
    BY <1>1, <1>2, <1>4, <1>5, <2>2, StackType DEF StackOf
  <2> QED
    BY <2>1, <2>2
<1>7. store' \in [Storages -> Seq(Frame)]
  <2>1. ASSUME NEW s \in Storages PROVE store'[s] \in Seq(Frame)
    <3>1. StackOf(g) \in Seq(Frame) /\ <<>> \in Seq(Frame) /\ store[s] \in Seq(Frame)
      BY <1>1, StackType DEF Types
    <3> QED
      BY <1>5, <3>1
  <2> QED
    BY <1>2, <2>1
<1>8. Types'
  BY <1>1, <1>2, <1>4, <1>7 DEF Types
<1>9. op' = [op EXCEPT ![g] = Idle] /\ Idle \in Operations
  BY <1>1, <1>2 DEF Types, Operations
<1>10. MutexHeld'
  BY <1>2, <1>4, <1>9, MutexKept
<1>11. StoragePrivate'
  BY <1>1, <1>2, <1>4 DEF StoragePrivate
<1>12. StorageInUse'
  <2>1. \A h \in G : gls'[h] # Nil => store'[gls'[h]] # <<>>
    BY <1>1, <1>2, <1>4, <1>5, StackType DEF StorageInUse
  <2>2. conveyed' \in Storages => store'[conveyed'] # <<>>
    BY <1>1, <1>5, StackType DEF StorageInUse
  <2>3. ASSUME NEW s \in Storages, s # conveyed', \A h \in G : gls'[h] # s
        PROVE  store'[s] = <<>>
    BY <1>1, <1>2, <1>5, <2>3 DEF StorageInUse
  <2> QED
    BY <2>1, <2>2, <2>3 DEF StorageInUse
<1>13. OperationSound(Idle, StackOf(g)', active'[g], g \in panicked')
  BY <1>2, <1>6 DEF IInv, OperationsSound
<1>14. ASSUME NEW v \in Vars
       PROVE  count'[v] = count[v] + (Contribution(g, v)' - Contribution(g, v))
  <2>1. count[v] \in Int /\ Contribution(g, v) \in Nat
    BY <1>1, ContributionType DEF Types, IInv
  <2>2. Contribution(g, v)' = Contribution(g, v)
    BY <1>2, <1>6 DEF Contribution
  <2> QED
    BY <1>2, <2>1, <2>2
<1> QED
  BY <1>2, <1>6, <1>8, <1>9, <1>10, <1>11, <1>12, <1>13, <1>14, StepOfOne

LEMMA InstallFrameInvariant ==
  ASSUME IInv, NEW g \in G, InstallFrame(g)
  PROVE  IInv'
<1> DEFINE frames == IF conveyed = Nil THEN <<>> ELSE store[conveyed]
           new == IF conveyed = Nil THEN Nil ELSE Unused
           left == [v \in Vars |-> Occurrences(frames, v)]
           o == [kind |-> "recount", left |-> left]
<1>1. Types /\ StoragePrivate /\ StorageInUse
  BY DEF IInv
<1>2. /\ op[g].kind = "uncount" /\ \A v \in Vars : op[g].left[v] = 0
      /\ gls' = [gls EXCEPT ![g] = new]
      /\ store' = [s \in Storages |-> CASE s = new -> frames
                                        [] s = gls[g] /\ s # new -> <<>>
                                        [] OTHER -> store[s]]
      /\ active' = [active EXCEPT ![g] = Domains(frames)]
      /\ op' = [op EXCEPT ![g] = o]
      /\ UNCHANGED <<count, mtx, conveyed, panicked>>
  BY DEF InstallFrame
<1>3. /\ Unused \in Storages /\ Unused # Nil /\ Unused # NotCaptured
      /\ Unused # conveyed /\ \A h \in G : gls[h] # Unused
  BY <1>1, UnusedIsUnused
<1>4. conveyed \in Storages \cup {Nil}
  BY <1>1, <1>2 DEF IInv, MutexHeld, Types
<1>5. frames \in Seq(Frame) /\ (conveyed # Nil => frames # <<>>)
  BY <1>1, <1>4 DEF Types, StorageInUse
<1>6. /\ left \in [Vars -> Nat] /\ \A v \in Vars : left[v] = Occurrences(frames, v)
  BY <1>5, OccurrencesType
<1>7. /\ Domains(frames) \in Seq(SUBSET Vars) /\ Len(Domains(frames)) = Len(frames)
      /\ \A i \in 1 .. Len(frames) : Domains(frames)[i] = DOMAIN frames[i]
  <2>1. \A i \in 1 .. Len(frames) : DOMAIN frames[i] \in SUBSET Vars
    <3>1. \A i \in 1 .. Len(frames) : frames[i] \in Frame
      BY <1>5
    <3> QED
      BY <3>1, FrameFacts
  <2>2. DOMAIN frames = 1 .. Len(frames) /\ Len(frames) \in Nat
    BY <1>5
  <2> HIDE DEF frames
  <2>3. Domains(frames) = [i \in 1 .. Len(frames) |-> DOMAIN frames[i]]
    BY <2>2 DEF Domains
  <2> QED
    BY <2>1, <2>2, <2>3
<1> HIDE DEF frames
<1>8. new \in Storages \cup {Nil} /\ (new # conveyed \/ new = Nil)
  BY <1>3
<1>9. /\ new = Nil => frames = <<>>
      /\ new # Nil => frames # <<>> /\ new = Unused
  BY <1>3, <1>5 DEF frames
<1> HIDE DEF new, left
<1>10. o \in Operations /\ o.kind = "recount" /\ o.left = left
  BY <1>6 DEF Operations, Adjusts
<1> HIDE DEF o
<1>11. /\ gls'[g] = new /\ \A h \in G : h # g => gls'[h] = gls[h]
       /\ op'[g] = o /\ active'[g] = Domains(frames) /\ \A h \in G : h # g => active'[h] = active[h]
  BY <1>1, <1>2 DEF Types
<1>12. /\ new # Nil => store'[new] = frames
       /\ \A s \in Storages : s = gls[g] /\ s # new => store'[s] = <<>>
       /\ \A s \in Storages : s # gls[g] /\ s # new => store'[s] = store[s]
  BY <1>2, <1>3, <1>9
<1>13. gls' \in [G -> Storages \cup {Nil}]
  BY <1>1, <1>2, <1>3, <1>9 DEF Types
<1>14. store' \in [Storages -> Seq(Frame)]
  <2>1. ASSUME NEW s \in Storages PROVE store'[s] \in Seq(Frame)
    <3>1. <<>> \in Seq(Frame) /\ store[s] \in Seq(Frame) /\ s # Nil
      BY <1>1, StackType DEF Types
    <3> QED
      BY <1>5, <1>12, <3>1
  <2> QED
    BY <1>2, <2>1
<1>15. Types'
  <2>1. active' \in [G -> Seq(SUBSET Vars)] /\ op' \in [G -> Operations]
    BY <1>1, <1>2, <1>7, <1>10 DEF Types
  <2> QED
    BY <1>1, <1>2, <1>13, <1>14, <2>1 DEF Types
<1>16. StoragePrivate'
  BY <1>1, <1>2, <1>3, <1>9, <1>11 DEF StoragePrivate
<1>17. \A h \in G : h # g /\ gls[h] # Nil => gls[h] # gls[g] /\ gls[h] # new /\ gls[h] \in Storages
  BY <1>1, <1>3, <1>9, StackType DEF StoragePrivate
<1>18. StackOf(g)' = frames /\ \A h \in G : h # g => StackOf(h)' = StackOf(h)
  <2>1. StackOf(g)' = frames
    BY <1>9, <1>11, <1>12 DEF StackOf
  <2>2. ASSUME NEW h \in G, h # g PROVE StackOf(h)' = StackOf(h)
    BY <1>11, <1>12, <1>17, <2>2 DEF StackOf
  <2> QED
    BY <2>1, <2>2
<1>19. StorageInUse'
  <2>1. \A h \in G : gls'[h] # Nil => store'[gls'[h]] # <<>>
    BY <1>1, <1>9, <1>11, <1>12, <1>17 DEF StorageInUse
  <2>2. conveyed' \in Storages => store'[conveyed'] # <<>>
    <3>1. conveyed \in Storages => conveyed # gls[g] /\ conveyed # new
      BY <1>1, <1>3, <1>9, StackType DEF StoragePrivate
    <3> QED
      BY <1>1, <1>2, <1>12, <3>1 DEF StorageInUse
  <2>3. ASSUME NEW s \in Storages, s # conveyed', \A h \in G : gls'[h] # s
        PROVE  store'[s] = <<>>
    <3>1. s # new
      BY <1>11, <2>3
    <3>2. CASE s = gls[g]
      BY <1>12, <3>1, <3>2
    <3>3. CASE s # gls[g]
      <4>1. \A h \in G : gls[h] # s
        BY <1>11, <2>3, <3>3
      <4> QED
        BY <1>1, <1>2, <1>12, <2>3, <3>1, <3>3, <4>1 DEF StorageInUse
    <3> QED
      BY <3>2, <3>3
  <2> QED
    BY <2>1, <2>2, <2>3 DEF StorageInUse
<1>20. MutexHeld'
  BY <1>2, <1>10, MutexKept
<1>21. OperationSound(o, StackOf(g)', active'[g], g \in panicked')
  <2>1. \A v \in Vars : o.left[v] <= Occurrences(frames, v)
    BY <1>6, <1>10
  <2> QED
    BY <1>5, <1>7, <1>10, <1>11, <1>18, <2>1 DEF OperationSound
<1>22. ASSUME NEW v \in Vars
       PROVE  count'[v] = count[v] + (Contribution(g, v)' - Contribution(g, v))
  <2>1. count[v] \in Int /\ left[v] \in Nat
    BY <1>1, <1>6 DEF Types
  <2>2. Contribution(g, v) = 0
    BY <1>2 DEF Contribution
  <2>3. Contribution(g, v)' = 0
    BY <1>6, <1>10, <1>11, <1>18, <2>1 DEF Contribution
  <2> QED
    BY <1>2, <2>1, <2>2, <2>3
<1> QED
  BY <1>2, <1>10, <1>11, <1>15, <1>16, <1>18, <1>19, <1>20, <1>21, <1>22, StepOfOne


\* What every goroutine accounts for determines the sum.
LEMMA SameContributions ==
  ASSUME Types, OperationsSound, Types', OperationsSound', NEW v \in Vars,
         \A g \in G : Contribution(g, v)' = Contribution(g, v)
  PROVE  Accounted(v)' = Accounted(v)
<1> DEFINE c == [g \in G |-> Contribution(g, v)]
<1>1. c \in [G -> Nat] /\ c = [g \in G |-> Contribution(g, v)']
  BY ContributionType
<1>2. PICK i : IsSum(i, c, G) /\ Accounted(v) = i[G]
  BY SumOfContributions
<1>3. PICK j : IsSum(j, c, G) /\ Accounted(v)' = j[G]
  BY <1>1, ContributionsPrime
<1> HIDE DEF c
<1>4. c \in [G -> Int]
  BY <1>1
<1>5. i[G] = j[G]
  BY <1>2, <1>3, <1>4, SumUnique, BindingsAssumption
<1> QED
  BY <1>2, <1>3, <1>5

LEMMA StepInvariant == IInv /\ [Next]_vars => IInv'
<1> SUFFICES ASSUME IInv, [Next]_vars PROVE IInv'
  OBVIOUS
<1>1. CASE UNCHANGED vars
  <2>1. UNCHANGED <<count, gls, store, mtx, conveyed, op, active, panicked>>
    BY <1>1 DEF vars
  <2>2. Types' /\ MutexHeld' /\ StoragePrivate' /\ StorageInUse' /\ OperationsSound'
    BY <2>1 DEF IInv, Types, MutexHeld, StoragePrivate, StorageInUse, OperationsSound,
                OperationSound, StackOf
  <2>3. CountTracksFrames'
    <3> SUFFICES ASSUME NEW v \in Vars PROVE count'[v] = Accounted(v)'
      BY DEF CountTracksFrames
    <3>1. count[v] = Accounted(v)
      BY DEF IInv, CountTracksFrames
    <3>2. \A g \in G : Contribution(g, v)' = Contribution(g, v)
      BY <2>1 DEF Contribution, StackOf
    <3>3. Accounted(v)' = Accounted(v)
      BY <2>2, <3>2, SameContributions DEF IInv
    <3> QED
      BY <2>1, <3>1, <3>3
  <2> QED
    BY <2>2, <2>3 DEF IInv
<1>2. ASSUME NEW g \in G, NEW bindings \in Forms, PushFrame(g, bindings) PROVE IInv'
  BY <1>2, PushFrameInvariant
<1>3. ASSUME NEW g \in G, BindInFrame(g) PROVE IInv'
  BY <1>3, BindInFrameInvariant
<1>4. ASSUME NEW g \in G, PushPanics(g) PROVE IInv'
  BY <1>4, PushPanicsInvariant
<1>5. ASSUME NEW g \in G, PushReturns(g) PROVE IInv'
  BY <1>5, PushReturnsInvariant
<1>6. ASSUME NEW g \in G, PopFrame(g) PROVE IInv'
  BY <1>6, PopFrameInvariant
<1>7. ASSUME NEW g \in G, PopCount(g) PROVE IInv'
  BY <1>7, PopCountInvariant
<1>8. ASSUME NEW g \in G, NEW v \in Vars, NEW val \in Values, SetBinding(g, v, val) PROVE IInv'
  BY <1>8, SetBindingInvariant
<1>9. ASSUME NEW g \in G, CloneFrame(g) PROVE IInv'
  BY <1>9, CloneFrameInvariant
<1>10. ASSUME NEW g \in G, ResetStart(g) PROVE IInv'
  BY <1>10, ResetStartInvariant
<1>11. ASSUME NEW g \in G, AdjustCount(g) PROVE IInv'
  BY <1>11, AdjustCountInvariant
<1>12. ASSUME NEW g \in G, InstallFrame(g) PROVE IInv'
  BY <1>12, InstallFrameInvariant
<1>13. ASSUME NEW g \in G, ResetReturns(g) PROVE IInv'
  BY <1>13, ResetReturnsInvariant
<1> QED
  BY <1>1, <1>2, <1>3, <1>4, <1>5, <1>6, <1>7, <1>8, <1>9, <1>10, <1>11, <1>12, <1>13 DEF Next

\* Whatever the interleaving of pushes, pops, set!s, captures and resets, the inductive
\* invariant holds.
THEOREM Invariance == Spec => []IInv
  BY InitInvariant, StepInvariant, PTL DEF Spec

-----------------------------------------------------------------------------
(* What follows from the invariant.                                        *)

\* The variables have their types, and glsBindingsMtx is held across steps exactly by
\* the goroutine whose ResetThreadBindingFrame took it (var.go).
THEOREM TypeCorrect == Spec => []TypeOK
<1>1. IInv => TypeOK
  BY DEF IInv, Types, MutexHeld, TypeOK
<1> QED
  BY <1>1, Invariance, PTL

\* At every step of every push, pop and reset, of any number of goroutines,
\* v.dynamicBindings is the number of frames that bind the Var, plus what half-done pops
\* and resets still have to take away, less what resets still have to add (var.go).
THEOREM CountersAreExact == Spec => []CountTracksFrames
  BY Invariance, PTL DEF IInv

\* Get may trust a zero counter: no goroutine that can look the Var up has it bound,
\* however many goroutines push, pop and convey bindings at the same time.
THEOREM ZeroMeansUnbound == Spec => []FastPathSound
<1>1. IInv => FastPathSound
  <2> SUFFICES ASSUME IInv, NEW g \in G, NEW v \in Vars,
                      op[g].kind \in {"idle", "push", "pop"}, count[v] = 0
               PROVE  Occurrences(StackOf(g), v) = 0
    BY DEF FastPathSound
  <2> DEFINE c == [h \in G |-> Contribution(h, v)]
  <2>1. c \in [G -> Nat] /\ c[g] = Contribution(g, v)
    BY ContributionType DEF IInv
  <2>2. PICK iter : IsSum(iter, c, G) /\ Accounted(v) = iter[G]
    BY SumOfContributions DEF IInv
  <2>3. iter[G] = 0
    BY <2>2 DEF IInv, CountTracksFrames
  <2> HIDE DEF c
  <2>4. c[g] <= 0
    BY <2>1, <2>2, <2>3, SumBoundsTerms, BindingsAssumption
  <2>5. Contribution(g, v) \in Nat /\ Contribution(g, v) >= Occurrences(StackOf(g), v)
    BY ContributionType DEF IInv
  <2>6. Occurrences(StackOf(g), v) \in Nat
    BY StackType, OccurrencesType DEF IInv
  <2> QED
    BY <2>1, <2>4, <2>5, <2>6
<1> QED
  BY <1>1, Invariance, PTL

\* No two goroutines, and no goroutine and a captured frame, share a storage: a set! in
\* one goroutine is never seen in another (var.go, CloneThreadBindingFrame and
\* ResetThreadBindingFrame copy).
THEOREM BindingsArePrivate == Spec => []StoragePrivate
  BY Invariance, PTL DEF IInv

\* As long as no push has panicked in it, a goroutine between operations has exactly the
\* frames of the binding forms it is inside of.
THEOREM FramesAreRestored == Spec => []DynamicBindingsRestored
<1>1. IInv => DynamicBindingsRestored
  <2> SUFFICES ASSUME IInv, NEW g \in G \ panicked, op[g] = Idle
               PROVE  Domains(StackOf(g)) = active[g]
    BY DEF DynamicBindingsRestored
  <2> DEFINE stack == StackOf(g)
  <2>1. stack \in Seq(Frame) /\ active[g] \in Seq(SUBSET Vars)
    BY StackType DEF IInv, Types
  <2>2. OperationSound(op[g], stack, active[g], g \in panicked)
    BY DEF IInv, OperationsSound
  <2> HIDE DEF stack
  <2>3. /\ Len(stack) = Len(active[g])
        /\ \A i \in 1 .. Len(active[g]) : DOMAIN stack[i] = active[g][i]
    BY <2>1, <2>2 DEF OperationSound, Idle
  <2>4. Domains(stack) = [i \in 1 .. Len(active[g]) |-> active[g][i]]
    BY <2>1, <2>3 DEF Domains
  <2>5. active[g] = [i \in 1 .. Len(active[g]) |-> active[g][i]]
    BY <2>1
  <2> QED
    BY <2>4, <2>5 DEF stack
<1> QED
  BY <1>1, Invariance, PTL

\* No step of any goroutine changes a captured frame, until another one is captured
\* (binding-conveyor-fn; TestThreadBindingFrameIsSnapshot).
THEOREM CapturesAreSnapshots == Spec => ConveyedIsSnapshot
<1> DEFINE Kept == conveyed \in Storages /\ conveyed' = conveyed
                     => store'[conveyed] = store[conveyed]
<1>1. IInv /\ [Next]_vars => [Kept]_vars
  <2> SUFFICES ASSUME IInv, [Next]_vars, conveyed \in Storages, conveyed' = conveyed
               PROVE  store'[conveyed] = store[conveyed]
    OBVIOUS
  <2>1. /\ Types /\ StoragePrivate
        /\ Unused \in Storages /\ Unused # conveyed /\ conveyed # Nil
    <3>1. Nil \notin Storages
      BY BindingsAssumption, FS_CardinalityType DEF Storages, Nil
    <3> QED
      BY <3>1, UnusedIsUnused DEF IInv
  <2>2. \A g \in G : gls[g] # conveyed
    BY <2>1 DEF StoragePrivate
  <2>3. \A s : s # conveyed => \A x : [store EXCEPT ![s] = x][conveyed] = store[conveyed]
    BY <2>1 DEF Types
  <2>4. CASE UNCHANGED vars
    BY <2>4 DEF vars
  <2>5. ASSUME NEW g \in G, NEW bindings \in Forms, PushFrame(g, bindings)
        PROVE  store'[conveyed] = store[conveyed]
    BY <2>1, <2>2, <2>3, <2>5 DEF PushFrame
  <2>6. ASSUME NEW g \in G, BindInFrame(g)
        PROVE  store'[conveyed] = store[conveyed]
    BY <2>1, <2>2, <2>3, <2>6 DEF BindInFrame
  <2>7. ASSUME NEW g \in G, PopFrame(g)
        PROVE  store'[conveyed] = store[conveyed]
    BY <2>1, <2>2, <2>3, <2>7 DEF PopFrame
  <2>8. ASSUME NEW g \in G, NEW v \in Vars, NEW val \in Values, SetBinding(g, v, val)
        PROVE  store'[conveyed] = store[conveyed]
    BY <2>1, <2>2, <2>3, <2>8 DEF SetBinding
  <2>9. ASSUME NEW g \in G, CloneFrame(g)
        PROVE  store'[conveyed] = store[conveyed]
    BY <2>1, <2>9 DEF CloneFrame
  <2>10. ASSUME NEW g \in G, InstallFrame(g)
         PROVE  store'[conveyed] = store[conveyed]
    BY <2>1, <2>2, <2>10 DEF InstallFrame
  <2>11. ASSUME NEW g \in G, \/ PushPanics(g) \/ PushReturns(g) \/ PopCount(g) \/ ResetStart(g)
                             \/ AdjustCount(g) \/ ResetReturns(g)
         PROVE  store'[conveyed] = store[conveyed]
    BY <2>11 DEF PushPanics, PushReturns, PopCount, ResetStart, AdjustCount, ResetReturns
  <2> QED
    BY <2>4, <2>5, <2>6, <2>7, <2>8, <2>9, <2>10, <2>11 DEF Next
<1> QED
  BY <1>1, Invariance, PTL DEF Spec, ConveyedIsSnapshot
=============================================================================
