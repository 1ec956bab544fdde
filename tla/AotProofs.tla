----------------------------- MODULE AotProofs -----------------------------
(***************************************************************************)
(* Proofs about what code compiled ahead of time rests on: the loaders of  *)
(* its namespaces (NsLoader) and the links to the functions it calls       *)
(* (VarRoot).                                                              *)
(*                                                                         *)
(* NsLoader, for any goroutines, loaders and dependencies (circular ones   *)
(* as well): type correctness, mutual exclusion of the bodies of a loader, *)
(* that lazy loads run at most once, and that no wake-up is lost.          *)
(*                                                                         *)
(* VarRoot, for any goroutines, Vars, values and number of roots: type     *)
(* correctness, that a version identifies a root, that no link with a      *)
(* current version calls another function, and that alterations lose no    *)
(* update.                                                                 *)
(***************************************************************************)
EXTENDS NsLoader, VarRoot, SequenceTheorems, TLAPS

-----------------------------------------------------------------------------
(* The loaders.                                                            *)

\* The types of the variables.
Types ==
  /\ loaded \in [Loaders -> BOOLEAN]
  /\ loading \in [Loaders -> G \cup {NoOne}]
  /\ stack \in [G -> Seq(Frame)]
  /\ calls \in 0 .. MaxCalls

\* Only the innermost call of a goroutine is anywhere else than in its body.
OuterCallsRun ==
  \A g \in G : \A i \in DOMAIN stack[g] : i < Len(stack[g]) => Running(stack[g][i])

\* A body runs for the goroutine that l.loading names, ...
RunnerIsLoading ==
  \A g \in G : \A i \in DOMAIN stack[g] :
    Running(stack[g][i]) => loading[stack[g][i].loader] = g

\* ... in one of its calls, ...
RunsOnce ==
  \A g \in G : \A i, j \in DOMAIN stack[g] :
    /\ Running(stack[g][i]) /\ Running(stack[g][j])
    /\ stack[g][i].loader = stack[g][j].loader
    => i = j

\* ... and l.loading names a goroutine only while that is so.
LoadingIsRunning ==
  \A l \in Loaders : loading[l] # NoOne =>
    \E i \in DOMAIN stack[loading[l]] :
      Running(stack[loading[l]][i]) /\ stack[loading[l]][i].loader = l

\* A goroutine waits only for a loader another goroutine is loading.
WaitsForLoading ==
  \A g \in G : InPhase(g, "wait") => loading[Top(stack[g]).loader] \notin {NoOne, g}

IInv ==
  /\ Types
  /\ OuterCallsRun
  /\ RunnerIsLoading
  /\ RunsOnce
  /\ LoadingIsRunning
  /\ WaitsForLoading
  /\ LazyLoadsOnce

-----------------------------------------------------------------------------
(* Stacks.                                                                 *)

LEMMA TopOfStack ==
  ASSUME NEW s \in Seq(Frame), s # <<>>
  PROVE  Len(s) \in Nat \ {0} /\ Len(s) \in DOMAIN s /\ DOMAIN s = 1 .. Len(s) /\ Top(s) \in Frame
<1>1. Len(s) \in Nat \ {0} /\ DOMAIN s = 1 .. Len(s)
  BY EmptySeq, LenProperties
<1>2. s[Len(s)] \in Frame
  BY <1>1, ElementOfSeq
<1> QED
  BY <1>1, <1>2 DEF Top

\* Returning leaves the calls below as they were.
LEMMA PopStack ==
  ASSUME NEW s \in Seq(Frame), s # <<>>
  PROVE  /\ Pop(s) \in Seq(Frame) /\ Len(Pop(s)) = Len(s) - 1
         /\ \A i \in 1 .. Len(s) - 1 : Pop(s)[i] = s[i]
<1>1. Len(s) \in Nat \ {0}
  BY TopOfStack
<1>2. \A i \in 1 .. Len(s) - 1 : s[i] \in Frame
  BY <1>1, ElementOfSeq
<1> DEFINE n == Len(s) - 1
           t == SubSeq(s, 1, n)
<1>3. n \in Nat /\ n \in Int /\ 1 \in Int
  BY <1>1
<1> HIDE DEF n
<1>4. /\ t \in Seq(Frame)
      /\ Len(t) = IF 1 <= n THEN n - 1 + 1 ELSE 0
      /\ \A i \in 1 .. n - 1 + 1 : t[i] = s[1 + i - 1]
  BY <1>2, <1>3, SubSeqProperties DEF n
<1> HIDE DEF t
<1>5. Len(t) = n
  BY <1>3, <1>4
<1>6. \A i \in 1 .. n : i \in 1 .. n - 1 + 1 /\ 1 + i - 1 = i
  BY <1>3
<1>7. \A i \in 1 .. n : t[i] = s[i]
  BY <1>4, <1>6
<1> QED
  BY <1>4, <1>5, <1>7 DEF Pop, n, t

LEMMA ReplaceTopOfStack ==
  ASSUME NEW s \in Seq(Frame), s # <<>>, NEW f \in Frame
  PROVE  LET t == ReplaceTop(s, f)
         IN /\ t \in Seq(Frame) /\ Len(t) = Len(s) /\ t # <<>> /\ Top(t) = f
            /\ \A i \in 1 .. Len(s) : t[i] = IF i = Len(s) THEN f ELSE s[i]
<1>1. Len(s) \in Nat \ {0} /\ Len(s) \in 1 .. Len(s)
  BY TopOfStack
<1>2. /\ ReplaceTop(s, f) \in Seq(Frame) /\ Len(ReplaceTop(s, f)) = Len(s)
      /\ \A i \in 1 .. Len(s) : ReplaceTop(s, f)[i] = IF i = Len(s) THEN f ELSE s[i]
  BY <1>1, ExceptSeq DEF ReplaceTop
<1> QED
  BY <1>1, <1>2, EmptySeq DEF Top

LEMMA TopInPhaseStack ==
  ASSUME NEW s \in Seq(Frame), s # <<>>, NEW p \in Phase
  PROVE  LET t == TopInPhase(s, p)
         IN /\ t \in Seq(Frame) /\ Len(t) = Len(s) /\ t # <<>>
            /\ Top(t).phase = p /\ Top(t).loader = Top(s).loader
            /\ \A i \in 1 .. Len(s) :
                 /\ t[i].loader = s[i].loader /\ t[i].lazy = s[i].lazy
                 /\ IF i = Len(s) THEN t[i].phase = p ELSE t[i] = s[i]
<1> DEFINE f == [Top(s) EXCEPT !.phase = p]
<1>1. Top(s) \in Frame /\ Top(s) = s[Len(s)]
  BY TopOfStack DEF Top
<1>2. f \in Frame /\ f.phase = p /\ f.loader = Top(s).loader /\ f.lazy = Top(s).lazy
  BY <1>1 DEF Frame
<1>3. TopInPhase(s, p) = ReplaceTop(s, f)
  BY DEF TopInPhase
<1> HIDE DEF f
<1> DEFINE t == ReplaceTop(s, f)
<1>4. /\ t \in Seq(Frame) /\ Len(t) = Len(s) /\ t # <<>> /\ Top(t) = f
      /\ \A i \in 1 .. Len(s) : t[i] = IF i = Len(s) THEN f ELSE s[i]
  BY <1>2, ReplaceTopOfStack
<1> HIDE DEF t
<1>5. \A i \in 1 .. Len(s) :
        /\ t[i].loader = s[i].loader /\ t[i].lazy = s[i].lazy
        /\ IF i = Len(s) THEN t[i].phase = p ELSE t[i] = s[i]
  BY <1>1, <1>2, <1>4
<1> QED
  BY <1>2, <1>3, <1>4, <1>5 DEF t

\* cond.Broadcast changes nothing but the phase of the calls that wait for l, which
\* wait no longer.
LEMMA BroadcastWakes ==
  ASSUME NEW s \in [G -> Seq(Frame)], NEW l \in Loaders, NEW g \in G
  PROVE  LET t == Broadcast(s, l)
         IN /\ t[g] \in Seq(Frame) /\ Len(t[g]) = Len(s[g])
            /\ \A i \in 1 .. Len(s[g]) :
                 /\ t[g][i].loader = s[g][i].loader /\ t[g][i].lazy = s[g][i].lazy
                 /\ Running(t[g][i]) = Running(s[g][i])
            /\ t[g] # <<>> /\ Top(t[g]).phase = "wait"
                 => t[g] = s[g] /\ Top(s[g]).loader # l
<1> DEFINE t == Broadcast(s, l)
<1>1. CASE s[g] # <<>> /\ Top(s[g]).loader = l /\ Top(s[g]).phase = "wait"
  <2>1. t[g] = TopInPhase(s[g], "try")
    BY <1>1 DEF Broadcast
  <2>2. s[g] \in Seq(Frame) /\ "try" \in Phase
    BY DEF Phase
  <2>3. /\ t[g] \in Seq(Frame) /\ Len(t[g]) = Len(s[g]) /\ Top(t[g]).phase = "try"
        /\ \A i \in 1 .. Len(s[g]) :
             /\ t[g][i].loader = s[g][i].loader /\ t[g][i].lazy = s[g][i].lazy
             /\ IF i = Len(s[g]) THEN t[g][i].phase = "try" ELSE t[g][i] = s[g][i]
    BY <1>1, <2>1, <2>2, TopInPhaseStack
  <2> HIDE DEF t
  <2>4. \A i \in 1 .. Len(s[g]) : Running(t[g][i]) = Running(s[g][i])
    BY <1>1, <2>3 DEF Running, Top
  <2> QED
    BY <2>3, <2>4 DEF t
<1>2. CASE ~(s[g] # <<>> /\ Top(s[g]).loader = l /\ Top(s[g]).phase = "wait")
  BY <1>2 DEF Broadcast
<1> QED
  BY <1>1, <1>2

-----------------------------------------------------------------------------
(* The steps.                                                              *)

LEMMA InitInvariant == Init => IInv
<1> SUFFICES ASSUME Init PROVE IInv
  OBVIOUS
<1>1. Types
  BY LoaderAssumption, EmptySeq DEF Init, Types
<1>2. \A g \in G : stack[g] = <<>> /\ DOMAIN stack[g] = {}
  <2>1. 1 .. 0 = {}
    OBVIOUS
  <2>2. << >> \in Seq(Frame) /\ Len(<< >>) = 0
    BY EmptySeq
  <2>3. DOMAIN << >> = {}
    BY <2>1, <2>2, LenProperties
  <2>4. \A g \in G : stack[g] = <<>>
    BY DEF Init
  <2> QED
    BY <2>3, <2>4
<1>3. \A l \in Loaders : loading[l] = NoOne
  BY DEF Init
<1> QED
  BY <1>1, <1>2, <1>3 DEF IInv, OuterCallsRun, RunnerIsLoading, RunsOnce,
     LoadingIsRunning, WaitsForLoading, LazyLoadsOnce, InPhase

\* A step that starts and ends no body preserves the invariant.
LEMMA QuietStep ==
  ASSUME IInv, Types', UNCHANGED <<loaded, loading>>,
         \A h \in G : \A i \in DOMAIN stack'[h] : Running(stack'[h][i]) =>
           /\ i \in DOMAIN stack[h] /\ Running(stack[h][i])
           /\ stack'[h][i].loader = stack[h][i].loader
           /\ stack'[h][i].lazy = stack[h][i].lazy,
         \A h \in G : \A i \in DOMAIN stack[h] : Running(stack[h][i]) =>
           /\ i \in DOMAIN stack'[h] /\ Running(stack'[h][i])
           /\ stack'[h][i].loader = stack[h][i].loader,
         OuterCallsRun', WaitsForLoading'
  PROVE  IInv'
<1>1. RunnerIsLoading'
  BY DEF IInv, RunnerIsLoading, Running
<1>2. RunsOnce'
  BY DEF IInv, RunsOnce, Running
<1>3. LoadingIsRunning'
  <2> SUFFICES ASSUME NEW l \in Loaders, loading[l] # NoOne
               PROVE  \E i \in DOMAIN stack'[loading[l]] :
                        Running(stack'[loading[l]][i]) /\ stack'[loading[l]][i].loader = l
    BY DEF LoadingIsRunning, Running
  <2>1. loading[l] \in G
    BY DEF IInv, Types
  <2>2. PICK i \in DOMAIN stack[loading[l]] :
          Running(stack[loading[l]][i]) /\ stack[loading[l]][i].loader = l
    BY DEF IInv, LoadingIsRunning
  <2> QED
    BY <2>1, <2>2
<1>4. LazyLoadsOnce'
  BY DEF IInv, LazyLoadsOnce, Running
<1> QED
  BY <1>1, <1>2, <1>3, <1>4 DEF IInv

\* A call begins: one more stack frame, in phase "try".
LEMMA CallOutsideInvariant ==
  ASSUME IInv, NEW g \in G, NEW l \in Loaders, NEW lazy \in BOOLEAN, CallOutside(g, l, lazy)
  PROVE  IInv'
<1> DEFINE f == NewCall(l, lazy)
<1>1. f \in Frame /\ ~Running(f) /\ f.phase # "wait"
  BY DEF NewCall, Frame, Phase, Running
<1> HIDE DEF f
<1>2. stack' = [stack EXCEPT ![g] = <<f>>] /\ stack[g] = <<>>
  BY DEF CallOutside, f
<1>3. <<f>> \in Seq(Frame) /\ Len(<<f>>) = 1 /\ DOMAIN <<f>> = {1} /\ <<f>>[1] = f
  BY <1>1
<1>4. DOMAIN stack[g] = {}
  BY <1>2
<1>5. Types'
  BY <1>2, <1>3, LoaderAssumption DEF IInv, Types, CallOutside
<1>6. \A h \in G : IF h = g THEN stack'[h] = <<f>> ELSE stack'[h] = stack[h]
  BY <1>2 DEF IInv, Types
<1>7. OuterCallsRun'
  <2>1. \A i \in DOMAIN <<f>> : ~(i < Len(<<f>>))
    BY <1>3
  <2> QED
    BY <2>1, <1>6 DEF IInv, OuterCallsRun, Running
<1>8. WaitsForLoading'
  BY <1>1, <1>3, <1>6 DEF IInv, WaitsForLoading, InPhase, Top, CallOutside
<1> QED
  BY <1>1, <1>3, <1>4, <1>5, <1>6, <1>7, <1>8, QuietStep DEF CallOutside

LEMMA CallInsideInvariant ==
  ASSUME IInv, NEW g \in G, NEW l \in Loaders, NEW lazy \in BOOLEAN, CallInside(g, l, lazy)
  PROVE  IInv'
<1> DEFINE s == stack[g]
           n == Len(s)
           e == Calling(Top(s), l)
           f == NewCall(l, lazy)
           r == ReplaceTop(s, e)
           t == Append(r, f)
<1>1. s \in Seq(Frame) /\ s # <<>> /\ Top(s).phase = "body"
  BY DEF IInv, Types, CallInside, InPhase
<1>2. n \in Nat \ {0} /\ DOMAIN s = 1 .. n /\ Top(s) \in Frame /\ Top(s) = s[n]
  BY <1>1, TopOfStack DEF Top
<1>3. stack' = [stack EXCEPT ![g] = t] /\ UNCHANGED <<loaded, loading, calls>>
  BY DEF CallInside
<1>4. /\ e \in Frame /\ e.loader = s[n].loader /\ e.lazy = s[n].lazy
      /\ e.phase = s[n].phase /\ e.phase = "body"
  BY <1>1, <1>2 DEF Frame, Calling
<1>5. f \in Frame /\ ~Running(f) /\ f.phase # "wait"
  BY DEF NewCall, Frame, Phase, Running
<1> HIDE DEF e, f
<1>6. /\ r \in Seq(Frame) /\ Len(r) = n
      /\ \A i \in 1 .. n : r[i] = IF i = n THEN e ELSE s[i]
  BY <1>1, <1>4, ReplaceTopOfStack
<1> HIDE DEF r
<1>7. /\ t \in Seq(Frame) /\ Len(t) = n + 1 /\ t[n + 1] = f
      /\ \A i \in 1 .. n : t[i] = IF i = n THEN e ELSE s[i]
  BY <1>5, <1>6, AppendProperties
<1>8. DOMAIN t = 1 .. n + 1
  BY <1>7, LenProperties
<1> HIDE DEF t, n, s
<1>9. Types'
  BY <1>3, <1>7 DEF IInv, Types
<1>10. \A h \in G : IF h = g THEN stack'[h] = t ELSE stack'[h] = stack[h]
  BY <1>3 DEF IInv, Types
<1>11. Running(e) /\ Running(s[n])
  BY <1>4 DEF Running
<1>12. \A i \in DOMAIN t : Running(t[i]) =>
         /\ i \in DOMAIN s /\ Running(s[i])
         /\ t[i].loader = s[i].loader /\ t[i].lazy = s[i].lazy
  BY <1>2, <1>4, <1>5, <1>7, <1>8, <1>11
<1>13. \A i \in DOMAIN s : Running(s[i]) =>
         i \in DOMAIN t /\ Running(t[i]) /\ t[i].loader = s[i].loader
  BY <1>2, <1>4, <1>7, <1>8, <1>11
<1>14. \A i \in DOMAIN t : i < Len(t) => Running(t[i])
  BY <1>2, <1>7, <1>8, <1>11 DEF IInv, OuterCallsRun, s, n
<1>15. OuterCallsRun'
  BY <1>10, <1>14 DEF IInv, OuterCallsRun, Running
<1>16. WaitsForLoading'
  BY <1>2, <1>3, <1>5, <1>7, <1>10 DEF IInv, WaitsForLoading, InPhase, Top
<1> QED
  BY <1>3, <1>9, <1>10, <1>12, <1>13, <1>15, <1>16, QuietStep DEF s

\* A call returns that ran no body.
LEMMA ReturnAtOnceInvariant ==
  ASSUME IInv, NEW g \in G, ReturnAtOnce(g)
  PROVE  IInv'
<1> DEFINE s == stack[g]
           n == Len(s)
           t == Pop(s)
<1>1. s \in Seq(Frame) /\ s # <<>> /\ Top(s).phase = "try"
  BY DEF IInv, Types, ReturnAtOnce, InPhase
<1>2. n \in Nat \ {0} /\ DOMAIN s = 1 .. n /\ ~Running(s[n])
  BY <1>1, TopOfStack DEF Top, Running
<1>3. stack' = [stack EXCEPT ![g] = t] /\ UNCHANGED <<loaded, loading, calls>>
  BY DEF ReturnAtOnce
<1>4. t \in Seq(Frame) /\ Len(t) = n - 1 /\ \A i \in 1 .. n - 1 : t[i] = s[i]
  BY <1>1, PopStack
<1>5. DOMAIN t = 1 .. n - 1
  BY <1>4, LenProperties
<1> HIDE DEF t, n, s
<1>6. Types'
  BY <1>3, <1>4 DEF IInv, Types
<1>7. \A h \in G : IF h = g THEN stack'[h] = t ELSE stack'[h] = stack[h]
  BY <1>3 DEF IInv, Types
<1>8. \A i \in 1 .. n - 1 : i \in DOMAIN s /\ Running(s[i])
  BY <1>2 DEF IInv, OuterCallsRun, s, n
<1>9. \A i \in DOMAIN s : Running(s[i]) => i \in 1 .. n - 1
  BY <1>2
<1>10. OuterCallsRun'
  BY <1>4, <1>5, <1>7, <1>8 DEF IInv, OuterCallsRun, Running
<1>11. ~InPhase(g, "wait")'
  <2>1. CASE n = 1
    BY <1>4, <1>7, <2>1, EmptySeq DEF InPhase
  <2>2. CASE n # 1
    BY <1>2, <1>4, <1>7, <1>8, <2>2 DEF InPhase, Top, Running
  <2> QED
    BY <2>1, <2>2
<1>12. WaitsForLoading'
  BY <1>3, <1>7, <1>11 DEF IInv, WaitsForLoading, InPhase
<1> QED
  BY <1>3, <1>4, <1>5, <1>6, <1>7, <1>8, <1>9, <1>10, <1>12, QuietStep DEF s

\* The innermost call changes its phase and keeps running its body, or keeps not to.
LEMMA ChangePhase ==
  ASSUME IInv, NEW g \in G, NEW p \in Phase, stack[g] # <<>>,
         stack' = [stack EXCEPT ![g] = TopInPhase(stack[g], p)],
         UNCHANGED <<loaded, loading, calls>>,
         Running(Top(stack[g])) = (p \in {"body", "unwind"}),
         p = "wait" => loading[Top(stack[g]).loader] \notin {NoOne, g}
  PROVE  IInv'
<1> DEFINE s == stack[g]
           n == Len(s)
           t == TopInPhase(s, p)
<1>1. s \in Seq(Frame)
  BY DEF IInv, Types
<1>2. n \in Nat \ {0} /\ DOMAIN s = 1 .. n /\ Top(s) = s[n]
  BY <1>1, TopOfStack DEF Top
<1>3. /\ t \in Seq(Frame) /\ Len(t) = n
      /\ Top(t).phase = p /\ Top(t).loader = Top(s).loader
      /\ \A i \in 1 .. n :
           /\ t[i].loader = s[i].loader /\ t[i].lazy = s[i].lazy
           /\ IF i = n THEN t[i].phase = p ELSE t[i] = s[i]
  BY <1>1, TopInPhaseStack
<1>4. DOMAIN t = 1 .. n
  BY <1>3, LenProperties
<1>5. stack' = [stack EXCEPT ![g] = t] /\ Running(Top(s)) = (p \in {"body", "unwind"})
  OBVIOUS
<1>6. p = "wait" => loading[Top(s).loader] \notin {NoOne, g}
  OBVIOUS
<1> HIDE DEF t, n
<1>7. \A i \in 1 .. n : Running(t[i]) = Running(s[i])
  BY <1>2, <1>3, <1>5 DEF Running
<1>8. Types'
  BY <1>3, <1>5 DEF IInv, Types
<1>9. \A h \in G : IF h = g THEN stack'[h] = t ELSE stack'[h] = stack[h]
  BY <1>5 DEF IInv, Types
<1>10. OuterCallsRun'
  BY <1>2, <1>3, <1>4, <1>7, <1>9 DEF IInv, OuterCallsRun, Running, n
<1>11. WaitsForLoading'
  BY <1>3, <1>6, <1>9 DEF IInv, WaitsForLoading, InPhase
<1> QED
  BY <1>2, <1>3, <1>4, <1>7, <1>8, <1>9, <1>10, <1>11, QuietStep

LEMMA WaitInvariant ==
  ASSUME IInv, NEW g \in G, Wait(g)
  PROVE  IInv'
<1>1. /\ stack[g] # <<>> /\ "wait" \in Phase
      /\ Running(Top(stack[g])) = ("wait" \in {"body", "unwind"})
      /\ loading[Top(stack[g]).loader] \notin {NoOne, g}
  BY DEF Wait, InPhase, Running, Phase
<1>2. stack' = [stack EXCEPT ![g] = TopInPhase(stack[g], "wait")] /\ UNCHANGED <<loaded, loading, calls>>
  BY DEF Wait
<1> QED
  BY <1>1, <1>2, ChangePhase

LEMMA BodyPanicsInvariant ==
  ASSUME IInv, NEW g \in G, BodyPanics(g)
  PROVE  IInv'
<1>1. /\ stack[g] # <<>> /\ "unwind" \in Phase
      /\ Running(Top(stack[g])) = ("unwind" \in {"body", "unwind"})
  BY DEF BodyPanics, InPhase, Running, Phase
<1>2. stack' = [stack EXCEPT ![g] = TopInPhase(stack[g], "unwind")] /\ UNCHANGED <<loaded, loading, calls>>
  BY DEF BodyPanics
<1> QED
  BY <1>1, <1>2, ChangePhase

\* A body starts: nobody runs one of that loader.
LEMMA StartBodyInvariant ==
  ASSUME IInv, NEW g \in G, StartBody(g)
  PROVE  IInv'
<1> DEFINE s == stack[g]
           n == Len(s)
           l == Top(s).loader
           f == [Top(s) EXCEPT !.phase = "body", !.left = Deps[l]]
           t == ReplaceTop(s, f)
<1>1. s \in Seq(Frame) /\ s # <<>> /\ Top(s).phase = "try"
  BY DEF IInv, Types, StartBody, InPhase
<1>2. n \in Nat \ {0} /\ DOMAIN s = 1 .. n /\ Top(s) = s[n] /\ Top(s) \in Frame
  BY <1>1, TopOfStack DEF Top
<1>3. /\ stack' = [stack EXCEPT ![g] = t] /\ UNCHANGED <<loaded, calls>>
      /\ loading' = [loading EXCEPT ![l] = g]
      /\ loading[l] = NoOne /\ ~(Top(s).lazy /\ loaded[l])
  BY DEF StartBody, AlreadyLoaded
<1>4. /\ f \in Frame /\ l \in Loaders /\ f.loader = l /\ f.lazy = Top(s).lazy
      /\ f.phase = "body"
  BY <1>2, LoaderAssumption DEF Frame, Phase
<1>5. ~Running(s[n]) /\ Running(f) /\ f.phase # "wait"
  BY <1>1, <1>2, <1>4 DEF Running
<1> HIDE DEF f
<1>6. /\ t \in Seq(Frame) /\ Len(t) = n /\ t # <<>> /\ Top(t) = f
      /\ \A i \in 1 .. n : t[i] = IF i = n THEN f ELSE s[i]
  BY <1>1, <1>4, ReplaceTopOfStack
<1>7. DOMAIN t = 1 .. n
  BY <1>6, LenProperties
<1> HIDE DEF t, n, l
<1>8. Types'
  BY <1>3, <1>4, <1>6 DEF IInv, Types
<1>9. \A h \in G : IF h = g THEN stack'[h] = t ELSE stack'[h] = stack[h]
  BY <1>3 DEF IInv, Types
<1>10. \A k \in Loaders : loading'[k] = IF k = l THEN g ELSE loading[k]
  BY <1>3, <1>4 DEF IInv, Types
<1>11. \A h \in G : \A i \in DOMAIN stack[h] :
         /\ stack[h][i].loader \in Loaders
         /\ Running(stack[h][i]) => stack[h][i].loader # l
  <2>1. \A h \in G : stack[h] \in Seq(Frame)
    BY DEF IInv, Types
  <2>2. \A h \in G : \A i \in DOMAIN stack[h] : stack[h][i] \in Frame
    BY <2>1, LenProperties, ElementOfSeq
  <2>3. NoOne \notin G
    BY GoroutineAssumption
  <2> QED
    BY <1>3, <2>2, <2>3 DEF IInv, RunnerIsLoading, Frame
<1>12. OuterCallsRun'
  BY <1>2, <1>6, <1>7, <1>9 DEF IInv, OuterCallsRun, Running, n
<1>13. RunnerIsLoading'
  BY <1>2, <1>4, <1>6, <1>7, <1>9, <1>10, <1>11 DEF IInv, RunnerIsLoading, Running
<1>14. RunsOnce'
  BY <1>2, <1>4, <1>6, <1>7, <1>9, <1>11 DEF IInv, RunsOnce, Running
<1>15. LoadingIsRunning'
  <2> SUFFICES ASSUME NEW k \in Loaders, loading'[k] # NoOne
               PROVE  \E i \in DOMAIN stack'[loading'[k]] :
                        Running(stack'[loading'[k]][i]) /\ stack'[loading'[k]][i].loader = k
    BY DEF LoadingIsRunning, Running
  <2>1. CASE k = l
    BY <1>2, <1>4, <1>5, <1>6, <1>7, <1>9, <1>10, <2>1
  <2>2. CASE k # l
    <3>1. loading'[k] = loading[k] /\ loading[k] \in G
      BY <1>10, <2>2 DEF IInv, Types
    <3>2. PICK i \in DOMAIN stack[loading[k]] :
            Running(stack[loading[k]][i]) /\ stack[loading[k]][i].loader = k
      BY <3>1 DEF IInv, LoadingIsRunning
    <3> QED
      BY <1>2, <1>5, <1>6, <1>7, <1>9, <3>1, <3>2
  <2> QED
    BY <2>1, <2>2
<1>16. WaitsForLoading'
  <2> SUFFICES ASSUME NEW h \in G, InPhase(h, "wait")'
               PROVE  loading'[Top(stack'[h]).loader] \notin {NoOne, h}
    BY DEF WaitsForLoading
  <2>1. h # g /\ stack'[h] = stack[h] /\ stack[h] # <<>> /\ Top(stack[h]).phase = "wait"
    BY <1>5, <1>6, <1>9 DEF InPhase
  <2>2. Top(stack[h]).loader \in Loaders /\ loading[Top(stack[h]).loader] \notin {NoOne, h}
    <3>1. stack[h] \in Seq(Frame)
      BY DEF IInv, Types
    <3> QED
      BY <2>1, <3>1, TopOfStack DEF IInv, WaitsForLoading, InPhase, Frame
  <2> QED
    BY <1>3, <1>10, <2>1, <2>2
<1>17. LazyLoadsOnce'
  BY <1>2, <1>3, <1>4, <1>6, <1>7, <1>9 DEF IInv, LazyLoadsOnce, Running
<1> QED
  BY <1>8, <1>12, <1>13, <1>14, <1>15, <1>16, <1>17 DEF IInv

\* The calls of a goroutine, old before and new after the innermost call of goroutine
\* g has ended and the calls waiting for l are woken.
AfterCleanup(old, new, h, g, l) ==
  /\ new \in Seq(Frame)
  /\ Len(new) = IF h = g THEN Len(old) - 1 ELSE Len(old)
  /\ \A i \in 1 .. Len(new) :
       /\ i \in 1 .. Len(old) /\ Running(new[i]) = Running(old[i])
       /\ new[i].loader = old[i].loader /\ new[i].lazy = old[i].lazy
  /\ new # <<>> /\ Top(new).phase = "wait"
       => new = old /\ Top(old).loader # l /\ h # g

LEMMA PopAndWake ==
  ASSUME NEW st \in [G -> Seq(Frame)], NEW g \in G, NEW l \in Loaders, NEW rest \in Seq(Frame),
         st[g] # <<>>, Len(rest) = Len(st[g]) - 1,
         \A i \in 1 .. Len(st[g]) - 1 :
           /\ Running(rest[i]) /\ Running(st[g][i])
           /\ rest[i].loader = st[g][i].loader /\ rest[i].lazy = st[g][i].lazy,
         NEW h \in G
  PROVE  AfterCleanup(st[h], Broadcast([st EXCEPT ![g] = rest], l)[h], h, g, l)
<1> DEFINE s == [st EXCEPT ![g] = rest]
           old == st[h]
           new == Broadcast(s, l)[h]
<1>1. s \in [G -> Seq(Frame)] /\ s[h] = IF h = g THEN rest ELSE old
  OBVIOUS
<1>2. Len(old) \in Nat /\ Len(st[g]) \in Nat \ {0}
  BY EmptySeq
<1> HIDE DEF s
<1>3. /\ new \in Seq(Frame) /\ Len(new) = Len(s[h])
      /\ \A i \in 1 .. Len(s[h]) :
           /\ new[i].loader = s[h][i].loader /\ new[i].lazy = s[h][i].lazy
           /\ Running(new[i]) = Running(s[h][i])
      /\ new # <<>> /\ Top(new).phase = "wait" => new = s[h] /\ Top(s[h]).loader # l
  BY <1>1, BroadcastWakes
<1> HIDE DEF new
<1>4. CASE h = g
  <2>1. Len(new) = Len(old) - 1 /\ s[h] = rest
    BY <1>1, <1>3, <1>4
  <2>2. \A i \in 1 .. Len(new) :
          /\ i \in 1 .. Len(old) /\ Running(new[i]) = Running(old[i])
          /\ new[i].loader = old[i].loader /\ new[i].lazy = old[i].lazy
    <3> SUFFICES ASSUME NEW i \in 1 .. Len(new)
                 PROVE  /\ i \in 1 .. Len(old) /\ Running(new[i]) = Running(old[i])
                        /\ new[i].loader = old[i].loader /\ new[i].lazy = old[i].lazy
      OBVIOUS
    <3>1. i \in 1 .. Len(st[g]) - 1 /\ i \in 1 .. Len(s[h]) /\ i \in 1 .. Len(old)
      BY <1>2, <1>4, <2>1
    <3> QED
      BY <1>3, <1>4, <2>1, <3>1
  <2>3. ~(new # <<>> /\ Top(new).phase = "wait")
    <3> SUFFICES ASSUME new # <<>>, Top(new).phase = "wait" PROVE FALSE
      OBVIOUS
    <3>1. Len(rest) \in 1 .. Len(st[g]) - 1 /\ Top(rest) = rest[Len(rest)] /\ Top(rest).phase = "wait"
      BY <1>2, <1>3, <2>1, TopOfStack DEF Top
    <3> QED
      BY <3>1 DEF Running
  <2> QED
    BY <1>3, <1>4, <2>1, <2>2, <2>3 DEF new, s, AfterCleanup
<1>5. CASE h # g
  BY <1>1, <1>2, <1>3, <1>5 DEF new, s, AfterCleanup
<1> QED
  BY <1>4, <1>5

\* The running bodies after a step are those before, without call n of g, ...
NoneStarts(g, n) ==
  \A h \in G : \A i \in DOMAIN stack'[h] : Running(stack'[h][i]) =>
    /\ i \in DOMAIN stack[h] /\ Running(stack[h][i]) /\ (h = g => i # n)
    /\ stack'[h][i].loader = stack[h][i].loader
    /\ stack'[h][i].lazy = stack[h][i].lazy
    /\ stack'[h][i].loader \in Loaders
OthersContinue(g, n) ==
  \A h \in G : \A i \in DOMAIN stack[h] : Running(stack[h][i]) /\ (h = g => i # n) =>
    /\ i \in DOMAIN stack'[h] /\ Running(stack'[h][i])
    /\ stack'[h][i].loader = stack[h][i].loader
\* ... and nobody goes on waiting for l.
OnlyOthersWait(l) ==
  \A h \in G : InPhase(h, "wait")' =>
    /\ stack'[h] = stack[h] /\ InPhase(h, "wait")
    /\ Top(stack[h]).loader \in Loaders \ {l}

\* The cleanup of a body, call n of g, preserves the invariant.
LEMMA BodyEnds ==
  ASSUME IInv, Types', NEW g \in G, NEW n \in DOMAIN stack[g], NEW l \in Loaders,
         Running(stack[g][n]), stack[g][n].loader = l,
         loading' = [loading EXCEPT ![l] = NoOne],
         loaded' \in {loaded, [loaded EXCEPT ![l] = TRUE]},
         NoneStarts(g, n), OthersContinue(g, n), OnlyOthersWait(l), OuterCallsRun'
  PROVE  IInv'
\* No other call runs the body of l.
<1>1. \A h \in G : \A i \in DOMAIN stack'[h] : Running(stack'[h][i]) => stack'[h][i].loader # l
  BY DEF IInv, RunnerIsLoading, RunsOnce, NoneStarts
<1>2. \A k \in Loaders : loading'[k] = IF k = l THEN NoOne ELSE loading[k]
  BY DEF IInv, Types
<1>3. RunnerIsLoading'
  BY <1>1, <1>2 DEF IInv, RunnerIsLoading, Running, NoneStarts
<1>4. RunsOnce'
  BY DEF IInv, RunsOnce, Running, NoneStarts
<1>5. LoadingIsRunning'
  <2> SUFFICES ASSUME NEW k \in Loaders, loading'[k] # NoOne
               PROVE  \E i \in DOMAIN stack'[loading'[k]] :
                        Running(stack'[loading'[k]][i]) /\ stack'[loading'[k]][i].loader = k
    BY DEF LoadingIsRunning, Running
  <2>1. k # l /\ loading'[k] = loading[k] /\ loading[k] \in G
    BY <1>2 DEF IInv, Types
  <2>2. PICK i \in DOMAIN stack[loading[k]] :
          Running(stack[loading[k]][i]) /\ stack[loading[k]][i].loader = k
    BY <2>1 DEF IInv, LoadingIsRunning
  <2> QED
    BY <2>1, <2>2 DEF OthersContinue
<1>6. WaitsForLoading'
  BY <1>2 DEF IInv, WaitsForLoading, OnlyOthersWait
<1>7. LazyLoadsOnce'
  <2> SUFFICES ASSUME NEW h \in G, NEW i \in DOMAIN stack'[h],
                      stack'[h][i].lazy, Running(stack'[h][i])
               PROVE  ~loaded'[stack'[h][i].loader]
    BY DEF LazyLoadsOnce, Running
  <2>1. stack'[h][i].loader \in Loaders \ {l} /\ ~loaded[stack'[h][i].loader]
    BY <1>1 DEF IInv, LazyLoadsOnce, NoneStarts
  <2> QED
    BY <2>1 DEF IInv, Types
<1> QED
  BY <1>3, <1>4, <1>5, <1>6, <1>7 DEF IInv

\* The innermost call of g ends its body, the deferred function broadcasts, and the
\* goroutine goes on with the calls in rest.
LEMMA BodyEndsAndBroadcasts ==
  ASSUME IInv, NEW g \in G, stack[g] # <<>>, Running(Top(stack[g])),
         NEW l, l = Top(stack[g]).loader,
         loading' = [loading EXCEPT ![l] = NoOne],
         loaded' \in {loaded, [loaded EXCEPT ![l] = TRUE]}, UNCHANGED calls,
         NEW rest \in Seq(Frame), Len(rest) = Len(stack[g]) - 1,
         \A i \in 1 .. Len(stack[g]) - 1 :
           /\ Running(rest[i])
           /\ rest[i].loader = stack[g][i].loader /\ rest[i].lazy = stack[g][i].lazy,
         stack' = Broadcast([stack EXCEPT ![g] = rest], l)
  PROVE  IInv'
<1> DEFINE n == Len(stack[g])
           Old(h) == stack[h]
           New(h) == stack'[h]
<1>1. stack \in [G -> Seq(Frame)]
  BY DEF IInv, Types
<1>2. \A h \in G : DOMAIN Old(h) = 1 .. Len(Old(h)) /\ Len(Old(h)) \in Nat
  BY <1>1, LenProperties
<1>3. /\ n \in 1 .. n /\ n \in Nat \ {0} /\ n \in DOMAIN stack[g]
      /\ stack[g][n] = Top(stack[g]) /\ l \in Loaders
  BY <1>1, TopOfStack DEF Top, Frame
<1>4. \A i \in 1 .. n - 1 : Running(stack[g][i])
  BY <1>2, <1>3 DEF IInv, OuterCallsRun
<1>5. \A h \in G : AfterCleanup(Old(h), New(h), h, g, l)
  <2>1. \A i \in 1 .. Len(stack[g]) - 1 :
          /\ Running(rest[i]) /\ Running(stack[g][i])
          /\ rest[i].loader = stack[g][i].loader /\ rest[i].lazy = stack[g][i].lazy
    BY <1>4
  <2>2. stack[g] # <<>> /\ Len(rest) = Len(stack[g]) - 1 /\ rest \in Seq(Frame)
    OBVIOUS
  <2>3. \A h \in G :
          AfterCleanup(stack[h], Broadcast([stack EXCEPT ![g] = rest], l)[h], h, g, l)
    BY <1>1, <1>3, <2>1, <2>2, PopAndWake
  <2> QED
    BY <2>3
<1>6. stack' \in [G -> Seq(Frame)]
  BY <1>5 DEF Broadcast, AfterCleanup
<1>7. Types'
  BY <1>6 DEF IInv, Types
<1>8. \A h \in G : DOMAIN New(h) = 1 .. Len(New(h)) /\ Len(New(h)) \in Nat
  BY <1>5, LenProperties DEF AfterCleanup
<1>9. \A h \in G : \A i \in DOMAIN New(h) : New(h)[i] \in Frame
  BY <1>5, <1>8, ElementOfSeq DEF AfterCleanup
<1>10. OnlyOthersWait(l)
  <2> SUFFICES ASSUME NEW h \in G, InPhase(h, "wait")'
               PROVE  /\ stack'[h] = stack[h] /\ InPhase(h, "wait")
                      /\ Top(stack[h]).loader \in Loaders \ {l}
    BY DEF OnlyOthersWait
  <2>1. New(h) # <<>> /\ Top(New(h)).phase = "wait"
    BY DEF InPhase
  <2>2. New(h) = Old(h) /\ Top(Old(h)).loader # l
    BY <1>5, <2>1 DEF AfterCleanup
  <2>3. Old(h) # <<>> /\ Top(Old(h)).phase = "wait"
    BY <2>1, <2>2
  <2>4. Top(Old(h)) \in Frame
    BY <1>1, <2>3, TopOfStack
  <2> QED
    BY <2>2, <2>3, <2>4 DEF InPhase, Frame
<1>11. loading' = [loading EXCEPT ![l] = NoOne] /\ loaded' \in {loaded, [loaded EXCEPT ![l] = TRUE]}
  OBVIOUS
<1>12. Running(stack[g][n]) /\ stack[g][n].loader = l
  BY <1>3
<1> HIDE DEF n, Old, New
<1>13. OuterCallsRun'
  <2> SUFFICES ASSUME NEW h \in G, NEW i \in DOMAIN New(h), i < Len(New(h))
               PROVE  Running(New(h)[i])
    BY DEF OuterCallsRun, Running, New
  <2>1. i \in DOMAIN Old(h) /\ i < Len(Old(h)) /\ Running(New(h)[i]) = Running(Old(h)[i])
    <3>1. /\ i \in 1 .. Len(New(h)) /\ Len(Old(h)) \in Nat
          /\ DOMAIN Old(h) = 1 .. Len(Old(h))
      BY <1>2, <1>8
    <3>2. /\ i \in 1 .. Len(Old(h)) /\ Running(New(h)[i]) = Running(Old(h)[i])
          /\ Len(New(h)) = IF h = g THEN Len(Old(h)) - 1 ELSE Len(Old(h))
      BY <1>5, <3>1 DEF AfterCleanup
    <3>3. Len(New(h)) \in Nat /\ i \in Nat /\ i < Len(New(h))
      BY <1>8, <3>1
    <3>4. i < Len(Old(h))
      <4>1. Len(New(h)) = Len(Old(h)) - 1 \/ Len(New(h)) = Len(Old(h))
        BY <3>2, Zenon
      <4> DEFINE a == Len(New(h))
                 b == Len(Old(h))
      <4>2. a \in Nat /\ b \in Nat /\ i \in Nat /\ i < a /\ (a = b - 1 \/ a = b)
        BY <3>1, <3>3, <4>1, Zenon
      <4> HIDE DEF a, b
      <4>3. i < b
        BY <4>2
      <4> QED
        BY <4>3 DEF b
    <3> QED
      BY <3>1, <3>2, <3>4, Zenon
  <2> QED
    BY <2>1 DEF IInv, OuterCallsRun, Old
<1>14. \A h \in G : \A i \in DOMAIN New(h) : Running(New(h)[i]) =>
         /\ i \in DOMAIN Old(h) /\ Running(Old(h)[i]) /\ (h = g => i # n)
         /\ New(h)[i].loader = Old(h)[i].loader /\ New(h)[i].lazy = Old(h)[i].lazy
         /\ New(h)[i].loader \in Loaders
  <2> SUFFICES ASSUME NEW h \in G, NEW i \in DOMAIN New(h), Running(New(h)[i])
               PROVE  /\ i \in DOMAIN Old(h) /\ Running(Old(h)[i]) /\ (h = g => i # n)
                      /\ New(h)[i].loader = Old(h)[i].loader /\ New(h)[i].lazy = Old(h)[i].lazy
                      /\ New(h)[i].loader \in Loaders
    OBVIOUS
  <2>1. h = g => i # n
    BY <1>2, <1>5, <1>8 DEF n, Old, AfterCleanup
  <2> QED
    BY <1>2, <1>5, <1>8, <1>9, <2>1 DEF Frame, AfterCleanup
<1>15. \A h \in G : \A i \in DOMAIN Old(h) : Running(Old(h)[i]) /\ (h = g => i # n) =>
         /\ i \in DOMAIN New(h) /\ Running(New(h)[i]) /\ New(h)[i].loader = Old(h)[i].loader
  <2> SUFFICES ASSUME NEW h \in G, NEW i \in DOMAIN Old(h), Running(Old(h)[i]), h = g => i # n
               PROVE  /\ i \in DOMAIN New(h) /\ Running(New(h)[i])
                      /\ New(h)[i].loader = Old(h)[i].loader
    OBVIOUS
  <2>1. i \in 1 .. Len(New(h))
    BY <1>2, <1>5, <1>8 DEF n, Old, AfterCleanup
  <2> QED
    BY <1>5, <1>8, <2>1 DEF AfterCleanup
<1>16. NoneStarts(g, n)
  <2> SUFFICES ASSUME NEW h \in G, NEW i \in DOMAIN stack'[h], Running(stack'[h][i])
               PROVE  /\ i \in DOMAIN stack[h] /\ Running(stack[h][i]) /\ (h = g => i # n)
                      /\ stack'[h][i].loader = stack[h][i].loader
                      /\ stack'[h][i].lazy = stack[h][i].lazy
                      /\ stack'[h][i].loader \in Loaders
    BY DEF NoneStarts
  <2>1. New(h) = stack'[h] /\ Old(h) = stack[h]
    BY DEF New, Old
  <2>2. i \in DOMAIN New(h) /\ Running(New(h)[i])
    BY <2>1
  <2> QED
    BY <1>14, <2>1, <2>2
<1>17. OthersContinue(g, n)
  <2> SUFFICES ASSUME NEW h \in G, NEW i \in DOMAIN stack[h],
                      Running(stack[h][i]), h = g => i # n
               PROVE  /\ i \in DOMAIN stack'[h] /\ Running(stack'[h][i])
                      /\ stack'[h][i].loader = stack[h][i].loader
    BY DEF OthersContinue
  <2>1. New(h) = stack'[h] /\ Old(h) = stack[h]
    BY DEF New, Old
  <2>2. i \in DOMAIN Old(h) /\ Running(Old(h)[i])
    BY <2>1
  <2> QED
    BY <1>15, <2>1, <2>2
<1>18. n \in DOMAIN stack[g] /\ l \in Loaders
  BY <1>3 DEF n
<1> QED
  BY <1>7, <1>10, <1>11, <1>12, <1>13, <1>16, <1>17, <1>18, BodyEnds

LEMMA FinishBodyInvariant ==
  ASSUME IInv, NEW g \in G, FinishBody(g)
  PROVE  IInv'
<1> DEFINE l == Top(stack[g]).loader
           rest == Pop(stack[g])
<1>1. stack[g] \in Seq(Frame) /\ stack[g] # <<>> /\ Running(Top(stack[g]))
  BY DEF IInv, Types, FinishBody, InPhase, Running
<1>2. /\ loading' = [loading EXCEPT ![l] = NoOne] /\ UNCHANGED calls
      /\ loaded' \in {loaded, [loaded EXCEPT ![l] = TRUE]}
      /\ stack' = Broadcast([stack EXCEPT ![g] = rest], l)
  BY DEF FinishBody
<1>3. /\ rest \in Seq(Frame) /\ Len(rest) = Len(stack[g]) - 1
      /\ \A i \in 1 .. Len(stack[g]) - 1 : rest[i] = stack[g][i]
  BY <1>1, PopStack
<1>4. \A i \in 1 .. Len(stack[g]) - 1 : Running(stack[g][i])
  BY <1>1, TopOfStack DEF IInv, OuterCallsRun
<1>5. \A i \in 1 .. Len(stack[g]) - 1 :
        /\ Running(rest[i])
        /\ rest[i].loader = stack[g][i].loader /\ rest[i].lazy = stack[g][i].lazy
  BY <1>3, <1>4
<1> HIDE DEF rest
<1> QED
  BY <1>1, <1>2, <1>3, <1>5, BodyEndsAndBroadcasts

LEMMA UnwindInvariant ==
  ASSUME IInv, NEW g \in G, Unwind(g)
  PROVE  IInv'
<1> DEFINE l == Top(stack[g]).loader
           rest == Pop(stack[g])
<1>1. stack[g] \in Seq(Frame) /\ stack[g] # <<>> /\ Running(Top(stack[g]))
  BY DEF IInv, Types, Unwind, InPhase, Running
<1>2. /\ loading' = [loading EXCEPT ![l] = NoOne] /\ UNCHANGED calls
      /\ loaded' \in {loaded, [loaded EXCEPT ![l] = TRUE]}
  BY DEF Unwind
<1>3. /\ rest \in Seq(Frame) /\ Len(rest) = Len(stack[g]) - 1
      /\ \A i \in 1 .. Len(stack[g]) - 1 : rest[i] = stack[g][i]
  BY <1>1, PopStack
<1>4. \A i \in 1 .. Len(stack[g]) - 1 : Running(stack[g][i])
  BY <1>1, TopOfStack DEF IInv, OuterCallsRun
<1>5. Len(stack[g]) - 1 \in Nat
  BY <1>1, TopOfStack
<1>6. CASE stack' = Broadcast([stack EXCEPT ![g] = rest], l)
  <2>1. \A i \in 1 .. Len(stack[g]) - 1 :
          /\ Running(rest[i])
          /\ rest[i].loader = stack[g][i].loader /\ rest[i].lazy = stack[g][i].lazy
    BY <1>3, <1>4
  <2> HIDE DEF rest
  <2> QED
    BY <1>1, <1>2, <1>3, <1>6, <2>1, BodyEndsAndBroadcasts
<1>7. CASE rest # <<>> /\ stack' = Broadcast([stack EXCEPT ![g] = TopInPhase(rest, "unwind")], l)
  <2> DEFINE r == TopInPhase(rest, "unwind")
  <2> HIDE DEF rest
  <2>1. /\ r \in Seq(Frame) /\ Len(r) = Len(rest)
        /\ \A i \in 1 .. Len(rest) :
             /\ r[i].loader = rest[i].loader /\ r[i].lazy = rest[i].lazy
             /\ IF i = Len(rest) THEN r[i].phase = "unwind" ELSE r[i] = rest[i]
    BY <1>3, <1>7, TopInPhaseStack DEF Phase
  <2> HIDE DEF r
  <2>2. \A i \in 1 .. Len(stack[g]) - 1 :
          /\ Running(r[i])
          /\ r[i].loader = stack[g][i].loader /\ r[i].lazy = stack[g][i].lazy
    BY <1>3, <1>4, <2>1 DEF Running
  <2>3. stack' = Broadcast([stack EXCEPT ![g] = r], l)
    BY <1>7 DEF r
  <2> QED
    BY <1>1, <1>2, <1>3, <2>1, <2>2, <2>3, BodyEndsAndBroadcasts
<1> QED
  BY <1>6, <1>7 DEF Unwind

LEMMA NextInvariant == IInv /\ [Next]_vars => IInv'
<1> SUFFICES ASSUME IInv, [Next]_vars PROVE IInv'
  OBVIOUS
<1>1. CASE UNCHANGED vars
  BY <1>1 DEF vars, IInv, Types, OuterCallsRun, RunnerIsLoading, RunsOnce,
     LoadingIsRunning, WaitsForLoading, LazyLoadsOnce, InPhase, Running, Top
<1>2. ASSUME NEW g \in G, NEW l \in Loaders, NEW lazy \in BOOLEAN, CallOutside(g, l, lazy)
      PROVE  IInv'
  BY <1>2, CallOutsideInvariant
<1>3. ASSUME NEW g \in G, NEW l \in Loaders, NEW lazy \in BOOLEAN, CallInside(g, l, lazy)
      PROVE  IInv'
  BY <1>3, CallInsideInvariant
<1>4. ASSUME NEW g \in G,
             \/ ReturnAtOnce(g) \/ Wait(g) \/ StartBody(g)
             \/ FinishBody(g) \/ BodyPanics(g) \/ Unwind(g)
      PROVE  IInv'
  BY <1>4, ReturnAtOnceInvariant, WaitInvariant, StartBodyInvariant,
     FinishBodyInvariant, BodyPanicsInvariant, UnwindInvariant
<1> QED
  BY <1>1, <1>2, <1>3, <1>4 DEF Next, Continue

-----------------------------------------------------------------------------
(* The theorems.                                                           *)

\* The strengthened invariant holds in every reachable state.
THEOREM Invariance == Spec => []IInv
  BY InitInvariant, NextInvariant, PTL DEF Spec

\* Every variable keeps its type, and no goroutine that is not inside of the body of a
\* loader is left in its l.loading, whatever panics (nsLoader.run and its cleanup).
THEOREM TypeCorrect == Spec => []TypeOK
<1>1. IInv => TypeOK
  BY DEF IInv, Types, LoadingIsRunning, TypeOK
<1> QED
  BY <1>1, Invariance, PTL

\* At most one call runs the body of a loader.
THEOREM MutualExclusion == Spec => []ExclusiveBody
<1>1. IInv => ExclusiveBody
  BY DEF IInv, RunnerIsLoading, RunsOnce, ExclusiveBody
<1> QED
  BY <1>1, Invariance, PTL

\* Lazy loads run at most once.
THEOREM LazyOnce == Spec => []LazyLoadsOnce
<1>1. IInv => LazyLoadsOnce
  BY DEF IInv
<1> QED
  BY <1>1, Invariance, PTL

\* A waiting call always has another goroutine's body to wait for.
THEOREM NoLostWakeup == Spec => []WaitersHaveALoader
<1>1. IInv => WaitersHaveALoader
  <2> SUFFICES ASSUME IInv, NEW g \in G, InPhase(g, "wait")
               PROVE  LET l == Top(stack[g]).loader
                      IN \E h \in G \ {g} : \E i \in DOMAIN stack[h] :
                           Running(stack[h][i]) /\ stack[h][i].loader = l
    BY DEF WaitersHaveALoader
  <2> DEFINE l == Top(stack[g]).loader
  <2>1. stack[g] \in Seq(Frame) /\ stack[g] # <<>>
    BY DEF IInv, Types, InPhase
  <2>2. l \in Loaders
    BY <2>1, TopOfStack DEF Frame
  <2>3. loading[l] \in G \ {g} /\ loading[l] # NoOne
    BY <2>2 DEF IInv, Types, WaitsForLoading
  <2> QED
    BY <2>2, <2>3 DEF IInv, LoadingIsRunning
<1> QED
  BY <1>1, Invariance, PTL


\* The calls that return in a step of g.
LEMMA ReturnsOfOthers ==
  ASSUME IInv, NEW g \in G, Continue(g), NEW h \in G \ {g}
  PROVE  Len(stack'[h]) = Len(stack[h])
<1>0. stack \in [G -> Seq(Frame)]
  BY DEF IInv, Types
<1>1. ASSUME NEW s, stack' = [stack EXCEPT ![g] = s]
      PROVE  Len(stack'[h]) = Len(stack[h])
  BY <1>0, <1>1
<1>2. ASSUME NEW s \in Seq(Frame), NEW l \in Loaders, stack' = Broadcast([stack EXCEPT ![g] = s], l)
      PROVE  Len(stack'[h]) = Len(stack[h])
  <2> DEFINE t == [stack EXCEPT ![g] = s]
  <2>1. t \in [G -> Seq(Frame)] /\ t[h] = stack[h]
    BY <1>0
  <2>2. stack' = Broadcast(t, l)
    BY <1>2
  <2> HIDE DEF t
  <2>3. Len(stack'[h]) = Len(t[h])
    BY <2>1, <2>2, BroadcastWakes
  <2> QED
    BY <2>1, <2>3
<1>3. CASE \/ \E l \in Loaders, lazy \in BOOLEAN : CallInside(g, l, lazy)
           \/ ReturnAtOnce(g) \/ Wait(g) \/ StartBody(g) \/ BodyPanics(g)
  BY <1>1, <1>3 DEF CallInside, ReturnAtOnce, Wait, StartBody, BodyPanics
<1>4. CASE FinishBody(g) \/ Unwind(g)
  <2>1. stack[g] \in Seq(Frame) /\ stack[g] # <<>>
    BY <1>0, <1>4 DEF FinishBody, Unwind, InPhase
  <2>2. Top(stack[g]).loader \in Loaders
    BY <2>1, TopOfStack DEF Frame
  <2>3. Pop(stack[g]) \in Seq(Frame)
    BY <2>1, PopStack
  <2>4. Pop(stack[g]) # <<>> => TopInPhase(Pop(stack[g]), "unwind") \in Seq(Frame)
    BY <2>3, TopInPhaseStack DEF Phase
  <2> QED
    BY <1>2, <1>4, <2>2, <2>3, <2>4 DEF FinishBody, Unwind
<1> QED
  BY <1>3, <1>4 DEF Continue

\* LazyReturnsLoaded (of nsLoader.run): when a lazy call returns and its body has not
\* panicked the namespace has been loaded, or the call was made from inside of the
\* body that loads it.
THEOREM LazyCallsFindItLoaded == Spec => LazyReturnsLoaded
<1> DEFINE Loaded(g) ==
             LET f == Top(stack[g])
             IN /\ Len(stack'[g]) < Len(stack[g]) /\ f.phase # "unwind" /\ f.lazy
                => \/ loaded'[f.loader]
                   \/ \E i \in 1 .. Len(stack[g]) - 1 :
                        stack[g][i].loader = f.loader /\ Running(stack[g][i])
<1>1. ASSUME IInv, NEW g \in G, Len(stack'[g]) >= Len(stack[g])
      PROVE  Loaded(g)
  <2>1. stack[g] \in Seq(Frame)
    BY <1>1 DEF IInv, Types
  <2> QED
    BY <1>1, <2>1
<1>2. ASSUME IInv, NEW h \in G, NEW l \in Loaders, NEW lazy \in BOOLEAN, CallOutside(h, l, lazy),
             NEW g \in G
      PROVE  Loaded(g)
  BY <1>1, <1>2 DEF CallOutside, IInv, Types
<1>3. ASSUME IInv, NEW g \in G, Continue(g)
      PROVE  Loaded(g)
  <2> DEFINE s == stack[g]
             f == Top(s)
  <2>1. s \in Seq(Frame) /\ s # <<>>
    BY <1>3 DEF IInv, Types, Continue, CallInside, ReturnAtOnce, Wait, StartBody, FinishBody,
       BodyPanics, Unwind, InPhase
  <2>2. Len(s) \in Nat \ {0} /\ DOMAIN s = 1 .. Len(s) /\ f = s[Len(s)] /\ f \in Frame
    BY <2>1, TopOfStack DEF Top
  <2>3. CASE \E l \in Loaders, lazy \in BOOLEAN : CallInside(g, l, lazy)
    <3>1. PICK l \in Loaders, lazy \in BOOLEAN : CallInside(g, l, lazy)
      BY <2>3
    <3>2. Calling(f, l) \in Frame /\ NewCall(l, lazy) \in Frame
      BY <2>2, <3>1 DEF Calling, NewCall, Frame, Phase
    <3>3. ReplaceTop(s, Calling(f, l)) \in Seq(Frame) /\ Len(ReplaceTop(s, Calling(f, l))) = Len(s)
      BY <2>1, <3>2, ReplaceTopOfStack
    <3>4. stack'[g] = Append(ReplaceTop(s, Calling(f, l)), NewCall(l, lazy))
      BY <1>3, <3>1 DEF CallInside, IInv, Types
    <3>5. Len(stack'[g]) = Len(s) + 1
      <4> HIDE DEF s, f
      <4> QED
        BY <3>2, <3>3, <3>4, AppendProperties
    <3> QED
      BY <1>1, <1>3, <2>2, <3>5
  <2>4. CASE ReturnAtOnce(g)
    <3>1. f.phase = "try" /\ (AlreadyLoaded(f) \/ loading[f.loader] = g) /\ loaded' = loaded
      BY <2>4 DEF ReturnAtOnce, InPhase
    <3>2. ASSUME loading[f.loader] = g
          PROVE  \E i \in 1 .. Len(s) - 1 : s[i].loader = f.loader /\ Running(s[i])
      <4>1. f.loader \in Loaders /\ loading[f.loader] # NoOne
        BY <2>2, <3>2, GoroutineAssumption DEF Frame
      <4>2. PICK i \in DOMAIN s : Running(s[i]) /\ s[i].loader = f.loader
        BY <1>3, <3>2, <4>1 DEF IInv, LoadingIsRunning
      <4>3. i # Len(s)
        BY <2>2, <3>1, <4>2 DEF Running
      <4> HIDE DEF s, f
      <4> QED
        BY <2>2, <4>2, <4>3
    <3> QED
      BY <3>1, <3>2 DEF AlreadyLoaded
  <2>5. CASE Wait(g) \/ BodyPanics(g)
    <3>1. PICK p \in {"wait", "unwind"} : stack' = [stack EXCEPT ![g] = TopInPhase(s, p)]
      BY <2>5 DEF Wait, BodyPanics
    <3>2. Len(TopInPhase(s, p)) = Len(s)
      BY <2>1, TopInPhaseStack DEF Phase
    <3>3. Len(stack'[g]) = Len(s)
      BY <1>3, <3>1, <3>2 DEF IInv, Types
    <3> QED
      BY <1>1, <1>3, <2>2, <3>3
  <2>6. CASE StartBody(g)
    <3> DEFINE b == [f EXCEPT !.phase = "body", !.left = Deps[f.loader]]
    <3>1. b \in Frame
      BY <2>2, LoaderAssumption DEF Frame, Phase
    <3>2. stack' = [stack EXCEPT ![g] = ReplaceTop(s, b)]
      BY <2>6 DEF StartBody
    <3> HIDE DEF b
    <3>3. Len(ReplaceTop(s, b)) = Len(s)
      BY <2>1, <3>1, ReplaceTopOfStack
    <3>4. Len(stack'[g]) = Len(s)
      BY <1>3, <3>2, <3>3 DEF IInv, Types
    <3> QED
      BY <1>1, <1>3, <2>2, <3>4
  <2>7. CASE FinishBody(g)
    <3>1. loaded'[f.loader]
      BY <1>3, <2>2, <2>7 DEF FinishBody, IInv, Types, Frame
    <3> QED
      BY <3>1
  <2>8. CASE Unwind(g)
    BY <2>8 DEF Unwind, InPhase
  <2> QED
    BY <1>3, <2>3, <2>4, <2>5, <2>6, <2>7, <2>8 DEF Continue
<1>4. ASSUME IInv, NEW h \in G, Continue(h), NEW g \in G
      PROVE  Loaded(g)
  <2>1. CASE g = h
    BY <1>3, <1>4, <2>1
  <2>2. CASE g # h
    <3>1. Len(stack'[g]) = Len(stack[g]) /\ stack[g] \in Seq(Frame)
      BY <1>4, <2>2, ReturnsOfOthers DEF IInv, Types
    <3> QED
      BY <1>1, <1>4, <3>1
  <2> QED
    BY <2>1, <2>2
<1> HIDE DEF Loaded
<1>5. ASSUME IInv, Next
      PROVE  \A g \in G : Loaded(g)
  BY <1>2, <1>4, <1>5 DEF Next
<1>6. IInv /\ [Next]_vars => [\A g \in G : Loaded(g)]_vars
  BY <1>5
<1>7. Spec => [][\A g \in G : Loaded(g)]_vars
  BY <1>6, Invariance, PTL DEF Spec
<1> QED
  BY <1>7 DEF LazyReturnsLoaded, Loaded

-----------------------------------------------------------------------------
(* The links.                                                              *)

Alterations == [kind : {"alter"}, var : Vars, old : Values]
Cachings == [kind : {"cache"}, var : StaticVars, version : 0 .. MaxVersion]
Loads == [kind : {"load"}, var : StaticVars, undisturbed : BOOLEAN]
Operations == {Idle} \cup Alterations \cup Cachings \cup Loads

Entries == [val : Values, version : 0 .. MaxVersion, by : {"bind", "alter"}]
Links == {NotLinked} \cup [version : 0 .. MaxVersion, fn : Values]

\* The types of the variables.
RootTypes ==
  /\ root \in [Vars -> [val : Values, version : 0 .. MaxVersion]]
  /\ syncLock \in [Vars -> G \cup {NoOne}]
  /\ local \in [G -> [Vars -> Values \cup {Unbound}]]
  /\ cachedFn \in [G -> [Vars -> Links]]
  /\ linkVersion \in [Vars -> -1 .. MaxVersion]
  /\ op \in [G -> Operations]
  /\ roots \in [Vars -> Seq(Entries)]
  /\ contested \subseteq StaticVars

\* A Var that is not dynamic has no thread binding: its Get reads the root.
StaticUnbound == \A g \in G, v \in StaticVars : local[g][v] = Unbound

\* AlterRoot holds the lock of its Var from its start to its end.
LockedWhileAltering ==
  \A g \in G, v \in Vars : (syncLock[v] = g) <=> (op[g].kind = "alter" /\ op[g].var = v)

\* Every version that has been read, ...
VersionsRead ==
  /\ \A g \in G : op[g].kind = "cache" => op[g].version <= root[op[g].var].version
  /\ \A g \in G, v \in Vars : cachedFn[g][v].version <= root[v].version
  /\ \A v \in Vars : linkVersion[v] <= root[v].version

\* ... and every value, is that of the root of then, and of now if nothing was installed.
LinksCurrent ==
  \A g \in G, v \in Vars :
    cachedFn[g][v].version = root[v].version => cachedFn[g][v].fn = root[v].val

LinkedByLoader ==
  \A v \in Vars \ contested : linkVersion[v] = root[v].version => root[v].val = Compiled

\* What an undisturbed loader wrote is the root still.
Undisturbed ==
  \A g \in G : op[g].kind = "load" /\ op[g].undisturbed => root[op[g].var].val = Compiled

\* The versions of a Var count its roots, and the root is the last one.
RootsCounted ==
  \A v \in Vars :
    /\ Len(roots[v]) = root[v].version + 1
    /\ \A i \in 1 .. Len(roots[v]) : roots[v][i].version = i - 1
    /\ roots[v][Len(roots[v])].val = root[v].val

\* What an alteration in progress has read.
ReadByAlter ==
  \A g \in G : op[g].kind = "alter" =>
    Alterable(local[g][op[g].var], roots[op[g].var], op[g].old)

RootInv ==
  /\ RootTypes
  /\ StaticUnbound
  /\ LockedWhileAltering
  /\ VersionsRead
  /\ LinksCurrent
  /\ LinkedByLoader
  /\ Undisturbed
  /\ RootsCounted
  /\ ReadByAlter

-----------------------------------------------------------------------------
(* Steps that install a root.                                              *)

LEMMA GetIsValue ==
  ASSUME RootTypes, NEW g \in G, NEW v \in Vars
  PROVE  Get(g, v) \in Values
<1>1. root[v].val \in Values /\ local[g][v] \in Values \cup {Unbound}
  BY DEF RootTypes
<1> QED
  BY <1>1 DEF Get

\* The new root has a version of its own and is the last of the Var's history; the other
\* Vars keep theirs.
LEMMA InstalledRoot ==
  ASSUME RootInv, NEW v \in Vars, NEW val \in Values, NEW by \in {"bind", "alter"},
         root[v].version < MaxVersion, InstallRoot(v, val, by)
  PROVE  /\ root' \in [Vars -> [val : Values, version : 0 .. MaxVersion]]
         /\ root'[v].val = val /\ root'[v].version = root[v].version + 1
         /\ \A w \in Vars \ {v} : root'[w] = root[w]
         /\ roots' \in [Vars -> Seq(Entries)]
         /\ Len(roots'[v]) = Len(roots[v]) + 1
         /\ \A i \in 1 .. Len(roots[v]) : roots'[v][i] = roots[v][i]
         /\ roots'[v][Len(roots[v]) + 1].by = by
         /\ \A w \in Vars \ {v} : roots'[w] = roots[w]
         /\ RootsCounted'
<1> DEFINE next == root[v].version + 1
           new == Entry(val, next, by)
<1>1. root[v].version \in 0 .. MaxVersion
  BY DEF RootInv, RootTypes
<1>2. next \in 0 .. MaxVersion
  BY <1>1, VarRootAssumption
<1>3. /\ root' = [root EXCEPT ![v] = [val |-> val, version |-> next]]
      /\ roots' = [roots EXCEPT ![v] = Append(roots[v], new)]
  BY DEF InstallRoot
<1>4. new \in Entries /\ new.version = next /\ new.val = val /\ new.by = by
  BY <1>2 DEF Entry, Entries
<1>5. /\ root' \in [Vars -> [val : Values, version : 0 .. MaxVersion]]
      /\ root'[v].val = val /\ root'[v].version = next
      /\ \A w \in Vars \ {v} : root'[w] = root[w]
  BY <1>2, <1>3 DEF RootInv, RootTypes
<1>6. roots \in [Vars -> Seq(Entries)] /\ roots[v] \in Seq(Entries)
  BY DEF RootInv, RootTypes
<1> HIDE DEF new
<1>7. /\ Append(roots[v], new) \in Seq(Entries)
      /\ Len(Append(roots[v], new)) = Len(roots[v]) + 1
      /\ \A i \in 1 .. Len(roots[v]) : Append(roots[v], new)[i] = roots[v][i]
      /\ Append(roots[v], new)[Len(roots[v]) + 1] = new
  BY <1>4, <1>6, AppendProperties
<1>8. roots'[v] = Append(roots[v], new) /\ \A w \in Vars \ {v} : roots'[w] = roots[w]
  BY <1>3, <1>6
<1>9. roots' \in [Vars -> Seq(Entries)]
  BY <1>3, <1>6, <1>7
<1>10. /\ Len(roots'[v]) = Len(roots[v]) + 1
       /\ \A i \in 1 .. Len(roots[v]) : roots'[v][i] = roots[v][i]
       /\ roots'[v][Len(roots[v]) + 1] = new
  BY <1>7, <1>8
<1>11. Len(roots[v]) = next /\ \A i \in 1 .. Len(roots[v]) : roots[v][i].version = i - 1
  BY DEF RootInv, RootsCounted
<1>12. RootsCounted'
  <2> SUFFICES ASSUME NEW w \in Vars
               PROVE  /\ Len(roots'[w]) = root'[w].version + 1
                      /\ \A i \in 1 .. Len(roots'[w]) : roots'[w][i].version = i - 1
                      /\ roots'[w][Len(roots'[w])].val = root'[w].val
    BY DEF RootsCounted
  <2>1. CASE w = v
    <3>1. next \in Nat
      BY <1>2
    <3>2. Len(roots'[v]) = next + 1 /\ roots'[v][next + 1] = new
      BY <1>10, <1>11
    <3>3. \A i \in 1 .. next : roots'[v][i].version = i - 1
      BY <1>10, <1>11
    <3>4. new.version = next /\ new.val = val
      BY <1>4
    <3> HIDE DEF next
    <3>5. \A i \in 1 .. next + 1 : roots'[v][i].version = i - 1
      BY <3>1, <3>2, <3>3, <3>4
    <3> QED
      BY <1>5, <2>1, <3>2, <3>4, <3>5
  <2>2. CASE w # v
    BY <1>5, <1>8, <2>2 DEF RootInv, RootsCounted
  <2> QED
    BY <2>1, <2>2
<1> QED
  BY <1>4, <1>5, <1>8, <1>9, <1>10, <1>12

\* A root installed by BindRoot leaves alterable what an alteration has read.
LEMMA BindLeavesAlterable ==
  ASSUME NEW old \in Seq(Entries), NEW new \in Seq(Entries), NEW binding, NEW val,
         Len(new) = Len(old) + 1, \A i \in 1 .. Len(old) : new[i] = old[i],
         new[Len(old) + 1].by = "bind", Alterable(binding, old, val)
  PROVE  Alterable(binding, new, val)
<1>1. CASE binding # Unbound
  BY <1>1 DEF Alterable
<1>2. CASE binding = Unbound
  <2>1. Len(old) \in Nat /\ DOMAIN old = 1 .. Len(old) /\ DOMAIN new = 1 .. Len(old) + 1
    OBVIOUS
  <2>2. PICK k \in 1 .. Len(old) : /\ val = old[k].val
                                  /\ \A j \in 1 .. Len(old) : j > k => old[j].by = "bind"
    BY <1>2, <2>1 DEF Alterable
  <2>3. k \in DOMAIN new /\ val = new[k].val
    BY <2>1, <2>2
  <2>4. \A j \in DOMAIN new : j > k => new[j].by = "bind"
    BY <2>1, <2>2
  <2> QED
    BY <1>2, <2>3, <2>4 DEF Alterable
<1> QED
  BY <1>1, <1>2

\* Disturb changes nothing but the history of a load of v.
LEMMA Disturbed ==
  ASSUME RootTypes, NEW v \in Vars
  PROVE  LET after == Disturb(v)
         IN /\ after \in [G -> Operations]
            /\ \A h \in G :
                 /\ after[h].kind = op[h].kind
                 /\ op[h].kind # "load" => after[h] = op[h]
                 /\ op[h].kind = "load" => after[h].var = op[h].var
                 /\ after[h].kind = "load" /\ after[h].undisturbed
                      => op[h].undisturbed /\ op[h].var # v
<1> DEFINE after == Disturb(v)
<1>1. ASSUME NEW h \in G
      PROVE  /\ after[h] \in Operations
             /\ after[h].kind = op[h].kind
             /\ op[h].kind # "load" => after[h] = op[h]
             /\ op[h].kind = "load" => after[h].var = op[h].var
             /\ after[h].kind = "load" /\ after[h].undisturbed
                  => op[h].undisturbed /\ op[h].var # v
  <2>1. op[h] \in Operations
    BY DEF RootTypes
  <2>2. CASE op[h].kind = "load" /\ op[h].var = v
    <3>1. after[h] = [op[h] EXCEPT !.undisturbed = FALSE]
      BY <2>2 DEF Disturb
    <3>2. op[h] \in Loads
      BY <2>1, <2>2 DEF Operations, Alterations, Loads, Cachings, Idle
    <3> QED
      BY <2>2, <3>1, <3>2 DEF Operations, Loads
  <2>3. CASE ~(op[h].kind = "load" /\ op[h].var = v)
    <3>1. after[h] = op[h]
      BY <2>3 DEF Disturb
    <3> QED
      BY <2>1, <2>3, <3>1
  <2> QED
    BY <2>2, <2>3
<1>2. after \in [G -> Operations]
  BY <1>1 DEF Disturb
<1> QED
  BY <1>1, <1>2

\* Links made before are not current for the new root, and stay what they were for others.
LEMMA InstallKeepsLinks ==
  ASSUME RootInv, NEW v \in Vars, NEW val \in Values, NEW by \in {"bind", "alter"},
         root[v].version < MaxVersion, InstallRoot(v, val, by),
         UNCHANGED <<cachedFn, linkVersion, contested>>
  PROVE  /\ \A g \in G, w \in Vars : cachedFn'[g][w].version <= root'[w].version
         /\ \A w \in Vars : linkVersion'[w] <= root'[w].version
         /\ LinksCurrent'
         /\ LinkedByLoader'
<1>1. /\ root'[v].val = val /\ root'[v].version = root[v].version + 1
      /\ \A w \in Vars \ {v} : root'[w] = root[w]
  BY InstalledRoot
<1>2. \A w \in Vars : root[w].version \in Int /\ linkVersion[w] \in Int
  BY VarRootAssumption DEF RootInv, RootTypes
<1>3. \A g \in G, w \in Vars : cachedFn[g][w].version \in Int
  <2> SUFFICES ASSUME NEW g \in G, NEW w \in Vars PROVE cachedFn[g][w].version \in Int
    OBVIOUS
  <2>1. cachedFn[g][w] \in Links
    BY DEF RootInv, RootTypes
  <2> QED
    BY <2>1, VarRootAssumption DEF Links, NotLinked
<1>4. /\ \A g \in G, w \in Vars : cachedFn[g][w].version <= root[w].version
      /\ \A w \in Vars : linkVersion[w] <= root[w].version
  BY DEF RootInv, VersionsRead
<1>5. \A g \in G, w \in Vars : cachedFn[g][w].version <= root'[w].version
  BY <1>1, <1>2, <1>3, <1>4
<1>6. \A w \in Vars : linkVersion[w] <= root'[w].version
  BY <1>1, <1>2, <1>4
<1>7. LinksCurrent'
  BY <1>1, <1>2, <1>3, <1>4 DEF RootInv, LinksCurrent
<1>8. LinkedByLoader'
  BY <1>1, <1>2, <1>4 DEF RootInv, LinkedByLoader
<1> QED
  BY <1>5, <1>6, <1>7, <1>8

-----------------------------------------------------------------------------
(* The initial states and the steps.                                       *)

LEMMA RootInitInvariant == RootInit => RootInv
<1> SUFFICES ASSUME RootInit PROVE RootInv
  OBVIOUS
<1> USE DEF RootInit
<1>1. RootTypes
  <2>1. roots \in [Vars -> Seq(Entries)]
    BY VarRootAssumption DEF Entry, Entries
  <2> QED
    BY <2>1, VarRootAssumption DEF RootTypes, Links, Operations
<1>2. StaticUnbound
  BY DEF StaticUnbound, StaticVars
<1>3. LockedWhileAltering
  BY GoroutineAssumption DEF LockedWhileAltering, Idle
<1>4. VersionsRead /\ LinksCurrent /\ LinkedByLoader
  BY DEF VersionsRead, LinksCurrent, LinkedByLoader, Idle, NotLinked
<1>5. Undisturbed /\ ReadByAlter
  BY DEF Undisturbed, ReadByAlter, Idle
<1>6. RootsCounted
  BY DEF RootsCounted, Entry
<1> QED
  BY <1>1, <1>2, <1>3, <1>4, <1>5, <1>6 DEF RootInv

LEMMA RebindInvariant ==
  ASSUME RootInv, NEW g \in G, NEW v \in DynamicVars, NEW val \in Values \cup {Unbound},
         Rebind(g, v, val)
  PROVE  RootInv'
<1> USE DEF Rebind
<1>1. RootTypes'
  BY VarRootAssumption DEF RootInv, RootTypes
<1>2. StaticUnbound'
  BY VarRootAssumption DEF RootInv, RootTypes, StaticUnbound, StaticVars
<1>3. (LockedWhileAltering /\ VersionsRead /\ LinksCurrent /\ LinkedByLoader /\ Undisturbed)'
  BY DEF RootInv, LockedWhileAltering, VersionsRead, LinksCurrent, LinkedByLoader, Undisturbed
<1>4. RootsCounted' /\ ReadByAlter'
  <2>1. op[g] = Idle /\ op' = op /\ roots' = roots /\ root' = root
        /\ \A h \in G : h # g => local'[h] = local[h]
    BY DEF RootInv, RootTypes
  <2> QED
    BY <2>1 DEF RootInv, RootsCounted, ReadByAlter, Idle
<1> QED
  BY <1>1, <1>2, <1>3, <1>4 DEF RootInv

LEMMA BindRootInvariant ==
  ASSUME RootInv, NEW g \in G, NEW v \in Vars, NEW val \in Values,
         root[v].version < MaxVersion, BindRoot(g, v, val)
  PROVE  RootInv'
<1> DEFINE after == Disturb(v)
<1>1. /\ InstallRoot(v, val, "bind") /\ op' = after
      /\ UNCHANGED <<syncLock, local, cachedFn, linkVersion, contested>>
  BY DEF BindRoot
<1>2. RootTypes
  BY DEF RootInv
<1>3. /\ root' \in [Vars -> [val : Values, version : 0 .. MaxVersion]]
      /\ root'[v].val = val /\ root'[v].version = root[v].version + 1
      /\ \A w \in Vars \ {v} : root'[w] = root[w]
      /\ roots' \in [Vars -> Seq(Entries)]
      /\ Len(roots'[v]) = Len(roots[v]) + 1
      /\ \A i \in 1 .. Len(roots[v]) : roots'[v][i] = roots[v][i]
      /\ roots'[v][Len(roots[v]) + 1].by = "bind"
      /\ \A w \in Vars \ {v} : roots'[w] = roots[w]
      /\ RootsCounted'
  BY <1>1, InstalledRoot
<1>4. /\ op' \in [G -> Operations]
      /\ \A h \in G :
           /\ op'[h].kind = op[h].kind
           /\ op[h].kind # "load" => op'[h] = op[h]
           /\ op[h].kind = "load" => op'[h].var = op[h].var
           /\ op'[h].kind = "load" /\ op'[h].undisturbed
                => op[h].undisturbed /\ op[h].var # v
  BY <1>1, <1>2, Disturbed
<1> HIDE DEF after
<1>5. RootTypes'
  BY <1>1, <1>2, <1>3, <1>4 DEF RootTypes
<1>6. StaticUnbound'
  BY <1>1 DEF RootInv, StaticUnbound
<1>7. LockedWhileAltering'
  BY <1>1, <1>4 DEF RootInv, LockedWhileAltering
<1>8. VersionsRead' /\ LinksCurrent' /\ LinkedByLoader'
  <2>1. \A h \in G : op'[h].kind = "cache" => op'[h].version <= root'[op'[h].var].version
    <3> SUFFICES ASSUME NEW h \in G, op'[h].kind = "cache"
                 PROVE  op'[h].version <= root'[op'[h].var].version
      OBVIOUS
    <3>1. op[h] \in Cachings /\ op'[h] = op[h]
      BY <1>2, <1>4 DEF RootTypes, Operations, Alterations, Cachings, Loads, Idle
    <3>2. op[h].version <= root[op[h].var].version
      BY <1>4 DEF RootInv, VersionsRead
    <3>3. op[h].version \in Int /\ op[h].var \in Vars
      BY <3>1, VarRootAssumption DEF Cachings, StaticVars
    <3>4. root[op[h].var].version \in Int
      BY <1>2, <3>3 DEF RootTypes
    <3> QED
      BY <1>3, <3>1, <3>2, <3>3, <3>4
  <2> QED
    BY <1>1, <2>1, InstallKeepsLinks DEF VersionsRead
<1>9. Undisturbed'
  <2> SUFFICES ASSUME NEW h \in G, op'[h].kind = "load", op'[h].undisturbed
               PROVE  root'[op'[h].var].val = Compiled
    BY DEF Undisturbed
  <2>1. /\ op[h].kind = "load" /\ op[h].undisturbed /\ op[h].var # v
        /\ op'[h].var = op[h].var
    BY <1>4
  <2>2. op[h].var \in Vars
    BY <1>2, <2>1 DEF RootTypes, Operations, Alterations, Cachings, Loads, Idle, StaticVars
  <2>3. root[op[h].var].val = Compiled
    BY <2>1 DEF RootInv, Undisturbed
  <2> QED
    BY <1>3, <2>1, <2>2, <2>3
<1>10. ReadByAlter'
  <2> SUFFICES ASSUME NEW h \in G, op'[h].kind = "alter"
               PROVE  Alterable(local'[h][op'[h].var], roots'[op'[h].var], op'[h].old)
    BY DEF ReadByAlter
  <2>1. op[h] \in Alterations /\ op'[h] = op[h]
    BY <1>2, <1>4 DEF RootTypes, Operations, Alterations, Cachings, Loads, Idle
  <2>2. op[h].var \in Vars /\ Alterable(local[h][op[h].var], roots[op[h].var], op[h].old)
    BY <2>1 DEF RootInv, ReadByAlter, Alterations
  <2>3. CASE op[h].var = v
    <3>1. roots[v] \in Seq(Entries) /\ roots'[v] \in Seq(Entries)
      BY <1>2, <1>3 DEF RootTypes
    <3>2. Alterable(local[h][v], roots'[v], op[h].old)
      BY <1>3, <2>2, <2>3, <3>1, BindLeavesAlterable
    <3> QED
      BY <1>1, <2>1, <2>3, <3>2
  <2>4. CASE op[h].var # v
    BY <1>1, <1>3, <2>1, <2>2, <2>4
  <2> QED
    BY <2>3, <2>4
<1> QED
  BY <1>3, <1>5, <1>6, <1>7, <1>8, <1>9, <1>10 DEF RootInv

LEMMA AlterStartInvariant ==
  ASSUME RootInv, NEW g \in G, NEW v \in Vars, AlterStart(g, v)
  PROVE  RootInv'
<1> USE DEF AlterStart
<1>1. Get(g, v) \in Values
  BY GetIsValue DEF RootInv
<1>2. /\ op[g] = Idle /\ syncLock[v] = NoOne /\ g # NoOne
      /\ \A h \in G : h # g => op'[h] = op[h]
      /\ op'[g] = [kind |-> "alter", var |-> v, old |-> Get(g, v)]
  BY GoroutineAssumption DEF RootInv, RootTypes
<1>3. RootTypes'
  <2>1. op'[g] \in Operations
    BY <1>1, <1>2 DEF Operations, Alterations
  <2> QED
    BY <2>1, <1>2 DEF RootInv, RootTypes
<1>4. StaticUnbound'
  BY DEF RootInv, StaticUnbound
<1>5. LockedWhileAltering'
  BY <1>2, GoroutineAssumption DEF RootInv, LockedWhileAltering, RootTypes, Idle
<1>6. VersionsRead' /\ LinksCurrent' /\ LinkedByLoader'
  BY <1>2 DEF RootInv, VersionsRead, LinksCurrent, LinkedByLoader
<1>7. Undisturbed' /\ RootsCounted'
  BY <1>2 DEF RootInv, Undisturbed, RootsCounted
<1>8. Alterable(local[g][v], roots[v], Get(g, v))
  <2>1. CASE local[g][v] # Unbound
    BY <2>1 DEF Alterable, Get
  <2>2. CASE local[g][v] = Unbound
    <3>1. roots[v] \in Seq(Entries) /\ Len(roots[v]) = root[v].version + 1
          /\ root[v].version \in 0 .. MaxVersion /\ roots[v][Len(roots[v])].val = root[v].val
      BY DEF RootInv, RootTypes, RootsCounted
    <3> DEFINE k == Len(roots[v])
    <3>2. k \in DOMAIN roots[v] /\ \A j \in DOMAIN roots[v] : ~(j > k)
      BY <3>1
    <3> QED
      BY <2>2, <3>1, <3>2 DEF Alterable, Get
  <2> QED
    BY <2>1, <2>2
<1>9. ReadByAlter'
  BY <1>2, <1>8 DEF RootInv, ReadByAlter
<1> QED
  BY <1>3, <1>4, <1>5, <1>6, <1>7, <1>9 DEF RootInv

\* Other alterations of the Var wait for the lock: nothing they have read is replaced.
LEMMA AlterInstallInvariant ==
  ASSUME RootInv, NEW g \in G, root[op[g].var].version < MaxVersion, AlterInstall(g)
  PROVE  RootInv'
<1> DEFINE v == op[g].var
           val == F[op[g].old]
           after == Disturb(v)
<1>1. /\ op[g].kind = "alter" /\ InstallRoot(v, val, "alter")
      /\ syncLock' = [syncLock EXCEPT ![v] = NoOne]
      /\ op' = [after EXCEPT ![g] = Idle]
      /\ UNCHANGED <<local, cachedFn, linkVersion, contested>>
  BY DEF AlterInstall
<1>2. RootTypes
  BY DEF RootInv
<1>3. v \in Vars /\ val \in Values
  <2>1. op[g] \in Alterations
    BY <1>1, <1>2 DEF RootTypes, Operations, Alterations, Cachings, Loads, Idle
  <2> QED
    BY <2>1, VarRootAssumption DEF Alterations
<1>4. root[v].version < MaxVersion
  OBVIOUS
<1> HIDE DEF v, val
<1>5. /\ root' \in [Vars -> [val : Values, version : 0 .. MaxVersion]]
      /\ root'[v].val = val /\ root'[v].version = root[v].version + 1
      /\ \A w \in Vars \ {v} : root'[w] = root[w]
      /\ roots' \in [Vars -> Seq(Entries)]
      /\ \A w \in Vars \ {v} : roots'[w] = roots[w]
      /\ RootsCounted'
  BY <1>1, <1>3, <1>4, InstalledRoot
<1>6. /\ after \in [G -> Operations]
      /\ \A h \in G :
           /\ after[h].kind = op[h].kind
           /\ op[h].kind # "load" => after[h] = op[h]
           /\ op[h].kind = "load" => after[h].var = op[h].var
           /\ after[h].kind = "load" /\ after[h].undisturbed
                => op[h].undisturbed /\ op[h].var # v
  BY <1>2, <1>3, Disturbed
<1> HIDE DEF after
<1>7. op'[g] = Idle /\ \A h \in G : h # g => op'[h] = after[h]
  BY <1>1, <1>6
<1>8. RootTypes'
  BY <1>1, <1>2, <1>3, <1>5, <1>6 DEF RootTypes, Operations
<1>9. StaticUnbound'
  BY <1>1 DEF RootInv, StaticUnbound
<1>10. \A h \in G : h # g /\ op[h].kind = "alter" => op[h].var # v
  BY <1>1, <1>3 DEF RootInv, LockedWhileAltering, v
<1>11. LockedWhileAltering'
  <2> SUFFICES ASSUME NEW h \in G, NEW w \in Vars
               PROVE  (syncLock'[w] = h) <=> (op'[h].kind = "alter" /\ op'[h].var = w)
    BY DEF LockedWhileAltering
  <2>1. (syncLock[w] = h) <=> (op[h].kind = "alter" /\ op[h].var = w)
    BY DEF RootInv, LockedWhileAltering
  <2>2. syncLock'[w] = IF w = v THEN NoOne ELSE syncLock[w]
    BY <1>1, <1>2, <1>3 DEF RootTypes
  <2>3. CASE h = g
    BY <1>1, <1>7, <2>1, <2>2, <2>3, GoroutineAssumption DEF Idle, v
  <2>4. CASE h # g
    <3>1. op'[h].kind = op[h].kind /\ (op[h].kind = "alter" => op'[h].var = op[h].var)
      BY <1>6, <1>7, <2>4
    <3> QED
      BY <1>10, <2>1, <2>2, <2>4, <3>1, GoroutineAssumption
  <2> QED
    BY <2>3, <2>4
<1>12. VersionsRead' /\ LinksCurrent' /\ LinkedByLoader'
  <2>1. \A h \in G : op'[h].kind = "cache" => op'[h].version <= root'[op'[h].var].version
    <3> SUFFICES ASSUME NEW h \in G, op'[h].kind = "cache"
                 PROVE  op'[h].version <= root'[op'[h].var].version
      OBVIOUS
    <3> h # g
      BY <1>7 DEF Idle
    <3> op[h].kind = "cache"
      BY <1>6, <1>7
    <3>1. op[h] \in Cachings /\ op'[h] = op[h] /\ op[h].kind = "cache"
      BY <1>2, <1>6, <1>7 DEF RootTypes, Operations, Alterations, Cachings, Loads, Idle
    <3>2. op[h].version <= root[op[h].var].version
      BY <3>1 DEF RootInv, VersionsRead
    <3>3. op[h].version \in Int /\ op[h].var \in Vars
      BY <3>1, VarRootAssumption DEF Cachings, StaticVars
    <3>4. root[op[h].var].version \in Int
      BY <1>2, <3>3 DEF RootTypes
    <3> QED
      BY <1>5, <3>1, <3>2, <3>3, <3>4
  <2> QED
    BY <1>1, <1>3, <1>4, <2>1, InstallKeepsLinks DEF VersionsRead
<1>13. Undisturbed'
  <2> SUFFICES ASSUME NEW h \in G, op'[h].kind = "load", op'[h].undisturbed
               PROVE  root'[op'[h].var].val = Compiled
    BY DEF Undisturbed
  <2>1. h # g /\ op[h].undisturbed /\ op[h].kind = op'[h].kind
    BY <1>6, <1>7 DEF Idle
  <2>2. op[h].var # v /\ op[h].var \in Vars
    BY <1>2, <1>6, <1>7, <1>10, <2>1
       DEF RootTypes, Operations, Alterations, Cachings, Loads, Idle, StaticVars
  <2> QED
    BY <1>5, <1>6, <1>7, <2>1, <2>2 DEF RootInv, Undisturbed
<1>14. ReadByAlter'
  <2> SUFFICES ASSUME NEW h \in G, op'[h].kind = "alter"
               PROVE  Alterable(local'[h][op'[h].var], roots'[op'[h].var], op'[h].old)
    BY DEF ReadByAlter
  <2>1. h # g /\ op'[h] = op[h]
    BY <1>6, <1>7 DEF Idle
  <2>2. op[h] \in Alterations
    BY <1>2, <2>1 DEF RootTypes, Operations, Alterations, Cachings, Loads, Idle
  <2>3. op[h].var \in Vars \ {v}
    BY <1>10, <2>1, <2>2 DEF Alterations
  <2> QED
    BY <1>1, <1>5, <2>1, <2>3 DEF RootInv, ReadByAlter
<1> QED
  BY <1>5, <1>8, <1>9, <1>11, <1>12, <1>13, <1>14 DEF RootInv

LEMMA AlterPanicsInvariant ==
  ASSUME RootInv, NEW g \in G, AlterPanics(g)
  PROVE  RootInv'
<1> DEFINE v == op[g].var
<1>1. /\ op[g].kind = "alter"
      /\ syncLock' = [syncLock EXCEPT ![v] = NoOne]
      /\ op' = [op EXCEPT ![g] = Idle]
      /\ UNCHANGED <<root, local, cachedFn, linkVersion, roots, contested>>
  BY DEF AlterPanics
<1>2. RootTypes
  BY DEF RootInv
<1>3. v \in Vars
  <2>1. op[g] \in Alterations
    BY <1>1, <1>2 DEF RootTypes, Operations, Alterations, Cachings, Loads, Idle
  <2> QED
    BY <2>1 DEF Alterations
<1>4. \A h \in G : h # g /\ op[h].kind = "alter" => op[h].var # v
  BY <1>1, <1>3 DEF RootInv, LockedWhileAltering
<1> HIDE DEF v
<1>5. op'[g] = Idle /\ \A h \in G : h # g => op'[h] = op[h]
  BY <1>1, <1>2 DEF RootTypes
<1>6. RootTypes'
  BY <1>1, <1>2, <1>3 DEF RootTypes, Operations
<1>7. LockedWhileAltering'
  BY <1>1, <1>2, <1>3, <1>4, <1>5, GoroutineAssumption
     DEF RootInv, LockedWhileAltering, RootTypes, Idle, v
<1>8. VersionsRead' /\ Undisturbed' /\ ReadByAlter'
  BY <1>1, <1>5 DEF RootInv, VersionsRead, Undisturbed, ReadByAlter, Idle
<1>9. (StaticUnbound /\ LinksCurrent /\ LinkedByLoader /\ RootsCounted)'
  BY <1>1 DEF RootInv, StaticUnbound, LinksCurrent, LinkedByLoader, RootsCounted
<1> QED
  BY <1>6, <1>7, <1>8, <1>9 DEF RootInv


LEMMA CacheVersionInvariant ==
  ASSUME RootInv, NEW g \in G, NEW v \in StaticVars, CacheVersion(g, v)
  PROVE  RootInv'
<1> USE DEF CacheVersion
<1>1. /\ op[g] = Idle /\ v \in Vars
      /\ \A h \in G : h # g => op'[h] = op[h]
      /\ op'[g] = [kind |-> "cache", var |-> v, version |-> root[v].version]
  BY DEF RootInv, RootTypes, StaticVars
<1>2. root[v].version \in 0 .. MaxVersion
  BY <1>1 DEF RootInv, RootTypes
<1>3. op'[g] \in Operations
  BY <1>1, <1>2 DEF Operations, Cachings
<1>4. RootTypes'
  BY <1>1, <1>3 DEF RootInv, RootTypes
<1>5. LockedWhileAltering'
  BY <1>1 DEF RootInv, LockedWhileAltering, Idle
<1>6. VersionsRead'
  BY <1>1, <1>2, VarRootAssumption DEF RootInv, VersionsRead
<1>7. (StaticUnbound /\ LinksCurrent /\ LinkedByLoader)'
  BY DEF RootInv, StaticUnbound, LinksCurrent, LinkedByLoader
<1>8. (Undisturbed /\ RootsCounted /\ ReadByAlter)'
  BY <1>1 DEF RootInv, Undisturbed, RootsCounted, ReadByAlter
<1> QED
  BY <1>4, <1>5, <1>6, <1>7, <1>8 DEF RootInv

\* A version read before an installation is not current any more: the adapter may hold
\* any function under it.
LEMMA CacheFnInvariant ==
  ASSUME RootInv, NEW g \in G, CacheFn(g)
  PROVE  RootInv'
<1> DEFINE v == op[g].var
           link == [version |-> op[g].version, fn |-> Get(g, v)]
<1>1. /\ op[g].kind = "cache"
      /\ cachedFn' = [cachedFn EXCEPT ![g][v] = link]
      /\ op' = [op EXCEPT ![g] = Idle]
      /\ UNCHANGED <<root, syncLock, local, linkVersion, roots, contested>>
  BY DEF CacheFn
<1>2. RootTypes
  BY DEF RootInv
<1>3. v \in StaticVars /\ v \in Vars /\ op[g].version \in 0 .. MaxVersion
  <2>1. op[g] \in Cachings
    BY <1>1, <1>2 DEF RootTypes, Operations, Alterations, Cachings, Loads, Idle
  <2> QED
    BY <2>1 DEF Cachings, StaticVars
<1>4. Get(g, v) = root[v].val /\ Get(g, v) \in Values
  BY <1>2, <1>3, GetIsValue DEF RootInv, StaticUnbound, Get
<1>5. link \in Links /\ link.version = op[g].version /\ link.fn = root[v].val
  BY <1>3, <1>4 DEF Links
<1>6. op[g].version <= root[v].version
  BY <1>1 DEF RootInv, VersionsRead
<1> HIDE DEF v, link
<1>7. /\ cachedFn' \in [G -> [Vars -> Links]]
      /\ \A h \in G, w \in Vars :
           cachedFn'[h][w] = IF h = g /\ w = v THEN link ELSE cachedFn[h][w]
  BY <1>1, <1>2, <1>3, <1>5 DEF RootTypes
<1>8. op'[g] = Idle /\ \A h \in G : h # g => op'[h] = op[h]
  BY <1>1, <1>2 DEF RootTypes
<1>9. RootTypes'
  BY <1>1, <1>2, <1>7 DEF RootTypes, Operations
<1>10. LockedWhileAltering'
  BY <1>1, <1>8 DEF RootInv, LockedWhileAltering, Idle
<1>11. VersionsRead'
  BY <1>1, <1>5, <1>6, <1>7, <1>8 DEF RootInv, VersionsRead, Idle
<1>12. LinksCurrent'
  BY <1>1, <1>5, <1>7 DEF RootInv, LinksCurrent
<1>13. (StaticUnbound /\ LinkedByLoader)'
  BY <1>1 DEF RootInv, StaticUnbound, LinkedByLoader
<1>14. (Undisturbed /\ RootsCounted /\ ReadByAlter)'
  BY <1>1, <1>8 DEF RootInv, Undisturbed, RootsCounted, ReadByAlter, Idle
<1> QED
  BY <1>9, <1>10, <1>11, <1>12, <1>13, <1>14 DEF RootInv

LEMMA LoadDefineInvariant ==
  ASSUME RootInv, NEW g \in G, NEW v \in StaticVars,
         root[v].version < MaxVersion, LoadDefine(g, v)
  PROVE  RootInv'
<1> DEFINE after == Disturb(v)
           load == [kind |-> "load", var |-> v, undisturbed |-> TRUE]
<1>1. /\ op[g] = Idle /\ InstallRoot(v, Compiled, "bind")
      /\ op' = [after EXCEPT ![g] = load]
      /\ UNCHANGED <<syncLock, local, cachedFn, linkVersion, contested>>
  BY DEF LoadDefine
<1>2. RootTypes /\ v \in Vars /\ Compiled \in Values
  BY VarRootAssumption DEF RootInv, StaticVars
<1>3. /\ root' \in [Vars -> [val : Values, version : 0 .. MaxVersion]]
      /\ root'[v].val = Compiled /\ root'[v].version = root[v].version + 1
      /\ \A w \in Vars \ {v} : root'[w] = root[w]
      /\ roots' \in [Vars -> Seq(Entries)]
      /\ Len(roots'[v]) = Len(roots[v]) + 1
      /\ \A i \in 1 .. Len(roots[v]) : roots'[v][i] = roots[v][i]
      /\ roots'[v][Len(roots[v]) + 1].by = "bind"
      /\ \A w \in Vars \ {v} : roots'[w] = roots[w]
      /\ RootsCounted'
  BY <1>1, <1>2, InstalledRoot
<1>4. /\ after \in [G -> Operations]
      /\ \A h \in G :
           /\ after[h].kind = op[h].kind
           /\ op[h].kind # "load" => after[h] = op[h]
           /\ op[h].kind = "load" => after[h].var = op[h].var
           /\ after[h].kind = "load" /\ after[h].undisturbed
                => op[h].undisturbed /\ op[h].var # v
  BY <1>2, Disturbed
<1> HIDE DEF after
<1>5. op'[g] = load /\ \A h \in G : h # g => op'[h] = after[h]
  BY <1>1, <1>4
<1>6. load \in Operations
  BY DEF Operations, Loads
<1>7. RootTypes'
  BY <1>1, <1>2, <1>3, <1>4, <1>6 DEF RootTypes
<1>8. StaticUnbound'
  BY <1>1 DEF RootInv, StaticUnbound
<1>9. LockedWhileAltering'
  BY <1>1, <1>4, <1>5 DEF RootInv, LockedWhileAltering, Idle
<1>10. VersionsRead' /\ LinksCurrent' /\ LinkedByLoader'
  <2>1. \A h \in G : op'[h].kind = "cache" => op'[h].version <= root'[op'[h].var].version
    <3> SUFFICES ASSUME NEW h \in G, op'[h].kind = "cache"
                 PROVE  op'[h].version <= root'[op'[h].var].version
      OBVIOUS
    <3> h # g
      BY <1>5
    <3>1. op[h] \in Cachings /\ op'[h] = op[h] /\ op[h].kind = "cache"
      BY <1>2, <1>4, <1>5 DEF RootTypes, Operations, Alterations, Cachings, Loads, Idle
    <3>2. op[h].version <= root[op[h].var].version
      BY <3>1 DEF RootInv, VersionsRead
    <3>3. op[h].version \in Int /\ op[h].var \in Vars
      BY <3>1, VarRootAssumption DEF Cachings, StaticVars
    <3>4. root[op[h].var].version \in Int
      BY <1>2, <3>3 DEF RootTypes
    <3> QED
      BY <1>3, <3>1, <3>2, <3>3, <3>4
  <2> QED
    BY <1>1, <1>2, <2>1, InstallKeepsLinks DEF VersionsRead
<1>11. Undisturbed'
  <2> SUFFICES ASSUME NEW h \in G, op'[h].kind = "load", op'[h].undisturbed
               PROVE  root'[op'[h].var].val = Compiled
    BY DEF Undisturbed
  <2>1. CASE h = g
    BY <1>3, <1>5, <2>1
  <2>2. CASE h # g
    <3>1. /\ op[h].kind = "load" /\ op[h].undisturbed /\ op[h].var # v
          /\ op'[h].var = op[h].var
      BY <1>4, <1>5, <2>2
    <3>2. op[h].var \in Vars
      BY <1>2, <3>1 DEF RootTypes, Operations, Alterations, Cachings, Loads, Idle, StaticVars
    <3>3. root[op[h].var].val = Compiled
      BY <3>1 DEF RootInv, Undisturbed
    <3> QED
      BY <1>3, <3>1, <3>2, <3>3
  <2> QED
    BY <2>1, <2>2
<1>12. ReadByAlter'
  <2> SUFFICES ASSUME NEW h \in G, op'[h].kind = "alter"
               PROVE  Alterable(local'[h][op'[h].var], roots'[op'[h].var], op'[h].old)
    BY DEF ReadByAlter
  <2>1. op'[h] = op[h]
    BY <1>4, <1>5
  <2>2. op[h] \in Alterations
    BY <1>2, <2>1 DEF RootTypes, Operations, Alterations, Cachings, Loads, Idle
  <2>3. op[h].var \in Vars /\ Alterable(local[h][op[h].var], roots[op[h].var], op[h].old)
    BY <2>2 DEF RootInv, ReadByAlter, Alterations
  <2>4. CASE op[h].var = v
    <3>1. roots[v] \in Seq(Entries) /\ roots'[v] \in Seq(Entries)
      BY <1>2, <1>3 DEF RootTypes
    <3>2. Alterable(local[h][v], roots'[v], op[h].old)
      BY <1>3, <2>3, <2>4, <3>1, BindLeavesAlterable
    <3> QED
      BY <1>1, <2>1, <2>4, <3>2
  <2>5. CASE op[h].var # v
    BY <1>1, <1>3, <2>1, <2>3, <2>5
  <2> QED
    BY <2>4, <2>5
<1> QED
  BY <1>3, <1>7, <1>8, <1>9, <1>10, <1>11, <1>12 DEF RootInv

\* The version that the loader records is that of its function, or the Var is contested.
LEMMA LoadRecordInvariant ==
  ASSUME RootInv, NEW g \in G, LoadRecord(g)
  PROVE  RootInv'
<1> DEFINE v == op[g].var
<1>1. /\ op[g].kind = "load"
      /\ linkVersion' = [linkVersion EXCEPT ![v] = root[v].version]
      /\ contested' = IF op[g].undisturbed THEN contested \ {v} ELSE contested \cup {v}
      /\ op' = [op EXCEPT ![g] = Idle]
      /\ UNCHANGED <<root, syncLock, local, cachedFn, roots>>
  BY DEF LoadRecord
<1>2. RootTypes
  BY DEF RootInv
<1>3. v \in StaticVars /\ v \in Vars
  <2>1. op[g] \in Loads
    BY <1>1, <1>2 DEF RootTypes, Operations, Alterations, Cachings, Loads, Idle
  <2> QED
    BY <2>1 DEF Loads, StaticVars
<1>4. op[g].undisturbed => root[v].val = Compiled
  BY <1>1 DEF RootInv, Undisturbed
<1> HIDE DEF v
<1>5. op'[g] = Idle /\ \A h \in G : h # g => op'[h] = op[h]
  BY <1>1, <1>2 DEF RootTypes
<1>6. root[v].version \in 0 .. MaxVersion
  BY <1>2, <1>3 DEF RootTypes
<1>7. /\ linkVersion'[v] = root[v].version
      /\ \A w \in Vars \ {v} : linkVersion'[w] = linkVersion[w]
  BY <1>1, <1>2, <1>3 DEF RootTypes
<1>8. RootTypes'
  <2>1. linkVersion' \in [Vars -> -1 .. MaxVersion]
    <3>1. root[v].version \in -1 .. MaxVersion
      BY <1>6, VarRootAssumption
    <3> QED
      BY <1>1, <1>2, <3>1 DEF RootTypes
  <2>2. op' \in [G -> Operations]
    BY <1>1, <1>2 DEF RootTypes, Operations
  <2>3. contested' \subseteq StaticVars
    BY <1>1, <1>2, <1>3 DEF RootTypes
  <2> QED
    BY <1>1, <1>2, <2>1, <2>2, <2>3 DEF RootTypes
<1>9. LockedWhileAltering'
  BY <1>1, <1>5 DEF RootInv, LockedWhileAltering, Idle
<1>10. VersionsRead'
  BY <1>1, <1>5, <1>6, <1>7, VarRootAssumption DEF RootInv, VersionsRead, Idle
<1>11. LinkedByLoader'
  <2> SUFFICES ASSUME NEW w \in Vars \ contested', linkVersion'[w] = root'[w].version
               PROVE  root'[w].val = Compiled
    BY DEF LinkedByLoader
  <2>1. CASE w = v
    BY <1>1, <1>4, <2>1
  <2>2. CASE w # v
    BY <1>1, <1>7, <2>2 DEF RootInv, LinkedByLoader
  <2> QED
    BY <2>1, <2>2
<1>12. (StaticUnbound /\ LinksCurrent)'
  BY <1>1 DEF RootInv, StaticUnbound, LinksCurrent
<1>13. (Undisturbed /\ RootsCounted /\ ReadByAlter)'
  BY <1>1, <1>5 DEF RootInv, Undisturbed, RootsCounted, ReadByAlter, Idle
<1> QED
  BY <1>8, <1>9, <1>10, <1>11, <1>12, <1>13 DEF RootInv

LEMMA RootNextInvariant == RootInv /\ [RootNext]_rootVars => RootInv'
<1> SUFFICES ASSUME RootInv, [RootNext]_rootVars PROVE RootInv'
  OBVIOUS
<1>1. CASE UNCHANGED rootVars
  BY <1>1 DEF rootVars, RootInv, RootTypes, StaticUnbound, LockedWhileAltering, VersionsRead,
     LinksCurrent, LinkedByLoader, Undisturbed, RootsCounted, ReadByAlter
<1>2. ASSUME NEW g \in G, NEW v \in DynamicVars, NEW val \in Values \cup {Unbound},
             Rebind(g, v, val)
      PROVE  RootInv'
  BY <1>2, RebindInvariant
<1>3. ASSUME NEW g \in G, NEW v \in Vars, root[v].version < MaxVersion,
             \/ \E val \in Values : BindRoot(g, v, val)
             \/ AlterStart(g, v)
             \/ v \in StaticVars /\ LoadDefine(g, v)
      PROVE  RootInv'
  BY <1>3, BindRootInvariant, AlterStartInvariant, LoadDefineInvariant
<1>4. ASSUME NEW g \in G, root[op[g].var].version < MaxVersion, AlterInstall(g)
      PROVE  RootInv'
  BY <1>4, AlterInstallInvariant
<1>5. ASSUME NEW g \in G, NEW v \in StaticVars, CacheVersion(g, v)
      PROVE  RootInv'
  BY <1>5, CacheVersionInvariant
<1>6. ASSUME NEW g \in G, AlterPanics(g) \/ CacheFn(g) \/ LoadRecord(g)
      PROVE  RootInv'
  BY <1>6, AlterPanicsInvariant, CacheFnInvariant, LoadRecordInvariant
<1> QED
  BY <1>1, <1>2, <1>3, <1>4, <1>5, <1>6 DEF RootNext

-----------------------------------------------------------------------------
(* The theorems.                                                           *)

\* The strengthened invariant holds in every reachable state.
THEOREM RootInvariance == RootSpec => []RootInv
  BY RootInitInvariant, RootNextInvariant, PTL DEF RootSpec

\* Every variable keeps its type, and syncLock is held exactly while AlterRoot runs.
THEOREM RootTypeCorrect == RootSpec => []RootTypeOK
<1>1. RootInv => RootTypeOK
  BY DEF RootInv, RootTypes, Links, LockedWhileAltering, RootTypeOK
<1> QED
  BY <1>1, RootInvariance, PTL

\* A call linked ahead of time whose version is current calls the current function.
THEOREM LinksAreCurrent == RootSpec => []CachedFnCurrent
<1>1. RootInv => CachedFnCurrent
  BY DEF RootInv, LinksCurrent, LinkedByLoader, CachedFnCurrent
<1> QED
  BY <1>1, RootInvariance, PTL

\* Two reads that have seen one version of a Var have seen one root: of all the roots a
\* Var has had no two have the same version, and the last of them is its root.
THEOREM VersionsIdentify == RootSpec => []VersionIdentifiesRoot
<1>1. ASSUME RootInv, NEW v \in Vars
      PROVE  /\ \A i, j \in DOMAIN roots[v] : roots[v][i].version = roots[v][j].version => i = j
             /\ LET last == roots[v][Len(roots[v])]
                IN last.version = root[v].version /\ last.val = root[v].val
  <2>1. /\ roots[v] \in Seq(Entries) /\ root[v].version \in 0 .. MaxVersion
        /\ Len(roots[v]) = root[v].version + 1
        /\ \A i \in 1 .. Len(roots[v]) : roots[v][i].version = i - 1
        /\ roots[v][Len(roots[v])].val = root[v].val
    BY <1>1 DEF RootInv, RootTypes, RootsCounted
  <2>2. \A i \in DOMAIN roots[v] : i \in Int /\ roots[v][i].version = i - 1
    BY <2>1
  <2>3. root[v].version \in Nat /\ Len(roots[v]) \in 1 .. Len(roots[v])
    BY <2>1
  <2>4. \A i, j \in DOMAIN roots[v] : roots[v][i].version = roots[v][j].version => i = j
    <3> SUFFICES ASSUME NEW i \in DOMAIN roots[v], NEW j \in DOMAIN roots[v],
                        roots[v][i].version = roots[v][j].version
                 PROVE  i = j
      OBVIOUS
    <3>1. i \in Int /\ j \in Int /\ i - 1 = j - 1
      BY <2>2
    <3> QED
      BY <3>1
  <2>5. roots[v][Len(roots[v])].version = root[v].version
    BY <2>1, <2>3
  <2> QED
    BY <2>1, <2>4, <2>5
<1>2. RootInv => VersionIdentifiesRoot
  BY <1>1 DEF VersionIdentifiesRoot
<1> QED
  BY <1>2, RootInvariance, PTL

\* A root that alter-var-root stores loses no update of another alter-var-root, however
\* many goroutines alter or bind the Var, and however long their functions take or if they
\* panic.
THEOREM AlterationsLoseNothing == RootSpec => AlterationsSerialised
<1> DEFINE Kept(g) == LET v == op[g].var
                      IN \/ root'[v] = root[v]
                         \/ \E val \in Values :
                              root'[v].val = F[val] /\ Alterable(local[g][v], roots[v], val)
<1>1. ASSUME RootInv, [RootNext]_rootVars, NEW g \in G, op[g].kind = "alter", op'[g] = Idle
      PROVE  Kept(g)
  <2>1. op[g] \in Alterations
    BY <1>1 DEF RootInv, RootTypes, Operations, Alterations, Cachings, Loads, Idle
  <2>2. op[g] # Idle
    BY <1>1 DEF Idle
  <2>3. ASSUME NEW h \in G, NEW v \in Vars,
               op[h] = Idle \/ h # g, \A k \in G : k # h => op'[k] = Disturb(v)[k]
        PROVE  FALSE
    <3>1. h # g
      BY <2>2, <2>3
    <3>2. op'[g] = Disturb(v)[g]
      BY <2>3, <3>1
    <3>3. Disturb(v)[g].kind = op[g].kind
      BY <1>1, <2>3, Disturbed DEF RootInv
    <3> QED
      BY <1>1, <3>2, <3>3 DEF Idle
  <2>4. ASSUME NEW h \in G, AlterInstall(h)
        PROVE  Kept(g)
    <3>1. CASE h = g
      <4>1. op[g].var \in Vars /\ op[g].old \in Values
            /\ InstallRoot(op[g].var, F[op[g].old], "alter")
        BY <2>1, <2>4, <3>1 DEF AlterInstall, Alterations
      <4>2. Alterable(local[g][op[g].var], roots[op[g].var], op[g].old)
        BY <1>1 DEF RootInv, ReadByAlter
      <4>3. root'[op[g].var].val = F[op[g].old]
        BY <1>1, <4>1 DEF InstallRoot, RootInv, RootTypes
      <4> DEFINE old == op[g].old
      <4>4. old \in Values /\ root'[op[g].var].val = F[old]
            /\ Alterable(local[g][op[g].var], roots[op[g].var], old)
        BY <4>1, <4>2, <4>3
      <4> HIDE DEF old
      <4> QED
        BY <4>4
    <3>2. CASE h # g
      <4>1. op[h].var \in Vars
        <5>1. op[h] \in Alterations
          BY <1>1, <2>4
             DEF RootInv, RootTypes, AlterInstall, Operations, Alterations, Cachings, Loads, Idle
        <5> QED
          BY <5>1 DEF Alterations
      <4>2. \A k \in G : k # h => op'[k] = Disturb(op[h].var)[k]
        BY <2>4 DEF AlterInstall, Disturb
      <4> QED
        BY <2>3, <3>2, <4>1, <4>2
    <3> QED
      BY <3>1, <3>2
  <2>5. CASE root' = root
    BY <2>5
  <2>6. ASSUME NEW h \in G, NEW v \in Vars, NEW val \in Values, BindRoot(h, v, val)
        PROVE  FALSE
    BY <2>3, <2>6 DEF BindRoot
  <2>7. ASSUME NEW h \in G, NEW v \in StaticVars, LoadDefine(h, v)
        PROVE  FALSE
    <3>1. v \in Vars /\ op[h] = Idle /\ \A k \in G : k # h => op'[k] = Disturb(v)[k]
      BY <2>7 DEF LoadDefine, Disturb, StaticVars
    <3> QED
      BY <2>3, <3>1
  <2>8. \/ root' = root
        \/ \E h \in G : AlterInstall(h)
        \/ \E h \in G, v \in Vars, val \in Values : BindRoot(h, v, val)
        \/ \E h \in G, v \in StaticVars : LoadDefine(h, v)
    BY <1>1 DEF RootNext, rootVars, Rebind, AlterStart, AlterPanics, CacheVersion, CacheFn, LoadRecord
  <2> HIDE DEF Kept
  <2> QED
    BY <2>4, <2>5, <2>6, <2>7, <2>8
<1> HIDE DEF Kept
<1>2. RootInv /\ [RootNext]_rootVars =>
        [\A g \in G : op[g].kind = "alter" /\ op'[g] = Idle => Kept(g)]_rootVars
  BY <1>1
<1>3. RootSpec => [][\A g \in G : op[g].kind = "alter" /\ op'[g] = Idle => Kept(g)]_rootVars
  BY <1>2, RootInvariance, PTL DEF RootSpec
<1> QED
  BY <1>3 DEF AlterationsSerialised, Kept
=============================================================================
