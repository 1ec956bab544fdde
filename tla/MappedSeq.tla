----------------------------- MODULE MappedSeq -----------------------------
(***************************************************************************)
(* The elements of map over a sequence that is there                       *)
(* (pkg/lang/mappedseq.go).  Seq, First and Next all begin with            *)
(* realizeValue, which applies the function within a once.                 *)
(***************************************************************************)
EXTENDS Calls

CONSTANTS
  MappedSeqs,   \* mapped sequences
  MappedValues  \* what their functions may return

ASSUME MappedAssumption == MappedSeqs \subseteq Objects

VARIABLE mapped  \* the fields of each; once is the goroutine in valueOnce.Do

NewMappedSeq == [once |-> NoOne, value |-> Nil]

MappedInit == mapped = [m \in MappedSeqs |-> NewMappedSeq]

RealizeCall(m) == [kind |-> "map", at |-> "once", obj |-> m]
Mapping(g, at) == InCall(g, "map", at)

-----------------------------------------------------------------------------
EnterValueOnce(g) ==
  LET m == op[g].obj
  IN /\ Mapping(g, "once") /\ mapped[m].once = NoOne
     /\ mapped' = [mapped EXCEPT ![m].once = g]
     /\ Goto(g, "apply")

FunctionReturns(g) ==
  /\ Mapping(g, "apply")
  /\ \E v \in MappedValues :
       mapped' = [mapped EXCEPT ![op[g].obj] = [once |-> OnceDone, value |-> v]]
  /\ Goto(g, "once")

\* The panic ends the once, and leaves nil for those who come later.
FunctionPanics(g) ==
  /\ Mapping(g, "apply")
  /\ mapped' = [mapped EXCEPT ![op[g].obj].once = OnceDone]
  /\ Panic(g)

MappedResult(g) ==
  /\ Mapping(g, "once") /\ mapped[op[g].obj].once = OnceDone
  /\ Return(g, mapped[op[g].obj].value)
  /\ UNCHANGED mapped

MappedStep(g) ==
  \/ EnterValueOnce(g)
  \/ FunctionReturns(g)
  \/ FunctionPanics(g)
  \/ MappedResult(g)
=============================================================================
