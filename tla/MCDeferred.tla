----------------------------- MODULE MCDeferred -----------------------------
(* Instances of Deferred for TLC: each lazy sequence but the last returns the *)
(* next one.                                                                  *)
EXTENDS Deferred, TLC

CONSTANTS g1, g2, w, outer, inner, last, coll, elem, delayed, promised, fut, x, y, e1, e2

Goroutines == {g1, g2, w}
TheWorker == {w}
TheFuture == w :> fut
AllObjects == {outer, inner, last, elem, delayed, promised, fut}
ThreeLazySeqs == {outer, inner, last}
OneColl == {coll}
NextOrColl == (outer :> {inner}) @@ (inner :> {last, Nil}) @@ (last :> {coll})
OneMapped == {elem}
OneValue == {x}
OneDelay == {delayed}
TwoValues == {x, y}
OnePromise == {promised}
TwoExceptions == {e1, e2}
XOrNil == {x, Nil}
=============================================================================
