\* Two goroutines and the worker of a future, lazy sequences that return one another,
\* an element of map, a delay and a promise; two calls.
CONSTANTS
  g1 = g1
  g2 = g2
  w = w
  outer = outer
  inner = inner
  last = last
  coll = coll
  elem = elem
  delayed = delayed
  promised = promised
  fut = fut
  x = x
  y = y
  e1 = e1
  e2 = e2
  G <- Goroutines
  Workers <- TheWorker
  FutureOf <- TheFuture
  Objects <- AllObjects
  LazySeqs <- ThreeLazySeqs
  Colls <- OneColl
  Returns <- NextOrColl
  MappedSeqs <- OneMapped
  MappedValues <- OneValue
  Delays <- OneDelay
  DelayValues <- TwoValues
  Promises <- OnePromise
  Delivered <- XOrNil
  NoOne = NoOne
  Nil = Nil
  Exceptions <- TwoExceptions
  TimedOut = TimedOut
  MaxCalls = 2
SPECIFICATION Spec
INVARIANT LazySeqCachesResult
CHECK_DEADLOCK FALSE
