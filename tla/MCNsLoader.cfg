\* Three goroutines, two loaders, four calls from outside.
CONSTANTS
  g1 = g1
  g2 = g2
  g3 = g3
  a = a
  b = b
  G <- ThreeGoroutines
  Loaders <- TwoLoaders
  Deps <- Chain
  NoOne = NoOne
  MaxCalls = 4
SPECIFICATION FairSpec
INVARIANTS TypeOK ExclusiveBody LazyLoadsOnce WaitersHaveALoader
PROPERTIES LazyReturnsLoaded CallsReturn
\* Every call may have returned and no more be made.
CHECK_DEADLOCK FALSE
