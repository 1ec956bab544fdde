\* Two goroutines, three dispatch values, three changes.
CONSTANTS
  g1 = g1
  g2 = g2
  a = a
  b = b
  c = c
  m1 = m1
  m2 = m2
  G <- TwoGoroutines
  DispatchVals <- Vals
  Methods <- TwoMethods
  Keys <- AandB
  Additions <- OneMethodEach
  Dispatched <- OnlyC
  Hierarchies <- SomeHierarchies
  Default = b
  NoMethod = NoMethod
  Ambiguous = Ambiguous
  NoHierarchy = NoHierarchy
  MaxChanges = 3
SPECIFICATION FairSpec
INVARIANTS TypeOK CacheCoherent DispatchLinearizable
PROPERTY DispatchReturns
