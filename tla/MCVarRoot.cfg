\* Two goroutines, a dynamic and a static Var, three roots in each.
CONSTANTS
  g1 = g1
  g2 = g2
  d = d
  s = s
  G <- TwoGoroutines
  Vars <- BothVars
  DynamicVars <- OnlyD
  Values <- TwoValues
  Compiled = 1
  F <- Flip
  MaxVersion = 2
  NoOne = NoOne
  Unbound = Unbound
SPECIFICATION RootSpec
SYMMETRY Symmetry
INVARIANTS RootTypeOK CachedFnCurrent VersionIdentifiesRoot
PROPERTY AlterationsSerialised
CHECK_DEADLOCK FALSE
