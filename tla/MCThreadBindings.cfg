\* Two goroutines, a dynamic and a static Var, stacks of at most two frames.
CONSTANTS
  g1 = g1
  g2 = g2
  d = d
  a = a
  G <- TwoGoroutines
  Vars <- BothVars
  DynamicVars <- OnlyD
  Values <- TwoValues
  Forms <- SomeForms
  MaxDepth = 2
  NoOne = NoOne
SPECIFICATION Spec
SYMMETRY Symmetry
INVARIANTS TypeOK CountTracksFrames FastPathSound StoragePrivate DynamicBindingsRestored
PROPERTY ConveyedIsSnapshot
