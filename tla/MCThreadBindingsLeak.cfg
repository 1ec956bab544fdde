\* One goroutine is enough to lose a frame.
CONSTANTS
  g1 = g1
  g2 = g2
  d = d
  a = a
  G <- OneGoroutine
  Vars <- BothVars
  DynamicVars <- OnlyD
  Values <- TwoValues
  Forms <- SomeForms
  MaxDepth = 2
  NoOne = NoOne
SPECIFICATION Spec
INVARIANT BindingsRestored
