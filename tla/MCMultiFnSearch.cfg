\* Every hierarchy over four dispatch values and every set of at most two preferences.
CONSTANTS
  a = a
  b = b
  c = c
  d = d
  DispatchVals <- FourVals
  Default = Default
  NoMethod = NoMethod
  Ambiguous = Ambiguous
  MaxPrefs = 2
SPECIFICATION SearchSpec
SYMMETRY Symmetry
INVARIANTS SearchTypeOK MostSpecificWins AmbiguityIsReal UncontestedPreferenceDecides
\* The search ends.
CHECK_DEADLOCK FALSE
