\* Two vectors and two transients; arrays of two, so that trees of seven elements have three
\* levels.
CONSTANTS
  s1 = s1
  s2 = s2
  t1 = t1
  t2 = t2
  Slots <- TwoSlots
  Transients <- TwoTransients
  NodeSize = 2
  Nil = Nil
  Sizes <- UpTo7
  Positions <- FirstLeaves
  MaxCount = 8
  MaxOps = 4
SPECIFICATION Spec
SYMMETRY Symmetry
INVARIANTS TypeOK VectorsKeepElements TransientKeepsElements
\* No more operations may be made.
CHECK_DEADLOCK FALSE
