\* Two goroutines, three namespaces, two symbols.
CONSTANTS
  g1 = g1
  g2 = g2
  user = user
  core = core
  lib = lib
  x = x
  y = y
  al = al
  G <- TwoGoroutines
  Namespaces <- ThreeNamespaces
  Symbols <- TwoSymbols
  Aliases <- OneAlias
  Seeded <- OneSeeded
  Defined <- OneDefined
  Exclusions <- NoneOrX
  Refers <- Referring
  RefLists <- OneList
  HostClass = HostClass
  None = None
  MaxOps = 4
SPECIFICATION Spec
SYMMETRY Symmetry
INVARIANTS TypeOK LookupsAgree
PROPERTY ImplementsNamespaceMaps
\* No more operations may be begun.
CHECK_DEADLOCK FALSE
