\* Two goroutines, two values.
CONSTANTS
  g1 = g1
  g2 = g2
  G <- TwoGoroutines
  Values <- TwoValues
  Calls <- SomeCalls
  Validators <- SomeValidators
  Idle = Idle
  Pending = Pending
  Refused = Refused
SPECIFICATION Spec
SYMMETRY Symmetry
INVARIANTS TypeOK ValueAccepted CasFailureJustified
PROPERTIES ImplementsAtomicReference WatchesHearTheChange
