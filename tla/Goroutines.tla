----------------------------- MODULE Goroutines -----------------------------
(* The goroutines that run code compiled ahead of time. *)
CONSTANTS
  G,     \* goroutines
  NoOne  \* not a goroutine: goid 0, or a lock that nobody holds

ASSUME GoroutineAssumption == NoOne \notin G
=============================================================================
