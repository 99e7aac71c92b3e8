SPECIFICATION Spec
CONSTANTS
  Objects <- WideObjects
  Pages <- WidePages
  PageOf <- WidePageOf
  Field0 <- WideField0
  Roots <- WideRoots
  Mutable <- WideMutable
  NewValues = {"Null"}
  Executors = {e1}
  Mutators = {m1}
  RingSize = 1
  Batch = 1
  MaxWrites = 2
  Null = "Null"
INVARIANT SnapshotKept
CHECK_DEADLOCK FALSE
