SPECIFICATION Spec
CONSTANTS
  Objects <- StarObjects
  Pages <- StarPages
  PageOf <- StarPageOf
  Field0 <- StarField0
  Roots <- StarRoots
  Mutable <- StarObjects
  NewValues = {"Null"}
  Executors = {e1}
  Mutators = {m1}
  RingSize = 2
  Batch = 1
  MaxWrites = 3
  Null = "Null"
INVARIANT ClaimedEntryComes
CHECK_DEADLOCK FALSE
