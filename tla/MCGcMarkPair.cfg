SPECIFICATION Spec
CONSTANTS
  Objects <- PairObjects
  Pages <- MCPages
  PageOf <- PairPageOf
  Field0 <- PairField0
  Roots <- PairRoots
  Mutable <- PairObjects
  NewValues = {"Null"}
  Executors = {e1,e2}
  Mutators = {m1}
  RingSize = 2
  Batch = 2
  MaxWrites = 1
  Null = "Null"
INVARIANTS OneOwner ClaimedEntryComes
CHECK_DEADLOCK FALSE
