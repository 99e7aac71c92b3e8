SPECIFICATION Spec
CONSTANTS
  Objects <- MCObjects
  Pages <- MCPages
  PageOf <- MCPageOf
  Field0 <- MCField0
  Roots <- MCRoots
  Mutable <- MCObjects
  NewValues = {"Null", "b2"}
  Executors = {e1}
  Mutators = {m1}
  RingSize = 2
  Batch = 2
  MaxWrites = 2
  Null = "Null"
INVARIANTS TypeOK MarkNotForgotten
PROPERTY ImplementsSatb
CHECK_DEADLOCK FALSE
