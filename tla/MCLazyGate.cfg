SPECIFICATION Spec
CONSTANTS
  Stubs <- MCStubs
  Acts <- MCActs
  Target <- MCTarget
  Parent <- MCParent
  Rank <- MCRank
  Null = "NULL"
  Held = "HELD"
  Done = "DONE"
INVARIANTS TypeOK OneHolder InitOnce ClosureThere ResumedOnce WaiterReachable NeverStuck
PROPERTY ImplementsOnceCell
CHECK_DEADLOCK FALSE
