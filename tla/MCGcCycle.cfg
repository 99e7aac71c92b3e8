SPECIFICATION SafeSpec
CONSTANTS
  t1 = t1  t2 = t2  a = a  b = b  c = c  S = S  Null = Null
  Threads <- TwoThreads
  Objects <- AandC
  Statics <- OneStatic
  Kinds = {"store", "publish", "root", "cas", "fill"}
  Mem0 <- HeapEmpty
  Locals0 <- T2HoldsA
  Returning <- FirstReturns
  MaxStores = 2
INVARIANTS TypeOK NothingHidden HeldNotFreed ScannedThreadHeld
PROPERTY ImplementsHeap
CHECK_DEADLOCK FALSE
