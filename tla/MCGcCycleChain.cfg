SPECIFICATION Spec
CONSTANTS
  t1 = t1  t2 = t2  a = a  b = b  c = c  S = S  Null = Null
  Threads <- TwoThreads
  Objects <- AandB
  Statics <- OneStatic
  Kinds = {"store", "publish", "root", "cas", "fill"}
  Mem0 <- HeapSab
  Locals0 <- NoLocals
  Returning <- FirstReturns
  MaxStores = 1
PROPERTY GarbageComesBack
CHECK_DEADLOCK FALSE
