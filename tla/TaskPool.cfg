SPECIFICATION Spec
CONSTANTS
  NWorkers = 3
  IoThreads = {io1, io2}
  Tasks = {t1, t2}
  PerWorker = 1
  PostModulus = 4
  MaxCompletes = 2
  None = None
INVARIANTS TypeOK OnePlace NoLostContinuation NoSleepOnWork CountExact
PROPERTY ImplementsContinuation
CHECK_DEADLOCK FALSE
