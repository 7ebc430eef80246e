CONSTANTS
  c1 = c1
  c2 = c2
  w1 = w1
  w2 = w2
  NoThread = NoThread
  STOP = STOP
  Callers <- TwoCallers
  Workers <- TwoWorkers
  Closers <- CallerAndWorkerClose
  MaxOps = 2
SPECIFICATION Spec
INVARIANTS TypeOK OneWorkerThread WorkerNeverWaitsForItself
PROPERTY ImplementsSerialExecutor
CHECK_DEADLOCK FALSE
