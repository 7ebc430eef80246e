CONSTANTS
  c1 = c1
  c2 = c2
  w1 = w1
  w2 = w2
  NoThread = NoThread
  STOP = STOP
  Workers <- OneWorker
  Callers <- TwoCallers
  Closers <- CallerAndWorkerClose
  MaxOps = 2
SPECIFICATION FairSpec
PROPERTIES AcceptedBeforeShutdownCompletes ShutdownReturns
CHECK_DEADLOCK FALSE
