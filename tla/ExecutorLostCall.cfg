CONSTANTS
  c1 = c1
  c2 = c2
  w1 = w1
  w2 = w2
  NoThread = NoThread
  STOP = STOP
  Workers <- OneWorker
  Callers <- TwoCallers
  Closers <- CallerCloses
  MaxOps = 1
SPECIFICATION FairSpec
PROPERTIES EveryCallReturns
CHECK_DEADLOCK FALSE
