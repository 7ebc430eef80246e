CONSTANTS
  p1 = p1
  p2 = p2
  g1 = g1
  g2 = g2
  c1 = c1
  c2 = c2
  NoApp = NoApp
  NoCaller = NoCaller
  Processes <- OneProcess
  Instances <- OneInstance
  Callers <- TwoCallers
  Closers <- OneCaller
  Interruptible <- OneCaller
  Saves <- NoSave
  Faults <- NoFault
  Unclosable <- Nobody
  DefaultInstance = g1
  OwnsExecutor = TRUE
  DefaultMode = "extension"
  MaxOps = 2
SPECIFICATION FairSpec
PROPERTY OperationsReturn
CHECK_DEADLOCK FALSE
