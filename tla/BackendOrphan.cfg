CONSTANTS
  p1 = p1
  p2 = p2
  p3 = p3
  g1 = g1
  g2 = g2
  NoApp = NoApp
  Processes <- ThreeProcesses
  Instances <- TwoInstances
  Unclosable <- None
  Faults <- NoFault
SPECIFICATION Spec
INVARIANTS NoOrphan
