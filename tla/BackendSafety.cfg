CONSTANTS
  p1 = p1
  p2 = p2
  p3 = p3
  g1 = g1
  g2 = g2
  NoApp = NoApp
  Processes <- ThreeProcesses
  Instances <- TwoInstances
  Unclosable <- OneOfEach
  Faults <- AllFaults
SPECIFICATION Spec
INVARIANTS TypeOK ReferencesAgree
PROPERTIES SuccessReleases OrphanedOnlyByFailedDisconnect
