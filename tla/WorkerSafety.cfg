CONSTANTS
  s1 = s1
  s2 = s2
  NoScan = NoScan
  Sources <- TwoSources
  RayCounts = {3}
  TraceLimits = {1, 4}
  Databases <- SmallDatabases
  RayLimits = {0, 2, 3}
  SegmentLimits = {0, 2, 3}
  MaxRuntime = 2
  PointLimits = {1, 3}
  SeriesLengths = {0, 2, 6}
  GridShapes <- SmallShapes
  MaxGridCells = 6
  Wavelengths = {1, 2}
SPECIFICATION FairSpec
INVARIANTS TypeOK ClosedWhenStopped TraceWithinLimit CountsRestored UntruncatedIsWhole EverythingClosed OnlyFinishedData LensRestored SeriesKeepsEnds
PROPERTIES LeftBehind TimedToolEnds PolledAnalysisEnds
