CONSTANTS
  s1 = s1
  s2 = s2
  NoScan = NoScan
  Sources <- TwoSources
  RayCounts = {1}
  TraceLimits = {1}
  Databases <- SmallDatabases
  RayLimits = {0}
  SegmentLimits = {0}
  MaxRuntime = 0
  PointLimits = {1, 3}
  SeriesLengths = {0}
  GridShapes <- RealShapes
  MaxGridCells = 20000
  Wavelengths = {1}
SPECIFICATION Spec
INVARIANT GridFits
