SPECIFICATION Spec
CONSTANTS
  Jobs = {j1, j2, j3}
  Pins <- MCPins
  Commits = {"c1", "c2"}
  Emissions = {"e1", "e2"}
  Versions = {"v1", "v2"}
  Tarballs = {"t1", "t2", "t3"}
  Reports <- MCReports
  None = None
SYMMETRY JobSymmetry
INVARIANTS
  GreenProves
  CacheIsChecked
CHECK_DEADLOCK FALSE
