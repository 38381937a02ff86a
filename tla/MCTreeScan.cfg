CONSTANTS
  Paths <- MCPaths
  Root = "root"
  Parent <- MCParent
  IndexableFiles = {"x", "y"}
  SkippedDirs = {"v"}
  Contents = {"small", "other", "large"}
  SizeOf <- MCSizeOf
  Dir = Dir
  None = None
  MaxEdits = 3
  MaxScans = 3
SPECIFICATION Spec
INVARIANTS
  TypeOK
  DeltasCompose
  QuietScanIsFaithful
PROPERTY
  DiffIsExact
CHECK_DEADLOCK FALSE
