CONSTANTS
  Paths = {p1}
  Contents = {c1}
  Blank = Blank
  EmptyDir = EmptyDir
  Absent = Absent
  JobIds = {j1, j2, j3}
  UniqueStates = {"available", "running", "retryable", "completed"}
  MaxAttempts = 2
  Procs = {w1, w2}
  NoProc = NoProc
  Embedder = TRUE
  MaxTime = 3
  MaxEdits = 2
  MaxFaults = 1
SYMMETRY Symmetry
SPECIFICATION Spec
INVARIANTS
  TypeOK
  DiffBaseIsLatest
  NoLostReplace
  DriftIsExplained
PROPERTIES
  ReplaceIsIncremental
