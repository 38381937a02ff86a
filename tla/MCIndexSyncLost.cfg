CONSTANTS
  Paths = {p1}
  Contents = {c1}
  Blank = Blank
  EmptyDir = EmptyDir
  Absent = Absent
  JobIds = {j1, j2, j3}
  UniqueStates = {"available", "running", "retryable", "completed"}
  MaxAttempts = 2
  Procs = {w1}
  NoProc = NoProc
  Embedder = TRUE
  MaxTime = 2
  MaxEdits = 0
  MaxFaults = 1
SYMMETRY Symmetry
SPECIFICATION Spec
INVARIANTS
  SyncedIndexIsFresh
