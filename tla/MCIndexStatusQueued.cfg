CONSTANTS
  JobIds = {j1, j2, j3}
  Kinds = {"sync", "index"}
  NoPayload = 0
  Payloads = {0, 1, 2}
  UniqueStates = {"available", "running", "retryable", "completed"}
  MaxAttempts = 2
  MaxClock = 9
  MaxSaves = 2
SYMMETRY Symmetry
SPECIFICATION StatusSpec
INVARIANTS
  QueuedAnswerIsTrue
