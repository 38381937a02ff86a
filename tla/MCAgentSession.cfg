CONSTANTS
  Clis = {c1, c2}
  Wired = {c1}
  OneShot = {c2}
  Calls = {"a", "b", "x"}
  CustomCalls = {"x"}
  UnknownCalls = {"b"}
  CallLists <- MCCallLists
  NoCall = NoCall
  SystemPrompt = TRUE
  Retriever = TRUE
  MaxToolIterations = 2
  MaxTurns = 3
  MaxFaults = 2
SPECIFICATION Spec
INVARIANTS
  TypeOK
  SurfacedIsDurable
  HistoryAligned
  CallsAnswered
CHECK_DEADLOCK FALSE
