CONSTANTS
  NPaths = 2
  Contents <- MCContents
  Absent = Absent
  TopKInputs = {0, 4}
  DefaultTopK = 2
  MaxStoreTopK = 3
  MaxAttempts = 2
  MaxEdits = 2
  MaxSaves = 3
SPECIFICATION Spec
INVARIANTS
  TypeOK
  VectorsMatchTexts
  FilesAreWhole
  IndexIsRebuild
  MergesAgree
PROPERTIES
  ReadyAnswerIsRecent
  AnswerIsBest
