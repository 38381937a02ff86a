CONSTANTS
  Documents <- MCDocuments
  Policies <- MCPolicies
  DefaultMaxChars = 6
  DefaultMaxLines = 4
SPECIFICATION FairSpec
INVARIANTS
  TypeOK
  Coverage
  SizeBound
PROPERTIES
  CutAdvances
  Termination
CHECK_DEADLOCK FALSE
