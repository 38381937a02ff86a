CONSTANTS
  Paths = {p1}
  Contents = {c1, c2}
  Blank = Blank
  EmptyDir = EmptyDir
  Absent = Absent
  Loaders = {l1, l2}
  MaxTime = 4
SYMMETRY Symmetry
SPECIFICATION Spec
INVARIANTS
  TypeOK
  LatestIsActive
  LatestIsComplete
  SaveNeverAborts
  LoadIsWholeOrTorn
PROPERTY
  ParentIsReplaced
CHECK_DEADLOCK FALSE
