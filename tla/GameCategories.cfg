SPECIFICATION Spec
CONSTANTS
  n1 = n1
  n2 = n2
  Name = {n1, n2}
  MaxCats = 4
  p1 = p1
  p2 = p2
  Proc = {p1, p2}
  MaxRequests = 3
  Databases = {"sqlite", "postgres"}
  Ops = {"upload", "edit", "merge", "separate"}
  NoProc = NoProc
SYMMETRY MCSymmetry
INVARIANTS
  NamesHaveACategory
  SeparationLeavesAName
  MapIsCurrent
PROPERTIES
  EditsAreKept
CHECK_DEADLOCK FALSE
