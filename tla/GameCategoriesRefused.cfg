SPECIFICATION Spec
CONSTANTS
  n1 = n1
  n2 = n2
  Name = {n1, n2}
  MaxCats = 2
  p1 = p1
  p2 = p2
  Proc = {p1, p2}
  MaxRequests = 2
  Databases = {"sqlite", "postgres"}
  Ops = {"upload"}
  NoProc = NoProc
SYMMETRY MCSymmetry
INVARIANT
  FailedUploadsLeaveNoCategory
CHECK_DEADLOCK FALSE
