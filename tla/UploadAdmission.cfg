SPECIFICATION Spec
CONSTANTS
  p1 = p1
  p2 = p2
  Proc = {p1, p2}
  MaxRequests = 3
  k1 = k1
  Key = {k1}
  NoKey = NoKey
  Sizes = {0, 1, 5, 7}
  MaxUpload = 5
  SinglePutMax = 1
  MaxActive = 1
  Setups <- MCSetups
  PartFloor = 1
  Mib = 2
  MaxParts = 2
  S3Min = 4
SYMMETRY MCSymmetry
INVARIANTS
  LimitsHold
  MultipartsAreReachable
  PartsCoverTheFile
CHECK_DEADLOCK FALSE
