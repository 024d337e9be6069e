SPECIFICATION Spec
CONSTANTS
  c1 = c1
  c2 = c2
  owner = owner
  guest = guest
  Clip = {c1, c2}
  User = {owner, guest}
  OwnerOf <- MCOwnerOf
  Admins = {}
  p1 = p1
  p2 = p2
  Proc = {p1, p2}
  Databases = {"sqlite", "postgres"}
  Workloads <- MCWorkloads
  BulkOrders <- MCBulkOrders
  CommentLimit = 2
  MaxComments = 3
INVARIANTS
  AnswersHold
  AuditMatchesChanges
  ThreadsAreSound
PROPERTIES
  BulkIsWhole
  EveryRequestIsAnswered
CHECK_DEADLOCK FALSE
