SPECIFICATION Spec
CONSTANTS
  Stream = {s1,s2,s3}
  Thread = {t1,t2}
  Uri = {u1}
  MaxList = 1
  Expires = TRUE
  None = None
INVARIANTS NewestWrites UpdateKept EndLeavesNothing
SYMMETRY Symm
CHECK_DEADLOCK FALSE
