SPECIFICATION Spec
CONSTANTS
  Stream = {s1,s2,s3}
  Thread = {t1}
  Uri = {u1}
  MaxList = 1
  Expires = TRUE
  None = None
INVARIANTS NoChangeLost
CHECK_DEADLOCK FALSE
