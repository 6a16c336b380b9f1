SPECIFICATION FairSpec
CONSTANTS
  Stream = {s1,s2,s3}
  Thread = {t1}
  Uri = {u1}
  MaxList = 1
  Expires = FALSE
  None = None
INVARIANTS NoChangeLost
PROPERTIES ChangeTold UpdateTold HandEnds
CHECK_DEADLOCK FALSE
