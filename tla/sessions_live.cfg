SPECIFICATION FairSpec
CONSTANTS
  Kind = "sse"
  Session = {s1}
  Endpoint = {e1,e2,e3}
  Request = {r1}
  e1 = e1
  e2 = e2
  e3 = e3
  w1 = w1
  w2 = w2
  WorkerOf <- WithSibling
  None = None
  Cap = 1
  MaxFaults = 1
  ReplyLoss = FALSE
  Crashes = FALSE
  StoreLoss = TRUE
INVARIANTS CloseAccounted
PROPERTIES OrphansEnd EndReachesStore
CHECK_DEADLOCK FALSE
