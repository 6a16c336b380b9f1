SPECIFICATION Spec
CONSTANTS
  Kind = "sse"
  Session = {s1,s2}
  Endpoint = {e1,e2}
  Request = {r1,r2}
  e1 = e1
  e2 = e2
  e3 = e3
  w1 = w1
  w2 = w2
  WorkerOf <- TwoWorkers
  None = None
  Cap = 1
  MaxFaults = 0
  ReplyLoss = FALSE
  Crashes = FALSE
  StoreLoss = FALSE
INVARIANTS CapHeld
SYMMETRY Symm
CHECK_DEADLOCK FALSE
