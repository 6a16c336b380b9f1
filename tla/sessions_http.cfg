SPECIFICATION Spec
CONSTANTS
  Kind = "http"
  Session = {s1}
  Endpoint = {e1,e2}
  Request = {r1,r2}
  e1 = e1
  e2 = e2
  e3 = e3
  w1 = w1
  w2 = w2
  WorkerOf <- TwoWorkers
  None = None
  Cap = 1
  MaxFaults = 2
  ReplyLoss = TRUE
  Crashes = TRUE
  StoreLoss = FALSE
INVARIANTS NoneServedTooLate HoldsCounted
PROPERTIES ImplementsLifecycle
SYMMETRY Symm
CHECK_DEADLOCK FALSE
