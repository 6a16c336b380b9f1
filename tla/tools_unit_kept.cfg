SPECIFICATION Spec
CONSTANTS
  Call = {c1,c2}
  Callback <- Both
  None = None
  Sync = {}
  Watching = {}
  Timed = {}
  Workers = 1
  Limit = 1
  Shared = TRUE
  Shutdown = FALSE
  MaxFaults = 0
INVARIANTS CancelReturnsUnit
CHECK_DEADLOCK FALSE
