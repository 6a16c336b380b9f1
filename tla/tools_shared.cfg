SPECIFICATION Spec
CONSTANTS
  Call = {c1,c2}
  Callback <- Both
  None = None
  Sync = {c1}
  Watching = {c1,c2}
  Timed = {c1,c2}
  Workers = 1
  Limit = 1
  Shared = TRUE
  Shutdown = FALSE
  MaxFaults = 2
INVARIANTS CountsExact CancelWins
CHECK_DEADLOCK FALSE
