SPECIFICATION FairSpec
CONSTANTS
  Call = {c1,c2}
  Callback <- Both
  None = None
  Sync = {c1}
  Watching = {c1}
  Timed = {c1,c2}
  Workers = 1
  Limit = 1
  Shared = FALSE
  Shutdown = TRUE
  MaxFaults = 1
INVARIANTS CountsExact StoppedNotAnswered NoneForgotten
PROPERTIES DrainedIsQuiet LateFinishAudited TimedCallAnswered DrainEnds
CHECK_DEADLOCK FALSE
