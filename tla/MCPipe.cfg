SPECIFICATION LiveSpec
CONSTANTS
  p1 = p1
  p2 = p2
  Procs = {p1, p2}
  Killable = {p2}
  PIPESIZE = 2
  WORD = 4
  Byte = {0, 1}
  MaxN = 2
INVARIANTS WritersHaveReason PageReachable
PROPERTIES StreamSpec ClosedEndReleases
CHECK_DEADLOCK FALSE
