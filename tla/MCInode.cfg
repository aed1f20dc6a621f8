SPECIFICATION TreeSpec
CONSTANTS
  p1 = p1
  p2 = p2
  NoProc = NoProc
  Procs = {p1, p2}
  NINODES = 3
  Names = {"a", "b"}
  Calls <- TwoProcesses
INVARIANTS NlinkCounts RefCounts InUseAllocated
CHECK_DEADLOCK FALSE
