SPECIFICATION Spec
CONSTANTS
  p1 = p1
  p2 = p2
  NoProc = NoProc
  Procs = {p1, p2}
  FSSIZE = 16
  BSIZE = 2
  NLOG = 1
  NINODES = 5
  IPB = 2
  BPB = 17
  NDIRECT = 2
  MAXOPBLOCKS = 8
  Images <- MadeByMkfs
  Sizes = {1, 7}
  MaxCalls = 3
  MaxCrashes = 1
SYMMETRY Symmetry
INVARIANTS OneOwner DurableSound OpFits ContentsAsWritten PanicsOnlyWhenFull
CHECK_DEADLOCK FALSE
