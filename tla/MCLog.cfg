SPECIFICATION Spec
CONSTANTS
  Procs = {p1, p2}
  Blocks = {b1, b2, b3, b4, b5}
  Data = {d1, d2}
  NoBuf = NoBuf
  LOGSIZE = 5
  MAXOPBLOCKS = 2
  LogRegion = 6
  OpBlocks = 1
SYMMETRY Symmetry
INVARIANTS NoPanic NoLostWakeup
PROPERTIES Atomic
CHECK_DEADLOCK FALSE
