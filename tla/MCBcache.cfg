SPECIFICATION LiveSpec
CONSTANTS
  p1 = p1
  p2 = p2
  b1 = b1
  b2 = b2
  k1 = k1
  k2 = k2
  k3 = k3
  NoBlock = NoBlock
  NoBuf = NoBuf
  NoProc = NoProc
  Procs = {p1, p2}
  Bufs = {b1, b2}
  Blocks = {k1, k2, k3}
  Value = {0, 1}
  MaxPinned = 1
  DiskErrors = TRUE
INVARIANTS OneBufferPerBlock Coherent QueueMatchesDisk
PROPERTIES RequestsFinish
CHECK_DEADLOCK FALSE
