SPECIFICATION LiveSpec
CONSTANTS
  NPROC = 5
  Pages = 8
  MaxPid = 6
  KillArgs = {3, 4}
INVARIANTS Family WaitersHaveReason
PROPERTIES ZombiesReaped
CHECK_DEADLOCK FALSE
