SPECIFICATION Spec
CONSTANTS
  CPUs = {c0, c1}
  BootCpu = c0
  NPROC = 2
  None = None
  Sleep = 1
INVARIANTS ChecksPass OneCpuPerProcess NoLostWakeup
