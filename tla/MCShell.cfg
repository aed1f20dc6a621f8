SPECIFICATION Spec
CONSTANTS
  Procs = {0, 1, 2, 3, 4, 5, 6}
  NFILE = 6
  NOFILE = 5
  Pages = {101, 102}
  PIPESIZE = 1
  Inodes = {0, 2, 3, 4, 7, 8, 9}
  Console = 0
  MAXARGS = 3
  Scenarios <- AllScenarios
INVARIANTS FileRefs ParsesGrammar Wiring PromptAfterForeground
PROPERTY LineFinishes
CHECK_DEADLOCK FALSE
