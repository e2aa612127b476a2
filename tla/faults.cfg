SPECIFICATION KillsSpec
CONSTANTS
  MAX_TASKS = 2
  p1 = p1
  Pairs = {p1}
  NoPair = NoPair
  Free = Free
  Resources = {0, 1}
  Jobs <- KillJobs
  ChangedPriorities = {}
  QUANTUM = 2
  AGING_TICKS = 2
  INT_MAX = 100
  MaxEvents = 1
  MayFail = TRUE
INVARIANTS
  UnlockedIsSound
  NobodyStuck
PROPERTIES
  StopReturns
