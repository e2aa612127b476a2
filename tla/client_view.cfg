SPECIFICATION Spec
CONSTANTS
  MAX_TASKS = 3
  p1 = p1
  Pairs = {p1}
  NoPair = NoPair
  Free = Free
  NotFound = NotFound
  Resources = {0, 1}
  Jobs <- ViewJobs
  ChangedPriorities = {}
  QUANTUM = 2
  AGING_TICKS = 1
  INT_MAX = 100
  MaxEvents = 1
  MayFail = FALSE
INVARIANT
  SizesFitStates
PROPERTIES
  IsLifecycle
  EveryTaskEnds
