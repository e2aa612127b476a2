SPECIFICATION Spec
CONSTANTS
  MAX_TASKS = 3
  p1 = p1
  Pairs = {p1}
  NoPair = NoPair
  Free = Free
  NotFound = NotFound
  Resources = {}
  Jobs <- ReadyJobs
  ChangedPriorities = {0, 3}
  QUANTUM = 2
  AGING_TICKS = 2
  INT_MAX = 100
  MaxEvents = 2
  MayFail = FALSE
INVARIANT
  AgingOfReadyOnly
PROPERTIES
  HighestFirst
  AgingOnlyRaises
