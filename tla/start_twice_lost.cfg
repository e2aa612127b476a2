SPECIFICATION Spec
CONSTANTS
  MAX_TASKS = 2
  p1 = p1
  p2 = p2
  Pairs = {p1, p2}
  NoPair = NoPair
  Free = Free
  Resources = {0, 1}
  Jobs <- TwoReady
  ChangedPriorities = {}
  QUANTUM = 2
  AGING_TICKS = 2
  INT_MAX = 100
  MaxEvents = 1
  MayFail = FALSE
INVARIANTS
  OnlyReadyAssigned
