SPECIFICATION Spec
CONSTANTS
  MAX_TASKS = 4
  Priorities = {0, 1}
INVARIANTS
  TypeOK
  RingIsAnArc
  RemovedIsGone
PROPERTIES
  IsTaskQueue
  LoopsKeepQueue
