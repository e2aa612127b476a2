SPECIFICATION Spec
CONSTANTS
  t1 = t1
  n1 = n1
  n2 = n2
  Names = {n1, n2}
  Threads = {t1}
  MaxSegments = 2
  MaxPairs = 2
  Failing = {"open", "map", "sync", "fork", "attach"}
  InTurn = TRUE
  MayCrash = TRUE
  LateBoot = FALSE
INVARIANTS
  TypeOK
  OwnSegment
  CallsUseMapped
  NothingLeft
  AwaitedAreTold
PROPERTY
  SyncKeptWhileUsed
