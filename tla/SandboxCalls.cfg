CONSTANTS
  c1 = c1
  c2 = c2
  c3 = c3
  r1 = r1
  r2 = r2
  NoRecord = NoRecord
  Calls = {c1, c2}
  Ids = {"a"}
  Records = {r1, r2}
  Ops = {"start", "stop", "wait", "shutdown", "update", "query"}
SPECIFICATION ControllerFairSpec
INVARIANTS
  NeverClosedTwice
PROPERTIES
  RemovedIsStopped
  StopEndsWait
  DrainEnds
CHECK_DEADLOCK FALSE
