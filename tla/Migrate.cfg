SPECIFICATION FairSpec
CONSTANTS
  Pages = {p1, p2, p3}
  Workers = {w1, w2}
  QueueSize = 2
  Gate = Gate
  Disconnect = Disconnect
  MaxIterations = 2
  Failures = {"handle", "connection", "send", "pause", "snapshot", "stop_dirty_log", "complete_migration", "resume"}
INVARIANTS MemoryComplete OneRuns VmSurvives LocksHandedOver
PROPERTY SendReturns
CHECK_DEADLOCK FALSE
