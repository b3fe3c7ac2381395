SPECIFICATION FairSpec
CONSTANTS
  c1 = c1
  c2 = c2
  t1 = t1
  t2 = t2
  t3 = t3
  Clients = {c1, c2}
  Threads = {t1, t2, t3}
  Owner <- OwnerMixed
  Readers = {}
  Writers = {t1, t2, t3}
  Exporters = {}
  PageCount = 1
  Offsets = {1}
  Layers <- BaseOnly
  Failures = {"read_page", "crash"}
  EarlyTouch = TRUE
  Absent = Absent
  Zero = Zero
  NoRead = NoRead
INVARIANTS
  IInv
PROPERTIES
  FaultResolved
  StopReturns
CHECK_DEADLOCK FALSE
