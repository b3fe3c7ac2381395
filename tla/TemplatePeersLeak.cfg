SPECIFICATION Spec
CONSTANTS
  c1 = c1
  c2 = c2
  t1 = t1
  t2 = t2
  t3 = t3
  Clients = {c1, c2}
  Threads = {t1, t2}
  Owner <- OwnerPeers
  Readers = {t1}
  Writers = {t2}
  Exporters = {}
  PageCount = 1
  Offsets = {1}
  Layers <- BaseOnly
  Failures = {}
  EarlyTouch = FALSE
  Absent = Absent
  Zero = Zero
  NoRead = NoRead
INVARIANT
  TemplateReadOnly
CHECK_DEADLOCK FALSE
