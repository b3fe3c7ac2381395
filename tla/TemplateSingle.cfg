SPECIFICATION Spec
CONSTANTS
  c1 = c1
  c2 = c2
  t1 = t1
  t2 = t2
  t3 = t3
  Clients = {c1}
  Threads = {t1}
  Owner <- OwnerOne
  Readers = {t1}
  Writers = {t1}
  Exporters = {t1}
  PageCount = 3
  Offsets = {1, 2}
  Layers <- BaseAndDelta
  Failures = {"poll", "read_page", "copy", "snapshot", "writeprotect", "remap", "wake"}
  EarlyTouch = FALSE
  Absent = Absent
  Zero = Zero
  NoRead = NoRead
INVARIANTS
  CheckpointExact
PROPERTY
  CowSpec
CHECK_DEADLOCK FALSE
