CONSTANTS
  p1 = p1
  p2 = p2
  p3 = p3
  o1 = o1
  o2 = o2
  o3 = o3
  v1 = v1
  v2 = v2
  None = None
  Procs = {p1, p2, p3}
  Ids = {1, 2}
  Objects = {o1, o2, o3}
  Vmas = {v1, v2}
  Ops = {"refuse", "fork", "status"}
  MaxRef = 2
SPECIFICATION Spec
SYMMETRY Symmetry
INVARIANTS
  UniqueIds
  NoUseAfterFree
  MappedTemplateKept
PROPERTY OnlyDeleteUnlists
CHECK_DEADLOCK FALSE
