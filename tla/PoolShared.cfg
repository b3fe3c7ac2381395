CONSTANTS
  v1 = v1
  v2 = v2
  f1 = f1
  f2 = f2
  e1 = e1
  e2 = e2
  NoEntry = NoEntry
  NoVma = NoVma
  MaxRef = 1
  Vmas = {v1, v2}
  Pages = {0, 1}
  PageTable <- Shared
  PagesBin = {1, 2}
  Faulters = {f1, f2}
  Entries = {e1, e2}
  Environments = {{"read", "alloc", "node"}, {"insert"}, {"create"}}
SPECIFICATION Spec
SYMMETRY Symmetry
INVARIANTS
  Deduplicated
  OwnersCounted
  MappedPageValid
CHECK_DEADLOCK FALSE
