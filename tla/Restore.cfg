SPECIFICATION FairSpec
CONSTANTS
  v1 = v1
  v2 = v2
  VCpus = {v1, v2}
  Program <- TwoPrograms
  Ranges <- TwoRanges
  DEFAULT_COW_CHUNK_SIZE = 4
  Request <- Requests
  ServicePageSize = 1
  Pages = {0, 1, 2}
  Zero = Zero
  NoRead = NoRead
  NoPage = NoPage
  Ballooned = {1}
  Failures = {"serve", "exit", "register", "connect", "epoll", "copy", "unprotect", "remap", "wake"}
INVARIANTS
  HandlerNeverWaits
  ChunkPrivate
  CountersExact
PROPERTIES
  RestoredMemoryIsCow
  FaultResolved
  CallsReturn
CHECK_DEADLOCK FALSE
