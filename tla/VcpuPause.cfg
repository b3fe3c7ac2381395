SPECIFICATION FairSpec
CONSTANTS NCpus = 2  Kinds <- OneAtATime
INVARIANTS PausedStopsVcpus NoOrphanThread
PROPERTY RequestsReturn
CHECK_DEADLOCK FALSE
