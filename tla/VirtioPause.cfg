SPECIFICATION WorkersFairSpec
CONSTANTS Workers = {w1, w2}
INVARIANTS QuietWhenPaused
PROPERTIES QueueServed DeviceRequestsReturn
CHECK_DEADLOCK FALSE
