CONSTANTS
  Worker = {w1, w2}
  Fetch = {f1, f2, f3}
  MaxAsync = 2
  MaxQueue = 2
  MaxCalls = 4
SPECIFICATION FairLifecycleSpec
INVARIANTS LifecycleTypeOK NothingOutlivesShutdown
PROPERTIES StopIsForGood CallsReturn
CHECK_DEADLOCK FALSE
