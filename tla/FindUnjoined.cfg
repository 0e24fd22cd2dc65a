CONSTANTS
  Worker = {w1}
  Fetch = {f1}
  MaxAsync = 1
  MaxQueue = 1
  MaxCalls = 3
SPECIFICATION LifecycleSpec
INVARIANTS JoinsEverything
CHECK_DEADLOCK FALSE
