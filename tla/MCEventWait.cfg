CONSTANTS Waiters = {"w1", "w2"}  Backends = {"poll", "gas"}  Timeouts = {0, 2}  Period = 1
  MaxTime = 6  MaxEvents = 2  MaxCalls = 1
SPECIFICATION FairSpec
INVARIANTS TimeoutBounded
PROPERTIES OneMeansOccurred OccurredEndsWait
CHECK_DEADLOCK FALSE
