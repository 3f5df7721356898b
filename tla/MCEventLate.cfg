CONSTANTS Waiters = {"w1"}  Backends = {"poll"}  Timeouts = {3}  Period = 1
  MaxTime = 8  MaxEvents = 3  MaxCalls = 1
SPECIFICATION Spec
INVARIANTS TimeoutHonoured
CHECK_DEADLOCK FALSE
