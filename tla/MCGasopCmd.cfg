CONSTANTS Procs = {"p1", "p2"}  Calls <- MCCalls  NumWords = 2  OnceIsOnce = TRUE
  MaxLand = 2  MaxPolls = 2  MaxCalls = 2  Faults = {"error", "slow", "ones", "die"}
SPECIFICATION FairSpec
INVARIANTS CriticalOnce OwnResponse Inv
PROPERTIES CallEnds
CHECK_DEADLOCK FALSE
