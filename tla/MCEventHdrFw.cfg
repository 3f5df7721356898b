CONSTANTS c1 = c1  c2 = c2  Callers = {c1}  Updaters = {"u1"}  NumHdrs = 2  Flags <- MCFlags
  OtherHost = FALSE  MaxCalls = 1
SPECIFICATION Spec
PROPERTIES NoEventLost
CHECK_DEADLOCK FALSE
