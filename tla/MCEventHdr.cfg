CONSTANTS c1 = c1  c2 = c2  Callers <- MCCallers  Updaters = {"u1"}  NumHdrs = 2  Flags <- MCFlags
  OtherHost = TRUE  MaxCalls = 1
SPECIFICATION Spec
SYMMETRY Alike
INVARIANTS TypeOK AsAsked
PROPERTIES CtlLosesNoEvent
CHECK_DEADLOCK FALSE
