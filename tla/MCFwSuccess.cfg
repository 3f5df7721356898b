CONSTANTS Updaters = {"u1"}  NBlocks = 2  MaxTries = 2  MaxCalls = 1
  Faults = {{"mrpc_err"}}
SPECIFICATION Spec
INVARIANTS SuccessMeansWritten
CHECK_DEADLOCK FALSE
